-------------------------- MODULE OrderedSubmission --------------------------
(***************************************************************************)
(* What transport.js promises its caller, without requests, polls, timers  *)
(* or hashes: a call works through its list in order, submits the next     *)
(* transaction only once the previous one is in a block, and ends either   *)
(* with the whole list in blocks or with a rejection that leaves at most   *)
(* one transaction in doubt.                                               *)
(***************************************************************************)
EXTENDS Integers, Sequences

CONSTANTS Calls, Tx, Lists, MaxLen

VARIABLES
  list,        \* [Calls -> Seq(Tx)] the transactions of a call
  submitted,   \* [Calls -> Nat] how many were handed to the node
  confirmed,   \* [Calls -> Nat] how many of them the call knows committed
  verdict,     \* [Calls -> {"none", "pending", "resolved", "rejected"}]
  committed    \* transactions in blocks

vars == <<list, submitted, confirmed, verdict, committed>>

Init ==
  /\ list = [c \in Calls |-> <<>>]
  /\ submitted = [c \in Calls |-> 0]
  /\ confirmed = [c \in Calls |-> 0]
  /\ verdict = [c \in Calls |-> "none"]
  /\ committed = {}

\* A call starts by submitting its first transaction, or fails at once.
Start(c, l) ==
  /\ verdict[c] = "none"
  /\ list' = [list EXCEPT ![c] = l]
  /\ \/ /\ verdict' = [verdict EXCEPT ![c] = "pending"]
        /\ submitted' = [submitted EXCEPT ![c] = 1]
     \/ /\ verdict' = [verdict EXCEPT ![c] = "rejected"]
        /\ UNCHANGED submitted
  /\ UNCHANGED <<confirmed, committed>>

\* The caller adds a transaction to the list of a running call.
Extend(c, t) ==
  /\ verdict[c] = "pending" /\ Len(list[c]) < MaxLen
  /\ list' = [list EXCEPT ![c] = Append(@, t)]
  /\ UNCHANGED <<submitted, confirmed, verdict, committed>>

\* The outstanding transaction is in a block: submit the next, or finish.
Confirm(c) ==
  /\ verdict[c] = "pending"
  /\ list[c][submitted[c]] \in committed
  /\ confirmed' = [confirmed EXCEPT ![c] = submitted[c]]
  /\ \/ /\ submitted[c] < Len(list[c])
        /\ submitted' = [submitted EXCEPT ![c] = @ + 1]
        /\ UNCHANGED verdict
     \/ /\ submitted[c] = Len(list[c])
        /\ verdict' = [verdict EXCEPT ![c] = "resolved"]
        /\ UNCHANGED submitted
  /\ UNCHANGED <<list, committed>>

\* The call gives up on the outstanding transaction.
GiveUp(c) ==
  /\ verdict[c] = "pending"
  /\ verdict' = [verdict EXCEPT ![c] = "rejected"]
  /\ UNCHANGED <<list, submitted, confirmed, committed>>

Submitted == {t \in Tx : \E c \in Calls : \E i \in 1..submitted[c] : list[c][i] = t}

\* A submitted transaction reaches a block, also after its call gave up.
Commit(t) ==
  /\ t \in Submitted
  /\ committed' = committed \cup {t}
  /\ UNCHANGED <<list, submitted, confirmed, verdict>>

Next ==
  \/ \E c \in Calls :
       \/ \E l \in Lists : Start(c, l)
       \/ \E t \in Tx : Extend(c, t)
       \/ Confirm(c)
       \/ GiveUp(c)
  \/ \E t \in Tx : Commit(t)

Spec == Init /\ [][Next]_vars
=============================================================================
