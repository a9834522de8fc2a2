------------------------------ MODULE Transport ------------------------------
(***************************************************************************)
(* Submission of transactions, src/src/blockchain/transport.js: `send`     *)
(* posts one transaction and polls its status until it is committed or the *)
(* attempts are used up; `sendQueue` sends a list one after another.       *)
(*                                                                         *)
(* JavaScript runs one continuation at a time, so an action is the code    *)
(* between two awaits.  Many calls are outstanding at once: each has its   *)
(* own closure (the functions over Calls) and at most one HTTP exchange in *)
(* flight.  The node is external: it pools the transactions it receives    *)
(* and commits pooled transactions at its own pace; a request or its reply *)
(* may be lost, which axios reports by a rejected promise.                 *)
(***************************************************************************)
EXTENDS Integers, Sequences

CONSTANTS Calls,       \* calls of send and sendQueue made by the program
          Tx,          \* transactions
          EmptyBody,   \* the empty tx_body, what `undefined` is serialized to
          Lists,       \* the arrays of transactions sendQueue is called with
          Budgets,     \* values of the `attempts` argument
          MaxLen       \* bound on the length a caller grows an array to

ASSUME EmptyBodyAssumption == EmptyBody \notin Tx
ASSUME ListsAssumption == Lists \subseteq Seq(Tx)
ASSUME BudgetsAssumption == Budgets \subseteq Int
ASSUME MaxLenAssumption == MaxLen \in Nat

VARIABLES
  mode,          \* [Calls -> Modes] which function was called, "none" before
  transactions,  \* [Calls -> Seq(Tx)] the caller's array, read live by sendQueue
  attempts,      \* [Calls -> Int] `attempts`
  index,         \* [Calls -> Nat] sendQueue's `index`
  responses,     \* [Calls -> Seq(hashes)] sendQueue's `responses`
  body,          \* [Calls -> Bodies] what the current send posts
  txHash,        \* [Calls -> hashes] the hash the node gave for it
  count,         \* [Calls -> Int] send's `count`
  errored,       \* [Calls -> BOOLEAN] send's `errored`
  pc,            \* [Calls -> Places] where the call is suspended
  outcome,       \* [Calls -> Outcomes] state of the promise it returned
  net,           \* [Calls -> Exchange] its HTTP exchange
  pool,          \* transactions the node holds, not committed yet
  committed,     \* transactions in blocks
  polls,         \* [Calls -> Nat] history: checks settled in the current send
  lastPoll,      \* [Calls -> Exchange] history: how the last of them settled
  known          \* [Calls -> BOOLEAN] history: the transaction was in a block
                 \* when the last check was sent

closure == <<mode, transactions, attempts, index, responses>>
attempt == <<body, txHash, count, errored>>
node == <<pool, committed>>
history == <<polls, lastPoll, known>>
vars == <<mode, transactions, attempts, index, responses, body, txHash, count,
          errored, pc, outcome, net, pool, committed, polls, lastPoll, known>>

Modes == {"none", "send", "sendQueue"}
Places == {"idle", "post", "get", "sleep", "then", "done"}
Outcomes == {"none", "pending", "resolved", "TypeError", "PostFailed",
             "RequestFailed", "NotAccepted"}
Exchange == {"none", "post", "posted", "get", "committed", "pending", "failed"}
Bodies == Tx \cup {EmptyBody}

\* The hash of a transaction, the name the node knows it by.
Hash(b) == <<"hash", b>>
NoHash == <<"hash">>
Hashes == {Hash(b) : b \in Bodies} \cup {NoHash}

TypeOK ==
  /\ mode \in [Calls -> Modes]
  /\ transactions \in [Calls -> Seq(Tx)]
  /\ attempts \in [Calls -> Int]
  /\ index \in [Calls -> Nat]
  /\ responses \in [Calls -> Seq(Hashes)]
  /\ body \in [Calls -> Bodies]
  /\ txHash \in [Calls -> Hashes]
  /\ count \in [Calls -> Int]
  /\ errored \in [Calls -> BOOLEAN]
  /\ pc \in [Calls -> Places]
  /\ outcome \in [Calls -> Outcomes]
  /\ net \in [Calls -> Exchange]
  /\ pool \subseteq Bodies
  /\ committed \subseteq Bodies
  /\ polls \in [Calls -> Nat]
  /\ lastPoll \in [Calls -> Exchange]
  /\ known \in [Calls -> BOOLEAN]

Init ==
  /\ mode = [c \in Calls |-> "none"]
  /\ transactions = [c \in Calls |-> <<>>]
  /\ attempts = [c \in Calls |-> 0]
  /\ index = [c \in Calls |-> 0]
  /\ responses = [c \in Calls |-> <<>>]
  /\ body = [c \in Calls |-> EmptyBody]
  /\ txHash = [c \in Calls |-> NoHash]
  /\ count = [c \in Calls |-> 0]
  /\ errored = [c \in Calls |-> FALSE]
  /\ pc = [c \in Calls |-> "idle"]
  /\ outcome = [c \in Calls |-> "none"]
  /\ net = [c \in Calls |-> "none"]
  /\ pool = {}
  /\ committed = {}
  /\ polls = [c \in Calls |-> 0]
  /\ lastPoll = [c \in Calls |-> "none"]
  /\ known = [c \in Calls |-> FALSE]

-----------------------------------------------------------------------------
(* Pieces of the continuations.                                            *)

\* Reading past the end of the array gives undefined, serialized to nothing.
Item(list, i) == IF i \in DOMAIN list THEN list[i] ELSE EmptyBody

\* send runs up to the await of axios.post.
Post(c, b) ==
  /\ body' = [body EXCEPT ![c] = b]
  /\ net' = [net EXCEPT ![c] = "post"]
  /\ pc' = [pc EXCEPT ![c] = "post"]
  /\ polls' = [polls EXCEPT ![c] = 0]
  /\ lastPoll' = [lastPoll EXCEPT ![c] = "none"]
  /\ known' = [known EXCEPT ![c] = FALSE]

\* The promise the call returned settles.
Settle(c, verdict) ==
  /\ outcome' = [outcome EXCEPT ![c] = verdict]
  /\ pc' = [pc EXCEPT ![c] = "done"]
  /\ net' = [net EXCEPT ![c] = "none"]

\* The next status check is sent.
Check(c) ==
  /\ net' = [net EXCEPT ![c] = "get"]
  /\ pc' = [pc EXCEPT ![c] = "get"]
  /\ known' = [known EXCEPT ![c] = \E b \in committed : Hash(b) = txHash'[c]]
  /\ UNCHANGED outcome

\* Mutated form: the loop ends one check early.
LoopStopsAtZero(c) ==
  \/ count'[c] > 0 /\ Check(c)
  \/ /\ count'[c] <= 0
     /\ Settle(c, IF errored'[c] THEN "RequestFailed" ELSE "NotAccepted")
     /\ UNCHANGED known

\* The `while` condition and what follows the loop, for the values the
\* continuation leaves in count and errored.
Loop(c) ==
  \/ count'[c] >= 0 /\ Check(c)
  \/ /\ count'[c] < 0
     /\ Settle(c, IF errored'[c] THEN "RequestFailed" ELSE "NotAccepted")
     /\ UNCHANGED known

-----------------------------------------------------------------------------
(* The caller.                                                             *)

\* send is called: with a path that is no string it rejects at once.
Send(c, t, a, pathIsString) ==
  /\ mode[c] = "none"
  /\ mode' = [mode EXCEPT ![c] = "send"]
  /\ transactions' = [transactions EXCEPT ![c] = <<t>>]
  /\ attempts' = [attempts EXCEPT ![c] = a]
  /\ \/ /\ pathIsString
        /\ Post(c, t)
        /\ outcome' = [outcome EXCEPT ![c] = "pending"]
     \/ /\ ~pathIsString
        /\ Settle(c, "TypeError")
        /\ UNCHANGED <<body, history>>
  /\ UNCHANGED <<index, responses, txHash, count, errored, node>>

\* sendQueue is called: the first shift() runs within the call.
SendQueue(c, list, a, pathIsString) ==
  /\ mode[c] = "none"
  /\ mode' = [mode EXCEPT ![c] = "sendQueue"]
  /\ transactions' = [transactions EXCEPT ![c] = list]
  /\ attempts' = [attempts EXCEPT ![c] = a]
  /\ index' = [index EXCEPT ![c] = 1]
  /\ \/ /\ pathIsString
        /\ Post(c, Item(list, 1))
        /\ outcome' = [outcome EXCEPT ![c] = "pending"]
     \/ /\ ~pathIsString
        /\ Settle(c, "TypeError")
        /\ UNCHANGED <<body, history>>
  /\ UNCHANGED <<responses, txHash, count, errored, node>>

\* The array stays the caller's, who may append to it while the queue runs.
GrowList(c, t) ==
  /\ mode[c] = "sendQueue" /\ outcome[c] = "pending"
  /\ Len(transactions[c]) < MaxLen
  /\ transactions' = [transactions EXCEPT ![c] = Append(@, t)]
  /\ UNCHANGED <<mode, attempts, index, responses, attempt, pc, outcome, net,
                 node, history>>

-----------------------------------------------------------------------------
(* The continuations of send and sendQueue.                                *)

\* Mutated form: the transaction is taken for its hash.
PostSettledKeepsBody(c) ==
  /\ pc[c] = "post" /\ net[c] = "posted"
  /\ txHash' = [txHash EXCEPT ![c] = body[c]]
  /\ count' = [count EXCEPT ![c] = attempts[c]]
  /\ errored' = [errored EXCEPT ![c] = FALSE]
  /\ Loop(c)
  /\ UNCHANGED <<closure, body, node, polls, lastPoll>>

\* The POST succeeded: start counting and enter the loop.
PostSettled(c) ==
  /\ pc[c] = "post" /\ net[c] = "posted"
  /\ txHash' = [txHash EXCEPT ![c] = Hash(body[c])]
  /\ count' = [count EXCEPT ![c] = attempts[c]]
  /\ errored' = [errored EXCEPT ![c] = FALSE]
  /\ Loop(c)
  /\ UNCHANGED <<closure, body, node, polls, lastPoll>>

\* Mutated form: a failed POST is sent again.
PostAgain(c) ==
  /\ pc[c] = "post" /\ net[c] = "failed"
  /\ net' = [net EXCEPT ![c] = "post"]
  /\ UNCHANGED <<closure, attempt, pc, outcome, node, history>>

\* The POST failed: its error leaves send, which does not post again.
PostRejected(c) ==
  /\ pc[c] = "post" /\ net[c] = "failed"
  /\ Settle(c, "PostFailed")
  /\ UNCHANGED <<closure, attempt, node, history>>

\* What every settled check leaves behind in the history variables.
Polled(c) ==
  /\ polls' = [polls EXCEPT ![c] = @ + 1]
  /\ lastPoll' = [lastPoll EXCEPT ![c] = net[c]]
  /\ UNCHANGED known

\* Mutated form: any answer that is no error counts as a commit.
CommitAnyAnswer(c) ==
  /\ pc[c] = "get" /\ net[c] \in {"committed", "pending"}
  /\ Polled(c)
  /\ \/ mode[c] = "send" /\ Settle(c, "resolved")
     \/ /\ mode[c] = "sendQueue"
        /\ pc' = [pc EXCEPT ![c] = "then"]
        /\ net' = [net EXCEPT ![c] = "none"]
        /\ UNCHANGED outcome
  /\ UNCHANGED <<closure, attempt, node>>

\* The check found the transaction in a block: send returns its hash, which
\* settles the caller's promise or schedules sendQueue's `then`.
CommitSeen(c) ==
  /\ pc[c] = "get" /\ net[c] = "committed"
  /\ Polled(c)
  /\ \/ mode[c] = "send" /\ Settle(c, "resolved")
     \/ /\ mode[c] = "sendQueue"
        /\ pc' = [pc EXCEPT ![c] = "then"]
        /\ net' = [net EXCEPT ![c] = "none"]
        /\ UNCHANGED outcome
  /\ UNCHANGED <<closure, attempt, node>>

\* One attempt is used up and the call sleeps.
Tick(c) ==
  /\ Polled(c)
  /\ count' = [count EXCEPT ![c] = @ - 1]
  /\ pc' = [pc EXCEPT ![c] = "sleep"]
  /\ net' = [net EXCEPT ![c] = "none"]
  /\ UNCHANGED <<closure, body, txHash, outcome, node>>

\* Mutated form: an error of an earlier check is never forgotten.
NotYetKeepsError(c) ==
  /\ pc[c] = "get" /\ net[c] = "pending"
  /\ UNCHANGED errored
  /\ Tick(c)

\* Mutated form: no answer ends the loop, the committed one included.
NotYetAlways(c) ==
  /\ pc[c] = "get" /\ net[c] \in {"pending", "committed"}
  /\ errored' = [errored EXCEPT ![c] = FALSE]
  /\ Tick(c)

\* The check was answered: not in a block yet.
NotYet(c) ==
  /\ pc[c] = "get" /\ net[c] = "pending"
  /\ errored' = [errored EXCEPT ![c] = FALSE]
  /\ Tick(c)

\* The check failed.
CheckFailed(c) ==
  /\ pc[c] = "get" /\ net[c] = "failed"
  /\ errored' = [errored EXCEPT ![c] = TRUE]
  /\ Tick(c)

\* The timer fires and the loop goes on.
Wake(c) ==
  /\ pc[c] = "sleep"
  /\ UNCHANGED <<txHash, count, errored>>
  /\ Loop(c)
  /\ UNCHANGED <<closure, body, node, polls, lastPoll>>

\* Mutated form: the length of the array is compared one too far.
ThenStopsEarly(c) ==
  /\ pc[c] = "then"
  /\ responses' = [responses EXCEPT ![c] = Append(@, txHash[c])]
  /\ \/ /\ index[c] + 1 < Len(transactions[c])
        /\ index' = [index EXCEPT ![c] = @ + 1]
        /\ Post(c, Item(transactions[c], index'[c]))
        /\ UNCHANGED outcome
     \/ /\ index[c] + 1 >= Len(transactions[c])
        /\ Settle(c, "resolved")
        /\ UNCHANGED <<index, body, history>>
  /\ UNCHANGED <<mode, transactions, attempts, txHash, count, errored, node>>

\* sendQueue's `then`: keep the hash, then shift() or resolve.
Then(c) ==
  /\ pc[c] = "then"
  /\ responses' = [responses EXCEPT ![c] = Append(@, txHash[c])]
  /\ \/ /\ index[c] < Len(transactions[c])
        /\ index' = [index EXCEPT ![c] = @ + 1]
        /\ Post(c, Item(transactions[c], index'[c]))
        /\ UNCHANGED outcome
     \/ /\ index[c] >= Len(transactions[c])
        /\ Settle(c, "resolved")
        /\ UNCHANGED <<index, body, history>>
  /\ UNCHANGED <<mode, transactions, attempts, txHash, count, errored, node>>

Client(c) == \/ PostSettled(c) \/ PostRejected(c)
             \/ CommitSeen(c) \/ NotYet(c) \/ CheckFailed(c)
             \/ Wake(c) \/ Then(c)

-----------------------------------------------------------------------------
(* The node and the network, external to this repository.                  *)

\* The node pools a transaction it has not seen committed.
Accept(c) ==
  /\ net[c] = "post"
  /\ pool' = pool \cup ({body[c]} \ committed)
  /\ net' = [net EXCEPT ![c] = "posted"]
  /\ UNCHANGED <<closure, attempt, pc, outcome, committed, history>>

\* The node answers a status check from its state at that moment.
Answer(c) ==
  /\ net[c] = "get"
  /\ net' = [net EXCEPT ![c] = IF \E b \in committed : Hash(b) = txHash[c]
                               THEN "committed" ELSE "pending"]
  /\ UNCHANGED <<closure, attempt, pc, outcome, node, history>>

\* A request is lost or refused, or its reply is lost.
Fail(c, stages) ==
  /\ net[c] \in stages
  /\ net' = [net EXCEPT ![c] = "failed"]
  /\ UNCHANGED <<closure, attempt, pc, outcome, node, history>>

LoseRequest(c) == Fail(c, {"post", "get"})
LoseReply(c) == Fail(c, {"posted", "committed", "pending"})

\* A block with the transaction is committed.
Commit(b) ==
  /\ b \in pool
  /\ pool' = pool \ {b}
  /\ committed' = committed \cup {b}
  /\ UNCHANGED <<closure, attempt, pc, outcome, net, history>>

-----------------------------------------------------------------------------
Caller(c) ==
  \/ \E t \in Tx, a \in Budgets, p \in BOOLEAN : Send(c, t, a, p)
  \/ \E list \in Lists, a \in Budgets, p \in BOOLEAN : SendQueue(c, list, a, p)
  \/ \E t \in Tx : GrowList(c, t)

Service(c) == Accept(c) \/ Answer(c) \/ LoseRequest(c)

Next ==
  \/ \E c \in Calls : Caller(c) \/ Client(c) \/ Service(c) \/ LoseReply(c)
  \/ \E b \in Bodies : Commit(b)

Spec == Init /\ [][Next]_vars

\* Every continuation that is ready runs (the event loop), and every exchange
\* settles in the end, with an answer or an error.  The node need not commit.
Fairness == \A c \in Calls : WF_vars(Client(c)) /\ WF_vars(Service(c))

FairSpec == Spec /\ Fairness

-----------------------------------------------------------------------------
(* Properties.                                                             *)

Rejected == {"TypeError", "PostFailed", "RequestFailed", "NotAccepted"}

\* A queue that has read its k-th transaction has seen the k-1 before it
\* committed: nothing is posted ahead of a transaction still in doubt, also
\* when the array grows, other calls send the same transactions, or answers
\* are stale (sendQueue, "only after the previous transaction is committed").
SubmitAfterCommit ==
  \A c \in Calls : \A i \in 1..(index[c] - 1) :
    /\ i \in DOMAIN transactions[c]
    /\ transactions[c][i] \in committed

\* When sendQueue resolves, every transaction of the array as it is then is in
\* a block and the value lists their hashes in order; when send resolves, its
\* transaction is in a block.
ResolvedMeansAllCommitted ==
  \A c \in Calls : outcome[c] = "resolved" =>
    /\ \A i \in DOMAIN transactions[c] : transactions[c][i] \in committed
    /\ mode[c] = "sendQueue" /\ transactions[c] # <<>> =>
         responses[c] = [i \in DOMAIN transactions[c] |-> Hash(transactions[c][i])]

\* send gives up after exactly attempts + 1 checks (none for a negative or NaN
\* number), never before and never later, however checks and failures alternate.
RetryBudget ==
  \A c \in Calls :
    LET allowed == IF attempts[c] < 0 THEN 0 ELSE attempts[c] + 1 IN
      /\ polls[c] <= allowed
      /\ outcome[c] \in {"RequestFailed", "NotAccepted"} => polls[c] = allowed

\* The error a send gives up with tells how its last check ended: "the request
\* failed" only if that check failed, "not accepted" only if it was answered.
VerdictNamesLastCheck ==
  \A c \in Calls :
    /\ outcome[c] = "RequestFailed" => lastPoll[c] = "failed"
    /\ outcome[c] = "NotAccepted" => lastPoll[c] \in {"none", "pending"}

\* A transaction that was in a block before the last check was sent is never
\* reported as not accepted: a commit between two checks is not missed.
NoCommitMissed ==
  \A c \in Calls : outcome[c] = "NotAccepted" => ~known[c]

\* The promise of every call settles.
EveryCallSettles ==
  \A c \in Calls : outcome[c] = "pending" ~> outcome[c] \notin {"none", "pending"}
-----------------------------------------------------------------------------
(* The inductive invariant behind SubmitAfterCommit and                    *)
(* ResolvedMeansAllCommitted (for lists that are not empty).               *)

Suspended == {"post", "get", "sleep", "then"}

\* Where a call is suspended, what its exchange can be and whether its promise
\* is settled belong together.
Phase(c) ==
  /\ pc[c] = "idle" <=> mode[c] = "none"
  /\ pc[c] \in Suspended <=> outcome[c] = "pending"
  /\ pc[c] = "idle" <=> outcome[c] = "none"
  /\ pc[c] = "post" => net[c] \in {"post", "posted", "failed"}
  /\ pc[c] = "get" => net[c] \in {"get", "committed", "pending", "failed"}
  /\ pc[c] \notin {"post", "get"} => net[c] = "none"
  /\ pc[c] = "then" => mode[c] = "sendQueue"

\* The current send is of the transaction that was read last.
Current(c) ==
  /\ mode[c] # "sendQueue" => index[c] = 0 /\ responses[c] = <<>>
  /\ mode[c] = "send" => Len(transactions[c]) = 1
  /\ mode[c] = "sendQueue" => index[c] \in 1..Len(transactions[c])
  /\ outcome[c] \notin {"none", "TypeError"} =>
       body[c] = transactions[c][IF mode[c] = "send" THEN 1 ELSE index[c]]
  /\ pc[c] \in {"get", "sleep", "then"} => txHash[c] = Hash(body[c])

\* What the call believes committed is committed: the transactions before the
\* current one, and that one once the node has said so.
Confirmed(c) ==
  /\ \A i \in 1..(index[c] - 1) : transactions[c][i] \in committed
  /\ net[c] = "committed" \/ pc[c] = "then" \/ outcome[c] = "resolved" =>
       body[c] \in committed

\* The hashes kept are those of the transactions seen committed, in order.
Kept(c) ==
  /\ \A i \in DOMAIN responses[c] : responses[c][i] = Hash(transactions[c][i])
  /\ mode[c] = "sendQueue" =>
       Len(responses[c]) = IF outcome[c] = "resolved" THEN index[c] ELSE index[c] - 1
  /\ mode[c] = "sendQueue" /\ outcome[c] = "resolved" =>
       index[c] = Len(transactions[c])

\* What ties the state of a call to its array and to the node: the bookkeeping
\* of sendQueue, the exchange of send and the blocks agree at every await.
CallInv == \A c \in Calls : Phase(c) /\ Current(c) /\ Confirmed(c) /\ Kept(c)

-----------------------------------------------------------------------------
(* The abstract specification this one implements.                         *)

\* Of a call that was refused before it posted anything nothing is submitted.
Ordered == INSTANCE OrderedSubmission WITH
  list <- transactions,
  submitted <- [c \in Calls |->
                  IF outcome[c] \in {"none", "TypeError"} THEN 0
                  ELSE IF mode[c] = "send" THEN 1 ELSE index[c]],
  confirmed <- [c \in Calls |->
                  IF mode[c] = "send"
                  THEN IF outcome[c] = "resolved" THEN 1 ELSE 0
                  ELSE Len(responses[c])],
  verdict <- [c \in Calls |->
                IF outcome[c] \in Rejected THEN "rejected" ELSE outcome[c]],
  Lists <- Lists \cup {<<t>> : t \in Tx}

\* Every behaviour of the calls, over any node and network, is one of the
\* abstract specification: order, at most one transaction in doubt, no verdict
\* before its grounds (for lists that are not empty).
ImplementsOrderedSubmission == Ordered!Spec
=============================================================================
