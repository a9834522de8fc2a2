--------------------------- MODULE TransportProofs ---------------------------
(***************************************************************************)
(* Proofs about Transport, for every set of calls and transactions and     *)
(* every number of attempts: types and the order of a queue first, then    *)
(* the loop of checks, then that Transport implements OrderedSubmission.   *)
(***************************************************************************)
EXTENDS Transport, TLAPS

\* The tags the actions assign are tags of their kind.
LEMMA Tags ==
  /\ {"none", "send", "sendQueue"} \subseteq Modes
  /\ {"idle", "post", "get", "sleep", "then", "done"} \subseteq Places
  /\ {"none", "pending", "resolved"} \cup Rejected \subseteq Outcomes
  /\ {"none", "post", "posted", "get", "committed", "pending", "failed"} \subseteq Exchange
BY DEF Modes, Places, Outcomes, Exchange, Rejected

\* Bodies and the hashes the node gives them.
LEMMA HashType ==
  /\ NoHash \in Hashes /\ EmptyBody \in Bodies /\ Tx \subseteq Bodies
  /\ \A b \in Bodies : Hash(b) \in Hashes
BY DEF Hashes, Bodies

\* Reading the array anywhere gives something that can be posted.
LEMMA ItemType ==
  ASSUME NEW list \in Seq(Tx), NEW i
  PROVE  Item(list, i) \in Bodies
BY DEF Item, Bodies

\* How the types of the variables that the parts of the actions assign follow.
LEMMA PostType ==
  ASSUME TypeOK, NEW c \in Calls, NEW b \in Bodies, Post(c, b)
  PROVE  /\ body' \in [Calls -> Bodies] /\ net' \in [Calls -> Exchange]
         /\ pc' \in [Calls -> Places] /\ polls' \in [Calls -> Nat]
         /\ lastPoll' \in [Calls -> Exchange] /\ known' \in [Calls -> BOOLEAN]
BY Tags DEF TypeOK, Post

LEMMA SettleType ==
  ASSUME TypeOK, NEW c \in Calls, NEW v \in Outcomes, Settle(c, v)
  PROVE  /\ outcome' \in [Calls -> Outcomes] /\ pc' \in [Calls -> Places]
         /\ net' \in [Calls -> Exchange]
BY Tags DEF TypeOK, Settle

LEMMA LoopType ==
  ASSUME TypeOK, NEW c \in Calls, Loop(c), 
         count' \in [Calls -> Int]
  PROVE  /\ outcome' \in [Calls -> Outcomes] /\ pc' \in [Calls -> Places]
         /\ net' \in [Calls -> Exchange] /\ known' \in [Calls -> BOOLEAN]
<1>1. CASE Check(c)
  BY <1>1, Tags DEF TypeOK, Check
<1>2. CASE /\ Settle(c, IF errored'[c] THEN "RequestFailed" ELSE "NotAccepted")
           /\ UNCHANGED known
  <2>1. (IF errored'[c] THEN "RequestFailed" ELSE "NotAccepted") \in Outcomes
    BY Tags DEF Rejected
  <2>2. QED
    BY <1>2, <2>1, SettleType DEF TypeOK
<1>3. QED
  BY <1>1, <1>2 DEF Loop

LEMMA PolledType ==
  ASSUME TypeOK, NEW c \in Calls, Polled(c)
  PROVE  /\ polls' \in [Calls -> Nat] /\ lastPoll' \in [Calls -> Exchange]
         /\ known' \in [Calls -> BOOLEAN]
BY DEF TypeOK, Polled

\* The variables keep their types whatever the node and the network do.
THEOREM TypeCorrect == Spec => []TypeOK
<1>1. Init => TypeOK
  BY Tags, HashType DEF Init, TypeOK
<1>2. TypeOK /\ [Next]_vars => TypeOK'
  <2> SUFFICES ASSUME TypeOK, [Next]_vars PROVE TypeOK'
    OBVIOUS
  <2>1. ASSUME NEW c \in Calls, NEW t \in Tx, NEW a \in Budgets, NEW p \in BOOLEAN,
               Send(c, t, a, p)
        PROVE  TypeOK'
    <3>1. /\ mode' \in [Calls -> Modes] /\ attempts' \in [Calls -> Int]
          /\ transactions' \in [Calls -> Seq(Tx)]
      BY <2>1, Tags, BudgetsAssumption DEF Send, TypeOK
    <3>2. CASE p
      BY <3>1, <3>2, <2>1, PostType, HashType, Tags DEF Send, TypeOK, node
    <3>3. CASE ~p
      BY <3>1, <3>3, <2>1, SettleType, Tags DEF Send, TypeOK, node, history, Rejected
    <3>4. QED
      BY <3>2, <3>3
  <2>2. ASSUME NEW c \in Calls, NEW list \in Lists, NEW a \in Budgets,
               NEW p \in BOOLEAN, SendQueue(c, list, a, p)
        PROVE  TypeOK'
    <3>1. /\ mode' \in [Calls -> Modes] /\ attempts' \in [Calls -> Int]
          /\ transactions' \in [Calls -> Seq(Tx)] /\ index' \in [Calls -> Nat]
      BY <2>2, Tags, BudgetsAssumption, ListsAssumption DEF SendQueue, TypeOK
    <3>2. CASE p
      BY <3>1, <3>2, <2>2, PostType, ItemType, ListsAssumption, Tags
      DEF SendQueue, TypeOK, node
    <3>3. CASE ~p
      BY <3>1, <3>3, <2>2, SettleType, Tags
      DEF SendQueue, TypeOK, node, history, Rejected
    <3>4. QED
      BY <3>2, <3>3
  <2>3. ASSUME NEW c \in Calls, NEW t \in Tx, GrowList(c, t)
        PROVE  TypeOK'
    BY <2>3 DEF GrowList, TypeOK, attempt, node, history
  <2>4. ASSUME NEW c \in Calls, PostSettled(c)
        PROVE  TypeOK'
    BY <2>4, HashType, LoopType DEF PostSettled, TypeOK, closure, node
  <2>5. ASSUME NEW c \in Calls, PostRejected(c)
        PROVE  TypeOK'
    BY <2>5, SettleType, Tags
    DEF PostRejected, TypeOK, closure, attempt, node, history, Rejected
  <2>6. ASSUME NEW c \in Calls, CommitSeen(c)
        PROVE  TypeOK'
    <3>1. /\ outcome' \in [Calls -> Outcomes] /\ pc' \in [Calls -> Places]
          /\ net' \in [Calls -> Exchange]
      <4>1. CASE Settle(c, "resolved")
        BY <4>1, SettleType, Tags
      <4>2. CASE /\ pc' = [pc EXCEPT ![c] = "then"]
                 /\ net' = [net EXCEPT ![c] = "none"]
                 /\ UNCHANGED outcome
        BY <4>2, Tags DEF TypeOK
      <4>3. QED
        BY <4>1, <4>2, <2>6 DEF CommitSeen
    <3>2. QED
      BY <3>1, <2>6, PolledType DEF CommitSeen, TypeOK, closure, attempt, node
  <2>7. ASSUME NEW c \in Calls, NotYet(c) \/ CheckFailed(c)
        PROVE  TypeOK'
    <3>1. errored' \in [Calls -> BOOLEAN]
      BY <2>7 DEF NotYet, CheckFailed, TypeOK
    <3>2. Tick(c)
      BY <2>7 DEF NotYet, CheckFailed
    <3>3. /\ count' \in [Calls -> Int] /\ pc' \in [Calls -> Places]
          /\ net' \in [Calls -> Exchange]
      BY <3>2, Tags DEF Tick, TypeOK
    <3>4. QED
      BY <3>1, <3>2, <3>3, PolledType DEF Tick, TypeOK, closure, node
  <2>8. ASSUME NEW c \in Calls, Wake(c)
        PROVE  TypeOK'
    <3>1. count' \in [Calls -> Int]
      BY <2>8 DEF Wake, TypeOK
    <3>2. QED
      BY <3>1, <2>8, LoopType DEF Wake, TypeOK, closure, node
  <2>9. ASSUME NEW c \in Calls, Then(c)
        PROVE  TypeOK'
    <3>1. responses' \in [Calls -> Seq(Hashes)] /\ index' \in [Calls -> Nat]
      BY <2>9 DEF Then, TypeOK
    <3>2. CASE Post(c, Item(transactions[c], index'[c])) /\ UNCHANGED outcome
      BY <3>1, <3>2, <2>9, PostType, ItemType DEF Then, TypeOK, node
    <3>3. CASE Settle(c, "resolved") /\ UNCHANGED <<index, body, history>>
      BY <3>1, <3>3, <2>9, SettleType, Tags DEF Then, TypeOK, node, history
    <3>4. QED
      BY <3>2, <3>3, <2>9 DEF Then
  <2>10. ASSUME NEW c \in Calls, Service(c) \/ LoseReply(c)
         PROVE  TypeOK'
    <3>1. CASE Accept(c)
      BY <3>1, Tags DEF Accept, TypeOK, closure, attempt, history
    <3>2. CASE Answer(c)
      BY <3>2, Tags DEF Answer, TypeOK, closure, attempt, node, history
    <3>3. CASE LoseRequest(c) \/ LoseReply(c)
      BY <3>3, Tags DEF LoseRequest, LoseReply, Fail, TypeOK, closure, attempt,
                        node, history
    <3>4. QED
      BY <3>1, <3>2, <3>3, <2>10 DEF Service
  <2>11. ASSUME NEW b \in Bodies, Commit(b)
         PROVE  TypeOK'
    BY <2>11 DEF Commit, TypeOK, closure, attempt, history
  <2>12. CASE UNCHANGED vars
    BY <2>12 DEF vars, TypeOK
  <2>13. QED
    BY <2>1, <2>2, <2>3, <2>4, <2>5, <2>6, <2>7, <2>8, <2>9, <2>10, <2>11, <2>12
    DEF Next, Caller, Client
<1>3. QED
  BY <1>1, <1>2, PTL DEF Spec

-----------------------------------------------------------------------------
(* The inductive invariant.  A step is of one call, so the invariant of    *)
(* every other call is framed: its closure is untouched and blocks only    *)
(* grow.                                                                   *)

CallOK(c) == Phase(c) /\ Current(c) /\ Confirmed(c) /\ Kept(c)

\* Nothing that concerns call d changes, except that blocks may be added.
Same(d) ==
  /\ mode'[d] = mode[d] /\ transactions'[d] = transactions[d]
  /\ index'[d] = index[d] /\ responses'[d] = responses[d]
  /\ body'[d] = body[d] /\ txHash'[d] = txHash[d]
  /\ pc'[d] = pc[d] /\ outcome'[d] = outcome[d] /\ net'[d] = net[d]
  /\ committed \subseteq committed'

LEMMA Frame ==
  ASSUME NEW d \in Calls, CallOK(d), Same(d)
  PROVE  CallOK(d)'
<1>1. Phase(d)'
  BY DEF CallOK, Same, Phase
<1>2. Current(d)'
  BY DEF CallOK, Same, Current
<1>3. Confirmed(d)'
  BY DEF CallOK, Same, Confirmed
<1>4. Kept(d)'
  BY DEF CallOK, Same, Kept
<1>5. QED
  BY <1>1, <1>2, <1>3, <1>4 DEF CallOK

\* A step that leaves the other calls alone and keeps the invariant of its own
\* call keeps the invariant.
LEMMA OneCall ==
  ASSUME CallInv, NEW c \in Calls, CallOK(c)',
         \A d \in Calls \ {c} : Same(d)
  PROVE  CallInv'
<1>1. \A d \in Calls : CallOK(d)
  BY DEF CallInv, CallOK
<1>2. \A d \in Calls : CallOK(d)'
  BY <1>1, Frame
<1>3. QED
  BY <1>2 DEF CallInv, CallOK

LEMMA InitCallInv == Init => CallInv
<1> SUFFICES ASSUME Init, NEW c \in Calls PROVE CallOK(c)
  BY DEF CallInv, CallOK
<1>1. /\ mode[c] = "none" /\ index[c] = 0 /\ responses[c] = <<>>
      /\ pc[c] = "idle" /\ outcome[c] = "none" /\ net[c] = "none"
  BY DEF Init
<1>2. Phase(c)
  BY <1>1 DEF Phase, Suspended
<1>3. Current(c)
  BY <1>1 DEF Current
<1>4. Confirmed(c)
  BY <1>1 DEF Confirmed
<1>5. Kept(c)
  BY <1>1 DEF Kept
<1>6. QED
  BY <1>2, <1>3, <1>4, <1>5 DEF CallOK

\* Calling send.
LEMMA SendStep ==
  ASSUME TypeOK, CallInv, NEW c \in Calls, NEW t \in Tx, NEW a \in Budgets,
         NEW p \in BOOLEAN, Send(c, t, a, p)
  PROVE  CallInv'
<1>1. \A d \in Calls \ {c} : Same(d)
  BY DEF Send, Post, Settle, TypeOK, Same, node, history
<1>2. /\ mode'[c] = "send" /\ transactions'[c] = <<t>>
      /\ index'[c] = index[c] /\ responses'[c] = responses[c]
      /\ mode[c] = "none" /\ CallOK(c)
  BY DEF Send, TypeOK, CallInv, CallOK
<1>3. \/ /\ body'[c] = t /\ net'[c] = "post" /\ pc'[c] = "post"
         /\ outcome'[c] = "pending"
      \/ net'[c] = "none" /\ pc'[c] = "done" /\ outcome'[c] = "TypeError"
  BY DEF Send, Post, Settle, TypeOK
<1>4. Phase(c)'
  BY <1>2, <1>3 DEF Phase, Suspended
<1>5. Current(c)'
  BY <1>2, <1>3 DEF CallOK, Current
<1>6. Confirmed(c)'
  BY <1>2, <1>3 DEF CallOK, Current, Confirmed
<1>7. Kept(c)'
  BY <1>2, <1>3 DEF CallOK, Current, Kept
<1>8. QED
  BY <1>1, <1>4, <1>5, <1>6, <1>7, OneCall DEF CallOK

\* Calling sendQueue with a list that is not empty.
LEMMA SendQueueStep ==
  ASSUME <<>> \notin Lists, TypeOK, CallInv, NEW c \in Calls, NEW list \in Lists,
         NEW a \in Budgets, NEW p \in BOOLEAN, SendQueue(c, list, a, p)
  PROVE  CallInv'
<1>1. \A d \in Calls \ {c} : Same(d)
  BY DEF SendQueue, Post, Settle, TypeOK, Same, node, history
<1>2. /\ mode'[c] = "sendQueue" /\ transactions'[c] = list
      /\ index'[c] = 1 /\ responses'[c] = responses[c]
      /\ mode[c] = "none" /\ CallOK(c)
  BY DEF SendQueue, TypeOK, CallInv, CallOK
<1>3. list \in Seq(Tx) /\ Len(list) \in Nat /\ Len(list) >= 1
  BY ListsAssumption
<1>4. \/ /\ body'[c] = list[1] /\ net'[c] = "post" /\ pc'[c] = "post"
         /\ outcome'[c] = "pending"
      \/ net'[c] = "none" /\ pc'[c] = "done" /\ outcome'[c] = "TypeError"
  BY <1>3 DEF SendQueue, Post, Settle, TypeOK, Item
<1>5. Phase(c)'
  BY <1>2, <1>4 DEF Phase, Suspended
<1>6. Current(c)'
  BY <1>2, <1>3, <1>4 DEF CallOK, Current
<1>7. Confirmed(c)'
  BY <1>2, <1>4 DEF CallOK, Current, Confirmed
<1>8. Kept(c)'
  BY <1>2, <1>3, <1>4 DEF CallOK, Current, Kept
<1>9. QED
  BY <1>1, <1>5, <1>6, <1>7, <1>8, OneCall DEF CallOK

\* The caller's array grows at its end only.
LEMMA GrowListStep ==
  ASSUME TypeOK, CallInv, NEW c \in Calls, NEW t \in Tx, GrowList(c, t)
  PROVE  CallInv'
<1>1. \A d \in Calls \ {c} : Same(d)
  BY DEF GrowList, TypeOK, Same, attempt, node, history
<1>2. /\ transactions[c] \in Seq(Tx) /\ index[c] \in Nat
      /\ transactions'[c] = Append(transactions[c], t)
      /\ mode[c] = "sendQueue" /\ outcome[c] = "pending" /\ CallOK(c)
  BY DEF GrowList, TypeOK, CallInv, CallOK
<1>3. /\ mode'[c] = mode[c] /\ index'[c] = index[c] /\ responses'[c] = responses[c]
      /\ body'[c] = body[c] /\ txHash'[c] = txHash[c]
      /\ pc'[c] = pc[c] /\ outcome'[c] = outcome[c] /\ net'[c] = net[c]
      /\ committed' = committed
  BY DEF GrowList, attempt, node
<1>4. /\ Len(transactions'[c]) = Len(transactions[c]) + 1
      /\ \A i \in 1..Len(transactions[c]) : transactions'[c][i] = transactions[c][i]
      /\ index[c] \in 1..Len(transactions[c])
  BY <1>2 DEF CallOK, Current
<1>5. Phase(c)'
  BY <1>2, <1>3 DEF CallOK, Phase
<1>6. Current(c)'
  BY <1>2, <1>3, <1>4 DEF CallOK, Current
<1>7. Confirmed(c)'
  BY <1>2, <1>3, <1>4 DEF CallOK, Confirmed
<1>8. Kept(c)'
  <2>1. responses[c] \in Seq(Hashes) /\ Len(responses[c]) = index[c] - 1
    BY <1>2 DEF TypeOK, CallOK, Kept
  <2>2. QED
    BY <2>1, <1>2, <1>3, <1>4 DEF CallOK, Kept
<1>9. QED
  BY <1>1, <1>5, <1>6, <1>7, <1>8, OneCall DEF CallOK

\* The loop goes on or the promise is rejected; the rest of the call stays.
LEMMA LoopStep ==
  ASSUME TypeOK, CallInv, NEW c \in Calls, Loop(c), pc[c] \in {"post", "sleep"},
         UNCHANGED <<closure, body, node>>, txHash'[c] = Hash(body[c]),
         \A d \in Calls \ {c} : txHash'[d] = txHash[d]
  PROVE  CallInv'
<1>1. \A d \in Calls \ {c} : Same(d)
  BY DEF Loop, Check, Settle, TypeOK, Same, closure, node
<1>2. /\ mode'[c] = mode[c] /\ transactions'[c] = transactions[c]
      /\ index'[c] = index[c] /\ responses'[c] = responses[c]
      /\ body'[c] = body[c] /\ committed' = committed /\ CallOK(c)
  BY DEF closure, node, CallInv, CallOK
<1>3. \/ net'[c] = "get" /\ pc'[c] = "get" /\ outcome'[c] = outcome[c]
      \/ /\ net'[c] = "none" /\ pc'[c] = "done"
         /\ outcome'[c] \in {"RequestFailed", "NotAccepted"}
  BY DEF Loop, Check, Settle, TypeOK
<1>4. outcome[c] = "pending"
  BY <1>2 DEF CallOK, Phase, Suspended
<1>5. Phase(c)'
  BY <1>2, <1>3, <1>4 DEF CallOK, Phase, Suspended
<1>6. Current(c)'
  BY <1>2, <1>3, <1>4 DEF CallOK, Current
<1>7. Confirmed(c)'
  BY <1>2, <1>3, <1>4 DEF CallOK, Confirmed
<1>8. Kept(c)'
  BY <1>2, <1>3, <1>4 DEF CallOK, Kept
<1>9. QED
  BY <1>1, <1>5, <1>6, <1>7, <1>8, OneCall DEF CallOK

LEMMA PostSettledStep ==
  ASSUME TypeOK, CallInv, NEW c \in Calls, PostSettled(c)
  PROVE  CallInv'
<1>1. /\ Loop(c) /\ pc[c] \in {"post", "sleep"} /\ UNCHANGED <<closure, body, node>>
      /\ txHash'[c] = Hash(body[c])
      /\ \A d \in Calls \ {c} : txHash'[d] = txHash[d]
  BY DEF PostSettled, TypeOK
<1>2. QED
  BY <1>1, LoopStep

LEMMA WakeStep ==
  ASSUME TypeOK, CallInv, NEW c \in Calls, Wake(c)
  PROVE  CallInv'
<1>1. txHash[c] = Hash(body[c])
  BY DEF Wake, CallInv, Current
<1>2. /\ Loop(c) /\ pc[c] \in {"post", "sleep"} /\ UNCHANGED <<closure, body, node>>
      /\ txHash'[c] = Hash(body[c])
      /\ \A d \in Calls \ {c} : txHash'[d] = txHash[d]
  BY <1>1 DEF Wake, TypeOK
<1>3. QED
  BY <1>2, LoopStep

LEMMA PostRejectedStep ==
  ASSUME TypeOK, CallInv, NEW c \in Calls, PostRejected(c)
  PROVE  CallInv'
<1>1. \A d \in Calls \ {c} : Same(d)
  BY DEF PostRejected, Settle, TypeOK, Same, closure, attempt, node
<1>2. /\ mode'[c] = mode[c] /\ transactions'[c] = transactions[c]
      /\ index'[c] = index[c] /\ responses'[c] = responses[c]
      /\ body'[c] = body[c] /\ committed' = committed /\ CallOK(c)
      /\ net'[c] = "none" /\ pc'[c] = "done" /\ outcome'[c] = "PostFailed"
      /\ pc[c] = "post"
  BY DEF PostRejected, Settle, TypeOK, closure, attempt, node, CallInv, CallOK
<1>3. outcome[c] = "pending"
  BY <1>2 DEF CallOK, Phase, Suspended
<1>4. Phase(c)'
  BY <1>2, <1>3 DEF CallOK, Phase, Suspended
<1>5. Current(c)'
  BY <1>2, <1>3 DEF CallOK, Current
<1>6. Confirmed(c)'
  BY <1>2, <1>3 DEF CallOK, Confirmed
<1>7. Kept(c)'
  BY <1>2, <1>3 DEF CallOK, Kept
<1>8. QED
  BY <1>1, <1>4, <1>5, <1>6, <1>7, OneCall DEF CallOK

\* A check ends in `then`, in the resolved promise of send, or in sleep.
LEMMA CommitSeenStep ==
  ASSUME TypeOK, CallInv, NEW c \in Calls, CommitSeen(c)
  PROVE  CallInv'
<1>1. \A d \in Calls \ {c} : Same(d)
  BY DEF CommitSeen, Settle, TypeOK, Same, closure, attempt, node
<1>2. /\ mode'[c] = mode[c] /\ transactions'[c] = transactions[c]
      /\ index'[c] = index[c] /\ responses'[c] = responses[c]
      /\ body'[c] = body[c] /\ txHash'[c] = txHash[c]
      /\ committed' = committed /\ CallOK(c)
      /\ net[c] = "committed" /\ pc[c] = "get" /\ net'[c] = "none"
  BY DEF CommitSeen, Settle, TypeOK, closure, attempt, node, CallInv, CallOK
<1>3. \/ mode[c] = "send" /\ pc'[c] = "done" /\ outcome'[c] = "resolved"
      \/ mode[c] = "sendQueue" /\ pc'[c] = "then" /\ outcome'[c] = outcome[c]
  BY DEF CommitSeen, Settle, TypeOK
<1>4. outcome[c] = "pending" /\ body[c] \in committed
  BY <1>2 DEF CallOK, Phase, Suspended, Confirmed
<1>5. Phase(c)'
  BY <1>2, <1>3, <1>4 DEF CallOK, Phase, Suspended
<1>6. Current(c)'
  BY <1>2, <1>3, <1>4 DEF CallOK, Current
<1>7. Confirmed(c)'
  BY <1>2, <1>3, <1>4 DEF CallOK, Confirmed
<1>8. Kept(c)'
  BY <1>2, <1>3, <1>4 DEF CallOK, Kept, Current
<1>9. QED
  BY <1>1, <1>5, <1>6, <1>7, <1>8, OneCall DEF CallOK

LEMMA TickStep ==
  ASSUME TypeOK, CallInv, NEW c \in Calls, pc[c] = "get", Tick(c)
  PROVE  CallInv'
<1>1. \A d \in Calls \ {c} : Same(d)
  BY DEF Tick, TypeOK, Same, closure, node
<1>2. /\ mode'[c] = mode[c] /\ transactions'[c] = transactions[c]
      /\ index'[c] = index[c] /\ responses'[c] = responses[c]
      /\ body'[c] = body[c] /\ txHash'[c] = txHash[c]
      /\ committed' = committed /\ CallOK(c)
      /\ net'[c] = "none" /\ pc'[c] = "sleep" /\ outcome'[c] = outcome[c]
  BY DEF Tick, TypeOK, closure, node, CallInv, CallOK
<1>3. outcome[c] = "pending"
  BY <1>2 DEF CallOK, Phase, Suspended
<1>4. Phase(c)'
  BY <1>2, <1>3 DEF CallOK, Phase, Suspended
<1>5. Current(c)'
  BY <1>2, <1>3 DEF CallOK, Current
<1>6. Confirmed(c)'
  BY <1>2, <1>3 DEF CallOK, Confirmed
<1>7. Kept(c)'
  BY <1>2, <1>3 DEF CallOK, Kept
<1>8. QED
  BY <1>1, <1>4, <1>5, <1>6, <1>7, OneCall DEF CallOK

\* sendQueue moves on: the transaction it leaves behind is committed, and the
\* next one read is the current one.
LEMMA ThenStep ==
  ASSUME TypeOK, CallInv, NEW c \in Calls, Then(c)
  PROVE  CallInv'
<1>1. \A d \in Calls \ {c} : Same(d)
  BY DEF Then, Post, Settle, TypeOK, Same, node, history
<1>2. /\ mode'[c] = mode[c] /\ transactions'[c] = transactions[c]
      /\ responses'[c] = Append(responses[c], txHash[c])
      /\ txHash'[c] = txHash[c] /\ committed' = committed
      /\ CallOK(c) /\ pc[c] = "then"
  BY DEF Then, TypeOK, node, CallInv, CallOK
<1>3. /\ transactions[c] \in Seq(Tx) /\ responses[c] \in Seq(Hashes)
      /\ txHash[c] \in Hashes
  BY DEF TypeOK
<1>4. /\ mode[c] = "sendQueue" /\ outcome[c] = "pending" /\ body[c] \in committed
      /\ index[c] \in 1..Len(transactions[c]) /\ body[c] = transactions[c][index[c]]
      /\ txHash[c] = Hash(body[c]) /\ Len(responses[c]) = index[c] - 1
  BY <1>2 DEF CallOK, Phase, Suspended, Current, Confirmed, Kept
<1>5. \/ /\ index'[c] = index[c] + 1 /\ index'[c] \in 1..Len(transactions[c])
         /\ body'[c] = transactions[c][index'[c]]
         /\ net'[c] = "post" /\ pc'[c] = "post" /\ outcome'[c] = "pending"
      \/ /\ index'[c] = index[c] /\ index[c] = Len(transactions[c])
         /\ body'[c] = body[c]
         /\ net'[c] = "none" /\ pc'[c] = "done" /\ outcome'[c] = "resolved"
  <2>1. CASE index[c] < Len(transactions[c])
    <3>1. /\ index' = [index EXCEPT ![c] = index[c] + 1]
          /\ Post(c, Item(transactions[c], index'[c])) /\ UNCHANGED outcome
      BY <2>1, <1>3, <1>4 DEF Then
    <3>2. index'[c] = index[c] + 1 /\ index'[c] \in 1..Len(transactions[c])
      BY <3>1, <2>1, <1>3, <1>4 DEF TypeOK
    <3>3. Item(transactions[c], index'[c]) = transactions[c][index'[c]]
      BY <3>2, <1>3 DEF Item
    <3>4. QED
      BY <3>1, <3>2, <3>3, <1>4 DEF Post, TypeOK
  <2>2. CASE index[c] >= Len(transactions[c])
    BY <2>2, <1>3, <1>4 DEF Then, Settle, TypeOK
  <2>3. QED
    BY <2>1, <2>2, <1>3, <1>4
<1>6. \A i \in 1..index[c] : transactions[c][i] \in committed
  BY <1>2, <1>3, <1>4 DEF CallOK, Confirmed
<1>7. Phase(c)'
  BY <1>2, <1>4, <1>5 DEF CallOK, Phase, Suspended
<1>8. Current(c)'
  BY <1>2, <1>3, <1>4, <1>5 DEF CallOK, Current
<1>9. Confirmed(c)'
  BY <1>2, <1>4, <1>5, <1>6 DEF CallOK, Confirmed
<1>10. Kept(c)'
  <2>1. \A i \in DOMAIN responses[c] : responses[c][i] = Hash(transactions[c][i])
    BY <1>2 DEF CallOK, Kept
  <2>2. /\ Len(responses'[c]) = index[c]
        /\ \A i \in DOMAIN responses'[c] : responses'[c][i] = Hash(transactions[c][i])
    BY <2>1, <1>2, <1>3, <1>4
  <2>3. QED
    BY <2>2, <1>2, <1>4, <1>5 DEF Kept
<1>11. QED
  BY <1>1, <1>7, <1>8, <1>9, <1>10, OneCall DEF CallOK

\* The exchange of a call moves on; a check answered "committed" was looked up
\* under the hash of the call's own transaction.
LEMMA ExchangeStep ==
  ASSUME TypeOK, CallInv, NEW c \in Calls, Service(c) \/ LoseReply(c)
  PROVE  CallInv'
<1>1. \A d \in Calls \ {c} : Same(d)
  BY DEF Service, LoseReply, LoseRequest, Fail, Accept, Answer, TypeOK, Same,
         closure, attempt, node
<1>2. /\ mode'[c] = mode[c] /\ transactions'[c] = transactions[c]
      /\ index'[c] = index[c] /\ responses'[c] = responses[c]
      /\ body'[c] = body[c] /\ txHash'[c] = txHash[c] /\ pc'[c] = pc[c]
      /\ outcome'[c] = outcome[c] /\ committed' = committed /\ CallOK(c)
  BY DEF Service, LoseReply, LoseRequest, Fail, Accept, Answer, closure, attempt,
         node, CallInv, CallOK
<1>3. \/ net[c] = "post" /\ net'[c] = "posted"
      \/ /\ net[c] = "get"
         /\ net'[c] \in {"committed", "pending"}
         /\ net'[c] = "committed" => \E b \in committed : Hash(b) = txHash[c]
      \/ /\ net[c] \in {"post", "get", "posted", "committed", "pending"}
         /\ net'[c] = "failed"
  BY DEF Service, LoseReply, LoseRequest, Fail, Accept, Answer, TypeOK
<1>4. net[c] # "none" /\ outcome[c] = "pending" /\ pc[c] \in {"post", "get"}
  BY <1>2, <1>3 DEF CallOK, Phase, Suspended
<1>5. net'[c] = "committed" => body[c] \in committed
  BY <1>2, <1>3, <1>4 DEF CallOK, Phase, Current, Hash
<1>6. Phase(c)'
  BY <1>2, <1>3, <1>4 DEF CallOK, Phase, Suspended
<1>7. Current(c)'
  BY <1>2, <1>4 DEF CallOK, Current
<1>8. Confirmed(c)'
  BY <1>2, <1>4, <1>5 DEF CallOK, Confirmed
<1>9. Kept(c)'
  BY <1>2, <1>4 DEF CallOK, Kept
<1>10. QED
  BY <1>1, <1>6, <1>7, <1>8, <1>9, OneCall DEF CallOK

\* A step that changes no call, whatever it adds to the blocks.
LEMMA NoCallStep ==
  ASSUME CallInv, \A d \in Calls : Same(d)
  PROVE  CallInv'
<1>1. \A d \in Calls : CallOK(d)'
  BY Frame DEF CallInv, CallOK
<1>2. QED
  BY <1>1 DEF CallInv, CallOK

\* The bookkeeping of every call agrees with its array, its exchange and the
\* blocks, for every set of calls, transactions and budgets, over every
\* behaviour of the node and the network.
THEOREM CallsConsistent ==
  ASSUME <<>> \notin Lists
  PROVE  Spec => []CallInv
<1>1. TypeOK /\ CallInv /\ [Next]_vars => CallInv'
  <2> SUFFICES ASSUME TypeOK, CallInv, [Next]_vars PROVE CallInv'
    OBVIOUS
  <2>1. ASSUME NEW c \in Calls, Caller(c) PROVE CallInv'
    BY <2>1, SendStep, SendQueueStep, GrowListStep DEF Caller
  <2>2. ASSUME NEW c \in Calls, Client(c) PROVE CallInv'
    <3>1. CASE NotYet(c) \/ CheckFailed(c)
      BY <3>1, TickStep DEF NotYet, CheckFailed
    <3>2. QED
      BY <2>2, <3>1, PostSettledStep, PostRejectedStep, CommitSeenStep, WakeStep,
         ThenStep DEF Client
  <2>3. ASSUME NEW c \in Calls, Service(c) \/ LoseReply(c) PROVE CallInv'
    BY <2>3, ExchangeStep
  <2>4. ASSUME NEW b \in Bodies, Commit(b) PROVE CallInv'
    BY <2>4, NoCallStep DEF Commit, Same, closure, attempt
  <2>5. CASE UNCHANGED vars
    BY <2>5, NoCallStep DEF vars, Same
  <2>6. QED
    BY <2>1, <2>2, <2>3, <2>4, <2>5 DEF Next
<1>2. QED
  BY <1>1, InitCallInv, TypeCorrect, PTL DEF Spec

\* sendQueue posts a transaction only after those before it are in blocks.
THEOREM SubmissionInOrder ==
  ASSUME <<>> \notin Lists
  PROVE  Spec => []SubmitAfterCommit
<1>1. TypeOK /\ CallInv => SubmitAfterCommit
  <2> SUFFICES ASSUME TypeOK, CallInv, NEW c \in Calls, NEW i \in 1..(index[c] - 1)
               PROVE  i \in DOMAIN transactions[c] /\ transactions[c][i] \in committed
    BY DEF SubmitAfterCommit
  <2>1. index[c] \in Nat /\ transactions[c] \in Seq(Tx) /\ mode[c] \in Modes
    BY DEF TypeOK
  <2>2. index[c] \in 1..Len(transactions[c])
    BY <2>1 DEF CallInv, Current
  <2>3. QED
    BY <2>1, <2>2 DEF CallInv, Confirmed
<1>2. QED
  BY <1>1, CallsConsistent, TypeCorrect, PTL

\* A resolved promise vouches for the whole array and lists its hashes in order.
THEOREM ResolutionIsTrue ==
  ASSUME <<>> \notin Lists
  PROVE  Spec => []ResolvedMeansAllCommitted
<1>1. TypeOK /\ CallInv => ResolvedMeansAllCommitted
  <2> SUFFICES ASSUME TypeOK, CallInv, NEW c \in Calls, outcome[c] = "resolved"
               PROVE  /\ \A i \in DOMAIN transactions[c] : transactions[c][i] \in committed
                      /\ mode[c] = "sendQueue" =>
                           responses[c] = [i \in DOMAIN transactions[c] |->
                                             Hash(transactions[c][i])]
    BY DEF ResolvedMeansAllCommitted
  <2>1. /\ transactions[c] \in Seq(Tx) /\ responses[c] \in Seq(Hashes)
        /\ index[c] \in Nat /\ mode[c] \in Modes
        /\ Phase(c) /\ Current(c) /\ Confirmed(c) /\ Kept(c)
    BY DEF TypeOK, CallInv
  <2>2. body[c] \in committed /\ mode[c] \in {"send", "sendQueue"}
    BY <2>1 DEF Confirmed, Phase, Modes
  <2>3. CASE mode[c] = "send"
    BY <2>1, <2>2, <2>3 DEF Current
  <2>4. CASE mode[c] = "sendQueue"
    <3>1. /\ index[c] = Len(transactions[c]) /\ Len(responses[c]) = index[c]
          /\ body[c] = transactions[c][index[c]]
      BY <2>1, <2>4 DEF Current, Kept
    <3>2. \A i \in DOMAIN transactions[c] : transactions[c][i] \in committed
      BY <2>1, <2>2, <3>1 DEF Confirmed
    <3>3. responses[c] = [i \in DOMAIN transactions[c] |-> Hash(transactions[c][i])]
      BY <2>1, <3>1 DEF Kept
    <3>4. QED
      BY <3>2, <3>3
  <2>5. QED
    BY <2>2, <2>3, <2>4
<1>2. QED
  BY <1>1, CallsConsistent, TypeCorrect, PTL

-----------------------------------------------------------------------------
(***************************************************************************)
(* The loop of `send`, for any number of attempts and any behaviour of the *)
(* node and the network: how many checks there are, what the error says,   *)
(* and that no commit is missed.  The properties speak of the verdict;     *)
(* PollInv says what count, errored and the exchange have to do with the   *)
(* checks made so far while the loop goes on.                              *)
(***************************************************************************)

\* The checks that `attempts` allows.
Allowed(c) == IF attempts[c] < 0 THEN 0 ELSE attempts[c] + 1

\* Before the loop nothing was checked.
Unchecked(c) == polls[c] = 0 /\ lastPoll[c] = "none" /\ ~known[c]

InBlock(c) == \E b \in committed : Hash(b) = txHash[c]

\* A check is on its way: what was in a block before is not answered "pending".
Checking(c) ==
  /\ 0 <= count[c] /\ count[c] <= attempts[c] /\ polls[c] = attempts[c] - count[c]
  /\ known[c] => net[c] # "pending" /\ InBlock(c)

\* A check was no success: errored says which way.
Sleeping(c) ==
  /\ -1 <= count[c] /\ count[c] < attempts[c] /\ polls[c] = attempts[c] - count[c]
  /\ lastPoll[c] = IF errored[c] THEN "failed" ELSE "pending"
  /\ lastPoll[c] = "pending" => ~known[c]

\* The verdict agrees with the checks.
Judged(c) ==
  /\ polls[c] <= Allowed(c)
  /\ outcome[c] \in {"RequestFailed", "NotAccepted"} =>
       pc[c] = "done" /\ polls[c] = Allowed(c)
  /\ outcome[c] = "RequestFailed" => lastPoll[c] = "failed"
  /\ outcome[c] = "NotAccepted" => lastPoll[c] \in {"none", "pending"} /\ ~known[c]

PollOK(c) ==
  /\ mode[c] = "none" => pc[c] = "idle"
  /\ pc[c] \in {"idle", "post"} => Unchecked(c)
  /\ pc[c] = "get" => Checking(c)
  /\ pc[c] = "sleep" => Sleeping(c)
  /\ Judged(c)

PollInv == \A c \in Calls : PollOK(c)

\* Nothing that the loop of call d reads changes, except that blocks may be added.
SamePolls(d) ==
  /\ mode'[d] = mode[d] /\ attempts'[d] = attempts[d] /\ txHash'[d] = txHash[d]
  /\ count'[d] = count[d] /\ errored'[d] = errored[d]
  /\ pc'[d] = pc[d] /\ outcome'[d] = outcome[d] /\ net'[d] = net[d]
  /\ polls'[d] = polls[d] /\ lastPoll'[d] = lastPoll[d] /\ known'[d] = known[d]
  /\ committed \subseteq committed'

\* What concerns call d stays as it is, so its invariant does.
LEMMA FramePolls ==
  ASSUME NEW d \in Calls, PollOK(d), SamePolls(d)
  PROVE  PollOK(d)'
<1>1. Judged(d)' /\ (pc'[d] = "sleep" => Sleeping(d)')
  BY DEF PollOK, SamePolls, Judged, Allowed, Sleeping
<1>2. pc'[d] = "get" => Checking(d)'
  BY DEF PollOK, SamePolls, Checking, InBlock
<1>3. QED
  BY <1>1, <1>2 DEF PollOK, SamePolls, Unchecked

\* A step that leaves the other calls alone and keeps the invariant of its own
\* call keeps the invariant.
LEMMA OneLoop ==
  ASSUME PollInv, NEW c \in Calls, PollOK(c)', \A d \in Calls \ {c} : SamePolls(d)
  PROVE  PollInv'
BY FramePolls DEF PollInv

\* Before a call is made, it has made no check.
LEMMA InitPollInv == Init => PollInv
<1> SUFFICES ASSUME Init, NEW c \in Calls PROVE PollOK(c)
  BY DEF PollInv
<1>1. /\ pc[c] = "idle" /\ outcome[c] = "none" /\ attempts[c] = 0
      /\ polls[c] = 0 /\ lastPoll[c] = "none" /\ ~known[c]
  BY DEF Init
<1>2. QED
  BY <1>1 DEF PollOK, Unchecked, Judged, Allowed

\* Calling send or sendQueue starts with no check made.
LEMMA CallPolls ==
  ASSUME TypeOK, PollInv, NEW c \in Calls, NEW t, NEW a \in Budgets, NEW p \in BOOLEAN,
         Send(c, t, a, p) \/ SendQueue(c, t, a, p)
  PROVE  PollInv'
<1>1. \A d \in Calls \ {c} : SamePolls(d)
  BY DEF Send, SendQueue, Post, Settle, TypeOK, SamePolls, node, history
<1>2. /\ Unchecked(c) /\ attempts'[c] = a /\ a \in Int /\ mode'[c] # "none"
  BY BudgetsAssumption DEF Send, SendQueue, TypeOK, PollInv, PollOK
<1>3. /\ Unchecked(c)'
      /\ \/ pc'[c] = "post" /\ outcome'[c] = "pending"
         \/ pc'[c] = "done" /\ outcome'[c] = "TypeError"
  BY <1>2 DEF Send, SendQueue, Post, Settle, TypeOK, Unchecked, history
<1>4. PollOK(c)'
  BY <1>2, <1>3 DEF PollOK, Judged, Unchecked, Allowed
<1>5. QED
  BY <1>1, <1>4, OneLoop

\* The loop goes on, or the promise is rejected for how the last check ended.
LEMMA LoopPolls ==
  ASSUME TypeOK, PollInv, NEW c \in Calls, Loop(c),
         UNCHANGED <<closure, node, polls, lastPoll>>,
         count'[c] \in Int, count'[c] <= attempts[c], -1 <= count'[c] \/ polls[c] = 0,
         count'[c] < 0 /\ attempts[c] >= 0 => count'[c] = -1,
         polls[c] = attempts[c] - count'[c],
         polls[c] = 0 => lastPoll[c] = "none" /\ ~known[c] /\ ~errored'[c],
         polls[c] # 0 => /\ lastPoll[c] = IF errored'[c] THEN "failed" ELSE "pending"
                         /\ lastPoll[c] = "pending" => ~known[c],
         mode[c] # "none", outcome[c] \notin {"RequestFailed", "NotAccepted"},
         \A d \in Calls \ {c} : /\ txHash'[d] = txHash[d] /\ count'[d] = count[d]
                                /\ errored'[d] = errored[d]
  PROVE  PollInv'
<1>1. ASSUME NEW d \in Calls \ {c}
      PROVE  SamePolls(d)
  <2>1. /\ pc'[d] = pc[d] /\ outcome'[d] = outcome[d] /\ net'[d] = net[d]
        /\ known'[d] = known[d]
    <3>1. CASE Check(c)
      BY <3>1 DEF Check, TypeOK
    <3>2. CASE Settle(c, IF errored'[c] THEN "RequestFailed" ELSE "NotAccepted") /\ UNCHANGED known
      BY <3>2 DEF Settle, TypeOK
    <3>3. QED
      BY <3>1, <3>2, Zenon DEF Loop
  <2>2. /\ mode'[d] = mode[d] /\ attempts'[d] = attempts[d] /\ polls'[d] = polls[d]
        /\ lastPoll'[d] = lastPoll[d] /\ committed' = committed
    BY DEF closure, node
  <2>3. QED
    BY <2>1, <2>2 DEF SamePolls
<1>2. /\ mode'[c] = mode[c] /\ attempts'[c] = attempts[c] /\ committed' = committed
      /\ polls'[c] = polls[c] /\ lastPoll'[c] = lastPoll[c]
      /\ attempts[c] \in Int /\ polls[c] \in Nat /\ Judged(c)
  BY DEF closure, node, TypeOK, PollInv, PollOK
<1>3. CASE count'[c] >= 0
  <2>1. /\ net'[c] = "get" /\ pc'[c] = "get" /\ outcome'[c] = outcome[c]
        /\ known'[c] => InBlock(c)'
    BY <1>2, <1>3 DEF Loop, Check, TypeOK, InBlock, node
  <2>2. Checking(c)'
    BY <1>2, <1>3, <2>1 DEF Checking
  <2>3. Judged(c)'
    BY <1>2, <1>3, <2>1 DEF Judged, Allowed
  <2>4. QED
    BY <1>1, <1>2, <2>1, <2>2, <2>3, OneLoop DEF PollOK
<1>4. CASE count'[c] < 0
  <2>1. /\ pc'[c] = "done" /\ known'[c] = known[c]
        /\ outcome'[c] = IF errored'[c] THEN "RequestFailed" ELSE "NotAccepted"
    BY <1>4 DEF Loop, Settle, TypeOK
  <2>2. polls[c] = Allowed(c)
    BY <1>2, <1>4 DEF Allowed
  <2>3. Judged(c)'
    BY <1>2, <2>1, <2>2 DEF Judged, Allowed
  <2>4. QED
    BY <1>1, <1>2, <2>1, <2>3, OneLoop DEF PollOK
<1>5. QED
  BY <1>3, <1>4

\* After the POST the loop starts with `attempts`.
LEMMA PostSettledPolls ==
  ASSUME TypeOK, PollInv, NEW c \in Calls, PostSettled(c)
  PROVE  PollInv'
<1>1. /\ Unchecked(c) /\ mode[c] # "none" /\ attempts[c] \in Int
      /\ outcome[c] \notin {"RequestFailed", "NotAccepted"}
  BY DEF PostSettled, TypeOK, PollInv, PollOK, Judged
<1>2. /\ count'[c] = attempts[c] /\ errored'[c] = FALSE
      /\ Loop(c) /\ UNCHANGED <<closure, node, polls, lastPoll>>
      /\ \A d \in Calls \ {c} : /\ txHash'[d] = txHash[d] /\ count'[d] = count[d]
                                /\ errored'[d] = errored[d]
  BY DEF PostSettled, TypeOK
<1>3. QED
  BY <1>1, <1>2, LoopPolls DEF Unchecked

\* After the timer it goes on with what the last check has left.
LEMMA WakePolls ==
  ASSUME TypeOK, PollInv, NEW c \in Calls, Wake(c)
  PROVE  PollInv'
<1>1. /\ Sleeping(c) /\ mode[c] # "none" /\ attempts[c] \in Int /\ count[c] \in Int
      /\ outcome[c] \notin {"RequestFailed", "NotAccepted"}
  BY DEF Wake, TypeOK, PollInv, PollOK, Judged
<1>2. /\ count' = count /\ errored' = errored /\ txHash' = txHash
      /\ Loop(c) /\ UNCHANGED <<closure, node, polls, lastPoll>>
  BY DEF Wake
<1>3. polls[c] # 0
  BY <1>1 DEF Sleeping
<1>4. QED
  BY <1>1, <1>2, <1>3, LoopPolls DEF Sleeping

\* A check that was no success uses up one attempt.
LEMMA TickPolls ==
  ASSUME TypeOK, PollInv, NEW c \in Calls, NotYet(c) \/ CheckFailed(c)
  PROVE  PollInv'
<1>1. \A d \in Calls \ {c} : SamePolls(d)
  BY DEF NotYet, CheckFailed, Tick, Polled, TypeOK, SamePolls, closure, node
<1>2. /\ pc[c] = "get" /\ Checking(c) /\ Judged(c)
      /\ attempts[c] \in Int /\ count[c] \in Int /\ polls[c] \in Nat /\ mode[c] # "none"
  BY DEF NotYet, CheckFailed, TypeOK, PollInv, PollOK
<1>3. /\ pc'[c] = "sleep" /\ count'[c] = count[c] - 1 /\ polls'[c] = polls[c] + 1
      /\ lastPoll'[c] = net[c] /\ known'[c] = known[c] /\ outcome'[c] = outcome[c]
      /\ mode'[c] = mode[c] /\ attempts'[c] = attempts[c]
  BY DEF NotYet, CheckFailed, Tick, Polled, TypeOK, closure
<1>4. \/ net[c] = "pending" /\ errored'[c] = FALSE
      \/ net[c] = "failed" /\ errored'[c] = TRUE
  BY DEF NotYet, CheckFailed, TypeOK
<1>5. Sleeping(c)'
  BY <1>2, <1>3, <1>4 DEF Checking, Sleeping
<1>6. Judged(c)'
  BY <1>2, <1>3 DEF Checking, Judged, Allowed
<1>7. QED
  BY <1>1, <1>2, <1>3, <1>5, <1>6, OneLoop DEF PollOK

\* So does the check that was one, within what is allowed.
LEMMA CommitSeenPolls ==
  ASSUME TypeOK, PollInv, NEW c \in Calls, CommitSeen(c)
  PROVE  PollInv'
<1>1. \A d \in Calls \ {c} : SamePolls(d)
  BY DEF CommitSeen, Polled, Settle, TypeOK, SamePolls, closure, attempt, node
<1>2. /\ pc[c] = "get" /\ Checking(c) /\ Judged(c)
      /\ attempts[c] \in Int /\ count[c] \in Int /\ polls[c] \in Nat /\ mode[c] # "none"
  BY DEF CommitSeen, TypeOK, PollInv, PollOK
<1>3. /\ \/ pc'[c] = "done" /\ outcome'[c] = "resolved"
         \/ pc'[c] = "then" /\ outcome'[c] = outcome[c]
      /\ polls'[c] = polls[c] + 1 /\ mode'[c] = mode[c] /\ attempts'[c] = attempts[c]
  BY DEF CommitSeen, Polled, Settle, TypeOK, closure
<1>4. Judged(c)'
  BY <1>2, <1>3 DEF Checking, Judged, Allowed
<1>5. QED
  BY <1>1, <1>2, <1>3, <1>4, OneLoop DEF PollOK

\* The POST has failed, or sendQueue posts the next transaction or resolves.
LEMMA PostingPolls ==
  ASSUME TypeOK, PollInv, NEW c \in Calls, PostRejected(c) \/ Then(c)
  PROVE  PollInv'
<1>1. \A d \in Calls \ {c} : SamePolls(d)
  BY DEF PostRejected, Then, Post, Settle, TypeOK, SamePolls, closure, attempt, node,
         history
<1>2. /\ pc[c] \in {"post", "then"} /\ Judged(c) /\ attempts[c] \in Int
      /\ polls[c] \in Nat /\ mode[c] # "none"
  BY DEF PostRejected, Then, TypeOK, PollInv, PollOK
<1>3. /\ mode'[c] = mode[c] /\ attempts'[c] = attempts[c]
      /\ \/ pc'[c] = "post" /\ Unchecked(c)' /\ outcome'[c] = outcome[c]
         \/ /\ pc'[c] = "done" /\ outcome'[c] \in {"PostFailed", "resolved"}
            /\ polls'[c] = polls[c]
  BY DEF PostRejected, Then, Post, Settle, TypeOK, closure, history, Unchecked
<1>4. Judged(c)'
  BY <1>2, <1>3 DEF Judged, Allowed, Unchecked
<1>5. QED
  BY <1>1, <1>2, <1>3, <1>4, OneLoop DEF PollOK

\* The node answers from the blocks, which only grow.
LEMMA ExchangePolls ==
  ASSUME TypeOK, PollInv, NEW c \in Calls, Service(c) \/ LoseReply(c)
  PROVE  PollInv'
<1>1. \A d \in Calls \ {c} : SamePolls(d)
  BY DEF Service, LoseReply, LoseRequest, Fail, Accept, Answer, TypeOK, SamePolls,
         closure, attempt, node, history
<1>2. /\ PollOK(c) /\ mode' = mode /\ attempts' = attempts /\ txHash' = txHash
      /\ count' = count /\ errored' = errored /\ pc' = pc /\ outcome' = outcome
      /\ polls' = polls /\ lastPoll' = lastPoll /\ known' = known /\ committed' = committed
  BY DEF Service, LoseReply, LoseRequest, Fail, Accept, Answer, closure, attempt, node,
         history, PollInv
<1>3. net'[c] = "pending" => ~InBlock(c)
  BY DEF Service, LoseReply, LoseRequest, Fail, Accept, Answer, TypeOK, InBlock
<1>4. pc[c] = "get" => Checking(c)'
  BY <1>2, <1>3 DEF PollOK, Checking, InBlock
<1>5. QED
  BY <1>1, <1>2, <1>4, OneLoop DEF PollOK, Unchecked, Sleeping, Judged, Allowed

\* The loop of every call keeps count of its checks.
LEMMA ChecksCounted == Spec => []PollInv
<1>1. TypeOK /\ PollInv /\ [Next]_vars => PollInv'
  <2> SUFFICES ASSUME TypeOK, PollInv, [Next]_vars PROVE PollInv'
    OBVIOUS
  <2>1. ASSUME NEW c \in Calls, Caller(c) PROVE PollInv'
    <3>1. CASE \E t \in Tx : GrowList(c, t)
      <4>1. \A d \in Calls : SamePolls(d)
        BY <3>1 DEF GrowList, SamePolls, attempt, node, history
      <4>2. QED
        BY <4>1, FramePolls DEF PollInv
    <3>2. QED
      BY <2>1, <3>1, CallPolls DEF Caller
  <2>2. ASSUME NEW c \in Calls, Client(c) PROVE PollInv'
    BY <2>2, PostSettledPolls, WakePolls, TickPolls, CommitSeenPolls, PostingPolls
    DEF Client
  <2>3. ASSUME NEW c \in Calls, Service(c) \/ LoseReply(c) PROVE PollInv'
    BY <2>3, ExchangePolls
  <2>4. CASE (\E b \in Bodies : Commit(b)) \/ UNCHANGED vars
    <3>1. \A d \in Calls : SamePolls(d)
      BY <2>4 DEF Commit, vars, SamePolls, closure, attempt, history
    <3>2. QED
      BY <3>1, FramePolls DEF PollInv
  <2>5. QED
    BY <2>1, <2>2, <2>3, <2>4 DEF Next
<1>2. QED
  BY <1>1, InitPollInv, TypeCorrect, PTL DEF Spec

\* send makes exactly attempts + 1 checks before it gives up, and never more.
THEOREM ChecksWithinBudget == Spec => []RetryBudget
<1>1. PollInv => RetryBudget
  BY DEF PollInv, PollOK, Judged, Allowed, RetryBudget
<1>2. QED
  BY <1>1, ChecksCounted, PTL

\* The error names how the last check ended.
THEOREM VerdictIsOfLastCheck == Spec => []VerdictNamesLastCheck
<1>1. PollInv => VerdictNamesLastCheck
  BY DEF PollInv, PollOK, Judged, VerdictNamesLastCheck
<1>2. QED
  BY <1>1, ChecksCounted, PTL

\* What was in a block before the last check is not reported as not accepted.
THEOREM CommitIsNotMissed == Spec => []NoCommitMissed
<1>1. PollInv => NoCommitMissed
  BY DEF PollInv, PollOK, Judged, NoCommitMissed
<1>2. QED
  BY <1>1, ChecksCounted, PTL
-----------------------------------------------------------------------------
(***************************************************************************)
(* Transport implements OrderedSubmission, for any calls, lists (but the   *)
(* empty one), budgets and behaviours of the node and the network.  A step *)
(* of a call is one of Start, Extend, Confirm and GiveUp or changes nothing*)
(* of what the abstract specification sees; a block is Commit, since the   *)
(* node has only what was submitted (PoolInv).                             *)
(***************************************************************************)

\* The variables of OrderedSubmission, call by call.
Submits(c) ==
  IF outcome[c] \in {"none", "TypeError"} THEN 0
  ELSE IF mode[c] = "send" THEN 1 ELSE index[c]

Confirms(c) ==
  IF mode[c] = "send" THEN IF outcome[c] = "resolved" THEN 1 ELSE 0
  ELSE Len(responses[c])

Verdict(c) == IF outcome[c] \in Rejected THEN "rejected" ELSE outcome[c]

submitted == [c \in Calls |-> Submits(c)]
confirmed == [c \in Calls |-> Confirms(c)]
verdict == [c \in Calls |-> Verdict(c)]

\* What was submitted so far, and that nothing else is in the pool.
Sent == {t \in Tx : \E c \in Calls : \E i \in 1..Submits(c) : transactions[c][i] = t}

PoolInv == pool \subseteq Sent

\* A step of the abstract specification, that takes back nothing.
Refined == [Ordered!Next]_(Ordered!vars) /\ Sent \subseteq Sent'

\* The mapped variables of a step of call c.
LEMMA Mapped ==
  ASSUME NEW c \in Calls, \A d \in Calls \ {c} : Same(d)
  PROVE  /\ submitted' = [submitted EXCEPT ![c] = Submits(c)']
         /\ confirmed' = [confirmed EXCEPT ![c] = Confirms(c)']
         /\ verdict' = [verdict EXCEPT ![c] = Verdict(c)']
         /\ submitted[c] = Submits(c) /\ confirmed[c] = Confirms(c)
         /\ verdict[c] = Verdict(c)
<1>1. \A d \in Calls \ {c} : /\ Submits(d)' = Submits(d) /\ Confirms(d)' = Confirms(d)
                             /\ Verdict(d)' = Verdict(d)
  BY DEF Same, Submits, Confirms, Verdict
<1>2. /\ submitted' = [d \in Calls |-> Submits(d)']
      /\ confirmed' = [d \in Calls |-> Confirms(d)']
      /\ verdict' = [d \in Calls |-> Verdict(d)']
  BY DEF submitted, confirmed, verdict
<1>3. QED
  BY <1>1, <1>2 DEF submitted, confirmed, verdict

\* What of the mapped variables does not change stays as it is.
LEMMA Unmapped ==
  ASSUME NEW c \in Calls, \A d \in Calls \ {c} : Same(d)
  PROVE  /\ Submits(c)' = Submits(c) => submitted' = submitted
         /\ Confirms(c)' = Confirms(c) => confirmed' = confirmed
         /\ Verdict(c)' = Verdict(c) => verdict' = verdict
<1>1. /\ submitted = [submitted EXCEPT ![c] = Submits(c)]
      /\ confirmed = [confirmed EXCEPT ![c] = Confirms(c)]
      /\ verdict = [verdict EXCEPT ![c] = Verdict(c)]
  BY DEF submitted, confirmed, verdict
<1>2. QED
  BY <1>1, Mapped

\* What call c has submitted it still has, and so for all calls.
LEMMA SentStays ==
  ASSUME NEW c \in Calls, \A d \in Calls \ {c} : Same(d),
         \A i \in 1..Submits(c) : /\ i \in 1..(Submits(c)')
                                  /\ transactions'[c][i] = transactions[c][i]
  PROVE  Sent \subseteq Sent'
<1>1. ASSUME NEW t \in Tx, NEW d \in Calls, NEW i \in 1..Submits(d), transactions[d][i] = t
      PROVE  i \in 1..(Submits(d)') /\ transactions'[d][i] = t
  <2>1. CASE d = c
    BY <1>1, <2>1
  <2>2. CASE d # c
    BY <1>1, <2>2 DEF Same, Submits
  <2>3. QED
    BY <2>1, <2>2
<1>2. QED
  BY <1>1 DEF Sent

-----------------------------------------------------------------------------
(* The abstract actions.                                                   *)

\* The abstract specification over the mapped variables: its state, and its actions
\* one by one.
LEMMA OrderedState ==
  /\ UNCHANGED <<transactions, submitted, confirmed, verdict, committed>> =>
       UNCHANGED Ordered!vars
  /\ Ordered!Submitted = Sent
BY DEF Ordered!vars, Ordered!Submitted, Submits, Confirms, Verdict, submitted, confirmed,
       verdict, Sent

\* A call that was not made starts, or fails.
LEMMA OrderedStart ==
  ASSUME NEW c, NEW l
  PROVE  Ordered!Start(c, l) <=>
           /\ verdict[c] = "none"
           /\ transactions' = [transactions EXCEPT ![c] = l]
           /\ \/ /\ verdict' = [verdict EXCEPT ![c] = "pending"]
                 /\ submitted' = [submitted EXCEPT ![c] = 1]
              \/ /\ verdict' = [verdict EXCEPT ![c] = "rejected"]
                 /\ submitted' = submitted
           /\ confirmed' = confirmed /\ committed' = committed
BY DEF Ordered!Start, Submits, Confirms, Verdict, submitted, confirmed, verdict

\* A running call has a longer list.
LEMMA OrderedExtend ==
  ASSUME NEW c, NEW t
  PROVE  Ordered!Extend(c, t) <=>
           /\ verdict[c] = "pending" /\ Len(transactions[c]) < MaxLen
           /\ transactions' = [transactions EXCEPT ![c] = Append(@, t)]
           /\ submitted' = submitted /\ confirmed' = confirmed
           /\ verdict' = verdict /\ committed' = committed
BY DEF Ordered!Extend, Submits, Confirms, Verdict, submitted, confirmed, verdict

\* The outstanding transaction is in a block.
LEMMA OrderedConfirm ==
  ASSUME NEW c
  PROVE  Ordered!Confirm(c) <=>
           /\ verdict[c] = "pending"
           /\ transactions[c][submitted[c]] \in committed
           /\ confirmed' = [confirmed EXCEPT ![c] = submitted[c]]
           /\ \/ /\ submitted[c] < Len(transactions[c])
                 /\ submitted' = [submitted EXCEPT ![c] = @ + 1]
                 /\ verdict' = verdict
              \/ /\ submitted[c] = Len(transactions[c])
                 /\ verdict' = [verdict EXCEPT ![c] = "resolved"]
                 /\ submitted' = submitted
           /\ transactions' = transactions /\ committed' = committed
BY DEF Ordered!Confirm, Submits, Confirms, Verdict, submitted, confirmed, verdict

\* A running call is rejected.
LEMMA OrderedGiveUp ==
  ASSUME NEW c
  PROVE  Ordered!GiveUp(c) <=>
           /\ verdict[c] = "pending"
           /\ verdict' = [verdict EXCEPT ![c] = "rejected"]
           /\ transactions' = transactions /\ submitted' = submitted
           /\ confirmed' = confirmed /\ committed' = committed
BY DEF Ordered!GiveUp, Submits, Confirms, Verdict, submitted, confirmed, verdict

\* A block with a transaction that was submitted.
LEMMA OrderedCommit ==
  ASSUME NEW t
  PROVE  Ordered!Commit(t) <=>
           /\ t \in Sent
           /\ committed' = committed \cup {t}
           /\ transactions' = transactions /\ submitted' = submitted
           /\ confirmed' = confirmed /\ verdict' = verdict
BY DEF Ordered!Commit, Ordered!Submitted, Submits, Confirms, Verdict, submitted, confirmed,
       verdict, Sent

\* A call is made.
LEMMA AsStart ==
  ASSUME TypeOK, NEW c \in Calls, NEW l \in Lists \cup {<<t>> : t \in Tx},
         \A d \in Calls \ {c} : Same(d), outcome[c] = "none",
         transactions' = [transactions EXCEPT ![c] = l], committed' = committed,
         Confirms(c)' = Confirms(c),
         \/ Verdict(c)' = "pending" /\ Submits(c)' = 1
         \/ Verdict(c)' = "rejected" /\ Submits(c)' = 0
  PROVE  Refined
<1>1. Submits(c) = 0 /\ Verdict(c) = "none"
  BY DEF Submits, Verdict, Rejected
<1>2. Sent \subseteq Sent'
  BY <1>1, SentStays
<1>3. Ordered!Start(c, l)
  BY <1>1, Mapped, Unmapped, OrderedStart
<1>4. QED
  BY <1>2, <1>3 DEF Refined, Ordered!Next

\* The caller's array grows.
LEMMA AsExtend ==
  ASSUME TypeOK, CallInv, NEW c \in Calls, NEW t \in Tx, GrowList(c, t)
  PROVE  Refined
<1>1. \A d \in Calls \ {c} : Same(d)
  BY DEF GrowList, TypeOK, Same, attempt, node, history
<1>2. /\ outcome[c] = "pending" /\ Len(transactions[c]) < MaxLen
      /\ transactions' = [transactions EXCEPT ![c] = Append(@, t)]
      /\ committed' = committed
      /\ Submits(c)' = Submits(c) /\ Confirms(c)' = Confirms(c) /\ Verdict(c)' = Verdict(c)
  BY DEF GrowList, attempt, node, Submits, Confirms, Verdict
<1>3. /\ transactions[c] \in Seq(Tx) /\ mode[c] = "sendQueue"
      /\ Submits(c) = index[c] /\ index[c] \in 1..Len(transactions[c])
  BY <1>2 DEF GrowList, TypeOK, CallInv, Current, Submits
<1>4. /\ \A i \in 1..Submits(c) : transactions'[c][i] = transactions[c][i]
      /\ \A i \in 1..Submits(c) : i \in 1..(Submits(c)')
  BY <1>2, <1>3 DEF TypeOK
<1>5. Sent \subseteq Sent'
  BY <1>1, <1>4, SentStays
<1>6. verdict[c] = "pending"
  BY <1>2 DEF verdict, Verdict, Rejected
<1>7. Ordered!Extend(c, t)
  BY <1>1, <1>2, <1>6, Unmapped, OrderedExtend
<1>8. QED
  BY <1>5, <1>7 DEF Refined, Ordered!Next

\* A transaction is seen in a block: the last one, or the next is posted.
LEMMA AsConfirm ==
  ASSUME TypeOK, NEW c \in Calls, \A d \in Calls \ {c} : Same(d),
         transactions' = transactions, committed' = committed,
         outcome[c] = "pending", Submits(c) \in Nat,
         transactions[c][Submits(c)] \in committed, Confirms(c)' = Submits(c),
         \/ /\ Submits(c) < Len(transactions[c])
            /\ Submits(c)' = Submits(c) + 1 /\ Verdict(c)' = Verdict(c)
         \/ /\ Submits(c) = Len(transactions[c])
            /\ Submits(c)' = Submits(c) /\ Verdict(c)' = "resolved"
  PROVE  Refined
<1>1. \A i \in 1..Submits(c) : i \in 1..(Submits(c)')
  OBVIOUS
<1>2. Sent \subseteq Sent'
  BY <1>1, SentStays
<1>3. Verdict(c) = "pending"
  BY DEF Verdict, Rejected
<1>4. Ordered!Confirm(c)
  BY <1>3, Mapped, Unmapped, OrderedConfirm
<1>5. QED
  BY <1>2, <1>4 DEF Refined, Ordered!Next

\* A promise is rejected.
LEMMA AsGiveUp ==
  ASSUME TypeOK, NEW c \in Calls, \A d \in Calls \ {c} : Same(d),
         UNCHANGED closure, committed' = committed, outcome[c] = "pending",
         outcome'[c] \in {"PostFailed", "RequestFailed", "NotAccepted"}
  PROVE  Refined
<1>1. /\ transactions' = transactions /\ Submits(c)' = Submits(c)
      /\ Confirms(c)' = Confirms(c)
  BY DEF closure, Submits, Confirms
<1>2. Verdict(c) = "pending" /\ Verdict(c)' = "rejected"
  BY DEF Verdict, Rejected
<1>3. Sent \subseteq Sent'
  BY <1>1, SentStays
<1>4. Ordered!GiveUp(c)
  BY <1>1, <1>2, Mapped, Unmapped, OrderedGiveUp
<1>5. QED
  BY <1>3, <1>4 DEF Refined, Ordered!Next

\* What happens between the two is not seen.
LEMMA AsStutter ==
  ASSUME UNCHANGED closure, UNCHANGED outcome, UNCHANGED committed
  PROVE  Refined
<1>1. /\ transactions' = transactions /\ submitted' = submitted
      /\ confirmed' = confirmed /\ verdict' = verdict
  BY DEF closure, submitted, confirmed, verdict, Submits, Confirms, Verdict
<1>2. Sent' = Sent
  BY DEF closure, Sent, Submits
<1>3. QED
  BY <1>1, <1>2, OrderedState DEF Refined

-----------------------------------------------------------------------------
(* The steps of Transport.                                                 *)

\* send and sendQueue submit the first transaction, or fail at once.
LEMMA CallRefined ==
  ASSUME TypeOK, CallInv, NEW c \in Calls, NEW a \in Budgets, NEW p \in BOOLEAN,
         \/ \E t \in Tx : Send(c, t, a, p)
         \/ \E list \in Lists : SendQueue(c, list, a, p)
  PROVE  Refined
<1>1. \A d \in Calls \ {c} : Same(d)
  BY DEF Send, SendQueue, Post, Settle, TypeOK, Same, node, history
<1>2. PICK l \in Lists \cup {<<t>> : t \in Tx} :
        transactions' = [transactions EXCEPT ![c] = l]
  BY DEF Send, SendQueue
<1>3. /\ mode[c] = "none" /\ outcome[c] = "none" /\ index[c] = 0 /\ responses[c] = <<>>
      /\ committed' = committed /\ responses'[c] = responses[c]
  BY DEF Send, SendQueue, TypeOK, CallInv, Phase, Current, node
<1>4. /\ outcome'[c] \in {"pending", "TypeError"}
      /\ \/ mode'[c] = "send"
         \/ mode'[c] = "sendQueue" /\ index'[c] = 1
  <2>1. CASE \E t \in Tx : Send(c, t, a, p)
    BY <2>1 DEF Send, Settle, TypeOK
  <2>2. CASE \E list \in Lists : SendQueue(c, list, a, p)
    <3>1. /\ mode' = [mode EXCEPT ![c] = "sendQueue"]
          /\ index' = [index EXCEPT ![c] = 1]
          /\ \/ outcome' = [outcome EXCEPT ![c] = "pending"]
             \/ outcome' = [outcome EXCEPT ![c] = "TypeError"]
      BY <2>2 DEF SendQueue, Settle
    <3>2. QED
      BY <3>1 DEF TypeOK
  <2>3. QED
    BY <2>1, <2>2
<1>5. Confirms(c)' = Confirms(c)
  BY <1>3, <1>4 DEF Confirms
<1>6. \/ Verdict(c)' = "pending" /\ Submits(c)' = 1
      \/ Verdict(c)' = "rejected" /\ Submits(c)' = 0
  BY <1>4 DEF Submits, Verdict, Rejected
<1>7. QED
  BY <1>1, <1>2, <1>3, <1>5, <1>6, AsStart

\* Entering the loop again is not seen, and leaving it is giving up.
LEMMA LoopRefined ==
  ASSUME TypeOK, CallInv, NEW c \in Calls, PostSettled(c) \/ Wake(c)
  PROVE  Refined
<1>1. \A d \in Calls \ {c} : Same(d)
  BY DEF PostSettled, Wake, Loop, Check, Settle, TypeOK, Same, closure, node
<1>2. UNCHANGED closure /\ committed' = committed /\ Loop(c)
  BY DEF PostSettled, Wake, node
<1>3. outcome[c] = "pending"
  BY DEF PostSettled, Wake, CallInv, Phase, Suspended
<1>4. CASE Check(c)
  BY <1>2, <1>4, AsStutter DEF Check
<1>5. CASE Settle(c, IF errored'[c] THEN "RequestFailed" ELSE "NotAccepted")
  <2>1. outcome'[c] \in {"PostFailed", "RequestFailed", "NotAccepted"}
    BY <1>5 DEF Settle, TypeOK
  <2>2. QED
    BY <1>1, <1>2, <1>3, <2>1, AsGiveUp
<1>6. QED
  BY <1>2, <1>4, <1>5 DEF Loop

\* A POST that failed ends the call.
LEMMA PostRejectedRefined ==
  ASSUME TypeOK, CallInv, NEW c \in Calls, PostRejected(c)
  PROVE  Refined
<1>1. \A d \in Calls \ {c} : Same(d)
  BY DEF PostRejected, Settle, TypeOK, Same, closure, attempt, node
<1>2. UNCHANGED closure /\ committed' = committed /\ outcome'[c] = "PostFailed"
  BY DEF PostRejected, Settle, TypeOK, node
<1>3. outcome[c] = "pending"
  BY DEF PostRejected, CallInv, Phase, Suspended
<1>4. QED
  BY <1>1, <1>2, <1>3, AsGiveUp

\* send resolves when it sees the commit; sendQueue has its `then` to come.
LEMMA CommitSeenRefined ==
  ASSUME TypeOK, CallInv, NEW c \in Calls, CommitSeen(c)
  PROVE  Refined
<1>1. UNCHANGED closure /\ committed' = committed
  BY DEF CommitSeen, node
<1>2. CASE mode[c] = "sendQueue"
  <2>1. UNCHANGED outcome
    BY <1>2 DEF CommitSeen
  <2>2. QED
    BY <1>1, <2>1, AsStutter
<1>3. CASE mode[c] = "send"
  <2>1. \A d \in Calls \ {c} : Same(d)
    BY DEF CommitSeen, Settle, TypeOK, Same, closure, attempt, node
  <2>2. /\ outcome[c] = "pending" /\ outcome'[c] = "resolved"
        /\ body[c] = transactions[c][1] /\ body[c] \in committed
        /\ Len(transactions[c]) = 1
    BY <1>3 DEF CommitSeen, Settle, TypeOK, CallInv, Phase, Suspended, Current, Confirmed
  <2>3. mode'[c] = "send" /\ transactions' = transactions
    BY <1>1, <1>3 DEF closure
  <2>4. Submits(c) = 1 /\ Submits(c)' = 1 /\ Confirms(c)' = 1 /\ Verdict(c)' = "resolved"
    BY <1>3, <2>2, <2>3 DEF Submits, Confirms, Verdict, Rejected
  <2>5. /\ Submits(c) \in Nat /\ transactions[c][Submits(c)] \in committed
        /\ Submits(c) = Len(transactions[c])
        /\ Submits(c)' = Submits(c) /\ Confirms(c)' = Submits(c)
    BY <2>2, <2>4
  <2>6. QED
    BY <1>1, <2>1, <2>2, <2>3, <2>4, <2>5, AsConfirm
<1>4. QED
  BY <1>2, <1>3 DEF CommitSeen

\* sendQueue keeps the hash, and reads the next transaction or resolves.
LEMMA ThenRefined ==
  ASSUME TypeOK, CallInv, NEW c \in Calls, Then(c)
  PROVE  Refined
<1>1. \A d \in Calls \ {c} : Same(d)
  BY DEF Then, Post, Settle, TypeOK, Same, node, history
<1>2. transactions' = transactions /\ committed' = committed /\ mode' = mode
  BY DEF Then, node
<1>3. /\ mode[c] = "sendQueue" /\ outcome[c] = "pending"
      /\ body[c] = transactions[c][index[c]] /\ body[c] \in committed
      /\ index[c] \in 1..Len(transactions[c]) /\ index[c] \in Nat
      /\ responses[c] \in Seq(Hashes) /\ txHash[c] \in Hashes
      /\ Len(responses[c]) = index[c] - 1
  BY DEF Then, TypeOK, CallInv, Phase, Suspended, Current, Confirmed, Kept
<1>4. responses'[c] = Append(responses[c], txHash[c])
  BY DEF Then, TypeOK
<1>5. Len(responses'[c]) = index[c]
  BY <1>3, <1>4
<1>6. \/ /\ index[c] < Len(transactions[c])
         /\ index'[c] = index[c] + 1 /\ outcome'[c] = outcome[c]
      \/ /\ index[c] = Len(transactions[c])
         /\ index'[c] = index[c] /\ outcome'[c] = "resolved"
  BY <1>3 DEF Then, Settle, TypeOK
<1>7. Submits(c) = index[c] /\ Submits(c)' = index'[c] /\ Confirms(c)' = index[c]
  BY <1>2, <1>3, <1>5, <1>6 DEF Submits, Confirms
<1>8. \/ /\ Submits(c) < Len(transactions[c])
         /\ Submits(c)' = Submits(c) + 1 /\ Verdict(c)' = Verdict(c)
      \/ /\ Submits(c) = Len(transactions[c])
         /\ Submits(c)' = Submits(c) /\ Verdict(c)' = "resolved"
  BY <1>6, <1>7 DEF Verdict, Rejected
<1>9. transactions[c][Submits(c)] \in committed /\ Submits(c) \in Nat
  BY <1>3, <1>7
<1>10. QED
  BY <1>1, <1>2, <1>3, <1>7, <1>8, <1>9, AsConfirm

\* A block has a transaction that was submitted.
LEMMA CommitRefined ==
  ASSUME PoolInv, NEW b \in Bodies, Commit(b)
  PROVE  Refined
<1>1. b \in Sent /\ committed' = committed \cup {b} /\ UNCHANGED <<closure, outcome>>
  BY DEF Commit, PoolInv
<1>2. /\ transactions' = transactions /\ submitted' = submitted
      /\ confirmed' = confirmed /\ verdict' = verdict
  BY <1>1 DEF closure, submitted, confirmed, verdict, Submits, Confirms, Verdict
<1>3. Sent' = Sent
  BY <1>1 DEF closure, Sent, Submits
<1>4. b \in Tx /\ Ordered!Commit(b)
  BY <1>1, <1>2, OrderedCommit DEF Sent
<1>5. QED
  BY <1>3, <1>4 DEF Refined, Ordered!Next

\* Every step is a step of the abstract specification, or none.
LEMMA StepRefined ==
  ASSUME TypeOK, CallInv, PoolInv, [Next]_vars
  PROVE  Refined
<1>1. ASSUME NEW c \in Calls, Caller(c) PROVE Refined
  BY <1>1, CallRefined, AsExtend DEF Caller
<1>2. ASSUME NEW c \in Calls, Client(c) PROVE Refined
  <2>1. CASE NotYet(c) \/ CheckFailed(c)
    BY <2>1, AsStutter DEF NotYet, CheckFailed, Tick, node
  <2>2. QED
    BY <1>2, <2>1, LoopRefined, PostRejectedRefined, CommitSeenRefined, ThenRefined
    DEF Client
<1>3. ASSUME NEW c \in Calls, Service(c) \/ LoseReply(c) PROVE Refined
  BY <1>3, AsStutter
  DEF Service, LoseReply, LoseRequest, Fail, Accept, Answer, closure, node
<1>4. CASE UNCHANGED vars
  BY <1>4, AsStutter DEF vars, closure
<1>5. QED
  BY <1>1, <1>2, <1>3, <1>4, CommitRefined DEF Next

\* The node pools what a call posts, and a call posts what it has submitted.
LEMMA PoolStep ==
  ASSUME TypeOK, CallInv, PoolInv, [Next]_vars
  PROVE  PoolInv'
<1>1. Sent \subseteq Sent'
  BY StepRefined DEF Refined
<1>2. ASSUME NEW c \in Calls, Accept(c) PROVE PoolInv'
  <2>1. /\ pc[c] = "post" /\ outcome[c] = "pending" /\ mode[c] \in {"send", "sendQueue"}
    BY <1>2 DEF Accept, CallInv, Phase, Suspended, TypeOK, Modes
  <2>2. /\ body[c] = transactions[c][Submits(c)]
        /\ Submits(c) \in 1..Len(transactions[c]) /\ transactions[c] \in Seq(Tx)
    <3>1. Current(c) /\ transactions[c] \in Seq(Tx)
      BY DEF CallInv, TypeOK
    <3>2. CASE mode[c] = "send"
      <4>1. Submits(c) = 1
        BY <2>1, <3>2 DEF Submits
      <4>2. QED
        BY <2>1, <3>1, <3>2, <4>1 DEF Current
    <3>3. CASE mode[c] = "sendQueue"
      <4>1. Submits(c) = index[c]
        BY <2>1, <3>3 DEF Submits
      <4>2. QED
        BY <2>1, <3>1, <3>3, <4>1 DEF Current
    <3>4. QED
      BY <2>1, <3>2, <3>3
  <2>3. body[c] \in Sent
    BY <2>2 DEF Sent
  <2>4. QED
    BY <1>1, <1>2, <2>3 DEF Accept, PoolInv
<1>3. ASSUME ~\E c \in Calls : Accept(c) PROVE pool' \subseteq pool
  BY <1>3 DEF Next, vars, Caller, Send, SendQueue, GrowList, Client, PostSettled,
     PostRejected, CommitSeen, NotYet, CheckFailed, Tick, Wake, Then, Service, Answer,
     LoseRequest, LoseReply, Fail, Commit, node
<1>4. QED
  BY <1>1, <1>2, <1>3 DEF PoolInv

\* Before any call nothing is submitted.
LEMMA InitRefined == Init => Ordered!Init /\ PoolInv
BY DEF Init, Ordered!Init, PoolInv, Rejected

\* Transport implements OrderedSubmission.
THEOREM TransportImplements ==
  ASSUME <<>> \notin Lists
  PROVE  Spec => ImplementsOrderedSubmission
<1>1. Init => Ordered!Init /\ PoolInv
  BY InitRefined
<1>2. TypeOK /\ CallInv /\ PoolInv /\ [Next]_vars => PoolInv' /\ [Ordered!Next]_(Ordered!vars)
  BY PoolStep, StepRefined DEF Refined
<1>3. Spec => []TypeOK /\ []CallInv
  BY TypeCorrect, CallsConsistent
<1>4. QED
  BY <1>1, <1>2, <1>3, PTL DEF Spec, ImplementsOrderedSubmission, Ordered!Spec
=============================================================================
