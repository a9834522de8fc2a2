----------------------------- MODULE MCTransport -----------------------------
(* Small instances of Transport for TLC.                                    *)
EXTENDS Transport, TLC

CONSTANTS t1, t2

\* Arrays of one and of two transactions; a repeated one.
MCLists == {<<t1>>, <<t1, t2>>, <<t2, t2>>}
\* The same with the empty array.
MCListsOrEmpty == {<<>>, <<t1, t2>>}
\* A negative number, which skips the loop, and up to two checks.
MCBudgets == {-1, 0, 1}
MCBudgetZero == {0}

CallSymmetry == Permutations(Calls)

-----------------------------------------------------------------------------
(* What the documentation and the naming of the options say.               *)

\* README: "Pass 0 in case you do not need to verify if the transaction is
\* accepted": with attempts = 0 no promise is rejected for not being accepted.
ZeroAttemptsDoNotVerify ==
  \A c \in Calls : attempts[c] = 0 => outcome[c] # "NotAccepted"

\* sendQueue "sends several transactions": what it posts is in the array.
PostsOnlyListed ==
  \A c \in Calls : net[c] = "post" =>
    \E i \in DOMAIN transactions[c] : body[c] = transactions[c][i]
=============================================================================
