----------------------------- MODULE MCMessages -----------------------------
(* Objects and types for TLC.                                               *)
EXTENDS Messages, TLC

CONSTANTS k, l

V(t, x) == [type |-> t, text |-> x]

\* Every value of a field, alone and with other fields, and a nested message.
MCPayloads ==
  [{"name"} -> {V("string", x) : x \in {"0", "7", ""}}]
  \cup [{"balance"} -> {V("number", "0"), V("string", "0"), V("string", "7")}]
  \cup [{"owner"} -> {V("object", "")}]
  \cup {[owner |-> V("object", ""), note |-> V("string", x), balance |-> V("number", "7")] :
          x \in {"", "7"}}

\* Two methods of a service with the id 0, and ids that are undefined.
MCTypes == {[instance_id |-> 0, method_id |-> 1], [instance_id |-> 0, method_id |-> 0], <<>>}
Symmetry == Permutations(Keys)
=============================================================================
