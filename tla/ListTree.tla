------------------------------ MODULE ListTree ------------------------------
(***************************************************************************)
(* The hashes of the Merkle tree of a list and the step from one level of  *)
(* the tree to the next, src/src/blockchain/merkle.js: hashNode, hashList, *)
(* mergeLayers and hashLayer.  A level is a set of [index, hash].          *)
(***************************************************************************)
EXTENDS Integers

\* BLOB_PREFIX, LIST_BRANCH_PREFIX and LIST_PREFIX keep the kinds of nodes apart.
Leaf(v) == <<0, v>>
Node(l, r) == <<1, l, r>>
Solitary(l) == <<1, l>>
ListHash(n, h) == <<2, n, h>>
ZeroHash == <<>>

\* Mutated form: the order of the two sides is taken for a clash.
ClashOnOrder(xs, ys) == \E x \in xs, y \in ys : x.index >= y.index

\* mergeLayers meets one index on both sides.
Clash(xs, ys) == \E x \in xs, y \in ys : x.index = y.index

\* Mutated form: a solitary hash may stand anywhere.
PairedAnywhere(x, xs, last) ==
  \/ x.index % 2 = 0
  \/ x.index % 2 = 1 /\ \E y \in xs : y.index = x.index - 1

\* Every hash has its neighbour, except an even last one.
Paired(x, xs, last) ==
  \/ x.index % 2 = 0 /\ \E y \in xs : y.index = x.index + 1
  \/ x.index % 2 = 1 /\ \E y \in xs : y.index = x.index - 1
  \/ x.index % 2 = 0 /\ x.index = last

\* The pairs of a level that are hashed together.
Pairs(xs) == {z \in xs \X xs : z[1].index % 2 = 0 /\ z[2].index = z[1].index + 1}

\* Mutated form: the left hash is written twice.
ZippedLeftTwice(xs, last) ==
  {[index |-> z[1].index \div 2, hash |-> Node(z[1].hash, z[1].hash)] : z \in Pairs(xs)}
  \cup
  {[index |-> x.index \div 2, hash |-> Solitary(x.hash)] :
     x \in {z \in xs : z.index = last /\ z.index % 2 = 0}}

\* hashLayer: the level above.
Zipped(xs, last) ==
  {[index |-> z[1].index \div 2, hash |-> Node(z[1].hash, z[2].hash)] : z \in Pairs(xs)}
  \cup
  {[index |-> x.index \div 2, hash |-> Solitary(x.hash)] :
     x \in {z \in xs : z.index = last /\ z.index % 2 = 0}}

\* The level above, of the tree of the whole list.
Above(level, last) ==
  [k \in 0..(last \div 2) |->
     IF 2 * k + 1 <= last THEN Node(level[2 * k], level[2 * k + 1])
                          ELSE Solitary(level[2 * k])]

\* No two hashes of a level stand at one index, and none beyond its end.
IsLevel(xs, last) ==
  /\ \A x \in xs : x = [index |-> x.index, hash |-> x.hash] /\ x.index \in 0..last
  /\ \A x, y \in xs : x.index = y.index => x = y

\* The hashes of a level are those of the tree.
AgreesWith(xs, level) == \A x \in xs : x.hash = level[x.index]
=============================================================================
