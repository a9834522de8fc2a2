------------------------------- MODULE MapTree -------------------------------
(***************************************************************************)
(* The hashes of the Merkle Patricia tree of a map,                        *)
(* src/src/blockchain/merkle-patricia.js, and the tree above a set of      *)
(* nodes.  A node is its path and its hash; hashes are the tuples of what  *)
(* is hashed.                                                              *)
(***************************************************************************)
EXTENDS Paths

CONSTANT Width  \* length of the path of a key, BIT_LENGTH

ASSUME WidthAssumption == Width \in Nat \ {0}

Blob(v) == <<0, v>>
\* A branch is hashed from its children's hashes and full paths: 69 bytes or more.
Branch(l, r) == <<4, l.hash, r.hash, l.path, r.path>>
\* The only node of a tree: 67 bytes, with the prefix of a branch.
Isolated(x) == <<4, x.path, x.hash>>
MapHash(h) == <<3, h>>
ZeroHash == <<>>

Bit == {0, 1}
PathsUpTo(n) == UNION {[1..k -> Bit] : k \in 0..n}

\* The reference definition: the node that stands for those of the set `given`
\* below each path, if there are any.  It stands where they part.
Tree(given) ==
  LET under[p \in PathsUpTo(Width)] ==
        LET here == {x \in given : x.path = p}
            left == under[Append(p, 0)]
            right == under[Append(p, 1)]
        IN IF here # {} \/ Len(p) = Width THEN here
           ELSE IF left = {} \/ right = {} THEN left \cup right
           ELSE {[path |-> p, hash |-> Branch(l, r)] : l \in left, r \in right}
  IN under

\* The root hash for the node at the top of a tree.
RootOf(top) ==
  MapHash(IF top = {} THEN ZeroHash
          ELSE LET x == CHOOSE x \in top : TRUE
               IN IF Len(x.path) = Width THEN Isolated(x) ELSE x.hash)
=============================================================================
