-------------------------------- MODULE Paths --------------------------------
(***************************************************************************)
(* Paths in a Merkle Patricia tree as sequences of bits, and what the      *)
(* methods of ProofPath compute of them, src/src/blockchain/ProofPath.js.  *)
(* ProofPath shows that the methods do so on arrays of bytes.              *)
(***************************************************************************)
EXTENDS Integers, Sequences

\* commonPrefixLength: the paths agree so far, and no further.
CommonLength(p, q) ==
  CHOOSE n \in 0..Len(p) :
    /\ n <= Len(q)
    /\ \A k \in 1..n : p[k] = q[k]
    /\ n = Len(p) \/ n = Len(q) \/ p[n + 1] # q[n + 1]

CommonPrefix(p, q) == SubSeq(p, 1, CommonLength(p, q))

StartsWith(p, prefix) == CommonLength(p, prefix) = Len(prefix)

\* compare(p, q) is negative: a path comes before its extensions.
Before(p, q) ==
  LET n == CommonLength(p, q)
  IN IF n = Len(p) \/ n = Len(q) THEN Len(p) < Len(q) ELSE p[n + 1] < q[n + 1]
=============================================================================
