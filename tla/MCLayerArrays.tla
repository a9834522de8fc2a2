---------------------------- MODULE MCLayerArrays ----------------------------
(* All pairs of sorted arrays of a level, up to a last index.                *)
EXTENDS LayerArrays

CONSTANT MaxLast

\* The sorted array of the indexes in S, with hashes that tell the sides apart.
RECURSIVE ArrayOf(_, _)
ArrayOf(S, side) ==
  IF S = {} THEN <<>>
  ELSE LET m == CHOOSE x \in S : \A y \in S : x <= y
       IN <<[index |-> m, hash |-> <<side, m>>]>> \o ArrayOf(S \ {m}, side)

MCInputs ==
  UNION {{[xs |-> ArrayOf(S, 3), ys |-> ArrayOf(T, 4), last |-> n] :
            S \in SUBSET (0..n), T \in SUBSET (0..n)} : n \in 0..MaxLast}
=============================================================================
