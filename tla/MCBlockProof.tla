---------------------------- MODULE MCBlockProof ----------------------------
(* Networks of up to five validators and a fork, for TLC.                   *)
EXTENDS BlockProof

CONSTANTS stranger, fieldsA, fieldsB, garbage

\* The validators' keys are numbers, in the order of the network.
MCNetworks == {[k \in 1..n |-> k] : n \in 0..4} \cup {<<1, 2, 3, 1>>}
MCKeys == 1..4 \cup {stranger}

A == [height |-> 7, fields |-> fieldsA]
B == [height |-> 7, fields |-> fieldsB]
MCBlocks == {A, B, [height |-> 7, fields |-> garbage]}

Signature(key, k, height, b) ==
  [author |-> key, validator |-> k, height |-> height, hash |-> BlockHash(b)]

\* Each validator may endorse both blocks of the fork.
MCSignable == {Signature(k, k - 1, 7, b) : k \in 1..4, b \in {A, B}}

\* Precommits that endorse nothing: by a key of no validator, by a validator
\* with the number of another one or of none, with the height of another block.
MCCirculating == {Signature(stranger, 0, 7, A), Signature(2, 1, 8, A),
                  Signature(1, 2, 7, A), Signature(1, 3, 7, B), Signature(stranger, 4, 7, A)}
=============================================================================
