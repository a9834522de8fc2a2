----------------------------- MODULE MCProofPath -----------------------------
(* All paths of few bits, and paths of many bytes.                           *)
EXTENDS ProofPath

\* The paths that end within the first byte, with it and behind it.
MCShortStrings == UNION {[1..n -> {0, 1}] : n \in 1..(ByteBits + 1)}

\* Lengths at and next to the ends of bytes and the length that takes two bytes,
\* one bit that differs from the others, and the positions of this bit, likewise.
MCLengths == {2 * ByteBits, Half - 1, Half, Width - ByteBits - 1, Width - ByteBits,
              Width - ByteBits + 1, Width}
MCOdd == {0, ByteBits, ByteBits + 1, 2 * ByteBits, 2 * ByteBits + 1, Width - ByteBits}

MCLongStrings ==
  {[i \in 1..n |-> IF i = odd THEN 1 - bit ELSE bit] :
     n \in MCLengths, odd \in MCOdd, bit \in {0, 1}}

MCStrings == MCShortStrings \union MCLongStrings
==============================================================================
