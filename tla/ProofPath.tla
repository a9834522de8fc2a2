------------------------------ MODULE ProofPath ------------------------------
(***************************************************************************)
(* The methods of ProofPath on arrays of bytes,                            *)
(* src/src/blockchain/ProofPath.js: the two loops of commonPrefixLength    *)
(* and the two loops of truncate, which make up commonPrefix, one iteration*)
(* at a time, and compare, startsWith and serialize as operators.          *)
(*                                                                         *)
(* Bytes have ByteBits bits and a full path as many as there are in a      *)
(* hash; where the code shifts by 3 or 7 the model divides by ByteBits or  *)
(* by Half, the least length that takes two bytes (128 in the code).       *)
(***************************************************************************)
EXTENDS Paths, Converters

CONSTANTS Half,
          Strings     \* binary strings that paths are made of

KeyLength == HashBytes
Width == ByteBits * KeyLength

ASSUME HalfAssumption == Half \in Nat \ {0} /\ 2 * Half - 1 \in Byte /\ Width <= 2 * Half

ASSUME StringsAssumption == \A s \in Strings : s \in Seq({0, 1}) /\ Len(s) \in 1..Width

\* Bit `pos` of an array of bytes, the least significant bit of a byte first.
getBit(key, pos) == BitOf(key[pos \div ByteBits], pos % ByteBits)

setBit(key, pos, bit) ==
  LET mask == Pow2[pos % ByteBits]
  IN [key EXCEPT ![pos \div ByteBits] = @ - mask * getBit(key, pos) + mask * bit]

\* The sequence of bits a path stands for.
Bits(path) == [k \in 1..path.bitLength |-> getBit(path.key, k - 1)]

padWithZeros(str, desiredLength) == str \o [k \in 1..(desiredLength - Len(str)) |-> 0]

\* The constructor, for arrays of bytes and for binary strings.
FromBytes(array, bitLength) ==
  [key |-> [n \in 0..(KeyLength - 1) |-> array[n + 1]], bitLength |-> bitLength]

FromString(bits) ==
  FromBytes(binaryStringToUint8Array(padWithZeros(bits, Width)), Len(bits))

hexKey(path) == uint8ArrayToHexadecimal([n \in 1..KeyLength |-> path.key[n - 1]])

\* toJSON: the digits of the key, trimmed.
toJSON(path) == SubSeq(hexadecimalToBinaryString(hexKey(path)), 1, path.bitLength)

\* What the two constructors make of binary strings and of arrays of bytes: a
\* string of the full width is an array of bytes.
Constructed == {FromString(s) : s \in Strings}

VARIABLES
  this, other,   \* the paths
  pos,           \* `pos` of commonPrefixLength, then `bits` of truncate
  bytes,         \* `bytes` of truncate
  at,            \* loop variable of truncate
  stage          \* the loop that is running

vars == <<this, other, pos, bytes, at, stage>>
paths == <<this, other>>

Init ==
  /\ this \in Constructed /\ other \in Constructed
  /\ pos = 0 /\ at = 0 /\ stage = "bytes"
  /\ bytes = [n \in 0..(KeyLength - 1) |-> 0]

-----------------------------------------------------------------------------
(* commonPrefixLength.                                                     *)

intersectingBits == Min({this.bitLength, other.bitLength})

\* Mutated form: the position is compared with a number of bits.
InBytesLoose == pos < intersectingBits

\* The position, in bits, is compared with a number of bytes.
InBytes == pos < intersectingBits \div ByteBits

SameByte == this.key[pos \div ByteBits] = other.key[pos \div ByteBits]

ByteStep ==
  /\ stage = "bytes"
  /\ \/ InBytes /\ SameByte /\ pos' = pos + ByteBits /\ UNCHANGED stage
     \/ ~(InBytes /\ SameByte) /\ stage' = "bits" /\ UNCHANGED pos
  /\ UNCHANGED <<paths, bytes, at>>

BitStep ==
  /\ stage = "bits"
  /\ LET same == /\ pos < intersectingBits
                 /\ getBit(this.key, pos) = getBit(other.key, pos)
     IN \/ same /\ pos' = pos + 1 /\ UNCHANGED stage
        \/ ~same /\ stage' = "copy" /\ UNCHANGED pos
  /\ UNCHANGED <<paths, bytes, at>>

-----------------------------------------------------------------------------
(* truncate.                                                               *)

\* Mutated form: the loop over bits starts a byte late.
CopyLate ==
  /\ stage = "copy"
  /\ \/ /\ at < pos \div ByteBits
        /\ bytes' = [bytes EXCEPT ![at] = this.key[at]]
        /\ at' = at + 1
        /\ UNCHANGED stage
     \/ /\ at >= pos \div ByteBits
        /\ at' = ByteBits * ((pos \div ByteBits) + 1)
        /\ stage' = "set"
        /\ UNCHANGED bytes
  /\ UNCHANGED <<paths, pos>>

\* Full bytes are copied.
Copy ==
  /\ stage = "copy"
  /\ \/ /\ at < pos \div ByteBits
        /\ bytes' = [bytes EXCEPT ![at] = this.key[at]]
        /\ at' = at + 1
        /\ UNCHANGED stage
     \/ /\ at >= pos \div ByteBits
        /\ at' = ByteBits * (pos \div ByteBits)
        /\ stage' = "set"
        /\ UNCHANGED bytes
  /\ UNCHANGED <<paths, pos>>

\* The bits of the last byte are set one by one.
Set ==
  /\ stage = "set"
  /\ \/ /\ at < pos
        /\ bytes' = setBit(bytes, at, getBit(this.key, at))
        /\ at' = at + 1
        /\ UNCHANGED stage
     \/ /\ at >= pos
        /\ stage' = "done"
        /\ UNCHANGED <<bytes, at>>
  /\ UNCHANGED <<paths, pos>>

Next == ByteStep \/ BitStep \/ Copy \/ Set

Spec == Init /\ [][Next]_vars

-----------------------------------------------------------------------------
(* The other methods, for the paths of a state that is done.               *)

result == [key |-> bytes, bitLength |-> pos]

startsWith == pos = other.bitLength

\* compare: the sign of a difference, or the difference of two bits.
compare ==
  IF pos = intersectingBits
  THEN IF this.bitLength < other.bitLength THEN -1
       ELSE IF this.bitLength > other.bitLength THEN 1 ELSE 0
  ELSE getBit(this.key, pos) - getBit(other.key, pos)

\* Mutated form: the bits after the last whole byte are not written.
serializeWhole(path) ==
  (IF path.bitLength < Half THEN <<path.bitLength>>
   ELSE <<Half + (path.bitLength % Half), path.bitLength \div Half>>)
  \o [k \in 1..(path.bitLength \div ByteBits) |-> path.key[k - 1]]

\* serialize: the length in one byte or two, then the bytes with bits of the path.
serialize(path) ==
  (IF path.bitLength < Half THEN <<path.bitLength>>
   ELSE <<Half + (path.bitLength % Half), path.bitLength \div Half>>)
  \o [k \in 1..((path.bitLength + ByteBits - 1) \div ByteBits) |-> path.key[k - 1]]

-----------------------------------------------------------------------------
(* Properties.                                                             *)

Done == stage = "done"

\* The loop over bytes and the loop over bits stop where the paths part, also
\* when a path ends within a byte, and the methods agree with Paths.
CommonPrefixFound ==
  Done => /\ pos = CommonLength(Bits(this), Bits(other))
          /\ startsWith <=> StartsWith(Bits(this), Bits(other))
          /\ compare < 0 <=> Before(Bits(this), Bits(other))
          /\ compare > 0 <=> Before(Bits(other), Bits(this))

\* commonPrefix makes the path that the constructor makes from the common bits:
\* nothing of the longer path is left behind in the last byte.
PrefixIsCanonical == Done => result = FromString(CommonPrefix(Bits(this), Bits(other)))

\* No serialized path begins another one, so that a hashed branch determines the
\* paths of its two children.
SelfDelimiting ==
  Done /\ this # other =>
    LET s == serialize(this)
        t == serialize(other)
    IN ~(Len(s) <= Len(t) /\ s = SubSeq(t, 1, Len(s)))

\* A path is what its JSON presentation says, and is constructed from it again,
\* common prefixes as well (the bits of a byte are written in another order
\* by every converter on the way).
JSONRoundTrip == Done => toJSON(this) = Bits(this) /\ FromString(toJSON(result)) = result

\* The converters agree on the bytes of any binary string, padded to whole bytes;
\* hexadecimal strings are converted back to what they were, but without the odd
\* digit that only one of the converters accepts, and none accepts what
\* uint8ArrayToHexadecimal makes of no bytes.
ConvertersAgree ==
  stage = "bytes" /\ pos = 0 /\ this = other =>
    LET bits == Bits(this)
        array == binaryStringToUint8Array(bits)
        hex == binaryStringToHexadecimal(bits)
    IN /\ uint8ArrayToBinaryString(array) = hexadecimalToBinaryString(hex)
       /\ uint8ArrayToBinaryString(array) = padWithZeros(bits, ByteBits * Len(array))
       /\ \A n \in 0..Len(hex) :
            LET h == SubSeq(hex, 1, n)
            IN /\ AcceptsForBytes(h) <=> n > 0
               /\ AcceptsForBits(h) <=> n > 0 /\ n % 2 = 0
               /\ uint8ArrayToHexadecimal(hexadecimalToUint8Array(h)) = SubSeq(h, 1, 2 * (n \div 2))
               /\ ~AcceptsForBytes(h \o <<Dash>>) /\ ~AcceptsForBits(h \o <<Dash, 0>>)

\* A key has the same path whether its digits are taken for the path or its type
\* serializes it (createPath of merkle-patricia.js), the types accept strings of
\* their sizes only, a Uuid with any dashes, and keep what is in the buffer.
KeyTypesAgree ==
  stage = "bytes" /\ pos = 0 /\ this = other =>
    LET hex == hexKey(this)
        half == SubSeq(hex, 1, KeyLength)
        array == hexadecimalToUint8Array(hex)
    IN /\ FromBytes(array, this.bitLength) = this
       /\ serializeHex("Hash", hex, <<>>, 0) = array
       /\ \A n \in 0..Len(array) : serializeHex("Digest", hex, SubSeq(array, 1, n), n) =
                                  SubSeq(array, 1, n) \o array
       /\ \A n \in 0..KeyLength :
            LET dashed == SubSeq(half, 1, n) \o <<Dash>> \o SubSeq(half, n + 1, KeyLength)
            IN /\ AcceptsForType("Uuid", dashed) /\ ~AcceptsForType("PublicKey", hex \o dashed)
               /\ serializeHex("Uuid", dashed, <<>>, 0) = SubSeq(array, 1, KeyLength \div 2)
       /\ \A t \in {"Uuid", "Hash", "PublicKey", "Digest"} :
            \A s \in {half, hex, hex \o hex, <<>>} :
              AcceptsForType(t, s) <=> Len(s) = 2 * SizeOf(t)
=============================================================================
