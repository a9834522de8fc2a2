----------------------------- MODULE Converters -----------------------------
(***************************************************************************)
(* Strings of hexadecimal and of binary digits and arrays of bytes:        *)
(* src/src/types/convert.js, validateHexadecimal of validate.js and the    *)
(* serializers of src/src/types/hexadecimal.js.                            *)
(*                                                                         *)
(* A byte has ByteBits bits instead of 8, two hexadecimal digits half of   *)
(* them each, and a hash HashBytes bytes instead of 32.  Strings are       *)
(* sequences of the values of their digits, other characters negative      *)
(* numbers.  A converter throws where its Accepts is false.                *)
(***************************************************************************)
EXTENDS Integers, Sequences, SequencesExt, FiniteSetsExt

CONSTANTS ByteBits, HashBytes

\* A byte is two digits, and a Uuid half a hash.
ASSUME ByteAssumption ==
  /\ ByteBits \in Nat \ {0} /\ ByteBits % 2 = 0
  /\ HashBytes \in Nat /\ HashBytes % 2 = 0

\* The powers of two.
Pow2[k \in 0..ByteBits] == IF k = 0 THEN 1 ELSE 2 * Pow2[k - 1]

Byte == 0..(Pow2[ByteBits] - 1)
DigitBits == ByteBits \div 2
Digits == Pow2[DigitBits]
Dash == -2

\* Bit number k of a number, the least significant one first.
BitOf(x, k) == (x \div Pow2[k]) % 2

\* Mutated form: no length is taken for the default.
validateHexadecimalStrict(str, digits) ==
  Len(str) = digits /\ \A i \in DOMAIN str : str[i] \in 0..(Digits - 1)

\* The length, in digits; no length is the length of a hash.
validateHexadecimal(str, digits) ==
  /\ Len(str) = IF digits = 0 THEN 2 * HashBytes ELSE digits
  /\ \A i \in DOMAIN str : str[i] \in 0..(Digits - 1)

AcceptsForBytes(str) == validateHexadecimal(str, Len(str))

\* An odd digit at the end is beyond the array.
hexadecimalToUint8Array(str) ==
  [j \in 1..(Len(str) \div 2) |-> Digits * str[2 * j - 1] + str[2 * j]]

AcceptsForBits(str) == validateHexadecimal(str, 2 * ((Len(str) + 1) \div 2))

\* Mutated form: the digits of a byte in the order of the string.
hexadecimalToBinaryInOrder(str) ==
  [k \in 1..(DigitBits * Len(str)) |->
     BitOf(str[1 + (k - 1) \div DigitBits], (k - 1) % DigitBits)]

\* The bits of the second digit of a byte, the least significant first, then
\* those of the first one.
hexadecimalToBinaryString(str) ==
  [k \in 1..(DigitBits * Len(str)) |->
     LET n == (k - 1) \div DigitBits
         digit == IF n % 2 = 0 THEN n + 2 ELSE n
     IN BitOf(str[digit], (k - 1) % DigitBits)]

uint8ArrayToHexadecimal(bytes) ==
  [k \in 1..(2 * Len(bytes)) |->
     LET byte == bytes[(k + 1) \div 2]
     IN IF k % 2 = 1 THEN byte \div Digits ELSE byte % Digits]

uint8ArrayToBinaryString(bytes) ==
  [k \in 1..(ByteBits * Len(bytes)) |->
     BitOf(bytes[1 + (k - 1) \div ByteBits], (k - 1) % ByteBits)]

\* parseInt(strReverse(substr), 2) is the number that has these bits; the last
\* byte may have fewer.
binaryStringToUint8Array(bits) ==
  [n \in 1..((Len(bits) + ByteBits - 1) \div ByteBits) |->
     CHOOSE byte \in Byte : \A k \in 0..(ByteBits - 1) :
       LET i == ByteBits * (n - 1) + k + 1
       IN BitOf(byte, k) = IF i <= Len(bits) THEN bits[i] ELSE 0]

\* Every byte is written with two digits.
binaryStringToHexadecimal(bits) == uint8ArrayToHexadecimal(binaryStringToUint8Array(bits))

-----------------------------------------------------------------------------
(* The types Uuid, Hash, PublicKey and Digest.                             *)

Undashed(str) ==
  LET kept[n \in 0..Len(str)] ==
        IF n = 0 THEN <<>>
        ELSE IF str[n] = Dash THEN kept[n - 1] ELSE Append(kept[n - 1], str[n])
  IN kept[Len(str)]

\* The string that is encoded: a Uuid loses its dashes.
Cleaned(type, str) == IF type = "Uuid" THEN Undashed(str) ELSE str

SizeOf(type) == CASE type = "Uuid" -> HashBytes \div 2
                  [] type \in {"Hash", "PublicKey"} -> HashBytes
                  [] type = "Digest" -> 2 * HashBytes

AcceptsForType(type, str) == validateHexadecimal(Cleaned(type, str), 2 * SizeOf(type))

\* Mutated form: the buffer is written from its start.
insertAtStart(str, buffer, from) ==
  LET bytes == hexadecimalToUint8Array(str)
  IN [i \in 1..Max({Len(buffer), Len(bytes)}) |->
        IF i \in DOMAIN bytes THEN bytes[i] ELSE buffer[i]]

\* The bytes are written into the buffer from a position on, which it has.
insertHexadecimalToByteArray(str, buffer, from) ==
  LET bytes == hexadecimalToUint8Array(str)
  IN [i \in 1..Max({Len(buffer), from + Len(bytes)}) |->
        IF i - from \in DOMAIN bytes THEN bytes[i - from] ELSE buffer[i]]

\* serialize, once the string is validated.
serializeHex(type, str, buffer, from) ==
  insertHexadecimalToByteArray(Cleaned(type, str), buffer, from)
=============================================================================
