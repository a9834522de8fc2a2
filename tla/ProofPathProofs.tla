--------------------------- MODULE ProofPathProofs ---------------------------
(***************************************************************************)
(* Proofs about ProofPath and Converters, for bytes of any even number of  *)
(* bits, hashes of any number of bytes and all paths.                      *)
(*                                                                         *)
(* All that is done to bytes comes down to their bits: any bits are those  *)
(* of one byte and of one only (NumberExists, SameNumber), and each way to *)
(* take a byte apart or to change it is stated bit by bit.  What is proved *)
(* of every number is proved by counting up to the bits of a byte.         *)
(***************************************************************************)
EXTENDS ProofPath, NaturalsInduction, WellFoundedInduction, TLAPS

-----------------------------------------------------------------------------
(* Numbers.                                                                *)

\* A set of numbers that is not empty has a least one.
LEMMA LeastNumber ==
  ASSUME NEW S \in SUBSET Nat, S # {}
  PROVE  \E m \in S : \A k \in S : m <= k
<1>1. IsWellFoundedOn(OpToRel(<, Nat), Nat)
  BY NatLessThanWellFounded
<1>2. PICK x \in S : \A y \in S : ~(<<y, x>> \in OpToRel(<, Nat))
  BY <1>1, WFMin
<1>3. \A y \in S : ~(y < x)
  BY <1>2 DEF OpToRel
<1>4. QED
  BY <1>3

\* Counting from 0 to m within S.
LEMMA Counting ==
  ASSUME NEW m \in Nat, NEW S, 0 \in S, \A n \in 0..(m - 1) : n \in S => n + 1 \in S
  PROVE  \A n \in 0..m : n \in S
<1> DEFINE T == {n \in 0..m : n \notin S}
<1>1. SUFFICES ASSUME T # {} PROVE FALSE
  OBVIOUS
<1>2. PICK n \in T : \A k \in T : n <= k
  <2>1. T \in SUBSET Nat
    OBVIOUS
  <2> HIDE DEF T
  <2>2. QED
    BY <1>1, <2>1, LeastNumber
<1>3. n # 0 /\ n - 1 \in 0..(m - 1)
  BY <1>2
<1>4. n - 1 \in S
  BY <1>2, <1>3
<1>5. (n - 1) + 1 \in S
  BY <1>3, <1>4
<1>6. QED
  BY <1>2, <1>5

\* There is one quotient and one remainder.
LEMMA Quotient ==
  ASSUME NEW a \in Int, NEW d \in Nat, d > 0, NEW q \in Int, NEW r \in 0..(d - 1),
         a = d * q + r
  PROVE  a \div d = q /\ a % d = r
OBVIOUS

\* A number is its quotient and its remainder.
LEMMA Divided ==
  ASSUME NEW a \in Nat, NEW d \in Nat, d > 0
  PROVE  /\ a \div d \in Nat /\ a % d \in 0..(d - 1)
         /\ a = d * (a \div d) + (a % d)
OBVIOUS

\* To divide by 2 * p is to divide by 2, then by p.
LEMMA HalvedFirst ==
  ASSUME NEW a \in Nat, NEW p \in Nat, p > 0
  PROVE  /\ a \div (2 * p) = (a \div 2) \div p
         /\ a % (2 * p) = 2 * ((a \div 2) % p) + (a % 2)
<1> DEFINE h == a \div 2
           r == a % 2
           q == h \div p
           s == h % p
<1>1. h \in Nat /\ r \in 0..1 /\ a = 2 * h + r
  BY Divided
<1>2. q \in Nat /\ s \in 0..(p - 1) /\ h = p * q + s
  BY <1>1, Divided
<1> HIDE DEF h, r, q, s
<1>3. a = (2 * p) * q + (2 * s + r)
  BY <1>1, <1>2
<1>4. 2 * s + r \in 0..(2 * p - 1) /\ 2 * p \in Nat /\ 2 * p > 0
  BY <1>1, <1>2
<1>5. a \div (2 * p) = q /\ a % (2 * p) = 2 * s + r
  BY <1>2, <1>3, <1>4, Quotient
<1>6. QED
  BY <1>5 DEF h, r, q, s

-----------------------------------------------------------------------------
(* Bits of a number.                                                       *)

\* Pow2 has the powers of two: the function its recursive definition describes
\* exists.
LEMMA Powers ==
  /\ Pow2 \in [0..ByteBits -> Nat \ {0}]
  /\ Pow2[0] = 1
  /\ \A k \in 0..(ByteBits - 1) : Pow2[k + 1] = 2 * Pow2[k]
<1> DEFINE Starts(n, f) ==
             /\ f \in [0..n -> Nat \ {0}] /\ f[0] = 1
             /\ \A k \in 0..(n - 1) : f[k + 1] = 2 * f[k]
           S == {n \in Nat : \E f : Starts(n, f)}
<1>1. ByteBits \in Nat
  BY ByteAssumption
<1>2. 0 \in S
  <2>1. Starts(0, [k \in 0..0 |-> 1])
    OBVIOUS
  <2>2. QED
    BY <2>1
<1>3. ASSUME NEW n \in Nat, n \in S PROVE n + 1 \in S
  <2>1. PICK f : Starts(n, f)
    BY <1>3
  <2> DEFINE g == [k \in 0..(n + 1) |-> IF k <= n THEN f[k] ELSE 2 * f[n]]
  <2>2. g \in [0..(n + 1) -> Nat \ {0}] /\ g[0] = 1
    BY <2>1
  <2>3. ASSUME NEW k \in 0..n PROVE g[k + 1] = 2 * g[k]
    <3>1. CASE k = n
      BY <3>1
    <3>2. CASE k # n
      BY <2>1, <3>2
    <3>3. QED
      BY <3>1, <3>2
  <2>4. Starts(n + 1, g)
    <3>1. (n + 1) - 1 = n
      OBVIOUS
    <3> HIDE DEF g
    <3>2. QED
      BY <2>2, <2>3, <3>1
  <2>5. \E h : Starts(n + 1, h)
    <3> HIDE DEF g, Starts
    <3>1. QED
      BY <2>4
  <2>6. QED
    BY <2>5
<1>4. ByteBits \in S
  <2>1. \A n \in 0..(ByteBits - 1) : n \in S => n + 1 \in S
    BY <1>1, <1>3
  <2> HIDE DEF S
  <2>2. \A n \in 0..ByteBits : n \in S
    BY <1>1, <1>2, <2>1, Counting
  <2>3. QED
    BY <1>1, <2>2
<1>5. PICK f : Starts(ByteBits, f)
  BY <1>4
<1>6. f = [k \in 0..ByteBits |-> IF k = 0 THEN 1 ELSE 2 * f[k - 1]]
  <2>1. \A k \in 0..ByteBits : f[k] = IF k = 0 THEN 1 ELSE 2 * f[k - 1]
    <3>1. SUFFICES ASSUME NEW k \in 0..ByteBits, k # 0 PROVE f[k] = 2 * f[k - 1]
      BY <1>5
    <3>2. k - 1 \in 0..(ByteBits - 1) /\ (k - 1) + 1 = k
      BY <1>1, <3>1
    <3>3. QED
      BY <1>5, <3>2
  <2>2. QED
    BY <1>5, <2>1
<1>7. Pow2 = [k \in 0..ByteBits |-> IF k = 0 THEN 1 ELSE 2 * Pow2[k - 1]]
  BY <1>6 DEF Pow2
<1>8. /\ DOMAIN Pow2 = 0..ByteBits /\ Pow2[0] = 1
      /\ \A k \in 0..(ByteBits - 1) : Pow2[k + 1] = 2 * Pow2[k]
  BY <1>1, <1>7
<1> DEFINE P == {k \in Nat : k \in 0..ByteBits => Pow2[k] \in Nat \ {0}}
<1>9. \A k \in 0..ByteBits : k \in P
  <2>1. 0 \in P
    BY <1>1, <1>8
  <2>2. \A k \in 0..(ByteBits - 1) : k \in P => k + 1 \in P
    BY <1>1, <1>8
  <2>3. QED
    BY <1>1, <2>1, <2>2, Counting
<1>10. \A k \in 0..ByteBits : Pow2[k] \in Nat \ {0}
  BY <1>1, <1>9
<1>11. QED
  BY <1>7, <1>8, <1>10

\* The first bit and the others.
LEMMA LowBit ==
  ASSUME NEW x \in Nat
  PROVE  /\ x \div 2 \in Nat /\ x % 2 \in {0, 1} /\ x = 2 * (x \div 2) + (x % 2)
         /\ BitOf(x, 0) = x % 2
         /\ \A k \in 0..(ByteBits - 1) : BitOf(x, k + 1) = BitOf(x \div 2, k)
         /\ \A k \in 0..(ByteBits - 1) : x < Pow2[k + 1] <=> x \div 2 < Pow2[k]
<1>1. x \div 2 \in Nat /\ x % 2 \in 0..1 /\ x = 2 * (x \div 2) + (x % 2)
  BY Divided
<1>2. BitOf(x, 0) = x % 2
  BY Powers DEF BitOf
<1>3. ASSUME NEW k \in 0..(ByteBits - 1)
      PROVE  /\ BitOf(x, k + 1) = BitOf(x \div 2, k)
             /\ x < Pow2[k + 1] <=> x \div 2 < Pow2[k]
  <2>1. Pow2[k] \in Nat /\ Pow2[k] > 0 /\ Pow2[k + 1] = 2 * Pow2[k]
    BY Powers, ByteAssumption
  <2>2. x \div Pow2[k + 1] = (x \div 2) \div Pow2[k]
    BY <2>1, HalvedFirst
  <2>3. QED
    BY <1>1, <2>1, <2>2 DEF BitOf
<1>4. QED
  BY <1>1, <1>2, <1>3

\* A bit but the first is the bit before it of half the number.
LEMMA HighBit ==
  ASSUME NEW x \in Nat, NEW k \in 1..ByteBits
  PROVE  BitOf(x, k) = BitOf(x \div 2, k - 1)
<1>1. k - 1 \in 0..(ByteBits - 1) /\ (k - 1) + 1 = k
  BY ByteAssumption
<1>2. BitOf(x, (k - 1) + 1) = BitOf(x \div 2, k - 1)
  BY <1>1, LowBit
<1>3. QED
  BY <1>1, <1>2

\* A number of one bit more.
LEMMA WithLowBit ==
  ASSUME NEW y \in Nat, NEW b \in {0, 1}
  PROVE  2 * y + b \in Nat /\ (2 * y + b) \div 2 = y /\ (2 * y + b) % 2 = b
BY Quotient

\* A bit is 0 or 1.
LEMMA BitType ==
  ASSUME NEW x \in Nat, NEW k \in 0..ByteBits
  PROVE  BitOf(x, k) \in {0, 1}
<1>1. Pow2[k] \in Nat /\ Pow2[k] > 0
  BY Powers
<1>2. x \div Pow2[k] \in Nat
  BY <1>1, Divided
<1>3. QED
  BY <1>2, Divided DEF BitOf

\* Any bits are those of a number...
LEMMA NumberExists ==
  ASSUME NEW n \in 0..ByteBits, NEW f, \A k \in 0..(n - 1) : f[k] \in {0, 1}
  PROVE  \E x \in 0..(Pow2[n] - 1) : \A k \in 0..(n - 1) : BitOf(x, k) = f[k]
<1> DEFINE Good(m) ==
             \A g : (\A k \in 0..(m - 1) : g[k] \in {0, 1}) =>
               \E x \in 0..(Pow2[m] - 1) : \A k \in 0..(m - 1) : BitOf(x, k) = g[k]
           S == {m \in Nat : Good(m)}
<1>1. ByteBits \in Nat
  BY ByteAssumption
<1>2. 0 \in S
  BY Powers
<1>3. ASSUME NEW m \in 0..(ByteBits - 1), m \in S PROVE m + 1 \in S
  <2>1. SUFFICES ASSUME NEW g, \A k \in 0..m : g[k] \in {0, 1}
                 PROVE  \E x \in 0..(Pow2[m + 1] - 1) : \A k \in 0..m : BitOf(x, k) = g[k]
    BY <1>1
  <2> DEFINE h == [k \in 0..(m - 1) |-> g[k + 1]]
  <2>2. \A k \in 0..(m - 1) : h[k] = g[k + 1] /\ h[k] \in {0, 1}
    BY <1>1, <2>1
  <2> HIDE DEF h
  <2>3. PICK y \in 0..(Pow2[m] - 1) : \A k \in 0..(m - 1) : BitOf(y, k) = h[k]
    BY <1>3, <2>2
  <2> DEFINE x == 2 * y + g[0]
  <2>4. Pow2[m] \in Nat /\ Pow2[m + 1] = 2 * Pow2[m] /\ g[0] \in {0, 1}
    BY <1>1, <2>1, Powers
  <2>5. y \in Nat /\ x \in Nat /\ x \div 2 = y /\ x % 2 = g[0]
    BY <2>3, <2>4, WithLowBit
  <2>6. x \in 0..(Pow2[m + 1] - 1)
    BY <2>3, <2>4
  <2> HIDE DEF x
  <2>7. ASSUME NEW k \in 0..m PROVE BitOf(x, k) = g[k]
    <3>1. CASE k = 0
      BY <2>5, <3>1, LowBit
    <3>2. CASE k # 0
      <4>1. k - 1 \in 0..(m - 1) /\ k - 1 \in 0..(ByteBits - 1) /\ (k - 1) + 1 = k
        BY <1>1, <3>2
      <4>2. BitOf(x, k) = BitOf(y, k - 1)
        BY <2>5, <4>1, LowBit
      <4>3. QED
        BY <2>2, <2>3, <4>1, <4>2
    <3>3. QED
      BY <3>1, <3>2
  <2>8. QED
    BY <2>6, <2>7
<1>4. \A m \in 0..ByteBits : m \in S
  <2> HIDE DEF S
  <2>1. QED
    BY <1>1, <1>2, <1>3, Counting
<1>5. Good(n)
  BY <1>4
<1>6. QED
  BY <1>5

\* ... and of one number only.
LEMMA SameNumber ==
  ASSUME NEW n \in 0..ByteBits, NEW x \in 0..(Pow2[n] - 1), NEW y \in 0..(Pow2[n] - 1),
         \A k \in 0..(n - 1) : BitOf(x, k) = BitOf(y, k)
  PROVE  x = y
<1> DEFINE Good(m) ==
             \A u, v \in 0..(Pow2[m] - 1) :
               (\A k \in 0..(m - 1) : BitOf(u, k) = BitOf(v, k)) => u = v
           S == {m \in Nat : Good(m)}
<1>1. ByteBits \in Nat
  BY ByteAssumption
<1>2. 0 \in S
  BY Powers
<1>3. ASSUME NEW m \in 0..(ByteBits - 1), m \in S PROVE m + 1 \in S
  <2>1. SUFFICES ASSUME NEW u \in 0..(Pow2[m + 1] - 1), NEW v \in 0..(Pow2[m + 1] - 1),
                        \A k \in 0..m : BitOf(u, k) = BitOf(v, k)
                 PROVE  u = v
    BY <1>1
  <2>2. Pow2[m] \in Nat /\ Pow2[m + 1] \in Nat /\ u \in Nat /\ v \in Nat
    BY <1>1, Powers
  <2>3. u \div 2 \in 0..(Pow2[m] - 1) /\ v \div 2 \in 0..(Pow2[m] - 1)
    <3>1. u < Pow2[m + 1] /\ v < Pow2[m + 1]
      BY <2>2
    <3>2. u \div 2 < Pow2[m] /\ v \div 2 < Pow2[m]
      BY <2>2, <3>1, LowBit
    <3>3. u \div 2 \in Nat /\ v \div 2 \in Nat
      BY <2>2, LowBit
    <3>4. QED
      BY <2>2, <3>2, <3>3
  <2>4. u % 2 = v % 2
    <3>1. 0 \in 0..m
      BY <1>1
    <3>2. QED
      BY <2>1, <2>2, <3>1, LowBit
  <2>5. ASSUME NEW k \in 0..(m - 1) PROVE BitOf(u \div 2, k) = BitOf(v \div 2, k)
    <3>1. k + 1 \in 0..m /\ k \in 0..(ByteBits - 1)
      BY <1>1
    <3>2. QED
      BY <2>1, <2>2, <3>1, LowBit
  <2>6. u \div 2 = v \div 2
    BY <1>3, <2>3, <2>5
  <2>7. QED
    BY <2>2, <2>4, <2>6, LowBit
<1>4. \A m \in 0..ByteBits : m \in S
  <2> HIDE DEF S
  <2>1. QED
    BY <1>1, <1>2, <1>3, Counting
<1>5. Good(n)
  BY <1>4
<1>6. QED
  BY <1>5


\* A number with one bit replaced.
WithBit(x, n, b) == x - Pow2[n] * BitOf(x, n) + Pow2[n] * b

\* That bit is replaced, no other one, and the number stays as short as it was.
LEMMA WithBitIs ==
  ASSUME NEW n \in 0..(ByteBits - 1), NEW x \in 0..(Pow2[ByteBits] - 1), NEW b \in {0, 1}
  PROVE  /\ WithBit(x, n, b) \in 0..(Pow2[ByteBits] - 1)
         /\ \A k \in 0..(ByteBits - 1) :
              BitOf(WithBit(x, n, b), k) = IF k = n THEN b ELSE BitOf(x, k)
<1> DEFINE Good(m) ==
             \A y \in Nat :
               /\ WithBit(y, m, b) \in Nat
               /\ \A k \in 0..(ByteBits - 1) :
                    BitOf(WithBit(y, m, b), k) = IF k = m THEN b ELSE BitOf(y, k)
               /\ \A l \in (m + 1)..ByteBits : y < Pow2[l] => WithBit(y, m, b) < Pow2[l]
           S == {m \in Nat : Good(m)}
<1>1. ByteBits \in Nat \ {0}
  BY ByteAssumption
<1>2. 0 \in S
  <2>1. SUFFICES ASSUME NEW y \in Nat
                 PROVE  /\ WithBit(y, 0, b) \in Nat
                        /\ \A k \in 0..(ByteBits - 1) :
                             BitOf(WithBit(y, 0, b), k) = IF k = 0 THEN b ELSE BitOf(y, k)
                        /\ \A l \in 1..ByteBits : y < Pow2[l] => WithBit(y, 0, b) < Pow2[l]
    OBVIOUS
  <2> DEFINE z == WithBit(y, 0, b)
  <2>2. y \div 2 \in Nat /\ z = 2 * (y \div 2) + b
    <3>1. Pow2[0] = 1 /\ BitOf(y, 0) = y % 2
      BY Powers, LowBit
    <3>2. y \div 2 \in Nat /\ y % 2 \in {0, 1} /\ y = 2 * (y \div 2) + (y % 2)
      BY LowBit
    <3>3. z = y - 1 * (y % 2) + 1 * b
      BY <3>1 DEF WithBit
    <3>4. QED
      BY <3>2, <3>3
  <2>3. z \in Nat /\ z \div 2 = y \div 2 /\ z % 2 = b
    BY <2>2, WithLowBit
  <2> HIDE DEF z
  <2>4. ASSUME NEW k \in 0..(ByteBits - 1)
        PROVE  BitOf(z, k) = IF k = 0 THEN b ELSE BitOf(y, k)
    <3>1. CASE k = 0
      BY <2>3, <3>1, LowBit
    <3>2. CASE k # 0
      <4>1. k \in 1..ByteBits
        BY <1>1, <3>2
      <4>2. BitOf(z, k) = BitOf(z \div 2, k - 1) /\ BitOf(y, k) = BitOf(y \div 2, k - 1)
        BY <2>3, <4>1, HighBit
      <4>3. QED
        BY <2>3, <3>2, <4>2
    <3>3. QED
      BY <3>1, <3>2
  <2>5. ASSUME NEW l \in 1..ByteBits, y < Pow2[l] PROVE z < Pow2[l]
    <3>1. l - 1 \in 0..(ByteBits - 1) /\ (l - 1) + 1 = l
      BY <1>1
    <3>2. QED
      BY <2>3, <2>5, <3>1, LowBit
  <2>6. QED
    BY <2>3, <2>4, <2>5 DEF z
<1>3. ASSUME NEW m \in 0..(ByteBits - 2), m \in S PROVE m + 1 \in S
  <2>1. SUFFICES ASSUME NEW y \in Nat
                 PROVE  /\ WithBit(y, m + 1, b) \in Nat
                        /\ \A k \in 0..(ByteBits - 1) :
                             BitOf(WithBit(y, m + 1, b), k) =
                               IF k = m + 1 THEN b ELSE BitOf(y, k)
                        /\ \A l \in (m + 2)..ByteBits :
                             y < Pow2[l] => WithBit(y, m + 1, b) < Pow2[l]
    BY <1>1
  <2> DEFINE z == WithBit(y, m + 1, b)
             h == y \div 2
             w == WithBit(h, m, b)
  <2>2. m \in Nat /\ m \in 0..(ByteBits - 1) /\ m \in 0..ByteBits
    BY <1>1
  <2>3. h \in Nat /\ y % 2 \in {0, 1} /\ y = 2 * h + (y % 2)
    BY LowBit
  <2>4. /\ w \in Nat
        /\ \A k \in 0..(ByteBits - 1) : BitOf(w, k) = IF k = m THEN b ELSE BitOf(h, k)
        /\ \A l \in (m + 1)..ByteBits : h < Pow2[l] => w < Pow2[l]
    BY <1>3, <2>3
  <2>5. z = 2 * w + (y % 2)
    <3>1. Pow2[m + 1] = 2 * Pow2[m] /\ BitOf(y, m + 1) = BitOf(h, m) /\ Pow2[m] \in Nat
      BY <2>2, Powers, LowBit
    <3>2. BitOf(h, m) \in {0, 1}
      BY <2>2, <2>3, BitType
    <3>3. Pow2[m + 1] * BitOf(y, m + 1) = 2 * (Pow2[m] * BitOf(h, m))
      BY <3>1, <3>2
    <3>4. Pow2[m + 1] * b = 2 * (Pow2[m] * b)
      BY <3>1
    <3>5. QED
      BY <2>3, <3>1, <3>2, <3>3, <3>4 DEF WithBit
  <2> HIDE DEF w, z
  <2>6. z \in Nat /\ z \div 2 = w /\ z % 2 = y % 2
    BY <2>3, <2>4, <2>5, WithLowBit
  <2>7. ASSUME NEW k \in 0..(ByteBits - 1)
        PROVE  BitOf(z, k) = IF k = m + 1 THEN b ELSE BitOf(y, k)
    <3>1. CASE k = 0
      BY <2>2, <2>6, <3>1, LowBit
    <3>2. CASE k # 0
      <4>1. k - 1 \in 0..(ByteBits - 1) /\ (k - 1) + 1 = k
        BY <1>1, <3>2
      <4>2. BitOf(z, k) = BitOf(w, k - 1) /\ BitOf(y, k) = BitOf(h, k - 1)
        BY <2>6, <4>1, LowBit
      <4>3. k - 1 = m <=> k = m + 1
        BY <2>2, <4>1
      <4>4. QED
        BY <2>4, <4>1, <4>2, <4>3
    <3>3. QED
      BY <3>1, <3>2
  <2>8. ASSUME NEW l \in (m + 2)..ByteBits, y < Pow2[l] PROVE z < Pow2[l]
    <3>1. l - 1 \in 0..(ByteBits - 1) /\ (l - 1) + 1 = l /\ l - 1 \in (m + 1)..ByteBits
      BY <1>1, <2>2
    <3>2. h < Pow2[l - 1]
      BY <2>8, <3>1, LowBit
    <3>3. w < Pow2[l - 1]
      BY <2>4, <3>1, <3>2
    <3>4. QED
      BY <2>6, <3>1, <3>3, LowBit
  <2>9. QED
    BY <2>6, <2>7, <2>8 DEF z
<1>4. \A m \in 0..(ByteBits - 1) : m \in S
  <2>1. ByteBits - 1 \in Nat /\ (ByteBits - 1) - 1 = ByteBits - 2
    BY <1>1
  <2> HIDE DEF S
  <2>2. QED
    BY <1>2, <1>3, <2>1, Counting
<1>5. Good(n)
  BY <1>4
<1>6. /\ x \in Nat /\ x < Pow2[ByteBits] /\ Pow2[ByteBits] \in Nat
      /\ ByteBits \in (n + 1)..ByteBits
  BY <1>1, Powers
<1>7. QED
  BY <1>5, <1>6

\* The upper bits of a number, and the lower ones.
LEMMA SplitNumber ==
  ASSUME NEW d \in 0..ByteBits, NEW x \in Nat
  PROVE  /\ \A k \in 0..(ByteBits - d) : BitOf(x \div Pow2[d], k) = BitOf(x, d + k)
         /\ \A k \in 0..(d - 1) : BitOf(x % Pow2[d], k) = BitOf(x, k)
<1> DEFINE Good(m) ==
             \A y \in Nat :
               /\ \A k \in 0..(ByteBits - m) : BitOf(y \div Pow2[m], k) = BitOf(y, m + k)
               /\ \A k \in 0..(m - 1) : BitOf(y % Pow2[m], k) = BitOf(y, k)
           S == {m \in Nat : Good(m)}
<1>1. ByteBits \in Nat
  BY ByteAssumption
<1>2. 0 \in S
  <2>1. Pow2[0] = 1 /\ \A y \in Nat : y \div 1 = y
    BY Powers
  <2>2. QED
    BY <1>1, <2>1
<1>3. ASSUME NEW m \in 0..(ByteBits - 1), m \in S PROVE m + 1 \in S
  <2>1. SUFFICES ASSUME NEW y \in Nat
                 PROVE  /\ \A k \in 0..(ByteBits - m - 1) :
                             BitOf(y \div Pow2[m + 1], k) = BitOf(y, m + 1 + k)
                        /\ \A k \in 0..m : BitOf(y % Pow2[m + 1], k) = BitOf(y, k)
    BY <1>1
  <2> DEFINE h == y \div 2
             t == h % Pow2[m]
  <2>2. m \in Nat /\ h \in Nat /\ y % 2 \in {0, 1}
    BY <1>1, LowBit
  <2>3. Pow2[m] \in Nat /\ Pow2[m] > 0 /\ Pow2[m + 1] = 2 * Pow2[m]
    BY <1>1, Powers
  <2>4. y \div Pow2[m + 1] = h \div Pow2[m] /\ y % Pow2[m + 1] = 2 * t + (y % 2)
    BY <2>3, HalvedFirst
  <2>5. t \in Nat
    BY <2>2, <2>3, Divided
  <2>6. /\ \A k \in 0..(ByteBits - m) : BitOf(h \div Pow2[m], k) = BitOf(h, m + k)
        /\ \A k \in 0..(m - 1) : BitOf(t, k) = BitOf(h, k)
    BY <1>3, <2>2
  <2> HIDE DEF t
  <2>7. ASSUME NEW k \in 0..(ByteBits - m - 1)
        PROVE  BitOf(y \div Pow2[m + 1], k) = BitOf(y, m + 1 + k)
    <3>1. m + k \in 0..(ByteBits - 1) /\ (m + k) + 1 = m + 1 + k /\ k \in 0..(ByteBits - m)
      BY <1>1, <2>2
    <3>2. BitOf(y, m + 1 + k) = BitOf(h, m + k)
      BY <3>1, LowBit
    <3>3. QED
      BY <2>4, <2>6, <3>1, <3>2
  <2>8. ASSUME NEW k \in 0..m PROVE BitOf(2 * t + (y % 2), k) = BitOf(y, k)
    <3>1. /\ 2 * t + (y % 2) \in Nat
          /\ (2 * t + (y % 2)) \div 2 = t /\ (2 * t + (y % 2)) % 2 = y % 2
      BY <2>2, <2>5, WithLowBit
    <3>2. CASE k = 0
      BY <3>1, <3>2, LowBit
    <3>3. CASE k # 0
      <4>1. k \in 1..ByteBits /\ k - 1 \in 0..(m - 1)
        BY <1>1, <3>3
      <4>2. BitOf(2 * t + (y % 2), k) = BitOf(t, k - 1) /\ BitOf(y, k) = BitOf(h, k - 1)
        BY <3>1, <4>1, HighBit
      <4>3. QED
        BY <2>6, <4>1, <4>2
    <3>4. QED
      BY <3>2, <3>3
  <2>9. QED
    BY <2>4, <2>7, <2>8
<1>4. \A m \in 0..ByteBits : m \in S
  <2> HIDE DEF S
  <2>1. QED
    BY <1>1, <1>2, <1>3, Counting
<1>5. Good(d)
  BY <1>4
<1>6. QED
  BY <1>5

-----------------------------------------------------------------------------
(* Bits of a key, and the constructor.                                     *)

\* Arrays of the bytes of a key.
Key == [0..(KeyLength - 1) -> Byte]

\* The byte of a bit and its place there, in an array of m bytes.
LEMMA PositionsOf ==
  ASSUME NEW d \in Nat, d > 0, NEW m \in Nat, NEW k \in 0..(d * m - 1)
  PROVE  /\ k \div d \in 0..(m - 1) /\ k % d \in 0..(d - 1)
         /\ k = d * (k \div d) + (k % d)
<1> DEFINE q == k \div d
           r == k % d
<1>1. d * m \in Nat /\ k \in Nat /\ k < d * m
  OBVIOUS
<1>2. q \in Nat /\ r \in 0..(d - 1) /\ k = d * q + r
  BY <1>1, Divided
<1> HIDE DEF q, r
<1>3. d * q < d * m
  BY <1>1, <1>2
<1>4. q < m
  BY <1>2, <1>3
<1>5. QED
  BY <1>2, <1>4 DEF q, r

\* The same in a key.
LEMMA Positions ==
  ASSUME NEW k \in 0..(Width - 1)
  PROVE  /\ k \div ByteBits \in 0..(KeyLength - 1)
         /\ k % ByteBits \in 0..(ByteBits - 1)
         /\ k = ByteBits * (k \div ByteBits) + (k % ByteBits)
<1>1. ByteBits \in Nat /\ ByteBits > 0 /\ KeyLength \in Nat /\ Width = ByteBits * KeyLength
  BY ByteAssumption DEF KeyLength, Width
<1>2. QED
  BY <1>1, PositionsOf

\* The place in a key of a bit of a byte.
LEMMA BitPosition ==
  ASSUME NEW n \in 0..(KeyLength - 1), NEW j \in 0..(ByteBits - 1)
  PROVE  /\ ByteBits * n + j \in 0..(Width - 1)
         /\ (ByteBits * n + j) \div ByteBits = n
         /\ (ByteBits * n + j) % ByteBits = j
<1>1. ByteBits \in Nat /\ ByteBits > 0 /\ KeyLength \in Nat /\ Width = ByteBits * KeyLength
  BY ByteAssumption DEF KeyLength, Width
<1>2. ByteBits * n + j \in Nat /\ n + 1 <= KeyLength /\ n \in Nat
  BY <1>1
<1>3. ByteBits * (n + 1) <= ByteBits * KeyLength
  BY <1>1, <1>2
<1>4. ByteBits * n + j < Width
  BY <1>1, <1>2, <1>3
<1>5. QED
  BY <1>1, <1>2, <1>4, Quotient

\* The numbers of bits and bytes.
LEMMA Sizes ==
  /\ ByteBits \in Nat /\ ByteBits > 0 /\ KeyLength \in Nat /\ Width \in Nat
  /\ Width = ByteBits * KeyLength
  /\ Pow2[ByteBits] \in Nat /\ Pow2[ByteBits] > 0
  /\ Byte = 0..(Pow2[ByteBits] - 1) /\ 0 \in Byte /\ Byte \subseteq Nat
<1>1. ByteBits \in Nat /\ ByteBits > 0 /\ KeyLength \in Nat
  BY ByteAssumption DEF KeyLength
<1>2. Pow2[ByteBits] \in Nat /\ Pow2[ByteBits] > 0
  BY <1>1, Powers
<1>3. QED
  BY <1>1, <1>2 DEF Width, Byte

\* Bits of a key are 0 or 1.
LEMMA KeyBit ==
  ASSUME NEW key \in Key, NEW k \in 0..(Width - 1)
  PROVE  getBit(key, k) \in {0, 1}
<1>1. key[k \div ByteBits] \in Nat /\ k % ByteBits \in 0..ByteBits
  BY Positions, Sizes DEF Key
<1>2. QED
  BY <1>1, BitType DEF getBit

\* The bits of 0.
LEMMA ZeroBits == \A k \in 0..ByteBits : BitOf(0, k) = 0
<1>1. SUFFICES ASSUME NEW k \in 0..ByteBits PROVE BitOf(0, k) = 0
  OBVIOUS
<1>2. Pow2[k] \in Nat /\ Pow2[k] > 0
  BY Powers
<1>3. 0 \div Pow2[k] = 0
  BY <1>2, Quotient
<1>4. QED
  BY <1>3 DEF BitOf

\* A key is the bits it has.
LEMMA SameKey ==
  ASSUME NEW a \in Key, NEW b \in Key, \A k \in 0..(Width - 1) : getBit(a, k) = getBit(b, k)
  PROVE  a = b
<1>1. ASSUME NEW n \in 0..(KeyLength - 1) PROVE a[n] = b[n]
  <2>1. ASSUME NEW j \in 0..(ByteBits - 1) PROVE BitOf(a[n], j) = BitOf(b[n], j)
    <3>1. getBit(a, ByteBits * n + j) = getBit(b, ByteBits * n + j)
      BY BitPosition
    <3>2. QED
      BY <3>1, BitPosition DEF getBit
  <2>2. /\ a[n] \in 0..(Pow2[ByteBits] - 1) /\ b[n] \in 0..(Pow2[ByteBits] - 1)
        /\ ByteBits \in 0..ByteBits
    BY Sizes DEF Key
  <2>3. QED
    BY <2>1, <2>2, SameNumber
<1>2. /\ a = [n \in 0..(KeyLength - 1) |-> a[n]]
      /\ b = [n \in 0..(KeyLength - 1) |-> b[n]]
  BY DEF Key
<1>3. QED
  BY <1>1, <1>2

\* setBit replaces one bit of a key and no other one.
LEMMA SetBitIs ==
  ASSUME NEW key \in Key, NEW p \in 0..(Width - 1), NEW b \in {0, 1}
  PROVE  /\ setBit(key, p, b) \in Key
         /\ \A k \in 0..(Width - 1) :
              getBit(setBit(key, p, b), k) = IF k = p THEN b ELSE getBit(key, k)
<1> DEFINE n == p \div ByteBits
           j == p % ByteBits
           new == WithBit(key[n], j, b)
<1>1. n \in 0..(KeyLength - 1) /\ j \in 0..(ByteBits - 1) /\ p = ByteBits * n + j
  BY Positions
<1>2. key[n] \in 0..(Pow2[ByteBits] - 1)
  BY <1>1, Sizes DEF Key
<1>3. /\ new \in 0..(Pow2[ByteBits] - 1)
      /\ \A k \in 0..(ByteBits - 1) : BitOf(new, k) = IF k = j THEN b ELSE BitOf(key[n], k)
  BY <1>1, <1>2, WithBitIs
<1>4. setBit(key, p, b) = [key EXCEPT ![n] = new]
  BY <1>1 DEF setBit, getBit, WithBit, Key
<1> HIDE DEF n, j, new
<1>5. setBit(key, p, b) \in Key
  BY <1>1, <1>3, <1>4, Sizes DEF Key
<1>6. ASSUME NEW k \in 0..(Width - 1)
      PROVE  getBit(setBit(key, p, b), k) = IF k = p THEN b ELSE getBit(key, k)
  <2>1. /\ k \div ByteBits \in 0..(KeyLength - 1) /\ k % ByteBits \in 0..(ByteBits - 1)
        /\ k = ByteBits * (k \div ByteBits) + (k % ByteBits)
    BY Positions
  <2>2. CASE k \div ByteBits = n
    <3>1. k = p <=> k % ByteBits = j
      BY <1>1, <2>1, <2>2, Sizes
    <3>2. getBit(setBit(key, p, b), k) = BitOf(new, k % ByteBits)
      BY <1>1, <1>4, <2>2 DEF getBit, Key
    <3>3. getBit(key, k) = BitOf(key[n], k % ByteBits)
      BY <2>2 DEF getBit
    <3>4. QED
      BY <1>3, <2>1, <3>1, <3>2, <3>3
  <2>3. CASE k \div ByteBits # n
    <3>1. k # p
      BY <2>3 DEF n
    <3>2. QED
      BY <1>1, <1>4, <2>1, <2>3, <3>1 DEF getBit, Key
  <2>4. QED
    BY <2>2, <2>3
<1>7. QED
  BY <1>5, <1>6

\* The bytes of a binary string.
LEMMA ParsedBytes ==
  ASSUME NEW bits \in Seq({0, 1}),
         NEW n \in 1..((Len(bits) + ByteBits - 1) \div ByteBits)
  PROVE  /\ binaryStringToUint8Array(bits)[n] \in Byte
         /\ \A k \in 0..(ByteBits - 1) :
              BitOf(binaryStringToUint8Array(bits)[n], k) =
                IF ByteBits * (n - 1) + k + 1 <= Len(bits)
                THEN bits[ByteBits * (n - 1) + k + 1] ELSE 0
<1> DEFINE digit(k) == IF ByteBits * (n - 1) + k + 1 <= Len(bits)
                       THEN bits[ByteBits * (n - 1) + k + 1] ELSE 0
           f == [k \in 0..(ByteBits - 1) |-> digit(k)]
<1>1. n \in Nat /\ n >= 1
  <2>1. (Len(bits) + ByteBits - 1) \div ByteBits \in Int
    BY Sizes
  <2>2. QED
    BY <2>1
<1>2. ASSUME NEW k \in 0..(ByteBits - 1) PROVE f[k] = digit(k) /\ f[k] \in {0, 1}
  <2>1. ByteBits * (n - 1) + k + 1 \in Nat /\ ByteBits * (n - 1) + k + 1 >= 1
    BY <1>1, Sizes
  <2>2. QED
    BY <2>1
<1>3. \E byte \in 0..(Pow2[ByteBits] - 1) :
        \A k \in 0..(ByteBits - 1) : BitOf(byte, k) = f[k]
  <2>1. ByteBits \in 0..ByteBits
    BY Sizes
  <2> HIDE DEF f
  <2>2. QED
    BY <1>2, <2>1, NumberExists
<1>4. \E byte \in Byte : \A k \in 0..(ByteBits - 1) : BitOf(byte, k) = digit(k)
  <2> HIDE DEF f, digit
  <2>1. QED
    BY <1>2, <1>3 DEF Byte
<1>5. binaryStringToUint8Array(bits)[n] =
        CHOOSE byte \in Byte : \A k \in 0..(ByteBits - 1) : BitOf(byte, k) = digit(k)
  BY DEF binaryStringToUint8Array
<1>6. QED
  BY <1>4, <1>5

\* Zeros are written after a string.
LEMMA PaddedIs ==
  ASSUME NEW s \in Seq({0, 1}), NEW n \in Nat, Len(s) <= n
  PROVE  /\ padWithZeros(s, n) \in Seq({0, 1}) /\ Len(padWithZeros(s, n)) = n
         /\ \A k \in 1..n : padWithZeros(s, n)[k] = IF k <= Len(s) THEN s[k] ELSE 0
<1> DEFINE zeros == [k \in 1..(n - Len(s)) |-> 0]
           padded == padWithZeros(s, n)
<1>1. n - Len(s) \in Nat
  OBVIOUS
<1>2. zeros \in Seq({0, 1}) /\ Len(zeros) = n - Len(s)
  BY <1>1
<1>3. \A k \in 1..(n - Len(s)) : zeros[k] = 0
  OBVIOUS
<1> HIDE DEF zeros
<1>4. padded = s \o zeros
  BY DEF padWithZeros, zeros
<1> HIDE DEF padded
<1>5. /\ padded \in Seq({0, 1}) /\ Len(padded) = n
      /\ \A k \in 1..n : padded[k] = IF k <= Len(s) THEN s[k] ELSE 0
  BY <1>1, <1>2, <1>3, <1>4
<1>6. QED
  BY <1>5 DEF padded

\* The path that is made of a binary string.
LEMMA FromStringIs ==
  ASSUME NEW s \in Seq({0, 1}), Len(s) <= Width
  PROVE  /\ FromString(s).bitLength = Len(s)
         /\ FromString(s).key \in Key
         /\ \A k \in 0..(Width - 1) :
              getBit(FromString(s).key, k) = IF k < Len(s) THEN s[k + 1] ELSE 0
         /\ FromString(s) = [key |-> FromString(s).key, bitLength |-> Len(s)]
<1> DEFINE padded == padWithZeros(s, Width)
           array == binaryStringToUint8Array(padded)
           key == FromString(s).key
<1>1. /\ padded \in Seq({0, 1}) /\ Len(padded) = Width
      /\ \A k \in 1..Width : padded[k] = IF k <= Len(s) THEN s[k] ELSE 0
  BY PaddedIs, Sizes
<1>2. (Width + ByteBits - 1) \div ByteBits = KeyLength
  <2>1. Width + ByteBits - 1 = ByteBits * KeyLength + (ByteBits - 1)
    BY Sizes
  <2>2. QED
    BY <2>1, Sizes, Quotient
<1>3. FromString(s) =
        [key |-> [n \in 0..(KeyLength - 1) |-> array[n + 1]], bitLength |-> Len(s)]
  BY DEF FromString, FromBytes
<1> HIDE DEF padded
<1>4. ASSUME NEW n \in 0..(KeyLength - 1)
      PROVE  /\ key[n] = array[n + 1] /\ array[n + 1] \in Byte
             /\ \A j \in 0..(ByteBits - 1) :
                  BitOf(array[n + 1], j) = padded[ByteBits * n + j + 1]
  <2>1. n + 1 \in 1..((Len(padded) + ByteBits - 1) \div ByteBits) /\ (n + 1) - 1 = n
    BY <1>1, <1>2, Sizes
  <2>2. key[n] = array[n + 1]
    BY <1>3
  <2>3. /\ array[n + 1] \in Byte
        /\ \A j \in 0..(ByteBits - 1) :
              BitOf(array[n + 1], j) =
                IF ByteBits * ((n + 1) - 1) + j + 1 <= Len(padded)
                THEN padded[ByteBits * ((n + 1) - 1) + j + 1] ELSE 0
    BY <1>1, <2>1, ParsedBytes
  <2>4. ASSUME NEW j \in 0..(ByteBits - 1) PROVE ByteBits * n + j + 1 <= Width
    <3>1. ByteBits * n + j \in 0..(Width - 1)
      BY BitPosition
    <3>2. QED
      BY <3>1, Sizes
  <2>5. QED
    BY <1>1, <2>1, <2>2, <2>3, <2>4
<1>5. key \in Key
  BY <1>3, <1>4 DEF Key
<1>6. ASSUME NEW k \in 0..(Width - 1)
      PROVE  getBit(key, k) = IF k < Len(s) THEN s[k + 1] ELSE 0
  <2> DEFINE n == k \div ByteBits
             j == k % ByteBits
  <2>1. n \in 0..(KeyLength - 1) /\ j \in 0..(ByteBits - 1) /\ k = ByteBits * n + j
    BY Positions
  <2>2. getBit(key, k) = BitOf(key[n], j)
    BY DEF getBit
  <2> HIDE DEF key, array, n, j
  <2>3. getBit(key, k) = padded[k + 1]
    BY <1>4, <2>1, <2>2
  <2>4. k + 1 \in 1..Width /\ (k + 1 <= Len(s) <=> k < Len(s))
    BY Sizes
  <2>5. QED
    BY <1>1, <2>3, <2>4
<1>7. QED
  BY <1>3, <1>5, <1>6

\* It has the bits of the string.
LEMMA BitsAgain ==
  ASSUME NEW s \in Seq({0, 1}), Len(s) <= Width
  PROVE  Bits(FromString(s)) = s
<1>1. FromString(s).bitLength = Len(s)
  BY FromStringIs
<1>2. ASSUME NEW k \in 1..Len(s) PROVE getBit(FromString(s).key, k - 1) = s[k]
  <2>1. k - 1 \in 0..(Width - 1) /\ k - 1 < Len(s) /\ (k - 1) + 1 = k
    BY Sizes
  <2>2. QED
    BY <2>1, FromStringIs
<1>3. Bits(FromString(s)) = [k \in 1..Len(s) |-> s[k]]
  BY <1>1, <1>2 DEF Bits
<1>4. QED
  BY <1>3

\* Math.min of two numbers.
LEMMA MinOfTwo ==
  ASSUME NEW m \in Int, NEW n \in Int
  PROVE  Min({m, n}) = IF m <= n THEN m ELSE n
<1>1. \A x \in {m, n} : (\A y \in {m, n} : x <= y) => x = IF m <= n THEN m ELSE n
  OBVIOUS
<1>2. \E x \in {m, n} : \A y \in {m, n} : x <= y
  OBVIOUS
<1>3. Min({m, n}) \in {m, n} /\ \A y \in {m, n} : Min({m, n}) <= y
  BY <1>2 DEF Min
<1>4. QED
  BY <1>1, <1>3

\* Products grow with their factors.
LEMMA Multiplied ==
  ASSUME NEW d \in Nat, NEW m \in Int, NEW n \in Int, m <= n
  PROVE  d * m <= d * n
OBVIOUS

\* What the constructor guarantees: no bit is set beyond the length of a path.
LEMMA ConstructedIs ==
  ASSUME NEW p \in Constructed
  PROVE  /\ p.key \in Key /\ p.bitLength \in 1..Width
         /\ Bits(p) \in Seq({0, 1}) /\ Len(Bits(p)) = p.bitLength
         /\ \A k \in 0..(p.bitLength - 1) : Bits(p)[k + 1] = getBit(p.key, k)
         /\ \A k \in p.bitLength..(Width - 1) : getBit(p.key, k) = 0
         /\ p = FromString(Bits(p))
<1>1. PICK s \in Strings : p = FromString(s)
  BY DEF Constructed
<1> DEFINE n == Len(s)
<1>2. s \in Seq({0, 1}) /\ n \in Nat /\ n <= Width /\ n >= 1
  BY StringsAssumption, Sizes
<1>3. /\ p.bitLength = n /\ p.key \in Key
      /\ \A k \in 0..(Width - 1) : getBit(p.key, k) = IF k < n THEN s[k + 1] ELSE 0
  BY <1>1, <1>2, FromStringIs
<1>4. Bits(p) = s
  BY <1>1, <1>2, BitsAgain
<1> HIDE DEF n
<1>5. n = Len(s)
  BY DEF n
<1>6. QED
  BY <1>1, <1>2, <1>3, <1>4, <1>5, Sizes

-----------------------------------------------------------------------------
(* The loops of commonPrefixLength and truncate.                           *)

\* How many bits of the new path are written.
Written == IF stage \in {"set", "done"} THEN at ELSE ByteBits * at

\* The paths agree up to pos, and after the first two loops no further; the new
\* path has the bits written so far and zeros.
PathInv ==
  /\ this \in Constructed /\ other \in Constructed
  /\ pos \in 0..intersectingBits
  /\ \A k \in 0..(pos - 1) : getBit(this.key, k) = getBit(other.key, k)
  /\ stage \in {"bytes", "bits", "copy", "set", "done"}
  /\ stage = "bytes" => pos % ByteBits = 0
  /\ stage \in {"copy", "set", "done"} =>
       pos = intersectingBits \/ getBit(this.key, pos) # getBit(other.key, pos)
  /\ stage \in {"bytes", "bits"} => at = 0
  /\ stage = "copy" => at \in 0..(pos \div ByteBits)
  /\ stage = "set" => at \in 0..pos
  /\ stage = "done" => at = pos
  /\ bytes \in Key
  /\ \A k \in 0..(Width - 1) :
       getBit(bytes, k) = IF k < Written THEN getBit(this.key, k) ELSE 0

\* The shorter of the two lengths.
LEMMA Intersecting ==
  ASSUME this \in Constructed, other \in Constructed
  PROVE  /\ intersectingBits \in 1..Width
         /\ intersectingBits <= this.bitLength /\ intersectingBits <= other.bitLength
         /\ intersectingBits \in {this.bitLength, other.bitLength}
<1>1. this.bitLength \in 1..Width /\ other.bitLength \in 1..Width
  BY ConstructedIs
<1>2. intersectingBits =
        IF this.bitLength <= other.bitLength THEN this.bitLength ELSE other.bitLength
  BY <1>1, MinOfTwo, Sizes DEF intersectingBits
<1>3. QED
  BY <1>1, <1>2, Sizes

\* Nothing is compared and nothing is written to begin with.
LEMMA InitPath == Init => PathInv
<1>1. SUFFICES ASSUME Init PROVE PathInv
  OBVIOUS
<1>2. this \in Constructed /\ other \in Constructed /\ pos = 0 /\ at = 0 /\ stage = "bytes"
  BY <1>1 DEF Init
<1>3. bytes \in Key /\ \A n \in 0..(KeyLength - 1) : bytes[n] = 0
  BY <1>1, Sizes DEF Init, Key
<1>4. ASSUME NEW k \in 0..(Width - 1) PROVE getBit(bytes, k) = 0
  <2>1. k \div ByteBits \in 0..(KeyLength - 1) /\ k % ByteBits \in 0..ByteBits
    BY Positions, Sizes
  <2>2. QED
    BY <1>3, <2>1, ZeroBits DEF getBit
<1>5. Written = 0
  BY <1>2, Sizes DEF Written
<1>6. 0 % ByteBits = 0
  BY Sizes, Quotient
<1>7. QED
  BY <1>2, <1>3, <1>4, <1>5, <1>6, Intersecting, Sizes DEF PathInv

\* A byte is compared: InBytes compares bits with bytes, and the loop over bytes
\* ends before the shorter path does, not after it.
LEMMA ByteStepKeeps == PathInv /\ ByteStep => PathInv'
<1>1. SUFFICES ASSUME PathInv, ByteStep PROVE PathInv'
  OBVIOUS
<1>2. /\ UNCHANGED <<this, other, bytes, at>> /\ stage = "bytes" /\ at = 0
      /\ intersectingBits' = intersectingBits
      /\ intersectingBits \in 1..Width
      /\ pos \in 0..intersectingBits /\ pos % ByteBits = 0
  BY <1>1, Intersecting DEF ByteStep, PathInv, paths, intersectingBits
<1>3. Written' = Written
  <2>1. stage' \in {"bytes", "bits"}
    BY <1>1 DEF ByteStep
  <2>2. QED
    BY <1>2, <2>1 DEF Written
<1>4. CASE InBytes /\ SameByte /\ pos' = pos + ByteBits /\ UNCHANGED stage
  <2> DEFINE q == pos \div ByteBits
  <2>1. pos = ByteBits * q /\ q \in Nat
    BY <1>2, Sizes, Divided
  <2>2. pos < intersectingBits \div ByteBits
    BY <1>4 DEF InBytes
  <2>3. /\ intersectingBits \div ByteBits \in Nat
        /\ ByteBits * (intersectingBits \div ByteBits) <= intersectingBits
    BY <1>2, Sizes, Divided
  <2>4. ByteBits * (q + 1) <= ByteBits * (intersectingBits \div ByteBits)
    <3>1. q <= pos
      BY <2>1, Sizes
    <3>2. q + 1 <= intersectingBits \div ByteBits
      BY <1>2, <2>1, <2>2, <2>3, <3>1, Sizes
    <3> HIDE DEF q
    <3>3. QED
      BY <2>1, <2>3, <3>2, Sizes, Multiplied
  <2>5. pos + ByteBits <= intersectingBits
    BY <1>2, <2>1, <2>3, <2>4, Sizes
  <2>6. pos' \in 0..intersectingBits /\ pos' = ByteBits * (q + 1)
    BY <1>2, <1>4, <2>1, <2>5, Sizes
  <2>7. pos' % ByteBits = 0
    <3>1. /\ pos' = ByteBits * (q + 1) + 0 /\ 0 \in 0..(ByteBits - 1)
          /\ q + 1 \in Int /\ pos' \in Int
      BY <1>2, <2>1, <2>6, Sizes
    <3>2. QED
      BY <3>1, Sizes, Quotient
  <2>8. ASSUME NEW k \in 0..(pos' - 1) PROVE getBit(this.key, k) = getBit(other.key, k)
    <3>1. CASE k < pos
      BY <1>1, <1>2, <3>1 DEF PathInv
    <3>2. CASE k >= pos
      <4>1. k = ByteBits * q + (k - pos) /\ k - pos \in 0..(ByteBits - 1) /\ k \in Int
        BY <1>2, <1>4, <2>1, <3>2, Sizes
      <4>2. k \div ByteBits = q
        <5> DEFINE r == k - pos
        <5>1. k = ByteBits * q + r /\ r \in 0..(ByteBits - 1) /\ k \in Int /\ q \in Int
          BY <2>1, <4>1
        <5> HIDE DEF q, r
        <5>2. QED
          BY <5>1, Sizes, Quotient
      <4>3. this.key[k \div ByteBits] = other.key[k \div ByteBits]
        BY <1>4, <4>2 DEF SameByte
      <4>4. QED
        BY <4>3 DEF getBit
    <3>3. QED
      BY <1>2, <2>6, <3>1, <3>2, Sizes
  <2>9. QED
    BY <1>1, <1>2, <1>3, <1>4, <2>6, <2>7, <2>8 DEF PathInv
<1>5. CASE stage' = "bits" /\ UNCHANGED pos
  BY <1>1, <1>2, <1>3, <1>5 DEF PathInv
<1>6. QED
  BY <1>1, <1>4, <1>5 DEF ByteStep

\* One bit is compared.
LEMMA BitStepKeeps == PathInv /\ BitStep => PathInv'
<1>1. SUFFICES ASSUME PathInv, BitStep PROVE PathInv'
  OBVIOUS
<1>2. /\ UNCHANGED <<this, other, bytes, at>> /\ stage = "bits" /\ at = 0
      /\ intersectingBits' = intersectingBits
      /\ intersectingBits \in 1..Width
      /\ pos \in 0..intersectingBits
  BY <1>1, Intersecting DEF BitStep, PathInv, paths, intersectingBits
<1>3. Written' = Written
  <2>1. stage' \in {"bits", "copy"}
    BY <1>1, <1>2 DEF BitStep
  <2>2. QED
    BY <1>2, <2>1 DEF Written
<1>4. CASE /\ pos < intersectingBits /\ getBit(this.key, pos) = getBit(other.key, pos)
           /\ pos' = pos + 1 /\ UNCHANGED stage
  <2>1. pos' \in 0..intersectingBits
    BY <1>2, <1>4, Sizes
  <2>2. \A k \in 0..(pos' - 1) : k \in 0..(pos - 1) \/ k = pos
    BY <1>2, <1>4, Sizes
  <2>3. QED
    BY <1>1, <1>2, <1>3, <1>4, <2>1, <2>2 DEF PathInv
<1>5. CASE /\ ~(pos < intersectingBits /\ getBit(this.key, pos) = getBit(other.key, pos))
           /\ stage' = "copy" /\ UNCHANGED pos
  <2>1. pos = intersectingBits \/ getBit(this.key, pos) # getBit(other.key, pos)
    BY <1>2, <1>5, Sizes
  <2>2. 0 \in 0..(pos \div ByteBits)
    <3>1. pos \in Nat
      BY <1>2, Sizes
    <3>2. QED
      BY <3>1, Sizes, Divided
  <2>3. QED
    BY <1>1, <1>2, <1>3, <1>5, <2>1, <2>2 DEF PathInv
<1>6. QED
  BY <1>1, <1>4, <1>5 DEF BitStep

\* One byte is copied, or the loop over bits starts where the bytes end.
LEMMA CopyKeeps == PathInv /\ Copy => PathInv'
<1>1. SUFFICES ASSUME PathInv, Copy PROVE PathInv'
  OBVIOUS
<1>2. /\ UNCHANGED <<this, other, pos>> /\ stage = "copy"
      /\ intersectingBits' = intersectingBits
      /\ intersectingBits \in 1..Width
      /\ pos \in 0..intersectingBits /\ at \in 0..(pos \div ByteBits)
      /\ bytes \in Key /\ this.key \in Key
      /\ Written = ByteBits * at
  BY <1>1, Intersecting, ConstructedIs DEF Copy, PathInv, paths, intersectingBits, Written
<1>3. /\ pos \in Nat /\ pos <= Width /\ at \in Nat /\ pos \div ByteBits \in Nat
      /\ pos = ByteBits * (pos \div ByteBits) + (pos % ByteBits)
      /\ pos % ByteBits \in 0..(ByteBits - 1)
  <2>1. pos \in Nat /\ pos <= Width
    BY <1>2, Sizes
  <2>2. QED
    BY <1>2, <2>1, Sizes, Divided
<1>4. CASE /\ at < pos \div ByteBits
           /\ bytes' = [bytes EXCEPT ![at] = this.key[at]]
           /\ at' = at + 1 /\ UNCHANGED stage
  <2>1. at \in 0..(KeyLength - 1)
    <3>1. ByteBits * (at + 1) <= ByteBits * (pos \div ByteBits)
      BY <1>3, <1>4, Sizes
    <3>2. ByteBits * (at + 1) <= ByteBits * KeyLength
      BY <1>3, <3>1, Sizes
    <3>3. at + 1 <= KeyLength
      BY <1>3, <3>2, Sizes
    <3>4. QED
      BY <1>3, <3>3, Sizes
  <2>2. bytes' \in Key
    BY <1>2, <1>4, <2>1 DEF Key
  <2>3. Written' = ByteBits * (at + 1)
    BY <1>2, <1>4 DEF Written
  <2>4. ASSUME NEW k \in 0..(Width - 1)
        PROVE  getBit(bytes', k) =
                 IF k < ByteBits * (at + 1) THEN getBit(this.key, k) ELSE 0
    <3> DEFINE q == k \div ByteBits
               r == k % ByteBits
    <3>1. q \in 0..(KeyLength - 1) /\ r \in 0..(ByteBits - 1) /\ k = ByteBits * q + r
      BY Positions
    <3>2. getBit(bytes, k) = IF k < ByteBits * at THEN getBit(this.key, k) ELSE 0
      BY <1>1, <1>2 DEF PathInv
    <3>3. getBit(bytes', k) = IF q = at THEN getBit(this.key, k) ELSE getBit(bytes, k)
      BY <1>2, <1>4, <2>1, <3>1 DEF getBit, Key
    <3> HIDE DEF q, r
    <3>4. k < ByteBits * (at + 1) <=> q < at + 1
      BY <1>3, <3>1, Sizes
    <3>5. k < ByteBits * at <=> q < at
      BY <1>3, <3>1, Sizes
    <3>6. q < at + 1 <=> q < at \/ q = at
      BY <1>3, <3>1, Sizes
    <3>7. QED
      BY <3>2, <3>3, <3>4, <3>5, <3>6
  <2>5. at' \in 0..(pos \div ByteBits)
    BY <1>3, <1>4
  <2>6. QED
    BY <1>1, <1>2, <1>4, <2>2, <2>3, <2>4, <2>5 DEF PathInv
<1>5. CASE /\ at >= pos \div ByteBits
           /\ at' = ByteBits * (pos \div ByteBits)
           /\ stage' = "set" /\ UNCHANGED bytes
  <2>1. at = pos \div ByteBits
    BY <1>2, <1>3, <1>5
  <2>2. at' \in 0..pos
    BY <1>3, <1>5, Sizes
  <2>3. Written' = Written
    BY <1>2, <1>5, <2>1 DEF Written
  <2>4. QED
    BY <1>1, <1>2, <1>5, <2>2, <2>3 DEF PathInv
<1>6. QED
  BY <1>1, <1>4, <1>5 DEF Copy

\* One bit is set.
LEMMA SetKeeps == PathInv /\ Set => PathInv'
<1>1. SUFFICES ASSUME PathInv, Set PROVE PathInv'
  OBVIOUS
<1>2. /\ UNCHANGED <<this, other, pos>> /\ stage = "set"
      /\ intersectingBits' = intersectingBits
      /\ intersectingBits \in 1..Width
      /\ pos \in 0..intersectingBits /\ at \in 0..pos
      /\ bytes \in Key /\ this.key \in Key
      /\ Written = at
  BY <1>1, Intersecting, ConstructedIs DEF Set, PathInv, paths, intersectingBits, Written
<1>3. pos \in Nat /\ pos <= Width /\ at \in Nat /\ at <= pos
  BY <1>2, Sizes
<1>4. CASE /\ at < pos
           /\ bytes' = setBit(bytes, at, getBit(this.key, at))
           /\ at' = at + 1 /\ UNCHANGED stage
  <2>1. at \in 0..(Width - 1)
    BY <1>3, <1>4, Sizes
  <2>2. getBit(this.key, at) \in {0, 1}
    BY <1>2, <2>1, KeyBit
  <2>3. /\ bytes' \in Key
        /\ \A k \in 0..(Width - 1) :
             getBit(bytes', k) = IF k = at THEN getBit(this.key, at) ELSE getBit(bytes, k)
    BY <1>2, <1>4, <2>1, <2>2, SetBitIs
  <2>4. Written' = at + 1
    BY <1>2, <1>4 DEF Written
  <2>5. ASSUME NEW k \in 0..(Width - 1)
        PROVE  getBit(bytes', k) = IF k < at + 1 THEN getBit(this.key, k) ELSE 0
    <3>1. getBit(bytes, k) = IF k < at THEN getBit(this.key, k) ELSE 0
      BY <1>1, <1>2 DEF PathInv
    <3>2. k < at + 1 <=> k < at \/ k = at
      BY <1>3, Sizes
    <3>3. QED
      BY <2>3, <3>1, <3>2
  <2>6. at' \in 0..pos
    BY <1>3, <1>4
  <2>7. QED
    BY <1>1, <1>2, <1>4, <2>3, <2>4, <2>5, <2>6 DEF PathInv
<1>5. CASE at >= pos /\ stage' = "done" /\ UNCHANGED <<bytes, at>>
  <2>1. at = pos
    BY <1>3, <1>5
  <2>2. Written' = Written
    BY <1>2, <1>5 DEF Written
  <2>3. QED
    BY <1>1, <1>2, <1>5, <2>1, <2>2 DEF PathInv
<1>6. QED
  BY <1>1, <1>4, <1>5 DEF Set

\* The loops keep PathInv.
LEMMA PathInvHolds == Spec => []PathInv
<1>1. PathInv /\ [Next]_vars => PathInv'
  <2>1. PathInv /\ UNCHANGED vars => PathInv'
    BY DEF vars, PathInv, Written, intersectingBits
  <2>2. QED
    BY <2>1, ByteStepKeeps, BitStepKeeps, CopyKeeps, SetKeeps DEF Next
<1>2. QED
  BY InitPath, <1>1, PTL DEF Spec

-----------------------------------------------------------------------------
(* What they compute.                                                      *)

\* commonPrefixLength finds the place where two sequences part.
LEMMA CommonLengthIs ==
  ASSUME NEW p \in Seq({0, 1}), NEW q \in Seq({0, 1}), NEW n \in Nat,
         n <= Len(p), n <= Len(q), \A k \in 1..n : p[k] = q[k],
         n = Len(p) \/ n = Len(q) \/ p[n + 1] # q[n + 1]
  PROVE  CommonLength(p, q) = n
<1> DEFINE Parts(m) == /\ m <= Len(q)
                       /\ \A k \in 1..m : p[k] = q[k]
                       /\ m = Len(p) \/ m = Len(q) \/ p[m + 1] # q[m + 1]
<1>1. n \in 0..Len(p) /\ Parts(n)
  OBVIOUS
<1>2. ASSUME NEW m \in 0..Len(p), Parts(m) PROVE m = n
  <2>1. ~(m < n)
    <3>1. m < n => m + 1 \in 1..n
      OBVIOUS
    <3>2. QED
      BY <1>2, <3>1
  <2>2. ~(n < m)
    <3>1. n < m => n + 1 \in 1..m
      OBVIOUS
    <3>2. QED
      BY <1>2, <3>1
  <2>3. QED
    BY <2>1, <2>2
<1>3. CommonLength(p, q) = CHOOSE m \in 0..Len(p) : Parts(m)
  BY DEF CommonLength
<1> HIDE DEF Parts
<1>4. QED
  BY <1>1, <1>2, <1>3

\* What is known of the paths when truncate has returned.
LEMMA PathsPart ==
  ASSUME PathInv, Done
  PROVE  /\ pos \in Nat /\ pos <= Width
         /\ this.key \in Key /\ other.key \in Key
         /\ Bits(this) \in Seq({0, 1}) /\ Bits(other) \in Seq({0, 1})
         /\ Len(Bits(this)) = this.bitLength /\ Len(Bits(other)) = other.bitLength
         /\ this.bitLength \in Nat /\ other.bitLength \in Nat
         /\ pos <= this.bitLength /\ pos <= other.bitLength
         /\ pos = intersectingBits <=> pos = this.bitLength \/ pos = other.bitLength
         /\ pos # intersectingBits =>
              /\ pos < this.bitLength /\ pos < other.bitLength
              /\ Bits(this)[pos + 1] = getBit(this.key, pos)
              /\ Bits(other)[pos + 1] = getBit(other.key, pos)
              /\ getBit(this.key, pos) # getBit(other.key, pos)
              /\ getBit(this.key, pos) \in {0, 1} /\ getBit(other.key, pos) \in {0, 1}
         /\ CommonLength(Bits(this), Bits(other)) = pos
<1>1. /\ this \in Constructed /\ other \in Constructed /\ pos \in 0..intersectingBits
      /\ \A k \in 0..(pos - 1) : getBit(this.key, k) = getBit(other.key, k)
      /\ pos = intersectingBits \/ getBit(this.key, pos) # getBit(other.key, pos)
  BY DEF PathInv, Done
<1>2. /\ intersectingBits \in 1..Width
      /\ intersectingBits <= this.bitLength /\ intersectingBits <= other.bitLength
      /\ intersectingBits \in {this.bitLength, other.bitLength}
  BY <1>1, Intersecting
<1>3. /\ this.key \in Key /\ this.bitLength \in 1..Width
      /\ Bits(this) \in Seq({0, 1}) /\ Len(Bits(this)) = this.bitLength
      /\ \A k \in 0..(this.bitLength - 1) : Bits(this)[k + 1] = getBit(this.key, k)
  BY <1>1, ConstructedIs
<1>4. /\ other.key \in Key /\ other.bitLength \in 1..Width
      /\ Bits(other) \in Seq({0, 1}) /\ Len(Bits(other)) = other.bitLength
      /\ \A k \in 0..(other.bitLength - 1) : Bits(other)[k + 1] = getBit(other.key, k)
  BY <1>1, ConstructedIs
<1>5. /\ pos \in Nat /\ pos <= Width /\ pos <= this.bitLength /\ pos <= other.bitLength
      /\ this.bitLength \in Nat /\ other.bitLength \in Nat
      /\ pos = intersectingBits <=> pos = this.bitLength \/ pos = other.bitLength
  BY <1>1, <1>2, <1>3, <1>4, Sizes
<1>6. ASSUME pos # intersectingBits
      PROVE  /\ pos < this.bitLength /\ pos < other.bitLength
             /\ Bits(this)[pos + 1] = getBit(this.key, pos)
             /\ Bits(other)[pos + 1] = getBit(other.key, pos)
             /\ getBit(this.key, pos) # getBit(other.key, pos)
             /\ getBit(this.key, pos) \in {0, 1} /\ getBit(other.key, pos) \in {0, 1}
  <2>1. pos < this.bitLength /\ pos < other.bitLength /\ pos \in 0..(Width - 1)
    BY <1>2, <1>3, <1>4, <1>5, <1>6, Sizes
  <2>2. QED
    BY <1>1, <1>3, <1>4, <1>5, <1>6, <2>1, KeyBit
<1>7. ASSUME NEW k \in 1..pos PROVE Bits(this)[k] = Bits(other)[k]
  <2>1. /\ k - 1 \in 0..(pos - 1) /\ (k - 1) + 1 = k
        /\ k - 1 \in 0..(this.bitLength - 1) /\ k - 1 \in 0..(other.bitLength - 1)
    BY <1>5
  <2>2. QED
    BY <1>1, <1>3, <1>4, <2>1
<1>8. \/ pos = this.bitLength \/ pos = other.bitLength
      \/ Bits(this)[pos + 1] # Bits(other)[pos + 1]
  BY <1>5, <1>6
<1>9. CommonLength(Bits(this), Bits(other)) = pos
  BY <1>3, <1>4, <1>5, <1>7, <1>8, CommonLengthIs
<1>10. QED
  BY <1>3, <1>4, <1>5, <1>6, <1>9

\* CommonLength is the same either way.
LEMMA CommonLengthBack ==
  ASSUME PathInv, Done
  PROVE  CommonLength(Bits(other), Bits(this)) = pos
<1>1. ASSUME NEW k \in 1..pos PROVE Bits(this)[k] = Bits(other)[k]
  <2>1. /\ k - 1 \in 0..(pos - 1) /\ (k - 1) + 1 = k
        /\ k - 1 \in 0..(this.bitLength - 1) /\ k - 1 \in 0..(other.bitLength - 1)
    BY PathsPart
  <2>2. /\ this \in Constructed /\ other \in Constructed
        /\ \A l \in 0..(pos - 1) : getBit(this.key, l) = getBit(other.key, l)
    BY DEF PathInv
  <2>3. /\ Bits(this)[(k - 1) + 1] = getBit(this.key, k - 1)
        /\ Bits(other)[(k - 1) + 1] = getBit(other.key, k - 1)
    BY <2>1, <2>2, ConstructedIs
  <2>4. QED
    BY <2>1, <2>2, <2>3
<1>2. \/ pos = this.bitLength \/ pos = other.bitLength
      \/ Bits(this)[pos + 1] # Bits(other)[pos + 1]
  BY PathsPart
<1>3. QED
  BY <1>1, <1>2, PathsPart, CommonLengthIs

\* Theorem: the loop over bytes and the loop over bits stop where the two paths
\* part, for any number of bits in a byte, and startsWith and compare agree with
\* what Paths says of the sequences of bits.
THEOREM LoopsFindPrefix == Spec => []CommonPrefixFound
<1>1. PathInv => CommonPrefixFound
  <2>1. SUFFICES ASSUME PathInv, Done
                 PROVE  /\ pos = CommonLength(Bits(this), Bits(other))
                        /\ startsWith <=> StartsWith(Bits(this), Bits(other))
                        /\ compare < 0 <=> Before(Bits(this), Bits(other))
                        /\ compare > 0 <=> Before(Bits(other), Bits(this))
    BY DEF CommonPrefixFound
  <2> DEFINE p == Bits(this)
             q == Bits(other)
  <2>2. /\ pos \in Nat /\ CommonLength(p, q) = pos /\ CommonLength(q, p) = pos
        /\ Len(p) = this.bitLength /\ Len(q) = other.bitLength
        /\ this.bitLength \in Nat /\ other.bitLength \in Nat
        /\ pos = intersectingBits <=> pos = this.bitLength \/ pos = other.bitLength
    BY <2>1, PathsPart, CommonLengthBack
  <2>3. startsWith <=> StartsWith(p, q)
    BY <2>2 DEF startsWith, StartsWith
  <2>4. CASE pos = intersectingBits
    <3>1. /\ Before(p, q) <=> this.bitLength < other.bitLength
          /\ Before(q, p) <=> other.bitLength < this.bitLength
      BY <2>2, <2>4 DEF Before
    <3>2. compare = IF this.bitLength < other.bitLength THEN -1
                    ELSE IF this.bitLength > other.bitLength THEN 1 ELSE 0
      BY <2>4 DEF compare
    <3>3. QED
      BY <2>2, <2>3, <3>1, <3>2
  <2>5. CASE pos # intersectingBits
    <3>1. /\ p[pos + 1] = getBit(this.key, pos) /\ q[pos + 1] = getBit(other.key, pos)
          /\ getBit(this.key, pos) \in {0, 1} /\ getBit(other.key, pos) \in {0, 1}
      BY <2>1, <2>5, PathsPart
    <3>2. /\ Before(p, q) <=> getBit(this.key, pos) < getBit(other.key, pos)
          /\ Before(q, p) <=> getBit(other.key, pos) < getBit(this.key, pos)
      BY <2>2, <2>5, <3>1 DEF Before
    <3>3. compare = getBit(this.key, pos) - getBit(other.key, pos)
      BY <2>5 DEF compare
    <3>4. QED
      BY <2>2, <2>3, <3>1, <3>2, <3>3
  <2>6. QED
    BY <2>4, <2>5
<1>2. QED
  BY <1>1, PathInvHolds, PTL

\* truncate makes the path that is made of the common bits.
LEMMA ResultIs ==
  ASSUME PathInv, Done
  PROVE  /\ CommonPrefix(Bits(this), Bits(other)) \in Seq({0, 1})
         /\ Len(CommonPrefix(Bits(this), Bits(other))) <= Width
         /\ result = FromString(CommonPrefix(Bits(this), Bits(other)))
<1> DEFINE s == CommonPrefix(Bits(this), Bits(other))
<1>1. /\ pos \in Nat /\ pos <= Width /\ pos <= this.bitLength
      /\ Bits(this) \in Seq({0, 1}) /\ Len(Bits(this)) = this.bitLength
      /\ this.bitLength \in Nat
      /\ s = SubSeq(Bits(this), 1, pos)
  BY PathsPart DEF CommonPrefix
<1>2. s \in Seq({0, 1}) /\ Len(s) = pos /\ \A k \in 1..pos : s[k] = Bits(this)[k]
  BY <1>1
<1> HIDE DEF s
<1>3. /\ FromString(s).key \in Key
      /\ \A k \in 0..(Width - 1) :
           getBit(FromString(s).key, k) = IF k < pos THEN s[k + 1] ELSE 0
      /\ FromString(s) = [key |-> FromString(s).key, bitLength |-> pos]
  BY <1>1, <1>2, FromStringIs
<1>4. /\ this \in Constructed /\ bytes \in Key
      /\ \A k \in 0..(Width - 1) :
           getBit(bytes, k) = IF k < pos THEN getBit(this.key, k) ELSE 0
  BY DEF PathInv, Done, Written
<1>5. ASSUME NEW k \in 0..(Width - 1) PROVE getBit(bytes, k) = getBit(FromString(s).key, k)
  <2>1. CASE k < pos
    <3>1. k + 1 \in 1..pos /\ k \in 0..(this.bitLength - 1)
      BY <1>1, <2>1, Sizes
    <3>2. s[k + 1] = Bits(this)[k + 1] /\ Bits(this)[k + 1] = getBit(this.key, k)
      BY <1>2, <1>4, <3>1, ConstructedIs
    <3>3. QED
      BY <1>3, <1>4, <2>1, <3>2
  <2>2. CASE ~(k < pos)
    BY <1>3, <1>4, <2>2
  <2>3. QED
    BY <2>1, <2>2
<1>6. bytes = FromString(s).key
  BY <1>3, <1>4, <1>5, SameKey
<1>7. QED
  BY <1>1, <1>2, <1>3, <1>6 DEF result, s

\* Theorem: commonPrefix makes the very path that the constructor makes of the
\* common bits, with nothing of the longer path left in its last byte.
THEOREM PrefixesAreCanonical == Spec => []PrefixIsCanonical
<1>1. PathInv => PrefixIsCanonical
  BY ResultIs DEF PrefixIsCanonical
<1>2. QED
  BY <1>1, PathInvHolds, PTL

-----------------------------------------------------------------------------
(* serialize.                                                              *)

\* The length at the beginning of a serialized path.
LengthBytes(l) == IF l < Half THEN <<l>> ELSE <<Half + (l % Half), l \div Half>>

\* How many bytes have bits of the path.
UsedBytes(l) == (l + ByteBits - 1) \div ByteBits

\* The first number tells a length of one number from one of two.
LEMMA LengthBytesAre ==
  ASSUME NEW l \in Nat
  PROVE  /\ l < Half => Len(LengthBytes(l)) = 1 /\ LengthBytes(l)[1] = l
         /\ l >= Half => /\ Len(LengthBytes(l)) = 2
                         /\ LengthBytes(l)[1] >= Half /\ LengthBytes(l)[1] \in Nat
                         /\ l = Half * LengthBytes(l)[2] + (LengthBytes(l)[1] - Half)
<1>1. Half \in Nat /\ Half > 0
  BY HalfAssumption
<1>2. l % Half \in Nat /\ l = Half * (l \div Half) + (l % Half) /\ l \div Half \in Nat
  BY <1>1, Divided
<1>3. CASE l < Half
  BY <1>1, <1>3 DEF LengthBytes
<1>4. CASE l >= Half
  <2>1. LengthBytes(l) = <<Half + (l % Half), l \div Half>>
    BY <1>1, <1>4 DEF LengthBytes
  <2>2. /\ LengthBytes(l)[1] = Half + (l % Half) /\ LengthBytes(l)[2] = l \div Half
        /\ Len(LengthBytes(l)) = 2
    BY <2>1
  <2>3. QED
    BY <1>1, <1>2, <1>4, <2>2
<1>5. QED
  BY <1>1, <1>3, <1>4

\* The bytes with bits of a path of l bits hold them.
LEMMA UsedBytesHold ==
  ASSUME NEW l \in 0..Width, NEW k \in 0..(l - 1)
  PROVE  /\ UsedBytes(l) \in Nat /\ UsedBytes(l) <= KeyLength
         /\ k \div ByteBits + 1 \in 1..UsedBytes(l)
<1> DEFINE u == UsedBytes(l)
           q == k \div ByteBits
<1>1. /\ l \in Nat /\ l + ByteBits - 1 \in Nat /\ k \in Nat /\ k < l /\ l <= Width
  BY Sizes
<1>2. /\ u \in Nat
      /\ l + ByteBits - 1 = ByteBits * u + ((l + ByteBits - 1) % ByteBits)
      /\ (l + ByteBits - 1) % ByteBits \in 0..(ByteBits - 1)
  BY <1>1, Sizes, Divided DEF UsedBytes
<1>3. q \in Nat /\ k = ByteBits * q + (k % ByteBits) /\ k % ByteBits \in 0..(ByteBits - 1)
  BY <1>1, Sizes, Divided
<1> HIDE DEF u, q
<1>4. l <= ByteBits * u /\ ByteBits * u <= l + ByteBits - 1
  BY <1>1, <1>2, Sizes
<1>5. q < u
  <2>1. ByteBits * q < ByteBits * u
    <3>1. ByteBits * q \in Nat /\ ByteBits * u \in Nat /\ k >= ByteBits * q
      BY <1>2, <1>3, Sizes
    <3>2. QED
      BY <1>1, <1>4, <3>1
  <2>2. QED
    BY <1>2, <1>3, <2>1, Sizes, Multiplied
<1>6. u <= KeyLength
  <2>1. ByteBits * u < ByteBits * (KeyLength + 1)
    BY <1>1, <1>2, <1>4, Sizes
  <2>2. QED
    BY <1>2, <2>1, Sizes, Multiplied
<1>7. QED
  BY <1>2, <1>3, <1>5, <1>6 DEF u, q

\* The items of a concatenation.
LEMMA Joined ==
  ASSUME NEW u \in Seq(Nat), NEW v \in Seq(Nat)
  PROVE  /\ u \o v \in Seq(Nat) /\ Len(u \o v) = Len(u) + Len(v) /\ Len(u) \in Nat
         /\ \A i \in 1..Len(u) : (u \o v)[i] = u[i]
         /\ \A i \in 1..Len(v) : (u \o v)[Len(u) + i] = v[i]
OBVIOUS

\* A serialized path: its length, then its bytes.
LEMMA SerializedIs ==
  ASSUME NEW p \in Constructed
  PROVE  LET l == p.bitLength
         IN /\ serialize(p) \in Seq(Nat)
            /\ Len(LengthBytes(l)) \in Nat /\ Len(LengthBytes(l)) >= 1
            /\ UsedBytes(l) \in Nat
            /\ Len(serialize(p)) = Len(LengthBytes(l)) + UsedBytes(l)
            /\ \A i \in 1..Len(LengthBytes(l)) : serialize(p)[i] = LengthBytes(l)[i]
            /\ \A i \in 1..UsedBytes(l) :
                 serialize(p)[Len(LengthBytes(l)) + i] = p.key[i - 1]
<1> DEFINE l == p.bitLength
           head == LengthBytes(l)
           body == [i \in 1..UsedBytes(l) |-> p.key[i - 1]]
<1>1. l \in Nat /\ l \in 0..Width /\ 0 \in 0..(l - 1) /\ p.key \in Key
  BY ConstructedIs, Sizes
<1>2. UsedBytes(l) \in Nat /\ UsedBytes(l) <= KeyLength
  BY <1>1, UsedBytesHold
<1>3. ASSUME NEW i \in 1..UsedBytes(l) PROVE p.key[i - 1] \in Nat
  <2>1. i - 1 \in 0..(KeyLength - 1)
    BY <1>2, Sizes
  <2>2. QED
    BY <1>1, <2>1, Sizes DEF Key
<1>4. /\ body \in Seq(Nat) /\ Len(body) = UsedBytes(l)
      /\ \A i \in 1..UsedBytes(l) : body[i] = p.key[i - 1]
  BY <1>2, <1>3
<1>5. head \in Seq(Nat) /\ Len(head) >= 1
  <2>1. l % Half \in Nat /\ l \div Half \in Nat /\ Half \in Nat
    BY <1>1, HalfAssumption, Divided
  <2>2. QED
    BY <1>1, <2>1 DEF LengthBytes
<1>6. serialize(p) = head \o body
  BY DEF serialize, LengthBytes, UsedBytes
<1> HIDE DEF head, body
<1>7. head \in Seq(Nat) /\ body \in Seq(Nat)
  BY <1>4, <1>5
<1>8. /\ head \o body \in Seq(Nat) /\ Len(head \o body) = Len(head) + Len(body)
      /\ Len(head) \in Nat
      /\ \A i \in 1..Len(head) : (head \o body)[i] = head[i]
      /\ \A i \in 1..Len(body) : (head \o body)[Len(head) + i] = body[i]
  BY <1>7, Joined, Zenon
<1>9. QED
  BY <1>2, <1>4, <1>5, <1>6, <1>8 DEF head

\* Theorem: of two different paths, neither one's serialization begins the other's,
\* so that the bytes of a hashed branch are those of one pair of paths only.
THEOREM PathsAreSelfDelimiting == Spec => []SelfDelimiting
<1>1. PathInv => SelfDelimiting
  <2> DEFINE s == serialize(this)
             t == serialize(other)
             a == this.bitLength
             b == other.bitLength
  <2>1. SUFFICES ASSUME PathInv, Len(s) <= Len(t), s = SubSeq(t, 1, Len(s))
                 PROVE  this = other
    BY DEF SelfDelimiting
  <2>2. /\ this \in Constructed /\ other \in Constructed
        /\ a \in 1..Width /\ b \in 1..Width /\ a \in Nat /\ b \in Nat /\ a >= 1
        /\ this.key \in Key /\ other.key \in Key
    BY <2>1, ConstructedIs, Sizes DEF PathInv
  <2>3. /\ s \in Seq(Nat) /\ t \in Seq(Nat)
        /\ Len(LengthBytes(a)) \in Nat /\ Len(LengthBytes(a)) >= 1 /\ UsedBytes(a) \in Nat
        /\ Len(LengthBytes(b)) \in Nat /\ Len(LengthBytes(b)) >= 1 /\ UsedBytes(b) \in Nat
    BY <2>2, SerializedIs
  <2>4. /\ Len(s) = Len(LengthBytes(a)) + UsedBytes(a)
        /\ Len(t) = Len(LengthBytes(b)) + UsedBytes(b)
        /\ \A i \in 1..Len(LengthBytes(a)) : s[i] = LengthBytes(a)[i]
        /\ \A i \in 1..Len(LengthBytes(b)) : t[i] = LengthBytes(b)[i]
        /\ \A i \in 1..UsedBytes(a) : s[Len(LengthBytes(a)) + i] = this.key[i - 1]
        /\ \A i \in 1..UsedBytes(b) : t[Len(LengthBytes(b)) + i] = other.key[i - 1]
    BY <2>2, SerializedIs
  <2> HIDE DEF s, t
  <2>5. \A i \in 1..Len(s) : s[i] = t[i]
    BY <2>1, <2>3
  <2>6. a = b
    <3>1. LengthBytes(a)[1] = LengthBytes(b)[1]
      <4>1. 1 \in 1..Len(LengthBytes(a)) /\ 1 \in 1..Len(LengthBytes(b)) /\ 1 \in 1..Len(s)
        <5>1. Len(s) = Len(LengthBytes(a)) + UsedBytes(a)
          BY <2>4
        <5>2. /\ Len(LengthBytes(a)) \in Nat /\ Len(LengthBytes(a)) >= 1
              /\ Len(LengthBytes(b)) \in Nat /\ Len(LengthBytes(b)) >= 1
          BY <2>3
        <5>3. UsedBytes(a) \in Nat
          BY <2>3
        <5>4. QED
          BY <5>1, <5>2, <5>3
      <4>2. s[1] = LengthBytes(a)[1] /\ t[1] = LengthBytes(b)[1] /\ s[1] = t[1]
        BY <2>4, <2>5, <4>1
      <4>3. QED
        BY <4>2
    <3>2. CASE a < Half
      BY <2>2, <3>1, <3>2, LengthBytesAre, HalfAssumption
    <3>3. CASE a >= Half
      <4>1. b >= Half
        BY <2>2, <3>1, <3>3, LengthBytesAre, HalfAssumption
      <4>2. Len(LengthBytes(a)) = 2 /\ Len(LengthBytes(b)) = 2
        BY <2>2, <3>3, <4>1, LengthBytesAre
      <4>3. LengthBytes(a)[2] = LengthBytes(b)[2]
        BY <2>3, <2>4, <2>5, <4>2
      <4>4. QED
        BY <2>2, <3>1, <3>3, <4>1, <4>3, LengthBytesAre
    <3>4. QED
      BY <2>2, <3>2, <3>3, HalfAssumption
  <2>7. ASSUME NEW k \in 0..(Width - 1) PROVE getBit(this.key, k) = getBit(other.key, k)
    <3>1. CASE k < a
      <4> DEFINE i == k \div ByteBits + 1
      <4>1. k \in 0..(a - 1) /\ a \in 0..Width
        BY <2>2, <3>1, Sizes
      <4>2. i \in 1..UsedBytes(a) /\ i - 1 = k \div ByteBits
        BY <4>1, UsedBytesHold, Positions, Sizes
      <4> HIDE DEF i
      <4>3. s[Len(LengthBytes(a)) + i] = t[Len(LengthBytes(b)) + i]
        <5> DEFINE j == Len(LengthBytes(a)) + i
        <5>1. j \in 1..Len(s)
          <6>1. Len(s) = Len(LengthBytes(a)) + UsedBytes(a)
            BY <2>4
          <6>2. Len(LengthBytes(a)) \in Nat /\ UsedBytes(a) \in Nat
            BY <2>3
          <6>3. QED
            BY <4>2, <6>1, <6>2
        <5>2. s[j] = t[j]
          BY <2>5, <5>1
        <5>3. QED
          BY <2>6, <5>2
      <4>4. this.key[i - 1] = other.key[i - 1]
        BY <2>4, <2>6, <4>2, <4>3
      <4>5. QED
        BY <4>2, <4>4 DEF getBit
    <3>2. CASE ~(k < a)
      <4>1. k \in a..(Width - 1) /\ k \in b..(Width - 1)
        BY <2>2, <2>6, <3>2, Sizes
      <4>2. QED
        BY <2>2, <4>1, ConstructedIs
    <3>3. QED
      BY <3>1, <3>2
  <2>8. this.key = other.key
    BY <2>2, <2>7, SameKey
  <2>9. /\ this = [key |-> this.key, bitLength |-> a]
         /\ other = [key |-> other.key, bitLength |-> b]
    <3>1. \A p \in Constructed : p = [key |-> p.key, bitLength |-> p.bitLength]
      <4>1. SUFFICES ASSUME NEW p \in Constructed
                     PROVE  p = [key |-> p.key, bitLength |-> p.bitLength]
        OBVIOUS
      <4>2. /\ p = FromString(Bits(p)) /\ Bits(p) \in Seq({0, 1})
            /\ Len(Bits(p)) = p.bitLength /\ p.bitLength <= Width
        BY ConstructedIs, Sizes
      <4>3. FromString(Bits(p)) =
              [key |-> FromString(Bits(p)).key, bitLength |-> Len(Bits(p))]
        BY <4>2, FromStringIs
      <4>4. QED
        BY <4>2, <4>3
    <3>2. QED
      BY <2>2, <3>1
  <2>10. QED
    BY <2>6, <2>8, <2>9
<1>2. QED
  BY <1>1, PathInvHolds, PTL

-----------------------------------------------------------------------------
(* Digits, toJSON and the converters.                                      *)

\* An array of n items is a sequence.
LEMMA ArrayIsSeq ==
  ASSUME NEW D, NEW n \in Nat, NEW f \in [1..n -> D]
  PROVE  f \in Seq(D) /\ Len(f) = n
OBVIOUS

\* The product of two powers is the power of the sum.
LEMMA PowersAdd ==
  ASSUME NEW m \in Nat, NEW n \in Nat, m + n <= ByteBits
  PROVE  Pow2[m + n] = Pow2[m] * Pow2[n]
<1> DEFINE S == {k \in Nat : Pow2[m + k] = Pow2[m] * Pow2[k]}
<1>1. ByteBits \in Nat /\ m \in 0..ByteBits /\ Pow2[m] \in Nat
  BY Powers, Sizes
<1>2. 0 \in S
  BY <1>1, Powers
<1>3. ASSUME NEW k \in 0..(n - 1), k \in S PROVE k + 1 \in S
  <2>1. m + k \in 0..(ByteBits - 1) /\ k \in 0..(ByteBits - 1) /\ m + (k + 1) = (m + k) + 1
    BY <1>1
  <2>2. Pow2[(m + k) + 1] = 2 * Pow2[m + k] /\ Pow2[k + 1] = 2 * Pow2[k] /\ Pow2[k] \in Nat
    BY <1>1, <2>1, Powers
  <2>3. Pow2[m + k] = Pow2[m] * Pow2[k]
    BY <1>3
  <2>4. Pow2[m] * (2 * Pow2[k]) = 2 * (Pow2[m] * Pow2[k])
    BY <1>1, <2>2
  <2>5. QED
    BY <2>1, <2>2, <2>3, <2>4
<1>4. \A k \in 0..n : k \in S
  <2> HIDE DEF S
  <2>1. QED
    BY <1>2, <1>3, Counting
<1>5. QED
  BY <1>4

\* A byte has two digits.
LEMMA DigitSizes ==
  /\ DigitBits \in Nat /\ DigitBits > 0 /\ ByteBits = 2 * DigitBits
  /\ Digits \in Nat /\ Digits > 0 /\ Digits = Pow2[DigitBits]
  /\ Pow2[ByteBits] = Digits * Digits
<1>1. ByteBits \in Nat /\ ByteBits > 0 /\ ByteBits % 2 = 0
  BY ByteAssumption
<1>2. DigitBits \in Nat /\ DigitBits > 0 /\ ByteBits = 2 * DigitBits
  BY <1>1 DEF DigitBits
<1>3. Digits \in Nat /\ Digits > 0 /\ Digits = Pow2[DigitBits]
  BY <1>2, Powers DEF Digits
<1>4. DigitBits + DigitBits = ByteBits
  BY <1>2
<1>5. Pow2[DigitBits + DigitBits] = Pow2[DigitBits] * Pow2[DigitBits]
  BY <1>2, <1>4, PowersAdd
<1>6. QED
  BY <1>2, <1>3, <1>4, <1>5

\* The values of a digit.
Digit == 0..(Digits - 1)

\* The two digits of a byte.
LEMMA TwoDigits ==
  ASSUME NEW byte \in Byte
  PROVE  /\ byte \div Digits \in Digit /\ byte % Digits \in Digit
         /\ byte = Digits * (byte \div Digits) + (byte % Digits)
<1>1. byte \in 0..(Digits * Digits - 1)
  BY Sizes, DigitSizes
<1>2. QED
  BY <1>1, DigitSizes, PositionsOf DEF Digit

\* The digits that are written for an array of bytes.
LEMMA HexIs ==
  ASSUME NEW array \in Seq(Byte)
  PROVE  LET hex == uint8ArrayToHexadecimal(array)
         IN /\ hex \in Seq(Digit) /\ Len(hex) = 2 * Len(array)
            /\ \A n \in 1..Len(array) : /\ hex[2 * n - 1] = array[n] \div Digits
                                        /\ hex[2 * n] = array[n] % Digits
<1> DEFINE hex == uint8ArrayToHexadecimal(array)
           digit(k) == IF k % 2 = 1 THEN array[(k + 1) \div 2] \div Digits
                       ELSE array[(k + 1) \div 2] % Digits
<1>1. hex = [k \in 1..(2 * Len(array)) |-> digit(k)]
  BY DEF uint8ArrayToHexadecimal
<1>2. ASSUME NEW k \in 1..(2 * Len(array)) PROVE digit(k) \in Digit
  <2>1. (k + 1) \div 2 \in 1..Len(array)
    OBVIOUS
  <2>2. array[(k + 1) \div 2] \in Byte
    BY <2>1
  <2>3. QED
    BY <2>2, TwoDigits
<1>3. ASSUME NEW n \in 1..Len(array)
      PROVE  digit(2 * n - 1) = array[n] \div Digits /\ digit(2 * n) = array[n] % Digits
  <2>1. /\ (2 * n - 1) % 2 = 1 /\ ((2 * n - 1) + 1) \div 2 = n
        /\ (2 * n) % 2 = 0 /\ (2 * n + 1) \div 2 = n
    OBVIOUS
  <2>2. QED
    BY <2>1
<1>4. /\ 2 * Len(array) \in Nat
      /\ \A n \in 1..Len(array) :
           2 * n - 1 \in 1..(2 * Len(array)) /\ 2 * n \in 1..(2 * Len(array))
  OBVIOUS
<1> HIDE DEF digit, hex
<1>5. hex \in Seq(Digit) /\ Len(hex) = 2 * Len(array)
  <2> DEFINE length == 2 * Len(array)
  <2>1. length \in Nat /\ hex \in [1..length -> Digit]
    BY <1>1, <1>2, <1>4
  <2> HIDE DEF length
  <2>2. hex \in Seq(Digit) /\ Len(hex) = length
    BY <2>1, ArrayIsSeq
  <2>3. QED
    BY <2>2 DEF length
<1>6. \A k \in 1..(2 * Len(array)) : hex[k] = digit(k)
  BY <1>1
<1>7. QED
  BY <1>3, <1>4, <1>5, <1>6 DEF hex

\* The bits that are written for an array of bytes.
LEMMA BinaryIs ==
  ASSUME NEW array \in Seq(Byte)
  PROVE  LET bits == uint8ArrayToBinaryString(array)
         IN /\ bits \in Seq({0, 1}) /\ Len(bits) = ByteBits * Len(array)
            /\ \A k \in 0..(ByteBits * Len(array) - 1) :
                 bits[k + 1] = BitOf(array[k \div ByteBits + 1], k % ByteBits)
<1> DEFINE bits == uint8ArrayToBinaryString(array)
           length == ByteBits * Len(array)
           bit(k) == BitOf(array[1 + (k - 1) \div ByteBits], (k - 1) % ByteBits)
<1>1. bits = [k \in 1..length |-> bit(k)]
  BY DEF uint8ArrayToBinaryString
<1>2. length \in Nat
  BY Sizes
<1>3. ASSUME NEW k \in 1..length PROVE bit(k) \in {0, 1}
  <2>1. k - 1 \in 0..(ByteBits * Len(array) - 1)
    BY <1>2
  <2>2. /\ (k - 1) \div ByteBits \in 0..(Len(array) - 1)
        /\ (k - 1) % ByteBits \in 0..(ByteBits - 1)
    <3> DEFINE p == k - 1
               m == Len(array)
    <3>1. m \in Nat /\ p \in 0..(ByteBits * m - 1) /\ ByteBits \in Nat /\ ByteBits > 0
      BY <2>1, Sizes
    <3> HIDE DEF p, m
    <3>2. p \div ByteBits \in 0..(m - 1) /\ p % ByteBits \in 0..(ByteBits - 1)
      BY <3>1, PositionsOf
    <3>3. QED
      BY <3>2 DEF p, m
  <2>3. array[1 + (k - 1) \div ByteBits] \in Byte
    BY <2>2
  <2>4. QED
    BY <2>2, <2>3, BitType, Sizes
<1>4. ASSUME NEW k \in 0..(length - 1)
      PROVE  /\ k + 1 \in 1..length
             /\ bit(k + 1) = BitOf(array[k \div ByteBits + 1], k % ByteBits)
  <2>1. (k + 1) - 1 = k /\ k + 1 \in 1..length
    BY <1>2
  <2>2. k \div ByteBits \in Int
    BY <1>2, Sizes
  <2>3. QED
    BY <2>1, <2>2
<1> HIDE DEF bit, bits, length
<1>5. bits \in Seq({0, 1}) /\ Len(bits) = length
  BY <1>1, <1>2, <1>3
<1>6. QED
  BY <1>1, <1>4, <1>5 DEF bits, length

\* The bits of the digits of an array are its bits: the digits of each byte are
\* taken in the other order.
LEMMA HexToBits ==
  ASSUME NEW array \in Seq(Byte)
  PROVE  hexadecimalToBinaryString(uint8ArrayToHexadecimal(array)) =
           uint8ArrayToBinaryString(array)
<1> DEFINE hex == uint8ArrayToHexadecimal(array)
           ofHex == hexadecimalToBinaryString(hex)
           bits == uint8ArrayToBinaryString(array)
           length == ByteBits * Len(array)
           digitOf(n) == IF n % 2 = 0 THEN n + 2 ELSE n
           bit(k) == BitOf(hex[digitOf((k - 1) \div DigitBits)], (k - 1) % DigitBits)
<1>1. /\ Len(hex) = 2 * Len(array)
      /\ \A n \in 1..Len(array) :
           hex[2 * n - 1] = array[n] \div Digits /\ hex[2 * n] = array[n] % Digits
  BY HexIs
<1>2. DigitBits * Len(hex) = length /\ length \in Nat
  <2> DEFINE m == Len(array)
  <2>1. m \in Nat /\ Len(hex) = 2 * m /\ length = ByteBits * m
    BY <1>1
  <2>2. DigitBits \in Nat /\ ByteBits = 2 * DigitBits
    BY DigitSizes
  <2> HIDE DEF m, hex, length
  <2>3. QED
    BY <2>1, <2>2
<1>3. ofHex = [k \in 1..length |-> bit(k)]
  BY <1>2 DEF hexadecimalToBinaryString
<1>4. /\ bits \in Seq({0, 1}) /\ Len(bits) = length
      /\ \A k \in 0..(length - 1) :
           bits[k + 1] = BitOf(array[k \div ByteBits + 1], k % ByteBits)
  BY BinaryIs
<1>5. ASSUME NEW k \in 0..(length - 1)
      PROVE  bit(k + 1) = BitOf(array[k \div ByteBits + 1], k % ByteBits)
  <2> DEFINE q == k \div ByteBits
             r == k % ByteBits
             d == DigitBits
  <2>1. q \in 0..(Len(array) - 1) /\ r \in 0..(ByteBits - 1) /\ k = ByteBits * q + r
    <3> DEFINE m == Len(array)
    <3>1. m \in Nat /\ k \in 0..(ByteBits * m - 1) /\ ByteBits \in Nat /\ ByteBits > 0
      BY Sizes
    <3> HIDE DEF m
    <3>2. q \in 0..(m - 1) /\ r \in 0..(ByteBits - 1) /\ k = ByteBits * q + r
      BY <3>1, PositionsOf
    <3>3. QED
      BY <3>2 DEF m
  <2>2. /\ q + 1 \in 1..Len(array) /\ q \in Nat
        /\ array[q + 1] \in Byte /\ array[q + 1] \in Nat
    BY <2>1, Sizes
  <2>3. d \in Nat /\ d > 0 /\ ByteBits = 2 * d /\ Digits = Pow2[d] /\ d \in 0..ByteBits
    BY DigitSizes
  <2>4. /\ hex[2 * q + 1] = array[q + 1] \div Digits
        /\ hex[2 * q + 2] = array[q + 1] % Digits
    <3>1. 2 * (q + 1) - 1 = 2 * q + 1 /\ 2 * (q + 1) = 2 * q + 2
      BY <2>2
    <3>2. QED
      BY <1>1, <2>2, <3>1
  <2>5. (k + 1) - 1 = k
    BY <1>2
  <2> HIDE DEF q, r, d, hex
  <2>6. CASE r < d
    <3>1. k = d * (2 * q) + r /\ 2 * q \in Int /\ r \in 0..(d - 1) /\ k \in Int
      BY <1>2, <2>1, <2>2, <2>3, <2>6
    <3>2. k \div d = 2 * q /\ k % d = r
      BY <2>3, <3>1, Quotient
    <3>3. (2 * q) % 2 = 0
      BY <2>2
    <3>4. bit(k + 1) = BitOf(array[q + 1] % Digits, r)
      BY <2>4, <2>5, <3>2, <3>3 DEF d
    <3>5. BitOf(array[q + 1] % Pow2[d], r) = BitOf(array[q + 1], r)
      BY <2>2, <2>3, <3>1, SplitNumber
    <3>6. QED
      BY <2>3, <3>4, <3>5 DEF q, r
  <2>7. CASE r >= d
    <3> DEFINE e == r - d
    <3>1. k = d * (2 * q + 1) + e /\ 2 * q + 1 \in Int /\ e \in 0..(d - 1) /\ k \in Int
      BY <1>2, <2>1, <2>2, <2>3, <2>7
    <3>2. k \div d = 2 * q + 1 /\ k % d = e
      <4> HIDE DEF e
      <4>1. QED
        BY <2>3, <3>1, Quotient
    <3>3. (2 * q + 1) % 2 = 1
      BY <2>2
    <3>4. bit(k + 1) = BitOf(array[q + 1] \div Digits, e)
      BY <2>4, <2>5, <3>2, <3>3 DEF d
    <3>5. e \in 0..(ByteBits - d) /\ d + e = r
      BY <2>1, <2>3, <2>7, <3>1
    <3>6. BitOf(array[q + 1] \div Pow2[d], e) = BitOf(array[q + 1], d + e)
      BY <2>2, <2>3, <3>5, SplitNumber
    <3>7. QED
      BY <2>3, <3>4, <3>5, <3>6 DEF q, r
  <2>8. QED
    BY <2>1, <2>3, <2>6, <2>7, Sizes
<1> HIDE DEF bits, bit, length, hex, ofHex
<1>6. ASSUME NEW k \in 1..length PROVE bit(k) = bits[k]
  <2>1. k - 1 \in 0..(length - 1) /\ (k - 1) + 1 = k
    BY <1>2
  <2>2. bits[(k - 1) + 1] = bit((k - 1) + 1)
    BY <1>4, <1>5, <2>1
  <2>3. QED
    BY <2>1, <2>2
<1>7. ofHex = bits
  <2>1. bits = [k \in 1..length |-> bits[k]]
    BY <1>2, <1>4
  <2>2. QED
    BY <1>3, <1>6, <2>1
<1>8. QED
  BY <1>7 DEF ofHex, bits, hex

\* The bytes of a path as an array.
KeyArray(path) == [n \in 1..KeyLength |-> path.key[n - 1]]

\* It is a sequence of bytes.
LEMMA KeyArrayIs ==
  ASSUME NEW path, path.key \in Key
  PROVE  /\ KeyArray(path) \in Seq(Byte) /\ Len(KeyArray(path)) = KeyLength
         /\ \A n \in 0..(KeyLength - 1) : KeyArray(path)[n + 1] = path.key[n]
<1>1. ASSUME NEW n \in 1..KeyLength PROVE path.key[n - 1] \in Byte
  BY Sizes DEF Key
<1>2. KeyArray(path) \in Seq(Byte) /\ Len(KeyArray(path)) = KeyLength
  BY <1>1, Sizes DEF KeyArray
<1>3. ASSUME NEW n \in 0..(KeyLength - 1) PROVE KeyArray(path)[n + 1] = path.key[n]
  <2>1. n + 1 \in 1..KeyLength /\ (n + 1) - 1 = n
    BY Sizes
  <2>2. QED
    BY <2>1 DEF KeyArray
<1>4. QED
  BY <1>2, <1>3

\* toJSON writes the bits of a path.
LEMMA toJSONIs ==
  ASSUME NEW path, path.key \in Key, path.bitLength \in 0..Width
  PROVE  toJSON(path) = Bits(path)
<1> DEFINE array == KeyArray(path)
           l == path.bitLength
           bits == hexadecimalToBinaryString(hexKey(path))
<1>1. hexKey(path) = uint8ArrayToHexadecimal(array)
  BY DEF hexKey, KeyArray
<1>2. bits = uint8ArrayToBinaryString(array)
  BY <1>1, KeyArrayIs, HexToBits
<1>3. /\ bits \in Seq({0, 1}) /\ Len(bits) = Width
      /\ \A k \in 0..(Width - 1) :
           bits[k + 1] = BitOf(array[k \div ByteBits + 1], k % ByteBits)
  BY <1>2, KeyArrayIs, BinaryIs, Sizes
<1>4. ASSUME NEW k \in 1..l PROVE bits[k] = getBit(path.key, k - 1)
  <2>1. k - 1 \in 0..(Width - 1) /\ (k - 1) + 1 = k
    BY Sizes
  <2>2. (k - 1) \div ByteBits \in 0..(KeyLength - 1)
    BY <2>1, Positions
  <2>3. bits[(k - 1) + 1] = BitOf(array[(k - 1) \div ByteBits + 1], (k - 1) % ByteBits)
    BY <1>3, <2>1
  <2>4. array[(k - 1) \div ByteBits + 1] = path.key[(k - 1) \div ByteBits]
    BY <2>2, KeyArrayIs
  <2>5. QED
    BY <2>1, <2>3, <2>4 DEF getBit
<1>5. toJSON(path) = SubSeq(bits, 1, l)
  BY DEF toJSON
<1> HIDE DEF bits
<1>6. l \in Nat /\ l <= Len(bits)
  BY <1>3, Sizes
<1>7. SubSeq(bits, 1, l) = [k \in 1..l |-> bits[k]]
  BY <1>3, <1>6
<1>8. [k \in 1..l |-> bits[k]] = [k \in 1..l |-> getBit(path.key, k - 1)]
  BY <1>4
<1>9. QED
  BY <1>5, <1>7, <1>8 DEF Bits

\* Theorem: toJSON writes the bits of a path, although every converter on the way
\* has an order of its own, and the constructor makes the same path of them again,
\* also for a path that truncate made.
THEOREM JSONIsReadAgain == Spec => []JSONRoundTrip
<1>1. PathInv => JSONRoundTrip
  <2>1. SUFFICES ASSUME PathInv, Done
                 PROVE  toJSON(this) = Bits(this) /\ FromString(toJSON(result)) = result
    BY DEF JSONRoundTrip
  <2>2. toJSON(this) = Bits(this)
    <3>1. this \in Constructed
      BY <2>1 DEF PathInv
    <3>2. this.key \in Key /\ this.bitLength \in 0..Width
      BY <3>1, ConstructedIs, Sizes
    <3>3. QED
      BY <3>2, toJSONIs
  <2> DEFINE s == CommonPrefix(Bits(this), Bits(other))
  <2>3. s \in Seq({0, 1}) /\ Len(s) <= Width /\ result = FromString(s)
    BY <2>1, ResultIs
  <2> HIDE DEF s
  <2>4. result.key \in Key /\ result.bitLength \in 0..Width /\ Bits(result) = s
    BY <2>3, FromStringIs, BitsAgain, Sizes
  <2>5. toJSON(result) = s
    BY <2>4, toJSONIs
  <2>6. QED
    BY <2>2, <2>3, <2>5
<1>2. QED
  BY <1>1, PathInvHolds, PTL

\* The array of a binary string.
LEMMA ArrayOfBits ==
  ASSUME NEW bits \in Seq({0, 1})
  PROVE  /\ binaryStringToUint8Array(bits) \in Seq(Byte)
         /\ Len(bits) <= ByteBits * Len(binaryStringToUint8Array(bits))
         /\ Len(binaryStringToUint8Array(bits)) = (Len(bits) + ByteBits - 1) \div ByteBits
<1> DEFINE array == binaryStringToUint8Array(bits)
           m == (Len(bits) + ByteBits - 1) \div ByteBits
<1>1. Len(bits) \in Nat /\ Len(bits) + ByteBits - 1 \in Nat
  BY Sizes
<1>2. /\ m \in Nat
      /\ Len(bits) + ByteBits - 1 = ByteBits * m + ((Len(bits) + ByteBits - 1) % ByteBits)
      /\ (Len(bits) + ByteBits - 1) % ByteBits \in 0..(ByteBits - 1)
  BY <1>1, Sizes, Divided
<1>3. \A n \in 1..m : array[n] \in Byte
  BY ParsedBytes
<1>4. DOMAIN array = 1..m /\ array = [n \in 1..m |-> array[n]]
  BY DEF binaryStringToUint8Array
<1> HIDE DEF array, m
<1>5. array \in Seq(Byte) /\ Len(array) = m
  BY <1>2, <1>3, <1>4, ArrayIsSeq
<1>6. Len(bits) <= ByteBits * m
  BY <1>1, <1>2, Sizes
<1>7. QED
  BY <1>5, <1>6 DEF array, m

\* It has the bits of the string, and zeros.
LEMMA BitsOfArray ==
  ASSUME NEW bits \in Seq({0, 1})
  PROVE  LET array == binaryStringToUint8Array(bits)
         IN uint8ArrayToBinaryString(array) = padWithZeros(bits, ByteBits * Len(array))
<1> DEFINE array == binaryStringToUint8Array(bits)
           m == Len(array)
           written == uint8ArrayToBinaryString(array)
           padded == padWithZeros(bits, ByteBits * m)
<1>1. /\ array \in Seq(Byte) /\ m \in Nat
      /\ ByteBits * m \in Nat /\ Len(bits) <= ByteBits * m
      /\ m = (Len(bits) + ByteBits - 1) \div ByteBits
  BY ArrayOfBits, Sizes
<1>2. /\ written \in Seq({0, 1}) /\ Len(written) = ByteBits * m
      /\ \A k \in 0..(ByteBits * m - 1) :
           written[k + 1] = BitOf(array[k \div ByteBits + 1], k % ByteBits)
  BY <1>1, BinaryIs
<1>3. /\ padded \in Seq({0, 1}) /\ Len(padded) = ByteBits * m
      /\ \A k \in 1..(ByteBits * m) : padded[k] = IF k <= Len(bits) THEN bits[k] ELSE 0
  BY <1>1, PaddedIs
<1>4. ASSUME NEW n \in 1..m, NEW j \in 0..(ByteBits - 1)
      PROVE  BitOf(array[n], j) = IF ByteBits * (n - 1) + j + 1 <= Len(bits)
                                  THEN bits[ByteBits * (n - 1) + j + 1] ELSE 0
  <2>1. n \in 1..((Len(bits) + ByteBits - 1) \div ByteBits)
    BY <1>1
  <2>2. QED
    BY <2>1, ParsedBytes
<1> HIDE DEF m, written, padded, array
<1>5. ASSUME NEW i \in 1..(ByteBits * m) PROVE written[i] = padded[i]
  <2> DEFINE k == i - 1
             q == k \div ByteBits
             r == k % ByteBits
  <2>1. k \in 0..(ByteBits * m - 1) /\ k + 1 = i /\ k \in Nat
    BY <1>1
  <2> HIDE DEF k
  <2>2. q \in 0..(m - 1) /\ r \in 0..(ByteBits - 1) /\ k = ByteBits * q + r
    BY <1>1, <2>1, Sizes, PositionsOf
  <2>3. written[k + 1] = BitOf(array[q + 1], r)
    BY <1>2, <2>1
  <2> HIDE DEF q, r
  <2>4. q + 1 \in 1..m /\ (q + 1) - 1 = q /\ ByteBits * q + r + 1 = i
    BY <1>1, <2>1, <2>2, Sizes
  <2>5. BitOf(array[q + 1], r) = IF ByteBits * ((q + 1) - 1) + r + 1 <= Len(bits)
                                 THEN bits[ByteBits * ((q + 1) - 1) + r + 1] ELSE 0
    BY <1>4, <2>2, <2>4
  <2>6. QED
    BY <1>3, <2>1, <2>3, <2>4, <2>5
<1>6. written = padded
  BY <1>1, <1>2, <1>3, <1>5
<1>7. QED
  BY <1>6 DEF written, padded, m, array

\* The array of a string of digits, and its digits.
LEMMA ArrayOfHex ==
  ASSUME NEW h \in Seq(Digit)
  PROVE  LET array == hexadecimalToUint8Array(h)
         IN /\ array \in Seq(Byte) /\ Len(array) = Len(h) \div 2
            /\ \A n \in 1..Len(array) : array[n] = Digits * h[2 * n - 1] + h[2 * n]
<1> DEFINE array == hexadecimalToUint8Array(h)
           m == Len(h) \div 2
<1>1. m \in Nat /\ 2 * m <= Len(h)
  OBVIOUS
<1>2. array = [n \in 1..m |-> Digits * h[2 * n - 1] + h[2 * n]]
  BY DEF hexadecimalToUint8Array
<1> HIDE DEF array, m
<1>3. ASSUME NEW n \in 1..m PROVE Digits * h[2 * n - 1] + h[2 * n] \in Byte
  <2>1. 2 * n - 1 \in 1..Len(h) /\ 2 * n \in 1..Len(h)
    BY <1>1
  <2> DEFINE u == h[2 * n - 1]
             v == h[2 * n]
  <2>2. u \in Digit /\ v \in Digit
    BY <2>1
  <2> HIDE DEF u, v
  <2>3. Digits \in Nat /\ Byte = 0..(Digits * Digits - 1)
    BY DigitSizes, Sizes
  <2>4. Digits * u <= Digits * (Digits - 1)
    BY <2>2, <2>3, Multiplied DEF Digit
  <2>5. Digits * u \in Nat /\ Digits * (Digits - 1) = Digits * Digits - Digits
    BY <2>2, <2>3 DEF Digit
  <2>6. Digits * u + v \in 0..(Digits * Digits - 1)
    BY <2>2, <2>3, <2>4, <2>5 DEF Digit
  <2>7. QED
    BY <2>3, <2>6 DEF u, v
<1>4. array \in Seq(Byte) /\ Len(array) = m
  BY <1>1, <1>2, <1>3, ArrayIsSeq
<1>5. QED
  BY <1>2, <1>4 DEF array, m

\* Its digits are read again, but for an odd one at the end.
LEMMA HexAgain ==
  ASSUME NEW h \in Seq(Digit)
  PROVE  uint8ArrayToHexadecimal(hexadecimalToUint8Array(h)) =
           SubSeq(h, 1, 2 * (Len(h) \div 2))
<1> DEFINE array == hexadecimalToUint8Array(h)
           m == Len(h) \div 2
           hex == uint8ArrayToHexadecimal(array)
<1>1. m \in Nat /\ 2 * m <= Len(h)
  OBVIOUS
<1>2. /\ array \in Seq(Byte) /\ Len(array) = m
      /\ \A n \in 1..m : array[n] = Digits * h[2 * n - 1] + h[2 * n]
  BY ArrayOfHex
<1>3. /\ hex \in Seq(Digit) /\ Len(hex) = 2 * m
      /\ \A n \in 1..m :
           hex[2 * n - 1] = array[n] \div Digits /\ hex[2 * n] = array[n] % Digits
  BY <1>2, HexIs
<1> HIDE DEF array, m, hex
<1>4. ASSUME NEW n \in 1..m PROVE hex[2 * n - 1] = h[2 * n - 1] /\ hex[2 * n] = h[2 * n]
  <2> DEFINE u == h[2 * n - 1]
             v == h[2 * n]
  <2>1. 2 * n - 1 \in 1..Len(h) /\ 2 * n \in 1..Len(h)
    BY <1>1
  <2>2. u \in Digit /\ v \in Digit
    BY <2>1
  <2>3. array[n] = Digits * u + v /\ array[n] \in Int
    BY <1>2, Sizes
  <2> HIDE DEF u, v
  <2>4. array[n] \div Digits = u /\ array[n] % Digits = v
    <3>1. u \in Int /\ v \in 0..(Digits - 1) /\ Digits \in Nat /\ Digits > 0
      BY <2>2, DigitSizes DEF Digit
    <3>2. QED
      BY <2>3, <3>1, Quotient
  <2>5. QED
    BY <1>3, <2>4 DEF u, v
<1>5. ASSUME NEW k \in 1..(2 * m) PROVE hex[k] = h[k]
  <2> DEFINE n == (k + 1) \div 2
  <2>1. n \in 1..m /\ (k = 2 * n - 1 \/ k = 2 * n)
    BY <1>1
  <2> HIDE DEF n
  <2>2. QED
    BY <1>4, <2>1
<1>6. /\ SubSeq(h, 1, 2 * m) \in Seq(Digit) /\ Len(SubSeq(h, 1, 2 * m)) = 2 * m
      /\ \A k \in 1..(2 * m) : SubSeq(h, 1, 2 * m)[k] = h[k]
  BY <1>1
<1>7. hex = SubSeq(h, 1, 2 * m)
  BY <1>1, <1>3, <1>5, <1>6
<1>8. QED
  BY <1>7 DEF hex, m, array

\* What the two converters of hexadecimal strings accept.
LEMMA Accepted ==
  ASSUME NEW h \in Seq(Digit), HashBytes > 0
  PROVE  /\ AcceptsForBytes(h) <=> Len(h) > 0
         /\ AcceptsForBits(h) <=> Len(h) > 0 /\ Len(h) % 2 = 0
         /\ ~AcceptsForBytes(h \o <<Dash>>) /\ ~AcceptsForBits(h \o <<Dash, 0>>)
<1>1. Len(h) \in Nat /\ HashBytes \in Nat /\ \A i \in DOMAIN h : h[i] \in Digit
  BY ByteAssumption
<1>2. AcceptsForBytes(h) <=> Len(h) > 0
  BY <1>1 DEF AcceptsForBytes, validateHexadecimal, Digit
<1>3. AcceptsForBits(h) <=> Len(h) > 0 /\ Len(h) % 2 = 0
  <2>1. AcceptsForBits(h) <=> Len(h) = IF 2 * ((Len(h) + 1) \div 2) = 0 THEN 2 * HashBytes
                                       ELSE 2 * ((Len(h) + 1) \div 2)
    BY <1>1 DEF AcceptsForBits, validateHexadecimal, Digit
  <2>2. QED
    BY <1>1, <2>1
<1>4. Dash \notin Digit
  BY DigitSizes DEF Dash, Digit
<1>5. ASSUME NEW tail \in Seq(Int), Len(tail) > 0, tail[1] = Dash, NEW d
      PROVE  ~validateHexadecimal(h \o tail, d)
  <2>1. h \in Seq(Int)
    BY DigitSizes DEF Digit
  <2>2. Len(h) + 1 \in DOMAIN (h \o tail) /\ (h \o tail)[Len(h) + 1] = Dash
    BY <1>1, <1>5, <2>1
  <2>3. QED
    BY <1>4, <2>2 DEF validateHexadecimal, Digit
<1>6. /\ <<Dash>> \in Seq(Int) /\ Len(<<Dash>>) > 0 /\ <<Dash>>[1] = Dash
      /\ <<Dash, 0>> \in Seq(Int) /\ Len(<<Dash, 0>>) > 0 /\ <<Dash, 0>>[1] = Dash
  BY DEF Dash
<1>7. ~AcceptsForBytes(h \o <<Dash>>) /\ ~AcceptsForBits(h \o <<Dash, 0>>)
  BY <1>5, <1>6, Zenon DEF AcceptsForBytes, AcceptsForBits
<1>8. QED
  BY <1>2, <1>3, <1>7

\* Theorem: the converters agree on the bytes of any binary string, take back the
\* digits they wrote, and accept what they should: no empty string, no odd digit
\* where bits are wanted, no dash.
THEOREM ConvertersMatch == Spec => []ConvertersAgree
<1>1. PathInv => ConvertersAgree
  <2> DEFINE bits == Bits(this)
             array == binaryStringToUint8Array(bits)
             hex == binaryStringToHexadecimal(bits)
  <2>1. SUFFICES ASSUME PathInv
                 PROVE  /\ uint8ArrayToBinaryString(array) = hexadecimalToBinaryString(hex)
                        /\ uint8ArrayToBinaryString(array) =
                             padWithZeros(bits, ByteBits * Len(array))
                        /\ \A n \in 0..Len(hex) :
                             LET h == SubSeq(hex, 1, n)
                             IN /\ AcceptsForBytes(h) <=> n > 0
                                /\ AcceptsForBits(h) <=> n > 0 /\ n % 2 = 0
                                /\ uint8ArrayToHexadecimal(hexadecimalToUint8Array(h)) =
                                     SubSeq(h, 1, 2 * (n \div 2))
                                /\ ~AcceptsForBytes(h \o <<Dash>>)
                                /\ ~AcceptsForBits(h \o <<Dash, 0>>)
    BY DEF ConvertersAgree
  <2>2. bits \in Seq({0, 1}) /\ this.bitLength \in 1..Width
    BY <2>1, ConstructedIs DEF PathInv
  <2>3. HashBytes > 0
    BY <2>2, Sizes DEF KeyLength
  <2>4. array \in Seq(Byte) /\ hex = uint8ArrayToHexadecimal(array)
    BY <2>2, ArrayOfBits DEF binaryStringToHexadecimal
  <2>5. uint8ArrayToBinaryString(array) = hexadecimalToBinaryString(hex)
    BY <2>4, HexToBits
  <2>6. uint8ArrayToBinaryString(array) = padWithZeros(bits, ByteBits * Len(array))
    BY <2>2, BitsOfArray
  <2>7. hex \in Seq(Digit)
    BY <2>4, HexIs
  <2> HIDE DEF bits, array, hex
  <2>8. ASSUME NEW n \in 0..Len(hex)
        PROVE  LET h == SubSeq(hex, 1, n)
               IN /\ AcceptsForBytes(h) <=> n > 0
                  /\ AcceptsForBits(h) <=> n > 0 /\ n % 2 = 0
                  /\ uint8ArrayToHexadecimal(hexadecimalToUint8Array(h)) =
                       SubSeq(h, 1, 2 * (n \div 2))
                  /\ ~AcceptsForBytes(h \o <<Dash>>) /\ ~AcceptsForBits(h \o <<Dash, 0>>)
    <3> DEFINE h == SubSeq(hex, 1, n)
    <3>1. h \in Seq(Digit) /\ Len(h) = n
      BY <2>7
    <3> HIDE DEF h
    <3>2. QED
      BY <2>3, <3>1, HexAgain, Accepted DEF h
  <2>9. QED
    BY <2>5, <2>6, <2>8
<1>2. QED
  BY <1>1, PathInvHolds, PTL

-----------------------------------------------------------------------------
(* The types of keys.                                                     *)

\* A string loses its dashes character by character.
LEMMA UndashedIs ==
  ASSUME NEW str \in Seq(Int), NEW g, g = [n \in 0..Len(str) |-> g[n]], g[0] = <<>>,
         \A n \in 1..Len(str) :
           g[n] = IF str[n] = Dash THEN g[n - 1] ELSE Append(g[n - 1], str[n])
  PROVE  Undashed(str) = g[Len(str)]
<1> DEFINE Kept(f) == [n \in 0..Len(str) |->
             IF n = 0 THEN <<>>
             ELSE IF str[n] = Dash THEN f[n - 1] ELSE Append(f[n - 1], str[n])]
           kept == CHOOSE f : f = Kept(f)
           S == {n \in Nat : kept[n] = g[n]}
<1>1. Undashed(str) = kept[Len(str)]
  BY DEF Undashed
<1>2. g = Kept(g)
  <2>1. \A n \in 0..Len(str) : g[n] = Kept(g)[n]
    <3>1. ASSUME NEW n \in 0..Len(str) PROVE g[n] = Kept(g)[n]
      <4>1. CASE n = 0
        BY <4>1
      <4>2. CASE n # 0
        <5>1. n \in 1..Len(str)
          BY <4>2
        <5>2. QED
          BY <4>2, <5>1
      <4>3. QED
        BY <4>1, <4>2
    <3>2. QED
      BY <3>1
  <2>2. Kept(g) = [n \in 0..Len(str) |-> Kept(g)[n]]
    OBVIOUS
  <2> HIDE DEF Kept
  <2>3. QED
    BY <2>1, <2>2
<1>3. kept = Kept(kept)
  <2> HIDE DEF Kept
  <2>1. QED
    BY <1>2
<1> HIDE DEF kept
<1>4. 0 \in S
  <2>1. 0 \in 0..Len(str)
    OBVIOUS
  <2>2. kept[0] = <<>>
    BY <1>3, <2>1
  <2>3. QED
    BY <2>2
<1>5. ASSUME NEW n \in 0..(Len(str) - 1), n \in S PROVE n + 1 \in S
  <2>1. n + 1 \in 0..Len(str) /\ n + 1 \in 1..Len(str) /\ (n + 1) - 1 = n /\ n + 1 # 0
    OBVIOUS
  <2>2. kept[n + 1] = IF str[n + 1] = Dash THEN kept[(n + 1) - 1]
                      ELSE Append(kept[(n + 1) - 1], str[n + 1])
    BY <1>3, <2>1
  <2>3. g[n + 1] = IF str[n + 1] = Dash THEN g[(n + 1) - 1]
                   ELSE Append(g[(n + 1) - 1], str[n + 1])
    BY <2>1
  <2>4. QED
    BY <1>5, <2>1, <2>2, <2>3
<1>6. \A n \in 0..Len(str) : n \in S
  <2> HIDE DEF S
  <2>1. Len(str) \in Nat
    OBVIOUS
  <2>2. QED
    BY <1>4, <1>5, <2>1, Counting
<1>7. QED
  BY <1>1, <1>6

\* A string up to an item is the string before it and the item.
LEMMA UpTo ==
  ASSUME NEW s \in Seq(Int), NEW n \in 1..Len(s)
  PROVE  /\ Append(SubSeq(s, 1, n - 1), s[n]) = SubSeq(s, 1, n)
         /\ SubSeq(s, 1, 0) = <<>> /\ SubSeq(s, 1, Len(s)) = s
OBVIOUS

\* Two sequences of integers one after the other.
LEMMA Glued ==
  ASSUME NEW u \in Seq(Int), NEW v \in Seq(Int)
  PROVE  /\ u \o v \in Seq(Int) /\ Len(u \o v) = Len(u) + Len(v) /\ Len(u) \in Nat
         /\ \A i \in 1..Len(u) : (u \o v)[i] = u[i]
         /\ \A i \in 1..Len(v) : (u \o v)[Len(u) + i] = v[i]
OBVIOUS

\* An item between two sequences.
LEMMA Inserted ==
  ASSUME NEW u \in Seq(Int), NEW w \in Seq(Int), NEW d \in Int
  PROVE  /\ u \o <<d>> \o w \in Seq(Int)
         /\ Len(u \o <<d>> \o w) = Len(u) + 1 + Len(w)
         /\ \A i \in 1..Len(u) : (u \o <<d>> \o w)[i] = u[i]
         /\ (u \o <<d>> \o w)[Len(u) + 1] = d
         /\ \A i \in 1..Len(w) : (u \o <<d>> \o w)[Len(u) + 1 + i] = w[i]
<1> DEFINE v == u \o <<d>>
<1>1. /\ v \in Seq(Int) /\ Len(v) = Len(u) + 1 /\ v[Len(u) + 1] = d
      /\ \A i \in 1..Len(u) : v[i] = u[i]
  OBVIOUS
<1> HIDE DEF v
<1>2. /\ v \o w \in Seq(Int) /\ Len(v \o w) = Len(v) + Len(w)
      /\ \A i \in 1..Len(v) : (v \o w)[i] = v[i]
      /\ \A i \in 1..Len(w) : (v \o w)[Len(v) + i] = w[i]
  BY <1>1, Glued, Zenon
<1>3. /\ \A i \in 1..Len(u) : i \in 1..Len(v)
      /\ Len(u) + 1 \in 1..Len(v) /\ Len(u) \in Nat
  BY <1>1
<1>4. QED
  BY <1>1, <1>2, <1>3 DEF v

\* Of digits with one dash among them, the digits stay.
LEMMA OneDash ==
  ASSUME NEW s \in Seq(Digit), NEW n \in 0..Len(s)
  PROVE  /\ Undashed(s) = s
         /\ Undashed(SubSeq(s, 1, n) \o <<Dash>> \o SubSeq(s, n + 1, Len(s))) = s
<1> DEFINE dashed == SubSeq(s, 1, n) \o <<Dash>> \o SubSeq(s, n + 1, Len(s))
           g == [i \in 0..Len(s) |-> SubSeq(s, 1, i)]
           f == [i \in 0..(Len(s) + 1) |-> SubSeq(s, 1, IF i <= n THEN i ELSE i - 1)]
<1>1. s \in Seq(Int) /\ Dash \in Int /\ Len(s) \in Nat
  BY DigitSizes DEF Dash, Digit
<1>2. Dash \notin Digit /\ \A i \in 1..Len(s) : s[i] \in Digit
  <2>1. Dash \notin Digit
    BY DigitSizes DEF Dash, Digit
  <2>2. ASSUME NEW i \in 1..Len(s) PROVE s[i] \in Digit
    OBVIOUS
  <2>3. QED
    BY <2>1, <2>2
<1>3. SubSeq(s, 1, 0) = <<>> /\ SubSeq(s, 1, Len(s)) = s
  BY <1>1
<1>4. Undashed(s) = s
  <2>1. \A i \in 1..Len(s) : g[i] = Append(g[i - 1], s[i]) /\ s[i] # Dash
    <3>1. ASSUME NEW i \in 1..Len(s)
          PROVE  g[i] = Append(g[i - 1], s[i]) /\ s[i] # Dash
      <4>1. i \in 0..Len(s) /\ i - 1 \in 0..Len(s)
        OBVIOUS
      <4>2. g[i] = SubSeq(s, 1, i) /\ g[i - 1] = SubSeq(s, 1, i - 1)
        BY <4>1
      <4> HIDE DEF g
      <4>3. QED
        BY <1>1, <1>2, <4>2, UpTo
    <3>2. QED
      BY <3>1
  <2>2. g = [i \in 0..Len(s) |-> g[i]] /\ g[0] = <<>> /\ g[Len(s)] = s
    BY <1>1, <1>3
  <2> HIDE DEF g
  <2>3. Undashed(s) = g[Len(s)]
    BY <1>1, <2>1, <2>2, UndashedIs
  <2>4. QED
    BY <2>2, <2>3
<1>5. /\ dashed \in Seq(Int) /\ Len(dashed) = Len(s) + 1
      /\ \A i \in 1..n : dashed[i] = s[i]
      /\ dashed[n + 1] = Dash
      /\ \A i \in (n + 2)..(Len(s) + 1) : dashed[i] = s[i - 1]
  <2> DEFINE u == SubSeq(s, 1, n)
             w == SubSeq(s, n + 1, Len(s))
  <2>1. /\ u \in Seq(Int) /\ Len(u) = n /\ \A i \in 1..n : u[i] = s[i]
    BY <1>1
  <2>2. /\ w \in Seq(Int) /\ Len(w) = Len(s) - n
        /\ \A i \in 1..(Len(s) - n) : w[i] = s[n + i]
    BY <1>1
  <2> HIDE DEF u, w
  <2>3. dashed = u \o <<Dash>> \o w
    BY DEF u, w
  <2> HIDE DEF dashed
  <2>4. /\ dashed \in Seq(Int) /\ Len(dashed) = Len(u) + 1 + Len(w)
        /\ \A i \in 1..Len(u) : dashed[i] = u[i]
        /\ dashed[Len(u) + 1] = Dash
        /\ \A i \in 1..Len(w) : dashed[Len(u) + 1 + i] = w[i]
    <3>1. u \in Seq(Int) /\ w \in Seq(Int) /\ Dash \in Int
      BY <1>1, <2>1, <2>2
    <3>2. /\ u \o <<Dash>> \o w \in Seq(Int)
          /\ Len(u \o <<Dash>> \o w) = Len(u) + 1 + Len(w)
          /\ \A i \in 1..Len(u) : (u \o <<Dash>> \o w)[i] = u[i]
          /\ (u \o <<Dash>> \o w)[Len(u) + 1] = Dash
          /\ \A i \in 1..Len(w) : (u \o <<Dash>> \o w)[Len(u) + 1 + i] = w[i]
      BY <3>1, Inserted
    <3>3. QED
      BY <2>3, <3>2
  <2>5. ASSUME NEW i \in (n + 2)..(Len(s) + 1) PROVE dashed[i] = s[i - 1]
    <3>1. /\ i - n - 1 \in 1..(Len(s) - n) /\ n + 1 + (i - n - 1) = i
          /\ n + (i - n - 1) = i - 1
      BY <1>1
    <3>2. dashed[Len(u) + 1 + (i - n - 1)] = w[i - n - 1]
      BY <2>2, <2>4, <3>1
    <3>3. w[i - n - 1] = s[n + (i - n - 1)]
      BY <2>2, <3>1
    <3>4. QED
      BY <2>1, <3>1, <3>2, <3>3
  <2>6. Len(dashed) = Len(s) + 1
    <3>1. Len(dashed) = n + 1 + (Len(s) - n)
      BY <2>1, <2>2, <2>4
    <3>2. QED
      BY <1>1, <3>1
  <2>7. \A i \in 1..n : dashed[i] = s[i]
    BY <2>1, <2>4
  <2>8. QED
    BY <2>1, <2>4, <2>5, <2>6, <2>7
<1> HIDE DEF dashed
<1>6. ASSUME NEW i \in 1..Len(dashed)
      PROVE  f[i] = IF dashed[i] = Dash THEN f[i - 1] ELSE Append(f[i - 1], dashed[i])
  <2>1. i \in 0..(Len(s) + 1) /\ i - 1 \in 0..(Len(s) + 1) /\ i \in Nat
    BY <1>1, <1>5
  <2>2. /\ f[i] = SubSeq(s, 1, IF i <= n THEN i ELSE i - 1)
        /\ f[i - 1] = SubSeq(s, 1, IF i - 1 <= n THEN i - 1 ELSE (i - 1) - 1)
    BY <2>1
  <2> HIDE DEF f
  <2>3. CASE i <= n
    <3>1. i \in 1..Len(s) /\ i - 1 <= n
      BY <1>1, <2>3
    <3>2. dashed[i] = s[i] /\ s[i] # Dash
      BY <1>2, <1>5, <2>3, <3>1
    <3>3. QED
      BY <1>1, <2>2, <2>3, <3>1, <3>2, UpTo
  <2>4. CASE i = n + 1
    BY <1>5, <2>2, <2>4
  <2>5. CASE i > n + 1
    <3>1. i - 1 \in 1..Len(s) /\ i \in (n + 2)..(Len(s) + 1) /\ ~(i <= n) /\ ~(i - 1 <= n)
      BY <1>1, <1>5, <2>5
    <3>2. dashed[i] = s[i - 1] /\ s[i - 1] # Dash
      BY <1>2, <1>5, <3>1
    <3>3. f[i] = SubSeq(s, 1, i - 1) /\ f[i - 1] = SubSeq(s, 1, (i - 1) - 1)
      BY <2>2, <3>1
    <3>4. QED
      BY <1>1, <3>1, <3>2, <3>3, UpTo
  <2>6. QED
    BY <2>1, <2>3, <2>4, <2>5
<1>7. /\ f = [i \in 0..Len(dashed) |-> f[i]]
      /\ f[0] = SubSeq(s, 1, 0) /\ f[Len(dashed)] = SubSeq(s, 1, Len(s))
  BY <1>1, <1>5
<1> HIDE DEF f
<1>8. Undashed(dashed) = f[Len(dashed)]
  BY <1>3, <1>5, <1>6, <1>7, UndashedIs
<1>9. QED
  BY <1>3, <1>4, <1>7, <1>8 DEF dashed

\* The digits of an array are read as the array.
LEMMA ArrayAgain ==
  ASSUME NEW array \in Seq(Byte)
  PROVE  hexadecimalToUint8Array(uint8ArrayToHexadecimal(array)) = array
<1> DEFINE hex == uint8ArrayToHexadecimal(array)
           again == hexadecimalToUint8Array(hex)
           m == Len(array)
<1>1. /\ hex \in Seq(Digit) /\ Len(hex) = 2 * m
      /\ \A n \in 1..m :
           hex[2 * n - 1] = array[n] \div Digits /\ hex[2 * n] = array[n] % Digits
  BY HexIs
<1>2. m \in Nat /\ (2 * m) \div 2 = m /\ array = [n \in 1..m |-> array[n]]
  OBVIOUS
<1> HIDE DEF hex
<1>3. /\ again \in Seq(Byte) /\ Len(again) = Len(hex) \div 2
      /\ \A n \in 1..Len(again) : again[n] = Digits * hex[2 * n - 1] + hex[2 * n]
  BY <1>1, ArrayOfHex
<1> HIDE DEF again, m
<1>4. again = [n \in 1..m |-> again[n]] /\ Len(again) = m
  BY <1>1, <1>2, <1>3
<1>5. ASSUME NEW n \in 1..m PROVE again[n] = array[n]
  <2>1. array[n] \in Byte
    BY DEF m
  <2>2. array[n] = Digits * (array[n] \div Digits) + (array[n] % Digits)
    BY <2>1, TwoDigits
  <2>3. again[n] = Digits * hex[2 * n - 1] + hex[2 * n]
    BY <1>3, <1>4
  <2>4. QED
    BY <1>1, <2>2, <2>3
<1>6. QED
  BY <1>2, <1>4, <1>5 DEF again, hex

\* Bytes are natural numbers.
LEMMA BytesAreNumbers ==
  ASSUME NEW array \in Seq(Byte)
  PROVE  array \in Seq(Nat) /\ Len(array) \in Nat
<1>1. \A i \in 1..Len(array) : array[i] \in Byte
  OBVIOUS
<1>2. Len(array) \in Nat /\ array = [i \in 1..Len(array) |-> array[i]]
  OBVIOUS
<1>3. array \in [1..Len(array) -> Nat]
  BY <1>1, <1>2, Sizes
<1>4. QED
  BY <1>2, <1>3, ArrayIsSeq

\* Bytes written at the end of a buffer.
LEMMA WrittenAtEnd ==
  ASSUME NEW str \in Seq(Digit), NEW buffer \in Seq(Byte)
  PROVE  insertHexadecimalToByteArray(str, buffer, Len(buffer)) =
           buffer \o hexadecimalToUint8Array(str)
<1> DEFINE array == hexadecimalToUint8Array(str)
           from == Len(buffer)
           m == Len(array)
           written == insertHexadecimalToByteArray(str, buffer, from)
<1>1. array \in Seq(Byte)
  BY ArrayOfHex
<1>2. array \in Seq(Nat) /\ buffer \in Seq(Nat)
  BY <1>1, BytesAreNumbers
<1>3. from \in Nat /\ m \in Nat /\ DOMAIN array = 1..m
  BY <1>1
<1>4. Max({from, from + m}) = from + m
  <2> DEFINE D == {from, from + m}
  <2>1. from + m \in D /\ \A y \in D : from + m >= y
    BY <1>3
  <2>2. \A x \in D : (\A y \in D : x >= y) => x = from + m
    BY <1>3
  <2> HIDE DEF D
  <2>3. Max(D) = from + m
    BY <2>1, <2>2 DEF Max
  <2>4. QED
    BY <2>3 DEF D
<1>5. written = [i \in 1..(from + m) |->
                   IF i - from \in 1..m THEN array[i - from] ELSE buffer[i]]
  BY <1>3, <1>4 DEF insertHexadecimalToByteArray
<1>6. /\ buffer \o array \in Seq(Nat) /\ Len(buffer \o array) = from + m
      /\ \A i \in 1..from : (buffer \o array)[i] = buffer[i]
      /\ \A i \in 1..m : (buffer \o array)[from + i] = array[i]
  BY <1>2, Joined, Zenon
<1> HIDE DEF array, from, m, written
<1>7. ASSUME NEW i \in 1..(from + m) PROVE written[i] = (buffer \o array)[i]
  <2>1. CASE i <= from
    <3>1. i \in 1..from /\ ~(i - from \in 1..m)
      BY <1>3, <2>1
    <3>2. QED
      BY <1>5, <1>6, <3>1
  <2>2. CASE i > from
    <3>1. i - from \in 1..m /\ from + (i - from) = i
      BY <1>3, <2>2
    <3>2. (buffer \o array)[from + (i - from)] = array[i - from]
      BY <1>6, <3>1
    <3>3. QED
      BY <1>5, <3>1, <3>2
  <2>3. i <= from \/ i > from
    BY <1>3
  <2>4. QED
    BY <2>1, <2>2, <2>3, Zenon
<1>8. written = [i \in 1..(from + m) |-> written[i]]
  BY <1>5
<1>9. buffer \o array = [i \in 1..(from + m) |-> (buffer \o array)[i]]
  <2> DEFINE both == buffer \o array
  <2>1. both \in Seq(Nat) /\ Len(both) = from + m
    BY <1>6
  <2> HIDE DEF both
  <2>2. both = [i \in 1..(from + m) |-> both[i]]
    BY <2>1
  <2>3. QED
    BY <2>2 DEF both
<1>10. written = buffer \o array
  BY <1>7, <1>8, <1>9
<1>11. QED
  BY <1>10 DEF written, array, from

\* What the types accept of strings of digits: their size, which is never 0.
LEMMA TypeAccepts ==
  ASSUME NEW t \in {"Uuid", "Hash", "PublicKey", "Digest"}, NEW s \in Seq(Digit),
         HashBytes > 0
  PROVE  AcceptsForType(t, s) <=> Len(s) = 2 * SizeOf(t)
<1>1. HashBytes \in Nat /\ HashBytes >= 2 /\ HashBytes \div 2 >= 1 /\ HashBytes \div 2 \in Nat
  BY ByteAssumption
<1>2. SizeOf(t) \in Nat /\ SizeOf(t) >= 1
  BY <1>1 DEF SizeOf
<1>3. Undashed(s) = s
  BY OneDash
<1>4. Cleaned(t, s) = s
  BY <1>3 DEF Cleaned
<1>5. \A i \in DOMAIN s : s[i] \in Digit
  OBVIOUS
<1>6. AcceptsForType(t, s) <=> validateHexadecimal(s, 2 * SizeOf(t))
  BY <1>4 DEF AcceptsForType
<1>7. 2 * SizeOf(t) # 0
  BY <1>2
<1>8. validateHexadecimal(s, 2 * SizeOf(t)) <=> Len(s) = 2 * SizeOf(t)
  BY <1>5, <1>7 DEF validateHexadecimal, Digit
<1>9. QED
  BY <1>6, <1>8

\* The half of the digits stands for the first bytes.
LEMMA HalfOfHex ==
  ASSUME NEW hex \in Seq(Digit), NEW m \in Nat, 2 * m <= Len(hex)
  PROVE  hexadecimalToUint8Array(SubSeq(hex, 1, 2 * m)) =
           SubSeq(hexadecimalToUint8Array(hex), 1, m)
<1> DEFINE half == SubSeq(hex, 1, 2 * m)
           array == hexadecimalToUint8Array(hex)
           first == hexadecimalToUint8Array(half)
           digits(n) == Digits * hex[2 * n - 1] + hex[2 * n]
<1>1. /\ half \in Seq(Digit) /\ Len(half) = 2 * m
      /\ \A i \in 1..(2 * m) : half[i] = hex[i]
  OBVIOUS
<1>2. /\ array \in Seq(Byte) /\ Len(array) = Len(hex) \div 2
      /\ \A n \in 1..Len(array) : array[n] = digits(n)
  BY ArrayOfHex
<1> HIDE DEF half, array
<1>3. /\ first \in Seq(Byte) /\ Len(first) = Len(half) \div 2
      /\ \A n \in 1..Len(first) : first[n] = Digits * half[2 * n - 1] + half[2 * n]
  BY <1>1, ArrayOfHex
<1> HIDE DEF first
<1>4. Len(first) = m /\ m <= Len(array) /\ Len(array) \in Nat
  BY <1>1, <1>2, <1>3
<1>5. ASSUME NEW n \in 1..m PROVE first[n] = array[n]
  <2>1. 2 * n - 1 \in 1..(2 * m) /\ 2 * n \in 1..(2 * m) /\ n \in 1..Len(array)
    BY <1>4
  <2>2. half[2 * n - 1] = hex[2 * n - 1] /\ half[2 * n] = hex[2 * n]
    BY <1>1, <2>1
  <2>3. QED
    BY <1>2, <1>3, <1>4, <2>1, <2>2
<1>6. first = [n \in 1..m |-> first[n]]
  BY <1>3, <1>4
<1>7. SubSeq(array, 1, m) = [n \in 1..m |-> array[n]]
  BY <1>2, <1>4
<1>8. QED
  BY <1>5, <1>6, <1>7 DEF first, half, array

\* A path is what its bytes are.
LEMMA PathOfBytes ==
  ASSUME NEW p \in Constructed
  PROVE  FromBytes(hexadecimalToUint8Array(hexKey(p)), p.bitLength) = p
<1>1. /\ p.key \in Key
      /\ p = FromString(Bits(p)) /\ Bits(p) \in Seq({0, 1})
      /\ Len(Bits(p)) = p.bitLength /\ p.bitLength <= Width
  BY ConstructedIs, Sizes
<1>2. FromString(Bits(p)) = [key |-> FromString(Bits(p)).key, bitLength |-> Len(Bits(p))]
  BY <1>1, FromStringIs
<1>3. p = [key |-> p.key, bitLength |-> p.bitLength]
  BY <1>1, <1>2
<1>4. hexKey(p) = uint8ArrayToHexadecimal(KeyArray(p))
  BY DEF hexKey, KeyArray
<1>5. hexadecimalToUint8Array(hexKey(p)) = KeyArray(p)
  BY <1>1, <1>4, KeyArrayIs, ArrayAgain
<1>6. p.key = [n \in 0..(KeyLength - 1) |-> p.key[n]]
  BY <1>1 DEF Key
<1>7. [n \in 0..(KeyLength - 1) |-> KeyArray(p)[n + 1]] = p.key
  BY <1>1, <1>6, KeyArrayIs
<1>8. QED
  BY <1>3, <1>5, <1>7 DEF FromBytes

\* A dash anywhere among the digits of a Uuid changes nothing; no other type
\* takes it.
LEMMA DashedUuid ==
  ASSUME NEW hex \in Seq(Digit), Len(hex) = 2 * KeyLength, NEW n \in 0..KeyLength,
         HashBytes > 0
  PROVE  LET half == SubSeq(hex, 1, KeyLength)
             array == hexadecimalToUint8Array(hex)
             dashed == SubSeq(half, 1, n) \o <<Dash>> \o SubSeq(half, n + 1, KeyLength)
         IN /\ AcceptsForType("Uuid", dashed) /\ ~AcceptsForType("PublicKey", hex \o dashed)
            /\ serializeHex("Uuid", dashed, <<>>, 0) = SubSeq(array, 1, KeyLength \div 2)
<1> DEFINE half == SubSeq(hex, 1, KeyLength)
           array == hexadecimalToUint8Array(hex)
           dashed == SubSeq(half, 1, n) \o <<Dash>> \o SubSeq(half, n + 1, KeyLength)
           m == KeyLength \div 2
<1>1. /\ KeyLength \in Nat /\ m \in Nat /\ KeyLength = 2 * m /\ KeyLength > 0
      /\ KeyLength = HashBytes
  BY ByteAssumption DEF KeyLength
<1>2. half \in Seq(Digit) /\ Len(half) = KeyLength
  BY <1>1
<1>3. Undashed(dashed) = half /\ Undashed(half) = half
  <2> HIDE DEF half
  <2>1. n \in 0..Len(half)
    BY <1>2
  <2>2. Undashed(SubSeq(half, 1, n) \o <<Dash>> \o SubSeq(half, n + 1, Len(half))) = half
    BY <1>2, <2>1, OneDash
  <2>3. QED
    BY <1>2, <2>1, <2>2, OneDash
<1>4. AcceptsForType("Uuid", dashed)
  <2> HIDE DEF half, dashed
  <2>1. AcceptsForType("Uuid", half)
    <3>1. SizeOf("Uuid") = m
      BY <1>1 DEF SizeOf
    <3>2. QED
      BY <1>1, <1>2, <3>1, TypeAccepts
  <2>2. Cleaned("Uuid", dashed) = Cleaned("Uuid", half)
    BY <1>3 DEF Cleaned
  <2>3. QED
    BY <2>1, <2>2 DEF AcceptsForType
<1>5. ~AcceptsForType("PublicKey", hex \o dashed)
  <2> DEFINE u == SubSeq(half, 1, n)
             w == SubSeq(half, n + 1, KeyLength)
  <2>1. half \in Seq(Int) /\ hex \in Seq(Int) /\ Dash \in Int /\ Dash \notin Digit
    <3>1. Digit \subseteq Int /\ Dash \in Int /\ Dash \notin Digit
      BY DigitSizes DEF Digit, Dash
    <3> HIDE DEF half
    <3>2. \A s \in Seq(Digit) : s \in Seq(Int)
      BY DigitSizes DEF Digit
    <3>3. QED
      BY <1>2, <3>1, <3>2
  <2>2. u \in Seq(Int) /\ w \in Seq(Int) /\ Len(u) = n
    <3> HIDE DEF half
    <3>1. QED
      BY <1>1, <1>2, <2>1
  <2> HIDE DEF half, u, w
  <2>3. dashed = u \o <<Dash>> \o w
    BY DEF u, w
  <2>4. /\ u \o <<Dash>> \o w \in Seq(Int)
        /\ Len(u \o <<Dash>> \o w) = Len(u) + 1 + Len(w)
        /\ (u \o <<Dash>> \o w)[Len(u) + 1] = Dash
    BY <2>1, <2>2, Inserted
  <2> HIDE DEF dashed
  <2>5. /\ dashed \in Seq(Int) /\ Len(dashed) \in Nat
        /\ n + 1 \in 1..Len(dashed) /\ dashed[n + 1] = Dash
    <3>1. dashed \in Seq(Int) /\ Len(dashed) = Len(u) + 1 + Len(w)
      BY <2>3, <2>4
    <3>2. dashed[Len(u) + 1] = Dash
      BY <2>3, <2>4
    <3>3. Len(w) \in Nat /\ n \in Nat
      BY <1>1, <2>2
    <3>4. QED
      BY <2>2, <3>1, <3>2, <3>3
  <2>6. /\ Len(hex \o dashed) = Len(hex) + Len(dashed)
        /\ (hex \o dashed)[Len(hex) + (n + 1)] = dashed[n + 1]
        /\ hex \o dashed \in Seq(Int) /\ Len(hex) \in Nat
    BY <2>1, <2>5, Glued
  <2>7. Len(hex) + (n + 1) \in DOMAIN (hex \o dashed)
    <3> DEFINE both == hex \o dashed
    <3>1. both \in Seq(Int) /\ Len(both) = Len(hex) + Len(dashed)
      BY <2>6
    <3> HIDE DEF both
    <3>2. DOMAIN both = 1..(Len(hex) + Len(dashed))
      BY <3>1
    <3>3. Len(hex) \in Nat /\ Len(hex) + (n + 1) \in 1..(Len(hex) + Len(dashed))
      BY <1>1, <2>5
    <3>4. QED
      BY <3>2, <3>3 DEF both
  <2>8. ~validateHexadecimal(hex \o dashed, 2 * SizeOf("PublicKey"))
    BY <2>1, <2>5, <2>6, <2>7 DEF validateHexadecimal, Digit
  <2>9. Cleaned("PublicKey", hex \o dashed) = hex \o dashed
    BY DEF Cleaned
  <2>10. QED
    BY <2>8, <2>9 DEF AcceptsForType
<1>6. serializeHex("Uuid", dashed, <<>>, 0) = SubSeq(array, 1, m)
  <2> HIDE DEF dashed
  <2>1. hexadecimalToUint8Array(half) = SubSeq(array, 1, m)
    <3> HIDE DEF m
    <3>1. m \in Nat /\ 2 * m <= Len(hex)
      BY <1>1
    <3>2. hexadecimalToUint8Array(SubSeq(hex, 1, 2 * m)) = SubSeq(array, 1, m)
      BY <3>1, HalfOfHex
    <3>3. QED
      BY <1>1, <3>2
  <2> HIDE DEF half, array
  <2>2. serializeHex("Uuid", dashed, <<>>, 0) = insertHexadecimalToByteArray(half, <<>>, 0)
    BY <1>3 DEF serializeHex, Cleaned
  <2>3. <<>> \in Seq(Byte) /\ Len(<<>>) = 0
    OBVIOUS
  <2>4. insertHexadecimalToByteArray(half, <<>>, 0) = <<>> \o hexadecimalToUint8Array(half)
    BY <1>2, <2>3, WrittenAtEnd
  <2>5. hexadecimalToUint8Array(half) \in Seq(Byte)
    BY <1>2, ArrayOfHex
  <2>6. <<>> \o hexadecimalToUint8Array(half) = hexadecimalToUint8Array(half)
    BY <2>5
  <2>7. QED
    BY <2>1, <2>2, <2>4, <2>6
<1>7. QED
  BY <1>4, <1>5, <1>6 DEF dashed, half, array, m

\* Theorem: a key has one path, whether it comes as bytes or as digits, and the
\* types of the keys accept exactly their sizes, a Uuid with dashes, and write at
\* their place in the buffer.
THEOREM KeysAreTyped == Spec => []KeyTypesAgree
<1>1. PathInv => KeyTypesAgree
  <2> DEFINE hex == hexKey(this)
             half == SubSeq(hex, 1, KeyLength)
             array == hexadecimalToUint8Array(hex)
             dashed(n) ==
               SubSeq(half, 1, n) \o <<Dash>> \o SubSeq(half, n + 1, KeyLength)
  <2>1. SUFFICES
          ASSUME PathInv
          PROVE  /\ FromBytes(array, this.bitLength) = this
                 /\ serializeHex("Hash", hex, <<>>, 0) = array
                 /\ \A n \in 0..Len(array) :
                      serializeHex("Digest", hex, SubSeq(array, 1, n), n) =
                        SubSeq(array, 1, n) \o array
                 /\ \A n \in 0..KeyLength :
                      /\ AcceptsForType("Uuid", dashed(n))
                      /\ ~AcceptsForType("PublicKey", hex \o dashed(n))
                      /\ serializeHex("Uuid", dashed(n), <<>>, 0) =
                           SubSeq(array, 1, KeyLength \div 2)
                 /\ \A t \in {"Uuid", "Hash", "PublicKey", "Digest"} :
                      \A s \in {half, hex, hex \o hex, <<>>} :
                        AcceptsForType(t, s) <=> Len(s) = 2 * SizeOf(t)
    BY DEF KeyTypesAgree
  <2>2. this \in Constructed /\ this.key \in Key /\ this.bitLength \in 1..Width
    BY <2>1, ConstructedIs DEF PathInv
  <2>3. HashBytes > 0 /\ KeyLength \in Nat
    BY <2>2, Sizes DEF KeyLength
  <2>4. hex \in Seq(Digit) /\ Len(hex) = 2 * KeyLength
    <3>1. hex = uint8ArrayToHexadecimal(KeyArray(this))
      BY DEF hexKey, KeyArray
    <3>2. QED
      BY <2>2, <3>1, KeyArrayIs, HexIs
  <2>5. FromBytes(array, this.bitLength) = this
    BY <2>2, PathOfBytes
  <2> HIDE DEF hex
  <2>6. array \in Seq(Byte)
    BY <2>4, ArrayOfHex
  <2>7. ASSUME NEW buffer \in Seq(Byte), NEW type \in {"Hash", "Digest"}
        PROVE  serializeHex(type, hex, buffer, Len(buffer)) = buffer \o array
    <3>1. serializeHex(type, hex, buffer, Len(buffer)) =
            insertHexadecimalToByteArray(hex, buffer, Len(buffer))
      BY DEF serializeHex, Cleaned
    <3>2. QED
      BY <2>4, <3>1, WrittenAtEnd
  <2> HIDE DEF array
  <2>8. serializeHex("Hash", hex, <<>>, 0) = array
    <3>1. <<>> \in Seq(Byte) /\ Len(<<>>) = 0 /\ <<>> \o array = array
      BY <2>6
    <3>2. serializeHex("Hash", hex, <<>>, Len(<<>>)) = <<>> \o array
      BY <2>7, <3>1
    <3>3. QED
      BY <3>1, <3>2
  <2>9. ASSUME NEW n \in 0..Len(array)
        PROVE  serializeHex("Digest", hex, SubSeq(array, 1, n), n) =
                 SubSeq(array, 1, n) \o array
    <3> DEFINE buffer == SubSeq(array, 1, n)
    <3>1. buffer \in Seq(Byte) /\ Len(buffer) = n
      BY <2>6
    <3> HIDE DEF buffer
    <3>2. serializeHex("Digest", hex, buffer, Len(buffer)) = buffer \o array
      BY <2>7, <3>1
    <3>3. QED
      BY <3>1, <3>2 DEF buffer
  <2>10. ASSUME NEW n \in 0..KeyLength
         PROVE  /\ AcceptsForType("Uuid", dashed(n))
                /\ ~AcceptsForType("PublicKey", hex \o dashed(n))
                /\ serializeHex("Uuid", dashed(n), <<>>, 0) =
                     SubSeq(array, 1, KeyLength \div 2)
    BY <2>3, <2>4, DashedUuid DEF array
  <2>11. ASSUME NEW t \in {"Uuid", "Hash", "PublicKey", "Digest"},
                NEW s \in {half, hex, hex \o hex, <<>>}
         PROVE  AcceptsForType(t, s) <=> Len(s) = 2 * SizeOf(t)
    <3>1. half \in Seq(Digit) /\ hex \o hex \in Seq(Digit) /\ <<>> \in Seq(Digit)
      BY <2>3, <2>4
    <3> HIDE DEF half
    <3>2. s \in Seq(Digit)
      BY <2>4, <3>1
    <3>3. QED
      BY <2>3, <3>2, TypeAccepts
  <2> HIDE DEF half, dashed
  <2>12. QED
    BY <2>5, <2>8, <2>9, <2>10, <2>11
<1>2. QED
  BY <1>1, PathInvHolds, PTL
=============================================================================
