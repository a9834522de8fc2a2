--------------------------- MODULE MapProofProofs ---------------------------
(***************************************************************************)
(* Proofs about MapProof, for keys of any length, any number of them and   *)
(* documents of any size.                                                  *)
(*                                                                         *)
(* All of the order of paths comes down to one relation, Left: two paths   *)
(* part at a bit that is 0 in the one and 1 in the other.  The checks of   *)
(* neighbours make any two nodes Left one way or the other; collect keeps  *)
(* the contour Left of all that is to come, with neighbours that part ever *)
(* further below.                                                          *)
(***************************************************************************)
EXTENDS MapProof, NaturalsInduction, WellFoundedInduction, TLAPS

-----------------------------------------------------------------------------
(* Paths.                                                                  *)

\* A set of numbers that is not empty has a least one.
LEMMA LeastNumber ==
  ASSUME NEW S \in SUBSET Nat, S # {}
  PROVE  \E m \in S : \A k \in S : m <= k
<1>1. IsWellFoundedOn(OpToRel(<, Nat), Nat)
  BY NatLessThanWellFounded
<1>2. PICK x \in S : \A y \in S : ~(<<y, x>> \in OpToRel(<, Nat))
  BY <1>1, WFMin
<1>3. \A y \in S : ~(y < x)
  BY <1>2 DEF OpToRel
<1>4. QED
  BY <1>3

\* The paths agree up to n, and no further.
Parts(p, q, n) ==
  /\ n \in Nat /\ n <= Len(p) /\ n <= Len(q)
  /\ \A k \in 1..n : p[k] = q[k]
  /\ n = Len(p) \/ n = Len(q) \/ p[n + 1] # q[n + 1]

\* Every two paths part somewhere.
LEMMA SomewhereParts ==
  ASSUME NEW p \in Seq(Bit), NEW q \in Seq(Bit)
  PROVE  \E n : Parts(p, q, n)
<1> DEFINE S == {k \in Nat : \/ k = Len(p) \/ k = Len(q)
                        \/ (k < Len(p) /\ k < Len(q) /\ p[k + 1] # q[k + 1])}
<1>1. PICK m \in S : \A k \in S : m <= k
  <2>1. S \in SUBSET Nat /\ Len(p) \in S
    OBVIOUS
  <2>2. QED
    BY <2>1, LeastNumber
<1>2. m <= Len(p) /\ m <= Len(q)
  BY <1>1
<1>3. ASSUME NEW k \in 1..m, p[k] # q[k] PROVE FALSE
  <2>1. k - 1 \in S
    BY <1>2, <1>3
  <2>2. QED
    BY <1>1, <2>1
<1>4. QED
  BY <1>1, <1>2, <1>3 DEF Parts

\* They part at one place, which commonPrefixLength finds.
LEMMA CommonLengthIs ==
  ASSUME NEW p \in Seq(Bit), NEW q \in Seq(Bit), NEW n
  PROVE  Parts(p, q, n) <=> CommonLength(p, q) = n
<1>1. ASSUME NEW i, NEW j, Parts(p, q, i), Parts(p, q, j), i < j PROVE FALSE
  <2>1. i + 1 \in 1..j /\ i < Len(p) /\ i < Len(q)
    BY <1>1 DEF Parts
  <2>2. QED
    BY <1>1, <2>1 DEF Parts
<1>2. \A i, j : Parts(p, q, i) /\ Parts(p, q, j) => i = j
  BY <1>1 DEF Parts
<1>3. PICK m : Parts(p, q, m)
  BY SomewhereParts
<1>4. CommonLength(p, q) = CHOOSE k \in 0..Len(p) : Parts(p, q, k)
  BY DEF CommonLength, Parts
<1>5. m \in 0..Len(p)
  BY <1>3 DEF Parts
<1>6. Parts(p, q, CommonLength(p, q))
  BY <1>3, <1>4, <1>5
<1>7. QED
  BY <1>2, <1>6

\* The other way round it is the same place.
LEMMA CommonLengthParts ==
  ASSUME NEW p \in Seq(Bit), NEW q \in Seq(Bit)
  PROVE  /\ Parts(p, q, CommonLength(p, q))
         /\ CommonLength(p, q) = CommonLength(q, p)
<1>1. Parts(p, q, CommonLength(p, q))
  BY CommonLengthIs
<1>2. Parts(q, p, CommonLength(p, q))
  BY <1>1 DEF Parts
<1>3. QED
  BY <1>1, <1>2, CommonLengthIs

\* Neither path begins the other, and q is to the right of p.
Left(p, q) ==
  \E n \in Nat : /\ n < Len(p) /\ n < Len(q)
                 /\ \A k \in 1..n : p[k] = q[k]
                 /\ p[n + 1] = 0 /\ q[n + 1] = 1

\* A path is to the left of another one where commonPrefixLength says they part.
LEMMA LeftParts ==
  ASSUME NEW p \in Seq(Bit), NEW q \in Seq(Bit), NEW n \in Nat
  PROVE  (/\ n < Len(p) /\ n < Len(q)
          /\ \A k \in 1..n : p[k] = q[k]
          /\ p[n + 1] = 0 /\ q[n + 1] = 1)
         <=> Left(p, q) /\ CommonLength(p, q) = n
<1>1. ASSUME n < Len(p), n < Len(q), \A k \in 1..n : p[k] = q[k], p[n + 1] = 0, q[n + 1] = 1
      PROVE  Left(p, q) /\ CommonLength(p, q) = n
  <2>1. Parts(p, q, n)
    BY <1>1 DEF Parts
  <2>2. QED
    BY <1>1, <2>1, CommonLengthIs DEF Left
<1>2. ASSUME Left(p, q), CommonLength(p, q) = n
      PROVE  /\ n < Len(p) /\ n < Len(q)
             /\ \A k \in 1..n : p[k] = q[k]
             /\ p[n + 1] = 0 /\ q[n + 1] = 1
  <2>1. PICK m \in Nat : /\ m < Len(p) /\ m < Len(q)
                         /\ \A k \in 1..m : p[k] = q[k]
                         /\ p[m + 1] = 0 /\ q[m + 1] = 1
    BY <1>2 DEF Left
  <2>2. Parts(p, q, m)
    BY <2>1 DEF Parts
  <2>3. m = n
    BY <1>2, <2>2, CommonLengthIs
  <2>4. QED
    BY <2>1, <2>3
<1>3. QED
  BY <1>1, <1>2

\* compare and startsWith put any two paths into one of these relations.
LEMMA Compared ==
  ASSUME NEW p \in Seq(Bit), NEW q \in Seq(Bit)
  PROVE  /\ PrefixOf(p, q) <=> CommonLength(p, q) = Len(p)
         /\ StartsWith(q, p) <=> PrefixOf(p, q)
         /\ Before(p, q) <=> Left(p, q) \/ (PrefixOf(p, q) /\ p # q)
         /\ ~PrefixOf(p, q) /\ ~PrefixOf(q, p) => Left(p, q) \/ Left(q, p)
         /\ Left(p, q) => ~Left(q, p) /\ ~PrefixOf(p, q) /\ ~PrefixOf(q, p) /\ p # q
         /\ PrefixOf(p, q) /\ PrefixOf(q, p) => p = q
<1>1. PICK n \in Nat : n = CommonLength(p, q)
  BY CommonLengthParts DEF Parts
<1>2. /\ n <= Len(p) /\ n <= Len(q)
      /\ \A k \in 1..n : p[k] = q[k]
      /\ n = Len(p) \/ n = Len(q) \/ p[n + 1] # q[n + 1]
      /\ CommonLength(q, p) = n
  BY <1>1, CommonLengthParts DEF Parts
<1>3. Len(p) \in Nat /\ Len(q) \in Nat
  OBVIOUS
<1>4. n < Len(p) /\ n < Len(q) => /\ p[n + 1] \in {0, 1} /\ q[n + 1] \in {0, 1}
                                  /\ p[n + 1] # q[n + 1]
  <2>1. SUFFICES ASSUME n < Len(p), n < Len(q)
                 PROVE  /\ p[n + 1] \in {0, 1} /\ q[n + 1] \in {0, 1}
                        /\ p[n + 1] # q[n + 1]
    OBVIOUS
  <2>2. n + 1 \in 1..Len(p) /\ n + 1 \in 1..Len(q)
    BY <1>2, <1>3, <2>1
  <2>3. p[n + 1] \in Bit /\ q[n + 1] \in Bit
    BY <2>1
  <2>4. n # Len(p) /\ n # Len(q)
    BY <1>2, <1>3, <2>1
  <2>5. QED
    BY <1>2, <2>3, <2>4 DEF Bit
<1>5. PrefixOf(p, q) <=> n = Len(p)
  <2>1. ASSUME n = Len(p) PROVE PrefixOf(p, q)
    BY <1>2, <1>3, <2>1 DEF PrefixOf
  <2>2. ASSUME PrefixOf(p, q), n # Len(p) PROVE FALSE
    <3>1. n < Len(p) /\ n < Len(q) /\ n + 1 \in 1..Len(p)
      BY <1>2, <1>3, <2>2 DEF PrefixOf
    <3>2. QED
      BY <1>3, <1>4, <2>2, <3>1 DEF PrefixOf
  <2>3. QED
    BY <2>1, <2>2
<1>6. PrefixOf(q, p) <=> n = Len(q)
  <2>1. ASSUME n = Len(q) PROVE PrefixOf(q, p)
    BY <1>2, <1>3, <2>1 DEF PrefixOf
  <2>2. ASSUME PrefixOf(q, p), n # Len(q) PROVE FALSE
    <3>1. n < Len(p) /\ n < Len(q) /\ n + 1 \in 1..Len(q)
      BY <1>2, <1>3, <2>2 DEF PrefixOf
    <3>2. QED
      BY <1>3, <1>4, <2>2, <3>1 DEF PrefixOf
  <2>3. QED
    BY <2>1, <2>2
<1>7. Left(p, q) <=> n < Len(p) /\ n < Len(q) /\ p[n + 1] = 0 /\ q[n + 1] = 1
  BY <1>1, <1>2, LeftParts
<1>8. Left(q, p) <=> n < Len(p) /\ n < Len(q) /\ q[n + 1] = 0 /\ p[n + 1] = 1
  <2>1. (/\ n < Len(q) /\ n < Len(p)
         /\ \A k \in 1..n : q[k] = p[k]
         /\ q[n + 1] = 0 /\ p[n + 1] = 1)
        <=> Left(q, p) /\ CommonLength(q, p) = n
    BY <1>2, LeftParts
  <2>2. QED
    BY <1>2, <2>1
<1>9. StartsWith(q, p) <=> n = Len(p)
  BY <1>2 DEF StartsWith
<1>10. n = Len(p) /\ n = Len(q) <=> p = q
  <2>1. ASSUME n = Len(p), n = Len(q) PROVE p = q
    <3>1. Len(p) = Len(q) /\ \A k \in 1..Len(p) : p[k] = q[k]
      BY <1>2, <2>1
    <3>2. QED
      BY <3>1
  <2>2. ASSUME p = q PROVE n = Len(p) /\ n = Len(q)
    BY <1>2, <2>2
  <2>3. QED
    BY <2>1, <2>2
<1>11. Before(p, q) <=> IF n = Len(p) \/ n = Len(q) THEN Len(p) < Len(q)
                        ELSE p[n + 1] < q[n + 1]
  BY <1>1 DEF Before
<1>12. PICK x, y : x = p[n + 1] /\ y = q[n + 1]
  OBVIOUS
<1>13. PICK l \in Nat, m \in Nat : l = Len(p) /\ m = Len(q)
  OBVIOUS
<1>14. /\ n <= l /\ n <= m
       /\ n < l /\ n < m => x \in {0, 1} /\ y \in {0, 1} /\ x # y
  BY <1>2, <1>4, <1>12, <1>13
<1>15. Before(p, q) <=> Left(p, q) \/ (PrefixOf(p, q) /\ p # q)
  <2>1. (IF n = l \/ n = m THEN l < m ELSE x < y)
        <=> (n < l /\ n < m /\ x = 0 /\ y = 1) \/ (n = l /\ ~(n = l /\ n = m))
    BY <1>14
  <2>2. QED
    BY <1>5, <1>7, <1>10, <1>11, <1>12, <1>13, <2>1, Zenon
<1>16. ~PrefixOf(p, q) /\ ~PrefixOf(q, p) => Left(p, q) \/ Left(q, p)
  <2>1. n # l /\ n # m => \/ n < l /\ n < m /\ x = 0 /\ y = 1
                          \/ n < l /\ n < m /\ y = 0 /\ x = 1
    BY <1>14
  <2>2. QED
    BY <1>5, <1>6, <1>7, <1>8, <1>12, <1>13, <2>1, Zenon
<1>17. Left(p, q) => ~Left(q, p) /\ ~PrefixOf(p, q) /\ ~PrefixOf(q, p) /\ p # q
  <2>1. n < l /\ n < m /\ x = 0 /\ y = 1 => y # 0 /\ n # l /\ n # m
    BY <1>14
  <2>2. QED
    BY <1>5, <1>6, <1>7, <1>8, <1>10, <1>12, <1>13, <2>1, Zenon
<1>18. QED
  BY <1>1, <1>5, <1>6, <1>9, <1>10, <1>15, <1>16, <1>17, Zenon

\* What is to the right of a path is to the right of those to its left, and
\* parts with them where the first of the two pairs parts.
LEMMA LeftTrans ==
  ASSUME NEW p \in Seq(Bit), NEW q \in Seq(Bit), NEW r \in Seq(Bit),
         Left(p, q), Left(q, r)
  PROVE  /\ Left(p, r) /\ CommonLength(p, q) # CommonLength(q, r)
         /\ CommonLength(p, r) = IF CommonLength(p, q) < CommonLength(q, r)
                                 THEN CommonLength(p, q) ELSE CommonLength(q, r)
<1> DEFINE a == CommonLength(p, q)
           b == CommonLength(q, r)
<1>1. a \in Nat /\ b \in Nat
  BY CommonLengthParts DEF Parts
<1>2. /\ a < Len(p) /\ a < Len(q) /\ \A k \in 1..a : p[k] = q[k]
      /\ p[a + 1] = 0 /\ q[a + 1] = 1
  BY <1>1, LeftParts
<1>3. /\ b < Len(q) /\ b < Len(r) /\ \A k \in 1..b : q[k] = r[k]
      /\ q[b + 1] = 0 /\ r[b + 1] = 1
  BY <1>1, LeftParts
<1> HIDE DEF a, b
<1>4. a # b
  BY <1>2, <1>3
<1>5. CASE a < b
  <2>1. a < Len(r) /\ a + 1 \in 1..b
    BY <1>1, <1>3, <1>5
  <2>2. r[a + 1] = 1 /\ \A k \in 1..a : p[k] = r[k]
    BY <1>1, <1>2, <1>3, <1>5, <2>1
  <2>3. Left(p, r) /\ CommonLength(p, r) = a
    BY <1>1, <1>2, <2>1, <2>2, LeftParts
  <2>4. QED
    BY <1>4, <1>5, <2>3 DEF a, b
<1>6. CASE b < a
  <2>1. b < Len(p) /\ b + 1 \in 1..a
    BY <1>1, <1>2, <1>6
  <2>2. p[b + 1] = 0 /\ \A k \in 1..b : p[k] = r[k]
    BY <1>1, <1>2, <1>3, <1>6, <2>1
  <2>3. Left(p, r) /\ CommonLength(p, r) = b
    BY <1>1, <1>3, <2>1, <2>2, LeftParts
  <2>4. ~(a < b)
    BY <1>1, <1>6
  <2>5. QED
    BY <1>4, <2>3, <2>4 DEF a, b
<1>7. QED
  BY <1>1, <1>4, <1>5, <1>6

\* A common prefix begins both paths.
LEMMA PrefixParts ==
  ASSUME NEW p \in Seq(Bit), NEW q \in Seq(Bit)
  PROVE  /\ CommonPrefix(p, q) \in Seq(Bit)
         /\ Len(CommonPrefix(p, q)) = CommonLength(p, q)
         /\ \A k \in 1..CommonLength(p, q) :
              CommonPrefix(p, q)[k] = p[k] /\ CommonPrefix(p, q)[k] = q[k]
         /\ CommonPrefix(p, q) = CommonPrefix(q, p)
<1> DEFINE n == CommonLength(p, q)
<1>1. /\ n \in Nat /\ n <= Len(p) /\ n <= Len(q) /\ \A k \in 1..n : p[k] = q[k]
      /\ CommonLength(q, p) = n
  BY CommonLengthParts DEF Parts
<1>2. CommonPrefix(p, q) = SubSeq(p, 1, n) /\ CommonPrefix(q, p) = SubSeq(q, 1, n)
  BY <1>1 DEF CommonPrefix
<1> HIDE DEF n
<1>3. /\ SubSeq(p, 1, n) \in Seq(Bit) /\ Len(SubSeq(p, 1, n)) = n
      /\ SubSeq(q, 1, n) \in Seq(Bit) /\ Len(SubSeq(q, 1, n)) = n
      /\ \A k \in 1..n : SubSeq(p, 1, n)[k] = p[k] /\ SubSeq(q, 1, n)[k] = q[k]
  BY <1>1
<1>4. SubSeq(p, 1, n) = SubSeq(q, 1, n)
  BY <1>1, <1>3
<1>5. QED
  BY <1>1, <1>2, <1>3, <1>4 DEF n

\* Where two paths are folded into one, what is to the right stays there, and so
\* does what is to the left, if it parts with them before they part.
LEMMA Joining ==
  ASSUME NEW p \in Seq(Bit), NEW q \in Seq(Bit), NEW r \in Seq(Bit)
  PROVE  /\ Left(q, r) /\ CommonLength(q, r) < CommonLength(p, q) =>
              /\ Left(CommonPrefix(p, q), r)
              /\ CommonLength(CommonPrefix(p, q), r) = CommonLength(q, r)
         /\ Left(r, p) /\ CommonLength(r, p) < CommonLength(p, q) =>
              /\ Left(r, CommonPrefix(p, q))
              /\ CommonLength(r, CommonPrefix(p, q)) = CommonLength(r, p)
<1>1. PICK j \in Seq(Bit) :
        /\ j = CommonPrefix(p, q)
        /\ Len(j) = CommonLength(p, q) /\ \A k \in 1..Len(j) : j[k] = p[k] /\ j[k] = q[k]
  BY PrefixParts
<1>2. ASSUME Left(q, r), CommonLength(q, r) < Len(j)
      PROVE  Left(j, r) /\ CommonLength(j, r) = CommonLength(q, r)
  <2>1. PICK b \in Nat : b = CommonLength(q, r)
    BY CommonLengthParts DEF Parts
  <2>2. b < Len(j)
    BY <1>2, <2>1
  <2>3. /\ b < Len(r) /\ \A k \in 1..b : q[k] = r[k]
        /\ q[b + 1] = 0 /\ r[b + 1] = 1
    BY <1>2, <2>1, <2>2, LeftParts
  <2>4. b + 1 \in 1..Len(j) /\ 1..b \subseteq 1..Len(j)
    BY <1>1, <2>2
  <2>5. j[b + 1] = 0 /\ \A k \in 1..b : j[k] = r[k]
    BY <1>1, <2>3, <2>4
  <2>6. (/\ b < Len(j) /\ b < Len(r)
         /\ \A k \in 1..b : j[k] = r[k]
         /\ j[b + 1] = 0 /\ r[b + 1] = 1)
        <=> Left(j, r) /\ CommonLength(j, r) = b
    BY <1>1, LeftParts
  <2>7. QED
    BY <2>1, <2>2, <2>3, <2>5, <2>6
<1>3. ASSUME Left(r, p), CommonLength(r, p) < Len(j)
      PROVE  Left(r, j) /\ CommonLength(r, j) = CommonLength(r, p)
  <2>1. PICK b \in Nat : b = CommonLength(r, p)
    BY CommonLengthParts DEF Parts
  <2>2. b < Len(j)
    BY <1>3, <2>1
  <2>3. /\ b < Len(r) /\ \A k \in 1..b : r[k] = p[k]
        /\ r[b + 1] = 0 /\ p[b + 1] = 1
    BY <1>3, <2>1, <2>2, LeftParts
  <2>4. b + 1 \in 1..Len(j) /\ 1..b \subseteq 1..Len(j)
    BY <1>1, <2>2
  <2>5. j[b + 1] = 1 /\ \A k \in 1..b : r[k] = j[k]
    BY <1>1, <2>3, <2>4
  <2>6. (/\ b < Len(r) /\ b < Len(j)
         /\ \A k \in 1..b : r[k] = j[k]
         /\ r[b + 1] = 0 /\ j[b + 1] = 1)
        <=> Left(r, j) /\ CommonLength(r, j) = b
    BY <1>1, LeftParts
  <2>7. QED
    BY <2>1, <2>2, <2>3, <2>5, <2>6
<1>4. QED
  BY <1>1, <1>2, <1>3

\* Two paths that begin the same path are not apart.
LEMMA NoCommonEnd ==
  ASSUME NEW p \in Seq(Bit), NEW q \in Seq(Bit), NEW r \in Seq(Bit),
         Left(p, q), PrefixOf(p, r), PrefixOf(q, r)
  PROVE  FALSE
<1>1. PICK n \in Nat : /\ n < Len(p) /\ n < Len(q)
                       /\ p[n + 1] = 0 /\ q[n + 1] = 1
  BY DEF Left
<1>2. n + 1 \in 1..Len(p) /\ n + 1 \in 1..Len(q)
  BY <1>1
<1>3. p[n + 1] = r[n + 1] /\ q[n + 1] = r[n + 1]
  BY <1>2 DEF PrefixOf
<1>4. QED
  BY <1>1, <1>3

-----------------------------------------------------------------------------
(* The contour.                                                            *)

\* No path of the nodes begins another one.
Separate(S) ==
  /\ \A x \in S : x.path \in Seq(Bit)
  /\ \A x, y \in S : x # y => Left(x.path, y.path) \/ Left(y.path, x.path)

\* The least of them is to the left of the others.
LEMMA LeastIsLeft ==
  ASSUME NEW S, Separate(S), NEW x, IsLeast(x, S)
  PROVE  /\ x \in S /\ x.path \in Seq(Bit)
         /\ \A y \in S : y # x => Left(x.path, y.path)
         /\ \A z : IsLeast(z, S) => z = x
         /\ Separate(S \ {x})
<1>1. x \in S /\ x.path \in Seq(Bit)
  BY DEF IsLeast, Separate
<1>2. ASSUME NEW z, IsLeast(z, S), NEW y \in S, y # z
      PROVE  Left(z.path, y.path)
  <2>1. z \in S /\ z.path \in Seq(Bit) /\ y.path \in Seq(Bit)
    BY <1>2 DEF IsLeast, Separate
  <2>2. Before(z.path, y.path)
    BY <1>2 DEF IsLeast
  <2>3. Left(z.path, y.path) \/ PrefixOf(z.path, y.path)
    BY <2>1, <2>2, Compared
  <2>4. Left(z.path, y.path) \/ Left(y.path, z.path)
    BY <1>2, <2>1 DEF Separate
  <2>5. QED
    BY <2>1, <2>3, <2>4, Compared
<1>3. ASSUME NEW z, IsLeast(z, S), z # x PROVE FALSE
  <2>1. z \in S /\ z.path \in Seq(Bit)
    BY <1>3 DEF IsLeast, Separate
  <2>2. Left(z.path, x.path) /\ Left(x.path, z.path)
    BY <1>1, <1>2, <1>3, <2>1
  <2>3. QED
    BY <1>1, <2>1, <2>2, Compared
<1>4. QED
  BY <1>1, <1>2, <1>3 DEF Separate

\* The place where a node of the contour parts with the next one.
Parting(i) == CommonLength(contour[i].path, contour[i + 1].path)

\* The nodes of the contour are in order, and each parts with the next one
\* below the place where it parts with the one before.
Shape ==
  /\ \E S : contour \in Seq(S)
  /\ Len(contour) > 0
  /\ \A i \in 1..Len(contour) : contour[i].path \in Seq(Bit)
  /\ \A i \in 1..(Len(contour) - 1) : Left(contour[i].path, contour[i + 1].path)
  /\ \A i \in 1..(Len(contour) - 2) : Parting(i) < Parting(i + 1)
  /\ Len(contour) > 1 =>
       lastPrefix = CommonPrefix(contour[Len(contour) - 1].path, contour[Len(contour)].path)

Beyond == \A x \in rest : \A i \in 1..Len(contour) : Left(contour[i].path, x.path)

\* Two elements of a sequence give way to another one.
LEMMA Replaced ==
  ASSUME NEW S, NEW s \in Seq(S), NEW n \in Nat, n = Len(s), n > 1, NEW x
  PROVE  /\ Append(SubSeq(s, 1, n - 2), x) \in Seq(S \cup {x})
         /\ Len(Append(SubSeq(s, 1, n - 2), x)) = n - 1
         /\ \A i \in 1..(n - 2) : Append(SubSeq(s, 1, n - 2), x)[i] = s[i]
         /\ Append(SubSeq(s, 1, n - 2), x)[n - 1] = x
<1>1. PICK t : t = SubSeq(s, 1, n - 2)
  OBVIOUS
<1>2. t \in Seq(S) /\ Len(t) = n - 2 /\ \A i \in 1..(n - 2) : t[i] = s[i]
  BY <1>1
<1>3. t \in Seq(S \cup {x})
  BY <1>2
<1>4. /\ Append(t, x) \in Seq(S \cup {x}) /\ Len(Append(t, x)) = n - 1
      /\ \A i \in 1..(n - 2) : Append(t, x)[i] = t[i]
      /\ Append(t, x)[n - 1] = x
  BY <1>2, <1>3
<1>5. QED
  BY <1>1, <1>2, <1>4

\* An element comes after the others.
LEMMA Extended ==
  ASSUME NEW S, NEW s \in Seq(S), NEW n \in Nat, n = Len(s), NEW x
  PROVE  /\ Append(s, x) \in Seq(S \cup {x})
         /\ Len(Append(s, x)) = n + 1
         /\ \A i \in 1..n : Append(s, x)[i] = s[i]
         /\ Append(s, x)[n + 1] = x
<1>1. s \in Seq(S \cup {x})
  OBVIOUS
<1>2. QED
  BY <1>1

\* fold leaves the contour in shape: the branch is where the last two nodes
\* part, below the place where it parts with the node before.
LEMMA FoldKeepsShape ==
  ASSUME Shape, Len(contour) > 1, Fold
  PROVE  /\ Shape' /\ Len(contour') = Len(contour) - 1
         /\ \A i \in 1..(Len(contour) - 2) : contour'[i] = contour[i]
         /\ contour'[Len(contour')].path = lastPrefix
<1>1. PICK S : contour \in Seq(S)
  BY DEF Shape
<1>2. PICK n \in Nat : n = Len(contour) /\ n > 1
  BY <1>1
<1>3. PICK x : x = Joined(contour[n - 1], contour[n]) /\ x.path = lastPrefix
  <2>1. PICK x : x = Joined(contour[n - 1], contour[n])
    OBVIOUS
  <2>2. x.path = lastPrefix
    BY <2>1 DEF Joined
  <2>3. QED
    BY <2>1, <2>2
<1>4. contour' = Append(SubSeq(contour, 1, n - 2), x) /\ lastPrefix' = FoldedPrefix(n)
  BY <1>2, <1>3 DEF Fold
<1>5. /\ contour' \in Seq(S \cup {x}) /\ Len(contour') = n - 1
      /\ \A i \in 1..(n - 2) : contour'[i] = contour[i]
      /\ contour'[n - 1] = x
  BY <1>1, <1>2, <1>4, Replaced
<1>6. PICK p, q : p = contour[n - 1].path /\ q = contour[n].path
  OBVIOUS
<1>7. /\ p \in Seq(Bit) /\ q \in Seq(Bit) /\ lastPrefix = CommonPrefix(p, q)
      /\ lastPrefix \in Seq(Bit) /\ Len(lastPrefix) = CommonLength(p, q)
  <2>1. p \in Seq(Bit) /\ q \in Seq(Bit) /\ lastPrefix = CommonPrefix(p, q)
    BY <1>2, <1>6 DEF Shape
  <2>2. QED
    BY <2>1, PrefixParts
<1>8. \A i \in 1..(n - 1) : contour'[i].path \in Seq(Bit)
  <2>1. SUFFICES ASSUME NEW i \in 1..(n - 1) PROVE contour'[i].path \in Seq(Bit)
    OBVIOUS
  <2>2. CASE i = n - 1
    BY <1>3, <1>5, <1>7, <2>2
  <2>3. CASE i # n - 1
    <3>1. i \in 1..(n - 2) /\ i \in 1..n
      BY <1>2, <2>3
    <3>2. contour'[i] = contour[i] /\ contour[i].path \in Seq(Bit)
      BY <1>2, <1>5, <3>1 DEF Shape
    <3>3. QED
      BY <3>2
  <2>4. QED
    BY <2>2, <2>3
<1>9. ASSUME n > 2
      PROVE  /\ Left(contour[n - 2].path, lastPrefix)
             /\ CommonLength(contour[n - 2].path, lastPrefix) = Parting(n - 2)
             /\ lastPrefix' = CommonPrefix(contour[n - 2].path, lastPrefix)
  <2>1. PICK r : r = contour[n - 2].path
    OBVIOUS
  <2>2. /\ n - 2 \in 1..n /\ n - 2 \in 1..(n - 1) /\ n - 2 \in 1..(n - 2)
        /\ (n - 2) + 1 = n - 1 /\ (n - 1) + 1 = n
    BY <1>2, <1>9
  <2>3. r \in Seq(Bit) /\ Left(r, p)
    BY <1>2, <1>6, <2>1, <2>2 DEF Shape
  <2>4. Parting(n - 2) = CommonLength(r, p) /\ Parting(n - 1) = CommonLength(p, q)
    BY <1>6, <2>1, <2>2 DEF Parting
  <2>5. CommonLength(r, p) < CommonLength(p, q)
    BY <1>2, <2>2, <2>4 DEF Shape
  <2>6. Left(r, CommonPrefix(p, q)) /\ CommonLength(r, CommonPrefix(p, q)) = CommonLength(r, p)
    BY <1>7, <2>3, <2>5, Joining
  <2>7. lastPrefix' = CommonPrefix(lastPrefix, r)
    BY <1>4, <1>9, <2>1 DEF FoldedPrefix
  <2>8. CommonPrefix(lastPrefix, r) = CommonPrefix(r, lastPrefix)
    BY <1>7, <2>3, PrefixParts
  <2>9. QED
    BY <1>7, <2>1, <2>4, <2>6, <2>7, <2>8
<1>10. ASSUME NEW i \in 1..(n - 2)
       PROVE  /\ Left(contour'[i].path, contour'[i + 1].path)
              /\ CommonLength(contour'[i].path, contour'[i + 1].path) = Parting(i)
  <2>1. contour'[i] = contour[i] /\ i \in 1..(n - 1)
    BY <1>2, <1>5
  <2>2. CASE i = n - 2
    <3>1. contour'[i + 1] = x /\ n > 2
      BY <1>2, <1>5, <2>2
    <3>2. QED
      BY <1>3, <1>9, <2>1, <2>2, <3>1
  <2>3. CASE i # n - 2
    <3>1. i + 1 \in 1..(n - 2)
      BY <1>2, <2>3
    <3>2. contour'[i + 1] = contour[i + 1]
      BY <1>5, <3>1
    <3>3. QED
      BY <1>2, <2>1, <3>2 DEF Shape, Parting
  <2>4. QED
    BY <2>2, <2>3
<1>11. \A i \in 1..(n - 3) : Parting(i)' < Parting(i + 1)'
  <2>1. SUFFICES ASSUME NEW i \in 1..(n - 3) PROVE Parting(i)' < Parting(i + 1)'
    OBVIOUS
  <2>2. i \in 1..(n - 2) /\ i + 1 \in 1..(n - 2)
    BY <1>2
  <2>3. Parting(i)' = Parting(i) /\ Parting(i + 1)' = Parting(i + 1)
    BY <1>10, <2>2 DEF Parting
  <2>4. QED
    BY <1>2, <2>2, <2>3 DEF Shape
<1>12. n - 1 > 1 => lastPrefix' = CommonPrefix(contour'[n - 2].path, contour'[n - 1].path)
  <2>1. SUFFICES ASSUME n > 2
                 PROVE  lastPrefix' = CommonPrefix(contour'[n - 2].path, contour'[n - 1].path)
    BY <1>2
  <2>2. contour'[n - 2] = contour[n - 2]
    BY <1>2, <1>5, <2>1
  <2>3. QED
    BY <1>3, <1>5, <1>9, <2>1, <2>2
<1>13. Shape'
  <2>1. Len(contour') = n - 1 /\ n - 1 > 0 /\ (n - 1) - 1 = n - 2 /\ (n - 1) - 2 = n - 3
    BY <1>2, <1>5
  <2>2. \E T : contour' \in Seq(T)
    BY <1>5
  <2>3. QED
    BY <1>8, <1>10, <1>11, <1>12, <2>1, <2>2 DEF Shape
<1>14. QED
  BY <1>2, <1>3, <1>5, <1>13

\* What pc = "fold" knows of the next node.
NextIsLeast ==
  pc = "fold" => \E x \in rest : /\ IsLeast(x, rest)
                                 /\ newPrefix = CommonPrefix(x.path, Top.path)

\* The inductive invariant of the loop.
LoopInv == InLoop => Shape /\ Separate(rest) /\ Beyond /\ NextIsLeast

\* The contour begins with the first two nodes of a proof without embedded paths.
LEMMA StartKeepsLoop ==
  ASSUME Separate(given), Start
  PROVE  LoopInv'
<1>1. PICK x, y \in given : /\ IsLeast(x, given) /\ IsLeast(y, given \ {x})
                            /\ contour' = <<x, y>>
                            /\ lastPrefix' = CommonPrefix(x.path, y.path)
                            /\ rest' = given \ {x, y}
  BY DEF Start
<1>2. /\ x.path \in Seq(Bit) /\ Separate(given \ {x})
      /\ \A z \in given : z # x => Left(x.path, z.path)
  BY <1>1, LeastIsLeft
<1>3. /\ y \in given \ {x} /\ y.path \in Seq(Bit) /\ Separate((given \ {x}) \ {y})
      /\ \A z \in given \ {x} : z # y => Left(y.path, z.path)
  BY <1>1, <1>2, LeastIsLeft
<1>4. Left(x.path, y.path)
  BY <1>2, <1>3
<1>5. Len(contour') = 2 /\ contour'[1] = x /\ contour'[2] = y /\ contour' \in Seq({x, y})
  BY <1>1
<1>6. Shape'
  <2>1. \A i \in 1..2 : contour'[i].path \in Seq(Bit)
    BY <1>2, <1>3, <1>5
  <2>2. \A i \in 1..1 : Left(contour'[i].path, contour'[i + 1].path)
    BY <1>4, <1>5
  <2>3. lastPrefix' = CommonPrefix(contour'[1].path, contour'[2].path)
    BY <1>1, <1>5
  <2>4. QED
    BY <1>5, <2>1, <2>2, <2>3 DEF Shape
<1>7. Separate(rest)'
  <2>1. rest' = (given \ {x}) \ {y}
    BY <1>1
  <2>2. QED
    BY <1>3, <2>1 DEF Separate
<1>8. Beyond'
  <2>1. SUFFICES ASSUME NEW z \in rest', NEW i \in 1..2
                 PROVE  Left(contour'[i].path, z.path)
    BY <1>5 DEF Beyond
  <2>2. z \in given /\ z # x /\ z # y
    BY <1>1, <2>1
  <2>3. Left(x.path, z.path) /\ Left(y.path, z.path)
    BY <1>2, <1>3, <2>2
  <2>4. i = 1 \/ i = 2
    OBVIOUS
  <2>5. QED
    BY <1>5, <2>3, <2>4
<1>9. NextIsLeast'
  BY DEF Start, NextIsLeast
<1>10. QED
  BY <1>6, <1>7, <1>8, <1>9 DEF LoopInv

\* The least of the nodes to come is the next.
LEMMA NextEntryKeepsLoop ==
  ASSUME LoopInv, NextEntry
  PROVE  LoopInv'
<1>1. Shape /\ Separate(rest) /\ Beyond
  BY DEF LoopInv, InLoop, NextEntry
<1>2. UNCHANGED <<rest, contour, lastPrefix>>
  BY DEF NextEntry
<1>3. PICK x \in rest : IsLeast(x, rest) /\ newPrefix' = CommonPrefix(x.path, Top.path)
  BY DEF NextEntry
<1>4. NextIsLeast'
  BY <1>2, <1>3 DEF NextIsLeast, Top, IsLeast
<1>5. Shape' /\ Separate(rest)' /\ Beyond'
  BY <1>1, <1>2 DEF Shape, Parting, Separate, Beyond
<1>6. QED
  BY <1>4, <1>5 DEF LoopInv

\* Where the last two nodes part below the place where the last one parts with
\* the next node, all that is to come is beyond their branch, which parts with
\* the next node where the last node did.
LEMMA FoldMoreKeepsLoop ==
  ASSUME LoopInv, FoldMore
  PROVE  LoopInv'
<1>1. Shape /\ Separate(rest) /\ Beyond /\ NextIsLeast
  BY DEF LoopInv, InLoop, FoldMore
<1>2. /\ pc = "fold" /\ pc' = pc /\ rest' = rest /\ newPrefix' = newPrefix
      /\ Len(contour) > 1 /\ Len(newPrefix) < Len(lastPrefix) /\ Fold
  BY DEF FoldMore, MustFold
<1>3. PICK n \in Nat : n = Len(contour) /\ n > 1
  BY <1>1, <1>2 DEF Shape
<1>4. /\ Shape' /\ Len(contour') = n - 1
      /\ \A i \in 1..(n - 2) : contour'[i] = contour[i]
      /\ contour'[n - 1].path = lastPrefix
  BY <1>1, <1>2, <1>3, FoldKeepsShape
<1>5. PICK p, q : p = contour[n - 1].path /\ q = contour[n].path
  OBVIOUS
<1>6. /\ p \in Seq(Bit) /\ q \in Seq(Bit) /\ lastPrefix = CommonPrefix(p, q)
  BY <1>1, <1>3, <1>5 DEF Shape
<1>7. lastPrefix \in Seq(Bit) /\ Len(lastPrefix) = CommonLength(p, q)
  BY <1>6, PrefixParts
<1>8. PICK x \in rest : IsLeast(x, rest) /\ newPrefix = CommonPrefix(x.path, q)
  BY <1>1, <1>2, <1>3, <1>5 DEF NextIsLeast, Top
<1>9. /\ x.path \in Seq(Bit) /\ Left(q, x.path)
      /\ \A y \in rest : y # x => Left(x.path, y.path)
  <2>1. x.path \in Seq(Bit) /\ \A y \in rest : y # x => Left(x.path, y.path)
    BY <1>1, <1>8, LeastIsLeft
  <2>2. Left(contour[n].path, x.path)
    BY <1>1, <1>3 DEF Beyond
  <2>3. QED
    BY <1>5, <2>1, <2>2
<1>10. CommonLength(q, x.path) < CommonLength(p, q)
  <2>1. Len(newPrefix) = CommonLength(x.path, q)
    BY <1>6, <1>8, <1>9, PrefixParts
  <2>2. CommonLength(x.path, q) = CommonLength(q, x.path)
    BY <1>6, <1>9, CommonLengthParts
  <2>3. QED
    BY <1>2, <1>7, <2>1, <2>2
<1>11. ASSUME NEW y \in rest
       PROVE  Left(lastPrefix, y.path)
  <2>1. y.path \in Seq(Bit) /\ Left(q, y.path)
    BY <1>1, <1>3, <1>5, <1>11 DEF Separate, Beyond
  <2>2. CommonLength(q, y.path) < CommonLength(p, q)
    <3>1. CASE y = x
      BY <1>10, <3>1
    <3>2. CASE y # x
      <4>1. Left(x.path, y.path)
        BY <1>9, <1>11, <3>2
      <4>2. CommonLength(q, y.path) = IF CommonLength(q, x.path) < CommonLength(x.path, y.path)
                                      THEN CommonLength(q, x.path)
                                      ELSE CommonLength(x.path, y.path)
        BY <1>6, <1>9, <2>1, <4>1, LeftTrans
      <4>3. /\ CommonLength(q, x.path) \in Nat /\ CommonLength(x.path, y.path) \in Nat
            /\ CommonLength(p, q) \in Nat
        BY <1>6, <1>9, <2>1, CommonLengthParts DEF Parts
      <4>4. QED
        BY <1>10, <4>2, <4>3
    <3>3. QED
      BY <3>1, <3>2
  <2>3. QED
    BY <1>6, <2>1, <2>2, Joining
<1>12. Beyond'
  <2>1. SUFFICES ASSUME NEW y \in rest, NEW i \in 1..(n - 1)
                 PROVE  Left(contour'[i].path, y.path)
    BY <1>2, <1>4 DEF Beyond
  <2>2. CASE i = n - 1
    BY <1>4, <1>11, <2>2
  <2>3. CASE i # n - 1
    <3>1. i \in 1..(n - 2) /\ i \in 1..n
      BY <1>3, <2>3
    <3>2. contour'[i] = contour[i]
      BY <1>4, <3>1
    <3>3. Left(contour[i].path, y.path)
      BY <1>1, <1>3, <3>1 DEF Beyond
    <3>4. QED
      BY <3>2, <3>3
  <2>4. QED
    BY <2>2, <2>3
<1>13. NextIsLeast'
  <2>1. CommonLength(lastPrefix, x.path) = CommonLength(q, x.path)
    BY <1>6, <1>9, <1>10, Joining
  <2>2. CommonLength(x.path, lastPrefix) = CommonLength(x.path, q)
    BY <1>6, <1>7, <1>9, <2>1, CommonLengthParts
  <2>3. newPrefix' = CommonPrefix(x.path, lastPrefix)
    BY <1>2, <1>8, <2>2 DEF CommonPrefix
  <2>4. Top'.path = lastPrefix
    BY <1>4 DEF Top
  <2>5. QED
    BY <1>2, <1>8, <2>3, <2>4 DEF NextIsLeast, IsLeast
<1>14. Separate(rest)'
  BY <1>1, <1>2 DEF Separate
<1>15. QED
  BY <1>4, <1>12, <1>13, <1>14 DEF LoopInv

\* A node that is pushed parts with the last one above the place where that one
\* parts with the node before.
LEMMA PushKeepsLoop ==
  ASSUME LoopInv, Push
  PROVE  LoopInv'
<1>1. Shape /\ Separate(rest) /\ Beyond /\ NextIsLeast
  BY DEF LoopInv, InLoop, Push
<1>2. PICK x \in rest : /\ IsLeast(x, rest) /\ contour' = Append(contour, x)
                        /\ rest' = rest \ {x}
  BY DEF Push
<1>3. /\ pc = "fold" /\ pc' = "next" /\ lastPrefix' = newPrefix
      /\ ~(Len(contour) > 1 /\ Len(newPrefix) < Len(lastPrefix))
  BY DEF Push, MustFold
<1>4. /\ x.path \in Seq(Bit) /\ \A y \in rest : y # x => Left(x.path, y.path)
      /\ \A z : IsLeast(z, rest) => z = x
      /\ Separate(rest \ {x})
  BY <1>1, <1>2, LeastIsLeft
<1>5. PICK n \in Nat : n = Len(contour) /\ n > 0
  BY <1>1 DEF Shape
<1>6. PICK S : contour \in Seq(S)
  BY <1>1 DEF Shape
<1>7. /\ contour' \in Seq(S \cup {x}) /\ Len(contour') = n + 1
      /\ \A i \in 1..n : contour'[i] = contour[i]
      /\ contour'[n + 1] = x
  BY <1>2, <1>5, <1>6, Extended
<1>8. PICK q : q = contour[n].path /\ q \in Seq(Bit)
  BY <1>1, <1>5 DEF Shape
<1>9. newPrefix = CommonPrefix(x.path, q) /\ Left(q, x.path)
  <2>1. newPrefix = CommonPrefix(x.path, q)
    BY <1>1, <1>3, <1>4, <1>5, <1>8 DEF NextIsLeast, Top
  <2>2. QED
    BY <1>1, <1>5, <1>8, <2>1 DEF Beyond
<1>10. lastPrefix' = CommonPrefix(q, x.path) /\ Len(newPrefix) = CommonLength(q, x.path)
  BY <1>3, <1>4, <1>8, <1>9, PrefixParts
<1>11. ASSUME n > 1 PROVE Parting(n - 1) < CommonLength(q, x.path)
  <2>1. PICK p : p = contour[n - 1].path
    OBVIOUS
  <2>2. n - 1 \in 1..n /\ n - 1 \in 1..(n - 1) /\ (n - 1) + 1 = n
    BY <1>11
  <2>3. p \in Seq(Bit) /\ Left(p, q) /\ lastPrefix = CommonPrefix(p, q)
    BY <1>1, <1>5, <1>8, <1>11, <2>1, <2>2 DEF Shape
  <2>4. Parting(n - 1) = CommonLength(p, q) /\ Len(lastPrefix) = CommonLength(p, q)
    BY <1>8, <2>1, <2>2, <2>3, PrefixParts DEF Parting
  <2>5. ~(CommonLength(q, x.path) < CommonLength(p, q))
    BY <1>3, <1>5, <1>10, <1>11, <2>4
  <2>6. CommonLength(p, q) # CommonLength(q, x.path)
    BY <1>4, <1>8, <1>9, <2>3, LeftTrans
  <2>7. CommonLength(p, q) \in Nat /\ CommonLength(q, x.path) \in Nat
    BY <1>4, <1>8, <2>3, CommonLengthParts DEF Parts
  <2>8. QED
    BY <2>4, <2>5, <2>6, <2>7
<1>12. ASSUME NEW i \in 1..(n - 1)
       PROVE  Parting(i)' = Parting(i) /\ contour'[i] = contour[i] /\ contour'[i + 1] = contour[i + 1]
  <2>1. i \in 1..n /\ i + 1 \in 1..n
    BY <1>5
  <2>2. QED
    BY <1>7, <2>1 DEF Parting
<1>13. Parting(n)' = CommonLength(q, x.path) /\ contour'[n] = contour[n]
  BY <1>5, <1>7, <1>8 DEF Parting
<1>14. Shape'
  <2>1. \A i \in 1..(n + 1) : contour'[i].path \in Seq(Bit)
    <3>1. SUFFICES ASSUME NEW i \in 1..(n + 1) PROVE contour'[i].path \in Seq(Bit)
      OBVIOUS
    <3>2. CASE i = n + 1
      BY <1>4, <1>7, <3>2
    <3>3. CASE i # n + 1
      <4>1. i \in 1..n
        BY <1>5, <3>3
      <4>2. contour'[i] = contour[i] /\ contour[i].path \in Seq(Bit)
        BY <1>1, <1>5, <1>7, <4>1 DEF Shape
      <4>3. QED
        BY <4>2
    <3>4. QED
      BY <3>2, <3>3
  <2>2. \A i \in 1..n : Left(contour'[i].path, contour'[i + 1].path)
    <3>1. SUFFICES ASSUME NEW i \in 1..n PROVE Left(contour'[i].path, contour'[i + 1].path)
      OBVIOUS
    <3>2. CASE i = n
      BY <1>7, <1>8, <1>9, <1>13, <3>2
    <3>3. CASE i # n
      <4>1. i \in 1..(n - 1)
        BY <1>5, <3>3
      <4>2. Left(contour[i].path, contour[i + 1].path)
        BY <1>1, <1>5, <4>1 DEF Shape
      <4>3. QED
        BY <1>12, <4>1, <4>2
    <3>4. QED
      BY <3>2, <3>3
  <2>3. \A i \in 1..(n - 1) : Parting(i)' < Parting(i + 1)'
    <3>1. SUFFICES ASSUME NEW i \in 1..(n - 1) PROVE Parting(i)' < Parting(i + 1)'
      OBVIOUS
    <3>2. CASE i = n - 1
      <4>1. i + 1 = n /\ n > 1
        BY <1>5, <3>2
      <4>2. QED
        BY <1>11, <1>12, <1>13, <3>2, <4>1
    <3>3. CASE i # n - 1
      <4>1. i \in 1..(n - 2) /\ i + 1 \in 1..(n - 1)
        BY <1>5, <3>3
      <4>2. Parting(i) < Parting(i + 1)
        BY <1>1, <1>5, <4>1 DEF Shape
      <4>3. QED
        BY <1>12, <4>1, <4>2
    <3>4. QED
      BY <3>2, <3>3
  <2>4. lastPrefix' = CommonPrefix(contour'[n].path, contour'[n + 1].path)
    BY <1>7, <1>8, <1>10, <1>13
  <2>5. /\ Len(contour') = n + 1 /\ n + 1 > 0 /\ (n + 1) - 1 = n /\ (n + 1) - 2 = n - 1
        /\ \E T : contour' \in Seq(T)
    BY <1>5, <1>7
  <2>6. QED
    BY <2>1, <2>2, <2>3, <2>4, <2>5 DEF Shape
<1>15. Beyond'
  <2>1. SUFFICES ASSUME NEW y \in rest', NEW i \in 1..(n + 1)
                 PROVE  Left(contour'[i].path, y.path)
    BY <1>7 DEF Beyond
  <2>2. y \in rest /\ y # x
    BY <1>2, <2>1
  <2>3. CASE i = n + 1
    BY <1>4, <1>7, <2>2, <2>3
  <2>4. CASE i # n + 1
    <3>1. i \in 1..n
      BY <1>5, <2>4
    <3>2. QED
      BY <1>1, <1>5, <1>7, <2>2, <3>1 DEF Beyond
  <2>5. QED
    BY <2>3, <2>4
<1>16. Separate(rest)' /\ NextIsLeast'
  BY <1>2, <1>3, <1>4 DEF Separate, NextIsLeast
<1>17. QED
  BY <1>14, <1>15, <1>16 DEF LoopInv

\* When no node is left to come, the contour is folded into one.
LEMMA FoldLastKeepsLoop ==
  ASSUME LoopInv, FoldLast
  PROVE  LoopInv'
<1>1. /\ Shape /\ pc' = "next" /\ rest' = {} /\ Len(contour) > 1 /\ Fold
  BY DEF LoopInv, InLoop, FoldLast
<1>2. Shape'
  BY <1>1, FoldKeepsShape
<1>3. Separate(rest)' /\ Beyond' /\ NextIsLeast'
  BY <1>1 DEF Separate, Beyond, NextIsLeast
<1>4. QED
  BY <1>2, <1>3 DEF LoopInv

-----------------------------------------------------------------------------
(* The checks.                                                             *)

\* The document is one of those to verify.
Document == IsProof(proof) /\ IsEntries(entries)

\* What is known of its fields.
LEMMA Fields ==
  ASSUME Document
  PROVE  /\ Len(proof) \in Nat /\ DOMAIN proof = 1..Len(proof)
         /\ Len(entries) \in Nat /\ DOMAIN entries = 1..Len(entries)
         /\ \A i \in DOMAIN proof : proof[i].path \in Seq(Bit)
         /\ \A i \in DOMAIN entries : /\ entries[i].missing \in Keys \cup {none}
                                      /\ entries[i].key \in Keys \cup {none}
  BY DEF Document, IsProof, IsEntries, IsArray, Members

\* The conditions on a document: its elements are well formed, and no path of
\* it begins another one.
WellFormedProof == \A i \in DOMAIN proof : WellFormed(proof[i])
WellFormedEntries == \A i \in DOMAIN entries : ~Incomplete(entries[i]) /\ ~Ambiguous(entries[i])
OrderedProof ==
  \A i, j \in DOMAIN proof : i < j => /\ Before(proof[i].path, proof[j].path)
                                      /\ ~PrefixOf(proof[i].path, proof[j].path)
UncoveredEntries ==
  \A i \in DOMAIN proof, j \in DOMAIN entries : ~PrefixOf(proof[i].path, EntryPath(entries[j]))
DistinctEntries ==
  \A i, j \in DOMAIN entries : i # j => EntryPath(entries[i]) # EntryPath(entries[j])
NoBranchAlone == \A x \in given : given = {x} => Len(x.path) = Width

Acceptable == /\ WellFormedProof /\ WellFormedEntries /\ OrderedProof
              /\ UncoveredEntries /\ DistinctEntries /\ NoBranchAlone

\* They are what AcceptsPrefixFree requires.
LEMMA AcceptableIs ==
  pc = "done" /\ (outcome = "ok" <=> Acceptable) => AcceptsPrefixFree
<1>1. SUFFICES ASSUME pc = "done", outcome = "ok" <=> Acceptable PROVE AcceptsPrefixFree
  OBVIOUS
<1>2. WellFormedProof <=> \A x \in Members(proof) : WellFormed(x)
  BY DEF WellFormedProof, Members
<1>3. WellFormedEntries <=>
        /\ \A e \in Members(entries) :
             e.missing = none <=> (e.key # none /\ e.value # none)
        /\ \A e \in Members(entries) : e.missing # none => e.key = none /\ e.value = none
  BY DEF WellFormedEntries, Incomplete, Ambiguous, Members
<1>4. UncoveredEntries <=>
        \A x \in Members(proof), e \in Members(entries) : ~PrefixOf(x.path, EntryPath(e))
  BY DEF UncoveredEntries, Members
<1>5. QED
  BY <1>1, <1>2, <1>3, <1>4
  DEF AcceptsPrefixFree, Acceptable, OrderedProof, DistinctEntries, NoBranchAlone

\* A key has a path of the full width.
LEMMA EntryPaths ==
  ASSUME Document, WellFormedEntries, NEW i \in DOMAIN entries
  PROVE  EntryPath(entries[i]) \in Seq(Bit) /\ Len(EntryPath(entries[i])) = Width
<1>1. \E k \in Keys : EntryPath(entries[i]) = PathOf[k]
  BY Fields DEF WellFormedEntries, Incomplete, EntryPath
<1>2. PICK k \in Keys : EntryPath(entries[i]) = PathOf[k]
  BY <1>1
<1>3. PathOf[k] \in [1..Width -> Bit]
  BY KeyAssumption
<1>4. QED
  BY <1>2, <1>3, WidthAssumption

\* The neighbours in the proof are compared, so that no two paths of it are
\* other than in order.
LEMMA NeighboursSuffice ==
  ASSUME Document,
         \A i \in 1..(Len(proof) - 1) : Misplaced(proof[i].path, proof[i + 1].path) = {}
  PROVE  \A i, j \in DOMAIN proof : i < j => Left(proof[i].path, proof[j].path)
<1>1. PICK n \in Nat : /\ n = Len(proof) /\ DOMAIN proof = 1..n
                       /\ \A i \in 1..n : proof[i].path \in Seq(Bit)
  BY Fields, Zenon
<1>2. ASSUME NEW i \in 1..(n - 1) PROVE Left(proof[i].path, proof[i + 1].path)
  <2>1. PICK p \in Seq(Bit), q \in Seq(Bit) : p = proof[i].path /\ q = proof[i + 1].path
    BY <1>1
  <2>2. Misplaced(p, q) = {}
    BY <1>1, <2>1
  <2>3. p # q /\ ~Before(q, p) /\ ~(Before(p, q) /\ StartsWith(q, p))
    BY <2>2 DEF Misplaced
  <2>4. QED
    BY <2>1, <2>3, Compared
<1>3. SUFFICES ASSUME NEW i \in 1..n, NEW j \in 1..n, i < j, ~Left(proof[i].path, proof[j].path)
               PROVE  FALSE
  BY <1>1
<1> DEFINE S == {k \in Nat : i < k /\ k <= n /\ ~Left(proof[i].path, proof[k].path)}
<1>4. PICK m \in S : \A k \in S : m <= k
  <2>1. S \in SUBSET Nat /\ j \in S
    BY <1>3
  <2>2. QED
    BY <2>1, LeastNumber
<1>5. m - 1 \in 1..(n - 1) /\ (m - 1) + 1 = m /\ m - 1 \notin S /\ m - 1 \in 1..n /\ m \in 1..n
  BY <1>4
<1>6. Left(proof[m - 1].path, proof[m].path)
  BY <1>2, <1>5
<1>7. CASE m - 1 = i
  BY <1>4, <1>6, <1>7
<1>8. CASE m - 1 # i
  <2>1. Left(proof[i].path, proof[m - 1].path)
    BY <1>4, <1>5, <1>8
  <2>2. Left(proof[i].path, proof[m].path)
    BY <1>1, <1>5, <1>6, <2>1, LeftTrans
  <2>3. QED
    BY <1>4, <2>2
<1>9. QED
  BY <1>7, <1>8, Zenon

\* What passes the check of the order is in order, and the other way round.
LEMMA InOrder ==
  ASSUME Document
  PROVE  /\ OrderedProof <=> \A i, j \in DOMAIN proof : i < j => Left(proof[i].path, proof[j].path)
         /\ OrderedProof <=>
              \A i \in 1..(Len(proof) - 1) : Misplaced(proof[i].path, proof[i + 1].path) = {}
<1>1. PICK n \in Nat : /\ n = Len(proof) /\ DOMAIN proof = 1..n
                       /\ \A i \in 1..n : proof[i].path \in Seq(Bit)
  BY Fields, Zenon
<1>2. \A i, j \in 1..n : Left(proof[i].path, proof[j].path)
                         <=> /\ Before(proof[i].path, proof[j].path)
                             /\ ~PrefixOf(proof[i].path, proof[j].path)
  BY <1>1, Compared
<1>3. OrderedProof <=> \A i, j \in DOMAIN proof : i < j => Left(proof[i].path, proof[j].path)
  BY <1>1, <1>2 DEF OrderedProof
<1>4. ASSUME OrderedProof, NEW i \in 1..(n - 1)
      PROVE  Misplaced(proof[i].path, proof[i + 1].path) = {}
  <2>1. PICK p \in Seq(Bit), q \in Seq(Bit) : p = proof[i].path /\ q = proof[i + 1].path
    BY <1>1
  <2>2. Left(p, q)
    BY <1>1, <1>3, <1>4, <2>1
  <2>3. p # q /\ ~Before(q, p) /\ ~StartsWith(q, p)
    BY <2>2, Compared
  <2>4. QED
    BY <2>1, <2>3 DEF Misplaced
<1>5. QED
  BY <1>1, <1>3, <1>4, NeighboursSuffice

\* A path of the proof that begins the path of an entry is the closest smaller
\* one, so that it suffices to look at that one.
LEMMA ClosestSuffices ==
  ASSUME Document, WellFormedEntries, OrderedProof, NEW j \in DOMAIN entries
  PROVE  Covered(EntryPath(entries[j])) = {}
         <=> \A i \in DOMAIN proof : ~PrefixOf(proof[i].path, EntryPath(entries[j]))
<1>1. PICK k \in Seq(Bit) : k = EntryPath(entries[j])
  BY EntryPaths
<1>2. \A x, y \in Members(proof) : /\ x.path \in Seq(Bit)
                                   /\ x.path # y.path => \/ Left(x.path, y.path)
                                                         \/ Left(y.path, x.path)
  <2>1. SUFFICES ASSUME NEW m \in DOMAIN proof, NEW n \in DOMAIN proof
                 PROVE  /\ proof[m].path \in Seq(Bit)
                        /\ proof[m].path # proof[n].path => \/ Left(proof[m].path, proof[n].path)
                                                            \/ Left(proof[n].path, proof[m].path)
    BY DEF Members
  <2>2. m \in Nat /\ n \in Nat
    BY Fields
  <2>3. m < n \/ m = n \/ n < m
    BY <2>2
  <2>4. QED
    BY <2>3, Fields, InOrder, Zenon
<1>3. ASSUME NEW x \in Members(proof), PrefixOf(x.path, k), Covered(k) = {}
      PROVE  FALSE
  <2>1. \A y \in Members(proof) : y.path # k
    BY <1>3 DEF Covered
  <2>2. Before(x.path, k) /\ StartsWith(k, x.path)
    BY <1>2, <1>3, <2>1, Compared
  <2>3. ASSUME NEW y \in Members(proof), Before(x.path, y.path), Before(y.path, k)
        PROVE  FALSE
    <3>1. x.path \in Seq(Bit) /\ y.path \in Seq(Bit)
      BY <1>2
    <3>2. x.path # y.path
      BY <2>3, <3>1, Compared
    <3>3. Left(x.path, y.path)
      BY <1>2, <2>3, <3>1, <3>2, Compared
    <3>4. CASE Left(y.path, k)
      <4>1. Left(x.path, k)
        BY <3>1, <3>3, <3>4, LeftTrans
      <4>2. QED
        BY <1>3, <3>1, <4>1, Compared
    <3>5. CASE PrefixOf(y.path, k)
      BY <1>3, <3>1, <3>3, <3>5, NoCommonEnd
    <3>6. QED
      BY <2>3, <3>1, <3>4, <3>5, Compared
  <2>4. Closest(k, x.path)
    BY <2>2, <2>3 DEF Closest
  <2>5. "embeddedPaths" \in Covered(k)
    BY <2>1, <2>2, <2>4 DEF Covered
  <2>6. QED
    BY <1>3, <2>5
<1>4. ASSUME NEW e \in Covered(k)
      PROVE  \E x \in Members(proof) : PrefixOf(x.path, k)
  <2>1. \E x \in Members(proof) : x.path = k \/ StartsWith(k, x.path)
    BY <1>4 DEF Covered
  <2>2. PICK x \in Members(proof) : x.path = k \/ StartsWith(k, x.path)
    BY <2>1
  <2>3. PrefixOf(k, k)
    BY DEF PrefixOf
  <2>4. QED
    BY <1>2, <2>2, <2>3, Compared
<1>5. (\A i \in DOMAIN proof : ~PrefixOf(proof[i].path, k))
      <=> \A x \in Members(proof) : ~PrefixOf(x.path, k)
  BY DEF Members
<1>6. QED
  BY <1>1, <1>3, <1>4, <1>5

\* No path of a document that passes the checks begins another one, whichever
\* of the elements with hashes are looked at.
LEMMA GivenIsSeparate ==
  ASSUME Document, WellFormedProof, WellFormedEntries, OrderedProof, UncoveredEntries,
         DistinctEntries
  PROVE  Separate(given)
<1>1. \A x \in Members(proof) : x.path \in Seq(Bit) /\ Len(x.path) <= Width
  BY Fields, WidthAssumption DEF WellFormedProof, WellFormed, Members
<1>2. \A x, y \in Members(proof) : x # y => Left(x.path, y.path) \/ Left(y.path, x.path)
  BY Fields, InOrder DEF Members
<1>3. \A x \in given : \/ x \in Members(proof)
                       \/ \E j \in DOMAIN entries : x = [path |-> EntryPath(entries[j]),
                                                         hash |-> Blob(entries[j].value)]
  BY DEF given, Members
<1>4. ASSUME NEW x \in Members(proof), NEW j \in DOMAIN entries
      PROVE  \/ Left(x.path, EntryPath(entries[j])) \/ Left(EntryPath(entries[j]), x.path)
  <2>1. PICK p \in Seq(Bit), k \in Seq(Bit) : /\ p = x.path /\ k = EntryPath(entries[j])
                                              /\ Len(p) <= Width /\ Len(k) = Width
    BY <1>1, EntryPaths
  <2>2. ~PrefixOf(p, k)
    BY <2>1 DEF UncoveredEntries, Members
  <2>3. ASSUME PrefixOf(k, p) PROVE FALSE
    <3>1. Len(k) = Len(p) /\ \A i \in 1..Len(k) : k[i] = p[i]
      BY <2>1, <2>3, WidthAssumption DEF PrefixOf
    <3>2. PrefixOf(p, k)
      BY <3>1 DEF PrefixOf
    <3>3. QED
      BY <2>2, <3>2
  <2>4. QED
    BY <2>1, <2>2, <2>3, Compared
<1>5. ASSUME NEW i \in DOMAIN entries, NEW j \in DOMAIN entries, i # j
      PROVE  \/ Left(EntryPath(entries[i]), EntryPath(entries[j]))
             \/ Left(EntryPath(entries[j]), EntryPath(entries[i]))
  <2>1. PICK p \in Seq(Bit), k \in Seq(Bit) : /\ p = EntryPath(entries[i]) /\ k = EntryPath(entries[j])
                                              /\ Len(p) = Width /\ Len(k) = Width
    BY EntryPaths
  <2>2. p # k
    BY <1>5, <2>1 DEF DistinctEntries
  <2>3. PrefixOf(p, k) => PrefixOf(k, p)
    BY <2>1 DEF PrefixOf
  <2>4. PrefixOf(k, p) => PrefixOf(p, k)
    BY <2>1 DEF PrefixOf
  <2>5. QED
    BY <2>1, <2>2, <2>3, <2>4, Compared
<1>6. \A x \in given : x.path \in Seq(Bit)
  <2>1. SUFFICES ASSUME NEW x \in given PROVE x.path \in Seq(Bit)
    OBVIOUS
  <2>2. CASE x \in Members(proof)
    BY <1>1, <2>2
  <2>3. CASE \E j \in DOMAIN entries : x = [path |-> EntryPath(entries[j]),
                                            hash |-> Blob(entries[j].value)]
    BY <2>3, EntryPaths
  <2>4. QED
    BY <1>3, <2>2, <2>3
<1>7. ASSUME NEW x \in given, NEW y \in given, x # y
      PROVE  Left(x.path, y.path) \/ Left(y.path, x.path)
  <2>1. CASE x \in Members(proof) /\ y \in Members(proof)
    BY <1>2, <1>7, <2>1
  <2>2. CASE x \in Members(proof) /\ y \notin Members(proof)
    BY <1>3, <1>4, <2>2
  <2>3. CASE x \notin Members(proof) /\ y \in Members(proof)
    BY <1>3, <1>4, <2>3
  <2>4. CASE x \notin Members(proof) /\ y \notin Members(proof)
    <3>1. PICK i \in DOMAIN entries : x = [path |-> EntryPath(entries[i]),
                                           hash |-> Blob(entries[i].value)]
      BY <1>3, <2>4
    <3>2. PICK j \in DOMAIN entries : y = [path |-> EntryPath(entries[j]),
                                           hash |-> Blob(entries[j].value)]
      BY <1>3, <2>4
    <3>3. i # j
      BY <1>7, <3>1, <3>2
    <3>4. QED
      BY <1>5, <3>1, <3>2, <3>3
  <2>5. QED
    BY <2>1, <2>2, <2>3, <2>4
<1>8. QED
  BY <1>6, <1>7 DEF Separate

-----------------------------------------------------------------------------
(* The steps of the constructor.                                           *)

\* What the steps so far have made sure of, and that an error means that one of
\* the conditions does not hold.
Checks ==
  /\ Document
  /\ pc \in {"parseEntries", "precheckOrder", "precheckEntries", "duplicates", "collect"}
       \cup {"next", "fold"} => WellFormedProof
  /\ pc \in {"precheckOrder", "precheckEntries", "duplicates", "collect", "next", "fold"} =>
       WellFormedEntries
  /\ pc \in {"precheckEntries", "duplicates", "collect", "next", "fold"} => OrderedProof
  /\ pc \in {"duplicates", "collect", "next", "fold"} => UncoveredEntries
  /\ pc \in {"collect", "next", "fold"} => DistinctEntries
  /\ pc \in {"next", "fold"} => NoBranchAlone
  /\ pc = "done" => (outcome = "ok" <=> Acceptable)

\* The inductive invariant.
ConstructorInv == Checks /\ LoopInv

\* No step changes the document, so that what holds of it stays so.
LEMMA SameDocument ==
  ASSUME UNCHANGED document
  PROVE  /\ Document' = Document /\ WellFormedProof' = WellFormedProof
         /\ WellFormedEntries' = WellFormedEntries /\ OrderedProof' = OrderedProof
         /\ UncoveredEntries' = UncoveredEntries /\ DistinctEntries' = DistinctEntries
         /\ given' = given /\ NoBranchAlone' = NoBranchAlone /\ Acceptable' = Acceptable
<1>1. proof' = proof /\ entries' = entries
  BY DEF document
<1>2. Document' = Document
  BY <1>1 DEF Document, IsProof, IsEntries, IsArray, Members
<1>3. WellFormedProof' = WellFormedProof
  BY <1>1 DEF WellFormedProof, WellFormed
<1>4. WellFormedEntries' = WellFormedEntries
  BY <1>1 DEF WellFormedEntries, Incomplete, Ambiguous
<1>5. OrderedProof' = OrderedProof
  BY <1>1 DEF OrderedProof
<1>6. UncoveredEntries' = UncoveredEntries
  BY <1>1 DEF UncoveredEntries, EntryPath
<1>7. DistinctEntries' = DistinctEntries
  BY <1>1 DEF DistinctEntries, EntryPath
<1>8. given' = given
  BY <1>1 DEF given, Members, EntryPath
<1>9. NoBranchAlone' = NoBranchAlone
  BY <1>8 DEF NoBranchAlone
<1>10. QED
  BY <1>2, <1>3, <1>4, <1>5, <1>6, <1>7, <1>8, <1>9 DEF Acceptable

\* The elements of two arrays in a row.
LEMMA Concatenated ==
  ASSUME NEW S, NEW m \in Nat, NEW n \in Nat, NEW s \in [1..m -> S], NEW t \in [1..n -> S]
  PROVE  /\ DOMAIN (s \o t) = 1..(m + n)
         /\ \A i \in 1..m : (s \o t)[i] = s[i]
         /\ \A i \in 1..n : (s \o t)[m + i] = t[i]
<1>1. s \in Seq(S) /\ Len(s) = m /\ t \in Seq(S) /\ Len(t) = n
  OBVIOUS
<1>2. s \o t \in Seq(S) /\ Len(s \o t) = m + n
  BY <1>1
<1>3. DOMAIN (s \o t) = 1..(m + n)
  BY <1>2
<1>4. \A i \in 1..m : (s \o t)[i] = s[i]
  BY <1>1
<1>5. \A i \in 1..n : (s \o t)[m + i] = t[i]
  BY <1>1
<1>6. QED
  BY <1>3, <1>4, <1>5

\* The array has the paths of the m nodes of the proof, then those of the n entries.
PathsInARow(paths, m, n) ==
  /\ DOMAIN proof = 1..m /\ DOMAIN entries = 1..n
  /\ DOMAIN paths = 1..(m + n)
  /\ \A i \in 1..m : paths[i] = proof[i].path
  /\ \A i \in 1..n : paths[m + i] = EntryPath(entries[i])

\* It has one of them twice exactly when two entries share it.
LEMMA RepeatedEntries ==
  ASSUME Document, WellFormedEntries, OrderedProof, UncoveredEntries,
         NEW m \in Nat, NEW n \in Nat, NEW paths, PathsInARow(paths, m, n)
  PROVE  (\E i, j \in DOMAIN paths : i # j /\ paths[i] = paths[j]) <=> ~DistinctEntries
<1> USE DEF PathsInARow
<1>1. ASSUME ~DistinctEntries
      PROVE  \E i, j \in DOMAIN paths : i # j /\ paths[i] = paths[j]
  <2>1. PICK i \in 1..n, j \in 1..n : i # j /\ EntryPath(entries[i]) = EntryPath(entries[j])
    BY <1>1 DEF DistinctEntries
  <2>2. m + i \in DOMAIN paths /\ m + j \in DOMAIN paths /\ m + i # m + j
    BY <2>1
  <2>3. paths[m + i] = paths[m + j]
    BY <2>1
  <2>4. QED
    BY <2>2, <2>3
<1>2. \A i, j \in 1..m : i # j => paths[i] # paths[j]
  <2>1. SUFFICES ASSUME NEW i \in 1..m, NEW j \in 1..m, i # j PROVE paths[i] # paths[j]
    OBVIOUS
  <2>2. i < j \/ j < i
    BY <2>1
  <2>3. Left(proof[i].path, proof[j].path) \/ Left(proof[j].path, proof[i].path)
    BY <2>2, InOrder
  <2>4. proof[i].path \in Seq(Bit) /\ proof[j].path \in Seq(Bit)
    BY Fields
  <2>5. proof[i].path # proof[j].path
    BY <2>3, <2>4, Compared
  <2>6. QED
    BY <2>5
<1>3. \A i \in 1..m, j \in 1..n : paths[i] # paths[m + j]
  <2>1. SUFFICES ASSUME NEW i \in 1..m, NEW j \in 1..n, paths[i] = paths[m + j]
                 PROVE  FALSE
    OBVIOUS
  <2>2. PICK p, q : p = proof[i].path /\ q = EntryPath(entries[j])
    OBVIOUS
  <2>3. p = q /\ ~PrefixOf(p, q)
    BY <2>1, <2>2 DEF UncoveredEntries
  <2>4. p \in Seq(Bit)
    BY <2>2, Fields
  <2>5. QED
    BY <2>3, <2>4 DEF PrefixOf
<1>4. ASSUME DistinctEntries, NEW i \in 1..n, NEW j \in 1..n, i # j
      PROVE  paths[m + i] # paths[m + j]
  <2>1. EntryPath(entries[i]) # EntryPath(entries[j])
    BY <1>4, Zenon DEF DistinctEntries
  <2>2. QED
    BY <2>1, Zenon
<1>5. ASSUME DistinctEntries, NEW i \in 1..(m + n), NEW j \in 1..(m + n), i < j
      PROVE  paths[i] # paths[j]
  <2>1. CASE j <= m
    <3>1. i \in 1..m /\ j \in 1..m /\ i # j
      BY <1>5, <2>1
    <3>2. QED
      BY <1>2, <3>1
  <2>2. CASE i <= m /\ m < j
    <3>1. PICK l \in 1..n : j = m + l
      BY <2>2
    <3>2. i \in 1..m
      BY <2>2
    <3>3. QED
      BY <1>3, <3>1, <3>2
  <2>3. CASE m < i
    <3>1. PICK k \in 1..n, l \in 1..n : i = m + k /\ j = m + l
      <4>1. i - m \in 1..n /\ j - m \in 1..n /\ i = m + (i - m) /\ j = m + (j - m)
        BY <1>5, <2>3
      <4>2. QED
        BY <4>1
    <3>2. k # l
      BY <1>5, <3>1
    <3>3. paths[m + k] # paths[m + l]
      BY <1>4, <1>5, <3>2
    <3>4. QED
      BY <3>1, <3>3
  <2>4. QED
    BY <2>1, <2>2, <2>3
<1>6. ASSUME DistinctEntries, NEW i \in DOMAIN paths, NEW j \in DOMAIN paths, i # j
      PROVE  paths[i] # paths[j]
  <2>1. i \in 1..(m + n) /\ j \in 1..(m + n) /\ (i < j \/ j < i)
    BY <1>6
  <2>2. QED
    BY <1>5, <1>6, <2>1
<1>7. QED
  BY <1>1, <1>6

\* A step of a check either finds that its condition holds and leaves the rest
\* to the next step, or throws.
LEMMA ParseProofKeeps ==
  ASSUME ConstructorInv, ParseProof
  PROVE  ConstructorInv'
<1>1. Document
  BY DEF ConstructorInv, Checks
<1>2. pc = "parseProof" /\ UNCHANGED document
  BY DEF ParseProof, Checked, Throw
<1>3. CASE pc' = "parseEntries" /\ WellFormedProof
  BY <1>1, <1>2, <1>3, SameDocument DEF ConstructorInv, Checks, LoopInv, InLoop
<1>4. CASE pc' = "done" /\ outcome' = "malformedProof" /\ ~WellFormedProof
  <2>1. ~Acceptable
    BY <1>4 DEF Acceptable
  <2>2. QED
    BY <1>1, <1>2, <1>4, <2>1, SameDocument DEF ConstructorInv, Checks, LoopInv, InLoop
<1>5. QED
  BY <1>3, <1>4 DEF ParseProof, Checked, Throw, WellFormedProof

\* The entries are checked like the nodes of the proof.
LEMMA ParseEntriesKeeps ==
  ASSUME ConstructorInv, ParseEntries
  PROVE  ConstructorInv'
<1>1. Document /\ WellFormedProof /\ pc = "parseEntries" /\ UNCHANGED document
  BY DEF ConstructorInv, Checks, ParseEntries, Checked, Throw
<1>2. CASE pc' = "precheckOrder" /\ WellFormedEntries
  BY <1>1, <1>2, SameDocument DEF ConstructorInv, Checks, LoopInv, InLoop
<1>3. CASE pc' = "done" /\ outcome' # "ok" /\ ~WellFormedEntries
  <2>1. ~Acceptable
    BY <1>3 DEF Acceptable
  <2>2. QED
    BY <1>1, <1>3, <2>1, SameDocument DEF ConstructorInv, Checks, LoopInv, InLoop
<1>4. QED
  BY <1>2, <1>3 DEF ParseEntries, Checked, Throw, WellFormedEntries

\* What is misplaced is a fault of its own, and no outcome of one is "ok".
LEMMA PrecheckOrderKeeps ==
  ASSUME ConstructorInv, PrecheckOrder
  PROVE  ConstructorInv'
<1>1. /\ Document /\ WellFormedProof /\ WellFormedEntries
      /\ pc = "precheckOrder" /\ UNCHANGED document
  BY DEF ConstructorInv, Checks, PrecheckOrder, Checked, Throw
<1>2. CASE pc' = "precheckEntries" /\ OrderedProof
  BY <1>1, <1>2, SameDocument DEF ConstructorInv, Checks, LoopInv, InLoop
<1>3. CASE pc' = "done" /\ outcome' # "ok" /\ ~OrderedProof
  <2>1. ~Acceptable
    BY <1>3 DEF Acceptable
  <2>2. QED
    BY <1>1, <1>3, <2>1, SameDocument DEF ConstructorInv, Checks, LoopInv, InLoop
<1>4. CASE /\ \A i \in 1..(Len(proof) - 1) : Misplaced(proof[i].path, proof[i + 1].path) = {}
           /\ pc' = "precheckEntries"
  BY <1>1, <1>2, <1>4, InOrder
<1>5. CASE \E i \in 1..(Len(proof) - 1) : \E e \in Misplaced(proof[i].path, proof[i + 1].path) :
             pc' = "done" /\ outcome' = e
  <2>1. PICK i \in 1..(Len(proof) - 1) : \E e \in Misplaced(proof[i].path, proof[i + 1].path) :
          pc' = "done" /\ outcome' = e
    BY <1>5
  <2>2. outcome' # "ok"
    BY <2>1 DEF Misplaced
  <2>3. QED
    BY <1>1, <1>3, <2>1, <2>2, InOrder
<1>6. QED
  BY <1>4, <1>5 DEF PrecheckOrder, Checked, Throw

\* An entry is refused exactly when a path of the proof begins its path.
LEMMA PrecheckEntriesKeeps ==
  ASSUME ConstructorInv, PrecheckEntries
  PROVE  ConstructorInv'
<1>1. /\ Document /\ WellFormedProof /\ WellFormedEntries /\ OrderedProof
      /\ pc = "precheckEntries" /\ UNCHANGED document
  BY DEF ConstructorInv, Checks, PrecheckEntries, Checked, Throw
<1>2. UncoveredEntries <=> \A j \in DOMAIN entries : Covered(EntryPath(entries[j])) = {}
  BY <1>1, ClosestSuffices DEF UncoveredEntries
<1>3. CASE pc' = "duplicates" /\ UncoveredEntries
  BY <1>1, <1>3, SameDocument DEF ConstructorInv, Checks, LoopInv, InLoop
<1>4. CASE pc' = "done" /\ outcome' # "ok" /\ ~UncoveredEntries
  <2>1. ~Acceptable
    BY <1>4 DEF Acceptable
  <2>2. QED
    BY <1>1, <1>4, <2>1, SameDocument DEF ConstructorInv, Checks, LoopInv, InLoop
<1>5. CASE /\ \A j \in DOMAIN entries : Covered(EntryPath(entries[j])) = {}
           /\ pc' = "duplicates"
  BY <1>2, <1>3, <1>5
<1>6. CASE \E j \in DOMAIN entries : \E e \in Covered(EntryPath(entries[j])) :
             pc' = "done" /\ outcome' = e
  <2>1. PICK j \in DOMAIN entries : \E e \in Covered(EntryPath(entries[j])) :
          pc' = "done" /\ outcome' = e
    BY <1>6
  <2>2. outcome' # "ok"
    BY <2>1 DEF Covered
  <2>3. QED
    BY <1>2, <1>4, <2>1, <2>2
<1>7. QED
  BY <1>5, <1>6 DEF PrecheckEntries, Checked, Throw

\* After the other checks only two entries can share a path.
LEMMA DuplicatesKeeps ==
  ASSUME ConstructorInv, Duplicates
  PROVE  ConstructorInv'
<1>1. /\ Document /\ WellFormedProof /\ WellFormedEntries /\ OrderedProof /\ UncoveredEntries
      /\ pc = "duplicates" /\ UNCHANGED document
  BY DEF ConstructorInv, Checks, Duplicates, Throw
<1>2. CASE pc' = "collect" /\ DistinctEntries
  BY <1>1, <1>2, SameDocument DEF ConstructorInv, Checks, LoopInv, InLoop
<1>3. CASE pc' = "done" /\ outcome' = "duplicatePath" /\ ~DistinctEntries
  <2>1. ~Acceptable
    BY <1>3 DEF Acceptable
  <2>2. QED
    BY <1>1, <1>3, <2>1, SameDocument DEF ConstructorInv, Checks, LoopInv, InLoop
<1>4. PICK paths : paths = [i \in DOMAIN proof |-> proof[i].path]
                           \o [i \in DOMAIN entries |-> EntryPath(entries[i])]
  OBVIOUS
<1>5. (\E i, j \in DOMAIN paths : i # j /\ paths[i] = paths[j]) <=> ~DistinctEntries
  <2>1. PICK m \in Nat, n \in Nat : DOMAIN proof = 1..m /\ DOMAIN entries = 1..n
    BY <1>1, Fields, Zenon
  <2>2. PICK s, t : /\ s = [i \in 1..m |-> proof[i].path]
                    /\ t = [i \in 1..n |-> EntryPath(entries[i])]
    OBVIOUS
  <2>3. paths = s \o t
    BY <1>4, <2>1, <2>2, Zenon
  <2>4. \A i \in 1..m : proof[i].path \in Seq(Bit)
    BY <1>1, <2>1, Fields
  <2>5. \A i \in 1..n : EntryPath(entries[i]) \in Seq(Bit)
    BY <1>1, <2>1, EntryPaths
  <2>6. PICK S : s \in [1..m -> S] /\ t \in [1..n -> S]
    BY <2>2, <2>4, <2>5
  <2>7. /\ DOMAIN (s \o t) = 1..(m + n)
        /\ \A i \in 1..m : (s \o t)[i] = s[i]
        /\ \A i \in 1..n : (s \o t)[m + i] = t[i]
    BY <2>6, Concatenated
  <2>8. \A i \in 1..m : s[i] = proof[i].path
    BY <2>2
  <2>9. \A i \in 1..n : t[i] = EntryPath(entries[i])
    BY <2>2
  <2>10. /\ DOMAIN paths = 1..(m + n)
         /\ \A i \in 1..m : paths[i] = proof[i].path
         /\ \A i \in 1..n : paths[m + i] = EntryPath(entries[i])
    BY <2>3, <2>7, <2>8, <2>9, Zenon
  <2>11. PathsInARow(paths, m, n)
    BY <2>1, <2>10, Zenon DEF PathsInARow
  <2>12. QED
    BY <1>1, <2>11, RepeatedEntries, Zenon
<1>6. \/ /\ \E i, j \in DOMAIN paths : i # j /\ paths[i] = paths[j]
         /\ pc' = "done" /\ outcome' = "duplicatePath"
      \/ /\ ~\E i, j \in DOMAIN paths : i # j /\ paths[i] = paths[j]
         /\ pc' = "collect"
  BY <1>4, Zenon DEF Duplicates, Throw
<1>7. QED
  BY <1>2, <1>3, <1>5, <1>6

\* The constructor returns without a loop, or throws, when there are no two
\* nodes; the loop runs for two nodes and more.
LEMMA CollectKeeps ==
  ASSUME ConstructorInv, Empty \/ Single \/ Start
  PROVE  ConstructorInv'
<1>1. /\ Document /\ WellFormedProof /\ WellFormedEntries /\ OrderedProof /\ UncoveredEntries
      /\ DistinctEntries /\ pc = "collect" /\ UNCHANGED document
  BY DEF ConstructorInv, Checks, Empty, Single, Start, Throw, Return
<1>2. CASE pc' = "done" /\ outcome' = "ok" /\ NoBranchAlone
  <2>1. Acceptable
    BY <1>1, <1>2 DEF Acceptable
  <2>2. QED
    BY <1>1, <1>2, <2>1, SameDocument DEF ConstructorInv, Checks, LoopInv, InLoop
<1>3. CASE Empty
  BY <1>2, <1>3 DEF Empty, Return, NoBranchAlone
<1>4. CASE Single
  <2>1. PICK x \in given : /\ given = {x}
                           /\ \/ Len(x.path) # Width /\ Throw("nonTerminalNode")
                              \/ Len(x.path) = Width /\ Return(Isolated(x))
    BY <1>4 DEF Single
  <2>2. CASE Len(x.path) # Width /\ Throw("nonTerminalNode")
    <3>1. ~Acceptable
      BY <2>1, <2>2 DEF Acceptable, NoBranchAlone
    <3>2. QED
      BY <1>1, <2>2, <3>1, SameDocument DEF ConstructorInv, Checks, LoopInv, InLoop, Throw
  <2>3. CASE Len(x.path) = Width /\ Return(Isolated(x))
    <3>1. NoBranchAlone
      BY <2>1, <2>3 DEF NoBranchAlone
    <3>2. QED
      BY <1>2, <2>3, <3>1 DEF Return
  <2>4. QED
    BY <2>1, <2>2, <2>3
<1>5. CASE Start
  <2>1. pc' = "next" /\ NoBranchAlone
    BY <1>5 DEF Start, IsLeast, NoBranchAlone
  <2>2. LoopInv'
    BY <1>1, <1>5, GivenIsSeparate, StartKeepsLoop
  <2>3. QED
    BY <1>1, <2>1, <2>2, SameDocument DEF ConstructorInv, Checks
<1>6. QED
  BY <1>3, <1>4, <1>5

\* The loop looks at an acceptable document, and ends well.
LEMMA LoopKeeps ==
  ASSUME ConstructorInv, NextEntry \/ FoldMore \/ Push \/ FoldLast \/ Finish
  PROVE  ConstructorInv'
<1>1. pc \in {"next", "fold"} /\ UNCHANGED document
  BY DEF NextEntry, FoldMore, Push, FoldLast, Finish, Return
<1>2. /\ Document /\ WellFormedProof /\ WellFormedEntries /\ OrderedProof /\ UncoveredEntries
      /\ DistinctEntries /\ NoBranchAlone
  BY <1>1 DEF ConstructorInv, Checks
<1>3. CASE NextEntry \/ FoldMore \/ Push \/ FoldLast
  <2>1. pc' \in {"next", "fold"}
    BY <1>1, <1>3 DEF NextEntry, FoldMore, Push, FoldLast
  <2>2. LoopInv'
    BY <1>3, NextEntryKeepsLoop, FoldMoreKeepsLoop, PushKeepsLoop, FoldLastKeepsLoop
    DEF ConstructorInv
  <2>3. QED
    BY <1>1, <1>2, <2>1, <2>2, SameDocument DEF ConstructorInv, Checks
<1>4. CASE Finish
  <2>1. pc' = "done" /\ outcome' = "ok" /\ Acceptable
    BY <1>2, <1>4 DEF Finish, Return, Acceptable
  <2>2. QED
    BY <1>1, <1>2, <2>1, SameDocument DEF ConstructorInv, Checks, LoopInv, InLoop
<1>5. QED
  BY <1>3, <1>4

\* The constructor starts with a document and no contour.
LEMMA InitHolds == Init => ConstructorInv
<1>1. SUFFICES ASSUME Init PROVE ConstructorInv
  OBVIOUS
<1>2. Document
  BY <1>1, ScenarioAssumption DEF Init, Document
<1>3. QED
  BY <1>1, <1>2 DEF Init, ConstructorInv, Checks, LoopInv, InLoop

\* Every step keeps the invariant.
LEMMA NextHolds == ConstructorInv /\ [Next]_vars => ConstructorInv'
<1>1. SUFFICES ASSUME ConstructorInv, [Next]_vars PROVE ConstructorInv'
  OBVIOUS
<1>2. CASE ParseProof
  BY <1>1, <1>2, ParseProofKeeps
<1>3. CASE ParseEntries
  BY <1>1, <1>3, ParseEntriesKeeps
<1>4. CASE PrecheckOrder
  BY <1>1, <1>4, PrecheckOrderKeeps
<1>5. CASE PrecheckEntries
  BY <1>1, <1>5, PrecheckEntriesKeeps
<1>6. CASE Duplicates
  BY <1>1, <1>6, DuplicatesKeeps
<1>7. CASE Empty \/ Single \/ Start
  BY <1>1, <1>7, CollectKeeps
<1>8. CASE NextEntry \/ FoldMore \/ Push \/ FoldLast \/ Finish
  BY <1>1, <1>8, LoopKeeps
<1>9. CASE UNCHANGED vars
  <2>1. UNCHANGED document /\ UNCHANGED <<pc, rest, contour, lastPrefix, newPrefix, outcome>>
    BY <1>9 DEF vars, loop
  <2>2. Checks'
    BY <1>1, <2>1, SameDocument DEF ConstructorInv, Checks
  <2>3. LoopInv'
    BY <1>1, <2>1
    DEF ConstructorInv, LoopInv, InLoop, Shape, Parting, Separate, Beyond, NextIsLeast, Top, IsLeast
  <2>4. QED
    BY <2>2, <2>3 DEF ConstructorInv
<1>10. QED
  BY <1>1, <1>2, <1>3, <1>4, <1>5, <1>6, <1>7, <1>8, <1>9 DEF Next

\* What is Left is smaller and no beginning; the common prefixes end where the
\* nodes part.
LEMMA ContourFollows == LoopInv => ContourInv
<1>1. SUFFICES ASSUME LoopInv, InLoop PROVE ContourInv
  BY DEF ContourInv
<1>2. Shape /\ Separate(rest) /\ Beyond
  BY <1>1 DEF LoopInv
<1>3. PICK n \in Nat : n = Len(contour) /\ n > 0
  BY <1>2 DEF Shape
<1>4. n > 1 => lastPrefix = CommonPrefix(contour[n - 1].path, contour[(n - 1) + 1].path)
  BY <1>2, <1>3 DEF Shape
<1>5. ASSUME NEW i \in 1..(n - 1)
      PROVE  Len(CommonPrefix(contour[i].path, contour[i + 1].path)) = Parting(i)
  <2>1. i \in 1..n /\ i + 1 \in 1..n
    BY <1>3
  <2>2. contour[i].path \in Seq(Bit) /\ contour[i + 1].path \in Seq(Bit)
    BY <1>2, <1>3, <2>1 DEF Shape
  <2>3. QED
    BY <2>2, PrefixParts DEF Parting
<1>6. ASSUME NEW i \in 1..(n - 2)
      PROVE  Len(CommonPrefix(contour[i].path, contour[i + 1].path))
               < Len(CommonPrefix(contour[i + 1].path, contour[(i + 1) + 1].path))
  <2>1. i \in 1..(n - 1) /\ i + 1 \in 1..(n - 1)
    BY <1>3
  <2>2. Parting(i) < Parting(i + 1)
    BY <1>2, <1>3 DEF Shape
  <2>3. QED
    BY <1>5, <2>1, <2>2
<1>7. ASSUME NEW i \in 1..n, NEW x \in rest
      PROVE  Before(contour[i].path, x.path) /\ ~PrefixOf(contour[i].path, x.path)
  <2>1. /\ contour[i].path \in Seq(Bit) /\ x.path \in Seq(Bit)
        /\ Left(contour[i].path, x.path)
    BY <1>2, <1>3 DEF Shape, Separate, Beyond
  <2>2. QED
    BY <2>1, Compared
<1>8. QED
  BY <1>3, <1>4, <1>6, <1>7 DEF ContourInv

\* The invariant holds in every reachable state.
LEMMA ConstructorInvHolds == Spec => []ConstructorInv
  BY InitHolds, NextHolds, PTL DEF Spec

-----------------------------------------------------------------------------
(* The theorems.                                                           *)

\* The comment of collect: `lastPrefix` is the common prefix of the last two
\* nodes of the contour; the common prefixes of neighbours get longer along the
\* contour, and all nodes to come are beyond it.
THEOREM ContourHolds == Spec => []ContourInv
<1>1. ConstructorInv => ContourInv
  BY ContourFollows DEF ConstructorInv
<1>2. QED
  BY <1>1, ConstructorInvHolds, PTL

\* The checks compare neighbours in the proof, and an entry with its closest
\* smaller path; what passes them has no path that begins another one, and what
\* they refuse has a fault.
THEOREM ChecksSuffice == Spec => []AcceptsPrefixFree
<1>1. ConstructorInv => AcceptsPrefixFree
  <2>1. CASE pc = "done"
    BY <2>1, AcceptableIs DEF ConstructorInv, Checks
  <2>2. CASE pc # "done"
    BY <2>2 DEF AcceptsPrefixFree
  <2>3. QED
    BY <2>1, <2>2
<1>2. QED
  BY <1>1, ConstructorInvHolds, PTL
=============================================================================
