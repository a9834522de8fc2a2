-------------------------- MODULE LayerArraysProofs --------------------------
(***************************************************************************)
(* Proofs about LayerArrays, for arrays and levels of any length: the loops*)
(* of mergeLayers and hashLayer compute what ListTree defines on sets.     *)
(* While hashLayer writes into the array it reads, what it began with is   *)
(* in no variable; the invariant says that there is such an array.         *)
(***************************************************************************)
EXTENDS LayerArrays, SequenceTheorems, WellFoundedInduction, TLAPS

\* In the order of the indexes, with no index twice.
Sorted(s) == \A j, k \in 1..Len(s) : j < k => s[j].index < s[k].index

\* The arrays as they are passed.
InputInv ==
  /\ lastIndex \in Nat
  /\ xs \in Seq(SetOf(xs)) /\ Sorted(xs)
  /\ ys \in Seq(SetOf(ys)) /\ Sorted(ys)
  /\ \A x \in Both : x.index \in 0..lastIndex

\* a is sorted, has m elements of us and n of vs, without a clash, and is before all
\* that is to come.
Merging(us, m, vs, n, a) ==
  /\ m \in 0..Len(us) /\ n \in 0..Len(vs)
  /\ a \in Seq(Both) /\ Sorted(a)
  /\ SetOf(a) = {us[k] : k \in 1..m} \cup {vs[k] : k \in 1..n}
  /\ \A x \in SetOf(a) : \A k \in (m + 1)..Len(us) : x.index < us[k].index
  /\ \A x \in SetOf(a) : \A k \in (n + 1)..Len(vs) : x.index < vs[k].index
  /\ \A j \in 1..m, k \in 1..n : us[j].index # vs[k].index

MergeInv == Merging(xs, xIndex, ys, yIndex, array) /\ i = 0

\* The element that hashLayer makes of the k-th pair of a.
IsPair(a, k, e) ==
  /\ 2 * k <= Len(a)
  /\ a[2 * k - 1].index % 2 = 0 /\ a[2 * k].index = a[2 * k - 1].index + 1
  /\ e = [index |-> a[2 * k - 1].index \div 2,
          hash |-> Node(a[2 * k - 1].hash, a[2 * k].hash)]

\* The element that it makes of the last one alone.
IsLast(a, last, k, e) ==
  /\ 2 * k - 1 = Len(a)
  /\ last % 2 = 0 /\ a[2 * k - 1].index = last
  /\ e = [index |-> a[2 * k - 1].index \div 2, hash |-> Solitary(a[2 * k - 1].hash)]

\* a is the array that hashLayer began with: its pairs up to i are hashed, the
\* elements behind them are not touched.
Began(a) ==
  /\ Sorted(a) /\ SetOf(a) = Both /\ Len(array) = Len(a)
  /\ i \in Nat /\ i % 2 = 0 /\ i <= Len(a) + 1
  /\ \A k \in 1..Len(a) :
       IF 2 * k <= i THEN IsPair(a, k, array[k]) \/ IsLast(a, lastIndex, k, array[k])
                     ELSE array[k] = a[k]

HashInv ==
  /\ array \in Seq(SetOf(array))
  /\ ~Clash(SetOf(xs), SetOf(ys))
  /\ \E a \in Seq(Both) : Began(a)

\* How the loops end.
EndInv ==
  /\ pc = "duplicateHash" => Clash(SetOf(xs), SetOf(ys))
  /\ pc = "missingHash" => ~Clash(SetOf(xs), SetOf(ys)) /\ ~Complete
  /\ pc = "done" => /\ ~Clash(SetOf(xs), SetOf(ys)) /\ Complete
                    /\ SetOf(array) = Zipped(Both, lastIndex)
                    /\ \A k \in 1..(Len(array) - 1) : array[k].index < array[k + 1].index

Inv ==
  /\ InputInv
  /\ pc = "merge" => MergeInv
  /\ pc = "hash" => HashInv
  /\ EndInv

-----------------------------------------------------------------------------
(* Sequences.                                                              *)

\* The elements of a sequence are at the positions up to its length.
LEMMA Elements ==
  ASSUME NEW S, NEW s \in Seq(S)
  PROVE  /\ Len(s) \in Nat /\ DOMAIN s = 1..Len(s)
         /\ SetOf(s) = {s[k] : k \in 1..Len(s)}
         /\ \A k \in 1..Len(s) : s[k] \in S /\ s[k] \in SetOf(s)
         /\ s \in Seq(SetOf(s))
<1>1. Len(s) \in Nat /\ DOMAIN s = 1..Len(s) /\ s \in [1..Len(s) -> S]
  BY LenProperties
<1>2. SetOf(s) = {s[k] : k \in 1..Len(s)}
  BY <1>1 DEF SetOf
<1>3. \A k \in 1..Len(s) : s[k] \in S /\ s[k] \in SetOf(s)
  BY <1>1, <1>2
<1>4. s \in [1..Len(s) -> SetOf(s)]
  BY <1>1, <1>3
<1>5. s \in Seq(SetOf(s))
  BY <1>1, <1>4, SeqDef
<1>6. QED
  BY <1>1, <1>2, <1>3, <1>5

\* A set of numbers has a least one.
LEMMA LeastNumber ==
  ASSUME NEW S \in SUBSET Nat, S # {}
  PROVE  \E m \in S : \A k \in S : m <= k
<1>1. IsWellFoundedOn(OpToRel(<, Nat), Nat)
  BY NatLessThanWellFounded
<1>2. PICK x \in S : \A y \in S : ~(<<y, x>> \in OpToRel(<, Nat))
  BY <1>1, WFMin
<1>3. \A y \in S : ~(y < x)
  BY <1>2 DEF OpToRel
<1>4. QED
  BY <1>3

\* Neighbours in order are enough: the first element after s[j] that is not above
\* it would have one before it that is.
LEMMA NeighboursSort ==
  ASSUME NEW s, Len(s) \in Nat, \A k \in 1..Len(s) : s[k].index \in Int,
         \A k \in 1..(Len(s) - 1) : s[k].index < s[k + 1].index
  PROVE  Sorted(s)
<1>1. SUFFICES ASSUME NEW j \in 1..Len(s), NEW k \in 1..Len(s), j < k,
                      ~(s[j].index < s[k].index)
               PROVE  FALSE
  BY DEF Sorted
<1>2. PICK S : S = {m \in 1..Len(s) : j < m /\ ~(s[j].index < s[m].index)}
  OBVIOUS
<1>3. S \in SUBSET Nat /\ S # {}
  BY <1>1, <1>2
<1>4. PICK m \in S : \A n \in S : m <= n
  BY <1>3, LeastNumber
<1>5. m - 1 \in 1..Len(s) /\ m \in 1..Len(s) /\ j <= m - 1 /\ m - 1 \notin S
  BY <1>2, <1>4
<1>6. s[m - 1].index < s[m - 1 + 1].index /\ m - 1 + 1 = m
  BY <1>5
<1>7. CASE j = m - 1
  BY <1>2, <1>4, <1>6, <1>7
<1>8. CASE j < m - 1
  <2>1. s[j].index < s[m - 1].index
    BY <1>2, <1>5, <1>8
  <2>2. QED
    BY <1>2, <1>4, <1>5, <1>6, <2>1
<1>9. QED
  BY <1>5, <1>7, <1>8

-----------------------------------------------------------------------------
(* mergeLayers.                                                            *)

\* The loops begin with what they are passed.
LEMMA InitHolds == Init => Inv
<1>1. SUFFICES ASSUME Init PROVE Inv
  OBVIOUS
<1>2. PICK in \in Inputs : xs = in.xs /\ ys = in.ys /\ lastIndex = in.last
  BY <1>1 DEF Init
<1>3. /\ lastIndex \in Nat
      /\ \A s \in {xs, ys} : /\ s \in Seq(SetOf(s))
                             /\ \A k \in DOMAIN s : s[k].index \in 0..lastIndex
                             /\ \A k \in 1..(Len(s) - 1) : s[k].index < s[k + 1].index
  BY <1>2, InputsAssumption
<1>4. ASSUME NEW s \in {xs, ys}
      PROVE  Sorted(s) /\ \A x \in SetOf(s) : x.index \in 0..lastIndex
  <2>1. s \in Seq(SetOf(s))
    BY <1>3
  <2>2. Len(s) \in Nat /\ DOMAIN s = 1..Len(s) /\ SetOf(s) = {s[k] : k \in 1..Len(s)}
    BY <2>1, Elements
  <2>3. \A k \in 1..Len(s) : s[k].index \in 0..lastIndex
    BY <1>3, <2>2
  <2>4. Sorted(s)
    <3>1. Len(s) \in Nat /\ \A k \in 1..Len(s) : s[k].index \in Int
      BY <1>3, <2>2, <2>3
    <3>2. \A k \in 1..(Len(s) - 1) : s[k].index < s[k + 1].index
      BY <1>3, Zenon
    <3>3. QED
      BY <3>1, <3>2, NeighboursSort, Zenon
  <2>5. \A x \in {s[k] : k \in 1..Len(s)} : x.index \in 0..lastIndex
    BY <2>3
  <2>6. QED
    BY <2>2, <2>4, <2>5, Zenon
<1>5. InputInv
  BY <1>3, <1>4 DEF InputInv, Both
<1>6. array = <<>> /\ xIndex = 0 /\ yIndex = 0 /\ i = 0 /\ pc = "merge"
  BY <1>1 DEF Init
<1>7. array \in Seq(Both) /\ Len(array) = 0
  BY <1>6, EmptySeq
<1>8. SetOf(array) = {}
  <2>1. SetOf(array) = {array[k] : k \in 1..Len(array)}
    <3>1. array \in Seq(Both)
      BY <1>7
    <3>2. QED
      BY <3>1, Elements
  <2>2. 1..Len(array) = {}
    BY <1>7
  <2>3. QED
    BY <2>1, <2>2, Zenon
<1>9. Len(xs) \in Nat /\ Len(ys) \in Nat
  BY <1>5, Elements DEF InputInv
<1>10. MergeInv
  <2>1. Sorted(array)
    BY <1>7 DEF Sorted
  <2>2. {xs[k] : k \in 1..xIndex} = {} /\ {ys[k] : k \in 1..yIndex} = {}
    BY <1>6
  <2>3. \A j \in 1..xIndex, k \in 1..yIndex : xs[j].index # ys[k].index
    BY <1>6
  <2>4. QED
    BY <1>6, <1>7, <1>8, <1>9, <2>1, <2>2, <2>3 DEF MergeInv, Merging
<1>11. EndInv
  BY <1>6 DEF EndInv
<1>12. QED
  BY <1>5, <1>6, <1>10, <1>11 DEF Inv

\* The arrays that are passed are not written.
LEMMA InputsKept ==
  ASSUME InputInv, UNCHANGED inputs
  PROVE  InputInv' /\ Both' = Both /\ SetOf(xs)' = SetOf(xs) /\ SetOf(ys)' = SetOf(ys)
BY DEF InputInv, inputs, Both, SetOf, Sorted

\* An element above all that is there keeps an array sorted.
LEMMA SortedAppend ==
  ASSUME NEW S, NEW s \in Seq(S), NEW e \in S, Sorted(s),
         \A x \in SetOf(s) : x.index < e.index
  PROVE  /\ Append(s, e) \in Seq(S) /\ Sorted(Append(s, e))
         /\ SetOf(Append(s, e)) = SetOf(s) \cup {e}
<1>1. PICK t : t = Append(s, e)
  OBVIOUS
<1>2. /\ t \in Seq(S) /\ Len(t) = Len(s) + 1
      /\ \A k \in 1..Len(s) : t[k] = s[k]
      /\ t[Len(s) + 1] = e
  BY <1>1, AppendProperties
<1>3. /\ Len(s) \in Nat /\ SetOf(s) = {s[k] : k \in 1..Len(s)}
      /\ SetOf(t) = {t[k] : k \in 1..Len(t)}
  BY <1>2, Elements
<1>4. SetOf(t) = SetOf(s) \cup {e}
  <2>1. 1..Len(t) = 1..Len(s) \cup {Len(s) + 1}
    BY <1>2, <1>3
  <2>2. QED
    BY <1>2, <1>3, <2>1
<1>5. Sorted(t)
  BY <1>2, <1>3 DEF Sorted
<1>6. QED
  BY <1>1, <1>2, <1>4, <1>5

\* The lesser of the two next elements goes behind what is merged.
LEMMA Taken ==
  ASSUME NEW us, NEW vs, NEW m, NEW n, NEW a, Merging(us, m, vs, n, a), InputInv,
         us \in {xs, ys}, vs \in {xs, ys},
         m < Len(us), n < Len(vs) => us[m + 1].index < vs[n + 1].index
  PROVE  Merging(us, m + 1, vs, n, Append(a, us[m + 1]))
<1>1. PICK x : x = us[m + 1]
  OBVIOUS
<1>2. PICK b : b = Append(a, x)
  OBVIOUS
<1>3. /\ Len(us) \in Nat /\ \A k \in 1..Len(us) : us[k] \in SetOf(us)
      /\ Len(vs) \in Nat /\ \A k \in 1..Len(vs) : vs[k] \in SetOf(vs)
      /\ Sorted(us) /\ Sorted(vs)
  BY Elements DEF InputInv
<1>4. /\ \A k \in 1..Len(us) : us[k] \in Both /\ us[k].index \in Nat
      /\ \A k \in 1..Len(vs) : vs[k] \in Both /\ vs[k].index \in Nat
  BY <1>3 DEF Both, InputInv
<1>5. m \in 0..Len(us) /\ m + 1 \in 1..Len(us) /\ n \in 0..Len(vs)
  BY <1>3 DEF Merging
<1>6. x \in Both /\ x.index \in Nat
  BY <1>1, <1>4, <1>5
<1>7. \A u \in SetOf(a) : u.index < x.index
  <2>1. m + 1 \in (m + 1)..Len(us)
    BY <1>5
  <2>2. QED
    BY <1>1, <2>1, Zenon DEF Merging
<1>8. a \in Seq(Both) /\ Sorted(a)
  BY DEF Merging
<1>9. b \in Seq(Both) /\ Sorted(b) /\ SetOf(b) = SetOf(a) \cup {x}
  BY <1>2, <1>6, <1>7, <1>8, SortedAppend
<1>10. SetOf(b) = {us[k] : k \in 1..(m + 1)} \cup {vs[k] : k \in 1..n}
  <2>1. {us[k] : k \in 1..(m + 1)} = {us[k] : k \in 1..m} \cup {x}
    BY <1>1, <1>5
  <2>2. SetOf(a) = {us[k] : k \in 1..m} \cup {vs[k] : k \in 1..n}
    BY DEF Merging
  <2>3. QED
    BY <1>9, <2>1, <2>2
<1>11. \A k \in (m + 1 + 1)..Len(us) : x.index < us[k].index
  BY <1>1, <1>3, <1>5 DEF Sorted
<1>12. \A k \in (n + 1)..Len(vs) : x.index < vs[k].index
  <2>1. SUFFICES ASSUME NEW k \in (n + 1)..Len(vs) PROVE x.index < vs[k].index
    OBVIOUS
  <2>2. x.index < vs[n + 1].index /\ n + 1 \in 1..Len(vs) /\ k \in 1..Len(vs)
    BY <1>1, <1>3, <1>5
  <2>3. vs[n + 1].index <= vs[k].index
    BY <1>3, <1>4, <2>2 DEF Sorted
  <2>4. QED
    BY <1>4, <1>6, <2>2, <2>3
<1>13. \A u \in SetOf(b) : \A k \in (m + 1 + 1)..Len(us) : u.index < us[k].index
  <2>1. \A k \in (m + 1 + 1)..Len(us) : k \in (m + 1)..Len(us)
    BY <1>3, <1>5
  <2>2. \A u \in SetOf(a) : \A k \in (m + 1 + 1)..Len(us) : u.index < us[k].index
    BY <2>1, Zenon DEF Merging
  <2>3. QED
    BY <1>9, <1>11, <2>2
<1>14. \A u \in SetOf(b) : \A k \in (n + 1)..Len(vs) : u.index < vs[k].index
  <2>1. \A u \in SetOf(a) : \A k \in (n + 1)..Len(vs) : u.index < vs[k].index
    BY Zenon DEF Merging
  <2>2. QED
    BY <1>9, <1>12, <2>1
<1>15. \A j \in 1..(m + 1), k \in 1..n : us[j].index # vs[k].index
  <2>1. ASSUME NEW k \in 1..n PROVE x.index # vs[k].index
    <3>1. vs[k] \in SetOf(a) /\ k \in 1..Len(vs)
      BY <1>5 DEF Merging
    <3>2. QED
      BY <1>4, <1>6, <1>7, <3>1
  <2>2. \A j \in 1..(m + 1) : j \in 1..m \/ j = m + 1
    BY <1>5
  <2>3. QED
    BY <1>1, <2>1, <2>2, Zenon DEF Merging
<1>16. m + 1 \in 0..Len(us)
  BY <1>5
<1>17. QED
  BY <1>1, <1>2, <1>5, <1>9, <1>10, <1>13, <1>14, <1>15, <1>16, Zenon DEF Merging

\* The two arrays have the same part in it.
LEMMA MergingBoth ==
  ASSUME NEW us, NEW vs, NEW m, NEW n, NEW a, Merging(us, m, vs, n, a)
  PROVE  Merging(vs, n, us, m, a)
<1>1. {us[k] : k \in 1..m} \cup {vs[k] : k \in 1..n}
        = {vs[k] : k \in 1..n} \cup {us[k] : k \in 1..m}
  OBVIOUS
<1>2. QED
  BY <1>1, Zenon DEF Merging

\* Both steps of mergeLayers keep it.
LEMMA TakeKeeps ==
  ASSUME Inv, TakeX \/ TakeY
  PROVE  Inv'
<1>1. /\ pc = "merge" /\ pc' = "merge" /\ UNCHANGED <<inputs, i>>
  BY DEF TakeX, TakeY
<1>2. InputInv /\ Merging(xs, xIndex, ys, yIndex, array) /\ i = 0
  BY <1>1 DEF Inv, MergeInv
<1>3. InputInv' /\ Both' = Both
  BY <1>1, <1>2, InputsKept
<1>4. Merging(xs, xIndex', ys, yIndex', array')
  <2>1. CASE TakeX
    <3>1. /\ xIndex < Len(xs) /\ (yIndex < Len(ys) => xs[xIndex + 1].index < ys[yIndex + 1].index)
          /\ array' = Append(array, xs[xIndex + 1]) /\ xIndex' = xIndex + 1 /\ yIndex' = yIndex
      BY <2>1 DEF TakeX, HasX, HasY
    <3>2. QED
      BY <1>2, <3>1, Taken
  <2>2. CASE TakeY
    <3>1. /\ yIndex < Len(ys) /\ (xIndex < Len(xs) => xs[xIndex + 1].index > ys[yIndex + 1].index)
          /\ array' = Append(array, ys[yIndex + 1]) /\ yIndex' = yIndex + 1 /\ xIndex' = xIndex
      BY <2>2 DEF TakeY, HasX, HasY
    <3>2. xIndex < Len(xs) => ys[yIndex + 1].index < xs[xIndex + 1].index
      <4>1. /\ Len(xs) \in Nat /\ \A k \in 1..Len(xs) : xs[k].index \in Nat
            /\ Len(ys) \in Nat /\ \A k \in 1..Len(ys) : ys[k].index \in Nat
        BY <1>2, Elements DEF InputInv, Both
      <4>2. xIndex \in Nat /\ yIndex \in Nat
        BY <1>2, <4>1 DEF Merging
      <4>3. QED
        BY <3>1, <4>1, <4>2
    <3>3. Merging(ys, yIndex + 1, xs, xIndex, array')
      BY <1>2, <3>1, <3>2, Taken, MergingBoth
    <3>4. QED
      BY <3>1, <3>3, MergingBoth
  <2>3. QED
    BY <2>1, <2>2
<1>5. MergeInv'
  BY <1>1, <1>2, <1>3, <1>4 DEF MergeInv, Merging, inputs
<1>6. EndInv'
  BY <1>1 DEF EndInv
<1>7. QED
  BY <1>1, <1>3, <1>5, <1>6 DEF Inv

\* One index on both sides is a clash of the two levels.
LEMMA DuplicateKeeps ==
  ASSUME Inv, Duplicate
  PROVE  Inv'
<1>1. /\ xIndex < Len(xs) /\ yIndex < Len(ys) /\ pc = "merge" /\ pc' = "duplicateHash"
      /\ xs[xIndex + 1].index = ys[yIndex + 1].index
      /\ UNCHANGED inputs
  BY DEF Duplicate, HasX, HasY
<1>2. InputInv /\ MergeInv
  BY <1>1 DEF Inv
<1>3. InputInv' /\ SetOf(xs)' = SetOf(xs) /\ SetOf(ys)' = SetOf(ys)
  BY <1>1, <1>2, InputsKept
<1>4. /\ Len(xs) \in Nat /\ \A k \in 1..Len(xs) : xs[k] \in SetOf(xs)
      /\ Len(ys) \in Nat /\ \A k \in 1..Len(ys) : ys[k] \in SetOf(ys)
  BY <1>2, Elements DEF InputInv
<1>5. xIndex + 1 \in 1..Len(xs) /\ yIndex + 1 \in 1..Len(ys)
  BY <1>1, <1>2, <1>4 DEF MergeInv, Merging
<1>6. Clash(SetOf(xs), SetOf(ys))
  BY <1>1, <1>4, <1>5, Zenon DEF Clash
<1>7. Clash(SetOf(xs), SetOf(ys))'
  BY <1>3, <1>6 DEF Clash
<1>8. EndInv'
  BY <1>1, <1>7 DEF EndInv
<1>9. QED
  BY <1>1, <1>3, <1>8 DEF Inv

\* What the loop of hashLayer keeps when it goes on.
LEMMA GoingOn ==
  ASSUME InputInv, ~Clash(SetOf(xs), SetOf(ys)), UNCHANGED inputs, pc' = "hash",
         NEW a \in Seq(Both), Began(a)', array' \in Seq(SetOf(array)')
  PROVE  Inv'
<1>1. InputInv' /\ Both' = Both /\ SetOf(xs)' = SetOf(xs) /\ SetOf(ys)' = SetOf(ys)
  BY InputsKept
<1>2. ~Clash(SetOf(xs), SetOf(ys))'
  BY <1>1 DEF Clash
<1>3. HashInv'
  BY <1>1, <1>2 DEF HashInv
<1>4. EndInv'
  BY DEF EndInv
<1>5. QED
  BY <1>1, <1>3, <1>4 DEF Inv

\* The array of all elements is where hashLayer begins.
LEMMA MergedKeeps ==
  ASSUME Inv, Merged
  PROVE  Inv'
<1>1. /\ ~(xIndex < Len(xs)) /\ ~(yIndex < Len(ys)) /\ pc = "merge" /\ pc' = "hash"
      /\ UNCHANGED <<inputs, array, i>>
  BY DEF Merged, HasX, HasY
<1>2. InputInv /\ MergeInv
  BY <1>1 DEF Inv
<1>3. /\ InputInv' /\ Both' = Both /\ SetOf(xs)' = SetOf(xs) /\ SetOf(ys)' = SetOf(ys)
  BY <1>1, <1>2, InputsKept
<1>4. /\ Len(xs) \in Nat /\ SetOf(xs) = {xs[k] : k \in 1..Len(xs)}
      /\ Len(ys) \in Nat /\ SetOf(ys) = {ys[k] : k \in 1..Len(ys)}
  BY <1>2, Elements DEF InputInv
<1>5. xIndex = Len(xs) /\ yIndex = Len(ys)
  BY <1>1, <1>2, <1>4 DEF MergeInv, Merging
<1>6. SetOf(array) = Both
  BY <1>2, <1>4, <1>5 DEF MergeInv, Merging, Both
<1>7. ~Clash(SetOf(xs), SetOf(ys))
  BY <1>2, <1>4, <1>5 DEF MergeInv, Merging, Clash
<1>8. Len(array) \in Nat /\ array \in Seq(Both) /\ array \in Seq(SetOf(array))
  BY <1>2, Elements DEF MergeInv, Merging
<1>9. Began(array)
  <2>1. \A k \in 1..Len(array) : ~(2 * k <= 0)
    BY <1>8
  <2>2. QED
    BY <1>2, <1>6, <1>8, <2>1 DEF MergeInv, Merging, Began
<1>10. PICK a \in Seq(Both) : a = array
  BY <1>8
<1>11. Began(a)'
  <2>1. Began(a) /\ array' = array /\ i' = i /\ lastIndex' = lastIndex
    BY <1>1, <1>9, <1>10 DEF inputs
  <2>2. QED
    BY <1>3, <2>1 DEF Began
<1>12. array' \in Seq(SetOf(array)')
  BY <1>1, <1>8 DEF SetOf
<1>13. QED
  BY <1>1, <1>2, <1>7, <1>11, <1>12, GoingOn

-----------------------------------------------------------------------------
(* hashLayer.                                                              *)

\* Even and odd numbers take turns.
LEMMA Parity ==
  ASSUME NEW n \in Nat
  PROVE  (n % 2 = 0 => (n + 1) % 2 = 1) /\ (n % 2 = 1 => (n + 1) % 2 = 0)
OBVIOUS

\* The elements of the array that hashLayer began with, in numbers.
LEMMA Beginning ==
  ASSUME InputInv, NEW a \in Seq(Both), Began(a)
  PROVE  /\ Len(a) \in Nat /\ lastIndex \in Nat
         /\ \A k \in 1..Len(a) : /\ a[k] \in Both
                                 /\ a[k].index \in Nat /\ a[k].index <= lastIndex
         /\ \A x \in Both : \E k \in 1..Len(a) : x = a[k]
         /\ \A j, k \in 1..Len(a) : j < k => a[j].index < a[k].index
<1>1. Len(a) \in Nat /\ \A k \in 1..Len(a) : a[k] \in Both
  BY Elements
<1>2. SetOf(a) = {a[k] : k \in 1..Len(a)}
  BY Elements
<1>3. \A x \in Both : \E k \in 1..Len(a) : x = a[k]
  BY <1>2 DEF Began
<1>4. lastIndex \in Nat /\ \A x \in Both : x.index \in Nat /\ x.index <= lastIndex
  BY DEF InputInv
<1>5. Sorted(a)
  BY DEF Began
<1>6. QED
  BY <1>1, <1>3, <1>4, <1>5 DEF Sorted

\* Of the pairs that are hashed the left one has an even index and the right one
\* an odd index.
LEMMA EvenFirst ==
  ASSUME InputInv, NEW a \in Seq(Both), Began(a), NEW k \in 1..Len(a), 2 * k <= i
  PROVE  /\ 2 * k - 1 \in 1..Len(a) /\ a[2 * k - 1].index % 2 = 0
         /\ array[k].index = a[2 * k - 1].index \div 2
         /\ 2 * k \in 1..Len(a) => /\ a[2 * k].index = a[2 * k - 1].index + 1
                                   /\ a[2 * k].index % 2 = 1
<1>1. Len(a) \in Nat /\ \A j \in 1..Len(a) : a[j].index \in Nat
  BY Beginning
<1>2. IsPair(a, k, array[k]) \/ IsLast(a, lastIndex, k, array[k])
  BY DEF Began
<1>3. CASE IsPair(a, k, array[k])
  <2>1. /\ 2 * k <= Len(a) /\ a[2 * k - 1].index % 2 = 0
        /\ a[2 * k].index = a[2 * k - 1].index + 1
        /\ array[k].index = a[2 * k - 1].index \div 2
    BY <1>3 DEF IsPair
  <2>2. 2 * k - 1 \in 1..Len(a)
    BY <1>1, <2>1
  <2>3. a[2 * k - 1].index \in Nat
    BY <1>1, <2>2
  <2>4. a[2 * k].index % 2 = 1
    BY <2>1, <2>3, Parity
  <2>5. QED
    BY <2>1, <2>2, <2>4
<1>4. CASE IsLast(a, lastIndex, k, array[k])
  <2>1. /\ 2 * k - 1 = Len(a) /\ a[2 * k - 1].index % 2 = 0
        /\ array[k].index = a[2 * k - 1].index \div 2
    BY <1>4 DEF IsLast
  <2>2. 2 * k - 1 \in 1..Len(a) /\ 2 * k \notin 1..Len(a)
    BY <1>1, <2>1
  <2>3. QED
    BY <2>1, <2>2
<1>5. QED
  BY <1>2, <1>3, <1>4

\* An odd element that comes next has no neighbour: it is not behind it, and the one
\* before it is odd as well.
LEMMA OddNext ==
  ASSUME InputInv, NEW a \in Seq(Both), Began(a), i + 1 <= Len(a), a[i + 1].index % 2 = 1
  PROVE  ~Complete
<1>1. /\ Len(a) \in Nat /\ lastIndex \in Nat
      /\ \A k \in 1..Len(a) : a[k] \in Both /\ a[k].index \in Nat
  BY Beginning
<1>2. \A x \in Both : \E k \in 1..Len(a) : x = a[k]
  BY Beginning
<1>3. \A j, k \in 1..Len(a) : j < k => a[j].index < a[k].index
  BY Beginning
<1>4. i \in Nat /\ i % 2 = 0 /\ i + 1 \in 1..Len(a)
  BY <1>1 DEF Began
<1>5. PICK n \in Nat : n = a[i + 1].index /\ n % 2 = 1
  BY <1>1, <1>4
<1>6. \A k \in 1..Len(a) : a[k].index # n - 1
  <2>1. SUFFICES ASSUME NEW k \in 1..Len(a), a[k].index = n - 1 PROVE FALSE
    OBVIOUS
  <2>2. k < i + 1
    <3>1. ~(i + 1 < k) /\ k # i + 1
      BY <1>1, <1>3, <1>4, <1>5, <2>1
    <3>2. QED
      BY <1>4, <3>1
  <2>3. PICK h \in Nat : i = 2 * h
    BY <1>4
  <2>4. i \in 1..Len(a) /\ h \in 1..Len(a)
    BY <1>1, <1>4, <2>2, <2>3
  <2>5. a[i].index % 2 = 1
    BY <2>3, <2>4, EvenFirst
  <2>6. i < i + 1 /\ (k = i \/ k < i)
    BY <1>4, <2>2
  <2>7. a[i].index < n /\ (a[k].index = a[i].index \/ a[k].index < a[i].index)
    BY <1>3, <1>4, <1>5, <2>4, <2>6
  <2>8. PICK m \in Nat : m = a[i].index
    BY <1>1, <2>4
  <2>9. m < n /\ n - 1 <= m
    BY <2>1, <2>7, <2>8
  <2>10. n = m + 1
    BY <2>9
  <2>11. m % 2 = 1 /\ n % 2 = 1 /\ n % 2 = 0
    BY <1>5, <2>5, <2>8, <2>10, Parity
  <2>12. QED
    BY <2>11
<1>7. \A y \in Both : y.index # n - 1
  BY <1>2, <1>6, Zenon
<1>8. ~Paired(a[i + 1], Both, lastIndex)
  BY <1>5, <1>7 DEF Paired
<1>9. QED
  BY <1>1, <1>4, <1>8, Zenon DEF Complete

\* An even element without the one behind it and before the end has no neighbour.
LEMMA EvenNext ==
  ASSUME InputInv, NEW a \in Seq(Both), Began(a), i + 1 <= Len(a), a[i + 1].index % 2 = 0,
         i + 2 <= Len(a) => a[i + 2].index # a[i + 1].index + 1,
         a[i + 1].index # lastIndex
  PROVE  ~Complete
<1>1. /\ Len(a) \in Nat /\ lastIndex \in Nat
      /\ \A k \in 1..Len(a) : a[k] \in Both /\ a[k].index \in Nat
  BY Beginning
<1>2. \A x \in Both : \E k \in 1..Len(a) : x = a[k]
  BY Beginning
<1>3. \A j, k \in 1..Len(a) : j < k => a[j].index < a[k].index
  BY Beginning
<1>4. i \in Nat /\ i + 1 \in 1..Len(a)
  BY <1>1 DEF Began
<1>5. PICK n \in Nat : n = a[i + 1].index /\ n % 2 = 0 /\ n # lastIndex
  BY <1>1, <1>4
<1>6. \A k \in 1..Len(a) : a[k].index # n + 1
  <2>1. SUFFICES ASSUME NEW k \in 1..Len(a), a[k].index = n + 1 PROVE FALSE
    OBVIOUS
  <2>2. i + 1 < k
    <3>1. ~(k < i + 1) /\ k # i + 1
      BY <1>1, <1>3, <1>4, <1>5, <2>1
    <3>2. QED
      BY <1>4, <3>1
  <2>3. i + 2 \in 1..Len(a) /\ i + 1 < i + 2 /\ (k = i + 2 \/ i + 2 < k)
    BY <1>1, <1>4, <2>2
  <2>4. n < a[i + 2].index /\ (a[k].index = a[i + 2].index \/ a[i + 2].index < a[k].index)
    BY <1>3, <1>4, <1>5, <2>3
  <2>5. a[i + 2].index \in Nat /\ a[i + 2].index # n + 1
    BY <1>1, <1>5, <2>3
  <2>6. QED
    BY <1>5, <2>1, <2>4, <2>5
<1>7. \A y \in Both : y.index # n + 1
  BY <1>2, <1>6, Zenon
<1>8. ~Paired(a[i + 1], Both, lastIndex)
  BY <1>5, <1>7 DEF Paired
<1>9. QED
  BY <1>1, <1>4, <1>8, Zenon DEF Complete

\* Writing what the next pair is hashed to goes on with the same array.
LEMMA Written ==
  ASSUME InputInv, NEW a \in Seq(Both), Began(a), array \in Seq(SetOf(array)),
         NEW h \in Nat, i = 2 * h, h + 1 \in 1..Len(a), i + 1 <= Len(a),
         NEW e, IsPair(a, h + 1, e) \/ IsLast(a, lastIndex, h + 1, e),
         array' = [array EXCEPT ![h + 1] = e], i' = i + 2, UNCHANGED inputs
  PROVE  array' \in Seq(SetOf(array)') /\ Began(a)'
<1>1. Len(a) \in Nat
  BY Elements
<1>2. /\ Len(array) = Len(a) /\ Sorted(a) /\ SetOf(a) = Both
      /\ \A k \in 1..Len(a) :
           IF 2 * k <= i THEN IsPair(a, k, array[k]) \/ IsLast(a, lastIndex, k, array[k])
                         ELSE array[k] = a[k]
  BY DEF Began
<1>3. PICK S : S = SetOf(array) \cup {e}
  OBVIOUS
<1>4. array \in Seq(S) /\ e \in S /\ h + 1 \in 1..Len(array)
  BY <1>2, <1>3, SeqMonotonic
<1>5. PICK b : b = array'
  OBVIOUS
<1>6. /\ b \in Seq(S) /\ Len(b) = Len(array)
      /\ \A k \in 1..Len(array) : b[k] = IF k = h + 1 THEN e ELSE array[k]
  BY <1>4, <1>5, ExceptSeq
<1>7. b \in Seq(SetOf(b))
  BY <1>6, Elements
<1>8. ASSUME NEW k \in 1..Len(a)
      PROVE  IF 2 * k <= i + 2 THEN IsPair(a, k, b[k]) \/ IsLast(a, lastIndex, k, b[k])
                               ELSE b[k] = a[k]
  <2>1. CASE k = h + 1
    <3>1. b[k] = e /\ 2 * k <= i + 2
      BY <1>2, <1>6, <2>1
    <3>2. QED
      BY <2>1, <3>1, Zenon
  <2>2. CASE k < h + 1
    <3>1. b[k] = array[k] /\ 2 * k <= i /\ 2 * k <= i + 2
      BY <1>2, <1>6, <2>2
    <3>2. QED
      BY <1>2, <3>1, Zenon
  <2>3. CASE k > h + 1
    <3>1. b[k] = array[k] /\ ~(2 * k <= i) /\ ~(2 * k <= i + 2)
      BY <1>2, <1>6, <2>3
    <3>2. QED
      BY <1>2, <3>1, Zenon
  <2>4. QED
    BY <2>1, <2>2, <2>3
<1>9. Both' = Both /\ lastIndex' = lastIndex
  BY InputsKept DEF inputs
<1>10. i' = 2 * (h + 1) /\ i' \in Nat /\ i' % 2 = 0 /\ i' <= Len(a) + 1
  BY <1>1
<1>11. Len(array') = Len(a) /\ i' = i + 2
  BY <1>2, <1>5, <1>6
<1>12. Began(a)'
  BY <1>2, <1>5, <1>8, <1>9, <1>10, <1>11, Zenon DEF Began
<1>13. array' \in Seq(SetOf(array)')
  BY <1>5, <1>7 DEF SetOf
<1>14. QED
  BY <1>12, <1>13

\* Where the loop of hashLayer stands.
LEMMA Standing ==
  ASSUME InputInv, NEW a \in Seq(Both), Began(a), i + 1 <= Len(array)
  PROVE  /\ Len(array) = Len(a) /\ i + 1 \in 1..Len(a) /\ array[i + 1] = a[i + 1]
         /\ i + 2 <= Len(a) => i + 2 \in 1..Len(a) /\ array[i + 2] = a[i + 2]
         /\ \E h \in Nat : /\ i = 2 * h /\ i \div 2 + 1 = h + 1 /\ h + 1 \in 1..Len(a)
                           /\ i + 1 = 2 * (h + 1) - 1 /\ i + 2 = 2 * (h + 1)
<1>1. Len(a) \in Nat
  BY Elements
<1>2. /\ Len(array) = Len(a) /\ i \in Nat /\ i % 2 = 0
      /\ \A k \in 1..Len(a) : ~(2 * k <= i) => array[k] = a[k]
  BY DEF Began
<1>3. i + 1 \in 1..Len(a) /\ ~(2 * (i + 1) <= i)
  BY <1>1, <1>2
<1>4. i + 2 <= Len(a) => i + 2 \in 1..Len(a) /\ ~(2 * (i + 2) <= i)
  BY <1>1, <1>2
<1>5. PICK h \in Nat : i = 2 * h
  BY <1>2
<1>6. /\ i \div 2 + 1 = h + 1 /\ h + 1 \in 1..Len(a)
      /\ i + 1 = 2 * (h + 1) - 1 /\ i + 2 = 2 * (h + 1)
  BY <1>1, <1>3, <1>5
<1>7. QED
  BY <1>2, <1>3, <1>4, <1>5, <1>6, Zenon

\* The error of hashLayer.
LEMMA MissingKeeps ==
  ASSUME InputInv, ~Clash(SetOf(xs), SetOf(ys)), ~Complete,
         pc' = "missingHash", UNCHANGED inputs
  PROVE  Inv'
<1>1. InputInv' /\ Both' = Both /\ SetOf(xs)' = SetOf(xs) /\ SetOf(ys)' = SetOf(ys)
  BY InputsKept
<1>2. lastIndex' = lastIndex
  BY DEF inputs
<1>3. ~Clash(SetOf(xs), SetOf(ys))' /\ ~Complete'
  BY <1>1, <1>2 DEF Clash, Complete, Paired
<1>4. EndInv'
  BY <1>3 DEF EndInv
<1>5. QED
  BY <1>1, <1>4 DEF Inv

\* A pair that is not adjacent has an element without its neighbour.
LEMMA ZipPairKeeps ==
  ASSUME Inv, ZipPair
  PROVE  Inv'
<1>1. /\ pc = "hash" /\ i + 1 < Len(array) /\ UNCHANGED inputs
  BY DEF ZipPair
<1>2. InputInv /\ HashInv
  BY <1>1 DEF Inv
<1>3. PICK a \in Seq(Both) : Began(a)
  BY <1>2 DEF HashInv
<1>4. Len(a) \in Nat /\ i \in Nat /\ Len(array) = Len(a)
  BY <1>3, Elements DEF Began
<1>5. /\ i + 1 \in 1..Len(a) /\ i + 2 \in 1..Len(a) /\ i + 1 <= Len(a) /\ i + 2 <= Len(a)
      /\ array[i + 1] = a[i + 1] /\ array[i + 2] = a[i + 2]
  BY <1>1, <1>2, <1>3, <1>4, Standing
<1>6. /\ a[i + 1].index \in Nat /\ a[i + 2].index \in Nat
      /\ a[i + 1].index < a[i + 2].index /\ a[i + 2].index <= lastIndex /\ lastIndex \in Nat
  <2>1. /\ \A k \in 1..Len(a) : a[k].index \in Nat /\ a[k].index <= lastIndex
        /\ \A j, k \in 1..Len(a) : j < k => a[j].index < a[k].index
        /\ lastIndex \in Nat
    BY <1>2, <1>3, Beginning
  <2>2. i + 1 < i + 2
    BY <1>4
  <2>3. QED
    BY <1>5, <2>1, <2>2
<1>7. CASE ~(a[i + 1].index % 2 = 0 /\ a[i + 2].index = a[i + 1].index + 1)
  <2>1. pc' = "missingHash"
    BY <1>5, <1>7 DEF ZipPair
  <2>2. ~Complete
    <3>1. CASE a[i + 1].index % 2 = 1
      BY <1>2, <1>3, <1>5, <3>1, OddNext
    <3>2. CASE a[i + 1].index % 2 = 0
      <4>1. a[i + 2].index # a[i + 1].index + 1 /\ a[i + 1].index # lastIndex
        BY <1>6, <1>7, <3>2
      <4>2. QED
        BY <1>2, <1>3, <1>5, <3>2, <4>1, EvenNext
    <3>3. a[i + 1].index % 2 \in {0, 1}
      BY <1>6
    <3>4. QED
      BY <3>1, <3>2, <3>3
  <2>3. QED
    BY <1>1, <1>2, <2>1, <2>2, MissingKeeps DEF HashInv
<1>8. CASE a[i + 1].index % 2 = 0 /\ a[i + 2].index = a[i + 1].index + 1
  <2>1. PICK h \in Nat : /\ i = 2 * h /\ i \div 2 + 1 = h + 1 /\ h + 1 \in 1..Len(a)
                         /\ i + 1 = 2 * (h + 1) - 1 /\ i + 2 = 2 * (h + 1)
    BY <1>2, <1>3, <1>4, <1>5, Standing
  <2>2. PICK e : e = [index |-> a[i + 1].index \div 2,
                      hash |-> Node(a[i + 1].hash, a[i + 2].hash)]
    OBVIOUS
  <2>3. array' = [array EXCEPT ![h + 1] = e] /\ i' = i + 2 /\ pc' = "hash"
    BY <1>1, <1>5, <1>8, <2>1, <2>2 DEF ZipPair, Put
  <2>4. IsPair(a, h + 1, e)
    BY <1>5, <1>8, <2>1, <2>2 DEF IsPair
  <2>5. Began(a)' /\ array' \in Seq(SetOf(array)')
    BY <1>1, <1>2, <1>3, <1>5, <2>1, <2>3, <2>4, Written DEF HashInv
  <2>6. QED
    BY <1>1, <1>2, <1>3, <2>3, <2>5, GoingOn DEF HashInv
<1>9. QED
  BY <1>7, <1>8

\* A solitary element that is not the last of an odd number has no neighbour.
LEMMA ZipLastKeeps ==
  ASSUME Inv, ZipLast
  PROVE  Inv'
<1>1. /\ pc = "hash" /\ i + 1 = Len(array) /\ UNCHANGED inputs
  BY DEF ZipLast
<1>2. InputInv /\ HashInv
  BY <1>1 DEF Inv
<1>3. PICK a \in Seq(Both) : Began(a)
  BY <1>2 DEF HashInv
<1>4. Len(a) \in Nat /\ i \in Nat /\ Len(array) = Len(a)
  BY <1>3, Elements DEF Began
<1>5. i + 1 \in 1..Len(a) /\ i + 1 <= Len(a) /\ ~(i + 2 <= Len(a)) /\ array[i + 1] = a[i + 1]
  BY <1>1, <1>2, <1>3, <1>4, Standing
<1>6. a[i + 1].index \in Nat /\ lastIndex \in Nat
  BY <1>2, <1>3, <1>5, Beginning
<1>7. CASE ~(lastIndex % 2 = 0 /\ a[i + 1].index = lastIndex)
  <2>1. pc' = "missingHash"
    BY <1>5, <1>7 DEF ZipLast
  <2>2. ~Complete
    <3>1. CASE a[i + 1].index % 2 = 1
      BY <1>2, <1>3, <1>5, <3>1, OddNext
    <3>2. CASE a[i + 1].index % 2 = 0
      <4>1. a[i + 1].index # lastIndex
        BY <1>6, <1>7, <3>2
      <4>2. QED
        BY <1>2, <1>3, <1>5, <3>2, <4>1, EvenNext
    <3>3. a[i + 1].index % 2 \in {0, 1}
      BY <1>6
    <3>4. QED
      BY <3>1, <3>2, <3>3
  <2>3. QED
    BY <1>1, <1>2, <2>1, <2>2, MissingKeeps DEF HashInv
<1>8. CASE lastIndex % 2 = 0 /\ a[i + 1].index = lastIndex
  <2>1. PICK h \in Nat : /\ i = 2 * h /\ i \div 2 + 1 = h + 1 /\ h + 1 \in 1..Len(a)
                         /\ i + 1 = 2 * (h + 1) - 1
    BY <1>2, <1>3, <1>4, <1>5, Standing
  <2>2. PICK e : e = [index |-> a[i + 1].index \div 2, hash |-> Solitary(a[i + 1].hash)]
    OBVIOUS
  <2>3. array' = [array EXCEPT ![h + 1] = e] /\ i' = i + 2 /\ pc' = "hash"
    BY <1>1, <1>5, <1>8, <2>1, <2>2 DEF ZipLast, Put
  <2>4. IsLast(a, lastIndex, h + 1, e)
    BY <1>1, <1>4, <1>8, <2>1, <2>2 DEF IsLast
  <2>5. Began(a)' /\ array' \in Seq(SetOf(array)')
    BY <1>1, <1>2, <1>3, <1>5, <2>1, <2>3, <2>4, Written DEF HashInv
  <2>6. QED
    BY <1>1, <1>2, <1>3, <2>3, <2>5, GoingOn DEF HashInv
<1>9. QED
  BY <1>7, <1>8

\* What two neighbours and a last element are zipped to is in the level above.
LEMMA ZippedHas ==
  ASSUME NEW S, NEW last, NEW x \in S, x.index % 2 = 0
  PROVE  /\ \A y \in S : y.index = x.index + 1 =>
              [index |-> x.index \div 2, hash |-> Node(x.hash, y.hash)] \in Zipped(S, last)
         /\ x.index = last =>
              [index |-> x.index \div 2, hash |-> Solitary(x.hash)] \in Zipped(S, last)
<1>1. ASSUME NEW y \in S, y.index = x.index + 1
      PROVE  [index |-> x.index \div 2, hash |-> Node(x.hash, y.hash)] \in Zipped(S, last)
  <2> DEFINE f(z) == [index |-> z[1].index \div 2, hash |-> Node(z[1].hash, z[2].hash)]
  <2>1. <<x, y>> \in Pairs(S)
    BY <1>1 DEF Pairs
  <2>2. f(<<x, y>>) = [index |-> x.index \div 2, hash |-> Node(x.hash, y.hash)]
    OBVIOUS
  <2>3. f(<<x, y>>) \in {f(z) : z \in Pairs(S)}
    BY <2>1
  <2>4. QED
    BY <2>2, <2>3 DEF Zipped
<1>2. ASSUME x.index = last
      PROVE  [index |-> x.index \div 2, hash |-> Solitary(x.hash)] \in Zipped(S, last)
  BY <1>2 DEF Zipped
<1>3. QED
  BY <1>1, <1>2

\* And nothing else is.
LEMMA ZippedOnly ==
  ASSUME NEW S, NEW last, NEW e \in Zipped(S, last)
  PROVE  \/ \E x, y \in S : /\ x.index % 2 = 0 /\ y.index = x.index + 1
                            /\ e = [index |-> x.index \div 2, hash |-> Node(x.hash, y.hash)]
         \/ \E x \in S : /\ x.index % 2 = 0 /\ x.index = last
                         /\ e = [index |-> x.index \div 2, hash |-> Solitary(x.hash)]
BY DEF Zipped, Pairs

\* At the end of the loop every element is in a pair, or the last one alone.
LEMMA AllZipped ==
  ASSUME InputInv, NEW a \in Seq(Both), Began(a), i >= Len(a), NEW j \in 1..Len(a)
  PROVE  \E k \in 1..Len(a) : /\ 2 * k <= i /\ (j = 2 * k - 1 \/ j = 2 * k)
                              /\ k \in 1..((Len(a) + 1) \div 2)
                              /\ IsPair(a, k, array[k]) \/ IsLast(a, lastIndex, k, array[k])
<1>1. Len(a) \in Nat
  BY Elements
<1>2. i \in Nat /\ i % 2 = 0
  BY DEF Began
<1>3. PICK h \in Nat : i = 2 * h
  BY <1>2
<1>4. PICK k \in Nat : j = 2 * k - 1 \/ j = 2 * k
  <2>1. (j + 1) \div 2 \in Nat /\ (j = 2 * ((j + 1) \div 2) - 1 \/ j = 2 * ((j + 1) \div 2))
    OBVIOUS
  <2>2. QED
    BY <2>1
<1>5. k \in 1..Len(a) /\ 2 * k <= i /\ k \in 1..((Len(a) + 1) \div 2)
  BY <1>1, <1>3, <1>4
<1>6. IsPair(a, k, array[k]) \/ IsLast(a, lastIndex, k, array[k])
  BY <1>5 DEF Began
<1>7. QED
  BY <1>4, <1>5, <1>6, Zenon

\* So no element lacks its neighbour.
LEMMA EndComplete ==
  ASSUME InputInv, NEW a \in Seq(Both), Began(a), i >= Len(a)
  PROVE  Complete
<1>1. \A x \in Both : \E k \in 1..Len(a) : x = a[k]
  BY Beginning
<1>2. Len(a) \in Nat /\ \A k \in 1..Len(a) : a[k] \in Both /\ a[k].index \in Nat
  BY Beginning
<1>3. ASSUME NEW j \in 1..Len(a)
      PROVE  Paired(a[j], Both, lastIndex)
  <2>1. PICK k \in 1..Len(a) :
          /\ 2 * k <= i /\ (j = 2 * k - 1 \/ j = 2 * k)
          /\ IsPair(a, k, array[k]) \/ IsLast(a, lastIndex, k, array[k])
    BY AllZipped
  <2>2. CASE IsPair(a, k, array[k])
    <3>1. PICK x : x = a[2 * k - 1]
      OBVIOUS
    <3>2. PICK y : y = a[2 * k]
      OBVIOUS
    <3>3. 2 * k - 1 \in 1..Len(a) /\ 2 * k \in 1..Len(a)
      BY <1>2, <2>2 DEF IsPair
    <3>4. x \in Both /\ y \in Both /\ x.index \in Nat /\ y.index = x.index + 1 /\ x.index % 2 = 0
      BY <1>2, <2>2, <3>1, <3>2, <3>3 DEF IsPair
    <3>5. y.index % 2 = 1 /\ x.index = y.index - 1
      BY <3>4, Parity
    <3>6. a[j] = x \/ a[j] = y
      BY <2>1, <3>1, <3>2
    <3>7. QED
      BY <3>4, <3>5, <3>6, Zenon DEF Paired
  <2>3. CASE IsLast(a, lastIndex, k, array[k])
    <3>1. 2 * k - 1 = Len(a) /\ lastIndex % 2 = 0 /\ a[2 * k - 1].index = lastIndex
      BY <2>3 DEF IsLast
    <3>2. j = 2 * k - 1
      BY <1>2, <2>1, <3>1
    <3>3. QED
      BY <3>1, <3>2, Zenon DEF Paired
  <2>4. QED
    BY <2>1, <2>2, <2>3
<1>4. QED
  BY <1>1, <1>3, Zenon DEF Complete

\* The front half of the array is the level above.
LEMMA EndZipped ==
  ASSUME InputInv, NEW a \in Seq(Both), Began(a), i >= Len(a)
  PROVE  {array[k] : k \in 1..((Len(a) + 1) \div 2)} = Zipped(Both, lastIndex)
<1>1. /\ Len(a) \in Nat /\ lastIndex \in Nat
      /\ \A k \in 1..Len(a) : /\ a[k] \in Both
                              /\ a[k].index \in Nat /\ a[k].index <= lastIndex
  BY Beginning
<1>2. \A x \in Both : \E k \in 1..Len(a) : x = a[k]
  BY Beginning
<1>3. \A j, k \in 1..Len(a) : j < k => a[j].index < a[k].index
  BY Beginning
<1>4. PICK H : H = {array[k] : k \in 1..((Len(a) + 1) \div 2)}
  OBVIOUS
<1>5. ASSUME NEW k \in 1..((Len(a) + 1) \div 2)
      PROVE  array[k] \in Zipped(Both, lastIndex)
  <2>1. k \in 1..Len(a) /\ 2 * k <= i
    <3>1. i \in Nat /\ i % 2 = 0
      BY DEF Began
    <3>2. PICK h \in Nat : i = 2 * h
      BY <3>1
    <3>3. Len(a) <= 2 * h
      BY <3>2
    <3>4. (Len(a) + 1) \div 2 <= h /\ (Len(a) + 1) \div 2 <= Len(a)
      BY <1>1, <3>2, <3>3
    <3>5. QED
      BY <1>1, <3>2, <3>4
  <2>2. IsPair(a, k, array[k]) \/ IsLast(a, lastIndex, k, array[k])
    BY <2>1 DEF Began
  <2>3. 2 * k - 1 \in 1..Len(a) /\ a[2 * k - 1] \in Both /\ a[2 * k - 1].index % 2 = 0
    BY <1>1, <2>1, EvenFirst
  <2>4. CASE IsPair(a, k, array[k])
    <3>1. 2 * k \in 1..Len(a) /\ a[2 * k] \in Both
      BY <1>1, <2>1, <2>4 DEF IsPair
    <3>2. QED
      BY <2>3, <2>4, <3>1, ZippedHas DEF IsPair
  <2>5. CASE IsLast(a, lastIndex, k, array[k])
    BY <2>3, <2>5, ZippedHas DEF IsLast
  <2>6. QED
    BY <2>2, <2>4, <2>5
<1>6. ASSUME NEW j \in 1..Len(a), a[j].index % 2 = 0
      PROVE  \E k \in 1..((Len(a) + 1) \div 2) :
               /\ j = 2 * k - 1
               /\ IsPair(a, k, array[k]) \/ IsLast(a, lastIndex, k, array[k])
  <2>1. PICK k \in 1..Len(a) :
          /\ 2 * k <= i /\ (j = 2 * k - 1 \/ j = 2 * k)
          /\ k \in 1..((Len(a) + 1) \div 2)
          /\ IsPair(a, k, array[k]) \/ IsLast(a, lastIndex, k, array[k])
    BY AllZipped
  <2>2. j # 2 * k
    <3>1. 2 * k \in 1..Len(a) => a[2 * k].index % 2 = 1
      BY <2>1, EvenFirst
    <3>2. QED
      BY <1>6, <3>1
  <2>3. QED
    BY <2>1, <2>2, Zenon
<1>7. ASSUME NEW e \in Zipped(Both, lastIndex)
      PROVE  e \in H
  <2>1. CASE \E x, y \in Both : /\ x.index % 2 = 0 /\ y.index = x.index + 1
                                /\ e = [index |-> x.index \div 2, hash |-> Node(x.hash, y.hash)]
    <3>1. PICK x \in Both, y \in Both :
            /\ x.index % 2 = 0 /\ y.index = x.index + 1
            /\ e = [index |-> x.index \div 2, hash |-> Node(x.hash, y.hash)]
      BY <2>1
    <3>2. PICK j \in 1..Len(a) : x = a[j]
      BY <1>2
    <3>3. PICK l \in 1..Len(a) : y = a[l]
      BY <1>2
    <3>4. PICK k \in 1..((Len(a) + 1) \div 2) :
            /\ j = 2 * k - 1
            /\ IsPair(a, k, array[k]) \/ IsLast(a, lastIndex, k, array[k])
      BY <1>6, <3>1, <3>2
    <3>5. j < l
      <4>1. ~(l < j) /\ l # j
        BY <1>1, <1>3, <3>1, <3>2, <3>3
      <4>2. QED
        BY <1>1, <4>1
    <3>6. 2 * k - 1 # Len(a)
      BY <1>1, <3>4, <3>5
    <3>7. IsPair(a, k, array[k])
      BY <3>4, <3>6 DEF IsLast
    <3>8. l = 2 * k
      <4>1. a[2 * k].index = a[l].index /\ 2 * k \in 1..Len(a)
        BY <1>1, <3>1, <3>2, <3>3, <3>4, <3>7 DEF IsPair
      <4>2. ~(l < 2 * k) /\ ~(2 * k < l)
        BY <1>1, <1>3, <4>1
      <4>3. QED
        BY <1>1, <4>2
    <3>9. e = array[k]
      BY <3>1, <3>2, <3>3, <3>4, <3>7, <3>8 DEF IsPair
    <3>10. QED
      BY <1>4, <3>9
  <2>2. CASE \E x \in Both : /\ x.index % 2 = 0 /\ x.index = lastIndex
                             /\ e = [index |-> x.index \div 2, hash |-> Solitary(x.hash)]
    <3>1. PICK x \in Both : /\ x.index % 2 = 0 /\ x.index = lastIndex
                            /\ e = [index |-> x.index \div 2, hash |-> Solitary(x.hash)]
      BY <2>2
    <3>2. PICK j \in 1..Len(a) : x = a[j]
      BY <1>2
    <3>3. PICK k \in 1..((Len(a) + 1) \div 2) :
            /\ j = 2 * k - 1
            /\ IsPair(a, k, array[k]) \/ IsLast(a, lastIndex, k, array[k])
      BY <1>6, <3>1, <3>2
    <3>4. ~IsPair(a, k, array[k])
      <4>1. SUFFICES ASSUME IsPair(a, k, array[k]) PROVE FALSE
        OBVIOUS
      <4>2. a[2 * k].index = lastIndex + 1 /\ 2 * k \in 1..Len(a)
        BY <1>1, <3>1, <3>2, <3>3, <4>1 DEF IsPair
      <4>3. QED
        BY <1>1, <4>2
    <3>5. e = array[k]
      BY <3>1, <3>2, <3>3, <3>4 DEF IsLast
    <3>6. QED
      BY <1>4, <3>5
  <2>3. QED
    BY <2>1, <2>2, ZippedOnly
<1>8. H = Zipped(Both, lastIndex)
  <2>1. \A e \in H : e \in Zipped(Both, lastIndex)
    BY <1>4, <1>5
  <2>2. QED
    BY <1>7, <2>1
<1>9. QED
  BY <1>4, <1>8

\* It is in the order of the indexes, as halves of even numbers are.
LEMMA EndSorted ==
  ASSUME InputInv, NEW a \in Seq(Both), Began(a), i >= Len(a),
         NEW k \in 1..((Len(a) + 1) \div 2), NEW l \in 1..((Len(a) + 1) \div 2), k < l
  PROVE  array[k].index < array[l].index
<1>1. Len(a) \in Nat /\ i \in Nat /\ i % 2 = 0
  BY Elements DEF Began
<1>2. k \in 1..Len(a) /\ 2 * k <= i /\ l \in 1..Len(a) /\ 2 * l <= i
  BY <1>1
<1>3. /\ 2 * k - 1 \in 1..Len(a) /\ a[2 * k - 1].index % 2 = 0
      /\ array[k].index = a[2 * k - 1].index \div 2
  BY <1>2, EvenFirst
<1>4. /\ 2 * l - 1 \in 1..Len(a) /\ a[2 * l - 1].index % 2 = 0
      /\ array[l].index = a[2 * l - 1].index \div 2
  BY <1>2, EvenFirst
<1>5. 2 * k - 1 < 2 * l - 1
  BY <1>1
<1>6. PICK u \in Nat : u = a[2 * k - 1].index
  BY <1>3, Beginning
<1>7. PICK v \in Nat : v = a[2 * l - 1].index
  BY <1>4, Beginning
<1>8. u < v
  BY <1>3, <1>4, <1>5, <1>6, <1>7, Beginning
<1>9. u \div 2 < v \div 2
  <2>1. u % 2 = 0 /\ v % 2 = 0
    BY <1>3, <1>4, <1>6, <1>7
  <2>2. PICK p \in Nat : u = 2 * p
    BY <2>1
  <2>3. PICK q \in Nat : v = 2 * q
    BY <2>1
  <2>4. p < q /\ u \div 2 = p /\ v \div 2 = q
    BY <1>8, <2>2, <2>3
  <2>5. QED
    BY <2>4
<1>10. QED
  BY <1>3, <1>4, <1>6, <1>7, <1>9

\* What is left when the array is shortened.
LEMMA ShortenKeeps ==
  ASSUME Inv, Shorten
  PROVE  Inv'
<1>1. /\ pc = "hash" /\ i >= Len(array) /\ pc' = "done" /\ UNCHANGED inputs
      /\ array' = SubSeq(array, 1, (Len(array) + 1) \div 2)
  BY DEF Shorten
<1>2. InputInv /\ HashInv
  BY <1>1 DEF Inv
<1>3. PICK a \in Seq(Both) : Began(a)
  BY <1>2 DEF HashInv
<1>4. Len(a) \in Nat /\ Len(array) = Len(a) /\ array \in Seq(SetOf(array)) /\ i >= Len(a)
  BY <1>1, <1>2, <1>3, Elements DEF Began, HashInv
<1>5. PICK m \in Nat : m = (Len(a) + 1) \div 2 /\ m <= Len(a)
  BY <1>4
<1>6. PICK b : b = array'
  OBVIOUS
<1>7. b \in Seq(SetOf(array)) /\ Len(b) = m /\ \A k \in 1..m : b[k] = array[k]
  <2>1. \A k \in 1..m : array[k] \in SetOf(array)
    BY <1>4, <1>5, Elements
  <2>2. b = SubSeq(array, 1, m)
    BY <1>1, <1>4, <1>5, <1>6
  <2>3. /\ SubSeq(array, 1, m) \in Seq(SetOf(array))
        /\ Len(SubSeq(array, 1, m)) = IF 1 <= m THEN m - 1 + 1 ELSE 0
        /\ \A k \in 1..(m - 1 + 1) : SubSeq(array, 1, m)[k] = array[1 + k - 1]
    BY <1>5, <2>1, SubSeqProperties
  <2>4. QED
    BY <1>5, <2>2, <2>3
<1>8. SetOf(b) = Zipped(Both, lastIndex)
  <2>1. SetOf(b) = {b[k] : k \in 1..m}
    BY <1>7, Elements
  <2>2. {b[k] : k \in 1..m} = {array[k] : k \in 1..m}
    BY <1>7
  <2>3. {array[k] : k \in 1..m} = Zipped(Both, lastIndex)
    BY <1>2, <1>3, <1>4, <1>5, EndZipped
  <2>4. QED
    BY <2>1, <2>2, <2>3
<1>9. ASSUME NEW k \in 1..(Len(b) - 1)
      PROVE  b[k].index < b[k + 1].index
  <2>1. k \in 1..m /\ k + 1 \in 1..m /\ k < k + 1
    BY <1>5, <1>7, <1>9
  <2>2. array[k].index < array[k + 1].index
    BY <1>2, <1>3, <1>4, <1>5, <2>1, EndSorted
  <2>3. QED
    BY <1>7, <2>1, <2>2
<1>10. ~Clash(SetOf(xs), SetOf(ys)) /\ Complete
  BY <1>2, <1>3, <1>4, EndComplete DEF HashInv
<1>11. InputInv' /\ Both' = Both /\ SetOf(xs)' = SetOf(xs) /\ SetOf(ys)' = SetOf(ys)
  BY <1>1, <1>2, InputsKept
<1>12. lastIndex' = lastIndex
  BY <1>1 DEF inputs
<1>13. ~Clash(SetOf(xs), SetOf(ys))' /\ Complete'
  BY <1>10, <1>11, <1>12 DEF Clash, Complete, Paired
<1>14. SetOf(array)' = Zipped(Both, lastIndex)'
  BY <1>6, <1>8, <1>11, <1>12 DEF SetOf, Zipped, Pairs
<1>15. EndInv'
  BY <1>1, <1>6, <1>9, <1>13, <1>14 DEF EndInv
<1>16. QED
  BY <1>1, <1>11, <1>15 DEF Inv

-----------------------------------------------------------------------------
(* The theorem.                                                            *)

\* Every iteration keeps the invariant.
LEMMA NextHolds == Inv /\ [Next]_vars => Inv'
<1>1. SUFFICES ASSUME Inv, [Next]_vars PROVE Inv'
  OBVIOUS
<1>2. CASE UNCHANGED vars
  <2>1. /\ InputInv' = InputInv /\ MergeInv' = MergeInv /\ HashInv' = HashInv
        /\ EndInv' = EndInv /\ pc' = pc
    BY <1>2 DEF vars, InputInv, MergeInv, HashInv, EndInv, Merging, Began, Both, Complete,
                SetOf, Zipped, Pairs
  <2>2. QED
    BY <1>1, <2>1 DEF Inv
<1>3. QED
  BY <1>1, <1>2, TakeKeeps, DuplicateKeeps, MergedKeeps, ZipPairKeeps, ZipLastKeeps,
     ShortenKeeps DEF Next

\* Whatever sorted arrays the loops of mergeLayers and hashLayer are given, they end
\* with the errors and the level above that ListTree defines on sets, sorted and with
\* no index twice, although the level above is written over the array being read.
THEOREM LoopsComputeSets == Spec => []LoopsMatchSets
<1>1. Inv => LoopsMatchSets
  <2>1. SUFFICES ASSUME Inv PROVE LoopsMatchSets
    OBVIOUS
  <2>2. EndInv
    BY <2>1 DEF Inv
  <2>3. ASSUME pc = "hash", i = 0
        PROVE  \A k \in 1..(Len(array) - 1) : array[k].index < array[k + 1].index
    <3>1. InputInv /\ HashInv
      BY <2>1, <2>3 DEF Inv
    <3>2. PICK a \in Seq(Both) : Began(a)
      BY <3>1 DEF HashInv
    <3>3. /\ Len(a) \in Nat /\ Len(array) = Len(a)
          /\ \A k \in 1..Len(a) : ~(2 * k <= 0) => array[k] = a[k]
      BY <2>3, <3>2, Elements DEF Began
    <3>4. \A k \in 1..Len(a) : array[k] = a[k]
      BY <3>3
    <3>5. \A j, k \in 1..Len(a) : j < k => a[j].index < a[k].index
      BY <3>1, <3>2, Beginning
    <3>6. QED
      BY <3>3, <3>4, <3>5
  <2>4. QED
    BY <2>2, <2>3 DEF EndInv, LoopsMatchSets
<1>2. QED
  BY <1>1, InitHolds, NextHolds, PTL DEF Spec
=============================================================================
