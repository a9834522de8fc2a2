--------------------------- MODULE ListProofProofs ---------------------------
(***************************************************************************)
(* Proofs about ListProof, for lists, documents and values of any size.    *)
(*                                                                         *)
(* Soundness goes down the tree: if the level above agrees with the tree of*)
(* the list, so does the level below, since equal hashes have equal        *)
(* preimages.  Honest documents go up it (HonestInv), with the reference   *)
(* definition of the tree (TreeInv).  What is accepted covers every leaf   *)
(* once: a level has hashes for just the leaves that are covered once by   *)
(* what was given below it (CoverInv).                                     *)
(***************************************************************************)
EXTENDS ListProof, TLAPS, WellFoundedInduction

-----------------------------------------------------------------------------
(* Numbers and sorted arrays.                                              *)

\* A set of numbers has a least one.
LEMMA LeastNumber ==
  ASSUME NEW S \in SUBSET Nat, S # {}
  PROVE  \E m \in S : \A k \in S : m <= k
<1>1. IsWellFoundedOn(OpToRel(<, Nat), Nat)
  BY NatLessThanWellFounded
<1>2. PICK x \in S : \A y \in S : ~(<<y, x>> \in OpToRel(<, Nat))
  BY <1>1, WFMin
<1>3. \A y \in S : ~(y < x)
  BY <1>2 DEF OpToRel
<1>4. QED
  BY <1>3

\* The neighbours of the array of values are compared, so all of them are.
LEMMA SortedEntries ==
  ASSUME NEW s, NEW n \in Nat, \A i \in 1..n : s[i].index \in Nat,
         \A i \in 1..(n - 1) : s[i].index < s[i + 1].index
  PROVE  \A i, j \in 1..n : i < j => s[i].index < s[j].index
<1> SUFFICES ASSUME NEW i \in 1..n, NEW j \in 1..n, i < j,
                    ~(s[i].index < s[j].index)
             PROVE  FALSE
  OBVIOUS
<1> DEFINE S == {k \in 1..n : i < k /\ ~(s[i].index < s[k].index)}
<1>1. PICK m \in S : \A k \in S : m <= k
  <2>1. S \in SUBSET Nat /\ S # {}
    OBVIOUS
  <2>2. QED
    BY <2>1, LeastNumber
<1>2. m - 1 \in 1..(n - 1) /\ (m - 1) + 1 = m /\ m - 1 \notin S
  BY <1>1
<1>3. s[m - 1].index < s[m].index
  BY <1>2
<1>4. CASE m - 1 = i
  BY <1>1, <1>3, <1>4
<1>5. CASE m - 1 # i
  <2>1. s[i].index < s[m - 1].index
    BY <1>1, <1>2, <1>5
  <2>2. s[i].index < s[m].index
    BY <2>1, <1>1, <1>2, <1>3
  <2>3. QED
    BY <2>2, <1>1
<1>6. QED
  BY <1>4, <1>5

\* The same of the array of hashes.
LEMMA SortedProof ==
  ASSUME NEW s, NEW n \in Nat,
         \A i \in 1..n : s[i].index \in Nat /\ s[i].height \in Int,
         \A i \in 1..(n - 1) : Precedes(s[i], s[i + 1])
  PROVE  \A i, j \in 1..n : i < j => Precedes(s[i], s[j])
<1> SUFFICES ASSUME NEW i \in 1..n, NEW j \in 1..n, i < j, ~Precedes(s[i], s[j])
             PROVE  FALSE
  OBVIOUS
<1> DEFINE S == {k \in 1..n : i < k /\ ~Precedes(s[i], s[k])}
<1>1. PICK m \in S : \A k \in S : m <= k
  <2>1. S \in SUBSET Nat /\ S # {}
    OBVIOUS
  <2>2. QED
    BY <2>1, LeastNumber
<1>2. m - 1 \in 1..(n - 1) /\ (m - 1) + 1 = m /\ m - 1 \notin S
  BY <1>1
<1>3. Precedes(s[m - 1], s[m])
  BY <1>2
<1>4. CASE m - 1 = i
  BY <1>1, <1>3, <1>4
<1>5. CASE m - 1 # i
  <2>1. Precedes(s[i], s[m - 1])
    BY <1>1, <1>2, <1>5
  <2>2. Precedes(s[i], s[m])
    BY <2>1, <1>1, <1>2, <1>3 DEF Precedes
  <2>3. QED
    BY <2>2, <1>1
<1>6. QED
  BY <1>4, <1>5

\* The widths of the levels are positive.
LEMMA PowerPositive ==
  \A k \in 0..MaxTreeHeight : Pow2[k] \in Nat /\ Pow2[k] > 0
<1> SUFFICES ASSUME NEW n \in 0..MaxTreeHeight, Pow2[n] <= 0 PROVE FALSE
  BY PowerAssumption
<1> DEFINE S == {k \in 0..MaxTreeHeight : Pow2[k] <= 0}
<1>1. PICK m \in S : \A k \in S : m <= k
  <2>1. S \in SUBSET Nat /\ S # {}
    BY HeightAssumption
  <2>2. QED
    BY <2>1, LeastNumber
<1>2. m # 0
  BY <1>1, PowerAssumption
<1>3. m - 1 \in 0..(MaxTreeHeight - 1) /\ (m - 1) + 1 = m /\ m - 1 \notin S
  BY <1>1, <1>2, HeightAssumption
<1>4. Pow2[m] = 2 * Pow2[m - 1] /\ Pow2[m - 1] > 0 /\ Pow2[m - 1] \in Nat
  BY <1>3, PowerAssumption, HeightAssumption
<1>5. QED
  BY <1>1, <1>4

\* What begins before the end of the list is not beyond the end of its level.
LEMMA LastOfLevel ==
  ASSUME NEW n \in Nat \ {0}, NEW d \in Nat, d > 0, NEW l \in Nat, IsLast(n, d, l),
         NEW i \in Nat, i <= (n - 1) \div d
  PROVE  i <= l
<1> DEFINE q == (n - 1) \div d
<1>1. q \in Nat /\ q * d <= n - 1
  OBVIOUS
<1>2. q * d < (l + 1) * d
  BY <1>1 DEF IsLast
<1>3. q < l + 1
  BY <1>1, <1>2
<1>4. QED
  BY <1>1, <1>3

\* Half the end of a level is the end of the next one.
LEMMA LastOfNextLevel ==
  ASSUME NEW n \in Nat \ {0}, NEW d \in Nat, d > 0, NEW l \in Nat, IsLast(n, d, l)
  PROVE  IsLast(n, 2 * d, l \div 2)
<1>1. PICK k \in Nat : k = l \div 2 /\ (l = 2 * k \/ l = 2 * k + 1)
  OBVIOUS
<1>2. k * (2 * d) <= l * d /\ (l + 1) * d <= (k + 1) * (2 * d)
  <2>1. CASE l = 2 * k
    BY <2>1
  <2>2. CASE l = 2 * k + 1
    BY <2>2
  <2>3. QED
    BY <1>1, <2>1, <2>2
<1>3. QED
  BY <1>1, <1>2 DEF IsLast

-----------------------------------------------------------------------------
(* Levels.                                                                 *)

\* Two levels without a clash are one.
LEMMA MergedLevel ==
  ASSUME NEW last \in Nat, NEW xs, NEW ys, IsLevel(xs, last), IsLevel(ys, last),
         ~Clash(xs, ys)
  PROVE  IsLevel(xs \cup ys, last)
BY DEF IsLevel, Clash

\* The members of the next level, each with the hashes it was made of.
LEMMA ZippedMembers ==
  ASSUME NEW last \in Nat, NEW xs, IsLevel(xs, last), NEW e \in Zipped(xs, last)
  PROVE  \/ \E x, y \in xs : /\ x.index % 2 = 0 /\ y.index = x.index + 1
                             /\ e = [index |-> x.index \div 2,
                                     hash |-> Node(x.hash, y.hash)]
         \/ \E x \in xs : /\ x.index % 2 = 0 /\ x.index = last
                          /\ e = [index |-> x.index \div 2, hash |-> Solitary(x.hash)]
BY DEF Zipped, Pairs

\* Neighbours are hashed into the next level.
LEMMA PairMakesMember ==
  ASSUME NEW last, NEW xs, NEW x \in xs, NEW y \in xs,
         x.index % 2 = 0, y.index = x.index + 1
  PROVE  [index |-> x.index \div 2, hash |-> Node(x.hash, y.hash)] \in Zipped(xs, last)
<1>1. <<x, y>> \in Pairs(xs)
  BY DEF Pairs
<1> DEFINE f(z) == [index |-> z[1].index \div 2, hash |-> Node(z[1].hash, z[2].hash)]
<1>2. f(<<x, y>>) = [index |-> x.index \div 2, hash |-> Node(x.hash, y.hash)]
  OBVIOUS
<1>3. f(<<x, y>>) \in {f(z) : z \in Pairs(xs)}
  BY <1>1
<1>4. QED
  BY <1>2, <1>3 DEF Zipped

\* So is the last hash alone.
LEMMA SolitaryMakesMember ==
  ASSUME NEW last, NEW xs, NEW x \in xs, x.index % 2 = 0, x.index = last
  PROVE  [index |-> x.index \div 2, hash |-> Solitary(x.hash)] \in Zipped(xs, last)
BY DEF Zipped

\* The next level has no index twice and none beyond its end.
LEMMA ZippedLevel ==
  ASSUME NEW last \in Nat, NEW xs, IsLevel(xs, last)
  PROVE  IsLevel(Zipped(xs, last), last \div 2)
<1>1. ASSUME NEW e \in Zipped(xs, last)
      PROVE  e = [index |-> e.index, hash |-> e.hash] /\ e.index \in 0..(last \div 2)
  <2>1. CASE \E x, y \in xs : /\ x.index % 2 = 0 /\ y.index = x.index + 1
                              /\ e = [index |-> x.index \div 2,
                                      hash |-> Node(x.hash, y.hash)]
    BY <2>1 DEF IsLevel
  <2>2. CASE \E x \in xs : /\ x.index % 2 = 0 /\ x.index = last
                           /\ e = [index |-> x.index \div 2, hash |-> Solitary(x.hash)]
    BY <2>2 DEF IsLevel
  <2>3. QED
    BY <2>1, <2>2, ZippedMembers
<1>2. ASSUME NEW e \in Zipped(xs, last), NEW f \in Zipped(xs, last), e.index = f.index
      PROVE  e = f
  <2>1. CASE \E x, y \in xs : /\ x.index % 2 = 0 /\ y.index = x.index + 1
                              /\ e = [index |-> x.index \div 2,
                                      hash |-> Node(x.hash, y.hash)]
    <3>1. PICK x \in xs, y \in xs : /\ x.index % 2 = 0 /\ y.index = x.index + 1
                                    /\ e = [index |-> x.index \div 2,
                                            hash |-> Node(x.hash, y.hash)]
      BY <2>1
    <3>2. x.index \in Nat /\ y.index <= last /\ x.index = 2 * e.index
      BY <3>1 DEF IsLevel
    <3>3. CASE \E u, v \in xs : /\ u.index % 2 = 0 /\ v.index = u.index + 1
                                /\ f = [index |-> u.index \div 2,
                                        hash |-> Node(u.hash, v.hash)]
      <4>1. PICK u \in xs, v \in xs : /\ u.index % 2 = 0 /\ v.index = u.index + 1
                                      /\ f = [index |-> u.index \div 2,
                                              hash |-> Node(u.hash, v.hash)]
        BY <3>3
      <4>2. u.index \in Nat /\ u.index = 2 * f.index
        BY <4>1 DEF IsLevel
      <4>3. u.index = x.index /\ v.index = y.index
        BY <1>2, <3>1, <3>2, <4>1, <4>2
      <4>4. u = x /\ v = y
        BY <4>3 DEF IsLevel
      <4>5. QED
        BY <4>4, <3>1, <4>1
    <3>4. CASE \E u \in xs : /\ u.index % 2 = 0 /\ u.index = last
                             /\ f = [index |-> u.index \div 2, hash |-> Solitary(u.hash)]
      <4>1. PICK u \in xs : /\ u.index % 2 = 0 /\ u.index = last
                            /\ f = [index |-> u.index \div 2, hash |-> Solitary(u.hash)]
        BY <3>4
      <4>2. u.index = 2 * f.index
        BY <4>1
      <4>3. QED
        BY <1>2, <3>1, <3>2, <4>1, <4>2
    <3>5. QED
      BY <3>3, <3>4, ZippedMembers
  <2>2. CASE \E x \in xs : /\ x.index % 2 = 0 /\ x.index = last
                           /\ e = [index |-> x.index \div 2, hash |-> Solitary(x.hash)]
    <3>1. PICK x \in xs : /\ x.index % 2 = 0 /\ x.index = last
                          /\ e = [index |-> x.index \div 2, hash |-> Solitary(x.hash)]
      BY <2>2
    <3>2. last = 2 * e.index
      BY <3>1
    <3>3. CASE \E u, v \in xs : /\ u.index % 2 = 0 /\ v.index = u.index + 1
                                /\ f = [index |-> u.index \div 2,
                                        hash |-> Node(u.hash, v.hash)]
      <4>1. PICK u \in xs, v \in xs : /\ u.index % 2 = 0 /\ v.index = u.index + 1
                                      /\ f = [index |-> u.index \div 2,
                                              hash |-> Node(u.hash, v.hash)]
        BY <3>3
      <4>2. u.index \in Nat /\ u.index = 2 * f.index /\ v.index <= last
        BY <4>1 DEF IsLevel
      <4>3. QED
        BY <1>2, <3>2, <4>1, <4>2
    <3>4. CASE \E u \in xs : /\ u.index % 2 = 0 /\ u.index = last
                             /\ f = [index |-> u.index \div 2, hash |-> Solitary(u.hash)]
      BY <3>1, <3>4 DEF IsLevel
    <3>5. QED
      BY <3>3, <3>4, ZippedMembers
  <2>3. QED
    BY <2>1, <2>2, ZippedMembers
<1>3. QED
  BY <1>1, <1>2 DEF IsLevel

\* The step down: a level whose hashes are all paired agrees with the tree if
\* the level made of it does.
LEMMA AgreementDescends ==
  ASSUME NEW last \in Nat, NEW xs, IsLevel(xs, last), NEW level,
         \A x \in xs : Paired(x, xs, last),
         AgreesWith(Zipped(xs, last), Above(level, last))
  PROVE  AgreesWith(xs, level)
<1> SUFFICES ASSUME NEW x \in xs PROVE x.hash = level[x.index]
  BY DEF AgreesWith
<1>1. x.index \in 0..last
  BY DEF IsLevel
<1>2. ASSUME NEW u \in xs, NEW v \in xs, u.index % 2 = 0, v.index = u.index + 1
      PROVE  u.hash = level[u.index] /\ v.hash = level[v.index]
  <2> DEFINE k == u.index \div 2
  <2>1. /\ k \in 0..(last \div 2) /\ 2 * k = u.index /\ 2 * k + 1 = v.index
        /\ 2 * k + 1 <= last
    BY <1>2 DEF IsLevel
  <2>2. Node(u.hash, v.hash) = Above(level, last)[k]
    <3>1. [index |-> k, hash |-> Node(u.hash, v.hash)] \in Zipped(xs, last)
      BY <1>2, PairMakesMember
    <3>2. QED
      BY <3>1 DEF AgreesWith
  <2>3. Above(level, last)[k] = Node(level[2 * k], level[2 * k + 1])
    BY <2>1 DEF Above
  <2>4. QED
    BY <2>1, <2>2, <2>3 DEF Node
<1>3. CASE x.index % 2 = 0 /\ \E y \in xs : y.index = x.index + 1
  BY <1>3, <1>2
<1>4. CASE x.index % 2 = 1 /\ \E y \in xs : y.index = x.index - 1
  <2>1. PICK y \in xs : y.index = x.index - 1
    BY <1>4
  <2>2. y.index % 2 = 0 /\ x.index = y.index + 1
    BY <1>1, <1>4, <2>1
  <2>3. QED
    BY <1>2, <2>2
<1>5. CASE x.index % 2 = 0 /\ x.index = last
  <2> DEFINE k == x.index \div 2
  <2>1. k \in 0..(last \div 2) /\ 2 * k = x.index /\ ~(2 * k + 1 <= last)
    BY <1>1, <1>5
  <2>2. Solitary(x.hash) = Above(level, last)[k]
    <3>1. [index |-> k, hash |-> Solitary(x.hash)] \in Zipped(xs, last)
      BY <1>5, SolitaryMakesMember
    <3>2. QED
      BY <3>1 DEF AgreesWith
  <2>3. Above(level, last)[k] = Solitary(level[2 * k])
    BY <2>1 DEF Above
  <2>4. QED
    BY <2>1, <2>2, <2>3 DEF Solitary
<1>6. QED
  BY <1>3, <1>4, <1>5 DEF Paired

-----------------------------------------------------------------------------
(* The inductive invariant.                                                *)

\* What a scenario promises of the arrays does not change.
DocumentInv ==
  /\ list \in Seq(Values) /\ length \in Nat
  /\ IsArray(proof) /\ \A i \in DOMAIN proof : proof[i].height \in Int
  /\ IsArray(entries)
  /\ Natural(proof) /\ Natural(entries)

\* What parsing establishes holds for the rest of the verification.
ParsedInv ==
  /\ pc \in {"parseEntries", "start", "level"} =>
       /\ \A p \in Members(proof) : WellFormed(p)
       /\ \A i, j \in DOMAIN proof : i < j => Precedes(proof[i], proof[j])
  /\ pc \in {"start", "level"} =>
       \A i, j \in DOMAIN entries : i < j => entries[i].index < entries[j].index
  /\ pc = "level" => \A p \in Members(proof) : WithinLevel(p)

\* Until the loop begins `ref` holds the leaves.
LeavesInv ==
  pc \in {"parseProof", "parseEntries", "start"} =>
    ref = [i \in 0..(Len(list) - 1) |-> Leaf(list[i + 1])]

Inv == TypeOK /\ DocumentInv /\ ParsedInv /\ LevelInv /\ LeavesInv /\ Sound

\* The constructor begins with the invariant.
LEMMA InitInv ==
  ASSUME NaturalIndexes
  PROVE  Init => Inv
<1> SUFFICES ASSUME Init PROVE Inv
  OBVIOUS
<1>1. TypeOK
  BY HeightAssumption DEF Init, TypeOK
<1>2. DocumentInv
  BY ScenarioAssumption, HeightAssumption, PowerAssumption
     DEF Init, DocumentInv, NaturalIndexes
<1>3. ParsedInv /\ LevelInv /\ LeavesInv /\ Sound
  BY DEF Init, ParsedInv, LevelInv, LeavesInv, Sound
<1>4. QED
  BY <1>1, <1>2, <1>3 DEF Inv

\* No step writes the document.
LEMMA DocumentKept ==
  ASSUME Inv, UNCHANGED document
  PROVE  DocumentInv'
BY DEF Inv, DocumentInv, document, IsArray, Natural

\* An error is no proof of anything.
LEMMA ThrowStep ==
  ASSUME Inv, NEW e \in Errors, Throw(e)
  PROVE  Inv'
<1>1. DocumentInv'
  BY DocumentKept DEF Throw
<1>2. TypeOK'
  BY DEF Throw, Inv, TypeOK, Errors
<1>3. ParsedInv' /\ LevelInv' /\ LeavesInv'
  BY DEF Throw, ParsedInv, LevelInv, LeavesInv
<1>4. Sound'
  BY DEF Throw, Sound, Errors
<1>5. QED
  BY <1>1, <1>2, <1>3, <1>4 DEF Inv

\* What the check of the hashes finds is kept for the levels.
LEMMA ParseProofStep ==
  ASSUME Inv, ParseProof
  PROVE  Inv'
<1>1. CASE \E e \in Errors : Throw(e)
  BY <1>1, ThrowStep
<1>2. CASE /\ \A p \in Members(proof) : WellFormed(p)
           /\ \A i \in 1..(Len(proof) - 1) : Precedes(proof[i], proof[i + 1])
           /\ pc' = "parseEntries"
           /\ UNCHANGED <<document, treeHeight, height, layer, lastIndex,
                          merkleRoot, outcome, ref>>
  <2>1. \A i, j \in DOMAIN proof : i < j => Precedes(proof[i], proof[j])
    BY <1>2, SortedProof DEF Inv, DocumentInv, IsArray, Natural
  <2>2. DocumentInv'
    BY <1>2, DocumentKept
  <2>3. TypeOK' /\ LevelInv' /\ LeavesInv' /\ Sound'
    BY <1>2 DEF Inv, ParseProof, TypeOK, LevelInv, LeavesInv, Sound, document
  <2>4. ParsedInv'
    BY <1>2, <2>1 DEF ParsedInv, document, Members
  <2>5. QED
    BY <2>2, <2>3, <2>4 DEF Inv
<1>3. QED
  BY <1>1, <1>2 DEF ParseProof, Errors

\* And what the check of the values finds.
LEMMA ParseEntriesStep ==
  ASSUME Inv, ParseEntries
  PROVE  Inv'
<1>1. CASE \E e \in Errors : Throw(e)
  BY <1>1, ThrowStep
<1>2. CASE /\ \A i \in 1..(Len(entries) - 1) : entries[i].index < entries[i + 1].index
           /\ pc' = "start"
           /\ UNCHANGED <<document, treeHeight, height, layer, lastIndex,
                          merkleRoot, outcome, ref>>
  <2>1. \A i, j \in DOMAIN entries : i < j => entries[i].index < entries[j].index
    BY <1>2, SortedEntries DEF Inv, DocumentInv, IsArray, Natural
  <2>2. DocumentInv'
    BY <1>2, DocumentKept
  <2>3. TypeOK' /\ LevelInv' /\ LeavesInv' /\ Sound'
    BY <1>2 DEF Inv, ParseEntries, TypeOK, LevelInv, LeavesInv, Sound, document
  <2>4. ParsedInv'
    BY <1>2, <2>1 DEF ParseEntries, Inv, ParsedInv, document, Members
  <2>5. QED
    BY <2>2, <2>3, <2>4 DEF Inv
<1>3. QED
  BY <1>1, <1>2 DEF ParseEntries, Errors

\* The empty list is accepted only without any values.
LEMMA EmptyListStep ==
  ASSUME Inv, EmptyList
  PROVE  Inv'
<1>1. CASE \E e \in Errors : Throw(e)
  BY <1>1, ThrowStep
<1>2. CASE /\ proof = <<>> /\ entries = <<>>
           /\ outcome' = "ok" /\ pc' = "done"
           /\ UNCHANGED <<document, treeHeight, height, layer, lastIndex, ref>>
  <2>1. DocumentInv'
    BY <1>2, DocumentKept
  <2>2. TypeOK' /\ ParsedInv' /\ LevelInv' /\ LeavesInv'
    BY <1>2 DEF Inv, TypeOK, ParsedInv, LevelInv, LeavesInv
  <2>3. Sound'
    BY <1>2 DEF Sound, Members, document
  <2>4. QED
    BY <2>1, <2>2, <2>3 DEF Inv
<1>3. QED
  BY <1>1, <1>2 DEF EmptyList, Errors

\* Sorted arrays have one value at an index, and one hash at a position.
LEMMA EntriesUnique ==
  ASSUME DocumentInv, ParsedInv, pc \in {"start", "level"},
         NEW e \in Members(entries), NEW f \in Members(entries), e.index = f.index
  PROVE  e = f
<1>1. PICK i \in DOMAIN entries : e = entries[i]
  BY DEF Members
<1>2. PICK j \in DOMAIN entries : f = entries[j]
  BY DEF Members
<1>3. i \in Nat /\ j \in Nat
  BY DEF DocumentInv, IsArray
<1>4. \A k, l \in DOMAIN entries : k < l => entries[k].index < entries[l].index
  BY DEF ParsedInv
<1>5. entries[i].index \in Nat
  BY DEF DocumentInv, Natural
<1>6. i = j
  BY <1>1, <1>2, <1>3, <1>4, <1>5
<1>7. QED
  BY <1>1, <1>2, <1>6

\* The same for the hashes of the proof.
LEMMA HashesUnique ==
  ASSUME DocumentInv, ParsedInv, pc \in {"start", "level"},
         NEW p \in Members(proof), NEW q \in Members(proof),
         p.height = q.height, p.index = q.index
  PROVE  p = q
<1>1. PICK i \in DOMAIN proof : p = proof[i]
  BY DEF Members
<1>2. PICK j \in DOMAIN proof : q = proof[j]
  BY DEF Members
<1>3. i \in Nat /\ j \in Nat
  BY DEF DocumentInv, IsArray
<1>4. \A k, l \in DOMAIN proof : k < l => Precedes(proof[k], proof[l])
  BY DEF ParsedInv
<1>5. proof[i].index \in Nat /\ proof[i].height \in Int
  BY DEF DocumentInv, Natural
<1>6. i = j
  BY <1>1, <1>2, <1>3, <1>4, <1>5 DEF Precedes
<1>7. QED
  BY <1>1, <1>2, <1>6

\* The values of the document are the first level, and agree with the leaves of
\* the list only if they are its values.
LEMMA StartStep ==
  ASSUME Inv, Start
  PROVE  Inv'
<1>1. CASE \E e \in Errors : Throw(e)
  BY <1>1, ThrowStep
<1>2. CASE \E h \in 1..(MaxTreeHeight + 1) :
             /\ IsHeight(length, h)
             /\ \A e \in Members(entries) : WithinList(e)
             /\ \A p \in Members(proof) : WithinLevel(p)
             /\ treeHeight' = h /\ height' = 1 /\ lastIndex' = length - 1
             /\ layer' = {[index |-> e.index, hash |-> Leaf(e.value)] :
                            e \in Members(entries)}
             /\ pc' = "level"
             /\ UNCHANGED <<document, merkleRoot, outcome, ref>>
  <2>1. PICK h \in 1..(MaxTreeHeight + 1) :
             /\ IsHeight(length, h)
             /\ \A e \in Members(entries) : WithinList(e)
             /\ \A p \in Members(proof) : WithinLevel(p)
             /\ treeHeight' = h /\ height' = 1 /\ lastIndex' = length - 1
             /\ layer' = {[index |-> e.index, hash |-> Leaf(e.value)] :
                            e \in Members(entries)}
             /\ pc' = "level"
             /\ UNCHANGED <<document, merkleRoot, outcome, ref>>
    BY <1>2
  <2>2. /\ length \in Nat /\ length > 0 /\ length' = length /\ list' = list
        /\ proof' = proof /\ entries' = entries /\ ref' = ref
        /\ pc = "start" /\ outcome' = outcome /\ outcome = "running"
    BY <2>1 DEF Start, Inv, DocumentInv, TypeOK, document
  <2>3. DocumentInv'
    BY <2>1, DocumentKept
  <2>4. IsLevel(layer', lastIndex')
    <3>1. \A e \in Members(entries) : e.index \in 0..(length - 1)
      BY <2>1, <2>2 DEF Inv, DocumentInv, Natural, Members, WithinList
    <3>2. \A e, f \in Members(entries) : e.index = f.index => e = f
      BY <2>2, EntriesUnique DEF Inv
    <3>3. QED
      BY <2>1, <3>1, <3>2 DEF IsLevel
  <2>5. TypeOK'
    BY <2>1, <2>2, <2>4, HeightAssumption DEF TypeOK, IsLevel
  <2>6. ParsedInv'
    BY <2>1, <2>2 DEF Inv, ParsedInv, WithinLevel
  <2>7. LevelInv'
    <3>1. IsLast(length, Pow2[0], length - 1)
      BY <2>2, PowerAssumption DEF IsLast
    <3>2. ASSUME length = Len(list), AgreesWith(layer', ref), NEW e \in Members(entries)
          PROVE  Genuine(e)
      <4>1. [index |-> e.index, hash |-> Leaf(e.value)] \in layer'
        BY <2>1
      <4>2. Leaf(e.value) = ref[e.index] /\ e.index \in 0..(length - 1)
        BY <3>2, <4>1, <2>1, <2>4 DEF AgreesWith, IsLevel
      <4>3. ref[e.index] = Leaf(list[e.index + 1])
        BY <2>2, <3>2, <4>2 DEF Inv, LeavesInv
      <4>4. QED
        BY <3>2, <4>2, <4>3 DEF Leaf, Genuine
    <3>3. Members(entries') = Members(entries) /\ IsHeight(length', treeHeight')
      BY <2>1, <2>2
    <3>4. QED
      BY <2>1, <2>2, <2>4, <3>1, <3>2, <3>3 DEF LevelInv, Genuine
  <2>8. LeavesInv'
    BY <2>1 DEF LeavesInv
  <2>9. Sound'
    BY <2>2 DEF Sound
  <2>10. QED
    BY <2>3, <2>5, <2>6, <2>7, <2>8, <2>9 DEF Inv
<1>3. QED
  BY <1>1, <1>2 DEF Start, Errors

\* The hashes the proof gives for a level fit the level.
LEMMA GivenLevel ==
  ASSUME Inv, pc = "level", height < treeHeight
  PROVE  IsLevel(Given(height), lastIndex)
<1>1. /\ height - 1 \in 0..MaxTreeHeight /\ IsLast(length, Pow2[height - 1], lastIndex)
      /\ lastIndex \in Nat /\ length \in Nat \ {0} /\ height \in Nat
  BY HeightAssumption DEF Inv, LevelInv, DocumentInv
<1>2. ASSUME NEW p \in Members(proof), p.height = height
      PROVE  p.index \in 0..lastIndex
  <2>1. p.index \in Nat /\ p.index <= (length - 1) \div Pow2[height - 1]
    BY <1>2 DEF Inv, DocumentInv, IsArray, Natural, Members, ParsedInv, WithinLevel
  <2>2. QED
    BY <1>1, <2>1, LastOfLevel, PowerPositive
<1>3. ASSUME NEW p \in Members(proof), NEW q \in Members(proof),
             p.height = q.height, p.index = q.index
      PROVE  p = q
  BY <1>3, HashesUnique DEF Inv
<1>4. QED
  BY <1>2, <1>3 DEF IsLevel, Given

\* One level up: agreement of the new level with the tree descends to the old
\* one, and from there to the values.
LEMMA LevelStep ==
  ASSUME Inv, Level
  PROVE  Inv'
<1> DEFINE merged == layer \cup Given(height)
<1>1. CASE \E e \in Errors : Throw(e)
  BY <1>1, ThrowStep
<1>2. CASE /\ ~Clash(layer, Given(height))
           /\ \A x \in merged : Paired(x, merged, lastIndex)
           /\ layer' = Zipped(merged, lastIndex)
           /\ lastIndex' = lastIndex \div 2
           /\ height' = height + 1
           /\ ref' = IF length = Len(list) THEN Above(ref, lastIndex) ELSE ref
           /\ UNCHANGED <<document, pc, treeHeight, merkleRoot, outcome>>
  <2>1. /\ pc = "level" /\ height < treeHeight /\ length \in Nat \ {0}
        /\ treeHeight \in 1..(MaxTreeHeight + 1) /\ height \in 1..treeHeight
        /\ lastIndex \in Nat /\ IsLast(length, Pow2[height - 1], lastIndex)
        /\ IsLevel(layer, lastIndex) /\ IsHeight(length, treeHeight)
    BY DEF Level, Inv, LevelInv, DocumentInv
  <2>2. IsLevel(merged, lastIndex)
    BY <1>2, <2>1, GivenLevel, MergedLevel
  <2>3. IsLevel(layer', lastIndex') /\ lastIndex' \in Nat
    BY <1>2, <2>1, <2>2, ZippedLevel
  <2>4. IsLast(length, Pow2[height], lastIndex')
    <3>1. /\ height - 1 \in 0..(MaxTreeHeight - 1) /\ height - 1 + 1 = height
          /\ Pow2[height] = 2 * Pow2[height - 1]
      BY <2>1, HeightAssumption, PowerAssumption
    <3>2. Pow2[height - 1] \in Nat /\ Pow2[height - 1] > 0
      BY <3>1, PowerPositive, HeightAssumption
    <3>3. QED
      BY <1>2, <2>1, <3>1, <3>2, LastOfNextLevel
  <2>5. DocumentInv'
    BY <1>2, DocumentKept
  <2>6. TypeOK'
    <3>1. /\ pc' = pc /\ outcome' = outcome /\ treeHeight' = treeHeight
          /\ height' \in 0..treeHeight /\ TypeOK
      BY <1>2, <2>1 DEF Inv
    <3>2. \A e \in layer' : e.index \in 0..lastIndex'
      BY <2>3 DEF IsLevel
    <3>3. QED
      BY <2>3, <3>1, <3>2 DEF TypeOK
  <2>7. ParsedInv'
    BY <1>2 DEF Inv, ParsedInv, document, WithinLevel, Members
  <2>8. LevelInv'
    <3>1. ASSUME length = Len(list), AgreesWith(layer', ref'), NEW e \in Members(entries)
          PROVE  Genuine(e)
      <4>1. AgreesWith(merged, ref)
        BY <1>2, <2>1, <2>2, <3>1, AgreementDescends
      <4>2. AgreesWith(layer, ref)
        BY <4>1 DEF AgreesWith
      <4>3. QED
        BY <2>1, <3>1, <4>2 DEF Inv, LevelInv
    <3>2. /\ length' = length /\ list' = list /\ entries' = entries
          /\ treeHeight' = treeHeight /\ pc' = pc /\ height' = height + 1
      BY <1>2 DEF document
    <3>3. height' \in 1..treeHeight' /\ height' - 1 = height
      BY <2>1, <3>2
    <3>4. IsHeight(length', treeHeight')
      BY <2>1, <3>2
    <3>5. QED
      BY <2>1, <2>3, <2>4, <3>1, <3>2, <3>3, <3>4 DEF LevelInv, Genuine
  <2>9. LeavesInv'
    BY <1>2, <2>1 DEF LeavesInv
  <2>10. Sound'
    BY <1>2, <2>1 DEF Inv, TypeOK, Sound
  <2>11. QED
    BY <2>5, <2>6, <2>7, <2>8, <2>9, <2>10 DEF Inv
<1>3. QED
  BY <1>1, <1>2 DEF Level, Errors

\* At the top there is one hash, and equality with the root is agreement.
LEMMA FinishStep ==
  ASSUME Inv, Finish
  PROVE  Inv'
<1>1. PICK x \in layer : merkleRoot' = ListHash(length, x.hash)
  BY DEF Finish
<1>2. /\ pc = "level" /\ height = treeHeight /\ length \in Nat \ {0}
      /\ treeHeight \in 1..(MaxTreeHeight + 1) /\ lastIndex \in Nat
      /\ IsLast(length, Pow2[height - 1], lastIndex) /\ IsLevel(layer, lastIndex)
      /\ IsHeight(length, treeHeight)
  BY DEF Finish, Inv, LevelInv, DocumentInv
<1>3. lastIndex = 0
  <2>1. Pow2[height - 1] \in Nat /\ Pow2[height - 1] >= length /\ Pow2[height - 1] > 0
    BY <1>2, PowerPositive, HeightAssumption DEF IsHeight
  <2>2. lastIndex * Pow2[height - 1] < Pow2[height - 1]
    BY <1>2, <2>1 DEF IsLast
  <2>3. QED
    BY <1>2, <2>1, <2>2
<1>4. \A y \in layer : y = x
  BY <1>1, <1>2, <1>3 DEF IsLevel
<1>5. Sound'
  <2> SUFFICES ASSUME merkleRoot' = TrustedRoot', NEW e \in Members(entries)
               PROVE  Genuine(e)
    BY DEF Finish, Sound, Members, document, Genuine
  <2>1. TrustedRoot' = TrustedRoot
    BY DEF Finish, TrustedRoot, document
  <2>2. ListHash(length, x.hash) =
          ListHash(Len(list), IF list = <<>> THEN ZeroHash ELSE ref[0])
    BY <1>1, <2>1 DEF TrustedRoot
  <2>3. length = Len(list) /\ x.hash = IF list = <<>> THEN ZeroHash ELSE ref[0]
    BY <2>2 DEF ListHash
  <2>4. list # <<>>
    BY <1>2, <2>3
  <2>5. AgreesWith(layer, ref)
    BY <1>2, <1>3, <1>4, <2>3, <2>4 DEF AgreesWith, IsLevel
  <2>6. QED
    BY <1>2, <2>3, <2>5 DEF Inv, LevelInv
<1>6. DocumentInv'
  BY DocumentKept DEF Finish
<1>7. TypeOK'
  BY DEF Finish, Inv, TypeOK
<1>8. ParsedInv' /\ LevelInv' /\ LeavesInv'
  BY DEF Finish, ParsedInv, LevelInv, LeavesInv
<1>9. QED
  BY <1>5, <1>6, <1>7, <1>8 DEF Inv

\* Every step keeps the invariant.
LEMMA InvStep ==
  ASSUME Inv, [Next]_vars
  PROVE  Inv'
<1>1. CASE Next
  BY <1>1, ParseProofStep, ParseEntriesStep, EmptyListStep, StartStep, LevelStep,
     FinishStep DEF Next
<1>2. CASE UNCHANGED vars
  <2>1. DocumentInv'
    BY <1>2, DocumentKept DEF vars, document
  <2>2. TypeOK' /\ ParsedInv' /\ LevelInv' /\ LeavesInv' /\ Sound'
    BY <1>2 DEF vars, Inv, TypeOK, ParsedInv, LevelInv, LeavesInv, Sound,
                TrustedRoot, Genuine, Members, WithinLevel
  <2>3. QED
    BY <2>1, <2>2 DEF Inv
<1>3. QED
  BY <1>1, <1>2

\* So it holds in every state.
LEMMA InvInductive ==
  ASSUME NaturalIndexes
  PROVE  Spec => []Inv
<1>1. Inv /\ [Next]_vars => Inv'
  BY InvStep
<1>2. QED
  BY <1>1, InitInv, PTL DEF Spec

\* The variables keep their types.
THEOREM TypeCorrect ==
  ASSUME NaturalIndexes
  PROVE  Spec => []TypeOK
BY InvInductive, PTL DEF Inv

\* The loop of collect keeps its invariant.
THEOREM LoopInvariant ==
  ASSUME NaturalIndexes
  PROVE  Spec => []LevelInv
BY InvInductive, PTL DEF Inv

\* A document whose root hash is that of a list shows only values of the list,
\* for lists and documents of every size.
THEOREM ListProofSound ==
  ASSUME NaturalIndexes
  PROVE  Spec => []Sound
BY InvInductive, PTL DEF Inv

-----------------------------------------------------------------------------
(* What is accepted covers every leaf once.                                *)

\* A quotient is known by its remainder.
LEMMA QuotientOf ==
  ASSUME NEW j \in Nat, NEW d \in Nat, d > 0, NEW c \in Nat, NEW r \in Nat,
         r < d, j = c * d + r
  PROVE  j \div d = c
<1>1. PICK q \in Nat : q = j \div d
  OBVIOUS
<1>2. q * d <= j /\ j < (q + 1) * d
  BY <1>1
<1>3. CASE q < c
  <2>1. q + 1 <= c
    BY <1>3
  <2>2. (q + 1) * d <= c * d
    BY <2>1
  <2>3. QED
    BY <1>2, <2>2
<1>4. CASE q > c
  <2>1. c + 1 <= q
    BY <1>4
  <2>2. (c + 1) * d <= q * d
    BY <2>1
  <2>3. (c + 1) * d = c * d + d
    OBVIOUS
  <2>4. QED
    BY <1>2, <2>2, <2>3
<1>5. QED
  BY <1>1, <1>3, <1>4

\* A block of a level is one half of a block of the next level.
LEMMA HalfBlock ==
  ASSUME NEW j \in Nat, NEW d \in Nat, d > 0
  PROVE  j \div (2 * d) = (j \div d) \div 2
<1>1. PICK q \in Nat : q = j \div d
  OBVIOUS
<1>2. q * d <= j /\ j < q * d + d
  BY <1>1
<1>3. PICK c \in Nat : c = q \div 2 /\ (q = 2 * c \/ q = 2 * c + 1)
  OBVIOUS
<1>4. PICK r \in Nat : r = j - c * (2 * d) /\ r < 2 * d
  <2>1. CASE q = 2 * c
    <3>1. q * d = c * (2 * d)
      BY <2>1
    <3>2. QED
      BY <1>2, <3>1
  <2>2. CASE q = 2 * c + 1
    <3>1. q * d = c * (2 * d) + d
      BY <2>2
    <3>2. QED
      BY <1>2, <3>1
  <2>3. QED
    BY <1>3, <2>1, <2>2
<1>5. j = c * (2 * d) + r /\ 2 * d \in Nat /\ 2 * d > 0
  BY <1>4
<1>6. j \div (2 * d) = c
  BY <1>4, <1>5, QuotientOf
<1>7. QED
  BY <1>1, <1>3, <1>6

\* The first leaf of a block that a level has.
LEMMA FirstLeaf ==
  ASSUME NEW n \in Nat \ {0}, NEW d \in Nat, d > 0, NEW l \in Nat, IsLast(n, d, l),
         NEW b \in 0..l
  PROVE  b * d \in 0..(n - 1) /\ (b * d) \div d = b
<1>1. b * d \in Nat /\ b * d <= l * d
  OBVIOUS
<1>2. (b * d) \div d = b
  BY <1>1, QuotientOf
<1>3. QED
  BY <1>1, <1>2 DEF IsLast

\* Every leaf is in a block of every level.
LEMMA BlockOfLeaf ==
  ASSUME NEW n \in Nat \ {0}, NEW d \in Nat, d > 0, NEW l \in Nat, IsLast(n, d, l),
         NEW j \in 0..(n - 1)
  PROVE  j \div d \in 0..l
<1>1. PICK q \in Nat : q = j \div d /\ q * d <= j
  OBVIOUS
<1>2. q * d < (l + 1) * d
  BY <1>1 DEF IsLast
<1>3. q < l + 1
  BY <1>2
<1>4. QED
  BY <1>1, <1>3

\* Two leaves of one block are in one block on all levels above.
LEMMA BlocksAbove ==
  ASSUME NEW i \in Nat, NEW j \in Nat, NEW g \in 0..MaxTreeHeight,
         i \div Pow2[g] = j \div Pow2[g]
  PROVE  \A k \in g..MaxTreeHeight : i \div Pow2[k] = j \div Pow2[k]
<1> SUFFICES ASSUME NEW n \in g..MaxTreeHeight, i \div Pow2[n] # j \div Pow2[n]
             PROVE  FALSE
  OBVIOUS
<1> DEFINE S == {k \in g..MaxTreeHeight : i \div Pow2[k] # j \div Pow2[k]}
<1>1. PICK m \in S : \A k \in S : m <= k
  <2>1. S \in SUBSET Nat /\ S # {}
    BY HeightAssumption
  <2>2. QED
    BY <2>1, LeastNumber
<1>2. m - 1 \in g..MaxTreeHeight /\ m - 1 \in 0..(MaxTreeHeight - 1)
      /\ (m - 1) + 1 = m /\ m - 1 \notin S
  BY <1>1, HeightAssumption
<1>3. /\ Pow2[m] = 2 * Pow2[m - 1] /\ Pow2[m - 1] \in Nat /\ Pow2[m - 1] > 0
      /\ i \div Pow2[m - 1] = j \div Pow2[m - 1]
  BY <1>2, PowerPositive, PowerAssumption, HeightAssumption
<1>4. i \div Pow2[m] = j \div Pow2[m]
  BY <1>3, HalfBlock
<1>5. QED
  BY <1>1, <1>4

\* A level has a hash at an index.
HasIndex(xs, k) == \E x \in xs : x.index = k

\* A level and the one made of it have hashes for the same leaves.
LEMMA ZippedIndexes ==
  ASSUME NEW last \in Nat, NEW xs, IsLevel(xs, last),
         \A x \in xs : Paired(x, xs, last), NEW b \in 0..last
  PROVE  HasIndex(Zipped(xs, last), b \div 2) <=> HasIndex(xs, b)
<1>1. ASSUME NEW x \in xs, x.index = b
      PROVE  HasIndex(Zipped(xs, last), b \div 2)
  <2>1. CASE b % 2 = 0 /\ \E y \in xs : y.index = b + 1
    <3>1. PICK y \in xs : y.index = x.index + 1
      BY <1>1, <2>1
    <3>2. [index |-> x.index \div 2, hash |-> Node(x.hash, y.hash)] \in Zipped(xs, last)
      BY <1>1, <2>1, <3>1, PairMakesMember
    <3>3. QED
      BY <1>1, <3>2 DEF HasIndex
  <2>2. CASE b % 2 = 1 /\ \E y \in xs : y.index = b - 1
    <3>1. PICK y \in xs : y.index = b - 1
      BY <2>2
    <3>2. y.index % 2 = 0 /\ x.index = y.index + 1 /\ y.index \div 2 = b \div 2
      BY <1>1, <2>2, <3>1
    <3>3. [index |-> y.index \div 2, hash |-> Node(y.hash, x.hash)] \in Zipped(xs, last)
      BY <3>2, PairMakesMember
    <3>4. QED
      BY <3>2, <3>3 DEF HasIndex
  <2>3. CASE b % 2 = 0 /\ b = last
    <3>1. [index |-> x.index \div 2, hash |-> Solitary(x.hash)] \in Zipped(xs, last)
      BY <1>1, <2>3, SolitaryMakesMember
    <3>2. QED
      BY <1>1, <3>1 DEF HasIndex
  <2>4. QED
    BY <1>1, <2>1, <2>2, <2>3 DEF Paired
<1>2. ASSUME NEW e \in Zipped(xs, last), e.index = b \div 2
      PROVE  HasIndex(xs, b)
  <2>1. CASE \E x, y \in xs : /\ x.index % 2 = 0 /\ y.index = x.index + 1
                              /\ e = [index |-> x.index \div 2,
                                      hash |-> Node(x.hash, y.hash)]
    <3>1. PICK x \in xs, y \in xs : /\ x.index % 2 = 0 /\ y.index = x.index + 1
                                    /\ e = [index |-> x.index \div 2,
                                            hash |-> Node(x.hash, y.hash)]
      BY <2>1
    <3>2. x.index \in Nat /\ e.index = x.index \div 2
      BY <3>1 DEF IsLevel
    <3>3. b = x.index \/ b = y.index
      BY <1>2, <3>1, <3>2
    <3>4. QED
      BY <3>3 DEF HasIndex
  <2>2. CASE \E x \in xs : /\ x.index % 2 = 0 /\ x.index = last
                           /\ e = [index |-> x.index \div 2, hash |-> Solitary(x.hash)]
    <3>1. PICK x \in xs : /\ x.index % 2 = 0 /\ x.index = last
                          /\ e.index = x.index \div 2
      BY <2>2
    <3>2. b = x.index
      BY <1>2, <3>1
    <3>3. QED
      BY <3>2 DEF HasIndex
  <2>3. QED
    BY <1>2, <2>1, <2>2, ZippedMembers
<1>3. QED
  BY <1>1, <1>2 DEF HasIndex

\* The values at a leaf, and the hashes below a level that it is under.
At(j) == {e \in Members(entries) : e.index = j}
Over(j, h) == {p \in Members(proof) : p.height < h /\ j \in LeavesUnder(p)}

OnceBelow(j, h) ==
  \/ Over(j, h) = {} /\ \E e \in At(j) : At(j) = {e}
  \/ At(j) = {} /\ \E p \in Over(j, h) : Over(j, h) = {p}
NotBelow(j, h) == At(j) = {} /\ Over(j, h) = {}

\* Level g has a hash for the leaves that are covered once by what the document gives
\* below level h, and nothing there covers the others.
CoversAt(xs, g, h) ==
  \A j \in 0..(length - 1) :
    IF HasIndex(xs, j \div Pow2[g - 1]) THEN OnceBelow(j, h) ELSE NotBelow(j, h)

CoverInv ==
  pc = "level" =>
    /\ \A e \in Members(entries) : e.index < length
    /\ \A p \in Members(proof) : p.height < treeHeight
    /\ CoversAt(layer, height, height)

\* The documents that are to be accepted.
Exact == Parsed /\ Placed /\ \A j \in 0..(length - 1) : CoveredOnce(j)

ExactInv == Inv /\ CoverInv /\ AcceptsExactCovers /\ DuplicateMeansRedundant

\* What is given is not changed, nor what is to be accepted.
LEMMA ExactKept ==
  ASSUME UNCHANGED document
  PROVE  (Exact <=> Exact') /\ \A j : /\ (Covered(j) <=> Covered(j)')
                                      /\ (CoveredOnce(j) <=> CoveredOnce(j)')
BY DEF document, Exact, Parsed, Placed, CoveredOnce, Covered, LeavesUnder, Members,
       WellFormed, Precedes, IsHeight

\* An error is right if the document is not to be accepted.
LEMMA ThrowExact ==
  ASSUME ExactInv, Inv', NEW e \in Errors, Throw(e), ~Exact,
         e = "duplicateHash" =>
           \E j \in 0..(length - 1) : Covered(j) /\ ~CoveredOnce(j)
  PROVE  ExactInv'
<1>1. /\ UNCHANGED document /\ length' = length /\ pc' = "done" /\ outcome' = e
      /\ e # "ok"
  BY DEF Throw, document, Errors
<1>2. ~Exact' /\ \A j : /\ (Covered(j) <=> Covered(j)')
                        /\ (CoveredOnce(j) <=> CoveredOnce(j)')
  BY <1>1, ExactKept
<1>3. CoverInv'
  BY <1>1 DEF CoverInv
<1>4. AcceptsExactCovers'
  BY <1>1, <1>2 DEF AcceptsExactCovers, Exact
<1>5. DuplicateMeansRedundant'
  BY <1>1, <1>2 DEF DuplicateMeansRedundant
<1>6. QED
  BY <1>3, <1>4, <1>5 DEF ExactInv

\* Nothing is claimed before the loop begins.
LEMMA EarlyExact ==
  ASSUME ExactInv, Inv', pc' \notin {"level", "done"}, outcome' = outcome,
         pc # "done"
  PROVE  ExactInv'
<1>1. outcome' # "duplicateHash"
  BY DEF ExactInv, Inv, TypeOK
<1>2. QED
  BY <1>1 DEF ExactInv, CoverInv, AcceptsExactCovers, DuplicateMeansRedundant

\* A step of parsing leaves with an error only if the document is not parsed.
LEMMA ParseExact ==
  ASSUME ExactInv, ParseProof \/ ParseEntries
  PROVE  ExactInv'
<1>1. Inv'
  BY ParseProofStep, ParseEntriesStep DEF ExactInv
<1>2. /\ DOMAIN proof = 1..Len(proof) /\ Len(proof) \in Nat
      /\ DOMAIN entries = 1..Len(entries) /\ Len(entries) \in Nat
  BY DEF ExactInv, Inv, DocumentInv, IsArray
<1>3. CASE Throw("malformedProof") /\ ~\A p \in Members(proof) : WellFormed(p)
  BY <1>1, <1>3, ThrowExact DEF Errors, Exact, Parsed
<1>4. CASE /\ Throw("invalidProofOrdering")
           /\ ~\A i \in 1..(Len(proof) - 1) : Precedes(proof[i], proof[i + 1])
  <2>1. PICK i \in 1..(Len(proof) - 1) : ~Precedes(proof[i], proof[i + 1])
    BY <1>4
  <2>2. i \in DOMAIN proof /\ i + 1 \in DOMAIN proof /\ i < i + 1
    BY <1>2
  <2>3. ~Parsed
    BY <2>1, <2>2 DEF Parsed
  <2>4. QED
    BY <1>1, <1>4, <2>3, ThrowExact DEF Errors, Exact
<1>5. CASE /\ Throw("invalidValuesOrdering")
           /\ ~\A i \in 1..(Len(entries) - 1) : entries[i].index < entries[i + 1].index
  <2>1. PICK i \in 1..(Len(entries) - 1) : ~(entries[i].index < entries[i + 1].index)
    BY <1>5
  <2>2. i \in DOMAIN entries /\ i + 1 \in DOMAIN entries /\ i < i + 1
    BY <1>2
  <2>3. ~Parsed
    BY <2>1, <2>2 DEF Parsed
  <2>4. QED
    BY <1>1, <1>5, <2>3, ThrowExact DEF Errors, Exact
<1>6. CASE pc' \in {"parseEntries", "start"} /\ outcome' = outcome /\ pc # "done"
  BY <1>1, <1>6, EarlyExact
<1>7. QED
  BY <1>3, <1>4, <1>5, <1>6 DEF ParseProof, ParseEntries

\* For a length of 0 nothing may be given.
LEMMA EmptyListExact ==
  ASSUME ExactInv, EmptyList
  PROVE  ExactInv'
<1>1. Inv' /\ length = 0 /\ pc = "start"
  BY EmptyListStep DEF ExactInv, EmptyList
<1>2. DocumentInv /\ ParsedInv
  BY DEF ExactInv, Inv
<1>3. CASE (proof # <<>> \/ entries # <<>>) /\ Throw("malformedEmptyProof")
  <2>1. ASSUME proof # <<>> PROVE ~Placed
    <3>1. proof[1] \in Members(proof)
      BY <1>2, <2>1 DEF DocumentInv, IsArray, Members
    <3>2. LeavesUnder(proof[1]) = {}
      BY <1>1 DEF LeavesUnder
    <3>3. QED
      BY <3>1, <3>2 DEF Placed
  <2>2. ASSUME entries # <<>> PROVE ~Placed
    <3>1. entries[1] \in Members(entries) /\ entries[1].index \in Nat
      BY <1>2, <2>2 DEF DocumentInv, IsArray, Members, Natural
    <3>2. QED
      BY <1>1, <3>1 DEF Placed
  <2>3. QED
    BY <1>1, <1>3, <2>1, <2>2, ThrowExact DEF Errors, Exact
<1>4. CASE /\ proof = <<>> /\ entries = <<>> /\ outcome' = "ok" /\ pc' = "done"
           /\ UNCHANGED document
  <2>1. Exact
    <3>1. Members(proof) = {} /\ Members(entries) = {}
      BY <1>4 DEF Members
    <3>2. Parsed
      BY <1>4, <3>1 DEF Parsed
    <3>3. QED
      BY <1>1, <3>1, <3>2 DEF Exact, Placed
  <2>2. Exact'
    BY <1>4, <2>1, ExactKept
  <2>3. QED
    BY <1>1, <1>4, <2>2 DEF ExactInv, CoverInv, AcceptsExactCovers,
                            DuplicateMeansRedundant, Exact
<1>5. QED
  BY <1>3, <1>4 DEF EmptyList

\* No two heights fit a length.
LEMMA HeightUnique ==
  ASSUME NEW n \in Nat, NEW g \in 1..(MaxTreeHeight + 1), NEW h \in 1..(MaxTreeHeight + 1),
         IsHeight(n, g), IsHeight(n, h)
  PROVE  g = h
<1>1. \A k \in 0..MaxTreeHeight : Pow2[k] \in Nat
  BY PowerPositive
<1>2. ASSUME g < h PROVE FALSE
  <2>1. g - 1 \in 0..(h - 2) /\ g - 1 \in 0..MaxTreeHeight
    BY <1>2, HeightAssumption
  <2>2. QED
    BY <1>1, <2>1 DEF IsHeight
<1>3. ASSUME h < g PROVE FALSE
  <2>1. h - 1 \in 0..(g - 2) /\ h - 1 \in 0..MaxTreeHeight
    BY <1>3, HeightAssumption
  <2>2. QED
    BY <1>1, <2>1 DEF IsHeight
<1>4. QED
  BY <1>2, <1>3, HeightAssumption

\* The values are the first level, or one of the checks before the loop fails: then
\* something is at no leaf, or at or above the root, or there is nothing at all.
LEMMA StartExact ==
  ASSUME ExactInv, Start
  PROVE  ExactInv'
<1>1. Inv' /\ length > 0 /\ pc = "start" /\ length \in Nat
  BY StartStep DEF ExactInv, Start, Inv, DocumentInv
<1>2. DocumentInv /\ ParsedInv
  BY DEF ExactInv, Inv
<1>3. /\ DOMAIN proof = 1..Len(proof) /\ Len(proof) \in Nat
      /\ proof # <<>> => Len(proof) \in DOMAIN proof
  BY <1>2 DEF DocumentInv, IsArray
<1>4. \A p \in Members(proof) : /\ p.height \in 1..MaxTreeHeight /\ p.index \in Nat
                                /\ Pow2[p.height - 1] \in Nat /\ Pow2[p.height - 1] > 0
  BY <1>1, <1>2, PowerPositive, HeightAssumption
     DEF DocumentInv, ParsedInv, Members, Natural, WellFormed
<1>5. PICK h \in 1..(MaxTreeHeight + 1) :
        /\ IsHeight(length, h)
        /\ LET tooHigh == proof # <<>> /\ proof[Len(proof)].height >= h
               inside == /\ \A e \in Members(entries) : WithinList(e)
                         /\ \A p \in Members(proof) : WithinLevel(p)
           IN \/ proof = <<>> /\ entries = <<>> /\ Throw("noEntries")
              \/ tooHigh /\ Throw("unexpectedHeight")
              \/ ~tooHigh /\ ~inside /\ Throw("unexpectedIndex")
              \/ /\ ~tooHigh /\ inside
                 /\ treeHeight' = h /\ height' = 1 /\ lastIndex' = length - 1
                 /\ layer' = {[index |-> e.index, hash |-> Leaf(e.value)] :
                                e \in Members(entries)}
                 /\ pc' = "level"
                 /\ UNCHANGED <<document, merkleRoot, outcome, ref>>
  BY DEF Start
<1> DEFINE tooHigh == proof # <<>> /\ proof[Len(proof)].height >= h
           inside == /\ \A e \in Members(entries) : WithinList(e)
                     /\ \A p \in Members(proof) : WithinLevel(p)
<1>6. CASE proof = <<>> /\ entries = <<>> /\ Throw("noEntries")
  <2>1. Members(proof) = {} /\ Members(entries) = {} /\ 0 \in 0..(length - 1)
    BY <1>1, <1>6 DEF Members
  <2>2. ~CoveredOnce(0)
    BY <2>1 DEF CoveredOnce
  <2>3. QED
    BY <1>1, <1>6, <2>1, <2>2, ThrowExact DEF Errors, Exact
<1>7. CASE tooHigh /\ Throw("unexpectedHeight")
  <2>1. proof[Len(proof)] \in Members(proof) /\ ~(proof[Len(proof)].height < h)
    BY <1>3, <1>4, <1>7 DEF Members
  <2>2. ~Placed
    BY <1>5, <2>1 DEF Placed
  <2>3. QED
    BY <1>1, <1>7, <2>2, ThrowExact DEF Errors, Exact
<1>8. CASE ~inside /\ Throw("unexpectedIndex")
  <2>1. ASSUME NEW e \in Members(entries), ~WithinList(e) PROVE ~Placed
    <3>1. e.index \in Nat
      BY <1>2 DEF DocumentInv, Members, Natural
    <3>2. QED
      BY <1>1, <2>1, <3>1 DEF Placed, WithinList
  <2>2. ASSUME NEW p \in Members(proof), ~WithinLevel(p) PROVE ~Placed
    <3> DEFINE d == Pow2[p.height - 1]
    <3>1. ASSUME NEW j \in 0..(length - 1), j \div d = p.index PROVE FALSE
      <4>1. j \div d <= (length - 1) \div d
        BY <1>1, <1>4
      <4>2. QED
        BY <2>2, <3>1, <4>1 DEF WithinLevel
    <3>2. LeavesUnder(p) = {}
      BY <3>1 DEF LeavesUnder
    <3>3. QED
      BY <3>2 DEF Placed
  <2>3. QED
    BY <1>1, <1>8, <2>1, <2>2, ThrowExact DEF Errors, Exact
<1>9. CASE /\ ~tooHigh /\ inside
           /\ treeHeight' = h /\ height' = 1 /\ lastIndex' = length - 1
           /\ layer' = {[index |-> e.index, hash |-> Leaf(e.value)] :
                          e \in Members(entries)}
           /\ pc' = "level"
           /\ UNCHANGED <<document, merkleRoot, outcome, ref>>
  <2>1. \A e \in Members(entries) : e.index < length /\ e.index \in Nat
    BY <1>1, <1>2, <1>9 DEF WithinList, DocumentInv, Natural, Members
  <2>2. ASSUME NEW p \in Members(proof) PROVE p.height < h
    <3>1. PICK i \in DOMAIN proof : p = proof[i]
      BY DEF Members
    <3>2. i \in 1..Len(proof) /\ proof # <<>> /\ Len(proof) \in DOMAIN proof
      BY <1>3, <3>1
    <3>3. p.height <= proof[Len(proof)].height
      <4>1. CASE i = Len(proof)
        BY <1>4, <3>1, <4>1
      <4>2. CASE i < Len(proof)
        <5>1. Precedes(proof[i], proof[Len(proof)])
          BY <1>1, <1>2, <3>2, <4>2 DEF ParsedInv
        <5>2. proof[i].height \in Int /\ proof[Len(proof)].height \in Int
          BY <1>2, <3>2 DEF DocumentInv
        <5>3. QED
          BY <3>1, <5>1, <5>2 DEF Precedes
      <4>3. QED
        BY <3>2, <4>1, <4>2
    <3>4. proof[Len(proof)].height \in Int
      BY <1>2, <3>2 DEF DocumentInv
    <3>5. QED
      BY <1>4, <1>9, <3>2, <3>3, <3>4
  <2>3. ASSUME NEW j \in 0..(length - 1)
        PROVE  IF HasIndex(layer', j \div Pow2[0]) THEN OnceBelow(j, 1) ELSE NotBelow(j, 1)
    <3>1. Over(j, 1) = {}
      BY <1>4 DEF Over
    <3>2. j \div Pow2[0] = j
      BY <1>1, PowerAssumption
    <3>3. HasIndex(layer', j) <=> At(j) # {}
      <4>1. ASSUME NEW e \in At(j) PROVE HasIndex(layer', j)
        <5>1. [index |-> e.index, hash |-> Leaf(e.value)] \in layer' /\ e.index = j
          BY <1>9 DEF At
        <5>2. QED
          BY <5>1 DEF HasIndex
      <4>2. ASSUME NEW x \in layer', x.index = j PROVE At(j) # {}
        <5>1. PICK e \in Members(entries) : x = [index |-> e.index, hash |-> Leaf(e.value)]
          BY <1>9
        <5>2. QED
          BY <4>2, <5>1 DEF At
      <4>3. QED
        BY <4>1, <4>2 DEF HasIndex
    <3>4. \A e \in At(j) : At(j) = {e}
      BY <1>1, <1>2, EntriesUnique DEF At
    <3>5. QED
      BY <3>1, <3>2, <3>3, <3>4 DEF OnceBelow, NotBelow
  <2>4. /\ entries' = entries /\ proof' = proof /\ length' = length
        /\ treeHeight' = h /\ height' = 1 /\ pc' = "level" /\ outcome' = "running"
    BY <1>1, <1>9 DEF document, ExactInv, Inv, TypeOK
  <2>5. CoversAt(layer, height, height)'
    BY <2>3, <2>4 DEF CoversAt, OnceBelow, NotBelow, Over, At, LeavesUnder, Members
  <2>6. CoverInv'
    BY <2>1, <2>2, <2>4, <2>5 DEF CoverInv, Members
  <2>7. AcceptsExactCovers' /\ DuplicateMeansRedundant'
    BY <2>4 DEF AcceptsExactCovers, DuplicateMeansRedundant
  <2>8. QED
    BY <1>1, <2>6, <2>7 DEF ExactInv
<1>10. QED
  BY <1>5, <1>6, <1>7, <1>8, <1>9

\* What level height knows.
LEMMA LevelFacts ==
  ASSUME Inv, pc = "level"
  PROVE  /\ length \in Nat \ {0} /\ lastIndex \in Nat
         /\ height \in 1..treeHeight /\ treeHeight \in 1..(MaxTreeHeight + 1)
         /\ height - 1 \in 0..MaxTreeHeight /\ IsHeight(length, treeHeight)
         /\ Pow2[height - 1] \in Nat /\ Pow2[height - 1] > 0
         /\ IsLast(length, Pow2[height - 1], lastIndex) /\ IsLevel(layer, lastIndex)
         /\ \A p \in Members(proof) : /\ p.height \in 1..MaxTreeHeight
                                      /\ p.index \in Nat
<1>1. /\ length \in Nat \ {0} /\ lastIndex \in Nat
      /\ height \in 1..treeHeight /\ treeHeight \in 1..(MaxTreeHeight + 1)
      /\ IsHeight(length, treeHeight)
      /\ IsLast(length, Pow2[height - 1], lastIndex) /\ IsLevel(layer, lastIndex)
  BY DEF Inv, LevelInv, DocumentInv
<1>2. height - 1 \in 0..MaxTreeHeight
  BY <1>1, HeightAssumption
<1>3. \A p \in Members(proof) : p.height \in 1..MaxTreeHeight /\ p.index \in Nat
  BY HeightAssumption DEF Inv, DocumentInv, ParsedInv, Members, Natural, WellFormed
<1>4. QED
  BY <1>1, <1>2, <1>3, PowerPositive

\* The hashes over a leaf, up to a level, by whether they are given for it.
LEMMA OverNext ==
  ASSUME Inv, pc = "level", NEW j \in 0..(length - 1)
  PROVE  /\ Over(j, height + 1) =
              Over(j, height) \cup
              {p \in Members(proof) :
                 p.height = height /\ p.index = j \div Pow2[height - 1]}
         /\ \A p, q \in Over(j, height + 1) :
              p.height = height /\ q.height = height => p = q
         /\ HasIndex(Given(height), j \div Pow2[height - 1]) <=>
              \E p \in Members(proof) :
                p.height = height /\ p.index = j \div Pow2[height - 1]
<1>1. /\ height \in Nat /\ \A p \in Members(proof) : p.height \in Nat
  BY LevelFacts
<1>2. \A p \in Members(proof) :
        p.height < height + 1 <=> p.height < height \/ p.height = height
  BY <1>1
<1>3. \A p \in Members(proof) : p.height = height =>
        (j \in LeavesUnder(p) <=> p.index = j \div Pow2[height - 1])
  BY DEF LeavesUnder
<1>4. Over(j, height + 1) =
        Over(j, height) \cup
        {p \in Members(proof) : p.height = height /\ p.index = j \div Pow2[height - 1]}
  BY <1>2, <1>3 DEF Over
<1>5. \A p, q \in Over(j, height + 1) :
        p.height = height /\ q.height = height => p = q
  BY <1>3, HashesUnique DEF Inv, Over
<1>6. HasIndex(Given(height), j \div Pow2[height - 1]) <=>
        \E p \in Members(proof) : p.height = height /\ p.index = j \div Pow2[height - 1]
  <2> DEFINE b == j \div Pow2[height - 1]
  <2>1. ASSUME NEW p \in Members(proof), p.height = height, p.index = b
        PROVE  HasIndex(Given(height), b)
    <3>1. [index |-> p.index, hash |-> p.hash] \in Given(height)
      BY <2>1 DEF Given
    <3>2. QED
      BY <2>1, <3>1 DEF HasIndex
  <2>2. ASSUME NEW x \in Given(height), x.index = b
        PROVE  \E p \in Members(proof) : p.height = height /\ p.index = b
    <3>1. PICK p \in Members(proof) : /\ p.height = height
                                     /\ x = [index |-> p.index, hash |-> p.hash]
      BY DEF Given
    <3>2. QED
      BY <2>2, <3>1
  <2> HIDE DEF b
  <2>3. HasIndex(Given(height), b) <=>
          \E p \in Members(proof) : p.height = height /\ p.index = b
    BY <2>1, <2>2 DEF HasIndex
  <2>4. QED
    BY <2>3 DEF b
<1>7. QED
  BY <1>4, <1>5, <1>6

\* A leaf that is covered once below a level is covered twice with a hash there.
LEMMA TwiceCovered ==
  ASSUME NEW j, NEW h, OnceBelow(j, h), NEW p \in Members(proof),
         j \in LeavesUnder(p), ~(p.height < h)
  PROVE  Covered(j) /\ ~CoveredOnce(j)
<1> DEFINE es == {e \in Members(entries) : e.index = j}
           ps == {q \in Members(proof) : j \in LeavesUnder(q)}
<1>1. p \in ps /\ Covered(j)
  BY DEF Covered
<1>2. CASE \E e \in es : es = {e}
  BY <1>1, <1>2 DEF CoveredOnce
<1>3. CASE es = {} /\ \E q \in Over(j, h) : TRUE
  <2>1. PICK q \in ps : q.height < h
    BY <1>3 DEF Over
  <2>2. q # p
    BY <2>1
  <2>3. ~\E r \in ps : ps = {r}
    BY <1>1, <2>1, <2>2
  <2>4. QED
    BY <1>1, <1>3, <2>3 DEF CoveredOnce
<1>4. QED
  BY <1>2, <1>3 DEF OnceBelow, At

\* The merged level covers what is given up to it.
LEMMA MergedCovers ==
  ASSUME Inv, CoverInv, pc = "level", ~Clash(layer, Given(height))
  PROVE  CoversAt(layer \cup Given(height), height, height + 1)
<1> SUFFICES ASSUME NEW j \in 0..(length - 1)
             PROVE  IF HasIndex(layer \cup Given(height), j \div Pow2[height - 1])
                    THEN OnceBelow(j, height + 1) ELSE NotBelow(j, height + 1)
  BY DEF CoversAt
<1> DEFINE b == j \div Pow2[height - 1]
           here == {p \in Members(proof) : p.height = height /\ p.index = b}
<1>1. /\ Over(j, height + 1) = Over(j, height) \cup here
      /\ \A p, q \in here : p = q
      /\ HasIndex(Given(height), b) <=> here # {}
  BY OverNext
<1>2. IF HasIndex(layer, b) THEN OnceBelow(j, height) ELSE NotBelow(j, height)
  BY DEF CoverInv, CoversAt
<1>3. HasIndex(layer \cup Given(height), b) <=>
        HasIndex(layer, b) \/ HasIndex(Given(height), b)
  BY DEF HasIndex
<1>4. ~(HasIndex(layer, b) /\ HasIndex(Given(height), b))
  BY DEF Clash, HasIndex
<1> HIDE DEF b, here
<1>5. CASE here = {}
  BY <1>1, <1>2, <1>3, <1>5 DEF OnceBelow, NotBelow, b
<1>6. CASE here # {}
  <2>1. PICK p \in here : here = {p}
    BY <1>1, <1>6
  <2>2. NotBelow(j, height)
    BY <1>1, <1>2, <1>4, <1>6
  <2>3. Over(j, height + 1) = {p} /\ At(j) = {}
    BY <1>1, <2>1, <2>2 DEF NotBelow
  <2>4. QED
    BY <1>1, <1>3, <1>6, <2>3 DEF OnceBelow, b
<1>7. QED
  BY <1>5, <1>6

\* An index on both sides is that of a leaf that is covered twice.
LEMMA ClashRedundant ==
  ASSUME Inv, CoverInv, pc = "level", Clash(layer, Given(height))
  PROVE  \E j \in 0..(length - 1) : Covered(j) /\ ~CoveredOnce(j)
<1> DEFINE d == Pow2[height - 1]
<1>1. /\ length \in Nat \ {0} /\ lastIndex \in Nat /\ d \in Nat /\ d > 0
      /\ IsLast(length, d, lastIndex) /\ IsLevel(layer, lastIndex) /\ height \in Nat
  BY LevelFacts
<1>2. PICK x \in layer, p \in Members(proof) : p.height = height /\ p.index = x.index
  <2>1. PICK x \in layer, y \in Given(height) : x.index = y.index
    BY DEF Clash
  <2>2. PICK p \in Members(proof) : /\ p.height = height
                                   /\ y = [index |-> p.index, hash |-> p.hash]
    BY DEF Given
  <2>3. QED
    BY <2>1, <2>2
<1>3. x.index \in 0..lastIndex
  BY <1>1 DEF IsLevel
<1>4. PICK j \in 0..(length - 1) : j = x.index * d /\ j \div d = x.index
  BY <1>1, <1>3, FirstLeaf
<1>5. OnceBelow(j, height)
  BY <1>4 DEF CoverInv, CoversAt, HasIndex
<1>6. j \in LeavesUnder(p)
  BY <1>2, <1>4 DEF LeavesUnder
<1>7. QED
  BY <1>1, <1>2, <1>5, <1>6, TwiceCovered

\* Where a hash lacks its neighbour, the leaf below that is covered by nothing, or by a
\* hash that is over both.
LEMMA MissingUncovered ==
  ASSUME Inv, CoverInv, pc = "level", height < treeHeight,
         ~Clash(layer, Given(height)),
         NEW x \in layer \cup Given(height),
         ~Paired(x, layer \cup Given(height), lastIndex)
  PROVE  \E j \in 0..(length - 1) : ~CoveredOnce(j)
<1> DEFINE d == Pow2[height - 1]
           merged == layer \cup Given(height)
<1>1. /\ length \in Nat \ {0} /\ lastIndex \in Nat /\ d \in Nat /\ d > 0
      /\ IsLast(length, d, lastIndex) /\ height \in Nat /\ treeHeight \in Nat
      /\ treeHeight <= MaxTreeHeight + 1
      /\ \A p \in Members(proof) : p.height \in 1..MaxTreeHeight /\ p.index \in Nat
  BY LevelFacts, HeightAssumption
<1>2. IsLevel(merged, lastIndex)
  BY LevelFacts, GivenLevel, MergedLevel
<1>3. CoversAt(merged, height, height + 1)
  BY MergedCovers
<1>4. x.index \in 0..lastIndex
  BY <1>2 DEF IsLevel
<1>5. PICK c \in 0..lastIndex : c \div 2 = x.index \div 2 /\ ~HasIndex(merged, c)
  <2>1. CASE x.index % 2 = 0
    <3>1. x.index + 1 \in 0..lastIndex /\ (x.index + 1) \div 2 = x.index \div 2
      BY <1>1, <1>4, <2>1 DEF Paired
    <3>2. ~HasIndex(merged, x.index + 1)
      BY <2>1 DEF HasIndex, Paired
    <3>3. QED
      BY <3>1, <3>2
  <2>2. CASE x.index % 2 = 1
    <3>1. x.index - 1 \in 0..lastIndex /\ (x.index - 1) \div 2 = x.index \div 2
      BY <1>1, <1>4, <2>2
    <3>2. ~HasIndex(merged, x.index - 1)
      BY <2>2 DEF HasIndex, Paired
    <3>3. QED
      BY <3>1, <3>2
  <2>3. x.index % 2 = 0 \/ x.index % 2 = 1
    BY <1>1, <1>4
  <2>4. QED
    BY <2>1, <2>2, <2>3, Zenon
<1>6. PICK i \in 0..(length - 1) : i = x.index * d /\ i \div d = x.index
  BY <1>1, <1>4, FirstLeaf
<1>7. PICK j \in 0..(length - 1) : j = c * d /\ j \div d = c
  BY <1>1, FirstLeaf
<1> HIDE DEF d, merged
<1>8. OnceBelow(i, height + 1)
  BY <1>3, <1>6 DEF CoversAt, HasIndex, merged, d
<1>9. NotBelow(j, height + 1)
  BY <1>3, <1>5, <1>7 DEF CoversAt, d
<1>10. ASSUME CoveredOnce(j) PROVE ~CoveredOnce(i)
  <2>1. PICK p \in Members(proof) : j \in LeavesUnder(p)
    BY <1>9, <1>10 DEF CoveredOnce, NotBelow, At
  <2>2. ~(p.height < height + 1)
    BY <1>9, <2>1 DEF NotBelow, Over
  <2>3. p.height - 1 \in height..MaxTreeHeight /\ height \in 0..MaxTreeHeight
    BY <1>1, <2>2, HeightAssumption
  <2>4. Pow2[height] = 2 * d
    <3>1. height - 1 \in 0..(MaxTreeHeight - 1) /\ height - 1 + 1 = height
      BY <1>1, <2>3, LevelFacts, HeightAssumption
    <3>2. QED
      BY <3>1, PowerAssumption DEF d
  <2>5. i \div Pow2[height] = j \div Pow2[height]
    <3>1. i \in Nat /\ j \in Nat
      BY <1>1
    <3>2. i \div (2 * d) = (i \div d) \div 2 /\ j \div (2 * d) = (j \div d) \div 2
      BY <1>1, <3>1, HalfBlock DEF d
    <3>3. QED
      BY <1>5, <1>6, <1>7, <2>4, <3>2
  <2>6. i \div Pow2[p.height - 1] = j \div Pow2[p.height - 1]
    <3>1. i \in Nat /\ j \in Nat
      BY <1>1
    <3>2. QED
      BY <2>3, <2>5, <3>1, BlocksAbove
  <2>7. i \in LeavesUnder(p)
    BY <2>1, <2>6 DEF LeavesUnder
  <2>8. QED
    BY <1>8, <2>2, <2>7, TwiceCovered
<1>11. QED
  BY <1>10

\* The level above covers the same leaves.
LEMMA ZippedCovers ==
  ASSUME Inv, pc = "level", height < treeHeight, NEW xs, IsLevel(xs, lastIndex),
         \A x \in xs : Paired(x, xs, lastIndex), CoversAt(xs, height, height + 1)
  PROVE  CoversAt(Zipped(xs, lastIndex), height + 1, height + 1)
<1> DEFINE d == Pow2[height - 1]
<1>1. /\ length \in Nat \ {0} /\ lastIndex \in Nat /\ d \in Nat /\ d > 0
      /\ IsLast(length, d, lastIndex)
  BY LevelFacts
<1>2. height + 1 - 1 = height /\ Pow2[height] = 2 * d
  <2>1. height - 1 \in 0..(MaxTreeHeight - 1) /\ height - 1 + 1 = height
    BY LevelFacts, HeightAssumption
  <2>2. QED
    BY <2>1, PowerAssumption
<1>3. SUFFICES ASSUME NEW j \in 0..(length - 1)
               PROVE  HasIndex(Zipped(xs, lastIndex), j \div Pow2[height]) <=>
                        HasIndex(xs, j \div d)
  <2>1. CoversAt(Zipped(xs, lastIndex), height + 1, height + 1) <=>
          \A j \in 0..(length - 1) :
            IF HasIndex(Zipped(xs, lastIndex), j \div Pow2[height])
            THEN OnceBelow(j, height + 1) ELSE NotBelow(j, height + 1)
    <3>1. PICK k : k = height + 1
      OBVIOUS
    <3>2. Pow2[k - 1] = Pow2[height]
      <4>1. height \in Nat
        BY LevelFacts
      <4>2. k - 1 = height
        BY <3>1, <4>1
      <4>3. QED
        BY <4>2
    <3>3. CoversAt(Zipped(xs, lastIndex), k, k) <=>
            \A j \in 0..(length - 1) :
              IF HasIndex(Zipped(xs, lastIndex), j \div Pow2[height])
              THEN OnceBelow(j, k) ELSE NotBelow(j, k)
      BY <3>2, Zenon DEF CoversAt
    <3>4. QED
      BY <3>1, <3>3, Zenon
  <2>2. QED
    BY <2>1, Zenon DEF CoversAt
<1>4. j \div Pow2[height] = (j \div d) \div 2
  BY <1>1, <1>2, <1>3, HalfBlock
<1>5. j \div d \in 0..lastIndex
  BY <1>1, BlockOfLeaf
<1>6. QED
  BY <1>1, <1>4, <1>5, ZippedIndexes

\* A level without its hashes, or with a hash twice, is one of a document that is not
\* to be accepted.
LEMMA LevelExact ==
  ASSUME ExactInv, Level
  PROVE  ExactInv'
<1> DEFINE merged == layer \cup Given(height)
<1>1. /\ Inv' /\ Inv /\ CoverInv /\ pc = "level" /\ height < treeHeight
      /\ outcome = "running"
  BY LevelStep DEF ExactInv, Level, Inv, TypeOK
<1>2. CASE Clash(layer, Given(height)) /\ Throw("duplicateHash")
  <2>1. \E j \in 0..(length - 1) : Covered(j) /\ ~CoveredOnce(j)
    BY <1>1, <1>2, ClashRedundant
  <2>2. QED
    BY <1>1, <1>2, <2>1, ThrowExact DEF Errors, Exact
<1>3. CASE /\ ~Clash(layer, Given(height)) /\ Throw("missingHash")
           /\ ~\A x \in merged : Paired(x, merged, lastIndex)
  <2>1. \E j \in 0..(length - 1) : ~CoveredOnce(j)
    BY <1>1, <1>3, MissingUncovered
  <2>2. QED
    BY <1>1, <1>3, <2>1, ThrowExact DEF Errors, Exact
<1>4. CASE /\ ~Clash(layer, Given(height))
           /\ \A x \in merged : Paired(x, merged, lastIndex)
           /\ layer' = Zipped(merged, lastIndex) /\ height' = height + 1
           /\ UNCHANGED <<document, pc, treeHeight, merkleRoot, outcome>>
  <2>1. CoversAt(merged, height, height + 1)
    BY <1>1, <1>4, MergedCovers
  <2>2. IsLevel(merged, lastIndex)
    BY <1>1, <1>4, LevelFacts, GivenLevel, MergedLevel
  <2>3. CoversAt(layer', height', height')
    BY <1>1, <1>4, <2>1, <2>2, ZippedCovers
  <2>4. /\ entries' = entries /\ proof' = proof /\ length' = length
        /\ treeHeight' = treeHeight /\ pc' = "level" /\ outcome' = "running"
    BY <1>1, <1>4 DEF document
  <2>5. CoversAt(layer, height, height)'
    BY <2>3, <2>4 DEF CoversAt, OnceBelow, NotBelow, Over, At, LeavesUnder, Members
  <2>6. CoverInv'
    BY <1>1, <2>4, <2>5 DEF CoverInv, Members
  <2>7. AcceptsExactCovers' /\ DuplicateMeansRedundant'
    BY <2>4 DEF AcceptsExactCovers, DuplicateMeansRedundant
  <2>8. QED
    BY <1>1, <2>6, <2>7 DEF ExactInv
<1>5. QED
  BY <1>2, <1>3, <1>4 DEF Level

\* At the top there is one hash, which covers all leaves.
LEMMA FinishExact ==
  ASSUME ExactInv, Finish
  PROVE  ExactInv'
<1> DEFINE d == Pow2[height - 1]
<1>1. /\ Inv' /\ Inv /\ CoverInv /\ pc = "level" /\ height = treeHeight
      /\ outcome' = "ok" /\ pc' = "done" /\ UNCHANGED document
  BY FinishStep DEF ExactInv, Finish
<1>2. /\ length \in Nat \ {0} /\ d \in Nat /\ d > 0 /\ lastIndex \in Nat
      /\ IsHeight(length, height) /\ IsLevel(layer, lastIndex)
      /\ height \in 1..(MaxTreeHeight + 1) /\ IsLast(length, d, lastIndex)
      /\ \A p \in Members(proof) : p.height \in 1..MaxTreeHeight /\ p.index \in Nat
  BY <1>1, LevelFacts
<1>3. d >= length
  BY <1>2 DEF IsHeight
<1>4. lastIndex = 0
  <2>1. lastIndex * d < d
    BY <1>2, <1>3 DEF IsLast
  <2>2. QED
    BY <1>2, <2>1
<1>5. PICK x \in layer : x.index = 0
  BY <1>2, <1>4 DEF Finish, IsLevel
<1>6. ASSUME NEW j \in 0..(length - 1) PROVE CoveredOnce(j)
  <2>1. j \div d = 0
    <3>1. j \in Nat /\ j < d /\ j = 0 * d + j
      BY <1>2, <1>3
    <3>2. QED
      BY <1>2, <3>1, QuotientOf
  <2>2. OnceBelow(j, height)
    BY <1>1, <1>5, <2>1 DEF CoverInv, CoversAt, HasIndex
  <2>3. Over(j, height) = {p \in Members(proof) : j \in LeavesUnder(p)}
    BY <1>1 DEF CoverInv, Over
  <2>4. QED
    BY <2>2, <2>3 DEF OnceBelow, At, CoveredOnce
<1>7. Parsed
  BY <1>1 DEF Inv, ParsedInv, Parsed
<1>8. Placed
  <2>1. ASSUME NEW p \in Members(proof) PROVE LeavesUnder(p) # {}
    <3> DEFINE D == Pow2[p.height - 1]
    <3>1. D \in Nat /\ D > 0 /\ p.index \in Nat
      BY <1>2, PowerPositive, HeightAssumption
    <3>2. p.index <= (length - 1) \div D
      BY <1>1 DEF Inv, ParsedInv, WithinLevel
    <3>3. PICK q \in Nat : q = (length - 1) \div D /\ q * D <= length - 1
      BY <1>2, <3>1
    <3>4. p.index * D \in Nat /\ p.index * D <= q * D
      BY <3>1, <3>2, <3>3
    <3>5. p.index * D \in 0..(length - 1)
      BY <1>2, <3>1, <3>3, <3>4
    <3>6. (p.index * D) \div D = p.index
      BY <3>1, <3>4, QuotientOf
    <3>7. QED
      BY <3>5, <3>6 DEF LeavesUnder
  <2>2. ASSUME NEW p \in Members(proof), NEW h \in 1..(MaxTreeHeight + 1),
               IsHeight(length, h)
        PROVE  p.height < h
    <3>1. h = height
      BY <1>2, <2>2, HeightUnique
    <3>2. QED
      BY <1>1, <3>1 DEF CoverInv
  <2>3. QED
    BY <1>1, <2>1, <2>2 DEF Placed, CoverInv
<1>9. Exact'
  BY <1>1, <1>6, <1>7, <1>8, ExactKept DEF Exact
<1>10. QED
  BY <1>1, <1>9 DEF ExactInv, CoverInv, AcceptsExactCovers, DuplicateMeansRedundant, Exact

\* The cover is known in every state.
LEMMA ExactInductive ==
  ASSUME NaturalIndexes
  PROVE  Spec => []ExactInv
<1>1. Init => ExactInv
  BY InitInv DEF Init, ExactInv, CoverInv, AcceptsExactCovers, DuplicateMeansRedundant
<1>2. ExactInv /\ [Next]_vars => ExactInv'
  <2> SUFFICES ASSUME ExactInv, [Next]_vars PROVE ExactInv'
    OBVIOUS
  <2>1. CASE Next
    BY <2>1, ParseExact, EmptyListExact, StartExact, LevelExact, FinishExact DEF Next
  <2>2. CASE UNCHANGED vars
    <3>1. Inv'
      BY <2>2, InvStep DEF ExactInv
    <3>2. UNCHANGED document
      BY <2>2 DEF vars, document
    <3>3. AcceptsExactCovers' /\ DuplicateMeansRedundant'
      <4>1. /\ pc' = pc /\ outcome' = outcome /\ length' = length
            /\ (Exact <=> Exact')
            /\ \A j : /\ (Covered(j) <=> Covered(j)')
                      /\ (CoveredOnce(j) <=> CoveredOnce(j)')
        BY <2>2, <3>2, ExactKept DEF vars
      <4>2. QED
        BY <4>1 DEF ExactInv, AcceptsExactCovers, DuplicateMeansRedundant, Exact
    <3>4. CoverInv'
      BY <2>2 DEF vars, ExactInv, CoverInv, CoversAt, OnceBelow, NotBelow, Over, At,
                  LeavesUnder, Members
    <3>5. QED
      BY <3>1, <3>3, <3>4 DEF ExactInv
  <2>3. QED
    BY <2>1, <2>2
<1>3. QED
  BY <1>1, <1>2, PTL DEF Spec

\* The check level by level accepts exactly the sorted documents that cover every leaf
\* of the tree once, for lists and documents of every size.
THEOREM AcceptedCoversExactly ==
  ASSUME NaturalIndexes
  PROVE  Spec => []AcceptsExactCovers
BY ExactInductive, PTL DEF ExactInv

\* Redundant entries are reported only where a leaf is covered twice.
THEOREM DuplicatesAreRedundant ==
  ASSUME NaturalIndexes
  PROVE  Spec => []DuplicateMeansRedundant
BY ExactInductive, PTL DEF ExactInv

-----------------------------------------------------------------------------
(* What a node sends is accepted.                                          *)

\* Level h of the tree of a list, as it follows from the level below in t.
LevelOf(l, t, h) ==
  [i \in Nat |->
     IF h = 1 THEN Leaf(l[i + 1])
     ELSE IF (2 * i + 1) * Pow2[h - 2] < Len(l)
          THEN Node(t[h - 1][2 * i], t[h - 1][2 * i + 1])
          ELSE Solitary(t[h - 1][2 * i])]

Levels == 1..(MaxTreeHeight + 1)

\* The tree t is right at its n lowest levels.
Built(l, t, n) ==
  /\ t = [h \in Levels |-> t[h]]
  /\ \A h \in Levels : h <= n => t[h] = LevelOf(l, t, h)

\* It becomes right at one more.
LEMMA BuiltHigher ==
  ASSUME NEW l, NEW n \in Nat, NEW t, Built(l, t, n)
  PROVE  \E u : Built(l, u, n + 1)
<1>1. PICK u : u = [h \in Levels |-> IF h <= n THEN t[h] ELSE LevelOf(l, t, h)]
  OBVIOUS
<1>2. \A h \in Levels : u[h] = LevelOf(l, t, h)
  BY <1>1 DEF Built
<1>3. ASSUME NEW h \in Levels, h <= n + 1
      PROVE  LevelOf(l, t, h) = LevelOf(l, u, h)
  <2>1. CASE h = 1
    BY <2>1 DEF LevelOf
  <2>2. CASE h # 1
    <3>1. h - 1 \in Levels /\ h - 1 <= n
      BY <1>3, <2>2, HeightAssumption DEF Levels
    <3>2. u[h - 1] = t[h - 1]
      BY <1>1, <3>1
    <3>3. QED
      BY <3>2, Zenon DEF LevelOf
  <2>3. QED
    BY <2>1, <2>2
<1>4. u = [h \in Levels |-> u[h]]
  BY <1>1
<1>5. QED
  BY <1>2, <1>3, <1>4 DEF Built

\* The tree is built from the leaves up.
LEMMA TreeExists ==
  ASSUME NEW l
  PROVE  \E t : t = [h \in Levels |-> LevelOf(l, t, h)]
<1>1. \E t : Built(l, t, 0)
  <2>1. PICK t : t = [h \in Levels |-> 0]
    OBVIOUS
  <2>2. t = [h \in Levels |-> t[h]] /\ \A h \in Levels : ~(h <= 0)
    BY <2>1, HeightAssumption DEF Levels
  <2>3. QED
    BY <2>2 DEF Built
<1>2. PICK N : N = {n \in Nat : ~\E t : Built(l, t, n)}
  OBVIOUS
<1>3. ASSUME N # {} PROVE FALSE
  <2>1. N \in SUBSET Nat
    BY <1>2
  <2>2. PICK m \in N : \A k \in N : m <= k
    BY <1>3, <2>1, LeastNumber
  <2>3. m # 0 /\ m \in Nat
    BY <1>1, <1>2
  <2>4. PICK k \in Nat : m = k + 1
    <3>1. m - 1 \in Nat /\ m = (m - 1) + 1
      BY <2>3
    <3>2. QED
      BY <3>1
  <2>5. k \notin N
    BY <2>2, <2>4
  <2>6. QED
    BY <1>2, <2>4, <2>5, BuiltHigher
<1>4. PICK n \in Nat : n = MaxTreeHeight + 1
  BY HeightAssumption
<1>5. PICK t : Built(l, t, n)
  BY <1>2, <1>3
<1>6. \A h \in Levels : t[h] = LevelOf(l, t, h)
  BY <1>4, <1>5 DEF Built, Levels
<1>7. t = [h \in Levels |-> LevelOf(l, t, h)]
  BY <1>5, <1>6 DEF Built
<1>8. QED
  BY <1>7

\* The definition of the tree is an equation for it.
LEMMA TreeAt ==
  ASSUME NEW l, NEW h \in Levels
  PROVE  TreeHash(l)[h] = LevelOf(l, TreeHash(l), h)
<1>1. TreeHash(l) = CHOOSE t : t = [g \in Levels |-> LevelOf(l, t, g)]
  BY DEF TreeHash, LevelOf, Levels
<1>2. TreeHash(l) = [g \in Levels |-> LevelOf(l, TreeHash(l), g)]
  BY <1>1, TreeExists
<1>3. QED
  BY <1>2

\* The step up: what agrees with a level makes what agrees with the next one.
LEMMA AgreementAscends ==
  ASSUME NEW last \in Nat, NEW xs, IsLevel(xs, last), NEW level, AgreesWith(xs, level)
  PROVE  AgreesWith(Zipped(xs, last), Above(level, last))
<1> SUFFICES ASSUME NEW e \in Zipped(xs, last)
             PROVE  e.hash = Above(level, last)[e.index]
  BY DEF AgreesWith
<1>1. CASE \E x, y \in xs : /\ x.index % 2 = 0 /\ y.index = x.index + 1
                            /\ e = [index |-> x.index \div 2,
                                    hash |-> Node(x.hash, y.hash)]
  <2>1. PICK x \in xs, y \in xs : /\ x.index % 2 = 0 /\ y.index = x.index + 1
                                  /\ e = [index |-> x.index \div 2,
                                          hash |-> Node(x.hash, y.hash)]
    BY <1>1
  <2>2. PICK k \in Nat : k = x.index \div 2 /\ x.index = 2 * k /\ y.index = 2 * k + 1
    BY <2>1 DEF IsLevel
  <2>3. k \in 0..(last \div 2) /\ 2 * k + 1 <= last
    BY <2>2 DEF IsLevel
  <2>4. Above(level, last)[k] = Node(level[2 * k], level[2 * k + 1])
    BY <2>3 DEF Above
  <2>5. x.hash = level[2 * k] /\ y.hash = level[2 * k + 1]
    BY <2>2 DEF AgreesWith
  <2>6. QED
    BY <2>1, <2>2, <2>4, <2>5
<1>2. CASE \E x \in xs : /\ x.index % 2 = 0 /\ x.index = last
                         /\ e = [index |-> x.index \div 2, hash |-> Solitary(x.hash)]
  <2>1. PICK x \in xs : /\ x.index % 2 = 0 /\ x.index = last
                        /\ e = [index |-> x.index \div 2, hash |-> Solitary(x.hash)]
    BY <1>2
  <2>2. PICK k \in Nat : k = x.index \div 2 /\ x.index = 2 * k
    BY <2>1
  <2>3. k \in 0..(last \div 2) /\ ~(2 * k + 1 <= last)
    BY <2>1, <2>2
  <2>4. Above(level, last)[k] = Solitary(level[2 * k])
    BY <2>3 DEF Above
  <2>5. x.hash = level[2 * k]
    BY <2>2 DEF AgreesWith
  <2>6. QED
    BY <2>1, <2>2, <2>4, <2>5
<1>3. QED
  BY <1>1, <1>2, ZippedMembers

\* A node has a right child exactly if its level below goes on to there.
LEMMA RightChild ==
  ASSUME NEW n \in Nat \ {0}, NEW d \in Nat, d > 0, NEW l \in Nat, IsLast(n, d, l),
         NEW k \in Nat
  PROVE  2 * k + 1 <= l <=> (2 * k + 1) * d < n
<1>1. PICK c \in Nat : c = 2 * k + 1
  OBVIOUS
<1>2. ASSUME c <= l PROVE c * d < n
  <2>1. c * d <= l * d
    BY <1>2
  <2>2. QED
    BY <2>1 DEF IsLast
<1>3. ASSUME ~(c <= l) PROVE ~(c * d < n)
  <2>1. l + 1 <= c
    BY <1>3
  <2>2. (l + 1) * d <= c * d
    BY <2>1
  <2>3. QED
    BY <2>2 DEF IsLast
<1>4. QED
  BY <1>1, <1>2, <1>3

\* A document of the hashes and values of the list.
HonestDocument ==
  /\ length = Len(list)
  /\ \A p \in Members(proof) : Honest(p)
  /\ \A e \in Members(entries) : Genuine(e)

\* ref is the level of the tree, and layer is of it if the document is.
TreeInv ==
  pc = "level" /\ length = Len(list) =>
    \A k \in 0..lastIndex : ref[k] = TreeHash(list)[height][k]

HonestInv == pc = "level" /\ HonestDocument => AgreesWith(layer, ref)

TrustInv == Inv /\ TreeInv /\ HonestInv /\ HonestRoot

\* The document is honest or not.
LEMMA HonestKept ==
  ASSUME UNCHANGED document
  PROVE  HonestDocument <=> HonestDocument'
BY DEF document, HonestDocument, Honest, Genuine, Members

\* Outside the loop, and without an accepted document, nothing is claimed.
LEMMA QuietTrust ==
  ASSUME Inv', pc' # "level", outcome' # "ok"
  PROVE  TrustInv'
BY DEF TrustInv, TreeInv, HonestInv, HonestRoot

\* So it is with errors.
LEMMA ThrowTrust ==
  ASSUME Inv', NEW e \in Errors, Throw(e)
  PROVE  TrustInv'
<1>1. pc' = "done" /\ outcome' # "ok"
  BY DEF Throw, Errors
<1>2. QED
  BY <1>1, QuietTrust

\* Parsing accepts nothing yet.
LEMMA ParseTrust ==
  ASSUME TrustInv, ParseProof \/ ParseEntries
  PROVE  TrustInv'
<1>1. Inv' /\ outcome # "ok"
  BY ParseProofStep, ParseEntriesStep
     DEF TrustInv, Inv, TypeOK, ParseProof, ParseEntries
<1>2. CASE \E e \in Errors : Throw(e)
  BY <1>1, <1>2, ThrowTrust
<1>3. CASE pc' # "level" /\ outcome' = outcome
  BY <1>1, <1>3, QuietTrust
<1>4. QED
  BY <1>2, <1>3 DEF ParseProof, ParseEntries, Errors

\* The root hash of the empty list.
LEMMA EmptyListTrust ==
  ASSUME TrustInv, EmptyList
  PROVE  TrustInv'
<1>1. Inv' /\ length = 0 /\ list \in Seq(Values)
  BY EmptyListStep DEF TrustInv, EmptyList, Inv, DocumentInv
<1>2. CASE \E e \in Errors : Throw(e)
  BY <1>1, <1>2, ThrowTrust
<1>3. CASE /\ merkleRoot' = ListHash(length, ZeroHash) /\ pc' = "done"
           /\ UNCHANGED <<document, ref>>
  <2>1. ASSUME length = Len(list)
        PROVE  TrustedRoot = RootOf(list) /\ merkleRoot' = RootOf(list)
    <3>1. list = <<>>
      BY <1>1, <2>1
    <3>2. QED
      BY <1>3, <2>1, <3>1 DEF TrustedRoot, RootOf
  <2>2. list' = list /\ length' = length /\ TrustedRoot' = TrustedRoot
    BY <1>3 DEF document, TrustedRoot
  <2>3. RootOf(list)' = RootOf(list)
    BY <2>2 DEF RootOf
  <2>4. HonestRoot'
    BY <2>1, <2>2, <2>3, Zenon DEF HonestRoot
  <2>5. QED
    BY <1>1, <1>3, <2>4 DEF TrustInv, TreeInv, HonestInv
<1>4. QED
  BY <1>2, <1>3 DEF EmptyList, Errors

\* The leaves of the tree, and the values.
LEMMA StartTrust ==
  ASSUME TrustInv, Start
  PROVE  TrustInv'
<1>1. /\ Inv' /\ Inv /\ length > 0 /\ pc = "start" /\ length \in Nat
      /\ outcome = "running"
      /\ ref = [i \in 0..(Len(list) - 1) |-> Leaf(list[i + 1])]
  BY StartStep DEF TrustInv, Start, Inv, DocumentInv, TypeOK, LeavesInv
<1>2. CASE \E e \in Errors : Throw(e)
  BY <1>1, <1>2, ThrowTrust
<1>3. CASE /\ height' = 1 /\ lastIndex' = length - 1
           /\ layer' = {[index |-> e.index, hash |-> Leaf(e.value)] :
                          e \in Members(entries)}
           /\ pc' = "level"
           /\ UNCHANGED <<document, outcome, ref>>
  <2>1. list' = list /\ length' = length /\ ref' = ref /\ outcome' = "running"
    BY <1>1, <1>3 DEF document
  <2>2. TreeInv'
    <3>1. SUFFICES ASSUME length = Len(list), NEW k \in 0..(length - 1)
                   PROVE  ref[k] = TreeHash(list)[1][k]
      BY <1>3, <2>1, Zenon DEF TreeInv
    <3>2. TreeHash(list)[1] = LevelOf(list, TreeHash(list), 1)
      BY TreeAt, HeightAssumption DEF Levels
    <3>3. LevelOf(list, TreeHash(list), 1)[k] = Leaf(list[k + 1])
      BY <1>1 DEF LevelOf
    <3>4. QED
      BY <1>1, <3>1, <3>2, <3>3
  <2>3. HonestInv'
    <3>1. HonestDocument' <=> HonestDocument
      BY <1>3, HonestKept
    <3>2. SUFFICES ASSUME HonestDocument, NEW x \in layer'
                   PROVE  x.hash = ref[x.index]
      BY <2>1, <3>1, Zenon DEF HonestInv, AgreesWith
    <3>3. PICK e \in Members(entries) : x = [index |-> e.index, hash |-> Leaf(e.value)]
      BY <1>3
    <3>4. e.index \in 0..(Len(list) - 1) /\ e.value = list[e.index + 1]
      <4>1. e.index \in Nat
        BY <1>1 DEF Inv, DocumentInv, Natural, Members
      <4>2. e.index < Len(list) /\ e.value = list[e.index + 1] /\ length = Len(list)
        BY <3>2 DEF HonestDocument, Genuine
      <4>3. QED
        BY <1>1, <4>1, <4>2
    <3>5. QED
      BY <1>1, <3>3, <3>4
  <2>4. QED
    BY <1>1, <2>1, <2>2, <2>3 DEF TrustInv, HonestRoot
<1>4. QED
  BY <1>2, <1>3 DEF Start, Errors

\* One level up, of the tree and of the document.
LEMMA LevelTrust ==
  ASSUME TrustInv, Level
  PROVE  TrustInv'
<1> DEFINE merged == layer \cup Given(height)
           d == Pow2[height - 1]
<1>1. /\ Inv' /\ Inv /\ pc = "level" /\ height < treeHeight /\ outcome = "running"
  BY LevelStep DEF TrustInv, Level, Inv, TypeOK
<1>2. /\ length \in Nat \ {0} /\ d \in Nat /\ d > 0 /\ lastIndex \in Nat
      /\ IsLast(length, d, lastIndex)
      /\ height \in 1..MaxTreeHeight
  BY <1>1, LevelFacts, HeightAssumption
<1>3. CASE \E e \in Errors : Throw(e)
  BY <1>1, <1>3, ThrowTrust
<1>4. CASE /\ ~Clash(layer, Given(height))
           /\ layer' = Zipped(merged, lastIndex) /\ height' = height + 1
           /\ lastIndex' = lastIndex \div 2
           /\ ref' = IF length = Len(list) THEN Above(ref, lastIndex) ELSE ref
           /\ UNCHANGED <<document, pc, outcome>>
  <2>1. list' = list /\ length' = length /\ outcome' = "running" /\ pc' = "level"
    BY <1>1, <1>4 DEF document
  <2>2. TreeInv'
    <3>1. SUFFICES ASSUME length = Len(list), NEW k \in 0..(lastIndex \div 2)
                   PROVE  Above(ref, lastIndex)[k] = TreeHash(list)[height + 1][k]
      BY <1>4, <2>1, Zenon DEF TreeInv
    <3>2. height + 1 \in Levels /\ height + 1 # 1 /\ height + 1 - 2 = height - 1
          /\ height + 1 - 1 = height
      BY <1>2, HeightAssumption DEF Levels
    <3>3. TreeHash(list)[height + 1] = LevelOf(list, TreeHash(list), height + 1)
      BY <3>2, TreeAt
    <3>4. k \in Nat /\ 2 * k \in 0..lastIndex
      BY <1>2, <3>1
    <3>5. LevelOf(list, TreeHash(list), height + 1)[k] =
            IF (2 * k + 1) * d < Len(list)
            THEN Node(TreeHash(list)[height][2 * k], TreeHash(list)[height][2 * k + 1])
            ELSE Solitary(TreeHash(list)[height][2 * k])
      <4>1. PICK g : g = height + 1
        OBVIOUS
      <4>2. g # 1 /\ g - 2 = height - 1 /\ g - 1 = height
        BY <1>2, <4>1
      <4>3. LevelOf(list, TreeHash(list), g)[k] =
              IF (2 * k + 1) * d < Len(list)
              THEN Node(TreeHash(list)[height][2 * k], TreeHash(list)[height][2 * k + 1])
              ELSE Solitary(TreeHash(list)[height][2 * k])
        BY <3>4, <4>2 DEF LevelOf
      <4>4. QED
        BY <4>1, <4>3
    <3>6. Above(ref, lastIndex)[k] =
            IF 2 * k + 1 <= lastIndex THEN Node(ref[2 * k], ref[2 * k + 1])
                                      ELSE Solitary(ref[2 * k])
      BY <3>1 DEF Above
    <3>7. \A i \in 0..lastIndex : ref[i] = TreeHash(list)[height][i]
      BY <1>1, <3>1 DEF TrustInv, TreeInv
    <3>8. 2 * k + 1 <= lastIndex <=> (2 * k + 1) * d < Len(list)
      BY <1>2, <3>1, <3>4, RightChild
    <3>9. ref[2 * k] = TreeHash(list)[height][2 * k]
      BY <3>4, <3>7
    <3>10. 2 * k + 1 <= lastIndex => ref[2 * k + 1] = TreeHash(list)[height][2 * k + 1]
      BY <1>2, <3>4, <3>7
    <3> HIDE DEF d
    <3>11. QED
      BY <3>3, <3>5, <3>6, <3>8, <3>9, <3>10, Zenon
  <2>3. HonestInv'
    <3>1. HonestDocument' <=> HonestDocument
      BY <1>4, HonestKept
    <3>2. SUFFICES ASSUME HonestDocument
                   PROVE  AgreesWith(layer', ref')
      BY <3>1, Zenon DEF HonestInv, AgreesWith
    <3>3. length = Len(list)
      BY <3>2 DEF HonestDocument
    <3>4. ASSUME NEW x \in Given(height) PROVE x.hash = ref[x.index]
      <4>1. PICK p \in Members(proof) : /\ p.height = height
                                        /\ x = [index |-> p.index, hash |-> p.hash]
        BY DEF Given
      <4>2. p.hash = TreeHash(list)[height][x.index]
        BY <3>2, <4>1 DEF HonestDocument, Honest
      <4>3. x.index \in 0..lastIndex
        BY <1>1, GivenLevel DEF IsLevel
      <4>4. ref[x.index] = TreeHash(list)[height][x.index]
        BY <1>1, <3>3, <4>3 DEF TrustInv, TreeInv
      <4>5. QED
        BY <4>1, <4>2, <4>4
    <3>5. AgreesWith(merged, ref)
      BY <1>1, <3>2, <3>4 DEF TrustInv, HonestInv, AgreesWith
    <3>6. IsLevel(merged, lastIndex)
      BY <1>1, <1>4, LevelFacts, GivenLevel, MergedLevel
    <3>7. AgreesWith(Zipped(merged, lastIndex), Above(ref, lastIndex))
      BY <1>2, <3>5, <3>6, AgreementAscends
    <3>8. QED
      BY <1>4, <3>3, <3>7
  <2>4. QED
    BY <1>1, <2>1, <2>2, <2>3 DEF TrustInv, HonestRoot
<1>5. QED
  BY <1>3, <1>4 DEF Level, Errors

\* At the top both are the one hash of the last level.
LEMMA FinishTrust ==
  ASSUME TrustInv, Finish
  PROVE  TrustInv'
<1>1. PICK x \in layer : merkleRoot' = ListHash(length, x.hash)
  BY DEF Finish
<1>2. /\ Inv' /\ Inv /\ pc = "level" /\ height = treeHeight /\ pc' = "done"
      /\ UNCHANGED <<document, ref>>
  BY FinishStep DEF TrustInv, Finish
<1>3. /\ length \in Nat \ {0} /\ lastIndex \in Nat /\ height \in 1..(MaxTreeHeight + 1)
      /\ IsHeight(length, height) /\ IsLevel(layer, lastIndex)
      /\ IsLast(length, Pow2[height - 1], lastIndex)
      /\ Pow2[height - 1] \in Nat /\ Pow2[height - 1] > 0
  BY <1>2, LevelFacts
<1>4. lastIndex = 0
  <2>1. Pow2[height - 1] >= length
    BY <1>3 DEF IsHeight
  <2>2. lastIndex * Pow2[height - 1] < Pow2[height - 1]
    BY <1>3, <2>1 DEF IsLast
  <2>3. QED
    BY <1>3, <2>2
<1>5. x.index = 0
  BY <1>3, <1>4 DEF IsLevel
<1>6. HeightOf(length) = height
  <2>1. PICK g : g = HeightOf(length)
    OBVIOUS
  <2>2. g \in 1..(MaxTreeHeight + 1) /\ IsHeight(length, g)
    BY <1>3, <2>1 DEF HeightOf
  <2>3. QED
    BY <1>3, <2>1, <2>2, HeightUnique
<1>7. ASSUME length = Len(list)
      PROVE  /\ TrustedRoot = RootOf(list)
             /\ HonestDocument => merkleRoot' = RootOf(list)
  <2>1. list # <<>>
    BY <1>3, <1>7
  <2>2. ref[0] = TreeHash(list)[height][0]
    BY <1>2, <1>4, <1>7 DEF TrustInv, TreeInv
  <2>3. RootOf(list) = ListHash(length, ref[0])
    BY <1>6, <1>7, <2>1, <2>2 DEF RootOf
  <2>4. HonestDocument => x.hash = ref[0]
    BY <1>2, <1>5 DEF TrustInv, HonestInv, AgreesWith
  <2>5. QED
    BY <1>1, <1>7, <2>1, <2>3, <2>4 DEF TrustedRoot
<1>8. /\ list' = list /\ length' = length /\ TrustedRoot' = TrustedRoot
      /\ HonestDocument' <=> HonestDocument
  BY <1>2, HonestKept DEF document, TrustedRoot
<1>9. RootOf(list)' = RootOf(list)
  BY <1>8 DEF RootOf
<1>10. HonestRoot'
  <2>1. HonestRoot' <=>
          ((outcome = "ok" /\ length = Len(list))' =>
             /\ TrustedRoot' = RootOf(list)'
             /\ HonestDocument' => merkleRoot' = RootOf(list)')
    BY Zenon DEF HonestRoot, HonestDocument
  <2>2. QED
    BY <1>7, <1>8, <1>9, <2>1, Zenon
<1>11. QED
  BY <1>2, <1>10 DEF TrustInv, TreeInv, HonestInv

\* Honest documents are accepted in every state.
LEMMA TrustInductive ==
  ASSUME NaturalIndexes
  PROVE  Spec => []TrustInv
<1>1. Init => TrustInv
  BY InitInv DEF Init, TrustInv, TreeInv, HonestInv, HonestRoot
<1>2. TrustInv /\ [Next]_vars => TrustInv'
  <2> SUFFICES ASSUME TrustInv, [Next]_vars PROVE TrustInv'
    OBVIOUS
  <2>1. CASE Next
    BY <2>1, ParseTrust, EmptyListTrust, StartTrust, LevelTrust, FinishTrust DEF Next
  <2>2. CASE UNCHANGED vars
    <3>1. Inv'
      BY <2>2, InvStep DEF TrustInv
    <3>2. TreeInv' /\ HonestInv' /\ HonestRoot'
      BY <2>2 DEF vars, TrustInv, TreeInv, HonestInv, HonestDocument, HonestRoot,
                  Honest, Genuine, Members, TrustedRoot
    <3>3. QED
      BY <3>1, <3>2 DEF TrustInv
  <2>3. QED
    BY <2>1, <2>2
<1>3. QED
  BY <1>1, <1>2, PTL DEF Spec

\* The proofs a node makes of a list, of any size, yield the root hash of its tree.
THEOREM HonestProofsYieldRoot ==
  ASSUME NaturalIndexes
  PROVE  Spec => []HonestRoot
BY TrustInductive, PTL DEF TrustInv
=============================================================================
