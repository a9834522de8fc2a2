---------------------------- MODULE MapSoundness ----------------------------
(***************************************************************************)
(* Proofs that a proof for a map shows what is in the map: the root hash   *)
(* of MapProof and the answers of LightClient, for maps and documents of   *)
(* any size and keys of any length.                                        *)
(*                                                                         *)
(* MapTree defines the tree from the top, by recursion on the paths, and   *)
(* the constructor folds it from the left to the right.  What is true of   *)
(* the tree at every path is shown by a deepest path where it is not.  So  *)
(* a tree with the root hash of a map's tree has only nodes that the map's *)
(* tree has, as a branch hashes the paths and hashes of its children, and  *)
(* the contour has nodes of the tree at every step.                        *)
(***************************************************************************)
EXTENDS LightClient, MapProofProofs, FiniteSetTheorems

-----------------------------------------------------------------------------
(* The tree above a set of nodes.                                          *)

\* The branches of what is at the two longer paths.
Branches(p, left, right) == {[path |-> p, hash |-> Branch(l, r)] : l \in left, r \in right}

\* The node at a path as it follows from a tree t at the two longer paths.
Above(S, t, p) ==
  LET here == {x \in S : x.path = p}
      left == t[Append(p, 0)]
      right == t[Append(p, 1)]
  IN IF here # {} \/ Len(p) = Width THEN here
     ELSE IF left = {} \/ right = {} THEN left \cup right
     ELSE Branches(p, left, right)

\* The paths up to a length are sequences.
LEMMA Lengths ==
  ASSUME NEW n \in Nat
  PROVE  \A p : p \in PathsUpTo(n) <=> p \in Seq(Bit) /\ Len(p) <= n
<1>1. ASSUME NEW p \in PathsUpTo(n) PROVE p \in Seq(Bit) /\ Len(p) <= n
  <2>1. \E k \in 0..n : p \in [1..k -> Bit]
    BY <1>1, Zenon DEF PathsUpTo
  <2>2. PICK k \in 0..n : p \in [1..k -> Bit]
    BY <2>1
  <2>3. QED
    BY <2>2
<1>2. ASSUME NEW p \in Seq(Bit), Len(p) <= n PROVE p \in PathsUpTo(n)
  <2>1. Len(p) \in 0..n /\ p \in [1..Len(p) -> Bit]
    BY <1>2
  <2>2. QED
    BY <2>1 DEF PathsUpTo
<1>3. QED
  BY <1>1, <1>2

\* A path of the tree is no longer than that of a key.
LEMMA InTree == \A p : p \in PathsUpTo(Width) <=> p \in Seq(Bit) /\ Len(p) \in 0..Width
<1>1. Width \in Nat
  BY WidthAssumption
<1>2. \A p : p \in PathsUpTo(Width) <=> p \in Seq(Bit) /\ Len(p) <= Width
  BY <1>1, Lengths
<1>3. \A p \in Seq(Bit) : Len(p) <= Width <=> Len(p) \in 0..Width
  BY <1>1
<1>4. QED
  BY <1>2, <1>3, Zenon

\* A path grows by a bit.
LEMMA Longer ==
  ASSUME NEW p \in PathsUpTo(Width), NEW b \in Bit
  PROVE  /\ Append(p, b) \in Seq(Bit) /\ Len(Append(p, b)) = Len(p) + 1
         /\ Len(p) # Width => Append(p, b) \in PathsUpTo(Width)
<1>1. p \in Seq(Bit) /\ Len(p) \in 0..Width
  BY InTree
<1>2. Append(p, b) \in Seq(Bit) /\ Len(Append(p, b)) = Len(p) + 1
  BY <1>1
<1>3. Len(p) # Width => Len(p) + 1 \in 0..Width
  BY <1>1, WidthAssumption
<1>4. QED
  BY <1>2, <1>3, InTree

\* What does not hold of all paths fails at a path where it holds of all
\* longer ones.
LEMMA Deepest ==
  ASSUME NEW B \in SUBSET PathsUpTo(Width), B # {}
  PROVE  \E p \in B : /\ p \in Seq(Bit) /\ Len(p) \in 0..Width
                      /\ \A b \in Bit : Append(p, b) \notin B
<1>1. PICK S : S = {Width - Len(p) : p \in B}
  OBVIOUS
<1>2. \A p \in B : p \in Seq(Bit) /\ Len(p) \in 0..Width
  BY InTree
<1>3. S \in SUBSET Nat /\ S # {}
  BY <1>1, <1>2, WidthAssumption
<1>4. PICK m \in S : \A k \in S : m <= k
  BY <1>3, LeastNumber
<1>5. PICK p \in B : m = Width - Len(p)
  BY <1>1, <1>4
<1>6. ASSUME NEW b \in Bit, Append(p, b) \in B PROVE FALSE
  <2>1. Len(Append(p, b)) = Len(p) + 1
    BY Longer
  <2>2. Width - Len(Append(p, b)) \in S
    BY <1>1, <1>6
  <2>3. m <= Width - (Len(p) + 1)
    BY <1>4, <2>1, <2>2
  <2>4. PICK n \in Nat : n = Len(p)
    BY <1>2
  <2>5. QED
    BY <1>5, <2>3, <2>4, WidthAssumption
<1>7. QED
  BY <1>2, <1>6

\* The tree t is right at its n longest lengths, and that of the keys.
Built(S, t, n) ==
  /\ t = [p \in PathsUpTo(Width) |-> t[p]]
  /\ \A p \in PathsUpTo(Width) : Len(p) >= Width - n => t[p] = Above(S, t, p)

\* It becomes right at one more.
LEMMA BuiltHigher ==
  ASSUME NEW S, NEW n \in Nat, NEW t, Built(S, t, n)
  PROVE  \E u : Built(S, u, n + 1)
<1>1. PICK u : u = [p \in PathsUpTo(Width) |-> IF Len(p) >= Width - n THEN t[p] ELSE Above(S, t, p)]
  OBVIOUS
<1>2. \A p \in PathsUpTo(Width) : u[p] = Above(S, t, p)
  BY <1>1 DEF Built
<1>3. ASSUME NEW p \in PathsUpTo(Width), Len(p) >= Width - (n + 1)
      PROVE  Above(S, t, p) = Above(S, u, p)
  <2>1. CASE Len(p) = Width
    BY <2>1 DEF Above
  <2>2. CASE Len(p) # Width
    <3>1. ASSUME NEW b \in Bit PROVE u[Append(p, b)] = t[Append(p, b)]
      <4>1. Append(p, b) \in PathsUpTo(Width) /\ Len(Append(p, b)) = Len(p) + 1
        BY <2>2, Longer
      <4>2. PICK l \in Nat : l = Len(p)
        BY InTree
      <4>3. l >= Width - (n + 1) => l + 1 >= Width - n
        BY WidthAssumption
      <4>4. Len(Append(p, b)) >= Width - n
        BY <1>3, <4>1, <4>2, <4>3
      <4>5. QED
        BY <1>1, <4>1, <4>4
    <3>2. u[Append(p, 0)] = t[Append(p, 0)] /\ u[Append(p, 1)] = t[Append(p, 1)]
      BY <3>1 DEF Bit
    <3>3. QED
      BY <3>2, Zenon DEF Above
  <2>3. QED
    BY <2>1, <2>2
<1>4. \A p \in PathsUpTo(Width) : Len(p) >= Width - (n + 1) => u[p] = Above(S, u, p)
  BY <1>2, <1>3
<1>5. u = [p \in PathsUpTo(Width) |-> u[p]]
  BY <1>1
<1>6. QED
  BY <1>4, <1>5 DEF Built

\* The tree is built from the longest paths up.
LEMMA TreeExists ==
  ASSUME NEW S
  PROVE  \E t : t = [p \in PathsUpTo(Width) |-> Above(S, t, p)]
<1>1. \E t : Built(S, t, 0)
  <2>1. PICK t : t = [p \in PathsUpTo(Width) |-> {x \in S : x.path = p}]
    OBVIOUS
  <2>2. ASSUME NEW p \in PathsUpTo(Width), Len(p) >= Width - 0 PROVE t[p] = Above(S, t, p)
    <3>1. Len(p) \in 0..Width
      BY InTree
    <3>2. Len(p) = Width
      BY <2>2, <3>1, WidthAssumption
    <3>3. QED
      BY <2>1, <3>2 DEF Above
  <2>3. t = [p \in PathsUpTo(Width) |-> t[p]]
    BY <2>1
  <2>4. QED
    BY <2>2, <2>3 DEF Built
<1>2. PICK N : N = {n \in Nat : ~\E t : Built(S, t, n)}
  OBVIOUS
<1>3. ASSUME N # {} PROVE FALSE
  <2>1. N \in SUBSET Nat
    BY <1>2
  <2>2. PICK m \in N : \A k \in N : m <= k
    BY <1>3, <2>1, LeastNumber
  <2>3. m # 0 /\ m \in Nat
    BY <1>1, <1>2
  <2>4. PICK l \in Nat : m = l + 1
    <3>1. m - 1 \in Nat /\ m = (m - 1) + 1
      BY <2>3
    <3>2. QED
      BY <3>1
  <2>5. l \notin N
    BY <2>2, <2>4
  <2>6. QED
    BY <1>2, <2>4, <2>5, BuiltHigher
<1>4. PICK t : Built(S, t, Width)
  BY <1>2, <1>3, WidthAssumption
<1>5. ASSUME NEW p \in PathsUpTo(Width) PROVE t[p] = Above(S, t, p)
  <2>1. Len(p) \in Nat
    BY InTree
  <2>2. Len(p) >= Width - Width
    BY <2>1, WidthAssumption
  <2>3. QED
    BY <1>4, <2>2 DEF Built
<1>6. t = [p \in PathsUpTo(Width) |-> Above(S, t, p)]
  BY <1>4, <1>5 DEF Built
<1>7. QED
  BY <1>6

\* The definition of the tree is an equation for it.
LEMMA TreeAt ==
  ASSUME NEW S, NEW p \in PathsUpTo(Width)
  PROVE  Tree(S)[p] = Above(S, Tree(S), p)
<1>1. Tree(S) = CHOOSE t : t = [q \in PathsUpTo(Width) |-> Above(S, t, q)]
  BY DEF Tree, Above, Branches
<1>2. Tree(S) = [q \in PathsUpTo(Width) |-> Above(S, Tree(S), q)]
  BY <1>1, TreeExists
<1>3. QED
  BY <1>2

\* What is at a path: a given node; or what is at one of the two longer paths,
\* if there is nothing at the other one; or their branch.
LEMMA TreeCases ==
  ASSUME NEW S, NEW p \in PathsUpTo(Width)
  PROVE  /\ (\E x \in S : x.path = p) \/ Len(p) = Width => Tree(S)[p] = {x \in S : x.path = p}
         /\ (\A x \in S : x.path # p) /\ Len(p) # Width =>
              /\ \/ Tree(S)[Append(p, 0)] = {} \/ Tree(S)[Append(p, 1)] = {}
                 => Tree(S)[p] = Tree(S)[Append(p, 0)] \cup Tree(S)[Append(p, 1)]
              /\ Tree(S)[Append(p, 0)] # {} /\ Tree(S)[Append(p, 1)] # {}
                 => Tree(S)[p] = Branches(p, Tree(S)[Append(p, 0)], Tree(S)[Append(p, 1)])
<1>1. Tree(S)[p] = Above(S, Tree(S), p)
  BY TreeAt
<1>2. (\E x \in S : x.path = p) <=> {x \in S : x.path = p} # {}
  OBVIOUS
<1>3. QED
  BY <1>1, <1>2, Zenon DEF Above

\* The same, for a path where there is a given node, or at the end of the tree.
LEMMA TreeGiven ==
  ASSUME NEW S, NEW p \in PathsUpTo(Width), (\E x \in S : x.path = p) \/ Len(p) = Width
  PROVE  \A y : y \in Tree(S)[p] <=> y \in S /\ y.path = p
<1>1. Tree(S)[p] = {x \in S : x.path = p}
  BY TreeCases, Zenon
<1>2. QED
  BY <1>1

\* The node x is the branch of two others.
BranchIn(S, x) ==
  /\ Len(x.path) # Width
  /\ \A y \in S : y.path # x.path
  /\ \E l \in Tree(S)[Append(x.path, 0)], r \in Tree(S)[Append(x.path, 1)] :
       x = [path |-> x.path, hash |-> Branch(l, r)]

\* A node of the tree by the way it came there.
LEMMA NodeCases ==
  ASSUME NEW S, NEW p \in PathsUpTo(Width), NEW x \in Tree(S)[p]
  PROVE  \/ x \in S /\ x.path = p
         \/ Len(p) # Width /\ \E b \in Bit : x \in Tree(S)[Append(p, b)]
         \/ x.path = p /\ BranchIn(S, x)
<1>1. CASE (\E y \in S : y.path = p) \/ Len(p) = Width
  BY <1>1, TreeGiven
<1>2. CASE (\A y \in S : y.path # p) /\ Len(p) # Width
  <2>1. CASE Tree(S)[Append(p, 0)] = {} \/ Tree(S)[Append(p, 1)] = {}
    BY <1>2, <2>1, TreeCases DEF Bit
  <2>2. CASE Tree(S)[Append(p, 0)] # {} /\ Tree(S)[Append(p, 1)] # {}
    <3>1. x \in Branches(p, Tree(S)[Append(p, 0)], Tree(S)[Append(p, 1)])
      BY <1>2, <2>2, TreeCases
    <3>2. PICK l \in Tree(S)[Append(p, 0)], r \in Tree(S)[Append(p, 1)] :
            x = [path |-> p, hash |-> Branch(l, r)]
      BY <3>1 DEF Branches
    <3>3. x.path = p
      BY <3>2
    <3>4. QED
      BY <1>2, <3>2, <3>3 DEF BranchIn
  <2>3. QED
    BY <2>1, <2>2
<1>3. QED
  BY <1>1, <1>2

\* A path begins those that begin with it and a bit more.
LEMMA Grown ==
  ASSUME NEW p \in Seq(Bit), NEW q \in Seq(Bit), NEW b \in Bit
  PROVE  PrefixOf(Append(p, b), q) <=> PrefixOf(p, q) /\ Len(p) < Len(q) /\ q[Len(p) + 1] = b
<1>1. PICK n \in Nat : n = Len(p)
  OBVIOUS
<1>2. /\ Len(Append(p, b)) = n + 1 /\ DOMAIN Append(p, b) = 1..(n + 1) /\ DOMAIN p = 1..n
      /\ \A i \in 1..n : Append(p, b)[i] = p[i]
      /\ Append(p, b)[n + 1] = b
  BY <1>1
<1>3. PICK m \in Nat : m = Len(q)
  OBVIOUS
<1>4. PICK a : a = Append(p, b)
  OBVIOUS
<1>5. ASSUME PrefixOf(a, q) PROVE PrefixOf(p, q) /\ n < m /\ q[n + 1] = b
  <2>1. n + 1 <= m /\ \A i \in 1..(n + 1) : a[i] = q[i]
    BY <1>2, <1>3, <1>4, <1>5 DEF PrefixOf
  <2>2. \A i \in 1..n : p[i] = q[i]
    BY <1>2, <1>4, <2>1
  <2>3. q[n + 1] = b
    BY <1>2, <1>4, <2>1
  <2>4. QED
    BY <1>1, <1>2, <1>3, <2>1, <2>2, <2>3 DEF PrefixOf
<1>6. ASSUME PrefixOf(p, q), n < m, q[n + 1] = b PROVE PrefixOf(a, q)
  <2>1. \A i \in 1..n : p[i] = q[i]
    BY <1>2, <1>6 DEF PrefixOf
  <2>2. \A i \in 1..(n + 1) : a[i] = q[i]
    BY <1>2, <1>4, <1>6, <2>1
  <2>3. QED
    BY <1>2, <1>3, <1>4, <1>6, <2>2 DEF PrefixOf
<1>7. QED
  BY <1>1, <1>3, <1>4, <1>5, <1>6, Zenon

\* A beginning of a path is that path, or can grow by one of two bits.
LEMMA Begins ==
  ASSUME NEW p \in Seq(Bit), NEW q \in Seq(Bit), PrefixOf(p, q)
  PROVE  p = q \/ (Len(p) < Len(q) /\ \E b \in Bit : PrefixOf(Append(p, b), q))
<1>1. PICK n \in Nat, m \in Nat : n = Len(p) /\ m = Len(q)
  OBVIOUS
<1>2. n <= m /\ \A i \in 1..n : p[i] = q[i]
  BY <1>1 DEF PrefixOf
<1>3. CASE n = m
  <2>1. Len(p) = Len(q) /\ \A i \in 1..Len(p) : p[i] = q[i]
    BY <1>1, <1>2, <1>3
  <2>2. QED
    BY <2>1
<1>4. CASE n < m
  <2>1. q[n + 1] \in Bit
    BY <1>1, <1>4
  <2>2. PrefixOf(Append(p, q[n + 1]), q)
    BY <1>1, <1>4, <2>1, Grown
  <2>3. QED
    BY <1>1, <1>4, <2>1, <2>2
<1>5. QED
  BY <1>2, <1>3, <1>4

\* A path begins itself, and what a beginning of it begins.
LEMMA PrefixTrans ==
  ASSUME NEW p \in Seq(Bit), NEW q \in Seq(Bit), NEW r \in Seq(Bit)
  PROVE  /\ PrefixOf(p, p)
         /\ PrefixOf(p, q) /\ PrefixOf(q, r) => PrefixOf(p, r)
         /\ \A b \in Bit : PrefixOf(p, Append(p, b))
<1>1. PrefixOf(p, p)
  BY DEF PrefixOf
<1>2. ASSUME PrefixOf(p, q), PrefixOf(q, r) PROVE PrefixOf(p, r)
  <2>1. PICK k \in Nat, l \in Nat, m \in Nat : k = Len(p) /\ l = Len(q) /\ m = Len(r)
    OBVIOUS
  <2>2. /\ k <= l /\ l <= m
        /\ \A i \in 1..k : p[i] = q[i]
        /\ \A i \in 1..l : q[i] = r[i]
    <3>1. DOMAIN p = 1..k /\ DOMAIN q = 1..l
      BY <2>1
    <3>2. QED
      BY <1>2, <2>1, <3>1, Zenon DEF PrefixOf
  <2>3. k <= m
    BY <2>2
  <2>4. ASSUME NEW i \in 1..k PROVE p[i] = r[i]
    <3>1. i \in 1..l
      BY <2>2
    <3>2. QED
      BY <2>2, <3>1
  <2>5. QED
    BY <2>1, <2>3, <2>4 DEF PrefixOf
<1>3. ASSUME NEW b \in Bit PROVE PrefixOf(p, Append(p, b))
  BY DEF PrefixOf
<1>4. QED
  BY <1>1, <1>2, <1>3

\* What begins a path that is longer by a bit is that path or begins the other.
LEMMA Shorter ==
  ASSUME NEW p \in Seq(Bit), NEW q \in Seq(Bit), NEW b \in Bit, PrefixOf(q, Append(p, b))
  PROVE  q = Append(p, b) \/ PrefixOf(q, p)
<1>1. PICK a : a = Append(p, b)
  OBVIOUS
<1>2. PICK n \in Nat : n = Len(p)
  OBVIOUS
<1>3. a \in Seq(Bit) /\ Len(a) = n + 1 /\ \A i \in 1..n : a[i] = p[i]
  BY <1>1, <1>2
<1>4. PICK m \in Nat : m = Len(q) /\ m <= n + 1 /\ \A i \in 1..m : q[i] = a[i]
  BY <1>1, <1>3 DEF PrefixOf
<1>5. CASE m = n + 1
  <2>1. Len(q) = Len(a) /\ \A i \in 1..Len(q) : q[i] = a[i]
    BY <1>3, <1>4, <1>5
  <2>2. QED
    BY <1>1, <1>3, <2>1
<1>6. CASE m <= n
  <2>1. \A i \in 1..m : q[i] = p[i]
    BY <1>3, <1>4, <1>6
  <2>2. QED
    BY <1>2, <1>4, <1>6, <2>1 DEF PrefixOf
<1>7. QED
  BY <1>4, <1>5, <1>6

\* Nodes of a map's tree.
Nodes(S) == \A x \in S : x.path \in PathsUpTo(Width)

\* The node x is at or below the path p: a given one or a branch, above some
\* given node, and the one that the tree has at its own path.
NodeOf(S, p, x) ==
  /\ x.path \in PathsUpTo(Width) /\ PrefixOf(p, x.path)
  /\ x \in Tree(S)[x.path]
  /\ x \in S \/ BranchIn(S, x)
  /\ \E y \in S : PrefixOf(x.path, y.path)

\* All nodes that the tree has are of this kind.
LEMMA TreeNodes ==
  ASSUME NEW S, Nodes(S)
  PROVE  \A p \in PathsUpTo(Width) : \A x \in Tree(S)[p] : NodeOf(S, p, x)
<1>1. PICK B : B = {p \in PathsUpTo(Width) : \E x \in Tree(S)[p] : ~NodeOf(S, p, x)}
  OBVIOUS
<1>2. ASSUME B # {} PROVE FALSE
  <2>1. PICK p \in B : p \in Seq(Bit) /\ \A b \in Bit : Append(p, b) \notin B
    <3>1. B \in SUBSET PathsUpTo(Width)
      BY <1>1
    <3>2. QED
      BY <1>2, <3>1, Deepest
  <2>2. PICK x \in Tree(S)[p] : ~NodeOf(S, p, x)
    BY <1>1
  <2>3. p \in PathsUpTo(Width)
    BY <1>1
  <2>4. PrefixOf(p, p) /\ \A b \in Bit : PrefixOf(p, Append(p, b)) /\ Append(p, b) \in Seq(Bit)
    BY <2>1, <2>3, Longer, PrefixTrans
  <2>5. CASE x \in S /\ x.path = p
    BY <2>2, <2>3, <2>4, <2>5 DEF NodeOf
  <2>6. ASSUME NEW b \in Bit, Len(p) # Width
        PROVE  /\ Append(p, b) \in PathsUpTo(Width)
               /\ \A y \in Tree(S)[Append(p, b)] : NodeOf(S, Append(p, b), y) /\ NodeOf(S, p, y)
    <3>1. Append(p, b) \in PathsUpTo(Width)
      BY <2>3, <2>6, Longer
    <3>2. \A y \in Tree(S)[Append(p, b)] : NodeOf(S, Append(p, b), y)
      BY <1>1, <2>1, <3>1
    <3>3. ASSUME NEW y, NodeOf(S, Append(p, b), y) PROVE NodeOf(S, p, y)
      <4>1. y.path \in Seq(Bit) /\ PrefixOf(Append(p, b), y.path)
        BY <3>3, InTree DEF NodeOf
      <4>2. PrefixOf(p, y.path)
        BY <2>1, <2>4, <4>1, PrefixTrans
      <4>3. QED
        BY <3>3, <4>2 DEF NodeOf
    <3>4. QED
      BY <3>1, <3>2, <3>3
  <2>7. CASE Len(p) # Width /\ \E b \in Bit : x \in Tree(S)[Append(p, b)]
    BY <2>2, <2>6, <2>7
  <2>8. CASE x.path = p /\ BranchIn(S, x)
    <3>1. PICK l \in Tree(S)[Append(p, 0)] : Len(p) # Width
      BY <2>8 DEF BranchIn
    <3>2. NodeOf(S, p, l)
      BY <2>6, <3>1 DEF Bit
    <3>3. PICK y \in S : PrefixOf(p, l.path) /\ PrefixOf(l.path, y.path)
      BY <3>2 DEF NodeOf
    <3>4. l.path \in Seq(Bit) /\ y.path \in Seq(Bit)
      BY <3>2, InTree DEF NodeOf, Nodes
    <3>5. PrefixOf(p, y.path)
      BY <2>1, <3>3, <3>4, PrefixTrans
    <3>6. QED
      BY <2>2, <2>3, <2>4, <2>8, <3>5 DEF NodeOf
  <2>9. QED
    BY <2>3, <2>5, <2>7, <2>8, NodeCases
<1>3. QED
  BY <1>1, <1>2

\* There is nothing at a path that begins no path of a given node.
LEMMA TreeEmpty ==
  ASSUME NEW S, Nodes(S), NEW p \in PathsUpTo(Width),
         \A y \in S : ~PrefixOf(p, y.path)
  PROVE  Tree(S)[p] = {}
<1>1. SUFFICES ASSUME NEW x \in Tree(S)[p] PROVE FALSE
  OBVIOUS
<1>2. NodeOf(S, p, x)
  BY TreeNodes
<1>3. PICK y \in S : PrefixOf(x.path, y.path)
  BY <1>2 DEF NodeOf
<1>4. p \in Seq(Bit) /\ x.path \in Seq(Bit) /\ y.path \in Seq(Bit) /\ PrefixOf(p, x.path)
  BY <1>2, InTree DEF NodeOf, Nodes
<1>5. QED
  BY <1>3, <1>4, PrefixTrans

\* A given node is at or below every node that the tree has at a beginning of
\* its path, and there is such a node.
LEMMA TreeCovers ==
  ASSUME NEW S, Nodes(S), NEW y \in S
  PROVE  \A p \in PathsUpTo(Width) : PrefixOf(p, y.path) =>
            Tree(S)[p] # {} /\ \A x \in Tree(S)[p] : PrefixOf(x.path, y.path)
<1> DEFINE Covering(p) == Tree(S)[p] # {} /\ \A x \in Tree(S)[p] : PrefixOf(x.path, y.path)
<1>1. PICK B : B = {p \in PathsUpTo(Width) : PrefixOf(p, y.path) /\ ~Covering(p)}
  OBVIOUS
<1> HIDE DEF Covering
<1>2. ASSUME B # {} PROVE FALSE
  <2>1. PICK p \in B : p \in Seq(Bit) /\ \A b \in Bit : Append(p, b) \notin B
    <3>1. B \in SUBSET PathsUpTo(Width)
      BY <1>1
    <3>2. QED
      BY <1>2, <3>1, Deepest
  <2>2. p \in PathsUpTo(Width) /\ PrefixOf(p, y.path) /\ ~Covering(p)
    BY <1>1
  <2>3. y.path \in Seq(Bit) /\ Len(y.path) <= Width
    BY InTree DEF Nodes
  <2>4. CASE (\E x \in S : x.path = p) \/ Len(p) = Width
    <3>1. \A x : x \in Tree(S)[p] <=> x \in S /\ x.path = p
      BY <2>2, <2>4, TreeGiven
    <3>2. \E x \in S : x.path = p
      <4>1. CASE Len(p) = Width
        <5>1. ~(Len(p) < Len(y.path))
          BY <2>3, <4>1, WidthAssumption
        <5>2. p = y.path
          BY <2>1, <2>2, <2>3, <5>1, Begins
        <5>3. QED
          BY <5>2
      <4>2. QED
        BY <2>4, <4>1
    <3>3. Covering(p)
      BY <2>2, <3>1, <3>2 DEF Covering
    <3>4. QED
      BY <2>2, <3>3
  <2>5. CASE (\A x \in S : x.path # p) /\ Len(p) # Width
    <3>1. PICK b \in Bit : PrefixOf(Append(p, b), y.path)
      BY <2>1, <2>2, <2>3, <2>5, Begins
    <3>2. Append(p, b) \in PathsUpTo(Width)
      BY <2>2, <2>5, Longer
    <3>3. Covering(Append(p, b))
      BY <1>1, <2>1, <3>1, <3>2
    <3>4. Tree(S)[Append(p, 0)] # {} \/ Tree(S)[Append(p, 1)] # {}
      BY <3>3 DEF Covering, Bit
    <3>5. CASE Tree(S)[Append(p, 0)] = {} \/ Tree(S)[Append(p, 1)] = {}
      <4>1. Tree(S)[p] = Tree(S)[Append(p, 0)] \cup Tree(S)[Append(p, 1)]
        BY <2>2, <2>5, <3>5, TreeCases
      <4>2. Tree(S)[p] = Tree(S)[Append(p, b)]
        BY <3>3, <3>5, <4>1 DEF Covering, Bit
      <4>3. QED
        BY <2>2, <3>3, <4>2 DEF Covering
    <3>6. CASE Tree(S)[Append(p, 0)] # {} /\ Tree(S)[Append(p, 1)] # {}
      <4>1. Tree(S)[p] = Branches(p, Tree(S)[Append(p, 0)], Tree(S)[Append(p, 1)])
        BY <2>2, <2>5, <3>6, TreeCases
      <4>2. Tree(S)[p] # {}
        <5>1. PICK l \in Tree(S)[Append(p, 0)], r \in Tree(S)[Append(p, 1)] : TRUE
          BY <3>6
        <5>2. [path |-> p, hash |-> Branch(l, r)] \in Tree(S)[p]
          BY <4>1 DEF Branches
        <5>3. QED
          BY <5>2
      <4>3. \A x \in Tree(S)[p] : x.path = p
        BY <4>1 DEF Branches
      <4>4. QED
        BY <2>2, <4>2, <4>3 DEF Covering
    <3>7. QED
      BY <3>5, <3>6
  <2>6. QED
    BY <2>4, <2>5
<1>3. \A p \in PathsUpTo(Width) : PrefixOf(p, y.path) => Covering(p)
  BY <1>1, <1>2
<1>4. QED
  BY <1>3 DEF Covering

\* With one given node at a path, the tree has one node at most at a path.
LEMMA TreeUnique ==
  ASSUME NEW S, Nodes(S), \A x, y \in S : x.path = y.path => x = y
  PROVE  \A p \in PathsUpTo(Width) : \A x, y \in Tree(S)[p] : x = y
<1>1. PICK B : B = {p \in PathsUpTo(Width) : ~\A x, y \in Tree(S)[p] : x = y}
  OBVIOUS
<1>2. ASSUME B # {} PROVE FALSE
  <2>1. PICK p \in B : p \in Seq(Bit) /\ \A b \in Bit : Append(p, b) \notin B
    <3>1. B \in SUBSET PathsUpTo(Width)
      BY <1>1
    <3>2. QED
      BY <1>2, <3>1, Deepest
  <2>2. PICK x \in Tree(S)[p], y \in Tree(S)[p] : p \in PathsUpTo(Width) /\ x # y
    BY <1>1
  <2>3. CASE (\E z \in S : z.path = p) \/ Len(p) = Width
    BY <2>2, <2>3, TreeGiven
  <2>4. CASE (\A z \in S : z.path # p) /\ Len(p) # Width
    <3>1. PICK L, R : L = Tree(S)[Append(p, 0)] /\ R = Tree(S)[Append(p, 1)]
      OBVIOUS
    <3>2. (\A l, m \in L : l = m) /\ (\A r, s \in R : r = s)
      <4>1. 0 \in Bit /\ 1 \in Bit
        BY DEF Bit
      <4>2. Append(p, 0) \in PathsUpTo(Width) /\ Append(p, 1) \in PathsUpTo(Width)
        BY <2>2, <2>4, <4>1, Longer
      <4>3. Append(p, 0) \notin B /\ Append(p, 1) \notin B
        BY <2>1, <4>1
      <4>4. QED
        BY <1>1, <3>1, <4>2, <4>3
    <3>3. CASE L = {} \/ R = {}
      <4>1. Tree(S)[p] = L \cup R
        BY <2>2, <2>4, <3>1, <3>3, TreeCases
      <4>2. QED
        BY <2>2, <3>2, <3>3, <4>1
    <3>4. CASE L # {} /\ R # {}
      <4>1. Tree(S)[p] = Branches(p, L, R)
        BY <2>2, <2>4, <3>1, <3>4, TreeCases
      <4>2. PICK l \in L, r \in R : x = [path |-> p, hash |-> Branch(l, r)]
        BY <2>2, <4>1 DEF Branches
      <4>3. PICK m \in L, s \in R : y = [path |-> p, hash |-> Branch(m, s)]
        BY <2>2, <4>1 DEF Branches
      <4>4. l = m /\ r = s
        BY <3>2
      <4>5. QED
        BY <2>2, <4>2, <4>3, <4>4
    <3>5. QED
      BY <3>3, <3>4
  <2>5. QED
    BY <2>3, <2>4
<1>3. QED
  BY <1>1, <1>2

\* Where all given nodes below a path are below a longer one, the tree has the
\* same at both.
LEMMA TreeBelow ==
  ASSUME NEW S, Nodes(S), NEW w \in PathsUpTo(Width)
  PROVE  \A q \in PathsUpTo(Width) :
           PrefixOf(q, w) /\ (\A z \in S : PrefixOf(q, z.path) => PrefixOf(w, z.path))
           => Tree(S)[q] = Tree(S)[w]
<1> DEFINE Only(q) == PrefixOf(q, w) /\ \A z \in S : PrefixOf(q, z.path) => PrefixOf(w, z.path)
<1>1. PICK B : B = {q \in PathsUpTo(Width) : Only(q) /\ Tree(S)[q] # Tree(S)[w]}
  OBVIOUS
<1>2. ASSUME B # {} PROVE FALSE
  <2>1. PICK q \in B : q \in Seq(Bit) /\ \A b \in Bit : Append(q, b) \notin B
    <3>1. B \in SUBSET PathsUpTo(Width)
      BY <1>1
    <3>2. QED
      BY <1>2, <3>1, Deepest
  <2>2. q \in PathsUpTo(Width) /\ Only(q) /\ Tree(S)[q] # Tree(S)[w]
    BY <1>1
  <2>3. w \in Seq(Bit) /\ Len(w) \in 0..Width /\ q # w
    BY <2>2, InTree
  <2>4. PICK b \in Bit : Len(q) < Len(w) /\ PrefixOf(Append(q, b), w)
    BY <2>1, <2>2, <2>3, Begins
  <2>5. Len(q) # Width
    BY <2>3, <2>4, WidthAssumption
  <2>6. \A c \in Bit : Append(q, c) \in PathsUpTo(Width) /\ Append(q, c) \in Seq(Bit)
    BY <2>2, <2>5, Longer
  <2>7. \A z \in S : z.path \in Seq(Bit)
    BY InTree DEF Nodes
  <2>8. \A z \in S, c \in Bit : PrefixOf(Append(q, c), z.path) => PrefixOf(q, z.path)
    BY <2>1, <2>7, Grown
  <2>9. Tree(S)[Append(q, b)] = Tree(S)[w]
    <3>1. Only(Append(q, b))
      BY <2>2, <2>4, <2>8
    <3>2. QED
      BY <1>1, <2>1, <2>6, <3>1
  <2>10. ASSUME NEW c \in Bit, c # b PROVE Tree(S)[Append(q, c)] = {}
    <3>1. ASSUME NEW z \in S, PrefixOf(Append(q, c), z.path) PROVE FALSE
      <4>1. PrefixOf(w, z.path)
        BY <2>2, <2>8, <3>1
      <4>2. PrefixOf(Append(q, b), z.path)
        BY <2>3, <2>4, <2>6, <2>7, <4>1, PrefixTrans
      <4>3. z.path[Len(q) + 1] = b /\ z.path[Len(q) + 1] = c
        BY <2>1, <2>7, <3>1, <4>2, Grown
      <4>4. QED
        BY <2>10, <4>3
    <3>2. QED
      BY <2>6, <3>1, TreeEmpty
  <2>11. \A z \in S : z.path # q
    <3>1. SUFFICES ASSUME NEW z \in S, z.path = q PROVE FALSE
      OBVIOUS
    <3>2. PrefixOf(w, q)
      BY <2>1, <2>2, <3>1, PrefixTrans
    <3>3. QED
      BY <2>1, <2>3, <2>4, <3>2 DEF PrefixOf
  <2>12. Tree(S)[q] = Tree(S)[Append(q, 0)] \cup Tree(S)[Append(q, 1)]
    <3>1. Tree(S)[Append(q, 0)] = {} \/ Tree(S)[Append(q, 1)] = {}
      BY <2>10 DEF Bit
    <3>2. QED
      BY <2>2, <2>5, <2>11, <3>1, TreeCases
  <2>13. Tree(S)[q] = Tree(S)[Append(q, b)]
    BY <2>10, <2>12 DEF Bit
  <2>14. QED
    BY <2>2, <2>9, <2>13
<1>3. QED
  BY <1>1, <1>2

-----------------------------------------------------------------------------
(* Hashes.                                                                 *)

\* What is hashed for a value, a branch, a node that is alone and an empty map
\* is never the same, and what is hashed determines the hash's arguments.
LEMMA Hashes ==
  /\ \A v, l, r : Blob(v) # Branch(l, r)
  /\ \A x, l, r : Isolated(x) # Branch(l, r) /\ Isolated(x) # ZeroHash /\ Branch(l, r) # ZeroHash
  /\ \A x, y : Isolated(x) = Isolated(y) => x.path = y.path /\ x.hash = y.hash
  /\ \A g, h : MapHash(g) = MapHash(h) => g = h
<1>1. ASSUME NEW v, NEW l, NEW r, Blob(v) = Branch(l, r) PROVE FALSE
  <2>1. Blob(v)[1] = 0 /\ Branch(l, r)[1] = 4
    BY DEF Blob, Branch
  <2>2. QED
    BY <1>1, <2>1
<1>2. ASSUME NEW x, NEW l, NEW r
      PROVE  Isolated(x) # Branch(l, r) /\ Isolated(x) # ZeroHash /\ Branch(l, r) # ZeroHash
  <2>1. Isolated(x) # Branch(l, r)
    BY DEF Isolated, Branch
  <2>2. Isolated(x) # ZeroHash
    BY DEF Isolated, ZeroHash
  <2>3. Branch(l, r) # ZeroHash
    BY DEF Branch, ZeroHash
  <2>4. QED
    BY <2>1, <2>2, <2>3
<1>3. ASSUME NEW x, NEW y, Isolated(x) = Isolated(y) PROVE x.path = y.path /\ x.hash = y.hash
  BY <1>3 DEF Isolated
<1>4. ASSUME NEW g, NEW h, MapHash(g) = MapHash(h) PROVE g = h
  BY <1>4 DEF MapHash
<1>5. QED
  BY <1>1, <1>2, <1>3, <1>4, Zenon

\* The root hash by what is at the top of the tree.
LEMMA Roots ==
  /\ RootOf({}) = MapHash(ZeroHash)
  /\ \A x : Len(x.path) = Width => RootOf({x}) = MapHash(Isolated(x))
  /\ \A x : Len(x.path) # Width => RootOf({x}) = MapHash(x.hash)
<1>1. RootOf({}) = MapHash(ZeroHash)
  BY DEF RootOf
<1>2. \A x : (CHOOSE y \in {x} : TRUE) = x /\ {x} # {}
  OBVIOUS
<1>3. QED
  BY <1>1, <1>2, Zenon DEF RootOf

\* What is hashed last.
LEMMA TopHash ==
  ASSUME NEW h
  PROVE  /\ RootOf({}) = MapHash(h) => h = ZeroHash
         /\ \A x : RootOf({x}) = MapHash(h) =>
              h = IF Len(x.path) = Width THEN Isolated(x) ELSE x.hash
<1>1. \A g : MapHash(g) = MapHash(h) => g = h
  BY Hashes, Zenon
<1>2. ASSUME NEW x, RootOf({x}) = MapHash(h)
      PROVE  h = IF Len(x.path) = Width THEN Isolated(x) ELSE x.hash
  BY <1>1, <1>2, Roots, Zenon
<1>3. QED
  BY <1>1, <1>2, Roots, Zenon

\* Two paths fork where one goes on with 0 and the other with 1.
LEMMA Forks ==
  ASSUME NEW p \in Seq(Bit), NEW q \in Seq(Bit), NEW r \in Seq(Bit)
  PROVE  PrefixOf(Append(p, 0), q) /\ PrefixOf(Append(p, 1), r)
         <=> Left(q, r) /\ p = CommonPrefix(q, r)
<1>1. PICK n \in Nat : n = Len(p)
  OBVIOUS
<1>2. 0 \in Bit /\ 1 \in Bit
  BY DEF Bit
<1>3. /\ PrefixOf(Append(p, 0), q) <=> PrefixOf(p, q) /\ n < Len(q) /\ q[n + 1] = 0
      /\ PrefixOf(Append(p, 1), r) <=> PrefixOf(p, r) /\ n < Len(r) /\ r[n + 1] = 1
  BY <1>1, <1>2, Grown
<1>4. PICK c : /\ c = CommonPrefix(q, r) /\ c \in Seq(Bit) /\ Len(c) = CommonLength(q, r)
               /\ \A k \in 1..Len(c) : c[k] = q[k] /\ c[k] = r[k]
  BY PrefixParts
<1>5. ASSUME PrefixOf(p, q), n < Len(q), q[n + 1] = 0,
             PrefixOf(p, r), n < Len(r), r[n + 1] = 1
      PROVE  Left(q, r) /\ p = c
  <2>1. \A k \in 1..n : p[k] = q[k] /\ p[k] = r[k] /\ q[k] = r[k]
    <3>1. DOMAIN p = 1..n
      BY <1>1
    <3>2. QED
      BY <1>5, <3>1, Zenon DEF PrefixOf
  <2>2. Left(q, r) /\ CommonLength(q, r) = n
    BY <1>5, <2>1, LeftParts
  <2>3. Len(c) = n
    BY <1>4, <2>2
  <2>4. \A k \in 1..n : p[k] = c[k]
    BY <1>4, <2>1, <2>3
  <2>5. p = c
    <3>1. Len(p) = Len(c) /\ \A k \in 1..Len(p) : p[k] = c[k]
      BY <1>1, <2>3, <2>4
    <3>2. c \in Seq(Bit)
      BY <1>4
    <3>3. QED
      BY <3>1, <3>2
  <2>6. QED
    BY <2>2, <2>5
<1>6. ASSUME Left(q, r), p = c
      PROVE  /\ PrefixOf(p, q) /\ n < Len(q) /\ q[n + 1] = 0
             /\ PrefixOf(p, r) /\ n < Len(r) /\ r[n + 1] = 1
  <2>1. CommonLength(q, r) = n
    BY <1>1, <1>4, <1>6
  <2>2. n < Len(q) /\ n < Len(r) /\ q[n + 1] = 0 /\ r[n + 1] = 1
    BY <1>6, <2>1, LeftParts
  <2>3. PrefixOf(p, q) /\ PrefixOf(p, r)
    BY <1>1, <1>4, <1>6, <2>2 DEF PrefixOf
  <2>4. QED
    BY <2>2, <2>3
<1>7. QED
  BY <1>3, <1>4, <1>5, <1>6, Zenon

-----------------------------------------------------------------------------
(* Two trees with one root hash.                                           *)

\* The entries of a map: nodes at the paths of keys, one at a path.
IsMap(M) ==
  /\ Nodes(M)
  /\ \A x, y \in M : x.path = y.path => x = y
  /\ \A x \in M : Len(x.path) = Width /\ \E v : x.hash = Blob(v)

\* The nodes of a document that passes the checks.
IsCut(S) == Nodes(S) /\ Separate(S)

\* The tree of M has x's path and hash.
Has(M, x) ==
  /\ x.path \in PathsUpTo(Width)
  /\ \E t \in Tree(M)[x.path] : t.path = x.path /\ t.hash = x.hash

\* A node of the tree of M below some path is one that it has.
LEMMA NodeIsThere ==
  ASSUME NEW M, Nodes(M), NEW p \in PathsUpTo(Width), NEW t \in Tree(M)[p], NEW x,
         t.path = x.path, t.hash = x.hash
  PROVE  Has(M, x) /\ PrefixOf(p, x.path)
<1>1. NodeOf(M, p, t)
  BY TreeNodes
<1>2. QED
  BY <1>1 DEF NodeOf, Has

\* Where the tree of a map has a branch of two nodes, it has both, and all
\* entries below the branch are below one of them.
LEMMA BranchOpens ==
  ASSUME NEW M, IsMap(M), NEW p \in PathsUpTo(Width), NEW t \in Tree(M)[p],
         NEW l, NEW r, t.hash = Branch(l, r)
  PROVE  /\ Has(M, l) /\ Has(M, r)
         /\ PrefixOf(Append(t.path, 0), l.path) /\ PrefixOf(Append(t.path, 1), r.path)
         /\ \A y \in M : PrefixOf(t.path, y.path) =>
              PrefixOf(l.path, y.path) \/ PrefixOf(r.path, y.path)
<1>1. NodeOf(M, p, t) /\ Nodes(M)
  BY TreeNodes DEF IsMap
<1>2. t \notin M
  BY Hashes DEF IsMap
<1>3. BranchIn(M, t)
  BY <1>1, <1>2 DEF NodeOf
<1>4. PICK a \in Tree(M)[Append(t.path, 0)], b \in Tree(M)[Append(t.path, 1)] :
        t = [path |-> t.path, hash |-> Branch(a, b)]
  BY <1>3 DEF BranchIn
<1>5. t.hash = Branch(a, b)
  BY <1>4
<1>6. l.hash = a.hash /\ r.hash = b.hash /\ l.path = a.path /\ r.path = b.path
  <2>1. Branch(l, r) = Branch(a, b)
    BY <1>5
  <2>2. QED
    BY <2>1 DEF Branch
<1>7. /\ t.path \in PathsUpTo(Width) /\ t.path \in Seq(Bit)
      /\ Append(t.path, 0) \in PathsUpTo(Width) /\ Append(t.path, 1) \in PathsUpTo(Width)
  <2>1. t.path \in PathsUpTo(Width) /\ t.path \in Seq(Bit)
    BY <1>1, InTree DEF NodeOf
  <2>2. 0 \in Bit /\ 1 \in Bit
    BY DEF Bit
  <2>3. Len(t.path) # Width
    BY <1>3 DEF BranchIn
  <2>4. QED
    BY <2>1, <2>2, <2>3, Longer
<1>8. /\ Has(M, l) /\ Has(M, r)
      /\ PrefixOf(Append(t.path, 0), l.path) /\ PrefixOf(Append(t.path, 1), r.path)
  BY <1>1, <1>4, <1>6, <1>7, NodeIsThere
<1>9. ASSUME NEW y \in M, PrefixOf(t.path, y.path)
      PROVE  PrefixOf(l.path, y.path) \/ PrefixOf(r.path, y.path)
  <2>1. y.path \in Seq(Bit)
    BY <1>1, InTree DEF Nodes
  <2>2. y.path # t.path
    BY <1>3 DEF BranchIn
  <2>3. PrefixOf(Append(t.path, 0), y.path) \/ PrefixOf(Append(t.path, 1), y.path)
    BY <1>7, <1>9, <2>1, <2>2, Begins DEF Bit
  <2>4. QED
    BY <1>1, <1>4, <1>6, <1>7, <2>3, TreeCovers
<1>10. QED
  BY <1>8, <1>9

\* Below a path, M has all nodes of S, and nothing that is not below one of them.
Backed(S, M, p) ==
  /\ \A z \in S : PrefixOf(p, z.path) => Has(M, z)
  /\ \A y \in M : PrefixOf(p, y.path) => \E z \in S : PrefixOf(z.path, y.path)

\* No two nodes of a document are one below the other.
LEMMA CutApart ==
  ASSUME NEW S, IsCut(S), NEW x \in S, NEW z \in S, PrefixOf(x.path, z.path)
  PROVE  z = x
<1>1. x.path \in Seq(Bit) /\ z.path \in Seq(Bit)
  BY DEF IsCut, Separate
<1>2. z # x => Left(x.path, z.path) \/ Left(z.path, x.path)
  BY DEF IsCut, Separate
<1>3. QED
  BY <1>1, <1>2, Compared

\* A node of the document's tree that the map's tree has too backs all that is
\* below it: the hashes of its children, with their paths, are in its hash.
LEMMA HashBacks ==
  ASSUME NEW S, IsCut(S), NEW M, IsMap(M)
  PROVE  \A p \in PathsUpTo(Width) : \A x \in Tree(S)[p] : Has(M, x) => Backed(S, M, x.path)
<1>1. PICK B : B = {p \in PathsUpTo(Width) :
                      \E x \in Tree(S)[p] : Has(M, x) /\ ~Backed(S, M, x.path)}
  OBVIOUS
<1>2. Nodes(S) /\ Nodes(M) /\ (\A z \in S : z.path \in Seq(Bit)) /\ \A y \in M : y.path \in Seq(Bit)
  BY InTree DEF IsCut, IsMap, Nodes
<1>3. ASSUME B # {} PROVE FALSE
  <2>1. PICK p \in B : p \in Seq(Bit) /\ \A b \in Bit : Append(p, b) \notin B
    <3>1. B \in SUBSET PathsUpTo(Width)
      BY <1>1
    <3>2. QED
      BY <1>3, <3>1, Deepest
  <2>2. PICK x \in Tree(S)[p] : Has(M, x) /\ ~Backed(S, M, x.path)
    BY <1>1
  <2>3. p \in PathsUpTo(Width)
    BY <1>1
  <2>4. ASSUME NEW b \in Bit, Len(p) # Width, NEW y \in Tree(S)[Append(p, b)], Has(M, y)
        PROVE  Backed(S, M, y.path)
    <3>1. Append(p, b) \in PathsUpTo(Width) /\ Append(p, b) \notin B
      BY <2>1, <2>3, <2>4, Longer
    <3>2. QED
      BY <1>1, <2>4, <3>1
  <2>5. CASE x \in S /\ x.path = p
    <3>1. \A z \in S : PrefixOf(x.path, z.path) => z = x
      BY <2>5, CutApart
    <3>2. Backed(S, M, x.path)
      BY <2>2, <2>5, <3>1 DEF Backed
    <3>3. QED
      BY <2>2, <3>2
  <2>6. CASE Len(p) # Width /\ \E b \in Bit : x \in Tree(S)[Append(p, b)]
    BY <2>2, <2>4, <2>6
  <2>7. CASE x.path = p /\ BranchIn(S, x)
    <3>1. PICK l \in Tree(S)[Append(p, 0)], r \in Tree(S)[Append(p, 1)] :
            Len(p) # Width /\ x = [path |-> p, hash |-> Branch(l, r)]
      BY <2>7 DEF BranchIn
    <3>2. PICK t \in Tree(M)[p] : t.path = p /\ t.hash = Branch(l, r)
      <4>1. x.hash = Branch(l, r)
        BY <3>1
      <4>2. QED
        BY <2>2, <2>7, <4>1 DEF Has
    <3>3. /\ Has(M, l) /\ Has(M, r)
          /\ \A y \in M : PrefixOf(p, y.path) => PrefixOf(l.path, y.path) \/ PrefixOf(r.path, y.path)
      BY <2>3, <3>2, BranchOpens
    <3>4. Backed(S, M, l.path) /\ Backed(S, M, r.path)
      BY <2>4, <3>1, <3>3 DEF Bit
    <3>5. ASSUME NEW z \in S, PrefixOf(p, z.path) PROVE Has(M, z)
      <4>1. z.path # p
        BY <2>7 DEF BranchIn
      <4>2. PrefixOf(Append(p, 0), z.path) \/ PrefixOf(Append(p, 1), z.path)
        BY <1>2, <2>1, <3>5, <4>1, Begins DEF Bit
      <4>3. Append(p, 0) \in PathsUpTo(Width) /\ Append(p, 1) \in PathsUpTo(Width)
        <5>1. 0 \in Bit /\ 1 \in Bit
          BY DEF Bit
        <5>2. QED
          BY <2>3, <3>1, <5>1, Longer
      <4>4. PrefixOf(l.path, z.path) \/ PrefixOf(r.path, z.path)
        BY <1>2, <3>1, <4>2, <4>3, TreeCovers
      <4>5. QED
        BY <3>4, <4>4 DEF Backed
    <3>6. Backed(S, M, p)
      BY <3>3, <3>4, <3>5 DEF Backed
    <3>7. QED
      BY <2>2, <2>7, <3>6
  <2>8. QED
    BY <2>3, <2>5, <2>6, <2>7, NodeCases
<1>4. QED
  BY <1>1, <1>3

\* The top of a tree.
LEMMA AtTop ==
  ASSUME NEW S, Nodes(S), \A x, y \in S : x.path = y.path => x = y
  PROVE  /\ <<>> \in PathsUpTo(Width) /\ \A q : PrefixOf(<<>>, q) <=> 0 <= Len(q)
         /\ \/ S = {} /\ Tree(S)[<<>>] = {}
            \/ \E x : /\ Tree(S)[<<>>] = {x} /\ NodeOf(S, <<>>, x)
                      /\ \A y \in S : PrefixOf(x.path, y.path)
<1>1. <<>> \in Seq(Bit) /\ Len(<<>>) = 0
  OBVIOUS
<1>2. <<>> \in PathsUpTo(Width)
  <2>1. 0 \in 0..Width
    BY WidthAssumption
  <2>2. QED
    BY <1>1, <2>1, InTree, Zenon
<1>3. \A q : PrefixOf(<<>>, q) <=> 0 <= Len(q)
  <2>1. DOMAIN <<>> = {}
    OBVIOUS
  <2>2. QED
    BY <1>1, <2>1, Zenon DEF PrefixOf
<1>4. \A y \in S : PrefixOf(<<>>, y.path)
  BY <1>3, InTree DEF Nodes
<1>5. CASE S = {}
  BY <1>2, <1>3, <1>5, TreeEmpty
<1>6. CASE S # {}
  <2>1. PICK x \in Tree(S)[<<>>] : TRUE
    BY <1>2, <1>4, <1>6, TreeCovers
  <2>2. Tree(S)[<<>>] = {x}
    BY <1>2, <2>1, TreeUnique
  <2>3. NodeOf(S, <<>>, x)
    BY <1>2, <2>1, TreeNodes
  <2>4. \A y \in S : PrefixOf(x.path, y.path)
    BY <1>2, <1>4, <2>1, TreeCovers
  <2>5. QED
    BY <1>2, <1>3, <2>2, <2>3, <2>4
<1>7. QED
  BY <1>5, <1>6

\* A document with the root hash of a map backs all of its nodes, and lacks
\* nothing of the map.
LEMMA RootBacks ==
  ASSUME NEW S, IsCut(S), \A x \in S : S = {x} => Len(x.path) = Width,
         NEW M, IsMap(M), RootOf(Tree(S)[<<>>]) = RootOf(Tree(M)[<<>>])
  PROVE  /\ \A z \in S : Has(M, z)
         /\ \A y \in M : \E z \in S : PrefixOf(z.path, y.path)
<1>1. /\ Nodes(S) /\ Nodes(M)
      /\ \A x, y \in M : x.path = y.path => x = y
  BY DEF IsCut, IsMap
<1>2. \A x, y \in S : x.path = y.path => x = y
  BY Compared DEF IsCut, Separate
<1>3. <<>> \in PathsUpTo(Width)
  BY <1>1, AtTop
<1>4. ASSUME NEW t, Tree(M)[<<>>] = {t}
      PROVE  \/ Len(t.path) = Width
             \/ Len(t.path) # Width /\ BranchIn(M, t)
  <2>1. NodeOf(M, <<>>, t)
    BY <1>1, <1>3, <1>4, TreeNodes
  <2>2. QED
    BY <2>1 DEF NodeOf, IsMap
<1>5. ASSUME NEW s, Tree(S)[<<>>] = {s}, \A z \in S : PrefixOf(s.path, z.path)
      PROVE  \/ Len(s.path) = Width
             \/ Len(s.path) # Width /\ BranchIn(S, s)
  <2>1. NodeOf(S, <<>>, s)
    BY <1>1, <1>3, <1>5, TreeNodes
  <2>2. s \in S => S = {s}
    BY <1>5, CutApart
  <2>3. QED
    BY <2>1, <2>2 DEF NodeOf
<1>6. \A T, x : BranchIn(T, x) => \E l, r : x.hash = Branch(l, r)
  BY DEF BranchIn
<1>7. CASE S = {} /\ Tree(S)[<<>>] = {}
  <2>1. RootOf(Tree(M)[<<>>]) = MapHash(ZeroHash)
    BY <1>7, Roots
  <2>2. ASSUME NEW t, Tree(M)[<<>>] = {t} PROVE FALSE
    <3>1. CASE Len(t.path) = Width
      BY <2>1, <2>2, <3>1, Roots, Hashes
    <3>2. CASE Len(t.path) # Width /\ BranchIn(M, t)
      <4>1. PICK l, r : t.hash = Branch(l, r)
        BY <1>6, <3>2
      <4>2. MapHash(ZeroHash) = MapHash(Branch(l, r))
        BY <2>1, <2>2, <3>2, <4>1, Roots
      <4>3. QED
        BY <4>2, Hashes
    <3>3. QED
      BY <1>4, <2>2, <3>1, <3>2
  <2>3. M = {}
    BY <1>1, <2>2, AtTop
  <2>4. QED
    BY <1>7, <2>3
<1>8. ASSUME NEW s, Tree(S)[<<>>] = {s}, NodeOf(S, <<>>, s), \A z \in S : PrefixOf(s.path, z.path)
      PROVE  \E t : /\ Tree(M)[<<>>] = {t} /\ t.path = s.path /\ t.hash = s.hash
                    /\ \A y \in M : PrefixOf(t.path, y.path)
  <2>1. PICK h : RootOf(Tree(M)[<<>>]) = MapHash(h) /\ RootOf(Tree(S)[<<>>]) = MapHash(h)
    BY <1>8, Roots
  <2>2. \/ Len(s.path) = Width /\ h = Isolated(s)
        \/ Len(s.path) # Width /\ BranchIn(S, s) /\ h = s.hash
    BY <1>5, <1>8, <2>1, TopHash, Zenon
  <2>3. h # ZeroHash
    BY <1>6, <2>2, Hashes
  <2>4. PICK t : Tree(M)[<<>>] = {t} /\ \A y \in M : PrefixOf(t.path, y.path)
    <3>1. Tree(M)[<<>>] # {}
      BY <2>1, <2>3, TopHash, Zenon
    <3>2. QED
      BY <1>1, <3>1, AtTop
  <2>5. \/ Len(t.path) = Width /\ h = Isolated(t)
        \/ Len(t.path) # Width /\ BranchIn(M, t) /\ h = t.hash
    BY <1>4, <2>1, <2>4, TopHash, Zenon
  <2>6. CASE Len(s.path) = Width /\ h = Isolated(s)
    <3>1. \A l, r : h # Branch(l, r)
      BY <2>6, Hashes, Zenon
    <3>2. h = Isolated(t)
      BY <1>6, <2>5, <3>1, Zenon
    <3>3. Isolated(t) = Isolated(s)
      BY <2>6, <3>2
    <3>4. t.path = s.path /\ t.hash = s.hash
      BY <3>3 DEF Isolated
    <3>5. QED
      BY <2>4, <3>4
  <2>7. CASE Len(s.path) # Width /\ BranchIn(S, s) /\ h = s.hash
    <3>1. Len(t.path) # Width /\ h = t.hash
      <4>1. PICK l, r : h = Branch(l, r)
        BY <1>6, <2>7, Zenon
      <4>2. h # Isolated(t)
        BY <4>1, Hashes, Zenon
      <4>3. QED
        BY <2>5, <4>2
    <3>2. PICK l \in Tree(S)[Append(s.path, 0)], r \in Tree(S)[Append(s.path, 1)] :
            s = [path |-> s.path, hash |-> Branch(l, r)]
      BY <2>7 DEF BranchIn
    <3>3. s.hash = Branch(l, r) /\ t.hash = Branch(l, r)
      <4>1. s.hash = Branch(l, r)
        BY <3>2
      <4>2. QED
        BY <2>7, <3>1, <4>1
    <3>4. PrefixOf(Append(t.path, 0), l.path) /\ PrefixOf(Append(t.path, 1), r.path)
      BY <1>3, <2>4, <3>3, BranchOpens
    <3>5. /\ Append(s.path, 0) \in PathsUpTo(Width) /\ Append(s.path, 1) \in PathsUpTo(Width)
      <4>1. 0 \in Bit /\ 1 \in Bit
        BY DEF Bit
      <4>2. s.path \in PathsUpTo(Width)
        BY <1>8 DEF NodeOf
      <4>3. QED
        BY <2>7, <4>1, <4>2, Longer
    <3>6. NodeOf(S, Append(s.path, 0), l) /\ NodeOf(S, Append(s.path, 1), r)
      BY <1>1, <3>2, <3>5, TreeNodes
    <3>7. /\ PrefixOf(Append(s.path, 0), l.path) /\ PrefixOf(Append(s.path, 1), r.path)
          /\ l.path \in Seq(Bit) /\ r.path \in Seq(Bit) /\ s.path \in Seq(Bit)
      BY <1>8, <3>6, InTree DEF NodeOf
    <3>8. t.path \in Seq(Bit)
      <4>1. NodeOf(M, <<>>, t)
        BY <1>1, <1>3, <2>4, TreeNodes
      <4>2. QED
        BY <4>1, InTree DEF NodeOf
    <3>9. s.path = t.path
      BY <3>4, <3>7, <3>8, Forks
    <3>10. QED
      BY <2>4, <3>3, <3>9
  <2>8. QED
    BY <2>2, <2>6, <2>7
<1>9. ASSUME NEW s, Tree(S)[<<>>] = {s}, NodeOf(S, <<>>, s), \A z \in S : PrefixOf(s.path, z.path)
      PROVE  Backed(S, M, s.path) /\ \A y \in M : PrefixOf(s.path, y.path)
  <2>1. PICK t : /\ Tree(M)[<<>>] = {t} /\ t.path = s.path /\ t.hash = s.hash
                 /\ \A y \in M : PrefixOf(t.path, y.path)
    BY <1>8, <1>9
  <2>2. Has(M, s)
    BY <1>1, <1>3, <2>1, NodeIsThere
  <2>3. QED
    BY <1>3, <1>9, <2>1, <2>2, HashBacks
<1>10. QED
  <2>1. CASE S = {} /\ Tree(S)[<<>>] = {}
    BY <1>7, <2>1
  <2>2. CASE \E s : /\ Tree(S)[<<>>] = {s} /\ NodeOf(S, <<>>, s)
                    /\ \A z \in S : PrefixOf(s.path, z.path)
    BY <1>9, <2>2 DEF Backed
  <2>3. QED
    BY <1>1, <1>2, <2>1, <2>2, AtTop

\* The trees of S and M have nothing at a path, or one node with one hash.
Same(S, M, p) ==
  \/ Tree(S)[p] = {} /\ Tree(M)[p] = {}
  \/ \E x, t : /\ Tree(S)[p] = {x} /\ Tree(M)[p] = {t}
               /\ x.path = t.path /\ x.hash = t.hash

\* At longer paths and then, with no node of S and no entry of M, at a shorter one.
LEMMA SameAbove ==
  ASSUME NEW S, NEW M, NEW p \in PathsUpTo(Width), Len(p) # Width,
         \A z \in S : z.path # p, \A y \in M : y.path # p,
         Same(S, M, Append(p, 0)), Same(S, M, Append(p, 1))
  PROVE  Same(S, M, p)
<1>1. ASSUME NEW T, \A z \in T : z.path # p
      PROVE  /\ Tree(T)[Append(p, 0)] = {} => Tree(T)[p] = Tree(T)[Append(p, 1)]
             /\ Tree(T)[Append(p, 1)] = {} => Tree(T)[p] = Tree(T)[Append(p, 0)]
             /\ \A l, r : Tree(T)[Append(p, 0)] = {l} /\ Tree(T)[Append(p, 1)] = {r}
                         => Tree(T)[p] = {[path |-> p, hash |-> Branch(l, r)]}
  <2>1. /\ \/ Tree(T)[Append(p, 0)] = {} \/ Tree(T)[Append(p, 1)] = {}
           => Tree(T)[p] = Tree(T)[Append(p, 0)] \cup Tree(T)[Append(p, 1)]
        /\ Tree(T)[Append(p, 0)] # {} /\ Tree(T)[Append(p, 1)] # {}
           => Tree(T)[p] = Branches(p, Tree(T)[Append(p, 0)], Tree(T)[Append(p, 1)])
    BY <1>1, TreeCases
  <2>2. \A l, r : Branches(p, {l}, {r}) = {[path |-> p, hash |-> Branch(l, r)]}
    BY DEF Branches
  <2>3. QED
    BY <2>1, <2>2
<1>2. CASE Tree(S)[Append(p, 0)] = {} /\ Tree(M)[Append(p, 0)] = {}
  BY <1>1, <1>2 DEF Same
<1>3. CASE Tree(S)[Append(p, 1)] = {} /\ Tree(M)[Append(p, 1)] = {}
  BY <1>1, <1>3 DEF Same
<1>4. ASSUME NEW l, NEW t, Tree(S)[Append(p, 0)] = {l}, Tree(M)[Append(p, 0)] = {t},
             l.path = t.path, l.hash = t.hash,
             NEW r, NEW u, Tree(S)[Append(p, 1)] = {r}, Tree(M)[Append(p, 1)] = {u},
             r.path = u.path, r.hash = u.hash
      PROVE  Same(S, M, p)
  <2>1. Branch(l, r) = Branch(t, u)
    BY <1>4 DEF Branch
  <2>2. PICK b : b = [path |-> p, hash |-> Branch(l, r)]
    OBVIOUS
  <2>3. Tree(S)[p] = {b} /\ Tree(M)[p] = {b}
    BY <1>1, <1>4, <2>1, <2>2
  <2>4. QED
    BY <2>3 DEF Same
<1>5. QED
  BY <1>2, <1>3, <1>4 DEF Same

\* The trees do not differ above a document that has right nodes only, and lacks
\* nothing of the map.
LEMMA RightNodes ==
  ASSUME NEW S, IsCut(S), NEW M, IsMap(M),
         \A z \in S : Has(M, z),
         \A y \in M : \E z \in S : PrefixOf(z.path, y.path)
  PROVE  RootOf(Tree(S)[<<>>]) = RootOf(Tree(M)[<<>>])
<1> DEFINE Uncut(p) == \A z \in S : PrefixOf(z.path, p) => z.path = p
<1>1. /\ Nodes(S) /\ \A x, y \in S : x.path = y.path => x = y
      /\ Nodes(M) /\ \A x, y \in M : x.path = y.path => x = y
      /\ \A z \in S : z.path \in Seq(Bit)
  BY Compared DEF IsCut, IsMap, Separate
<1>2. PICK B : B = {p \in PathsUpTo(Width) : Uncut(p) /\ ~Same(S, M, p)}
  OBVIOUS
<1>3. ASSUME B # {} PROVE FALSE
  <2>1. PICK p \in B : p \in Seq(Bit) /\ \A b \in Bit : Append(p, b) \notin B
    <3>1. B \in SUBSET PathsUpTo(Width)
      BY <1>2
    <3>2. QED
      BY <1>3, <3>1, Deepest
  <2>2. p \in PathsUpTo(Width) /\ Uncut(p) /\ ~Same(S, M, p)
    BY <1>2
  <2>3. ASSUME NEW z \in S, z.path = p PROVE FALSE
    <3>1. PICK t \in Tree(M)[p] : t.path = p /\ t.hash = z.hash
      BY <2>3 DEF Has
    <3>2. Tree(M)[p] = {t}
      BY <1>1, <2>2, <3>1, TreeUnique
    <3>3. \A x : x \in Tree(S)[p] <=> x \in S /\ x.path = p
      BY <2>2, <2>3, TreeGiven
    <3>4. Tree(S)[p] = {z}
      BY <1>1, <2>3, <3>3
    <3>5. QED
      BY <2>2, <2>3, <3>1, <3>2, <3>4 DEF Same
  <2>4. ASSUME NEW y \in M, y.path = p PROVE FALSE
    BY <2>2, <2>3, <2>4
  <2>5. CASE Len(p) = Width
    <3>1. \A T, x : T \in {S, M} => (x \in Tree(T)[p] <=> x \in T /\ x.path = p)
      BY <2>2, <2>5, TreeGiven
    <3>2. Tree(S)[p] = {} /\ Tree(M)[p] = {}
      BY <2>3, <2>4, <3>1
    <3>3. QED
      BY <2>2, <3>2 DEF Same
  <2>6. CASE Len(p) # Width
    <3>1. ASSUME NEW b \in Bit PROVE Same(S, M, Append(p, b))
      <4>1. Append(p, b) \in PathsUpTo(Width) /\ Append(p, b) \in Seq(Bit)
        BY <2>2, <2>6, Longer
      <4>2. ASSUME NEW z \in S, PrefixOf(z.path, Append(p, b)) PROVE z.path = Append(p, b)
        <5>1. z.path = Append(p, b) \/ PrefixOf(z.path, p)
          BY <1>1, <2>1, <4>2, Shorter
        <5>2. QED
          BY <2>2, <2>3, <5>1
      <4>3. QED
        BY <1>2, <2>1, <4>1, <4>2
    <3>2. QED
      BY <2>2, <2>3, <2>4, <2>6, <3>1, SameAbove DEF Bit
  <2>7. QED
    BY <2>5, <2>6
<1>4. Same(S, M, <<>>)
  <2>1. <<>> \in PathsUpTo(Width)
    BY <1>1, AtTop
  <2>2. ASSUME NEW z \in S, PrefixOf(z.path, <<>>) PROVE z.path = <<>>
    <3>1. Len(z.path) = 0
      BY <1>1, <2>2 DEF PrefixOf
    <3>2. QED
      BY <1>1, <3>1
  <2>3. QED
    BY <1>2, <1>3, <2>1, <2>2
<1>5. CASE Tree(S)[<<>>] = {} /\ Tree(M)[<<>>] = {}
  BY <1>5
<1>6. ASSUME NEW x, NEW t, Tree(S)[<<>>] = {x}, Tree(M)[<<>>] = {t},
             x.path = t.path, x.hash = t.hash
      PROVE  RootOf(Tree(S)[<<>>]) = RootOf(Tree(M)[<<>>])
  <2>1. Isolated(x) = Isolated(t)
    BY <1>6 DEF Isolated
  <2>2. QED
    BY <1>6, <2>1, Roots
<1>7. QED
  BY <1>4, <1>5, <1>6 DEF Same

-----------------------------------------------------------------------------
(* The loop of collect folds the tree.                                     *)

\* The elements of a document that passes the checks.
LEMMA GivenIsCut ==
  ASSUME Document, WellFormedProof, WellFormedEntries, OrderedProof, UncoveredEntries,
         DistinctEntries
  PROVE  IsCut(given)
<1>1. ASSUME NEW i \in DOMAIN proof PROVE proof[i].path \in PathsUpTo(Width)
  <2>1. proof[i].path \in Seq(Bit) /\ Len(proof[i].path) \in 1..Width
    BY Fields DEF WellFormedProof, WellFormed
  <2>2. Len(proof[i].path) \in 0..Width
    BY <2>1, WidthAssumption
  <2>3. QED
    BY <2>1, <2>2, InTree
<1>2. ASSUME NEW i \in DOMAIN entries PROVE EntryPath(entries[i]) \in PathsUpTo(Width)
  <2>1. EntryPath(entries[i]) \in Seq(Bit) /\ Len(EntryPath(entries[i])) = Width
    BY EntryPaths
  <2>2. Width \in 0..Width
    BY WidthAssumption
  <2>3. QED
    BY <2>1, <2>2, InTree
<1>3. ASSUME NEW x \in given PROVE x.path \in PathsUpTo(Width)
  <2>1. CASE x \in Members(proof)
    BY <1>1, <2>1 DEF Members
  <2>2. CASE x \notin Members(proof)
    <3>1. PICK i \in DOMAIN entries : x = [path |-> EntryPath(entries[i]),
                                           hash |-> Blob(entries[i].value)]
      BY <1>3, <2>2 DEF given, Members
    <3>2. x.path = EntryPath(entries[i])
      BY <3>1
    <3>3. QED
      BY <1>2, <3>2
  <2>3. QED
    BY <2>1, <2>2
<1>4. QED
  BY <1>3, GivenIsSeparate DEF IsCut, Nodes

\* There are no more of them than elements of the two arrays.
LEMMA GivenIsFinite ==
  ASSUME Document
  PROVE  IsFiniteSet(given) /\ Cardinality(given) <= Len(proof) + Len(entries)
<1>1. PICK m \in Nat, n \in Nat : /\ m = Len(proof) /\ DOMAIN proof = 1..m
                                  /\ n = Len(entries) /\ DOMAIN entries = 1..n
  BY Fields, Zenon
<1>2. /\ IsFiniteSet(1..m) /\ Cardinality(1..m) = m
      /\ IsFiniteSet(1..n) /\ Cardinality(1..n) = n
  BY FS_Interval
<1>3. PICK P : P = Members(proof)
  OBVIOUS
<1>4. IsFiniteSet(P) /\ Cardinality(P) <= m
  <2>1. PICK f : f = [i \in 1..m |-> proof[i]]
    OBVIOUS
  <2>2. f \in Surjection(1..m, P)
    BY <1>1, <1>3, <2>1 DEF Surjection, Members
  <2>3. QED
    BY <1>2, <2>2, FS_Surjection
<1>5. PICK I : I = {i \in 1..n : entries[i].missing = none}
  OBVIOUS
<1>6. PICK f : f = [i \in I |-> [path |-> EntryPath(entries[i]), hash |-> Blob(entries[i].value)]]
  OBVIOUS
<1>7. PICK E : E = {f[i] : i \in I}
  OBVIOUS
<1>8. IsFiniteSet(E) /\ Cardinality(E) <= n
  <2>1. f \in Surjection(I, E)
    BY <1>6, <1>7 DEF Surjection
  <2>2. IsFiniteSet(I) /\ Cardinality(I) <= n
    BY <1>2, <1>5, FS_Subset
  <2>3. IsFiniteSet(E) /\ Cardinality(E) <= Cardinality(I)
    BY <2>1, <2>2, FS_Surjection
  <2>4. Cardinality(E) \in Nat /\ Cardinality(I) \in Nat
    BY <2>2, <2>3, FS_CardinalityType
  <2>5. QED
    BY <2>2, <2>3, <2>4
<1>9. given = P \cup E
  <2>1. given = P \cup {[path |-> EntryPath(e), hash |-> Blob(e.value)] :
                          e \in {x \in Members(entries) : x.missing = none}}
    BY <1>3 DEF given
  <2>2. {[path |-> EntryPath(e), hash |-> Blob(e.value)] :
           e \in {x \in Members(entries) : x.missing = none}} = E
    BY <1>1, <1>5, <1>6, <1>7 DEF Members
  <2>3. QED
    BY <2>1, <2>2
<1>10. /\ IsFiniteSet(P \cup E)
       /\ Cardinality(P \cup E) = Cardinality(P) + Cardinality(E) - Cardinality(P \cap E)
  BY <1>4, <1>8, FS_Union
<1>11. IsFiniteSet(P \cap E)
  BY <1>4, FS_Intersection
<1>12. Cardinality(P) \in Nat /\ Cardinality(E) \in Nat /\ Cardinality(P \cap E) \in Nat
  BY <1>4, <1>8, <1>11, FS_CardinalityType
<1>13. QED
  BY <1>1, <1>4, <1>8, <1>9, <1>10, <1>12

\* What InLoop knows of the tree above the given nodes: it has the nodes of the
\* contour, below which all nodes are that have been read.
Folded ==
  /\ rest \subseteq given
  /\ Len(contour) + Cardinality(rest) <= Cardinality(given)
  /\ \A i \in 1..Len(contour) : /\ contour[i].path \in PathsUpTo(Width)
                                /\ contour[i] \in Tree(given)[contour[i].path]
  /\ \A z \in given : z \in rest \/ \E i \in 1..Len(contour) : PrefixOf(contour[i].path, z.path)
  /\ Len(contour) = 1 => Len(contour[1].path) # Width

\* A given node is what the tree has at its path.
LEMMA GivenInTree ==
  ASSUME NEW S, IsCut(S), NEW x \in S
  PROVE  x.path \in PathsUpTo(Width) /\ x.path \in Seq(Bit) /\ x \in Tree(S)[x.path]
<1>1. x.path \in PathsUpTo(Width)
  BY DEF IsCut, Nodes
<1>2. PICK p : p = x.path
  OBVIOUS
<1>3. \A y : y \in Tree(S)[p] <=> y \in S /\ y.path = p
  BY <1>1, <1>2, TreeGiven
<1>4. QED
  BY <1>1, <1>2, <1>3, InTree

\* Two nodes less to come.
LEMMA FewerToCome ==
  ASSUME NEW S, IsFiniteSet(S), NEW x \in S
  PROVE  /\ IsFiniteSet(S \ {x}) /\ Cardinality(S) \in Nat
         /\ Cardinality(S \ {x}) + 1 = Cardinality(S)
<1>1. IsFiniteSet(S \ {x}) /\ Cardinality(S \ {x}) = Cardinality(S) - 1
  BY FS_RemoveElement
<1>2. Cardinality(S) \in Nat
  BY FS_CardinalityType
<1>3. QED
  BY <1>1, <1>2

\* The loop starts with two of the nodes.
LEMMA StartFolds ==
  ASSUME IsCut(given), IsFiniteSet(given), Start
  PROVE  Folded'
<1>1. PICK x, y \in given : /\ IsLeast(x, given) /\ IsLeast(y, given \ {x})
                            /\ contour' = <<x, y>>
                            /\ rest' = given \ {x, y}
  BY DEF Start
<1>2. given' = given
  BY DEF Start, document, given, Members, EntryPath
<1>3. y \in given \ {x} /\ rest' = (given \ {x}) \ {y}
  BY <1>1 DEF IsLeast
<1>4. Len(contour') = 2 /\ contour'[1] = x /\ contour'[2] = y
  BY <1>1
<1>5. 2 + Cardinality(rest') <= Cardinality(given)
  <2>1. /\ IsFiniteSet(given \ {x}) /\ Cardinality(given) \in Nat
        /\ Cardinality(given \ {x}) + 1 = Cardinality(given)
    BY FewerToCome
  <2>2. /\ Cardinality(given \ {x}) \in Nat
        /\ Cardinality((given \ {x}) \ {y}) + 1 = Cardinality(given \ {x})
        /\ IsFiniteSet((given \ {x}) \ {y})
    BY <1>3, <2>1, FewerToCome
  <2>3. Cardinality((given \ {x}) \ {y}) \in Nat
    BY <2>2, FS_CardinalityType
  <2>4. QED
    BY <1>3, <2>1, <2>2, <2>3
<1>6. /\ x.path \in PathsUpTo(Width) /\ x \in Tree(given)[x.path] /\ PrefixOf(x.path, x.path)
      /\ y.path \in PathsUpTo(Width) /\ y \in Tree(given)[y.path] /\ PrefixOf(y.path, y.path)
  BY GivenInTree, PrefixTrans
<1>7. \A i \in 1..2 : /\ contour'[i].path \in PathsUpTo(Width)
                      /\ contour'[i] \in Tree(given)[contour'[i].path]
  BY <1>4, <1>6
<1>8. ASSUME NEW z \in given
      PROVE  z \in rest' \/ \E i \in 1..2 : PrefixOf(contour'[i].path, z.path)
  <2>1. z \in rest' \/ z = x \/ z = y
    BY <1>1
  <2>2. 1 \in 1..2 /\ 2 \in 1..2
    OBVIOUS
  <2>3. QED
    BY <1>4, <1>6, <2>1, <2>2
<1>9. QED
  BY <1>1, <1>2, <1>4, <1>5, <1>7, <1>8 DEF Folded

\* The next node joins the contour.
LEMMA PushFolds ==
  ASSUME IsCut(given), IsFiniteSet(given), Shape, Folded, Push
  PROVE  Folded'
<1>1. PICK x \in rest : contour' = Append(contour, x) /\ rest' = rest \ {x}
  BY DEF Push
<1>2. given' = given
  BY DEF Push, document, given, Members, EntryPath
<1>0. PICK S : contour \in Seq(S) /\ Len(contour) > 0
  BY DEF Shape
<1>3. PICK n \in Nat : contour \in Seq(S) /\ n = Len(contour) /\ n > 0
  BY <1>0
<1>4. /\ Len(contour') = n + 1
      /\ \A i \in 1..n : contour'[i] = contour[i]
      /\ contour'[n + 1] = x
  BY <1>1, <1>3, Extended
<1>5. rest \subseteq given /\ x \in given
  BY DEF Folded
<1>6. (n + 1) + Cardinality(rest') <= Cardinality(given)
  <2>1. IsFiniteSet(rest) /\ Cardinality(given) \in Nat
    BY <1>5, FS_Subset, FS_CardinalityType
  <2>2. /\ IsFiniteSet(rest \ {x}) /\ Cardinality(rest) \in Nat
        /\ Cardinality(rest \ {x}) + 1 = Cardinality(rest)
    BY <2>1, FewerToCome
  <2>3. Cardinality(rest \ {x}) \in Nat
    BY <2>2, FS_CardinalityType
  <2>4. n + Cardinality(rest) <= Cardinality(given)
    BY <1>3 DEF Folded
  <2>5. QED
    BY <1>1, <2>1, <2>2, <2>3, <2>4
<1>7. x.path \in PathsUpTo(Width) /\ x \in Tree(given)[x.path] /\ PrefixOf(x.path, x.path)
  BY <1>5, GivenInTree, PrefixTrans
<1>8. ASSUME NEW i \in 1..(n + 1)
      PROVE  contour'[i].path \in PathsUpTo(Width) /\ contour'[i] \in Tree(given)[contour'[i].path]
  <2>1. CASE i = n + 1
    BY <1>4, <1>7, <2>1
  <2>2. CASE i # n + 1
    <3>1. i \in 1..n
      BY <1>3, <2>2
    <3>2. QED
      BY <1>3, <1>4, <3>1 DEF Folded
  <2>3. QED
    BY <2>1, <2>2
<1>9. ASSUME NEW z \in given
      PROVE  z \in rest' \/ \E i \in 1..(n + 1) : PrefixOf(contour'[i].path, z.path)
  <2>1. CASE z = x
    <3>1. n + 1 \in 1..(n + 1)
      BY <1>3
    <3>2. QED
      BY <1>4, <1>7, <2>1, <3>1
  <2>2. CASE z \in rest /\ z # x
    BY <1>1, <2>2
  <2>3. CASE z \notin rest
    <3>1. PICK i \in 1..n : PrefixOf(contour[i].path, z.path)
      BY <1>3, <2>3 DEF Folded
    <3>2. i \in 1..(n + 1) /\ contour'[i] = contour[i]
      BY <1>3, <1>4
    <3>3. QED
      BY <3>1, <3>2
  <2>4. QED
    BY <2>1, <2>2, <2>3
<1>10. n + 1 # 1
  BY <1>3
<1>11. QED
  BY <1>1, <1>2, <1>4, <1>5, <1>6, <1>8, <1>9, <1>10 DEF Folded

\* Of paths each of which is to the left of the next, every one is to the left
\* of all that follow.
LEMMA LeftOfAll ==
  ASSUME NEW n \in Nat, NEW c, \A i \in 1..n : c[i].path \in Seq(Bit),
         \A i \in 1..(n - 1) : Left(c[i].path, c[i + 1].path)
  PROVE  \A i, j \in 1..n : i < j => Left(c[i].path, c[j].path)
<1>1. SUFFICES ASSUME NEW i \in 1..n, NEW j \in 1..n, i < j, ~Left(c[i].path, c[j].path)
               PROVE  FALSE
  OBVIOUS
<1>2. PICK S : S = {k \in Nat : i < k /\ k <= n /\ ~Left(c[i].path, c[k].path)}
  OBVIOUS
<1>3. PICK m \in S : \A k \in S : m <= k
  <2>1. S \in SUBSET Nat /\ j \in S
    BY <1>1, <1>2
  <2>2. QED
    BY <2>1, LeastNumber
<1>4. PICK l \in Nat : m = l + 1
  <2>1. m \in Nat /\ i < m
    BY <1>2
  <2>2. m - 1 \in Nat /\ m = (m - 1) + 1
    BY <2>1
  <2>3. QED
    BY <2>2
<1>5. l \in 1..n /\ l + 1 \in 1..n /\ l \in 1..(n - 1) /\ l \notin S /\ i <= l
  BY <1>2, <1>3, <1>4
<1>6. Left(c[l].path, c[l + 1].path) /\ ~Left(c[i].path, c[l + 1].path)
  BY <1>2, <1>4, <1>5
<1>7. CASE l = i
  BY <1>6, <1>7
<1>8. CASE l # i
  <2>1. Left(c[i].path, c[l].path)
    BY <1>2, <1>5, <1>8
  <2>2. QED
    BY <1>5, <1>6, <2>1, LeftTrans
<1>9. QED
  BY <1>7, <1>8

\* Two nodes of the tree are the only ones below the path where they fork, and
\* none is at this path: the tree has their branch there.
LEMMA BranchInTree ==
  ASSUME NEW S, IsCut(S), NEW l, NEW r, NEW p,
         l.path \in PathsUpTo(Width), l \in Tree(S)[l.path],
         r.path \in PathsUpTo(Width), r \in Tree(S)[r.path],
         Left(l.path, r.path), p = CommonPrefix(l.path, r.path),
         \A z \in S : PrefixOf(p, z.path) => PrefixOf(l.path, z.path) \/ PrefixOf(r.path, z.path)
  PROVE  /\ p \in PathsUpTo(Width) /\ Len(p) # Width
         /\ [path |-> p, hash |-> Branch(l, r)] \in Tree(S)[p]
<1>1. /\ Nodes(S) /\ \A z \in S : z.path \in Seq(Bit)
      /\ l.path \in Seq(Bit) /\ r.path \in Seq(Bit) /\ Len(l.path) \in 0..Width
  BY InTree DEF IsCut, Nodes
<1>2. p \in Seq(Bit)
  BY <1>1, PrefixParts
<1>3. PrefixOf(Append(p, 0), l.path) /\ PrefixOf(Append(p, 1), r.path)
  BY <1>1, <1>2, Forks
<1>4. 0 \in Bit /\ 1 \in Bit
  BY DEF Bit
<1>5. Len(p) < Len(l.path) /\ PrefixOf(p, l.path) /\ PrefixOf(p, r.path)
  BY <1>1, <1>2, <1>3, <1>4, Grown
<1>6. p \in PathsUpTo(Width) /\ Len(p) # Width
  <2>1. Len(p) \in 0..Width /\ Len(p) # Width
    BY <1>1, <1>2, <1>5, WidthAssumption
  <2>2. QED
    BY <1>2, <2>1, InTree
<1>7. /\ Append(p, 0) \in PathsUpTo(Width) /\ Append(p, 0) \in Seq(Bit)
      /\ Append(p, 1) \in PathsUpTo(Width) /\ Append(p, 1) \in Seq(Bit)
  BY <1>4, <1>6, Longer
<1>8. ASSUME NEW z \in S, PrefixOf(Append(p, 0), z.path) PROVE PrefixOf(l.path, z.path)
  <2>1. PrefixOf(p, z.path) /\ z.path[Len(p) + 1] = 0
    BY <1>1, <1>2, <1>4, <1>8, Grown
  <2>2. ASSUME PrefixOf(r.path, z.path) PROVE FALSE
    <3>1. PrefixOf(Append(p, 1), z.path)
      BY <1>1, <1>3, <1>7, <2>2, PrefixTrans
    <3>2. z.path[Len(p) + 1] = 1
      BY <1>1, <1>2, <1>4, <3>1, Grown
    <3>3. QED
      BY <2>1, <3>2
  <2>3. QED
    BY <2>1, <2>2
<1>9. ASSUME NEW z \in S, PrefixOf(Append(p, 1), z.path) PROVE PrefixOf(r.path, z.path)
  <2>1. PrefixOf(p, z.path) /\ z.path[Len(p) + 1] = 1
    BY <1>1, <1>2, <1>4, <1>9, Grown
  <2>2. ASSUME PrefixOf(l.path, z.path) PROVE FALSE
    <3>1. PrefixOf(Append(p, 0), z.path)
      BY <1>1, <1>3, <1>7, <2>2, PrefixTrans
    <3>2. z.path[Len(p) + 1] = 0
      BY <1>1, <1>2, <1>4, <3>1, Grown
    <3>3. QED
      BY <2>1, <3>2
  <2>3. QED
    BY <2>1, <2>2
<1>10. l \in Tree(S)[Append(p, 0)] /\ r \in Tree(S)[Append(p, 1)]
  <2>1. Tree(S)[Append(p, 0)] = Tree(S)[l.path]
    BY <1>1, <1>3, <1>7, <1>8, TreeBelow
  <2>2. Tree(S)[Append(p, 1)] = Tree(S)[r.path]
    BY <1>1, <1>3, <1>7, <1>9, TreeBelow
  <2>3. QED
    BY <2>1, <2>2
<1>11. \A z \in S : z.path # p
  <2>1. SUFFICES ASSUME NEW z \in S, z.path = p PROVE FALSE
    OBVIOUS
  <2>2. PICK y \in S : PrefixOf(l.path, y.path)
    BY <1>1, TreeNodes DEF NodeOf
  <2>3. PrefixOf(z.path, y.path)
    BY <1>1, <1>2, <1>5, <2>1, <2>2, PrefixTrans
  <2>4. y = z
    BY <2>3, CutApart
  <2>5. QED
    BY <1>1, <1>2, <1>5, <2>1, <2>2, <2>4 DEF PrefixOf
<1>12. Tree(S)[p] = Branches(p, Tree(S)[Append(p, 0)], Tree(S)[Append(p, 1)])
  <2>1. Tree(S)[Append(p, 0)] # {} /\ Tree(S)[Append(p, 1)] # {}
    BY <1>10
  <2>2. QED
    BY <1>6, <1>11, <2>1, TreeCases
<1>13. [path |-> p, hash |-> Branch(l, r)] \in Tree(S)[p]
  BY <1>10, <1>12 DEF Branches
<1>14. QED
  BY <1>6, <1>13

\* A fold replaces two nodes by the one above them.
LEMMA FoldFolds ==
  ASSUME IsCut(given), IsFiniteSet(given), Shape, Beyond', Shape', Folded,
         Len(contour) > 1, Fold, rest' = rest, given' = given
  PROVE  Folded'
<1>1. PICK n \in Nat : n = Len(contour) /\ n > 1 /\ \E S : contour \in Seq(S)
  <2>1. PICK S : contour \in Seq(S)
    BY DEF Shape
  <2>2. QED
    BY <2>1
<1>2. PICK l, r : l = contour[n - 1] /\ r = contour[n]
  OBVIOUS
<1>3. PICK x : x = [path |-> lastPrefix, hash |-> Branch(l, r)]
  OBVIOUS
<1>4. x.path = lastPrefix
  BY <1>3
<1>5. contour' = Append(SubSeq(contour, 1, n - 2), x)
  BY <1>1, <1>2, <1>3 DEF Fold, Joined
<1>6. /\ Len(contour') = n - 1
      /\ \A i \in 1..(n - 2) : contour'[i] = contour[i]
      /\ contour'[n - 1] = x
  BY <1>1, <1>5, Replaced
<1>7. /\ l.path \in PathsUpTo(Width) /\ l \in Tree(given)[l.path]
      /\ r.path \in PathsUpTo(Width) /\ r \in Tree(given)[r.path]
  <2>1. n - 1 \in 1..n /\ n \in 1..n
    BY <1>1
  <2>2. QED
    BY <1>1, <1>2, <2>1 DEF Folded
<1>8. Left(l.path, r.path) /\ lastPrefix = CommonPrefix(l.path, r.path)
  <2>1. n - 1 \in 1..(n - 1) /\ (n - 1) + 1 = n
    BY <1>1
  <2>2. QED
    BY <1>1, <1>2, <2>1 DEF Shape
<1>9. /\ l.path \in Seq(Bit) /\ r.path \in Seq(Bit) /\ lastPrefix \in Seq(Bit)
      /\ PrefixOf(lastPrefix, l.path) /\ PrefixOf(lastPrefix, r.path)
  <2>1. l.path \in Seq(Bit) /\ r.path \in Seq(Bit)
    BY <1>7, InTree
  <2>2. lastPrefix \in Seq(Bit)
    BY <1>8, <2>1, PrefixParts
  <2>3. 0 \in Bit /\ 1 \in Bit
    BY DEF Bit
  <2>4. PrefixOf(Append(lastPrefix, 0), l.path) /\ PrefixOf(Append(lastPrefix, 1), r.path)
    BY <1>8, <2>1, <2>2, Forks
  <2>5. QED
    BY <2>1, <2>2, <2>3, <2>4, Grown
<1>10. \A z \in given : z.path \in Seq(Bit)
  BY DEF IsCut, Separate
<1>11. ASSUME NEW z \in given, PrefixOf(lastPrefix, z.path)
       PROVE  PrefixOf(l.path, z.path) \/ PrefixOf(r.path, z.path)
  <2>1. z \notin rest
    <3>1. SUFFICES ASSUME z \in rest PROVE FALSE
      OBVIOUS
    <3>2. n - 1 \in 1..(n - 1)
      BY <1>1
    <3>3. Left(lastPrefix, z.path)
      BY <1>4, <1>6, <3>1, <3>2 DEF Beyond
    <3>4. QED
      BY <1>9, <1>10, <1>11, <3>3, Compared
  <2>2. PICK i \in 1..n : PrefixOf(contour[i].path, z.path)
    BY <1>1, <2>1 DEF Folded
  <2>3. CASE i \in 1..(n - 2)
    <3>1. /\ \A j \in 1..(n - 1) : contour'[j].path \in Seq(Bit)
          /\ \A j \in 1..((n - 1) - 1) : Left(contour'[j].path, contour'[j + 1].path)
      BY <1>6 DEF Shape
    <3>2. n - 1 \in Nat /\ i \in 1..(n - 1) /\ n - 1 \in 1..(n - 1) /\ i < n - 1
      BY <1>1, <2>3
    <3>3. Left(contour'[i].path, contour'[n - 1].path)
      BY <3>1, <3>2, LeftOfAll
    <3>4. Left(contour[i].path, lastPrefix) /\ contour[i].path \in Seq(Bit)
      BY <1>4, <1>6, <2>3, <3>1, <3>2, <3>3
    <3>5. QED
      BY <1>9, <1>10, <1>11, <2>2, <3>4, NoCommonEnd
  <2>4. CASE i \notin 1..(n - 2)
    <3>1. i = n - 1 \/ i = n
      BY <1>1, <2>4
    <3>2. QED
      BY <1>2, <2>2, <3>1
  <2>5. QED
    BY <2>3, <2>4
<1>12. x.path \in PathsUpTo(Width) /\ Len(x.path) # Width /\ x \in Tree(given)[x.path]
  <2>1. /\ lastPrefix \in PathsUpTo(Width) /\ Len(lastPrefix) # Width
        /\ [path |-> lastPrefix, hash |-> Branch(l, r)] \in Tree(given)[lastPrefix]
    BY <1>7, <1>8, <1>11, BranchInTree
  <2>2. QED
    BY <1>3, <1>4, <2>1
<1>13. ASSUME NEW i \in 1..(n - 1)
       PROVE  /\ contour'[i].path \in PathsUpTo(Width)
              /\ contour'[i] \in Tree(given)[contour'[i].path]
  <2>1. CASE i = n - 1
    BY <1>6, <1>12, <2>1
  <2>2. CASE i # n - 1
    <3>1. i \in 1..(n - 2) /\ i \in 1..n
      BY <1>1, <2>2
    <3>2. QED
      BY <1>1, <1>6, <3>1 DEF Folded
  <2>3. QED
    BY <2>1, <2>2
<1>14. ASSUME NEW z \in given
       PROVE  z \in rest \/ \E i \in 1..(n - 1) : PrefixOf(contour'[i].path, z.path)
  <2>1. SUFFICES ASSUME NEW i \in 1..n, PrefixOf(contour[i].path, z.path)
                 PROVE  \E j \in 1..(n - 1) : PrefixOf(contour'[j].path, z.path)
    BY <1>1 DEF Folded
  <2>2. CASE i \in 1..(n - 2)
    <3>1. i \in 1..(n - 1) /\ contour'[i] = contour[i]
      BY <1>1, <1>6, <2>2
    <3>2. QED
      BY <2>1, <3>1
  <2>3. CASE i \notin 1..(n - 2)
    <3>1. i = n - 1 \/ i = n
      BY <1>1, <2>3
    <3>2. PrefixOf(lastPrefix, z.path)
      BY <1>2, <1>9, <1>10, <2>1, <3>1, PrefixTrans
    <3>3. n - 1 \in 1..(n - 1)
      BY <1>1
    <3>4. QED
      BY <1>4, <1>6, <3>2, <3>3
  <2>4. QED
    BY <2>2, <2>3
<1>15. (n - 1) + Cardinality(rest) <= Cardinality(given)
  <2>1. rest \subseteq given /\ n + Cardinality(rest) <= Cardinality(given)
    BY <1>1 DEF Folded
  <2>2. Cardinality(rest) \in Nat /\ Cardinality(given) \in Nat
    BY <2>1, FS_Subset, FS_CardinalityType
  <2>3. QED
    BY <2>1, <2>2
<1>16. n - 1 = 1 => Len(contour'[1].path) # Width
  BY <1>6, <1>12
<1>17. rest \subseteq given
  BY DEF Folded
<1>18. QED
  BY <1>6, <1>13, <1>14, <1>15, <1>16, <1>17 DEF Folded

\* The common prefix of two paths that part is shorter than that of a key.
LEMMA PrefixShort ==
  ASSUME NEW p \in PathsUpTo(Width), NEW q \in PathsUpTo(Width), Left(p, q)
  PROVE  /\ CommonPrefix(p, q) \in PathsUpTo(Width - 1)
         /\ CommonPrefix(q, p) = CommonPrefix(p, q)
<1>1. p \in Seq(Bit) /\ q \in Seq(Bit) /\ Len(p) \in 0..Width
  BY InTree
<1>2. /\ CommonPrefix(p, q) \in Seq(Bit) /\ CommonPrefix(q, p) = CommonPrefix(p, q)
      /\ Len(CommonPrefix(p, q)) = CommonLength(p, q)
  BY <1>1, PrefixParts
<1>3. CommonLength(p, q) < Len(p) /\ CommonLength(p, q) \in Nat
  <2>1. CommonLength(p, q) \in Nat
    BY <1>1, CommonLengthParts DEF Parts
  <2>2. QED
    BY <1>1, <2>1, LeftParts
<1>4. Width - 1 \in Nat /\ CommonLength(p, q) <= Width - 1
  BY <1>1, <1>3, WidthAssumption
<1>5. QED
  BY <1>2, <1>4, Lengths

\* Where the constructor is, and what it computes.
Stage ==
  /\ pc \in {"parseProof", "parseEntries", "precheckOrder", "precheckEntries",
             "duplicates", "collect", "next", "fold", "done"}
  /\ outcome \in Errors \cup {"running", "ok"}
  /\ pc = "done" <=> outcome # "running"

Prefixes == lastPrefix \in PathsUpTo(Width - 1) /\ newPrefix \in PathsUpTo(Width - 1)

\* The inductive invariant, on top of that for the order of the paths.
TreeInv == Stage /\ Prefixes /\ (InLoop => Folded) /\ FoldsTheTree

\* A step of a check leaves the tree to the steps that follow.
LEMMA CheckKeepsTree ==
  ASSUME TreeInv, ParseProof \/ ParseEntries \/ PrecheckOrder \/ PrecheckEntries \/ Duplicates
  PROVE  TreeInv'
<1> DEFINE later == {"parseEntries", "precheckOrder", "precheckEntries", "duplicates", "collect"}
<1>1. /\ pc \in {"parseProof", "parseEntries", "precheckOrder", "precheckEntries", "duplicates"}
      /\ UNCHANGED loop
      /\ \/ pc' \in later /\ outcome' = outcome
         \/ pc' = "done" /\ outcome' \in Errors
  <2>1. CASE ParseProof
    BY <2>1 DEF ParseProof, Checked, Throw, Errors
  <2>2. CASE ParseEntries
    BY <2>2 DEF ParseEntries, Checked, Throw, Errors
  <2>3. CASE PrecheckOrder
    BY <2>3 DEF PrecheckOrder, Checked, Throw, Errors, Misplaced
  <2>4. CASE PrecheckEntries
    BY <2>4 DEF PrecheckEntries, Checked, Throw, Errors, Covered
  <2>5. CASE Duplicates
    BY <2>5 DEF Duplicates, Throw, Errors
  <2>6. QED
    BY <2>1, <2>2, <2>3, <2>4, <2>5
<1>2. outcome = "running"
  BY <1>1 DEF TreeInv, Stage
<1>3. Stage' /\ outcome' # "ok"
  BY <1>1, <1>2 DEF Stage, Errors
<1>4. Prefixes' /\ ~InLoop'
  BY <1>1 DEF TreeInv, Prefixes, loop, InLoop
<1>5. QED
  BY <1>3, <1>4 DEF TreeInv, FoldsTheTree

\* A proof without a loop has no node, or only one.
LEMMA CollectKeepsTree ==
  ASSUME ConstructorInv, ConstructorInv', TreeInv, Empty \/ Single \/ Start
  PROVE  TreeInv'
<1>1. /\ Document /\ WellFormedProof /\ WellFormedEntries /\ OrderedProof /\ UncoveredEntries
      /\ DistinctEntries /\ pc = "collect" /\ UNCHANGED document
  BY DEF ConstructorInv, Checks, Empty, Single, Start, Throw, Return
<1>2. IsCut(given) /\ IsFiniteSet(given) /\ given' = given
  BY <1>1, GivenIsCut, GivenIsFinite, SameDocument
<1>3. Nodes(given) /\ <<>> \in PathsUpTo(Width)
      /\ \A x, y \in given : x.path = y.path => x = y
  <2>1. Nodes(given) /\ \A x, y \in given : x.path = y.path => x = y
    BY <1>2, Compared DEF IsCut, Separate
  <2>2. QED
    BY <2>1, AtTop
<1>4. CASE Empty
  <2>1. given = {} /\ pc' = "done" /\ outcome' = "ok" /\ merkleRoot' = MapHash(ZeroHash)
        /\ UNCHANGED loop
    BY <1>4 DEF Empty, Return
  <2>2. Tree(given)[<<>>] = {}
    BY <1>3, <2>1, TreeEmpty
  <2>3. FoldsTheTree'
    BY <1>2, <2>1, <2>2, Roots DEF FoldsTheTree
  <2>4. QED
    BY <2>1, <2>3 DEF TreeInv, Stage, Prefixes, loop, InLoop
<1>5. CASE Single
  <2>1. PICK x \in given : /\ given = {x}
                           /\ \/ Len(x.path) # Width /\ Throw("nonTerminalNode")
                              \/ Len(x.path) = Width /\ Return(Isolated(x))
    BY <1>5 DEF Single
  <2>2. CASE Len(x.path) # Width /\ Throw("nonTerminalNode")
    BY <2>2 DEF Throw, TreeInv, Stage, Prefixes, loop, InLoop, FoldsTheTree, Errors
  <2>3. CASE Len(x.path) = Width /\ Return(Isolated(x))
    <3>1. x.path \in PathsUpTo(Width) /\ x \in Tree(given)[x.path] /\ PrefixOf(<<>>, x.path)
          /\ PrefixOf(x.path, x.path)
      BY <1>2, <1>3, GivenInTree, AtTop, PrefixTrans
    <3>2. Tree(given)[<<>>] = Tree(given)[x.path]
      BY <1>3, <2>1, <3>1, TreeBelow
    <3>3. Tree(given)[<<>>] = {x}
      BY <1>3, <3>1, <3>2, TreeUnique
    <3>4. FoldsTheTree'
      BY <1>2, <2>3, <3>3, Roots DEF FoldsTheTree, Return
    <3>5. QED
      BY <2>3, <3>4 DEF Return, TreeInv, Stage, Prefixes, loop, InLoop
  <2>4. QED
    BY <2>1, <2>2, <2>3
<1>6. CASE Start
  <2>1. pc' = "next" /\ outcome' = outcome /\ newPrefix' = newPrefix
    BY <1>6 DEF Start
  <2>2. Folded'
    BY <1>2, <1>6, StartFolds
  <2>3. lastPrefix' \in PathsUpTo(Width - 1)
    <3>1. PICK x, y \in given : /\ IsLeast(x, given) /\ IsLeast(y, given \ {x})
                                /\ lastPrefix' = CommonPrefix(x.path, y.path)
      BY <1>6 DEF Start
    <3>2. Left(x.path, y.path)
      <4>1. y \in given /\ y # x
        BY <3>1 DEF IsLeast
      <4>2. QED
        BY <1>2, <3>1, <4>1, LeastIsLeft DEF IsCut
    <3>3. QED
      BY <1>3, <3>1, <3>2, PrefixShort DEF Nodes
  <2>4. outcome' # "ok" /\ Stage'
    BY <1>1, <2>1 DEF TreeInv, Stage
  <2>5. QED
    BY <2>1, <2>2, <2>3, <2>4 DEF TreeInv, Prefixes, FoldsTheTree
<1>7. QED
  BY <1>4, <1>5, <1>6

\* The loop folds the tree from the left to the right, and ends at its top.
LEMMA LoopKeepsTree ==
  ASSUME ConstructorInv, ConstructorInv', TreeInv,
         NextEntry \/ FoldMore \/ Push \/ FoldLast \/ Finish
  PROVE  TreeInv'
<1>1. pc \in {"next", "fold"} /\ UNCHANGED document
  BY DEF NextEntry, FoldMore, Push, FoldLast, Finish, Return
<1>2. /\ Document /\ WellFormedProof /\ WellFormedEntries /\ OrderedProof /\ UncoveredEntries
      /\ DistinctEntries
  BY <1>1 DEF ConstructorInv, Checks
<1>3. IsCut(given) /\ IsFiniteSet(given) /\ given' = given
  BY <1>1, <1>2, GivenIsCut, GivenIsFinite, SameDocument
<1>4. Shape /\ Separate(rest) /\ Beyond /\ Folded /\ Prefixes /\ outcome = "running"
  BY <1>1 DEF ConstructorInv, LoopInv, InLoop, TreeInv, Stage
<1>5. \A x \in given : x.path \in PathsUpTo(Width)
  BY <1>3 DEF IsCut, Nodes
<1>6. CASE NextEntry
  <2>1. PICK x \in rest : newPrefix' = CommonPrefix(x.path, Top.path)
    BY <1>6 DEF NextEntry
  <2>2. /\ pc' = "fold" /\ outcome' = outcome /\ contour' = contour /\ rest' = rest
        /\ lastPrefix' = lastPrefix
    BY <1>6 DEF NextEntry
  <2>3. newPrefix' \in PathsUpTo(Width - 1)
    <3>1. PICK n \in Nat : n = Len(contour) /\ n \in 1..n
      BY <1>4 DEF Shape
    <3>2. Top.path \in PathsUpTo(Width) /\ Left(Top.path, x.path)
      BY <1>4, <3>1 DEF Folded, Beyond, Top
    <3>3. x.path \in PathsUpTo(Width)
      BY <1>4, <1>5 DEF Folded
    <3>4. QED
      BY <2>1, <3>2, <3>3, PrefixShort
  <2>4. Folded'
    BY <1>3, <1>4, <2>2 DEF Folded
  <2>5. QED
    BY <1>4, <2>2, <2>3, <2>4 DEF TreeInv, Stage, Prefixes, FoldsTheTree
<1>7. CASE Push
  <2>1. pc' = "next" /\ outcome' = outcome /\ lastPrefix' = newPrefix /\ newPrefix' = newPrefix
    BY <1>7 DEF Push
  <2>2. Folded'
    BY <1>3, <1>4, <1>7, PushFolds
  <2>3. QED
    BY <1>4, <2>1, <2>2 DEF TreeInv, Stage, Prefixes, FoldsTheTree
<1>8. CASE FoldMore \/ FoldLast
  <2>1. /\ pc' = pc /\ outcome' = outcome /\ newPrefix' = newPrefix /\ rest' = rest
        /\ Len(contour) > 1 /\ Fold
    BY <1>8 DEF FoldMore, FoldLast, MustFold
  <2>2. Shape' /\ Beyond'
    BY <1>1, <2>1 DEF ConstructorInv, LoopInv, InLoop
  <2>3. Folded'
    BY <1>3, <1>4, <2>1, <2>2, FoldFolds
  <2>4. lastPrefix' \in PathsUpTo(Width - 1)
    <3>1. PICK n \in Nat : n = Len(contour) /\ n > 1
      BY <1>4, <2>1 DEF Shape
    <3>2. CASE n > 2
      <4>1. Len(contour') = n - 1
        BY <1>4, <2>1, <3>1, FoldKeepsShape
      <4>2. PICK p, q : p = contour'[n - 2].path /\ q = contour'[n - 1].path
        OBVIOUS
      <4>3. Left(p, q) /\ lastPrefix' = CommonPrefix(p, q)
        <5>1. n - 2 \in 1..((n - 1) - 1) /\ (n - 2) + 1 = n - 1 /\ (n - 1) - 1 = n - 2 /\ n - 1 > 1
          BY <3>1, <3>2
        <5>2. QED
          BY <2>2, <4>1, <4>2, <5>1 DEF Shape
      <4>4. p \in PathsUpTo(Width) /\ q \in PathsUpTo(Width)
        <5>1. n - 2 \in 1..(n - 1) /\ n - 1 \in 1..(n - 1)
          BY <3>1, <3>2
        <5>2. QED
          BY <2>3, <4>1, <4>2, <5>1 DEF Folded
      <4>5. QED
        BY <4>3, <4>4, PrefixShort
    <3>3. CASE ~(n > 2)
      <4>1. lastPrefix' = lastPrefix
        BY <2>1, <3>1, <3>3 DEF Fold, FoldedPrefix
      <4>2. QED
        BY <1>4, <4>1 DEF Prefixes
    <3>4. QED
      BY <3>2, <3>3
  <2>5. QED
    BY <1>4, <2>1, <2>3, <2>4 DEF TreeInv, Stage, Prefixes, FoldsTheTree
<1>9. CASE Finish
  <2>1. /\ rest = {} /\ Len(contour) = 1 /\ merkleRoot' = MapHash(contour[1].hash)
        /\ pc' = "done" /\ outcome' = "ok" /\ UNCHANGED loop
    BY <1>9 DEF Finish, Return
  <2>2. PICK c : c = contour[1]
    OBVIOUS
  <2>3. 1 \in 1..1 /\ \A i \in 1..1 : i = 1
    OBVIOUS
  <2>4. /\ c.path \in PathsUpTo(Width) /\ c \in Tree(given)[c.path] /\ Len(c.path) # Width
        /\ \A z \in given : PrefixOf(c.path, z.path)
    BY <1>4, <2>1, <2>2, <2>3 DEF Folded
  <2>5. Nodes(given) /\ \A x, y \in given : x.path = y.path => x = y
    BY <1>3, Compared DEF IsCut, Separate
  <2>6. <<>> \in PathsUpTo(Width) /\ PrefixOf(<<>>, c.path)
    <3>1. 0 <= Len(c.path)
      BY <2>4, InTree
    <3>2. QED
      BY <2>5, <3>1, AtTop
  <2>7. Tree(given)[<<>>] = Tree(given)[c.path]
    BY <2>4, <2>5, <2>6, TreeBelow
  <2>8. Tree(given)[<<>>] = {c}
    BY <2>4, <2>5, <2>6, <2>7, TreeUnique
  <2>9. FoldsTheTree'
    BY <1>3, <2>1, <2>2, <2>4, <2>8, Roots DEF FoldsTheTree
  <2>10. QED
    BY <1>4, <2>1, <2>9 DEF TreeInv, Stage, Prefixes, InLoop, loop
<1>10. QED
  BY <1>6, <1>7, <1>8, <1>9

\* The constructor begins with the empty paths and no contour.
Fresh ==
  /\ Document
  /\ pc = "parseProof" /\ outcome = "running"
  /\ lastPrefix = <<>> /\ newPrefix = <<>>

\* There is nothing to show then.
LEMMA FreshHolds == Fresh => ConstructorInv /\ TreeInv
<1>1. SUFFICES ASSUME Fresh PROVE ConstructorInv /\ TreeInv
  OBVIOUS
<1>2. ConstructorInv
  BY <1>1 DEF Fresh, ConstructorInv, Checks, LoopInv, InLoop
<1>3. <<>> \in PathsUpTo(Width - 1)
  <2>1. Width - 1 \in Nat /\ 0 <= Width - 1
    BY WidthAssumption
  <2>2. <<>> \in Seq(Bit) /\ Len(<<>>) = 0
    OBVIOUS
  <2>3. QED
    BY <2>1, <2>2, Lengths
<1>4. TreeInv
  BY <1>1, <1>3 DEF Fresh, TreeInv, Stage, Prefixes, InLoop, FoldsTheTree
<1>5. QED
  BY <1>2, <1>4

\* The inductive invariant of the constructor.
Inv == ConstructorInv /\ TreeInv /\ IsTable(map)

\* The constructor begins with it.
LEMMA InitHasInv == Init => Inv
<1>1. SUFFICES ASSUME Init PROVE Inv
  OBVIOUS
<1>2. IsTable(map) /\ Fresh
  BY <1>1, InitHolds, ScenarioAssumption DEF Init, Fresh, ConstructorInv, Checks
<1>3. QED
  BY <1>2, FreshHolds DEF Inv

\* No step of the constructor changes the document or the map.
LEMMA SameMap == [Next]_vars => UNCHANGED document
<1>1. ParseProof \/ ParseEntries \/ PrecheckOrder \/ PrecheckEntries => UNCHANGED document
  BY DEF ParseProof, ParseEntries, PrecheckOrder, PrecheckEntries, Checked, Throw
<1>2. Duplicates \/ Empty \/ Single \/ Start => UNCHANGED document
  BY DEF Duplicates, Empty, Single, Start, Throw, Return
<1>3. NextEntry \/ FoldMore \/ Push \/ FoldLast \/ Finish => UNCHANGED document
  BY DEF NextEntry, FoldMore, Push, FoldLast, Finish, Return
<1>4. QED
  BY <1>1, <1>2, <1>3 DEF Next, vars

\* Every step keeps it.
LEMMA NextHasInv == Inv /\ [Next]_vars => Inv'
<1>1. SUFFICES ASSUME Inv, [Next]_vars PROVE Inv'
  OBVIOUS
<1>2. /\ ConstructorInv /\ TreeInv /\ IsTable(map)
      /\ ConstructorInv' /\ UNCHANGED document
  BY <1>1, NextHolds, SameMap DEF Inv
<1>3. TreeInv'
  <2>1. CASE ParseProof \/ ParseEntries \/ PrecheckOrder \/ PrecheckEntries \/ Duplicates
    BY <1>2, <2>1, CheckKeepsTree
  <2>2. CASE Empty \/ Single \/ Start
    BY <1>2, <2>2, CollectKeepsTree
  <2>3. CASE NextEntry \/ FoldMore \/ Push \/ FoldLast \/ Finish
    BY <1>2, <2>3, LoopKeepsTree
  <2>4. CASE UNCHANGED vars
    <3>1. /\ UNCHANGED <<pc, rest, contour, lastPrefix, newPrefix, merkleRoot, outcome>>
          /\ given' = given
      BY <1>2, <2>4, SameDocument DEF vars, loop
    <3>2. QED
      BY <1>2, <3>1 DEF TreeInv, Stage, Prefixes, InLoop, Folded, FoldsTheTree
  <2>5. QED
    BY <1>1, <2>1, <2>2, <2>3, <2>4 DEF Next
<1>4. map' = map
  BY <1>2 DEF document
<1>5. IsTable(map)'
  BY <1>2, <1>4
<1>6. QED
  BY <1>2, <1>3, <1>5 DEF Inv

\* The invariant holds in every reachable state.
LEMMA InvHolds == Spec => []Inv
  BY InitHasInv, NextHasInv, PTL DEF Spec

-----------------------------------------------------------------------------
(* What a proof shows.                                                     *)

\* The leaves of a map.
LEMMA LeavesAreMap ==
  ASSUME NEW m, IsTable(m)
  PROVE  IsMap(Leaves(m))
<1>1. ASSUME NEW x \in Leaves(m)
      PROVE  \E k \in DOMAIN m : x = [path |-> PathOf[k], hash |-> Blob(m[k])]
  BY <1>1 DEF Leaves
<1>2. ASSUME NEW x \in Leaves(m)
      PROVE  /\ x.path \in PathsUpTo(Width) /\ Len(x.path) = Width
             /\ \E v : x.hash = Blob(v)
  <2>1. PICK k \in DOMAIN m : x = [path |-> PathOf[k], hash |-> Blob(m[k])]
    BY <1>1, <1>2
  <2>2. x.path = PathOf[k] /\ x.hash = Blob(m[k])
    BY <2>1
  <2>3. PathOf[k] \in [1..Width -> Bit]
    BY KeyAssumption DEF IsTable
  <2>4. PathOf[k] \in Seq(Bit) /\ Len(PathOf[k]) = Width /\ Width \in 0..Width
    BY <2>3, WidthAssumption
  <2>5. QED
    BY <2>2, <2>4, InTree
<1>3. ASSUME NEW x \in Leaves(m), NEW y \in Leaves(m), x.path = y.path
      PROVE  x = y
  <2>1. PICK k \in DOMAIN m : x = [path |-> PathOf[k], hash |-> Blob(m[k])]
    BY <1>1
  <2>2. PICK l \in DOMAIN m : y = [path |-> PathOf[l], hash |-> Blob(m[l])]
    BY <1>1
  <2>3. PathOf[k] = PathOf[l]
    BY <1>3, <2>1, <2>2
  <2>4. k = l
    BY <2>3 DEF IsTable
  <2>5. QED
    BY <2>1, <2>2, <2>4
<1>4. QED
  BY <1>2, <1>3 DEF IsMap, Nodes

\* An entry of the document has a leaf of the map at its path and with its hash,
\* as no branch has the hash of a value.
LEMMA ShownIsLeaf ==
  ASSUME NEW M, IsMap(M), \A x \in M : x = [path |-> x.path, hash |-> x.hash],
         NEW p, NEW v, Has(M, [path |-> p, hash |-> Blob(v)])
  PROVE  [path |-> p, hash |-> Blob(v)] \in M
<1>1. PICK t \in Tree(M)[p] : t.path = p /\ t.hash = Blob(v) /\ p \in PathsUpTo(Width)
  BY DEF Has
<1>2. NodeOf(M, p, t)
  BY <1>1, TreeNodes DEF IsMap
<1>3. ~BranchIn(M, t)
  <2>1. ASSUME NEW l, NEW r, t = [path |-> t.path, hash |-> Branch(l, r)] PROVE FALSE
    <3>1. t.hash = Branch(l, r)
      BY <2>1
    <3>2. QED
      BY <1>1, <3>1, Hashes
  <2>2. QED
    BY <2>1 DEF BranchIn
<1>4. t \in M
  BY <1>2, <1>3 DEF NodeOf
<1>5. QED
  BY <1>1, <1>4

\* A document that the constructor accepts with the root hash of the map.
LEMMA SoundFollows == Inv => Sound
<1>1. SUFFICES ASSUME Inv, outcome = "ok", merkleRoot = TrustedRoot,
                      NEW e \in Members(entries)
               PROVE  Genuine(e)
  BY DEF Sound
<1>2. ConstructorInv /\ TreeInv /\ IsTable(map)
  BY <1>1 DEF Inv
<1>3. Acceptable
  BY <1>1, <1>2 DEF ConstructorInv, Checks, TreeInv, Stage
<1>4. Document
  BY <1>2 DEF ConstructorInv, Checks
<1>5. PICK M : M = Leaves(map)
  OBVIOUS
<1>6. IsMap(M) /\ \A x \in M : x = [path |-> x.path, hash |-> x.hash]
  <2>1. \A x \in M : x = [path |-> x.path, hash |-> x.hash]
    BY <1>5 DEF Leaves
  <2>2. QED
    BY <1>2, <1>5, <2>1, LeavesAreMap
<1>7. IsCut(given) /\ \A x \in given : given = {x} => Len(x.path) = Width
  BY <1>3, <1>4, GivenIsCut DEF Acceptable, NoBranchAlone
<1>8. RootOf(Tree(given)[<<>>]) = RootOf(Tree(M)[<<>>])
  BY <1>1, <1>2, <1>5 DEF TreeInv, FoldsTheTree, TrustedRoot
<1>9. /\ \A z \in given : Has(M, z)
      /\ \A y \in M : \E z \in given : PrefixOf(z.path, y.path)
  BY <1>6, <1>7, <1>8, RootBacks
<1>10. PICK j \in DOMAIN entries : e = entries[j]
  BY <1>1 DEF Members
<1>11. CASE e.missing = none
  <2>1. [path |-> EntryPath(e), hash |-> Blob(e.value)] \in given
    BY <1>1, <1>11 DEF given
  <2>2. [path |-> EntryPath(e), hash |-> Blob(e.value)] \in M
    BY <1>6, <1>9, <2>1, ShownIsLeaf
  <2>3. QED
    BY <1>5, <1>11, <2>2 DEF Genuine
<1>12. CASE e.missing # none
  <2>1. SUFFICES ASSUME NEW y \in M, y.path = EntryPath(e) PROVE FALSE
    BY <1>5, <1>12 DEF Genuine
  <2>2. PICK z \in given : PrefixOf(z.path, EntryPath(e))
    BY <1>9, <2>1
  <2>3. CASE z \in Members(proof)
    BY <1>3, <1>10, <2>2, <2>3 DEF Acceptable, UncoveredEntries, Members
  <2>4. CASE z \notin Members(proof)
    <3>1. PICK x \in Members(entries) : /\ x.missing = none
                                        /\ z = [path |-> EntryPath(x), hash |-> Blob(x.value)]
      BY <2>4 DEF given
    <3>2. PICK i \in DOMAIN entries : x = entries[i]
      BY DEF Members
    <3>3. z.path = EntryPath(x) /\ i # j
      BY <1>10, <1>12, <3>1, <3>2
    <3>4. PICK p \in Seq(Bit), q \in Seq(Bit) : /\ p = EntryPath(x) /\ q = EntryPath(e)
                                                /\ Len(p) = Width /\ Len(q) = Width
      BY <1>3, <1>4, <1>10, <3>2, EntryPaths DEF Acceptable
    <3>5. PrefixOf(p, q)
      BY <2>2, <3>3, <3>4
    <3>6. PrefixOf(q, p)
      BY <3>4, <3>5 DEF PrefixOf
    <3>7. p = q
      BY <3>5, <3>6, Compared
    <3>8. QED
      BY <1>3, <1>10, <3>2, <3>3, <3>4, <3>7 DEF Acceptable, DistinctEntries
  <2>5. QED
    BY <2>3, <2>4
<1>13. QED
  BY <1>11, <1>12

\* A document whose nodes and entries are those of the map's tree, down to all of
\* its keys.
LEMMA HonestFollows == Inv => HonestAccepted
<1>1. SUFFICES ASSUME Inv, outcome = "ok", Honest,
                      \A x \in Leaves(map) : \E y \in given : PrefixOf(y.path, x.path)
               PROVE  merkleRoot = TrustedRoot
  BY DEF HonestAccepted
<1>2. ConstructorInv /\ TreeInv /\ IsTable(map)
  BY <1>1 DEF Inv
<1>3. Acceptable /\ Document
  BY <1>1, <1>2 DEF ConstructorInv, Checks, TreeInv, Stage
<1>4. PICK M : M = Leaves(map)
  OBVIOUS
<1>5. IsCut(given) /\ IsMap(M)
  BY <1>2, <1>3, <1>4, GivenIsCut, LeavesAreMap DEF Acceptable
<1>6. ASSUME NEW z \in given PROVE Has(M, z)
  <2>1. z.path \in PathsUpTo(Width)
    BY <1>5 DEF IsCut, Nodes
  <2>2. CASE z \in Members(proof)
    <3>1. PICK t \in Tree(M)[z.path] : t.path = z.path /\ t.hash = z.hash
      BY <1>1, <1>4, <2>2 DEF Honest, HashAt
    <3>2. QED
      BY <2>1, <3>1 DEF Has
  <2>3. CASE z \notin Members(proof)
    <3>1. PICK e \in Members(entries) : /\ e.missing = none
                                        /\ z = [path |-> EntryPath(e), hash |-> Blob(e.value)]
      BY <2>3 DEF given
    <3>2. z \in M
      BY <1>1, <1>4, <3>1 DEF Honest, Genuine
    <3>3. PICK p : p = z.path
      OBVIOUS
    <3>4. z \in Tree(M)[p]
      BY <2>1, <3>2, <3>3, TreeGiven
    <3>5. QED
      BY <2>1, <3>3, <3>4 DEF Has
  <2>4. QED
    BY <2>2, <2>3
<1>7. RootOf(Tree(given)[<<>>]) = RootOf(Tree(M)[<<>>])
  BY <1>1, <1>4, <1>5, <1>6, RightNodes
<1>8. QED
  BY <1>1, <1>2, <1>4, <1>7 DEF TreeInv, FoldsTheTree, TrustedRoot

\* The contour never outgrows the document.
LEMMA TypeFollows == Inv => TypeOK
<1>1. SUFFICES ASSUME Inv PROVE TypeOK
  OBVIOUS
<1>2. Document /\ Stage /\ Prefixes /\ (InLoop => Shape) /\ (InLoop => Folded)
  BY <1>1 DEF Inv, ConstructorInv, Checks, LoopInv, TreeInv
<1>3. ASSUME InLoop
      PROVE  /\ Len(contour) \in 1..(Len(proof) + Len(entries))
             /\ \A i \in DOMAIN contour : contour[i].path \in PathsUpTo(Width)
             /\ rest \subseteq given
  <2>1. PICK S : contour \in Seq(S) /\ Len(contour) > 0
    BY <1>2, <1>3 DEF Shape
  <2>2. PICK n \in Nat : n = Len(contour) /\ DOMAIN contour = 1..n /\ n > 0
    BY <2>1
  <2>3. /\ rest \subseteq given /\ n + Cardinality(rest) <= Cardinality(given)
        /\ \A i \in 1..n : contour[i].path \in PathsUpTo(Width)
    BY <1>2, <1>3, <2>2 DEF Folded
  <2>4. IsFiniteSet(given) /\ Cardinality(given) <= Len(proof) + Len(entries)
    BY <1>2, GivenIsFinite
  <2>5. Cardinality(rest) \in Nat /\ Cardinality(given) \in Nat
    BY <2>3, <2>4, FS_Subset, FS_CardinalityType
  <2>6. PICK m \in Nat : m = Len(proof) + Len(entries)
    BY <1>2, Fields
  <2>7. n <= m
    BY <2>3, <2>4, <2>5, <2>6
  <2>8. QED
    BY <2>2, <2>3, <2>6, <2>7
<1>4. QED
  BY <1>2, <1>3 DEF TypeOK, Stage, Prefixes

-----------------------------------------------------------------------------
(* The program that reads an entry of a table.                             *)

\* The inductive invariant of the program: the proof that is verified is about
\* the map of tables, or about the table asked for, whose root hash the first
\* proof showed.
ClientInv ==
  /\ Inv
  /\ phase \in {"table", "data"} =>
       /\ asked.height \in DOMAIN Chain /\ asked.table \in DOMAIN Chain[asked.height]
       /\ asked.key \in Keys
  /\ phase = "table" => map = Tables(asked.height)
  /\ phase = "data" => /\ map = Chain[asked.height][asked.table]
                       /\ rootHash = RootHash(map)
  /\ DataIsInState

\* A step of the constructor is one of a proof that stands alone or of the
\* program's, which looks on.
LEMMA ConstructorStepKeeps ==
  ASSUME ClientInv, [Next]_vars, UNCHANGED <<asked, progress>>
  PROVE  ClientInv'
<1>1. Inv' /\ map' = map
  BY NextHasInv, SameMap DEF ClientInv, document
<1>2. UNCHANGED <<asked, phase, rootHash, answer>>
  BY DEF progress
<1>3. QED
  BY <1>1, <1>2 DEF ClientInv, DataIsInState

\* An answer is all that changes.
LEMMA AnswerKeeps ==
  ASSUME ClientInv, NEW st, NEW v, Answer(st, v),
         st = "found" => [path |-> PathOf[asked.key], hash |-> Blob(v)]
                           \in Leaves(Chain[asked.height][asked.table]),
         st = "absent" => PathOf[asked.key]
                           \notin {x.path : x \in Leaves(Chain[asked.height][asked.table])}
  PROVE  ClientInv'
<1>1. UNCHANGED vars /\ asked' = asked /\ phase' = none
      /\ answer' = [status |-> st, value |-> v]
  BY DEF Answer
<1>2. Inv'
  BY <1>1, NextHasInv DEF ClientInv
<1>3. answer'.status = st /\ answer'.value = v
  BY <1>1
<1>4. DataIsInState'
  BY <1>1, <1>3 DEF DataIsInState
<1>5. phase' \notin {"table", "data"}
  BY <1>1, ChainAssumption
<1>6. QED
  BY <1>2, <1>4, <1>5 DEF ClientInv

\* A proof that the program trusts is one with the root hash of its map.
LEMMA Trusted ==
  ASSUME ClientInv
  PROVE  /\ TableTrusted \/ DataTrusted => \A e \in Members(entries) : Genuine(e)
         /\ TableTrusted => map = Tables(asked.height)
         /\ DataTrusted => map = Chain[asked.height][asked.table]
<1>1. Sound
  BY SoundFollows DEF ClientInv
<1>2. TrustedRoot = RootHash(map)
  BY DEF TrustedRoot, RootHash
<1>3. TableTrusted => map = Tables(asked.height) /\ outcome = "ok" /\ merkleRoot = TrustedRoot
  BY <1>2 DEF ClientInv, TableTrusted, Constructed
<1>4. DataTrusted => /\ map = Chain[asked.height][asked.table]
                     /\ outcome = "ok" /\ merkleRoot = TrustedRoot
  BY <1>2 DEF ClientInv, DataTrusted, Constructed
<1>5. QED
  BY <1>1, <1>3, <1>4 DEF Sound

\* The root hash that the first proof shows is that of the table asked for.
LEMMA VerifyTableKeeps ==
  ASSUME ClientInv, VerifyTable
  PROVE  ClientInv'
<1>1. PICK t : t = asked.table /\ t \in DOMAIN Tables(asked.height) /\ asked.height \in DOMAIN Chain
  BY DEF ClientInv, VerifyTable, TableTrusted, Constructed, Tables
<1>2. PICK T : T = Tables(asked.height) /\ map = T /\ IsTable(T)
  BY Trusted DEF ClientInv, Inv, VerifyTable
<1>3. PICK root \in Get(t) : rootHash' = root
  BY <1>1 DEF VerifyTable
<1>4. PICK e \in Members(entries) : e.missing = none /\ e.key = t /\ e.value = root
  BY <1>3 DEF Get
<1>5. [path |-> PathOf[t], hash |-> Blob(root)] \in Leaves(T)
  BY <1>2, <1>4, Trusted DEF Genuine, EntryPath, VerifyTable
<1>6. PICK k \in DOMAIN T : [path |-> PathOf[t], hash |-> Blob(root)]
                             = [path |-> PathOf[k], hash |-> Blob(T[k])]
  BY <1>5 DEF Leaves
<1>7. PathOf[t] = PathOf[k] /\ Blob(root) = Blob(T[k])
  BY <1>6
<1>8. k = t /\ root = T[k]
  BY <1>1, <1>2, <1>7 DEF IsTable, Blob
<1>9. rootHash' = RootHash(Chain[asked.height][t])
  BY <1>1, <1>2, <1>3, <1>8 DEF Tables
<1>10. /\ asked' = asked /\ answer' = answer /\ phase' = "data"
       /\ map' = Chain[asked.height][t]
  BY <1>1 DEF VerifyTable, AskData
<1>11. Inv'
  <2>1. IsTable(map')
    BY <1>1, <1>10, ChainAssumption DEF Tables
  <2>2. Document'
    BY ChainAssumption DEF VerifyTable, AskData, Document
  <2>3. Fresh'
    BY <2>2 DEF VerifyTable, AskData, Fresh
  <2>4. (ConstructorInv /\ TreeInv)'
    BY <2>3, FreshHolds, PTL
  <2>5. QED
    BY <2>1, <2>4 DEF Inv
<1>12. QED
  BY <1>1, <1>9, <1>10, <1>11 DEF ClientInv, DataIsInState, VerifyTable, TableTrusted, Constructed

\* Every step of the program and of the two constructors keeps it.
LEMMA ClientNextHolds == ClientInv /\ [ClientNext]_clientVars => ClientInv'
<1>1. SUFFICES ASSUME ClientInv, [ClientNext]_clientVars PROVE ClientInv'
  OBVIOUS
<1>2. CASE Next /\ UNCHANGED <<asked, progress>>
  BY <1>1, <1>2, ConstructorStepKeeps
<1>3. CASE VerifyTable
  BY <1>1, <1>3, VerifyTableKeeps
<1>4. CASE ProofThrows \/ TableCorrupted \/ TableNotFound \/ DataMismatch \/ EntryNotInProof
  <2>1. PICK st, v : Answer(st, v) /\ st \notin {"found", "absent"}
    BY <1>4 DEF ProofThrows, TableCorrupted, TableNotFound, DataMismatch, EntryNotInProof, Errors
  <2>2. QED
    BY <1>1, <2>1, AnswerKeeps
<1>5. CASE EntryFound
  <2>1. PICK v \in Get(asked.key) : DataTrusted /\ Answer("found", v)
    BY <1>5 DEF EntryFound
  <2>2. PICK e \in Members(entries) : e.missing = none /\ e.key = asked.key /\ e.value = v
    BY <2>1 DEF Get
  <2>3. [path |-> PathOf[asked.key], hash |-> Blob(v)]
          \in Leaves(Chain[asked.height][asked.table])
    BY <1>1, <2>1, <2>2, Trusted DEF Genuine, EntryPath
  <2>4. QED
    BY <1>1, <2>1, <2>3, AnswerKeeps
<1>6. CASE EntryAbsent
  <2>1. PICK e \in Members(entries) : e.missing = asked.key /\ DataTrusted
    BY <1>6 DEF EntryAbsent, IsMissing
  <2>2. e.missing # none
    BY <1>1, <2>1, KeyAssumption DEF ClientInv, DataTrusted, Constructed
  <2>3. PathOf[asked.key] \notin {x.path : x \in Leaves(Chain[asked.height][asked.table])}
    BY <1>1, <2>1, <2>2, Trusted DEF Genuine, EntryPath
  <2>4. QED
    BY <1>1, <1>6, <2>3, AnswerKeeps DEF EntryAbsent
<1>7. CASE UNCHANGED clientVars
  <2>1. UNCHANGED vars /\ UNCHANGED <<asked, progress>>
    BY <1>7 DEF clientVars
  <2>2. QED
    BY <1>1, <2>1, ConstructorStepKeeps
<1>8. QED
  BY <1>1, <1>2, <1>3, <1>4, <1>5, <1>6, <1>7 DEF ClientNext

\* A proof stands alone, or the program waits for the answer about a table.
LEMMA ClientInitHolds == ClientInit => ClientInv
<1>1. CASE StandAlone
  <2>1. Inv /\ phase \notin {"table", "data"} /\ answer = none
    BY <1>1, InitHasInv, ChainAssumption DEF StandAlone
  <2>2. QED
    BY <2>1 DEF ClientInv, DataIsInState
<1>2. CASE AskTable
  <2>1. PICK h \in DOMAIN Chain : \E t \in DOMAIN Chain[h], k \in Keys \ DOMAIN Chain[h] :
          asked = [height |-> h, table |-> t, key |-> k]
    BY <1>2 DEF AskTable
  <2>2. PICK t \in DOMAIN Chain[h], k \in Keys \ DOMAIN Chain[h] :
          asked = [height |-> h, table |-> t, key |-> k]
    BY <2>1
  <2>3. asked.height = h /\ asked.table = t /\ asked.key = k
    BY <2>2
  <2>4. map = Tables(asked.height) /\ phase = "table" /\ answer = none
    BY <1>2 DEF AskTable
  <2>5. Fresh
    <3>1. Document
      BY <1>2, ChainAssumption DEF AskTable, Document
    <3>2. QED
      BY <1>2, <3>1 DEF AskTable, Fresh
  <2>6. IsTable(map)
    BY <2>1, <2>3, <2>4, ChainAssumption
  <2>7. QED
    BY <2>1, <2>2, <2>3, <2>4, <2>5, <2>6, FreshHolds DEF ClientInv, Inv, DataIsInState
<1>3. QED
  BY <1>1, <1>2 DEF ClientInit

-----------------------------------------------------------------------------
(* The theorems.                                                           *)

\* The constructor is where it can be, its contour has no more nodes than the
\* document, and none below those of keys.
THEOREM TypeHolds == Spec => []TypeOK
  BY InvHolds, TypeFollows, PTL

\* Folding along the contour yields the root hash of the tree above the nodes of
\* the document, as it is defined from the top.
THEOREM FoldsHolds == Spec => []FoldsTheTree
<1>1. Inv => FoldsTheTree
  BY DEF Inv, TreeInv
<1>2. QED
  BY <1>1, InvHolds, PTL

\* A proof with the root hash of the node's map shows only entries of the map,
\* and only keys as missing that it does not have.
THEOREM SoundHolds == Spec => []Sound
  BY InvHolds, SoundFollows, PTL

\* The other way round, a proof whose nodes and entries are those of the map's
\* tree, down to all of its keys, has its root hash.
THEOREM HonestHolds == Spec => []HonestAccepted
  BY InvHolds, HonestFollows, PTL

\* What the program gets is in the table it asked for, at the height of the block
\* it trusts; and so is the absence of a key.
THEOREM DataIsInStateHolds == ClientSpec => []DataIsInState
<1>1. ClientInv => DataIsInState
  BY DEF ClientInv
<1>2. QED
  BY <1>1, ClientInitHolds, ClientNextHolds, PTL DEF ClientSpec

\* Every document that the program lets through the constructor is verified as a
\* proof that stands alone is.
THEOREM ClientProofsSound == ClientSpec => [](TypeOK /\ FoldsTheTree /\ Sound)
<1>1. ClientInv => TypeOK /\ FoldsTheTree /\ Sound
  BY TypeFollows, SoundFollows DEF ClientInv, Inv, TreeInv
<1>2. QED
  BY <1>1, ClientInitHolds, ClientNextHolds, PTL DEF ClientSpec
=============================================================================
