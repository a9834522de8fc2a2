------------------------------ MODULE MapProof ------------------------------
(***************************************************************************)
(* Verification of a proof for a map, the constructor of MapProof in       *)
(* src/src/blockchain/merkle-patricia.js: it checks the order of the       *)
(* `proof` array and that no path of it begins another path of the         *)
(* document, sorts its nodes with those of `entries` and folds them, from  *)
(* left to right, into the root hash of the map.                           *)
(*                                                                         *)
(* A step is one check of an array or one iteration of the loops of        *)
(* collect; every throw is an outcome of its own.  Paths are sequences of  *)
(* bits, for which module ProofPath vouches.  Instead of the sorted array, *)
(* `rest` has the nodes still to come, and the least of them is the next.  *)
(*                                                                         *)
(* `map` is the map the node vouches for; the code does not have it.       *)
(***************************************************************************)
EXTENDS MapTree

CONSTANTS Keys, Values,
          PathOf,     \* the path of a key: its hash, or itself if it is raw
          none,       \* a field that is undefined
          Malformed,  \* what is no hexadecimal string of a digest
          Scenarios   \* maps, and the documents verified against them

ASSUME KeyAssumption ==
  /\ PathOf \in [Keys -> [1..Width -> Bit]]
  /\ none \notin Keys /\ none \notin Values

IsArray(s) == Len(s) \in Nat /\ DOMAIN s = 1..Len(s)

Members(s) == {s[i] : i \in DOMAIN s}

\* A map has no two keys at one path.
IsTable(m) ==
  /\ DOMAIN m \subseteq Keys /\ \A k \in DOMAIN m : m[k] \in Values
  /\ \A k, l \in DOMAIN m : PathOf[k] = PathOf[l] => k = l

\* The documents have fields of their types, with paths of zeros and ones (of any
\* length) for the nodes of the proof.
IsProof(p) == IsArray(p) /\ \A x \in Members(p) : x.path \in Seq(Bit)

IsEntries(es) ==
  /\ IsArray(es)
  /\ \A e \in Members(es) : /\ e.missing \in Keys \cup {none}
                            /\ e.key \in Keys \cup {none}
                            /\ e.value \in Values \cup {none}

ASSUME ScenarioAssumption ==
  \A s \in Scenarios : /\ IsTable(s.map)
                       /\ \A p \in s.proofs : IsProof(p)
                       /\ \A es \in s.entries : IsEntries(es)

VARIABLES
  map,         \* the map of the node
  proof,       \* the document: nodes, as [path, hash]
  entries,     \*   keys with values and keys that are missing
  pc,          \* the next step of the constructor
  rest,        \* the entries of collect that have not been read yet
  contour,     \* `contour`
  lastPrefix,  \* `lastPrefix`
  newPrefix,   \* `newPrefix`
  merkleRoot,  \* the resulting hash
  outcome      \* "running", "ok" or the error thrown

document == <<map, proof, entries>>
loop == <<rest, contour, lastPrefix, newPrefix>>
vars == <<document, pc, loop, merkleRoot, outcome>>

Errors == {"malformedProof", "unknownEntryType", "ambiguousEntryType",
           "embeddedPaths", "duplicatePath", "invalidOrdering", "nonTerminalNode"}

Init ==
  /\ \E s \in Scenarios :
       /\ map = s.map
       /\ proof \in s.proofs /\ entries \in s.entries
  /\ pc = "parseProof" /\ outcome = "running"
  /\ rest = {} /\ contour = <<>> /\ lastPrefix = <<>> /\ newPrefix = <<>>
  /\ merkleRoot = MapHash(ZeroHash)

Throw(e) ==
  /\ outcome' = e /\ pc' = "done"
  /\ UNCHANGED <<document, loop, merkleRoot>>

Return(h) ==
  /\ merkleRoot' = MapHash(h)
  /\ outcome' = "ok" /\ pc' = "done"
  /\ UNCHANGED <<document, loop>>

\* A loop of checks: the first element with a fault decides.
Checked(faults, next) ==
  \/ /\ \A i \in DOMAIN faults : faults[i] = {}
     /\ pc' = next
     /\ UNCHANGED <<document, loop, merkleRoot, outcome>>
  \/ \E i \in DOMAIN faults :
       /\ \A j \in 1..(i - 1) : faults[j] = {}
       /\ \E e \in faults[i] : Throw(e)

-----------------------------------------------------------------------------
(* Parsing.                                                                *)

\* Mutated form: a path of any length.
WellFormedLoose(x) == Len(x.path) > 0 /\ x.hash \notin Malformed

WellFormed(x) == Len(x.path) \in 1..Width /\ x.hash \notin Malformed

ParseProof ==
  /\ pc = "parseProof"
  /\ Checked([i \in DOMAIN proof |-> {e \in {"malformedProof"} : ~WellFormed(proof[i])}],
             "parseEntries")

Incomplete(e) == e.missing = none /\ (e.key = none \/ e.value = none)
Ambiguous(e) == e.missing # none /\ (e.key # none \/ e.value # none)

ParseEntries ==
  /\ pc = "parseEntries"
  /\ Checked([i \in DOMAIN entries |->
                {e \in {"unknownEntryType"} : Incomplete(entries[i])}
                \cup {e \in {"ambiguousEntryType"} : Ambiguous(entries[i])}],
             "precheckOrder")

\* createPath: the path of an entry, once it is parsed.
EntryPath(e) == PathOf[IF e.missing # none THEN e.missing ELSE e.key]

-----------------------------------------------------------------------------
(* precheckProof.                                                          *)

\* What is wrong with a path p of the proof and the next one, q.
Misplaced(p, q) ==
  {e \in {"duplicatePath"} : p = q}
  \cup {e \in {"invalidOrdering"} : Before(q, p)}
  \cup {e \in {"embeddedPaths"} : Before(p, q) /\ StartsWith(q, p)}

PrecheckOrder ==
  /\ pc = "precheckOrder"
  /\ Checked([i \in 1..(Len(proof) - 1) |-> Misplaced(proof[i].path, proof[i + 1].path)],
             "precheckEntries")

\* Mutated form: the path at the place where k would be inserted.
ClosestAfter(k, p) ==
  /\ p \in {x.path : x \in Members(proof)} /\ Before(k, p)
  /\ ~\E x \in Members(proof) : Before(k, x.path) /\ Before(x.path, p)

\* The binary search finds the closest smaller path in the proof.
Closest(k, p) ==
  /\ p \in {x.path : x \in Members(proof)} /\ Before(p, k)
  /\ ~\E x \in Members(proof) : Before(p, x.path) /\ Before(x.path, k)

\* What is wrong with a path k of an entry.
Covered(k) ==
  {e \in {"duplicatePath"} : \E x \in Members(proof) : x.path = k}
  \cup {e \in {"embeddedPaths"} : /\ \A x \in Members(proof) : x.path # k
                                  /\ \E x \in Members(proof) : /\ Closest(k, x.path)
                                                               /\ StartsWith(k, x.path)}

PrecheckEntries ==
  /\ pc = "precheckEntries"
  /\ Checked([i \in DOMAIN entries |-> Covered(EntryPath(entries[i]))], "duplicates")

\* The sorted array has equal paths next to each other.
Duplicates ==
  /\ pc = "duplicates"
  /\ LET paths == [i \in DOMAIN proof |-> proof[i].path]
                  \o [i \in DOMAIN entries |-> EntryPath(entries[i])]
         repeated == \E i, j \in DOMAIN paths : i # j /\ paths[i] = paths[j]
     IN \/ repeated /\ Throw("duplicatePath")
        \/ /\ ~repeated /\ pc' = "collect"
           /\ UNCHANGED <<document, loop, merkleRoot, outcome>>

-----------------------------------------------------------------------------
(* collect.                                                                *)

\* The elements of the sorted array that have a hash: not the missing keys.
given ==
  Members(proof) \cup {[path |-> EntryPath(e), hash |-> Blob(e.value)] :
                         e \in {x \in Members(entries) : x.missing = none}}

IsLeast(x, S) == x \in S /\ \A y \in S : y = x \/ Before(x.path, y.path)

Empty == pc = "collect" /\ given = {} /\ Return(ZeroHash)

Single ==
  /\ pc = "collect"
  /\ \E x \in given :
       /\ given = {x}
       /\ \/ Len(x.path) # Width /\ Throw("nonTerminalNode")
          \/ Len(x.path) = Width /\ Return(Isolated(x))

Start ==
  /\ pc = "collect"
  /\ \E x, y \in given :
       /\ IsLeast(x, given) /\ IsLeast(y, given \ {x})
       /\ contour' = <<x, y>>
       /\ lastPrefix' = CommonPrefix(x.path, y.path)
       /\ rest' = given \ {x, y}
  /\ pc' = "next"
  /\ UNCHANGED <<document, newPrefix, merkleRoot, outcome>>

Top == contour[Len(contour)]

NextEntry ==
  /\ pc = "next"
  /\ \E x \in rest :
       IsLeast(x, rest) /\ newPrefix' = CommonPrefix(x.path, Top.path)
  /\ pc' = "fold"
  /\ UNCHANGED <<document, rest, contour, lastPrefix, merkleRoot, outcome>>

\* Mutated form: the last node is popped first and taken for the left one.
JoinedSwapped(l, r) == [path |-> lastPrefix, hash |-> Branch(r, l)]

Joined(l, r) == [path |-> lastPrefix, hash |-> Branch(l, r)]

\* Mutated form: the prefix is not computed again.
FoldedPrefixKept(n) == lastPrefix

\* The common prefix of what are the last two nodes of n after a fold.  The old
\* one is kept, and used no more, when there is only the branch left.
FoldedPrefix(n) ==
  IF n > 2 THEN CommonPrefix(lastPrefix, contour[n - 2].path) ELSE lastPrefix

\* fold: a branch replaces the last two nodes.
Fold ==
  LET n == Len(contour)
  IN /\ contour' = Append(SubSeq(contour, 1, n - 2), Joined(contour[n - 1], contour[n]))
     /\ lastPrefix' = FoldedPrefix(n)

\* Mutated form: the first two nodes are never folded.
MustFoldLate == Len(contour) > 2 /\ Len(newPrefix) < Len(lastPrefix)

MustFold == Len(contour) > 1 /\ Len(newPrefix) < Len(lastPrefix)

FoldMore ==
  /\ pc = "fold" /\ MustFold
  /\ Fold
  /\ UNCHANGED <<document, pc, rest, newPrefix, merkleRoot, outcome>>

Push ==
  /\ pc = "fold" /\ ~MustFold
  /\ \E x \in rest :
       /\ IsLeast(x, rest)
       /\ contour' = Append(contour, x) /\ rest' = rest \ {x}
  /\ lastPrefix' = newPrefix /\ pc' = "next"
  /\ UNCHANGED <<document, newPrefix, merkleRoot, outcome>>

FoldLast ==
  /\ pc = "next" /\ rest = {} /\ Len(contour) > 1
  /\ Fold
  /\ UNCHANGED <<document, pc, rest, newPrefix, merkleRoot, outcome>>

Finish == pc = "next" /\ rest = {} /\ Len(contour) = 1 /\ Return(contour[1].hash)

Next == \/ ParseProof \/ ParseEntries \/ PrecheckOrder \/ PrecheckEntries \/ Duplicates
        \/ Empty \/ Single \/ Start \/ NextEntry \/ FoldMore \/ Push \/ FoldLast \/ Finish

Spec == Init /\ [][Next]_vars

-----------------------------------------------------------------------------
(* Properties.                                                             *)

InLoop == pc \in {"next", "fold"}

\* The contour has no more nodes than the document, and none below those of keys.
TypeOK ==
  /\ pc \in {"parseProof", "parseEntries", "precheckOrder", "precheckEntries",
             "duplicates", "collect", "next", "fold", "done"}
  /\ outcome \in Errors \cup {"running", "ok"}
  /\ pc = "done" <=> outcome # "running"
  /\ lastPrefix \in PathsUpTo(Width - 1) /\ newPrefix \in PathsUpTo(Width - 1)
  /\ InLoop => /\ Len(contour) \in 1..(Len(proof) + Len(entries))
               /\ \A i \in DOMAIN contour : contour[i].path \in PathsUpTo(Width)
               /\ rest \subseteq given

PrefixOf(p, q) == Len(p) <= Len(q) /\ \A i \in DOMAIN p : p[i] = q[i]

\* Nothing but neighbours is compared, and an entry with one path of the proof,
\* but a document gets past the checks exactly when no path of it begins another
\* one, whichever two are looked at.
AcceptsPrefixFree ==
  pc = "done" =>
    (outcome = "ok" <=>
      /\ \A x \in Members(proof) : WellFormed(x)
      /\ \A e \in Members(entries) :
           e.missing = none <=> (e.key # none /\ e.value # none)
      /\ \A e \in Members(entries) : e.missing # none => e.key = none /\ e.value = none
      /\ \A i, j \in DOMAIN proof : i < j => /\ Before(proof[i].path, proof[j].path)
                                             /\ ~PrefixOf(proof[i].path, proof[j].path)
      /\ \A i, j \in DOMAIN entries :
           i # j => EntryPath(entries[i]) # EntryPath(entries[j])
      /\ \A x \in Members(proof), e \in Members(entries) : ~PrefixOf(x.path, EntryPath(e))
      /\ \A x \in given : given = {x} => Len(x.path) = Width)

\* merkle-patricia.js:261, "equal to the common prefix of the 2 last nodes in
\* the contour", and why folding from the right is enough: the common prefixes of
\* neighbours get longer along the contour, and every node to come is beyond it.
ContourInv ==
  InLoop =>
    LET n == Len(contour)
        between(i) == CommonPrefix(contour[i].path, contour[i + 1].path)
    IN /\ n > 1 => lastPrefix = between(n - 1)
       /\ \A i \in 1..(n - 2) : Len(between(i)) < Len(between(i + 1))
       /\ \A i \in 1..n, x \in rest : /\ Before(contour[i].path, x.path)
                                      /\ ~PrefixOf(contour[i].path, x.path)

\* Folding along the contour yields the root hash of the tree above the nodes
\* of the document, as it is defined from the top.
FoldsTheTree == outcome = "ok" => merkleRoot = RootOf(Tree(given)[<<>>])

Leaves(m) == {[path |-> PathOf[k], hash |-> Blob(m[k])] : k \in DOMAIN m}

\* The root hash the node vouches for.
TrustedRoot == RootOf(Tree(Leaves(map))[<<>>])

\* The map has the entry, or no entry for the missing key.
Genuine(e) ==
  IF e.missing = none THEN [path |-> EntryPath(e), hash |-> Blob(e.value)] \in Leaves(map)
                      ELSE EntryPath(e) \notin {x.path : x \in Leaves(map)}

\* A proof whose root hash is that of the node's map shows only entries of the
\* map, and only keys as missing that it does not have, whatever the other
\* paths and hashes of the document are.
Sound == outcome = "ok" /\ merkleRoot = TrustedRoot => \A e \in Members(entries) : Genuine(e)

\* The hash of the map's tree at a path, if there is a node.
HashAt(m, p) == {x.hash : x \in {y \in Tree(Leaves(m))[p] : y.path = p}}

\* Every node of the proof is one of the map's tree and every entry is right.
Honest == /\ \A x \in Members(proof) : x.hash \in HashAt(map, x.path)
          /\ \A e \in Members(entries) : Genuine(e)

\* Proofs that a node makes yield its root hash: the nodes and the
\* entries are right, and every key of the map is below one of them.
HonestAccepted ==
  outcome = "ok" /\ Honest /\ (\A x \in Leaves(map) : \E y \in given : PrefixOf(y.path, x.path))
    => merkleRoot = TrustedRoot
=============================================================================
