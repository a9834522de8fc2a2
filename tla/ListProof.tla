------------------------------ MODULE ListProof ------------------------------
(***************************************************************************)
(* Verification of a proof for a list, src/src/blockchain/merkle.js: the   *)
(* constructor of ListProof parses the `proof` and `entries` arrays of a   *)
(* document a node has sent and folds them, level by level, into the root  *)
(* hash of the list.                                                       *)
(*                                                                         *)
(* A step is one check or one level of the tree; every throw is an outcome *)
(* of its own.  Digests are symbolic: a hash is the tuple of what was      *)
(* hashed, so that equal hashes have equal preimages.  The arrays of a     *)
(* level are kept as sets of [index, hash]: they are sorted by index, so   *)
(* two neighbours of a pair are adjacent exactly when both are in the set. *)
(* LayerArrays checks that step against the loops over the arrays, and the *)
(* operators on levels are in ListTree.                                    *)
(*                                                                         *)
(* `list` is the list the node vouches for, and `ref` the level of its     *)
(* Merkle tree that `layer` claims to be part of; the code has neither.    *)
(***************************************************************************)
EXTENDS ListTree, Sequences

CONSTANTS Values,         \* values of the list
          Malformed,      \* what is no hexadecimal string of a digest
          MaxTreeHeight,  \* MAX_TREE_HEIGHT
          Pow2,           \* powers of two up to 2^MaxTreeHeight
          Scenarios       \* the lists and the documents verified against them

ASSUME HeightAssumption == MaxTreeHeight \in Nat

ASSUME PowerAssumption ==
  /\ Pow2 \in [0..MaxTreeHeight -> Nat]
  /\ Pow2[0] = 1
  /\ \A k \in 0..(MaxTreeHeight - 1) : Pow2[k + 1] = 2 * Pow2[k]

IsArray(s) == /\ Len(s) \in Nat /\ s = [i \in 1..Len(s) |-> s[i]]
              /\ \A i \in DOMAIN s : s[i].index \in Int

\* A scenario is a list and the documents verified against it: a length, and
\* the arrays of hashes and of values it may come with.  The members of the arrays
\* are of the type IEntry, with any integer for an index.
ASSUME ScenarioAssumption ==
  \A s \in Scenarios :
    /\ s.list \in Seq(Values)
    /\ s.length \in 0..Pow2[MaxTreeHeight]
    /\ \A p \in s.proofs : IsArray(p) /\ \A i \in DOMAIN p : p[i].height \in Int
    /\ \A e \in s.values : IsArray(e)

\* The code rejects an index that is too large, but not a negative one.  The
\* theorems are about documents without these.
Natural(s) == \A i \in DOMAIN s : s[i].index \in Nat
NaturalIndexes == \A s \in Scenarios : \A d \in s.proofs \cup s.values : Natural(d)

VARIABLES
  list,        \* the list of the node
  proof,       \* the document: hashes of inner nodes
  entries,     \*   values
  length,      \*   claimed length
  pc,          \* the next step of the constructor
  treeHeight,  \* `treeHeight`
  height,      \* `height`, the level of the tree to be zipped
  layer,       \* `layer`, as a set
  lastIndex,   \* `lastIndex`
  merkleRoot,  \* the resulting hash
  outcome,     \* "running", "ok" or the error thrown
  ref          \* [0..n -> hashes] the level of the tree of `list`

document == <<list, proof, entries, length>>
vars == <<list, proof, entries, length, pc, treeHeight, height, layer,
          lastIndex, merkleRoot, outcome, ref>>

Members(s) == {s[i] : i \in DOMAIN s}

Errors == {"malformedProof", "invalidProofOrdering", "invalidValuesOrdering",
           "malformedEmptyProof", "noEntries", "unexpectedHeight",
           "unexpectedIndex", "duplicateHash", "missingHash"}

Init ==
  /\ \E s \in Scenarios :
       /\ list = s.list /\ length = s.length
       /\ proof \in s.proofs /\ entries \in s.values
  /\ pc = "parseProof" /\ outcome = "running"
  /\ treeHeight = 0 /\ height = 0 /\ lastIndex = 0
  /\ layer = {} /\ merkleRoot = ZeroHash
  /\ ref = [i \in 0..(Len(list) - 1) |-> Leaf(list[i + 1])]

\* A ListProofError (or the TypeError for noEntries) leaves the constructor.
Throw(e) ==
  /\ outcome' = e /\ pc' = "done"
  /\ UNCHANGED <<document, treeHeight, height, layer, lastIndex, merkleRoot, ref>>

-----------------------------------------------------------------------------
(* Parsing.                                                                *)

WellFormed(p) == p.hash \notin Malformed /\ p.height > 0 /\ p.height <= MaxTreeHeight

Precedes(p, q) ==
  p.height < q.height \/ (p.height = q.height /\ p.index < q.index)

ParseProof ==
  /\ pc = "parseProof"
  /\ LET valid == \A p \in Members(proof) : WellFormed(p)
         sorted == \A i \in 1..(Len(proof) - 1) : Precedes(proof[i], proof[i + 1])
     IN \/ ~valid /\ Throw("malformedProof")
        \/ valid /\ ~sorted /\ Throw("invalidProofOrdering")
        \/ /\ valid /\ sorted
           /\ pc' = "parseEntries"
           /\ UNCHANGED <<document, treeHeight, height, layer, lastIndex,
                          merkleRoot, outcome, ref>>

ParseEntries ==
  /\ pc = "parseEntries"
  /\ LET sorted == \A i \in 1..(Len(entries) - 1) :
                     entries[i].index < entries[i + 1].index
     IN \/ ~sorted /\ Throw("invalidValuesOrdering")
        \/ /\ sorted
           /\ pc' = "start"
           /\ UNCHANGED <<document, treeHeight, height, layer, lastIndex,
                          merkleRoot, outcome, ref>>

-----------------------------------------------------------------------------
(* collect.                                                                *)

\* Mutated form: nothing is done about a document that is not empty.
EmptyListOnly ==
  /\ pc = "start" /\ length = 0
  /\ proof = <<>> /\ entries = <<>>
  /\ merkleRoot' = ListHash(length, ZeroHash)
  /\ outcome' = "ok" /\ pc' = "done"
  /\ UNCHANGED <<document, treeHeight, height, layer, lastIndex, ref>>

\* The hash of an empty list.
EmptyList ==
  /\ pc = "start" /\ length = 0
  /\ \/ (proof # <<>> \/ entries # <<>>) /\ Throw("malformedEmptyProof")
     \/ /\ proof = <<>> /\ entries = <<>>
        /\ merkleRoot' = ListHash(length, ZeroHash)
        /\ outcome' = "ok" /\ pc' = "done"
        /\ UNCHANGED <<document, treeHeight, height, layer, lastIndex, ref>>

\* calcHeight: the least i with 2^i >= count, and one more.
IsHeight(n, h) ==
  /\ Pow2[h - 1] >= n
  /\ \A j \in 0..(h - 2) : Pow2[j] < n

\* Mutated form: the length is taken for the greatest index.
WithinListLoose(e) == e.index <= length

\* The index exists in a list of `length` values.
WithinList(e) == e.index <= length - 1

\* Mutated form: one more than the greatest index is let through.
WithinLevelLoose(p) == p.index <= length \div Pow2[p.height - 1]

\* The index exists on its level of a tree with `length` leaves.
WithinLevel(p) == p.index <= (length - 1) \div Pow2[p.height - 1]

\* The values become the first level, if nothing is where nothing can be.
Start ==
  /\ pc = "start" /\ length > 0
  /\ \E h \in 1..(MaxTreeHeight + 1) :
       /\ IsHeight(length, h)
       /\ LET tooHigh == proof # <<>> /\ proof[Len(proof)].height >= h
              inside == /\ \A e \in Members(entries) : WithinList(e)
                        /\ \A p \in Members(proof) : WithinLevel(p)
          IN \/ proof = <<>> /\ entries = <<>> /\ Throw("noEntries")
             \/ tooHigh /\ Throw("unexpectedHeight")
             \/ /\ proof # <<>> \/ entries # <<>>
                /\ ~tooHigh /\ ~inside /\ Throw("unexpectedIndex")
             \/ /\ proof # <<>> \/ entries # <<>>
                /\ ~tooHigh /\ inside
                /\ treeHeight' = h /\ height' = 1 /\ lastIndex' = length - 1
                /\ layer' = {[index |-> e.index, hash |-> Leaf(e.value)] :
                               e \in Members(entries)}
                /\ pc' = "level"
                /\ UNCHANGED <<document, merkleRoot, outcome, ref>>

\* spliceLayer: the hashes the proof gives for a level.
Given(h) == {[index |-> p.index, hash |-> p.hash] :
               p \in {q \in Members(proof) : q.height = h}}

Level ==
  /\ pc = "level" /\ height < treeHeight
  /\ LET merged == layer \cup Given(height)
         clash == Clash(layer, Given(height))
         complete == \A x \in merged : Paired(x, merged, lastIndex)
     IN \/ clash /\ Throw("duplicateHash")
        \/ ~clash /\ ~complete /\ Throw("missingHash")
        \/ /\ ~clash /\ complete
           /\ layer' = Zipped(merged, lastIndex)
           /\ lastIndex' = lastIndex \div 2
           /\ height' = height + 1
           /\ ref' = IF length = Len(list) THEN Above(ref, lastIndex) ELSE ref
           /\ UNCHANGED <<document, pc, treeHeight, merkleRoot, outcome>>

\* The first hash of the last level is that of the tree.
Finish ==
  /\ pc = "level" /\ height = treeHeight
  /\ \E x \in layer :
       /\ \A y \in layer : x.index <= y.index
       /\ merkleRoot' = ListHash(length, x.hash)
  /\ outcome' = "ok" /\ pc' = "done"
  /\ UNCHANGED <<document, treeHeight, height, layer, lastIndex, ref>>

Next == ParseProof \/ ParseEntries \/ EmptyList \/ Start \/ Level \/ Finish

Spec == Init /\ [][Next]_vars

\* The constructor runs to its end without waiting for anything.
FairSpec == Spec /\ WF_vars(Next)

-----------------------------------------------------------------------------
(* Properties.                                                             *)

TypeOK ==
  /\ pc \in {"parseProof", "parseEntries", "start", "level", "done"}
  /\ outcome \in Errors \cup {"running", "ok"}
  /\ pc = "done" <=> outcome # "running"
  /\ treeHeight \in 0..(MaxTreeHeight + 1) /\ height \in 0..treeHeight
  /\ lastIndex \in Nat
  /\ \A e \in layer : e.index <= lastIndex

\* The root hash of the tree of `list`, once `ref` has reached its top.
TrustedRoot == ListHash(Len(list), IF list = <<>> THEN ZeroHash ELSE ref[0])

Genuine(e) == e.index < Len(list) /\ e.value = list[e.index + 1]

\* A proof whose root hash is that of the node's list shows only values that
\* are in the list, each at the index it is shown at, whatever the document's
\* other hashes are (what a light client relies on when it compares merkleRoot
\* with a trusted hash).
Sound ==
  outcome = "ok" /\ merkleRoot = TrustedRoot => \A e \in Members(entries) : Genuine(e)

\* l is the greatest index of a level with n leaves below, d under a full node.
IsLast(n, d, l) == l * d <= n - 1 /\ n - 1 < (l + 1) * d

\* The invariant of the loop of collect: lastIndex is the end of the level, the
\* level has no index twice, and if it agrees with the tree of the list then so
\* did everything below that has been folded into it.
LevelInv ==
  pc = "level" =>
    /\ length > 0 /\ IsHeight(length, treeHeight)
    /\ treeHeight \in 1..(MaxTreeHeight + 1) /\ height \in 1..treeHeight
    /\ lastIndex \in Nat /\ IsLast(length, Pow2[height - 1], lastIndex)
    /\ IsLevel(layer, lastIndex)
    /\ length = Len(list) /\ AgreesWith(layer, ref) =>
         \A e \in Members(entries) : Genuine(e)

\* The leaves that a hash of the proof stands for.
LeavesUnder(p) == {j \in 0..(length - 1) : j \div Pow2[p.height - 1] = p.index}

Parsed == /\ \A p \in Members(proof) : WellFormed(p)
          /\ \A i, j \in DOMAIN proof : i < j => Precedes(proof[i], proof[j])
          /\ \A i, j \in DOMAIN entries : i < j => entries[i].index < entries[j].index

\* Exactly one of the document's values and hashes stands for the leaf.
CoveredOnce(j) ==
  LET es == {e \in Members(entries) : e.index = j}
      ps == {p \in Members(proof) : j \in LeavesUnder(p)}
  IN \/ ps = {} /\ \E e \in es : es = {e}
     \/ es = {} /\ \E p \in ps : ps = {p}

Covered(j) == \/ \E e \in Members(entries) : e.index = j
              \/ \E p \in Members(proof) : j \in LeavesUnder(p)

\* Everything in the document stands for leaves of the tree, below its root.
Placed ==
  /\ \A e \in Members(entries) : e.index < length
  /\ \A p \in Members(proof) : /\ LeavesUnder(p) # {}
                               /\ \A h \in 1..(MaxTreeHeight + 1) :
                                    IsHeight(length, h) => p.height < h

\* The level by level check accepts a document exactly when its values and
\* hashes are sorted and cover every leaf of the tree once: nothing is missing
\* and nothing is redundant.
AcceptsExactCovers ==
  pc = "done" =>
    (outcome = "ok" <=> Parsed /\ Placed /\ \A j \in 0..(length - 1) : CoveredOnce(j))

\* "Redundant entries" is reported only when a leaf is covered twice.
DuplicateMeansRedundant ==
  outcome = "duplicateHash" => \E j \in 0..(length - 1) : Covered(j) /\ ~CoveredOnce(j)

\* The reference definition of a Merkle tree, from its root down: the hashes of the
\* nodes of a level.
TreeHash(l) ==
  LET node[h \in 1..(MaxTreeHeight + 1)] ==
        [i \in Nat |->
           IF h = 1 THEN Leaf(l[i + 1])
           ELSE IF (2 * i + 1) * Pow2[h - 2] < Len(l)
                THEN Node(node[h - 1][2 * i], node[h - 1][2 * i + 1])
                ELSE Solitary(node[h - 1][2 * i])]
  IN node

HeightOf(n) == CHOOSE h \in 1..(MaxTreeHeight + 1) : IsHeight(n, h)

RootOf(l) ==
  ListHash(Len(l), IF l = <<>> THEN ZeroHash ELSE TreeHash(l)[HeightOf(Len(l))][0])

Honest(p) == p.hash = TreeHash(list)[p.height][p.index]

\* An accepted document whose hashes and values are those of the tree yields
\* the root hash of the list, as defined from the tree and not level by level:
\* the proofs a node makes are accepted.
HonestRoot ==
  outcome = "ok" /\ length = Len(list) =>
    /\ TrustedRoot = RootOf(list)
    /\ (\A p \in Members(proof) : Honest(p)) /\ (\A e \in Members(entries) : Genuine(e)) =>
         merkleRoot = RootOf(list)

\* Verification ends with a root hash or an error for every document.
Terminates == <>(pc = "done")
=============================================================================
