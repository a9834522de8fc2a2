----------------------------- MODULE LayerArrays -----------------------------
(***************************************************************************)
(* The loops of mergeLayers and hashLayer over sorted arrays, one iteration*)
(* at a time, src/src/blockchain/merkle.js.  hashLayer writes the level    *)
(* above into the array it is still reading.  The properties say that the  *)
(* loops compute what ListTree defines on sets, with the same errors.      *)
(***************************************************************************)
EXTENDS ListTree, Sequences

CONSTANT Inputs   \* records: two sorted arrays of a level and its last index

\* The elements of an array.
SetOf(s) == {s[k] : k \in DOMAIN s}

ASSUME InputsAssumption ==
  \A in \in Inputs :
    /\ in.last \in Nat
    /\ \A s \in {in.xs, in.ys} :
         /\ s \in Seq(SetOf(s))
         /\ \A k \in DOMAIN s : s[k].index \in 0..in.last
         /\ \A k \in 1..(Len(s) - 1) : s[k].index < s[k + 1].index

VARIABLES
  xs, ys,          \* the arrays mergeLayers is called with
  lastIndex,       \* `lastIndex` of hashLayer
  xIndex, yIndex,  \* how much of them is merged
  array,           \* `output` of mergeLayers, then `layer` of hashLayer
  i,               \* `i` of hashLayer
  pc               \* "merge", "hash", "done" or the error

vars == <<xs, ys, lastIndex, xIndex, yIndex, array, i, pc>>
inputs == <<xs, ys, lastIndex>>

Init ==
  /\ \E in \in Inputs : xs = in.xs /\ ys = in.ys /\ lastIndex = in.last
  /\ xIndex = 0 /\ yIndex = 0 /\ array = <<>> /\ i = 0 /\ pc = "merge"

-----------------------------------------------------------------------------
(* mergeLayers.                                                            *)

HasX == xIndex < Len(xs)
HasY == yIndex < Len(ys)

TakeX ==
  /\ pc = "merge" /\ HasX
  /\ HasY => xs[xIndex + 1].index < ys[yIndex + 1].index
  /\ array' = Append(array, xs[xIndex + 1])
  /\ xIndex' = xIndex + 1
  /\ UNCHANGED <<inputs, yIndex, i, pc>>

TakeY ==
  /\ pc = "merge" /\ HasY
  /\ HasX => xs[xIndex + 1].index > ys[yIndex + 1].index
  /\ array' = Append(array, ys[yIndex + 1])
  /\ yIndex' = yIndex + 1
  /\ UNCHANGED <<inputs, xIndex, i, pc>>

Duplicate ==
  /\ pc = "merge" /\ HasX /\ HasY
  /\ xs[xIndex + 1].index = ys[yIndex + 1].index
  /\ pc' = "duplicateHash"
  /\ UNCHANGED <<inputs, xIndex, yIndex, array, i>>

Merged ==
  /\ pc = "merge" /\ ~HasX /\ ~HasY
  /\ pc' = "hash"
  /\ UNCHANGED <<inputs, xIndex, yIndex, array, i>>

-----------------------------------------------------------------------------
(* hashLayer.                                                              *)

Put(e) == array' = [array EXCEPT ![i \div 2 + 1] = e]

ZipPair ==
  /\ pc = "hash" /\ i + 1 < Len(array)
  /\ LET left == array[i + 1]
         right == array[i + 2]
         adjacent == left.index % 2 = 0 /\ right.index = left.index + 1
     IN \/ ~adjacent /\ pc' = "missingHash" /\ UNCHANGED <<array, i>>
        \/ /\ adjacent
           /\ Put([index |-> left.index \div 2, hash |-> Node(left.hash, right.hash)])
           /\ i' = i + 2
           /\ UNCHANGED pc
  /\ UNCHANGED <<inputs, xIndex, yIndex>>

\* Mutated form: the last hash may stand anywhere.
ZipLastAnywhere ==
  /\ pc = "hash" /\ i + 1 = Len(array)
  /\ Put([index |-> array[i + 1].index \div 2, hash |-> Solitary(array[i + 1].hash)])
  /\ i' = i + 2
  /\ UNCHANGED <<inputs, xIndex, yIndex, pc>>

ZipLast ==
  /\ pc = "hash" /\ i + 1 = Len(array)
  /\ LET left == array[i + 1]
         atEnd == lastIndex % 2 = 0 /\ left.index = lastIndex
     IN \/ ~atEnd /\ pc' = "missingHash" /\ UNCHANGED <<array, i>>
        \/ /\ atEnd
           /\ Put([index |-> left.index \div 2, hash |-> Solitary(left.hash)])
           /\ i' = i + 2
           /\ UNCHANGED pc
  /\ UNCHANGED <<inputs, xIndex, yIndex>>

\* layer.length = Math.ceil(layer.length / 2)
Shorten ==
  /\ pc = "hash" /\ i >= Len(array)
  /\ array' = SubSeq(array, 1, (Len(array) + 1) \div 2)
  /\ pc' = "done"
  /\ UNCHANGED <<inputs, xIndex, yIndex, i>>

Next == TakeX \/ TakeY \/ Duplicate \/ Merged \/ ZipPair \/ ZipLast \/ Shorten

Spec == Init /\ [][Next]_vars

-----------------------------------------------------------------------------
(* Properties.                                                             *)

Both == SetOf(xs) \cup SetOf(ys)
Complete == \A x \in Both : Paired(x, Both, lastIndex)

\* The loops end as the operators on sets say: with an index on both sides, with
\* a hash that lacks its neighbour, or with the level above.  The array that
\* hashLayer begins with and the one it leaves are sorted, with no index twice.
LoopsMatchSets ==
  /\ pc = "duplicateHash" => Clash(SetOf(xs), SetOf(ys))
  /\ pc = "missingHash" => ~Clash(SetOf(xs), SetOf(ys)) /\ ~Complete
  /\ pc = "done" => /\ ~Clash(SetOf(xs), SetOf(ys)) /\ Complete
                    /\ SetOf(array) = Zipped(Both, lastIndex)
  /\ pc = "done" \/ (pc = "hash" /\ i = 0) =>
       \A k \in 1..(Len(array) - 1) : array[k].index < array[k + 1].index
=============================================================================
