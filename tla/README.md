# TLA+ models of exonum-client

exonum-client is the JavaScript library with which a program talks to an
Exonum node it need not trust: it serializes and signs transactions, sends them
and waits for their block, and checks the proofs the node returns. This
directory holds TLA+ models of the parts where order, failure and arithmetic
decide, TLC configurations that check them on small instances, and proofs of the
main properties for all values of the constants.

    tlc -workers 2 -config Transport.cfg MCTransport
    tlapm TransportProofs.tla

## 1. The system and its parts

| part | source | state | operations |
|---|---|---|---|
| transport | `src/blockchain/transport.js` | closures of running calls (`index`, `responses`, `count`, `errored`), promises, HTTP exchanges | `send`, `sendQueue` |
| list proofs | `src/blockchain/merkle.js` | the document, the level being folded | `ListProof` constructor |
| block verification | `src/blockchain/block.js` | loop counter, set of endorsing validators | `verifyBlock` |
| map proofs | `src/blockchain/merkle-patricia.js` | the document, the contour being folded | `MapProof` constructor |
| proof paths | `src/blockchain/ProofPath.js` | immutable bit sequences | `compare`, `startsWith`, `commonPrefix`, `truncate`, `serialize` |
| table proofs | `src/blockchain/table.js` | none | `verifyTable` |
| messages | `src/types/message.js` | immutable signed messages | `Verified`, `Transaction` |
| crypto | `src/crypto/index.js` | none | `hash`, `sign`, `verifySignature`, key generation |
| types, helpers | `src/types/generic.js`, `hexadecimal.js`, `validate.js`, `src/helpers.js` | none | serializers, validators, `cleanZeroValuedFields` |
| converters | `src/types/convert.js` | none | hexadecimal, binary and byte strings |
| protobuf stubs | `proto/` | none | generated encoders |
| light client | `integration-tests/test.js`, `README.md` | trusted validators and hashes | the order in which a program uses the above |

**How they interact.** A program makes a signed message with `Transaction`
(messages, crypto, types), hands it to `send` or `sendQueue`, and the transport
posts it and polls the node through axios. Later it asks for data: `verifyBlock`
establishes a block from precommits (through `Verified.deserialize` and `hash`)
and so a trusted `state_hash`; `verifyTable` is a `MapProof` from `state_hash` to the
root of a table, and a `MapProof` or `ListProof` with that root shows the data.
Proof verification is synchronous and keeps nothing between calls. Only the
transport has concurrency: JavaScript runs one continuation at a time, and many
calls of `send` and `sendQueue` may be suspended at awaits at once.

**What is hard**, part by part, and what makes it correct:

- *transport*: requests and replies get lost, polls race with commits, the
  array of `sendQueue` stays the caller's and may grow, several calls may send the same
  transaction, the loop must stop. Correct: nothing is posted ahead of a
  transaction in doubt; a resolved promise is true; the number of checks and the
  reason of a rejection are what the caller was told; every promise settles.
- *list proofs*: the document is untrusted; the shape of the tree depends on
  the length, and its last position is special on every level. Correct: a proof with the
  trusted root shows only values of the list; exactly the documents that cover
  the tree once are accepted; honest proofs give the right root.
- *block verification*: a count of array elements stands for a quorum of
  validators. Correct: behind each accepted block is a quorum, and accepting both
  sides of a fork takes more than a third of the validators.
- *map proofs, paths*: the contour algorithm folds branches in an order
  that depends on common prefixes. Correct: the root of the Patricia tree
  for honest documents; presence and absence are sound.
- *messages, crypto, types*: encodings drop zero values, received messages are
  encoded again, bytes may be signed in one place and sent in another. Correct: what
  deserialize returns is what its author signed, for this service and method; all programs
  that a message passes agree on it and on its hash.
- *converters*: bits, digits and bytes are each written in an order of their own.
  Correct: conversions that can be composed agree, and what is rejected is known.
- *tables, light client*: one entry takes two proofs, from two requests. Correct: the
  entry is in the table that was asked for, at the height that is trusted.

`PROJECT.json` lists the components with their status, and the hazards with
their lines and the properties that cover them.

## 2. Modules

| module | models | its use |
|---|---|---|
| `Transport` | `send`, `sendQueue`, the node, the network | the detailed specification |
| `OrderedSubmission` | what the transport promises | abstract specification, implemented by `Transport` |
| `MCTransport` | | instances for TLC |
| `TransportProofs` | | proofs: the queue, the loop of checks, the abstract specification |
| `ListTree` | hashes of a list's tree, one level and the next | operators used by the two below |
| `ListProof` | the constructor of `ListProof` | one step per check and level |
| `LayerArrays` | the loops of `mergeLayers` and `hashLayer` | one step per iteration |
| `MCListProof`, `MCLayerArrays` | | documents, sorted arrays |
| `ListProofProofs`, `LayerArraysProofs` | | proofs: the constructor; the array loops |
| `BlockProof` | `verifyBlock`, the validators' signatures | one step per precommit |
| `MCBlockProof`, `BlockProofProofs` | | networks and a fork; proofs |
| `Paths` | what the methods of `ProofPath` compute, on sequences of bits | operators used by the map proofs |
| `ProofPath` | the same methods on arrays of bytes | one step per iteration |
| `MCProofPath` | | all paths of few bits, paths of many bytes |
| `MapTree` | hashes of a map's tree, and the tree defined from the top | operators and reference |
| `MapProof` | the constructor of `MapProof` | one step per check and per fold |
| `LightClient` | `verifyTable`, and a program that asks for a table and an entry | composes two runs of `MapProof` |
| `MCMapProof` | | documents, maps, a chain |
| `MapProofProofs`, `MapSoundness` | | proofs: the checks and the contour; the root hash, soundness and the light client |
| `Converters` | `convert.js`, `validateHexadecimal`, the types of `hexadecimal.js` | operators used by `ProofPath` |
| `ProofPathProofs` | | proofs: paths on bytes, converters, types of keys |
| `Messages` | `Transaction`, `Verified`, `Type`, `sign`, `verifySignature`, `cleanZeroValuedFields` | one step per operation, over programs that hand a message on |
| `MCMessages`, `MessagesProofs` | | keys, ids and payloads; proofs |

Operators described as "mutated form" stand before the definition they vary.
Each is that definition with one plausible mistake. No specification uses them;
put in the place of the original, TLC finds the property named in `PROJECT.json`
violated.

### Transport

A call of `send` or `sendQueue` is an element of `Calls`; its closure is spread
over functions on `Calls` that carry the names of the code. `pc` says at which
await it is suspended (`post`, `get`, `sleep`, `then` of `sendQueue`), `net` how
far its HTTP exchange is. An action is the code from one await to the next:
`Send` and `SendQueue` run up to the POST, `PostSettled` and `Wake` go round the
loop, `CommitSeen`, `NotYet` and `CheckFailed` are the outcomes of a check, `Then`
keeps the hash and calls `shift()` or resolves. `GrowList` is the caller
appending to the array it passed, which `sendQueue` reads again each time.
`Accept`, `Answer`, `LoseRequest`, `LoseReply` and `Commit` are the node and the
network, modelled from how the code uses them: the node pools what it receives and
commits it in any order, at any time or never, and answers from its state at
that moment, so that an answer can be stale when it is read. A lost reply leaves
the transaction with the node while the caller is told of a failure.

Abstracted: hexadecimal conversion of the body (a transaction is a value, a missing one
is `EmptyBody`), the hash (a tuple of the body), the timeout's length. `polls`,
`lastPoll` and `known` are history variables that only properties read. A negative number
in `Budgets` stands also for a value of `attempts` that is no number:
`count >= 0` is false at once.

### ListProof, ListTree, LayerArrays

`list` is the list that the node vouches for; the document (`proof`, `entries`,
`length`) is anything in `Scenarios`. The actions are the stages of the
constructor: `ParseProof`, `ParseEntries`, `EmptyList` or `Start` (the checks of
`collect` before its loop), `Level` once for each level, `Finish`. Each error type is an
outcome. A hash is the tuple of what was hashed with the prefix byte in front,
so equal hashes have equal preimages: collision resistance is assumed here. The arrays of a
level are sets of `[index, hash]`. That this loses nothing is the subject of
`LayerArrays`, which runs the two array loops of `mergeLayers` and `hashLayer`,
the latter overwriting the array it reads, and compares them with the operators on
sets. `ref` is the level of the tree of `list` at the same height, which the code does not
have and only the properties read. The reference definition of the tree, `TreeHash`, is a recursive
function from the root down, which knows nothing of levels that are merged.

Not enumerated: documents whose parts are no arrays or whose indexes are no
integers (the code throws before anything else), and a `length` that is not a
natural number. Indexes are integers; see finding 3 for the negative ones, which the
theorems exclude by the assumption `NaturalIndexes`.

### BlockProof

`signed` is the set of precommits in circulation. Any key may sign anything
(`Sign`): validators for two blocks of a height, strangers, a validator with another's
number. `Verify` is the call up to the loop; each further step is an element of
`precommits`, chosen when the loop reads it: a message without a valid signature or of
another type (`NoPrecommit`), or a precommit in circulation (`OtherBlock`,
`DoubleEndorsement`, `Endorse`), in the order of the checks of the code; `Return`
is the end of the loop. The header's encoding is symbolic; `Malformed` stands for the headers
whose fields cannot be converted. `accepted` collects the blocks that calls
returned for, which is what a program acts on.

### Paths, ProofPath, Converters

`ProofPath` runs `commonPrefix`, that is the two loops of `commonPrefixLength`
(`ByteStep`, `BitStep`) and the two of `truncate` (`Copy`, `Set`), on two paths that
the constructor makes from `Strings`, any set of bit strings; the methods that have no loop of their own are read off the final
state. A byte has `ByteBits` bits and a full path `Width`. The code
compares a position in bits with a length in bytes (`InBytes`); the run shows that this
costs time only. Not modelled: `toString`, and the errors for arguments
that the library itself never passes.

`Converters` has the converters as functions on sequences of digits, with the strings that
each throws for (`AcceptsForBytes`, `AcceptsForBits`), and the serializers of `Uuid`,
`Hash`, `PublicKey` and `Digest`. The constructor of `ProofPath` and `toJSON` are built from them, as
in the code, so that a path and its common prefixes exercise them in every
combination: `JSONRoundTrip`, `ConvertersAgree`, `KeyTypesAgree`. What `parseInt` makes of the bits of a
byte is the byte that has these bits, of which there is one. Two edges are part of
what is stated. `hexadecimalToUint8Array` accepts a string of odd length and loses the last digit,
where `hexadecimalToBinaryString` throws; and neither accepts the empty string, since its
length 0 is taken for the default of 32 bytes, although
`uint8ArrayToHexadecimal` makes it of no bytes.

### MapTree, MapProof

`map` is the map that the node vouches for; the document (`proof`, `entries`) is
anything in `Scenarios`. `ParseProof`, `ParseEntries`, `PrecheckOrder`,
`PrecheckEntries` and `Duplicates` are the checks, each a loop that ends with the
first fault. `collect` is `Empty`, `Single` or `Start` and then its loop: `NextEntry`
reads an entry and its common prefix with the end of the contour, `FoldMore` is an
iteration of the inner loop, `Push` ends it; `FoldLast` is the loop after it and `Finish` the
return. The sorted array is the set `rest`, of which the least element is read next;
that a repeated path is met in the sorted array is the check `Duplicates`.
The binary search (a library) is the closest smaller path, which is what it
finds in a sorted array. Hashes are tuples. A branch and the only node of a tree are hashed
with the same first byte, but 69 bytes or more are hashed for the one and 67 for the
other, so the tuples differ as the bytes do.
`Tree` defines the tree above a set of nodes by recursion from the top, without prefixes or
order, and has nothing in common with the contour.

Not enumerated: documents whose parts are no arrays and types without `serialize` or
`hash`, on which the code throws.

### LightClient

`LightClient` extends `MapProof` with the program around it. `Chain` has the tables of
every height, and `asked` the height of the trusted block, the table and the key. In phase
"table" the constructor runs on any of `TableDocs`; `VerifyTable` is then the rest of
`verifyTable`, and gives the constructor one of `DataDocs` for phase "data". The other
actions are the errors of `verifyTable` (`TableCorrupted`, `TableNotFound`), of the constructor
(`ProofThrows`) and of `getWallet` (`DataMismatch`, `EntryNotInProof`), and its
results (`EntryAbsent`, `EntryFound`). The documents mix the nodes and entries of both heights and
both tables, so a node may answer each request from another state. The state hash is that
of the block at the height asked for; that a block which `verifyBlock` accepts
has a quorum behind it is the subject of `BlockProof`. Runs of `MapProof` that stand alone are
behaviours of `LightClient` too (`StandAlone`).

### Messages

One message at a time is made and goes from program to program; `stage` says where it is.
`Create` is `Transaction.create` with a key pair, `CreateSigned` with an author and a
signature, `SignData` is `crypto.sign` by a program that signs apart, `Send` is
`serialize` and `Receive` is `Transaction.deserialize` by some type, after which `Send` may follow
again. `MadeElsewhere` is a message by another implementation of the format and `Damage`
a change on the way. `signed` remembers what was signed and `origin` the message as it was made;
only properties read them.

An object of the library is a function on the fields that are there; nested messages are
flattened, with a field for the message itself. Bytes are what they encode and a `form`:
everything the library's encoders make is canonical, and decoding forgets the form. That is
the abstraction which makes the re-encoding in the constructor of `Verified` visible. A
signature is the pair of the key and the bytes. `_serializePayload` cleans the arguments only,
so that ids that are 0 are written; ids are read by their defaults.

What follows for users of the library, and is stated by the properties: a message whose signed
bytes are not canonical (made elsewhere with the fields in another order, or with
fields the schema does not know, say) is accepted by the
first program and refused by every program it is handed on to (`HopsAgree`); its hash is not that
of the bytes that came (`HashIsThatOfOrigin`). A string field `'0'` arrives as an empty
one (`Delivered`; the FIXME of helpers.js:43). README.md:276-284 names the ids
`service_id` and `method_id`, but the constructor reads `serviceId` and `methodId`: a type that is
made as documented has undefined ids, its messages carry none and it refuses all messages
(the type `<<>>` of the instance).

Not enumerated: `null` as a field's value (`Object.keys` throws and nothing changes), keys and
signatures of wrong size, authors in upper case.

## 3. What the runs check

| run | checks | size |
|---|---|---|
| `Transport` | `TypeOK`, `SubmitAfterCommit`, `ResolvedMeansAllCommitted`, `RetryBudget`, `VerdictNamesLastCheck`, `NoCommitMissed`, `CallInv`, `ImplementsOrderedSubmission` | 2 calls, 2 transactions, attempts -1, 0, 1; 247 000 states |
| `Transport_liveness` | `EveryCallSettles` | 1 call, queues of up to 3; 2 100 states |
| `ListProof` | `TypeOK`, `AcceptsExactCovers`, `DuplicateMeansRedundant`, `HonestRoot`, `Sound`, `LevelInv`, `Terminates` | lists of 0 to 3 and of 5 values, also with a wrong length; 529 000 states |
| `LayerArrays` | `LoopsMatchSets` | all pairs of arrays, up to 5 positions; 5 400 states |
| `BlockProof` | `AcceptedByQuorum`, `ForkIsAccountable`, `LoopInv` | networks of 0 to 4 validators, a fork; 100 000 states |
| `ProofPath` | `CommonPrefixFound`, `PrefixIsCanonical`, `SelfDelimiting`, `JSONRoundTrip`, `ConvertersAgree`, `KeyTypesAgree` | all pairs of the paths of 1 to 7 bits and of long paths of up to eight bytes; 759 000 states |
| `MapProof` | `TypeOK`, `AcceptsPrefixFree`, `ContourInv`, `FoldsTheTree`, `Sound`, `HonestAccepted`, `DataIsInState` | paths of up to 3 bits, every map over 3 keys and 2 values, a chain of two heights with two tables; 827 000 states |
| `Messages` | `TypeOK`, `Delivered`, `HashIsThatOfOrigin`, `HopsAgree`, `DetachedSignatureFits`, `CreatedAgain`, `VerifiesCleanOnly` | 2 keys, types with different, zero and undefined ids, payloads with every kind of zero; 374 000 states |

`CHECK_DEADLOCK FALSE` stands where the system really stops: when all calls have
settled, or the constructor has returned or thrown. `BlockProof` checks for deadlock.

**Bounds and why they suffice.**
- *Transport*: two calls are enough for each to commit, or to give up on, what
  the other sends; lists of one and two transactions and a repeated one have a first, a middle
  (after growth, in the liveness run) and a last position; attempts of 1 give two
  checks, so that an error is followed by an answer and the reverse. `MaxLen`
  bounds the growth of an array. Calls are symmetric, in
  `OrderedSubmission` too; transactions are not (the lists name them).
- *ListProof*: lengths 3 and 5 have a solitary hash at the end of one and of
  several levels, 2 has none, 0 and 1 are the special cases. In the first family
  the document is any subset of the positions of the tree, of one position beyond the end
  of each level and of a level above the root, with honest hashes, which is
  where acceptance is decided; a family with swapped, repeated and malformed elements is
  added for length 2. In the second family, with lists
  of 2 and 3 values, a hash is the honest one, its
  neighbour's or a foreign one. `MaxTreeHeight` is 4 instead of 58.
- *BlockProof*: 4 validators have a quorum of 3 with one fault, 3 are the
  case where two thirds is a whole number, 0 and 1 the edges; one network has a key
  twice. Documents have up to 5 elements, one more than there are validators.
- *ProofPath*: a key has eight bytes of six bits, and hexadecimal digits of three. All paths of up to seven bits
  end within, with and behind the first byte. The long ones have their ends, and the place of the one bit
  that differs, at and next to the ends of bytes. Since `InBytes` compares bits with bytes,
  the loop over bytes passes the first two bytes at most, and it does so for equal beginnings; `truncate` copies up
  to eight. A length of 32 (`Half`) or more takes two bytes when serialized, as one of 128 or more does,
  and there are paths of 31 and 32 bits.
- *MapProof*: paths of three bits have contours of up to four nodes, of which several
  are folded for one entry. Without entries, every subset of the 14 paths is a document;
  with them, every subset of the shorter paths and two full ones, and four
  keys, two with the same path. For soundness there are documents over every map of
  three keys: proofs with six paths, of which none begins another (the others are
  rejected, as the first family shows), each node with its right hash, its
  sibling's or an unknown one, and any claims about the three keys.

  The chain has two heights and two tables: one entry is changed, and the second table
  becomes what the first one was, so that a right proof for the wrong table or height is
  among the answers. Two keys and two names of tables leave room for every mixture.
- *Messages*: two keys, of which either can be the author, the signer or the one put in by
  damage. Types differ in one id, have zeros, or have none. Payloads have a string, a number and
  a nested message, with `'0'`, `0`, the empty string and fields that are not there. One
  signature is made apart (`MaxData`), and one damage is done; a message is handed on any
  number of times. Keys are symmetric.

**Fairness.** `EveryCallSettles` assumes that a continuation that is ready runs
(the event loop, timers included) and that every HTTP exchange settles in the
end, with an answer or an error. The first is what JavaScript provides. The
second is an assumption about the platform: axios is used without a timeout, so a
connection that stays open and silent keeps the call waiting. Nothing is assumed
of commits: a node that never commits leads to a rejection. `Terminates` assumes only
that the constructor goes on running.

## 4. Differences between the code and what is said of it

Each is a run that TLC ends with a counterexample.

1. `Transport_zero_attempts`: README.md:325 offers `attempts = 0` to those who
   "do not need to verify" that the transaction is accepted. The code then checks once
   and rejects if it is not in a block yet. The same loop makes one check more than
   `attempts`, which is documented as the number of checks; `RetryBudget` states the number it makes.
2. `Transport_empty_list`: `sendQueue` of an empty array posts a transaction
   with an empty body; the array is read before its length is looked at.
3. `ListProof_indexes`: merkle.js:121 announces a check that indexes are
   appropriate. It compares them with the greatest index of the level only, and
   negative integers pass: values at indexes outside the list are accepted.
4. `Messages_verify`: README.md:211 says that a signature made by `sign` "can be verified using the
   author's public key", the comment at crypto/index.js:89 takes a `Type|Transaction`, and
   test/sources/cryptography.js:232-241 expects `true` for a `Transaction`. `verifySignature` encodes the data without removing zero-valued fields,
   and a Transaction's without the `CoreMessage` around them, as `sign` does: it does not confirm a
   signature of data with such a field, nor any of a Transaction.
   `VerifiesCleanOnly` says exactly which signatures it confirms. Those tests pass although the result is `false`:
   they end in `.to.be.true` without a call, which asserts nothing once `dirty-chai` is loaded
   (merkle-patricia-proof.js:7).

## 5. Proofs

Checked by `tlapm` (Z3, Zenon, LS4), for every value of the constants that
satisfies the assumptions named in the modules.

**Transport** (`TransportProofs`): `TypeCorrect`; and, if no list is empty,
`CallsConsistent`, `SubmissionInOrder` and `ResolutionIsTrue`: `CallInv`,
`SubmitAfterCommit` and `ResolvedMeansAllCommitted` always hold. `SubmitAfterCommit`
is not inductive: that the transaction before is in a block when `Then` reads the
next follows from what the exchange said two steps earlier. `CallInv` carries it
along: `Phase` ties the place of suspension to the exchange and the promise,
`Current` ties the body and the hash to the array element, `Confirmed` says
that a "committed" in the exchange, or a place after it, means the body
is in a block, and `Kept` that the hashes collected are those of the transactions
before. Each action preserves each part. The empty list is excluded because the
code posts a transaction that is in no list (finding 2); TLC checks that case.

It also proves `ChecksWithinBudget`, `VerdictIsOfLastCheck` and `CommitIsNotMissed` for any
number of attempts and also for empty lists. The properties are about the verdict; `PollInv`
says what holds while the loop goes on: `Checking`, while a check is on its way, that `count`
and the checks made add up to `attempts`, and that what was in a block when the check was sent
is not answered "pending"; `Sleeping`, after it, that `errored` says how it ended.

Last comes `TransportImplements`, `Spec => ImplementsOrderedSubmission`, if no list
is empty. `OrderedStart` and its fellows state the abstract actions over the mapped
variables; `AsStart`, `AsExtend`, `AsConfirm`, `AsGiveUp` and `AsStutter` say when a step of one
call is one of them, and each action of `Transport` has a lemma that it is such a step. A block
is `Commit` because of `PoolInv`: the node has nothing that was not submitted. `PoolInv` is
kept because abstract steps take back nothing that was submitted.

**List proofs** (`ListProofProofs`), if indexes are naturals: `TypeCorrect`,
`LoopInvariant`, `ListProofSound`. `LevelInv` says that `lastIndex` is the end of the
level, that no index occurs twice, and that if the level agrees with the tree of
`list` then so did everything folded into it. The step is `Level`: if the level above agrees
with the tree, equal hashes have equal preimages and every
hash of the level has its neighbour or is the last, so the level itself agrees.
The sorted arrays need that adjacent comparisons give all comparisons
(`SortedEntries`, `SortedProof`), by the least counterexample (`LeastNumber`).
`IsLast`, the arithmetic of the levels, is stated without powers: `Pow2` is a constant
function with the recurrence as its assumption.

`AcceptedCoversExactly` and `DuplicatesAreRedundant` say which documents are accepted, in terms of
the leaves below each given hash and without levels. The bridge is `CoverInv`: a leaf has a hash on
the level at hand (at its index divided by the level's width) exactly if what was given below
covers it once, and otherwise nothing there covers it. Merging adds what is given on the level, so a clash
is a leaf covered twice, on whatever level it is seen (`TwiceCovered`, `ClashRedundant`); a hash without a neighbour is
a leaf that nothing covers (`MissingUncovered`), as all that could are below. `HonestProofsYieldRoot` needs that the
levels of `ref` are those of `TreeHash`, and that an honest level gives an honest one (`AgreementAscends`).
The recursion of `TreeHash` is well defined because there is a function on every initial piece of the levels,
which a least level without one would contradict (`TreeExists`).

`LayerArraysProofs` proves `LoopsComputeSets`: for sorted arrays of any length the loops end as
the operators on sets say. `MergeInv` says that what is merged is sorted, has no clash and comes
before all that is to come, symmetrically for the two arrays. When hashLayer has begun to write, what
it began with is in no variable any more, so `HashInv` says that there is such an array `a`
(`Began`): up to `i` its pairs are adjacent and hashed into the front of `array`, and behind that `array` is
still `a`, because the place that is written is never ahead of the pair that is read. A pair that is not adjacent
has an element without a neighbour: the one before an odd element is odd as well (`OddNext`).

**Blocks** (`BlockProofProofs`): `LoopCountsEndorsers`, `QuorumBehindEveryBlock`,
`ForksAreAccountable`. `LoopInv` says that the set has as many validators as
precommits were read, and that each has endorsed the block; endorsements are never taken
back (`EndorsersGrow`), so they also hold later; two sets of more than two
thirds share more than a third (`QuorumsOverlap`, by inclusion and exclusion).

**Map proofs** (`MapProofProofs`): `ContourHolds` and `ChecksSuffice`, `ContourInv` and
`AcceptsPrefixFree`, for keys, paths and documents of any size. The order of paths comes down to one
relation, `Left`: two paths part at a bit that is 0 in the one and 1 in the other; `Compared`
says how `compare` and `startsWith` follow from it, `LeftTrans` that the common prefix of the outer two
of three paths is the shorter of the inner ones. Neighbours that are `Left` make all pairs `Left`
(`NeighboursSuffice`), and a path of the proof that begins the path of an entry is the closest one
(`ClosestSuffices`): what lies between the two would begin the path of the entry as well. `Checks`
says which conditions hold once their step has passed, and that an error means one is
broken, so that the equivalence holds in both directions. What has passed is `Separate`, which is where
the loop starts: `LoopInv` adds to `ContourInv` that neighbours in the contour and all that is
to come are `Left` of each other, and that `newPrefix` is still that of the next node and the
last node of the contour. A fold needs that the branch is `Left` of what its right child was
`Left` of (`Joining`), and a push that three paths never part at one place.

**Root hashes of maps and the light client** (`MapSoundness`): `FoldsHolds`, `SoundHolds`, `HonestHolds`,
`TypeHolds` and `DataIsInStateHolds`, for maps and documents of any size and keys of any length. `Tree` is a
recursive function on the paths up to `Width`, so what holds of it at every path is shown by a deepest path where
it would not (`Deepest`), and its equation at a path from the pieces of the tree below a length (`TreeExists`).
`Folded` is what the loop of `collect` adds to `LoopInv`: each node of the contour is a node of the tree
above the given nodes, and every given node is still to come or below one of the contour. `BranchInTree` is the heart of the
fold: the branch of the last two nodes is the tree's node at their common prefix, since nothing else is
below that prefix; so the last node is the root, `FoldsTheTree`. For `Sound`, `RootBacks` compares two trees with one
root hash: a branch hashes the paths and hashes of its children, so a node of the
document's tree that the map's tree has as well has its children there too (`HashBacks`), down to the
given nodes, and nothing of the map is left out. `HonestAccepted` is the converse (`RightNodes`). The light
client starts from the root hash of a state: `ClientInv` says that in phase "table" the map proved about is that of the
tables at the trusted height, and in phase "data" the table that was asked for, with the root hash
that `verifyTable` returned. The step between the two is
`VerifyTableKeeps`: what the first proof shows at the table's name is by `Sound` an entry of that map,
and its entries are root hashes of tables.

**Messages** (`MessagesProofs`): `TypeCorrect`, `DeliveryIsAuthentic`, `HashSurvivesTheJourney`,
`ProgramsAgree`, for any keys, types, payloads and any number of programs and signatures.
The properties speak of a message that has arrived; `Inv` adds what holds on the way.
`SignedInv` says what each signature was asked for, `KnownInv` that a signature that travels
was made with its key (also after damage, which has no other signatures to put in),
`VerdictInv` that what `deserialize` returned is a function of the bytes and the receiver, and
`JourneyInv` that an undamaged message is the original or, once a program has accepted
it, the library's encoding of it. Encoding twice is encoding once (`RecodedParts`), so two forms
are all there are however far it travels. `Delivered` needs besides that arguments are never
taken for the bytes of a `CoreMessage` (`PlainIsNoCore`).
`DetachedSignaturesFit`, `PayloadsAreCreatedAgain` and `OnlyCleanDataVerify` follow from the same invariant:
that the two places which encode a call agree (`SignedCallFits`), that what decodes has no defaults written out unless
the bytes had (`DecodedIsClean`), and that cleaning changes the bytes exactly of data with a zero (`CleanOrChanged`). The assumptions are about the data:
`PayloadAssumption` (objects have the fields of the schema, with values that fit them),
`TypesAssumption` (ids are naturals; `none` and `plain` are nothing else).

**Paths, converters and types of keys** (`ProofPathProofs`): `LoopsFindPrefix`, `PrefixesAreCanonical`,
`PathsAreSelfDelimiting`, `JSONIsReadAgain`, `ConvertersMatch`, `KeysAreTyped`, that is every property of the
`ProofPath` run, for bytes of any even number of bits, hashes of any even number of bytes and any set of paths
(`StringsAssumption`: strings of at least one bit that fit in a key). Nothing is said of sums
of powers of two: any bits are those of one byte (`NumberExists`) and of one only (`SameNumber`), both shown by counting up to the bits
of a byte (`Counting`, from the least counterexample), and everything that takes a byte apart or changes it is stated bit
by bit (`WithBitIs` for `setBit`, `SplitNumber` for the two digits of a byte). `PathInv` says that the paths agree up to
`pos` and, once the loops of `commonPrefixLength` have ended, no further; and that the new path has the bits of
the old one up to where `truncate` has written, and zeros. Because `InBytes` compares a number of bits with one
of bytes, the loop over bytes stays within both paths, which is what `ByteStepKeeps` needs.
Two keys with the same bits are the same (`SameKey`), so the prefix is the path
the constructor makes. `PathsAreSelfDelimiting` reads the length off the first byte or two (`LengthBytesAre`); it needs
`HalfAssumption`, that every length fits in two bytes of which the first, and only if there is a second, has its
greatest bit. `HexToBits` is where the orders of bits, digits and bytes meet. That a
`Uuid` loses its dashes is proved from what is left of each beginning of the string (`UndashedIs`).

Four definitions are recursive functions (`TreeHash`, `Tree`, `Pow2`, `Undashed`).
The library's induction theorems take an operator as a parameter, which none of these
provers instantiates; the proofs show instead that a function with the equation exists and take the least place at
which a claim fails.

**Only model-checked**: liveness (`EveryCallSettles`, `Terminates`), as liveness under fairness and
`ENABLED` are out of the prover's reach. Every invariant and every action property that a passing run checks is
stated by a theorem. `TypeOK` of `BlockProof` is proved as well, in `LoopCountsEndorsers`. The four
runs of section 4 show what does not hold.

## 6. Plan

1. `LightClient` from the block on: the state hash is that of a block which `BlockProof`
   accepts, and an abstract specification says that what the program accepts is in the state of a
   block that a quorum endorsed; lists of entries (`getWallets`, and a `ListProof` whose root is an
   entry).

**Not modelled, and staying so**: the protobuf encoders (generated), tweetnacl and with it the
generation of keys and of random numbers, SHA-256 (symbolic), the build; `publicKeyToAddress`, which
hashes one encoding; `stringToUint8Array`, `validateInteger` and `validateBytesArray`, which no
modelled operation calls; `ProofPath.toString`, which only error messages use. They keep no state
and decide nothing that the other parts depend on.
