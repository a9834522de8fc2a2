----------------------------- MODULE BlockProof -----------------------------
(***************************************************************************)
(* Verification of a block by its precommits, src/src/blockchain/block.js. *)
(* The program calls verifyBlock on documents that a node has sent, one    *)
(* call after another, with the keys of the validators it trusts.          *)
(*                                                                         *)
(* A step is one precommit.  The node may put anything it can get hold of  *)
(* into `precommits`, so the element of the array is chosen when the loop  *)
(* reads it: a message nobody signed, a signed message that is no          *)
(* precommit, or one of the precommits in circulation, in `signed`.  What  *)
(* is signed is left open: a validator may sign precommits for two blocks  *)
(* of a height, or with the number of another.  A signature that verifies  *)
(* was made with the key it names, and equal hashes are of equal headers.  *)
(***************************************************************************)
EXTENDS Integers, Sequences, FiniteSets

CONSTANTS Keys,         \* public keys, of validators and of others
          Networks,     \* the arrays of validator keys the program may trust
          Blocks,       \* the blocks of the documents, [height, fields]
          Malformed,    \* header fields that cannot be encoded
          Signable,     \* precommits that may be signed while the program runs
          Circulating,  \* precommits signed before
          MaxLength     \* bound on the length of `precommits`

\* The hash of the encoded header, which holds the height.
BlockHash(b) == <<"block", b.height, b.fields>>

ASSUME NetworksAssumption == Networks \subseteq Seq(Keys)
ASSUME MaxLengthAssumption == MaxLength \in Nat
ASSUME PrecommitsAssumption ==
  \A p \in Signable \cup Circulating :
    /\ p = [author |-> p.author, validator |-> p.validator,
            height |-> p.height, hash |-> p.hash]
    /\ p.author \in Keys /\ p.validator \in Nat

VARIABLES
  validators,  \* `validators`, the trusted keys
  signed,      \* the precommits in circulation
  accepted,    \* the blocks verifyBlock has returned for
  pc,          \* "idle" between calls, "loop" within one
  block,       \* `block` of the current or last call
  total,       \* `precommits.length`
  i,           \* `i`
  endorsing,   \* `endorsingValidators`
  outcome      \* "running", or how the last call ended

vars == <<validators, signed, accepted, pc, block, total, i, endorsing, outcome>>
environment == <<validators, signed>>

Errors == {"malformedBlock", "insufficientPrecommits", "wrongSignature",
           "notPrecommit", "wrongHeight", "wrongHash", "doubleEndorsement",
           "wrongKey"}

\* Mutated form: two thirds are enough.
twoThirds(validatorCount) == (validatorCount * 2) \div 3

quorumSize(validatorCount) == (validatorCount * 2) \div 3 + 1

TypeOK ==
  /\ validators \in Networks
  /\ signed \subseteq Signable \cup Circulating
  /\ accepted \subseteq Blocks
  /\ pc \in {"idle", "loop"}
  /\ block \in Blocks
  /\ total \in 0..MaxLength /\ i \in 0..total
  /\ endorsing \subseteq Nat
  /\ outcome \in Errors \cup {"none", "running", "accepted"}
  /\ outcome = "running" <=> pc = "loop"

Init ==
  /\ validators \in Networks
  /\ signed = Circulating
  /\ accepted = {}
  /\ pc = "idle" /\ block \in Blocks /\ outcome = "none"
  /\ total = 0 /\ i = 0 /\ endorsing = {}

\* A precommit is signed.  One that is signed during a call is not in the
\* document of that call.
Sign(p) ==
  /\ pc = "idle" /\ p \notin signed
  /\ signed' = signed \cup {p}
  /\ UNCHANGED <<validators, accepted, pc, block, total, i, endorsing, outcome>>

\* The call ends and its local variables are gone.
Leave(verdict) ==
  /\ outcome' = verdict /\ pc' = "idle"
  /\ total' = 0 /\ i' = 0 /\ endorsing' = {}
  /\ UNCHANGED environment

Throw(e) == Leave(e) /\ UNCHANGED accepted

\* The call, up to the loop: the header is encoded and hashed, the precommits
\* are counted.
Verify(b, n) ==
  /\ pc = "idle"
  /\ block' = b
  /\ \/ b.fields \in Malformed /\ Throw("malformedBlock")
     \/ /\ b.fields \notin Malformed /\ n < quorumSize(Len(validators))
        /\ Throw("insufficientPrecommits")
     \/ /\ b.fields \notin Malformed /\ n >= quorumSize(Len(validators))
        /\ pc' = "loop" /\ outcome' = "running"
        /\ total' = n /\ i' = 0 /\ endorsing' = {}
        /\ UNCHANGED <<environment, accepted>>

Reading == pc = "loop" /\ i < total

\* The element is not signed by its author, or is a message of another type.
NoPrecommit ==
  /\ Reading
  /\ Throw("wrongSignature") \/ Throw("notPrecommit")
  /\ UNCHANGED block

\* The element is a precommit for another block.
OtherBlock(p) ==
  /\ Reading
  /\ \/ p.height # block.height /\ Throw("wrongHeight")
     \/ p.height = block.height /\ p.hash # BlockHash(block) /\ Throw("wrongHash")
  /\ UNCHANGED block

Matches(p) == p.height = block.height /\ p.hash = BlockHash(block)

\* The validator's number has been met before.
DoubleEndorsement(p) ==
  /\ Reading /\ Matches(p)
  /\ p.validator \in endorsing
  /\ Throw("doubleEndorsement")
  /\ UNCHANGED block

\* Mutated form: any of the validators' keys will do.
HasSomeKey(p) == \E k \in DOMAIN validators : validators[k] = p.author

\* The author is validators[validatorId], undefined for a number that is no
\* validator's.
HasKey(p) ==
  p.validator < Len(validators) /\ validators[p.validator + 1] = p.author

\* Mutated form: a validator is counted whenever it is met.
EndorseAgain(p) ==
  /\ Reading /\ Matches(p)
  /\ \/ ~HasKey(p) /\ Throw("wrongKey")
     \/ /\ HasKey(p)
        /\ endorsing' = endorsing \cup {p.validator}
        /\ i' = i + 1
        /\ UNCHANGED <<environment, accepted, pc, total, outcome>>
  /\ UNCHANGED block

\* A new number is kept, then the key is compared.
Endorse(p) ==
  /\ Reading /\ Matches(p)
  /\ p.validator \notin endorsing
  /\ \/ ~HasKey(p) /\ Throw("wrongKey")
     \/ /\ HasKey(p)
        /\ endorsing' = endorsing \cup {p.validator}
        /\ i' = i + 1
        /\ UNCHANGED <<environment, accepted, pc, total, outcome>>
  /\ UNCHANGED block

\* The loop is over and verifyBlock returns.
Return ==
  /\ pc = "loop" /\ i = total
  /\ accepted' = accepted \cup {block}
  /\ Leave("accepted")
  /\ UNCHANGED block

Next ==
  \/ \E p \in Signable : Sign(p)
  \/ \E b \in Blocks, n \in 0..MaxLength : Verify(b, n)
  \/ NoPrecommit
  \/ \E p \in signed : OtherBlock(p) \/ DoubleEndorsement(p) \/ Endorse(p)
  \/ Return

Spec == Init /\ [][Next]_vars

-----------------------------------------------------------------------------
(* Properties.                                                             *)

\* The precommit by which a validator endorses a block.
Endorsement(k, b) == [author |-> validators[k + 1], validator |-> k,
                      height |-> b.height, hash |-> BlockHash(b)]

\* The validators that have signed a precommit for the block.
Endorsers(b) == {k \in 0..(Len(validators) - 1) : Endorsement(k, b) \in signed}

\* A block that verifyBlock returned for has been endorsed by more than two
\* thirds of the validators, each with its own key, whatever else was in the
\* documents: repeated precommits, other authors, numbers that do not exist.
AcceptedByQuorum ==
  \A b \in accepted : 3 * Cardinality(Endorsers(b)) > 2 * Len(validators)

\* Two blocks of one height that were both accepted are the signed work of more
\* than a third of the validators: as long as fewer endorse two blocks of a height,
\* the program never accepts a fork, in whatever order it verifies documents.
ForkIsAccountable ==
  \A b1, b2 \in accepted : b1.height = b2.height /\ b1 # b2 =>
    3 * Cardinality(Endorsers(b1) \cap Endorsers(b2)) > Len(validators)

\* The invariant of the loop: `endorsingValidators` holds one validator for
\* each precommit read, and all of them have endorsed the block.
LoopInv ==
  pc = "loop" =>
    /\ total >= quorumSize(Len(validators))
    /\ endorsing \subseteq Endorsers(block)
    /\ Cardinality(endorsing) = i
=============================================================================
