-------------------------- MODULE BlockProofProofs --------------------------
(***************************************************************************)
(* Proofs about BlockProof, for any network, set of documents and choice   *)
(* of what is signed: verifyBlock returns only for blocks that more than   *)
(* two thirds of the validators have endorsed, and two blocks of a height  *)
(* are accepted only if more than a third have endorsed both.              *)
(*                                                                         *)
(* The loop counts messages; that these are as many validators is the      *)
(* inductive invariant LoopInv.  Validators once counted stay counted,     *)
(* because signatures are never taken back (EndorsersGrow).                *)
(***************************************************************************)
EXTENDS BlockProof, FiniteSetTheorems, TLAPS

\* What stays true of every accepted block, and of the loop of a call.
Inv == TypeOK /\ LoopInv /\ AcceptedByQuorum

-----------------------------------------------------------------------------
(* Sets of validators.                                                     *)

\* The validators that endorse a block are finitely many.
LEMMA EndorsersFinite ==
  ASSUME TypeOK, NEW b
  PROVE  /\ Len(validators) \in Nat
         /\ IsFiniteSet(Endorsers(b))
         /\ Cardinality(Endorsers(b)) \in Nat
<1>1. Len(validators) \in Nat
  BY NetworksAssumption DEF TypeOK
<1>2. IsFiniteSet(0..(Len(validators) - 1))
  BY <1>1, FS_Interval
<1>3. Endorsers(b) \subseteq 0..(Len(validators) - 1)
  BY DEF Endorsers
<1>4. IsFiniteSet(Endorsers(b))
  BY <1>2, <1>3, FS_Subset
<1>5. QED
  BY <1>1, <1>4, FS_CardinalityType

\* Signing takes no endorsement away.
LEMMA EndorsersGrow ==
  ASSUME validators' = validators, signed \subseteq signed', NEW b
  PROVE  Endorsers(b) \subseteq Endorsers(b)'
BY DEF Endorsers, Endorsement

\* Two sets of more than two thirds of n have more than a third in common.
LEMMA QuorumsOverlap ==
  ASSUME NEW n \in Nat,
         NEW S, S \subseteq 0..(n - 1), 3 * Cardinality(S) > 2 * n,
         NEW T, T \subseteq 0..(n - 1), 3 * Cardinality(T) > 2 * n
  PROVE  3 * Cardinality(S \cap T) > n
<1>1. IsFiniteSet(0..(n - 1)) /\ Cardinality(0..(n - 1)) = n
  <2>1. /\ IsFiniteSet(0..(n - 1))
        /\ Cardinality(0..(n - 1)) = IF 0 > n - 1 THEN 0 ELSE (n - 1) - 0 + 1
    <3>1. 0 \in Int /\ n - 1 \in Int
      OBVIOUS
    <3>2. QED
      BY ONLY <3>1, FS_Interval, Zenon
  <2>2. QED
    BY <2>1
<1>2. IsFiniteSet(S) /\ IsFiniteSet(T)
  BY <1>1, FS_Subset
<1>3. IsFiniteSet(S \cap T)
  BY <1>2, FS_Intersection
<1>4. IsFiniteSet(S \cup T) /\ Cardinality(S \cup T) <= n
  <2>1. S \cup T \in SUBSET (0..(n - 1))
    OBVIOUS
  <2>2. QED
    BY <1>1, <2>1, FS_Subset
<1>5. Cardinality(S \cup T) = Cardinality(S) + Cardinality(T) - Cardinality(S \cap T)
  BY <1>2, FS_Union
<1>6. /\ Cardinality(S) \in Nat /\ Cardinality(T) \in Nat
      /\ Cardinality(S \cap T) \in Nat /\ Cardinality(S \cup T) \in Nat
  BY <1>2, <1>3, <1>4, FS_CardinalityType
<1>7. QED
  BY <1>4, <1>5, <1>6

-----------------------------------------------------------------------------
(* The steps.                                                              *)

LEMMA Initially ==
  Init => Inv
<1>1. quorumSize(0) \in Int /\ Cardinality({}) = 0
  BY FS_EmptySet DEF quorumSize
<1>2. QED
  BY MaxLengthAssumption DEF Init, Inv, TypeOK, LoopInv, AcceptedByQuorum, Errors

\* An accepted block keeps the endorsements it has.
LEMMA AcceptedKept ==
  ASSUME Inv, validators' = validators, signed \subseteq signed', TypeOK',
         NEW b \in accepted
  PROVE  3 * Cardinality(Endorsers(b)') > 2 * Len(validators')
<1>1. 3 * Cardinality(Endorsers(b)) > 2 * Len(validators)
  BY DEF Inv, AcceptedByQuorum
<1>2. Endorsers(b) \subseteq Endorsers(b)'
  BY EndorsersGrow
<1>3. IsFiniteSet(Endorsers(b)') /\ Cardinality(Endorsers(b)') \in Nat
  <2>1. Len(validators') \in Nat
    BY NetworksAssumption DEF Inv, TypeOK
  <2>2. IsFiniteSet(0..(Len(validators') - 1))
    BY <2>1, FS_Interval
  <2>3. Endorsers(b)' \subseteq 0..(Len(validators') - 1)
    BY DEF Endorsers
  <2>4. QED
    BY <2>2, <2>3, FS_Subset, FS_CardinalityType
<1>4. Cardinality(Endorsers(b)) <= Cardinality(Endorsers(b)')
  BY <1>2, <1>3, FS_Subset
<1>5. Cardinality(Endorsers(b)) \in Nat /\ Len(validators) \in Nat
  BY EndorsersFinite DEF Inv
<1>6. QED
  BY <1>1, <1>3, <1>4, <1>5

\* The end of a call that accepts nothing.
LEMMA ThrowStep ==
  ASSUME Inv, block' \in Blocks, NEW e \in Errors, Throw(e)
  PROVE  Inv'
<1>1. TypeOK'
  BY MaxLengthAssumption DEF Inv, TypeOK, Throw, Leave, environment, Errors
<1>2. LoopInv'
  BY DEF Throw, Leave, LoopInv
<1>3. AcceptedByQuorum'
  BY <1>1, AcceptedKept DEF Throw, Leave, environment, AcceptedByQuorum
<1>4. QED
  BY <1>1, <1>2, <1>3 DEF Inv

LEMMA SignStep ==
  ASSUME Inv, NEW p \in Signable, Sign(p)
  PROVE  Inv'
<1>1. TypeOK'
  BY DEF Inv, TypeOK, Sign
<1>2. LoopInv'
  BY DEF Sign, LoopInv
<1>3. AcceptedByQuorum'
  BY <1>1, AcceptedKept DEF Sign, AcceptedByQuorum
<1>4. QED
  BY <1>1, <1>2, <1>3 DEF Inv

\* A call enters the loop with enough precommits.
LEMMA VerifyStep ==
  ASSUME Inv, NEW b \in Blocks, NEW n \in 0..MaxLength, Verify(b, n)
  PROVE  Inv'
<1>1. CASE \E e \in Errors : Throw(e)
  BY <1>1, ThrowStep DEF Verify
<1>2. CASE /\ n >= quorumSize(Len(validators))
           /\ pc' = "loop" /\ outcome' = "running"
           /\ total' = n /\ i' = 0 /\ endorsing' = {}
           /\ UNCHANGED <<environment, accepted>>
  <2>1. TypeOK'
    BY <1>2, MaxLengthAssumption DEF Inv, TypeOK, Verify, environment, Errors
  <2>2. LoopInv'
    BY <1>2, FS_EmptySet DEF LoopInv, environment, quorumSize
  <2>3. AcceptedByQuorum'
    BY <1>2, <2>1, AcceptedKept DEF environment, AcceptedByQuorum
  <2>4. QED
    BY <2>1, <2>2, <2>3 DEF Inv
<1>3. QED
  BY <1>1, <1>2 DEF Verify, Errors

\* A precommit with the right key adds a validator that has endorsed the block.
LEMMA EndorseStep ==
  ASSUME Inv, NEW p \in signed, Endorse(p)
  PROVE  Inv'
<1>1. CASE Throw("wrongKey")
  BY <1>1, ThrowStep DEF Endorse, Errors, Inv, TypeOK
<1>2. CASE /\ HasKey(p)
           /\ endorsing' = endorsing \cup {p.validator}
           /\ i' = i + 1
           /\ UNCHANGED <<environment, accepted, pc, total, outcome>>
  <2>1. /\ block' = block /\ pc = "loop" /\ i < total
        /\ Matches(p) /\ p.validator \notin endorsing
    BY DEF Endorse, Reading
  <2>2. /\ p.validator \in Nat
        /\ p = [author |-> p.author, validator |-> p.validator,
                height |-> p.height, hash |-> p.hash]
    BY PrecommitsAssumption DEF Inv, TypeOK
  <2>3. TypeOK'
    BY <1>2, <2>1, <2>2, MaxLengthAssumption DEF Inv, TypeOK, environment, Errors
  <2>4. p.validator \in Endorsers(block)
    BY <1>2, <2>1, <2>2, EndorsersFinite DEF Inv, HasKey, Matches, Endorsers, Endorsement
  <2>5. Cardinality(endorsing') = i + 1
    <3>1. IsFiniteSet(endorsing)
      BY <2>1, EndorsersFinite, FS_Subset DEF Inv, LoopInv
    <3>2. QED
      BY <1>2, <2>1, <3>1, FS_AddElement DEF Inv, LoopInv
  <2>6. LoopInv'
    <3>1. Endorsers(block)' = Endorsers(block)
      BY <1>2, <2>1 DEF environment, Endorsers, Endorsement
    <3>2. QED
      BY <1>2, <2>1, <2>4, <2>5, <3>1 DEF Inv, LoopInv, environment
  <2>7. AcceptedByQuorum'
    BY <1>2, <2>3, AcceptedKept DEF environment, AcceptedByQuorum
  <2>8. QED
    BY <2>3, <2>6, <2>7 DEF Inv
<1>3. QED
  BY <1>1, <1>2 DEF Endorse

\* The loop has counted enough validators when it ends.
LEMMA ReturnStep ==
  ASSUME Inv, Return
  PROVE  Inv'
<1>1. TypeOK'
  BY MaxLengthAssumption DEF Inv, TypeOK, Return, Leave, environment, Errors
<1>2. LoopInv'
  BY DEF Return, Leave, LoopInv
<1>3. 3 * Cardinality(Endorsers(block)) > 2 * Len(validators)
  <2>1. /\ IsFiniteSet(Endorsers(block)) /\ Cardinality(Endorsers(block)) \in Nat
        /\ Len(validators) \in Nat
    BY EndorsersFinite DEF Inv
  <2>2. /\ Cardinality(endorsing) <= Cardinality(Endorsers(block))
        /\ Cardinality(endorsing) = total
    BY <2>1, FS_Subset DEF Inv, LoopInv, Return
  <2>3. total \in Nat /\ total >= (Len(validators) * 2) \div 3 + 1
    BY MaxLengthAssumption DEF Inv, TypeOK, LoopInv, Return, quorumSize
  <2>4. QED
    BY <2>1, <2>2, <2>3
<1>4. \A b : Endorsers(b)' = Endorsers(b)
  BY DEF Return, Leave, environment, Endorsers, Endorsement
<1>5. AcceptedByQuorum'
  BY <1>3, <1>4 DEF Inv, AcceptedByQuorum, Return, Leave, environment
<1>6. QED
  BY <1>1, <1>2, <1>5 DEF Inv

LEMMA Stutter ==
  ASSUME Inv, UNCHANGED vars
  PROVE  Inv'
BY DEF Inv, vars, TypeOK, LoopInv, AcceptedByQuorum, Endorsers, Endorsement

LEMMA Step ==
  Inv /\ [Next]_vars => Inv'
<1> SUFFICES ASSUME Inv, [Next]_vars PROVE Inv'
  OBVIOUS
<1>1. CASE UNCHANGED vars
  BY <1>1, Stutter
<1>2. CASE \E p \in Signable : Sign(p)
  BY <1>2, SignStep
<1>3. CASE \E b \in Blocks, n \in 0..MaxLength : Verify(b, n)
  BY <1>3, VerifyStep
<1>4. CASE NoPrecommit
  BY <1>4, ThrowStep DEF NoPrecommit, Errors, Inv, TypeOK
<1>5. CASE \E p \in signed : OtherBlock(p) \/ DoubleEndorsement(p)
  BY <1>5, ThrowStep DEF OtherBlock, DoubleEndorsement, Errors, Inv, TypeOK
<1>6. CASE \E p \in signed : Endorse(p)
  BY <1>6, EndorseStep
<1>7. CASE Return
  BY <1>7, ReturnStep
<1>8. QED
  BY <1>1, <1>2, <1>3, <1>4, <1>5, <1>6, <1>7 DEF Next

-----------------------------------------------------------------------------
(* The results.                                                            *)

\* The loop counts distinct validators that have endorsed the block.
THEOREM LoopCountsEndorsers == Spec => [](TypeOK /\ LoopInv)
<1>1. Inv => TypeOK /\ LoopInv
  BY DEF Inv
<1>2. QED
  BY <1>1, Initially, Step, PTL DEF Spec

\* verifyBlock returns only for blocks that more than two thirds of the
\* validators have endorsed with their own keys.
THEOREM QuorumBehindEveryBlock == Spec => []AcceptedByQuorum
<1>1. Inv => AcceptedByQuorum
  BY DEF Inv
<1>2. QED
  BY <1>1, Initially, Step, PTL DEF Spec

\* Accepting both blocks of a fork takes more than a third of the validators
\* that have endorsed both.
THEOREM ForksAreAccountable == Spec => []ForkIsAccountable
<1>1. Inv => ForkIsAccountable
  <2>1. SUFFICES ASSUME Inv, NEW b1 \in accepted, NEW b2 \in accepted
                 PROVE  3 * Cardinality(Endorsers(b1) \cap Endorsers(b2)) > Len(validators)
    BY DEF ForkIsAccountable
  <2>2. /\ 3 * Cardinality(Endorsers(b1)) > 2 * Len(validators)
        /\ 3 * Cardinality(Endorsers(b2)) > 2 * Len(validators)
    BY <2>1 DEF Inv, AcceptedByQuorum
  <2>3. Len(validators) \in Nat
    BY <2>1, EndorsersFinite DEF Inv
  <2>4. /\ Endorsers(b1) \subseteq 0..(Len(validators) - 1)
        /\ Endorsers(b2) \subseteq 0..(Len(validators) - 1)
    BY DEF Endorsers
  <2>5. QED
    BY <2>2, <2>3, <2>4, QuorumsOverlap
<1>2. QED
  BY <1>1, Initially, Step, PTL DEF Spec
=============================================================================
