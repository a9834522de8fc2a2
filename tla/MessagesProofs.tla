--------------------------- MODULE MessagesProofs ---------------------------
(***************************************************************************)
(* Proofs about Messages, for any sets of keys, types and payloads and any *)
(* number of programs and signatures.  The properties speak of a message   *)
(* that has arrived; the invariant Inv adds to TypeOK what holds before:   *)
(* what each signature was asked for (SignedInv), that every signature that*)
(* travels was made with its key (KnownInv), that what deserialize has     *)
(* returned is a function of the bytes and the receiver (VerdictInv), and  *)
(* that an undamaged message is the original or, if a program has accepted *)
(* it, the encoding of it by the library (JourneyInv).                     *)
(***************************************************************************)
EXTENDS Messages, TLAPS

\* What the signatures made so far are about.
SignedAs(s) ==
  \/ s.type = plain /\ s.bytes = Encode(cleanZeroValuedFields(s.data))
  \/ s.type = none /\ s.bytes \in CoreBytes /\ s.bytes.of.kind # "call"
  \/ /\ s.type \in Types /\ s.bytes \in CoreBytes
     /\ s.bytes.of.kind = "call" /\ s.bytes.of.call_info = s.type
     /\ s.bytes.of.arguments.of \in {Encode(s.data).of, Encode(cleanZeroValuedFields(s.data)).of}

SignedInv == \A s \in signed : SignedAs(s)

\* Nobody makes a signature without the key.
Known(signature) == signature = none \/ \E s \in signed : signature = <<s.key, s.bytes>>

KnownInv ==
  /\ stage \in Arrived \cup {"sent"} => Known(wire.of.signature)
  /\ stage \in {"held", "received"} => Known(verified.bytes.of.signature)

\* What deserialize has returned is still what it says of the message.
VerdictInv ==
  /\ stage \in Arrived => stage = Verdict(wire, receiver)
  /\ stage = "received" => verified = Opened(wire.of)

\* The bytes that the constructor of Verified makes of a decoded message.
Recode(b) == Verified(b.of.payload.of, b.of.author, b.of.signature).bytes

\* The signature is one of the author, of the payload as it was sent.
Genuine(m) == m.signature = Sign(m.author, m.payload)

\* An undamaged message is the original one or, once a program has accepted it,
\* its encoding by the library.
JourneyInv ==
  origin # none =>
    /\ origin.of.author # none /\ origin.of.signature # none
    /\ stage = "held" => verified.bytes = origin
    /\ stage \in Arrived \cup {"sent"} =>
         \/ wire = origin
         \/ /\ Genuine(origin.of) /\ origin.of.payload.of.kind = "call"
            /\ wire = Recode(origin)

\* The inductive invariant.
Inv == TypeOK /\ SignedInv /\ KnownInv /\ VerdictInv /\ JourneyInv

-----------------------------------------------------------------------------
(* Types of what the operators make.                                       *)

\* Objects stay objects when they are cleaned.
LEMMA CleanedObject ==
  ASSUME NEW data \in Payloads
  PROVE  /\ cleanZeroValuedFields(data) \in UNION {[D -> Value] : D \in SUBSET Fields}
         /\ DOMAIN cleanZeroValuedFields(data) =
              {f \in DOMAIN data : verifyElement(data[f])}
         /\ \A f \in DOMAIN cleanZeroValuedFields(data) :
              cleanZeroValuedFields(data)[f] = data[f]
<1>1. PICK D \in SUBSET Fields : data \in [D -> Value]
  BY PayloadAssumption
<1> DEFINE S == {f \in DOMAIN data : verifyElement(data[f])}
<1>2. cleanZeroValuedFields(data) = [f \in S |-> data[f]]
  BY DEF cleanZeroValuedFields, RestrictValues, Restrict
<1>3. S \in SUBSET Fields /\ [f \in S |-> data[f]] \in [S -> Value]
  BY <1>1
<1>4. QED
  BY <1>2, <1>3

\* An object is encoded as arguments.
LEMMA EncodedObject ==
  ASSUME NEW data \in UNION {[D -> Value] : D \in SUBSET Fields}
  PROVE  Encode(data) \in Arguments /\ Encode(data).form = "canonical"
<1>1. PICK D \in SUBSET Fields : data \in [D -> Value]
  OBVIOUS
<1>2. [f \in DOMAIN data |-> data[f].text] \in [D -> Text]
  BY <1>1 DEF Value
<1>3. QED
  BY <1>2 DEF Encode, Arguments, Forms

\* Arguments are decoded as an object.
LEMMA DecodedObject ==
  ASSUME NEW b \in Arguments
  PROVE  Decode(b) \in UNION {[D -> Value] : D \in SUBSET Fields}
<1>1. PICK D \in SUBSET Fields : b.of \in [D -> Text]
  BY DEF Arguments
<1>2. \A f \in D : [type |-> TypeOf(f), text |-> b.of[f]] \in Value
  BY <1>1 DEF Value, TypeOf
<1>3. Decode(b) = [f \in D |-> [type |-> TypeOf(f), text |-> b.of[f]]]
  BY <1>1 DEF Decode
<1>4. Decode(b) \in [D -> Value]
  BY <1>2, <1>3
<1>5. QED
  BY <1>4

\* The call of an object, and its bytes.
LEMMA CalledObject ==
  ASSUME NEW t \in Types, NEW data \in Payloads
  PROVE  /\ Call(t, data) \in Core
         /\ Call(t, data).kind = "call" /\ Call(t, data).call_info = t
         /\ Call(t, data).arguments = Encode(cleanZeroValuedFields(data))
<1>1. Encode(cleanZeroValuedFields(data)) \in Arguments
  BY CleanedObject, EncodedObject
<1>2. QED
  BY <1>1 DEF Call, Core

\* A core is encoded canonically, and nothing of it is lost.
LEMMA CoreEncodedType ==
  ASSUME NEW core \in Core
  PROVE  /\ CoreEncoded(core) \in CoreBytes
         /\ CoreEncoded(core).of = core /\ CoreEncoded(core).form = "canonical"
BY DEF CoreEncoded, Canonical, CoreBytes, Forms

\* What Type and Transaction serialize.
LEMMA SerializedType ==
  ASSUME NEW t \in Types \cup {plain}, NEW data \in Payloads
  PROVE  Serialize(t, data) \in CoreBytes \cup Arguments
<1>1. CASE t = plain
  BY <1>1, CleanedObject, EncodedObject DEF Serialize
<1>2. CASE t # plain
  BY <1>2, CalledObject, CoreEncodedType DEF Serialize
<1>3. QED
  BY <1>1, <1>2

\* A Verified object encodes itself canonically.
LEMMA VerifiedType ==
  ASSUME NEW core \in Core, NEW author \in Keys, NEW signature \in Signatures
  PROVE  /\ Verified(core, author, signature) \in Made
         /\ Verified(core, author, signature).bytes.of.signature = signature
         /\ Verified(core, author, signature).bytes.of.author = author
<1>1. CoreEncoded(core) \in CoreBytes /\ CoreEncoded(core).form = "canonical"
  BY CoreEncodedType
<1> DEFINE b == [of |-> [payload |-> CoreEncoded(core), author |-> author,
                         signature |-> signature], form |-> "canonical"]
<1>2. b \in MessageBytes /\ b.form = "canonical" /\ b.of.payload.form = "canonical"
  BY <1>1 DEF MessageBytes, Forms
<1>3. b \in Recoded
  BY <1>2 DEF Recoded
<1>4. Verified(core, author, signature) =
        [payload |-> core, author |-> author, signature |-> signature, bytes |-> b]
  BY DEF Verified, Canonical
<1>5. QED
  BY <1>3, <1>4 DEF Made

\* Signatures that were made are signatures.
LEMMA KnownSignature ==
  ASSUME TypeOK, NEW s \in signed
  PROVE  Sign(s.key, s.bytes) \in Signatures /\ Known(Sign(s.key, s.bytes))
BY DEF TypeOK, Sign, Signatures, Known

-----------------------------------------------------------------------------
(* Steps.                                                                  *)

\* Remembering a signature keeps what is known of the others.
LEMMA RememberStep ==
  ASSUME TypeOK, SignedInv,
         NEW key \in Keys, NEW bytes \in CoreBytes \cup Arguments,
         NEW t \in Types \cup {plain, none}, NEW data \in Payloads,
         Remember(key, bytes, t, data),
         SignedAs([key |-> key, bytes |-> bytes, type |-> t, data |-> data])
  PROVE  /\ signed' \subseteq [key : Keys, bytes : CoreBytes \cup Arguments,
                               type : Types \cup {plain, none}, data : Payloads]
         /\ SignedInv'
         /\ \A s : Known(s) => Known(s)'
         /\ Known(<<key, bytes>>)'
<1>1. signed' = signed \cup {[key |-> key, bytes |-> bytes, type |-> t, data |-> data]}
  BY DEF Remember
<1>2. signed' \subseteq [key : Keys, bytes : CoreBytes \cup Arguments,
                         type : Types \cup {plain, none}, data : Payloads]
  BY <1>1 DEF TypeOK
<1>3. SignedInv'
  BY <1>1 DEF SignedInv, SignedAs
<1>4. \A s : Known(s) => Known(s)'
  BY <1>1 DEF Known
<1>5. Known(<<key, bytes>>)'
  BY <1>1 DEF Known
<1>6. QED
  BY <1>2, <1>3, <1>4, <1>5

\* Before anything is made, nothing is signed and nothing travels.
LEMMA Initially == Init => Inv
BY DEF Init, Inv, TypeOK, Arrived, SignedInv, KnownInv, VerdictInv, JourneyInv

\* crypto.sign changes nothing but the signatures that are known.
LEMMA SignDataStep ==
  ASSUME Inv, SignData
  PROVE  Inv'
<1>1. PICK key \in Keys, t \in Types \cup {plain}, data \in Payloads :
        Remember(key, Serialize(t, data), t, data)
  BY DEF SignData
<1> DEFINE s == [key |-> key, bytes |-> Serialize(t, data), type |-> t, data |-> data]
<1>2. Serialize(t, data) \in CoreBytes \cup Arguments
  BY SerializedType
<1>3. SignedAs(s)
  <2>1. CASE t = plain
    BY <2>1 DEF SignedAs, Serialize
  <2>2. CASE t # plain
    BY <2>2, CalledObject, CoreEncodedType DEF SignedAs, Serialize
  <2>3. QED
    BY <2>1, <2>2
<1>4. /\ signed' \subseteq [key : Keys, bytes : CoreBytes \cup Arguments,
                           type : Types \cup {plain, none}, data : Payloads]
      /\ SignedInv' /\ \A x : Known(x) => Known(x)'
  BY <1>1, <1>2, <1>3, RememberStep DEF Inv
<1>5. UNCHANGED <<wire, verified, receiver, stage, origin>>
  BY DEF SignData
<1>6. TypeOK'
  BY <1>4, <1>5 DEF Inv, TypeOK
<1>7. KnownInv'
  BY <1>4, <1>5 DEF Inv, KnownInv
<1>8. VerdictInv' /\ JourneyInv'
  BY <1>5 DEF Inv, VerdictInv, JourneyInv
<1>9. QED
  BY <1>4, <1>6, <1>7, <1>8 DEF Inv

\* An object that is made with a signature that someone has made.
LEMMA HoldStep ==
  ASSUME Inv, NEW core \in Core, NEW author \in Keys, NEW signature \in Signatures,
         Hold(Verified(core, author, signature)),
         signed' \subseteq [key : Keys, bytes : CoreBytes \cup Arguments,
                           type : Types \cup {plain, none}, data : Payloads],
         SignedInv', Known(signature)'
  PROVE  Inv'
<1> DEFINE v == Verified(core, author, signature)
<1>1. /\ v \in Made /\ v.bytes \in MessageBytes
      /\ v.bytes.of.signature = signature /\ v.bytes.of.author = author
  BY VerifiedType DEF Made, Recoded
<1>2. /\ stage = "idle" /\ stage' = "held" /\ verified' = v /\ origin' = v.bytes
      /\ wire' = wire /\ receiver' = receiver
  BY DEF Hold
<1>3. TypeOK'
  BY <1>1, <1>2 DEF Inv, TypeOK, Arrived
<1>4. KnownInv'
  BY <1>1, <1>2 DEF KnownInv, Arrived
<1>5. VerdictInv'
  BY <1>2 DEF VerdictInv, Arrived
<1>6. JourneyInv'
  BY <1>1, <1>2, TypesAssumption DEF JourneyInv, Arrived
<1>7. QED
  BY <1>3, <1>4, <1>5, <1>6 DEF Inv

\* create with a key pair signs the bytes that the message carries.
LEMMA CreateStep ==
  ASSUME Inv, Create
  PROVE  Inv'
<1>1. PICK key \in Keys, t \in Types, data \in Payloads :
        LET bytes == CoreEncoded(Call(t, data))
        IN /\ Remember(key, bytes, t, data)
           /\ Hold(Verified(Call(t, data), key, Sign(key, bytes)))
  BY DEF Create
<1> DEFINE bytes == CoreEncoded(Call(t, data))
<1>2. Call(t, data) \in Core /\ bytes \in CoreBytes /\ bytes.of = Call(t, data)
  BY CalledObject, CoreEncodedType
<1>3. SignedAs([key |-> key, bytes |-> bytes, type |-> t, data |-> data])
  BY <1>2, CalledObject DEF SignedAs
<1>4. /\ signed' \subseteq [key : Keys, bytes : CoreBytes \cup Arguments,
                           type : Types \cup {plain, none}, data : Payloads]
      /\ SignedInv' /\ Known(<<key, bytes>>)'
  <2>1. bytes \in CoreBytes \cup Arguments /\ t \in Types \cup {plain, none}
        /\ Remember(key, bytes, t, data)
    BY <1>1, <1>2
  <2> HIDE DEF bytes
  <2>2. QED
    BY <1>3, <2>1, RememberStep DEF Inv
<1>5. Sign(key, bytes) \in Signatures /\ Known(Sign(key, bytes))'
  BY <1>2, <1>4 DEF Sign, Signatures
<1>6. Hold(Verified(Call(t, data), key, Sign(key, bytes)))
  BY <1>1
<1> HIDE DEF bytes
<1>7. QED
  BY <1>2, <1>4, <1>5, <1>6, HoldStep

\* create with an author carries a signature that was made, though perhaps of
\* something else.
LEMMA CreateSignedStep ==
  ASSUME Inv, CreateSigned
  PROVE  Inv'
<1>1. PICK author \in Keys, t \in Types, data \in Payloads, s \in signed :
        Hold(Verified(Call(t, data), author, Sign(s.key, s.bytes)))
  BY DEF CreateSigned
<1>2. signed' = signed
  BY DEF CreateSigned
<1>3. Sign(s.key, s.bytes) \in Signatures /\ Known(Sign(s.key, s.bytes))'
  BY <1>2, KnownSignature DEF Inv, Known
<1>4. SignedInv'
  BY <1>2 DEF Inv, SignedInv
<1>5. signed' \subseteq [key : Keys, bytes : CoreBytes \cup Arguments,
                         type : Types \cup {plain, none}, data : Payloads]
  BY <1>2 DEF Inv, TypeOK
<1>6. Call(t, data) \in Core
  BY CalledObject
<1>7. QED
  BY <1>1, <1>3, <1>4, <1>5, <1>6, HoldStep

\* What the recoded bytes consist of.
LEMMA RecodedParts ==
  ASSUME NEW b \in MessageBytes
  PROVE  /\ Recode(b).of.payload.of = b.of.payload.of
         /\ Recode(b).of.payload.form = "canonical"
         /\ Recode(b).of.author = b.of.author
         /\ Recode(b).of.signature = b.of.signature
         /\ Recode(b).form = "canonical"
         /\ Recode(Recode(b)) = Recode(b)
         /\ Opened(b.of).bytes = Recode(b)
         /\ Opened(b.of).payload = Decode(b.of.payload.of.arguments)
         /\ Opened(b.of).author = b.of.author
         /\ Opened(b.of).signature = b.of.signature
BY DEF Recode, Verified, Canonical, CoreEncoded, Opened

\* What it takes for a message to be received.
LEMMA Receiving ==
  ASSUME NEW b \in MessageBytes, NEW t \in Types
  PROVE  /\ Verdict(b, t) \in Arrived
         /\ Verdict(b, t) = "received" <=>
              /\ b.of.author # none /\ b.of.signature # none /\ Genuine(b.of)
              /\ b.of.payload.of.kind = "call" /\ IsCallOf(b.of.payload.of.call_info, t)
         /\ Verdict(b, t) = "thrown" <=>
              \/ b.of.author = none \/ b.of.signature = none
              \/ Genuine(b.of) /\ b.of.payload.of.kind = "bare"
<1>1. b.of.payload.of.kind \in {"call", "bare", "other"}
  BY DEF MessageBytes, CoreBytes, Core
<1>2. VerifyDetached(b.of.payload, b.of.signature, b.of.author) <=> Genuine(b.of)
  BY DEF VerifyDetached, Genuine, Sign
<1>3. QED
  BY <1>1, <1>2 DEF Verdict, Arrived

\* deserialize keeps the message and decides by its bytes alone.
LEMMA ReceiveStep ==
  ASSUME Inv, Receive
  PROVE  Inv'
<1>1. PICK t \in Types :
        /\ receiver' = t /\ stage' = Verdict(wire, t)
        /\ verified' = IF stage' = "received" THEN Opened(wire.of) ELSE none
  BY DEF Receive
<1>2. stage = "sent" /\ UNCHANGED <<wire, signed, origin>>
  BY DEF Receive
<1>3. wire \in MessageBytes
  BY <1>2 DEF Inv, TypeOK
<1>4. stage' \in Arrived
  BY <1>1, <1>3, Receiving
<1>5. ASSUME stage' = "received"
      PROVE  /\ verified' \in Delivery /\ verified'.bytes = Recode(wire)
             /\ verified'.bytes.of.signature = wire.of.signature
  <2>1. wire.of.author # none /\ wire.of.signature # none
    BY <1>1, <1>3, <1>5, Receiving
  <2>2. wire.of.author \in Keys /\ wire.of.signature \in Signatures
        /\ wire.of.payload.of \in Core /\ wire.of.payload.of.arguments \in Arguments
    BY <1>3, <2>1 DEF MessageBytes, CoreBytes, Core
  <2>3. Verified(wire.of.payload.of, wire.of.author, wire.of.signature) \in Made
    BY <2>2, VerifiedType
  <2>4. Decode(wire.of.payload.of.arguments) \in UNION {[D -> Value] : D \in SUBSET Fields}
    BY <2>2, DecodedObject
  <2>5. verified' = Opened(wire.of)
    BY <1>1, <1>5
  <2>6. Opened(wire.of) \in Delivery
    <3>1. Opened(wire.of) =
            [payload |-> Decode(wire.of.payload.of.arguments),
             author |-> wire.of.author, signature |-> wire.of.signature,
             bytes |-> Recode(wire)]
      BY DEF Opened, Verified, Recode
    <3>2. Recode(wire) \in Recoded
      BY <2>3 DEF Made, Recode
    <3>3. QED
      BY <2>2, <2>4, <3>1, <3>2 DEF Delivery
  <2>7. QED
    BY <1>3, <2>5, <2>6, RecodedParts
<1>6. TypeOK'
  BY <1>1, <1>2, <1>3, <1>4, <1>5 DEF Inv, TypeOK, Arrived
<1>7. KnownInv'
  <2>1. Known(wire.of.signature)
    BY <1>2 DEF Inv, KnownInv, Arrived
  <2>2. Known(wire.of.signature)'
    BY <1>2, <2>1 DEF Known
  <2>3. QED
    BY <1>2, <1>4, <1>5, <2>2 DEF KnownInv, Arrived
<1>8. SignedInv'
  BY <1>2 DEF Inv, SignedInv
<1>9. VerdictInv'
  BY <1>1, <1>2 DEF VerdictInv
<1>10. JourneyInv'
  BY <1>2, <1>4 DEF Inv, JourneyInv, Arrived
<1>11. QED
  BY <1>6, <1>7, <1>8, <1>9, <1>10 DEF Inv

\* serialize of a message that was accepted sends the bytes that it was encoded to:
\* those of the original, encoded by the library.
LEMMA SendStep ==
  ASSUME Inv, Send
  PROVE  Inv'
<1>1. /\ stage \in {"held", "received"} /\ stage' = "sent"
      /\ wire' = verified.bytes /\ verified' = none /\ receiver' = none
      /\ UNCHANGED <<signed, origin>>
  BY DEF Send
<1>2. verified.bytes \in MessageBytes
  BY <1>1 DEF Inv, TypeOK, Made, Delivery, Recoded, Arrived
<1>3. TypeOK'
  BY <1>1, <1>2 DEF Inv, TypeOK, Arrived
<1>4. KnownInv'
  <2>1. Known(verified.bytes.of.signature)
    BY <1>1 DEF Inv, KnownInv
  <2>2. \A x : Known(x) => Known(x)'
    BY <1>1 DEF Known
  <2>3. QED
    BY <1>1, <2>1, <2>2 DEF KnownInv, Arrived
<1>5. SignedInv' /\ VerdictInv'
  BY <1>1 DEF Inv, SignedInv, VerdictInv, Arrived
<1>6. ASSUME origin # none
      PROVE  \/ verified.bytes = origin
             \/ /\ Genuine(origin.of) /\ origin.of.payload.of.kind = "call"
                /\ verified.bytes = Recode(origin)
  <2>1. CASE stage = "held"
    BY <1>6, <2>1 DEF Inv, JourneyInv
  <2>2. CASE stage = "received"
    <3>1. wire \in MessageBytes /\ receiver \in Types /\ origin \in MessageBytes
      BY <1>6, <2>2 DEF Inv, TypeOK, Arrived
    <3>2. verified.bytes = Recode(wire) /\ Verdict(wire, receiver) = "received"
      BY <2>2, <3>1, RecodedParts DEF Inv, VerdictInv, Arrived
    <3>3. Genuine(wire.of) /\ wire.of.payload.of.kind = "call"
      BY <3>1, <3>2, Receiving
    <3>4. \/ wire = origin
          \/ /\ Genuine(origin.of) /\ origin.of.payload.of.kind = "call"
             /\ wire = Recode(origin)
      BY <1>6, <2>2 DEF Inv, JourneyInv, Arrived
    <3>5. QED
      BY <3>1, <3>2, <3>3, <3>4, RecodedParts
  <2>3. QED
    BY <1>1, <2>1, <2>2
<1>7. JourneyInv'
  BY <1>1, <1>6 DEF Inv, JourneyInv, Arrived, Recode, Genuine
<1>8. QED
  BY <1>3, <1>4, <1>5, <1>7 DEF Inv

\* Another implementation signs what it encodes, too.
LEMMA MadeElsewhereStep ==
  ASSUME Inv, MadeElsewhere
  PROVE  Inv'
<1>1. PICK key \in Keys, t \in Types, data \in Payloads,
        odd \in {"nothing", "arguments", "core", "message", "bare", "other"} :
        LET encoded(x, level) ==
              [of |-> x, form |-> IF odd = level THEN "other" ELSE "canonical"]
            kind == IF odd \in {"bare", "other"} THEN odd ELSE "call"
            core == [kind |-> kind, call_info |-> t,
                     arguments |-> encoded(Encode(data).of, "arguments")]
            bytes == encoded(core, "core")
        IN /\ Remember(key, bytes, IF kind = "call" THEN t ELSE none, data)
           /\ wire' = encoded([payload |-> bytes, author |-> key,
                               signature |-> Sign(key, bytes)], "message")
  BY DEF MadeElsewhere
<1> DEFINE encoded(x, level) ==
             [of |-> x, form |-> IF odd = level THEN "other" ELSE "canonical"]
           kind == IF odd \in {"bare", "other"} THEN odd ELSE "call"
           args == encoded(Encode(data).of, "arguments")
           core == [kind |-> kind, call_info |-> t, arguments |-> args]
           bytes == encoded(core, "core")
           type == IF kind = "call" THEN t ELSE none
           m == [payload |-> bytes, author |-> key, signature |-> Sign(key, bytes)]
<1>2. /\ stage = "idle" /\ stage' = "sent" /\ origin' = wire'
      /\ verified' = verified /\ receiver' = receiver
  BY DEF MadeElsewhere
<1>3. args \in Arguments /\ args.of = Encode(data).of
  <2>1. Encode(data) \in Arguments
    BY EncodedObject, PayloadAssumption
  <2>2. QED
    BY <2>1 DEF Arguments, Forms
<1>4. kind \in {"call", "bare", "other"}
  OBVIOUS
<1>5. core \in Core
  BY <1>3, <1>4 DEF Core
<1>6. bytes \in CoreBytes /\ bytes.of = core
  BY <1>5 DEF CoreBytes, Forms
<1>7. type \in Types \cup {plain, none}
  OBVIOUS
<1>8. SignedAs([key |-> key, bytes |-> bytes, type |-> type, data |-> data])
  BY <1>3, <1>6 DEF SignedAs
<1>9. /\ signed' \subseteq [key : Keys, bytes : CoreBytes \cup Arguments,
                           type : Types \cup {plain, none}, data : Payloads]
      /\ SignedInv' /\ Known(<<key, bytes>>)'
  <2>1. bytes \in CoreBytes \cup Arguments /\ Remember(key, bytes, type, data)
    BY <1>1, <1>6
  <2> HIDE DEF bytes, type
  <2>2. QED
    BY <1>7, <1>8, <2>1, RememberStep DEF Inv
<1>10. Sign(key, bytes) \in Signatures /\ Known(Sign(key, bytes))'
  BY <1>6, <1>9 DEF Sign, Signatures
<1>11. wire' = encoded(m, "message")
  BY <1>1
<1>12. /\ wire' \in MessageBytes /\ wire'.of = m
  BY <1>6, <1>10, <1>11 DEF MessageBytes, Forms
<1> HIDE DEF bytes, type, core, args
<1>13. TypeOK'
  BY <1>2, <1>9, <1>12 DEF Inv, TypeOK, Arrived
<1>14. KnownInv'
  BY <1>2, <1>10, <1>12 DEF KnownInv, Arrived
<1>15. VerdictInv'
  BY <1>2 DEF VerdictInv, Arrived
<1>16. JourneyInv'
  BY <1>2, <1>10, <1>12, TypesAssumption DEF JourneyInv, Arrived
<1>17. QED
  BY <1>9, <1>13, <1>14, <1>15, <1>16 DEF Inv

\* Damage leaves the types, puts no unknown signature into the message, and ends
\* what JourneyInv says of it.
LEMMA DamageStep ==
  ASSUME Inv, Damage
  PROVE  Inv'
<1>1. stage = "sent" /\ origin' = none /\ UNCHANGED <<verified, receiver, stage, signed>>
  BY DEF Damage
<1>2. wire \in MessageBytes /\ Known(wire.of.signature)
  BY <1>1 DEF Inv, TypeOK, KnownInv, Arrived
<1>3. wire' \in MessageBytes /\ Known(wire'.of.signature)
  <2>1. CASE \E a \in Keys \cup {none} : wire' = [wire EXCEPT !.of.author = a]
    BY <1>2, <2>1 DEF MessageBytes
  <2>2. CASE wire' = [wire EXCEPT !.of.signature = none]
    BY <1>2, <2>2 DEF MessageBytes, Known
  <2>3. CASE \E s \in signed : wire' = [wire EXCEPT !.of.signature = Sign(s.key, s.bytes)]
    <3>1. PICK s \in signed : wire' = [wire EXCEPT !.of.signature = Sign(s.key, s.bytes)]
      BY <2>3
    <3>2. Sign(s.key, s.bytes) \in Signatures /\ Known(Sign(s.key, s.bytes))
      BY KnownSignature DEF Inv
    <3>3. QED
      BY <1>2, <3>1, <3>2 DEF MessageBytes
  <2>4. CASE \E s \in signed : s.type # plain /\ wire' = [wire EXCEPT !.of.payload = s.bytes]
    <3>1. PICK s \in signed : s.type # plain /\ wire' = [wire EXCEPT !.of.payload = s.bytes]
      BY <2>4
    <3>2. s.bytes \in CoreBytes
      BY <3>1 DEF Inv, SignedInv, SignedAs
    <3>3. QED
      BY <1>2, <3>1, <3>2 DEF MessageBytes
  <2>5. QED
    BY <2>1, <2>2, <2>3, <2>4 DEF Damage
<1>4. TypeOK'
  BY <1>1, <1>3 DEF Inv, TypeOK, Arrived
<1>5. KnownInv'
  BY <1>1, <1>3 DEF KnownInv, Known, Arrived
<1>6. SignedInv' /\ VerdictInv' /\ JourneyInv'
  BY <1>1 DEF Inv, SignedInv, VerdictInv, JourneyInv, Arrived
<1>7. QED
  BY <1>4, <1>5, <1>6 DEF Inv

\* Every step keeps the invariant.
LEMMA Step == Inv /\ [Next]_vars => Inv'
<1> SUFFICES ASSUME Inv, [Next]_vars PROVE Inv'
  OBVIOUS
<1>1. CASE UNCHANGED vars
  BY <1>1 DEF vars, Inv, TypeOK, SignedInv, KnownInv, Known, VerdictInv, JourneyInv
<1>2. CASE Next
  BY <1>2, SignDataStep, CreateStep, CreateSignedStep, SendStep, ReceiveStep,
     MadeElsewhereStep, DamageStep DEF Next
<1>3. QED
  BY <1>1, <1>2

-----------------------------------------------------------------------------
(* What the invariant says of the messages.                                *)

\* Decoded arguments read as the object that was encoded, or cleaned and encoded;
\* but a string '0' that was cleaned reads as empty.
LEMMA ReadsOfObject ==
  ASSUME NEW data \in Payloads, NEW b \in Arguments,
         b.of \in {Encode(data).of, Encode(cleanZeroValuedFields(data)).of},
         NEW f \in StringFields \cup IntFields
  PROVE  \/ Reads(Decode(b), f) = Reads(data, f)
         \/ f \in StringFields /\ Reads(data, f) = "0" /\ Reads(Decode(b), f) = ""
<1> DEFINE clean == cleanZeroValuedFields(data)
<1>1. /\ DOMAIN clean = {g \in DOMAIN data : verifyElement(data[g])}
      /\ \A g \in DOMAIN clean : clean[g] = data[g]
  BY CleanedObject
<1>2. Decode(b) = [g \in DOMAIN b.of |-> [type |-> TypeOf(g), text |-> b.of[g]]]
  BY DEF Decode
<1>3. Reads(Decode(b), f) = IF f \in DOMAIN b.of THEN b.of[f]
                            ELSE IF f \in IntFields THEN "0" ELSE ""
  <2>1. DOMAIN Decode(b) = DOMAIN b.of
    BY <1>2
  <2>2. f \in DOMAIN b.of => Decode(b)[f].text = b.of[f]
    BY <1>2
  <2>3. QED
    BY <2>1, <2>2 DEF Reads
<1>4. CASE b.of = Encode(data).of
  <2>1. b.of = [g \in DOMAIN data |-> data[g].text]
    BY <1>4 DEF Encode
  <2>2. QED
    BY <1>3, <2>1 DEF Reads
<1>5. CASE b.of = Encode(clean).of
  <2>1. b.of = [g \in DOMAIN clean |-> clean[g].text]
    BY <1>5 DEF Encode
  <2> HIDE DEF clean
  <2>2. CASE f \in DOMAIN clean
    BY <1>1, <1>3, <2>1, <2>2 DEF Reads
  <2>3. CASE f \notin DOMAIN data
    BY <1>1, <1>3, <2>1, <2>3 DEF Reads
  <2>4. CASE f \in DOMAIN data /\ f \notin DOMAIN clean
    <3>1. ~verifyElement(data[f])
      BY <1>1, <2>4
    <3>2. /\ f \in StringFields => data[f].type = "string"
          /\ f \in IntFields => data[f].text # ""
          /\ data[f].text \in {"0", ""}
      BY <2>4, <3>1, PayloadAssumption DEF verifyElement
    <3>3. Reads(data, f) = data[f].text
      BY <2>4 DEF Reads
    <3>4. Reads(Decode(b), f) = IF f \in IntFields THEN "0" ELSE ""
      BY <1>3, <2>1, <2>4
    <3>5. QED
      BY <3>2, <3>3, <3>4
  <2>5. QED
    BY <2>2, <2>3, <2>4
<1>6. QED
  BY <1>4, <1>5

\* Arguments are no CoreMessage: it has a kind, which is no field of an object.
LEMMA ArgumentsAreNoCore ==
  ASSUME NEW b \in Arguments
  PROVE  b \notin CoreBytes
<1>1. PICK D \in SUBSET Fields : b.of \in [D -> Text]
  BY DEF Arguments
<1>2. "kind" \notin DOMAIN b.of
  BY <1>1 DEF Fields, StringFields, IntFields, MessageFields
<1>3. \A c \in Core : "kind" \in DOMAIN c
  BY DEF Core
<1>4. QED
  BY <1>2, <1>3 DEF CoreBytes

\* Bytes of a Type are no CoreMessage.
LEMMA PlainIsNoCore ==
  ASSUME NEW data \in Payloads
  PROVE  Encode(cleanZeroValuedFields(data)) \notin CoreBytes
BY CleanedObject, EncodedObject, ArgumentsAreNoCore

\* A received message was signed, as a call of the receiver, by its author.
LEMMA ReceivedIsSigned ==
  ASSUME Inv, stage = "received"
  PROVE  Delivered
<1>1. wire \in MessageBytes /\ receiver \in Types /\ verified = Opened(wire.of)
      /\ Verdict(wire, receiver) = "received" /\ Known(wire.of.signature)
  BY DEF Inv, TypeOK, VerdictInv, KnownInv, Arrived
<1>2. /\ wire.of.signature # none /\ Genuine(wire.of)
      /\ wire.of.payload.of.kind = "call"
      /\ IsCallOf(wire.of.payload.of.call_info, receiver)
  BY <1>1, Receiving
<1>3. PICK s \in signed : wire.of.signature = <<s.key, s.bytes>>
  BY <1>1, <1>2 DEF Known
<1>4. s.key = wire.of.author /\ s.bytes = wire.of.payload
  BY <1>2, <1>3 DEF Genuine, Sign
<1>5. wire.of.payload \in CoreBytes /\ s.data \in Payloads
  BY <1>1 DEF MessageBytes, Inv, TypeOK
<1>6. /\ s.type \in Types /\ s.bytes.of.call_info = s.type
      /\ s.bytes.of.arguments.of \in
           {Encode(s.data).of, Encode(cleanZeroValuedFields(s.data)).of}
  BY <1>2, <1>4, <1>5, PlainIsNoCore DEF Inv, SignedInv, SignedAs
<1>7. \A f \in IdFields : IdOf(s.type, f) = IdOf(receiver, f)
  BY <1>2, <1>4, <1>6 DEF IsCallOf, IdOf
<1>8. verified.author = s.key /\ verified.payload = Decode(s.bytes.of.arguments)
  BY <1>1, <1>4, RecodedParts
<1>9. s.bytes.of.arguments \in Arguments
  BY <1>4, <1>5 DEF CoreBytes, Core
<1>10. \A f \in StringFields \cup IntFields :
         \/ Reads(verified.payload, f) = Reads(s.data, f)
         \/ f \in StringFields /\ Reads(s.data, f) = "0" /\ Reads(verified.payload, f) = ""
  <2> DEFINE b == s.bytes.of.arguments
             data == s.data
  <2>1. /\ data \in Payloads /\ b \in Arguments /\ verified.payload = Decode(b)
        /\ b.of \in {Encode(data).of, Encode(cleanZeroValuedFields(data)).of}
    BY <1>5, <1>6, <1>8, <1>9
  <2> HIDE DEF b, data
  <2>2. \A f \in StringFields \cup IntFields :
          \/ Reads(Decode(b), f) = Reads(data, f)
          \/ f \in StringFields /\ Reads(data, f) = "0" /\ Reads(Decode(b), f) = ""
    BY <2>1, ReadsOfObject
  <2>3. QED
    BY <2>1, <2>2 DEF data
<1>11. QED
  BY <1>6, <1>7, <1>8, <1>10 DEF Delivered

\* A message comes as it was made or as the library encodes it.
LEMMA ArrivesRecoded ==
  ASSUME Inv, stage \in Arrived, origin # none
  PROVE  /\ wire \in MessageBytes /\ origin \in MessageBytes /\ receiver \in Types
         /\ stage = Verdict(wire, receiver)
         /\ Recode(wire) = Recode(origin)
         /\ stage = "received" =>
              verified.bytes = Recode(wire)
              /\ verified.payload = Decode(wire.of.payload.of.arguments)
<1>1. wire \in MessageBytes /\ origin \in MessageBytes /\ receiver \in Types
  BY DEF Inv, TypeOK, Arrived
<1>2. wire = origin \/ wire = Recode(origin)
  BY DEF Inv, JourneyInv, Arrived
<1>3. QED
  BY <1>1, <1>2, RecodedParts DEF Inv, VerdictInv, Arrived

\* Encoding again changes nothing exactly if both levels were canonical.
LEMMA RecodedCanonical ==
  ASSUME NEW b \in MessageBytes
  PROVE  Recode(b) = b <=> b.form = "canonical" /\ b.of.payload.form = "canonical"
<1>1. Recode(b) = [of |-> [payload |-> [of |-> b.of.payload.of, form |-> "canonical"],
                           author |-> b.of.author, signature |-> b.of.signature],
                   form |-> "canonical"]
  BY DEF Recode, Verified, Canonical, CoreEncoded
<1>2. b = [of |-> [payload |-> [of |-> b.of.payload.of, form |-> b.of.payload.form],
                   author |-> b.of.author, signature |-> b.of.signature],
           form |-> b.form]
  BY DEF MessageBytes, CoreBytes
<1>3. QED
  BY <1>1, <1>2

\* What is received has the original bytes if these were canonical, and else not.
LEMMA HashesAgree ==
  Inv => HashIsThatOfOrigin
BY ArrivesRecoded, RecodedCanonical DEF HashIsThatOfOrigin, Arrived

\* The verdict on the original decides what every later program says, for the
\* signature is checked against the bytes that arrive.
LEMMA VerdictsAgree ==
  ASSUME Inv, stage \in Arrived, origin # none
  PROVE  HopsAgree
<1> DEFINE m == origin.of
<1>1. /\ wire \in MessageBytes /\ origin \in MessageBytes /\ receiver \in Types
      /\ stage = Verdict(wire, receiver)
      /\ stage = "received" => verified.payload = Decode(wire.of.payload.of.arguments)
  BY ArrivesRecoded
<1>2. m.author # none /\ m.signature # none
  BY DEF Inv, JourneyInv
<1>3. \/ wire = origin
      \/ Genuine(m) /\ m.payload.of.kind = "call" /\ wire = Recode(origin)
  BY DEF Inv, JourneyInv, Arrived
<1>4. /\ wire.of.author = m.author /\ wire.of.signature = m.signature
      /\ wire.of.payload.of = m.payload.of
  BY <1>1, <1>3, RecodedParts
<1>5. wire # origin => (Genuine(wire.of) <=> m.payload.form = "canonical")
  <2>1. SUFFICES ASSUME wire # origin
                 PROVE  Genuine(wire.of) <=> m.payload.form = "canonical"
    OBVIOUS
  <2>2. Genuine(m) /\ wire = Recode(origin)
    BY <1>3, <2>1
  <2>3. Genuine(wire.of) <=> wire.of.payload = m.payload
    BY <1>4, <2>2 DEF Genuine, Sign
  <2>4. wire.of.payload = [of |-> m.payload.of, form |-> "canonical"]
    BY <2>2 DEF Recode, Verified, Canonical, CoreEncoded
  <2>5. m.payload = [of |-> m.payload.of, form |-> m.payload.form]
    BY <1>1 DEF MessageBytes, CoreBytes
  <2>6. QED
    BY <2>3, <2>4, <2>5
<1>6. /\ stage = "received" <=>
           Genuine(wire.of) /\ m.payload.of.kind = "call" /\ IsCallOf(m.payload.of.call_info, receiver)
      /\ stage = "thrown" <=> Genuine(wire.of) /\ m.payload.of.kind = "bare"
  BY <1>1, <1>2, <1>4, Receiving
<1>7. Genuine(m) <=> m.signature = Sign(m.author, m.payload)
  BY DEF Genuine
<1>8. QED
  BY <1>1, <1>3, <1>4, <1>5, <1>6, <1>7 DEF HopsAgree

\* What sign makes for a Transaction are the bytes that create puts into a message.
LEMMA SignedCallFits ==
  ASSUME Inv, NEW s \in signed, s.type \in Types, s.bytes = Serialize(s.type, s.data)
  PROVE  LET v == Verified(Call(s.type, s.data), s.key, Sign(s.key, s.bytes))
             own == CoreEncoded(Call(s.type, s.data))
         IN /\ v = Verified(Call(s.type, s.data), s.key, Sign(s.key, own))
            /\ Verdict(v.bytes, s.type) =
                 IF DOMAIN s.type = IdFields THEN "received" ELSE "refused"
<1> DEFINE core == Call(s.type, s.data)
           v == Verified(core, s.key, Sign(s.key, s.bytes))
<1>1. /\ s.key \in Keys /\ s.data \in Payloads
      /\ Sign(s.key, s.bytes) \in Signatures
  BY KnownSignature DEF Inv, TypeOK
<1>2. s.bytes = CoreEncoded(core)
  BY TypesAssumption DEF Serialize
<1>3. core \in Core /\ core.kind = "call" /\ core.call_info = s.type
  BY <1>1, CalledObject
<1> HIDE DEF core
<1>4. /\ v.bytes.of.payload = s.bytes /\ v.bytes.of.author = s.key
      /\ v.bytes.of.signature = Sign(s.key, s.bytes)
  BY <1>2 DEF Verified, Canonical
<1>5. v.bytes \in MessageBytes
  BY <1>1, <1>3, VerifiedType DEF Made, Recoded
<1>6. v.bytes.of.payload.of = core
  BY <1>2, <1>3, <1>4, CoreEncodedType
<1> HIDE DEF v
<1>7. none \notin {v.bytes.of.author, v.bytes.of.signature}
  BY <1>1, <1>4, TypesAssumption
<1>8. VerifyDetached(v.bytes.of.payload, v.bytes.of.signature, v.bytes.of.author)
  BY <1>4 DEF VerifyDetached, Sign
<1>9. IsCallOf(s.type, s.type) <=> DOMAIN s.type = IdFields
  BY TypesAssumption DEF IsCallOf, IdOf
<1>10. Verdict(v.bytes, s.type) = IF DOMAIN s.type = IdFields THEN "received" ELSE "refused"
  BY <1>3, <1>6, <1>7, <1>8, <1>9 DEF Verdict
<1>11. QED
  BY <1>2, <1>10 DEF v, core

\* What is decoded has nothing to be cleaned if no zero was written, and is encoded
\* as it was.
LEMMA DecodedIsClean ==
  ASSUME NEW b \in Arguments, ~HasZeros(b)
  PROVE  Encode(cleanZeroValuedFields(Decode(b))).of = b.of
<1>1. PICK D \in SUBSET Fields : b.of \in [D -> Text]
  BY DEF Arguments
<1>2. Decode(b) = [f \in D |-> [type |-> TypeOf(f), text |-> b.of[f]]]
  BY <1>1 DEF Decode
<1>3. ASSUME NEW f \in D PROVE verifyElement(Decode(b)[f])
  <2>1. Decode(b)[f] = [type |-> TypeOf(f), text |-> b.of[f]]
    BY <1>2
  <2>2. CASE f \in StringFields
    <3>1. f \notin MessageFields
      BY <2>2 DEF StringFields, MessageFields
    <3>2. b.of[f] \notin {"0", ""}
      BY <1>1, <3>1 DEF HasZeros
    <3>3. Decode(b)[f].type = "string" /\ Decode(b)[f].text = b.of[f]
      BY <2>1, <2>2 DEF TypeOf
    <3>4. QED
      BY <3>2, <3>3 DEF verifyElement
  <2>3. CASE f \notin StringFields
    BY <2>1, <2>3 DEF verifyElement, TypeOf
  <2>4. QED
    BY <2>2, <2>3
<1>4. cleanZeroValuedFields(Decode(b)) = Decode(b)
  <2>1. {f \in DOMAIN Decode(b) : verifyElement(Decode(b)[f])} = D
    BY <1>2, <1>3
  <2>2. cleanZeroValuedFields(Decode(b)) = [f \in D |-> Decode(b)[f]]
    BY <2>1 DEF cleanZeroValuedFields, RestrictValues, Restrict
  <2>3. QED
    BY <1>2, <2>2
<1>5. Encode(Decode(b)).of = [f \in D |-> b.of[f]]
  BY <1>2 DEF Encode
<1>6. QED
  BY <1>1, <1>4, <1>5

\* A message whose bytes are canonical is made again from what deserialize returns.
LEMMA ReceivedIsMadeAgain ==
  Inv => CreatedAgain
<1> DEFINE m == wire.of.payload
           core == Call(receiver, verified.payload)
           again == Verified(core, verified.author,
                             Sign(verified.author, CoreEncoded(core)))
<1>1. SUFFICES ASSUME Inv, stage = "received", ~HasZeros(m.of.arguments),
                      m.of.call_info = receiver,
                      "other" \notin {m.form, m.of.arguments.form}
               PROVE  again.bytes = verified.bytes
  BY DEF CreatedAgain
<1>2. /\ wire \in MessageBytes /\ receiver \in Types /\ verified = Opened(wire.of)
      /\ Verdict(wire, receiver) = "received"
  BY <1>1 DEF Inv, TypeOK, VerdictInv, Arrived
<1>3. Genuine(wire.of) /\ m.of.kind = "call"
  BY <1>2, Receiving
<1>4. m \in CoreBytes /\ m.of \in Core /\ m.of.arguments \in Arguments
  BY <1>2 DEF MessageBytes, CoreBytes, Core
<1>5. m.form = "canonical" /\ m.of.arguments.form = "canonical"
  BY <1>1, <1>4 DEF CoreBytes, Arguments, Forms
<1>6. /\ verified.payload = Decode(m.of.arguments) /\ verified.bytes = Recode(wire)
      /\ verified.author = wire.of.author
  BY <1>2, RecodedParts
<1>7. Encode(cleanZeroValuedFields(verified.payload)) = m.of.arguments
  <2> DEFINE args == m.of.arguments
  <2>1. Encode(cleanZeroValuedFields(Decode(args))).of = args.of
    BY <1>1, <1>4, DecodedIsClean
  <2>2. Encode(cleanZeroValuedFields(Decode(args))) = [of |-> args.of, form |-> "canonical"]
    BY <2>1 DEF Encode
  <2>3. args = [of |-> args.of, form |-> args.form]
    BY <1>4 DEF Arguments
  <2>4. QED
    BY <1>5, <1>6, <2>2, <2>3
<1>8. core = m.of
  BY <1>1, <1>3, <1>4, <1>7 DEF Call, Core
<1>9. CoreEncoded(core) = m
  BY <1>4, <1>5, <1>8 DEF CoreEncoded, Canonical, CoreBytes
<1>10. again.bytes = Canonical([payload |-> m, author |-> wire.of.author,
                                signature |-> Sign(wire.of.author, m)])
  BY <1>6, <1>9 DEF Verified
<1>11. Recode(wire) = Canonical([payload |-> CoreEncoded(m.of), author |-> wire.of.author,
                                 signature |-> wire.of.signature])
  BY DEF Recode, Verified
<1>12. QED
  BY <1>3, <1>6, <1>8, <1>9, <1>10, <1>11 DEF Genuine

\* An object is encoded as its cleaned form exactly if it has no zeros.
LEMMA CleanOrChanged ==
  ASSUME NEW data \in Payloads
  PROVE  Encode(cleanZeroValuedFields(data)) = Encode(data) <=> ~HasZeros(Encode(data))
<1> DEFINE clean == cleanZeroValuedFields(data)
<1>1. /\ DOMAIN clean = {f \in DOMAIN data : verifyElement(data[f])}
      /\ \A f \in DOMAIN clean : clean[f] = data[f]
  BY CleanedObject
<1>2. /\ Encode(data).of = [f \in DOMAIN data |-> data[f].text]
      /\ Encode(clean).of = [f \in DOMAIN clean |-> clean[f].text]
      /\ Encode(data).form = Encode(clean).form
  BY DEF Encode
<1> HIDE DEF clean
<1>3. ASSUME NEW f \in DOMAIN data
      PROVE  verifyElement(data[f]) <=> (f \notin MessageFields => data[f].text \notin {"0", ""})
  <2>1. data[f].type \in {"number", "string", "object"} /\ f \in Fields
    <3>1. PICK D \in SUBSET Fields : data \in [D -> Value]
      BY PayloadAssumption
    <3>2. f \in D /\ data[f] \in Value
      BY <3>1
    <3>3. QED
      BY <3>2 DEF Value
  <2>2. /\ f \in StringFields => data[f].type = "string"
        /\ f \in IntFields => data[f].type # "object" /\ data[f].text # ""
        /\ f \in MessageFields <=> data[f].type = "object"
    BY PayloadAssumption
  <2>3. CASE f \in MessageFields
    BY <2>2, <2>3 DEF verifyElement
  <2>4. CASE f \in StringFields
    <3>1. data[f].type = "string" /\ f \notin MessageFields
      BY <2>2, <2>4 DEF StringFields, MessageFields
    <3>2. QED
      BY <3>1 DEF verifyElement
  <2>5. CASE f \in IntFields
    <3>1. f \notin MessageFields /\ data[f].type \in {"number", "string"} /\ data[f].text # ""
      BY <2>1, <2>2, <2>5 DEF IntFields, MessageFields
    <3>2. QED
      BY <3>1 DEF verifyElement
  <2>6. QED
    BY <2>1, <2>3, <2>4, <2>5 DEF Fields
<1>4. HasZeros(Encode(data)) <=>
        \E f \in DOMAIN data \ MessageFields : data[f].text \in {"0", ""}
  BY <1>2 DEF HasZeros
<1>5. ~HasZeros(Encode(data)) <=> DOMAIN clean = DOMAIN data
  BY <1>1, <1>3, <1>4
<1>6. DOMAIN clean = DOMAIN data <=> Encode(clean) = Encode(data)
  <2>1. ASSUME DOMAIN clean = DOMAIN data PROVE Encode(clean) = Encode(data)
    <3>1. [f \in DOMAIN clean |-> clean[f].text] = [f \in DOMAIN data |-> data[f].text]
      BY <1>1, <2>1
    <3>2. QED
      BY <3>1 DEF Encode
  <2>2. ASSUME Encode(clean) = Encode(data) PROVE DOMAIN clean = DOMAIN data
    BY <1>2, <2>2
  <2>3. QED
    BY <2>1, <2>2
<1>7. QED
  BY <1>5, <1>6 DEF clean

\* verifySignature encodes the fields of the data, with those that sign leaves out
\* and without the call around them.
LEMMA SignedIsVerifiedIfClean ==
  ASSUME Inv, NEW s \in signed, s.type # none, s.bytes = Serialize(s.type, s.data)
  PROVE  verifySignature(Sign(s.key, s.bytes), s.key, s.data, s.type) <=>
           s.type = plain /\ ~HasZeros(Encode(s.data))
<1>1. s.type \in Types \cup {plain} /\ s.data \in Payloads
  BY DEF Inv, TypeOK
<1>2. verifySignature(Sign(s.key, s.bytes), s.key, s.data, s.type) <=>
        s.bytes = Encode(s.data)
  BY DEF verifySignature, VerifyDetached, Sign
<1>3. CASE s.type = plain
  BY <1>1, <1>2, <1>3, CleanOrChanged DEF Serialize
<1>4. CASE s.type # plain
  <2>1. s.bytes = CoreEncoded(Call(s.type, s.data)) /\ s.type \in Types
    BY <1>1, <1>4 DEF Serialize
  <2>2. s.bytes \in CoreBytes
    BY <1>1, <2>1, CalledObject, CoreEncodedType
  <2>3. Encode(s.data) \in Arguments
    BY <1>1, PayloadAssumption, EncodedObject
  <2>4. QED
    BY <1>2, <1>4, <2>2, <2>3, ArgumentsAreNoCore
<1>5. QED
  BY <1>3, <1>4

-----------------------------------------------------------------------------
(* The results.                                                            *)

\* The variables keep their types, whatever is signed, damaged or handed on.
THEOREM TypeCorrect == Spec => []TypeOK
<1>1. Inv => TypeOK
  BY DEF Inv
<1>2. QED
  BY <1>1, Initially, Step, PTL DEF Spec

\* deserialize returns only what its author has signed for this service and
\* method, with the fields of the author's object (but for the string '0').
THEOREM DeliveryIsAuthentic == Spec => []Delivered
<1>1. Inv => Delivered
  BY ReceivedIsSigned DEF Delivered
<1>2. QED
  BY <1>1, Initially, Step, PTL DEF Spec

\* The hash of a received message is that of the original bytes exactly if these
\* were canonical.
THEOREM HashSurvivesTheJourney == Spec => []HashIsThatOfOrigin
<1>1. QED
  BY HashesAgree, Initially, Step, PTL DEF Spec

\* All programs that an undamaged message passes come to the same verdict, but for
\* signed bytes that are not canonical.
THEOREM ProgramsAgree == Spec => []HopsAgree
<1>1. Inv => HopsAgree
  BY VerdictsAgree DEF HopsAgree
<1>2. QED
  BY <1>1, Initially, Step, PTL DEF Spec

\* A signature made apart by sign fits the message that create makes of the same
\* data: it is the message of the key pair, and is accepted.
THEOREM DetachedSignaturesFit == Spec => []DetachedSignatureFits
<1>1. Inv => DetachedSignatureFits
  BY SignedCallFits DEF DetachedSignatureFits
<1>2. QED
  BY <1>1, Initially, Step, PTL DEF Spec

\* What deserialize returns can be created again, if the message had no zeros and no
\* other form than the library's.
THEOREM PayloadsAreCreatedAgain == Spec => []CreatedAgain
<1>1. QED
  BY ReceivedIsMadeAgain, Initially, Step, PTL DEF Spec

\* verifySignature confirms what sign has signed for a Type if nothing was cleaned,
\* and else, or for a Transaction, never.
THEOREM OnlyCleanDataVerify == Spec => []VerifiesCleanOnly
<1>1. Inv => VerifiesCleanOnly
  BY SignedIsVerifiedIfClean DEF VerifiesCleanOnly
<1>2. QED
  BY <1>1, Initially, Step, PTL DEF Spec
=============================================================================
