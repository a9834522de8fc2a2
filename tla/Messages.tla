------------------------------ MODULE Messages ------------------------------
(***************************************************************************)
(* Signed messages: Transaction and Verified of src/src/types/message.js,  *)
(* Type of src/src/types/generic.js, sign and verifySignature of           *)
(* src/src/crypto/index.js and cleanZeroValuedFields of src/src/helpers.js.*)
(*                                                                         *)
(* A message is created, travels, and is deserialized and serialized again *)
(* by one program after the other; another implementation may have made    *)
(* it, and it may be damaged.  Bytes are what they encode and the `form` in*)
(* which they do: "canonical" is what an encoder of the library makes of   *)
(* an object, and decoding forgets the form, which may be another order of *)
(* the fields, fields that the schema does not know, or repeated ones.     *)
(***************************************************************************)
EXTENDS Naturals, FiniteSets, Functions

CONSTANTS Keys,      \* key pairs, and the public keys as authors
          Types,     \* Transactions: their ids as the constructor finds them
          plain,     \* a Type of generic.js
          Payloads,  \* objects given to the library, flat: a function on the
                     \* fields that are there, those of nested messages too
          none,      \* a field that is not there
          MaxData    \* bound on the signatures made by sign

StringFields == {"name", "note"}
IntFields == {"balance"}
IdFields == {"instance_id", "method_id"}
MessageFields == {"owner"}

Fields == StringFields \cup IntFields \cup MessageFields

\* A JavaScript value: what typeof says, and its digits or characters.
Text == {"0", "7", ""}
Value == [type : {"number", "string", "object"}, text : Text]

\* Encoded arguments, a CoreMessage around them and a SignedMessage around that.
Forms == {"canonical", "other"}
Arguments == [of : UNION {[D -> Text] : D \in SUBSET Fields}, form : Forms]
Core == [kind : {"call", "bare", "other"}, call_info : Types, arguments : Arguments]
CoreBytes == [of : Core, form : Forms]
Signatures == Keys \X (CoreBytes \cup Arguments)
MessageBytes == [of : [payload : CoreBytes, author : Keys \cup {none},
                       signature : Signatures \cup {none}],
                 form : Forms]

ASSUME PayloadAssumption ==
  /\ \A p \in Payloads : p \in UNION {[D -> Value] : D \in SUBSET Fields}
  /\ \A p \in Payloads : \A f \in DOMAIN p :
       /\ f \in StringFields => p[f].type = "string"
       /\ f \in IntFields => p[f].type # "object" /\ p[f].text # ""
       /\ f \in MessageFields <=> p[f].type = "object"
       /\ f = "note" => "owner" \in DOMAIN p

ASSUME TypesAssumption ==
  /\ \A t \in Types : DOMAIN t \subseteq IdFields /\ \A f \in DOMAIN t : t[f] \in Nat
  /\ plain \notin Types /\ none \notin Types \cup {plain}
  /\ none \notin Keys /\ none \notin Signatures

VARIABLES
  wire,      \* the message on its way, as bytes, or none
  verified,  \* the Verified object of the program that has the message, or none
  receiver,  \* the Transaction whose deserialize was called last
  stage,     \* "held" by a program, "sent", or what deserialize returned
  signed,    \* history: signatures made, with what was asked to be signed
  origin     \* history: the message as it was made, if it is not damaged

vars == <<wire, verified, receiver, stage, signed, origin>>

Init ==
  /\ wire = none /\ verified = none /\ receiver = none /\ stage = "idle"
  /\ signed = {} /\ origin = none

-----------------------------------------------------------------------------
(* Encodings.                                                              *)

\* An element is left out: the number 0, the string '0' and the empty string.
verifyElement(v) ==
  /\ v.type = "string" => v.text \notin {"0", ""}
  /\ v.type = "number" => v.text # "0"

\* Objects are cleaned field by field and always kept.
cleanZeroValuedFields(data) == RestrictValues(data, verifyElement)

\* schema.encode: a field is written if it is there, zeros and all.
Encode(data) == [of |-> [f \in DOMAIN data |-> data[f].text], form |-> "canonical"]

TypeOf(f) == IF f \in StringFields THEN "string" ELSE "object"

\* Mutated form: fields that are not there get their defaults.
DecodeDefaults(bytes) ==
  [f \in StringFields \cup IntFields \cup MessageFields |->
     [type |-> TypeOf(f), text |-> IF f \in DOMAIN bytes.of THEN bytes.of[f]
                                   ELSE IF f \in IntFields THEN "0" ELSE ""]]

\* schema.decode: fields that are written, integers as objects (of class Long).
Decode(bytes) == [f \in DOMAIN bytes.of |-> [type |-> TypeOf(f), text |-> bytes.of[f]]]

\* CoreMessage and SignedMessage: no field of an object needs a conversion.
Canonical(object) == [of |-> object, form |-> "canonical"]

\* Mutated form: the zero ids of a call are cleaned as well.
CoreCleaned(core) ==
  Canonical([core EXCEPT !.call_info = RestrictValues(@, LAMBDA id : id # 0)])

CoreEncoded(core) == Canonical(core)

\* _serializePayload: undefined ids of the type are not there in call_info.
Call(t, data) ==
  [kind |-> "call", call_info |-> t, arguments |-> Encode(cleanZeroValuedFields(data))]

\* Mutated form: what is signed is not cleaned, as in verifySignature.
SerializeAsIs(t, data) ==
  IF t = plain THEN Encode(data)
  ELSE CoreEncoded([Call(t, data) EXCEPT !.arguments = Encode(data)])

\* type.serialize, of a Type or a Transaction.
Serialize(t, data) ==
  IF t = plain THEN Encode(cleanZeroValuedFields(data)) ELSE CoreEncoded(Call(t, data))

-----------------------------------------------------------------------------
(* crypto.                                                                 *)

\* Signatures are the pairs of signer and bytes.
Sign(key, bytes) == <<key, bytes>>

VerifyDetached(bytes, signature, key) == signature = <<key, bytes>>

\* Mutated form: the data is cleaned, too.
verifyCleaned(signature, key, data, t) ==
  VerifyDetached(Encode(cleanZeroValuedFields(data)), signature, key)

\* crypto.verifySignature of data of a type: type.schema encodes it as it is.
verifySignature(signature, key, data, t) == VerifyDetached(Encode(data), signature, key)

-----------------------------------------------------------------------------
(* Verified and Transaction.                                               *)

\* The constructor encodes the message, whatever it was decoded from.
Verified(core, author, signature) ==
  [payload |-> core, author |-> author, signature |-> signature,
   bytes |-> Canonical([payload |-> CoreEncoded(core), author |-> author,
                        signature |-> signature])]

Remember(key, bytes, t, data) ==
  signed' = signed \cup {[key |-> key, bytes |-> bytes, type |-> t, data |-> data]}

Hold(v) ==
  /\ stage = "idle"
  /\ verified' = v /\ stage' = "held"
  /\ origin' = v.bytes
  /\ UNCHANGED <<wire, receiver>>

\* crypto.sign, by a program that creates the message elsewhere.
SignData ==
  /\ Cardinality(signed) < MaxData
  /\ \E key \in Keys, t \in Types \cup {plain}, data \in Payloads :
       Remember(key, Serialize(t, data), t, data)
  /\ UNCHANGED <<wire, verified, receiver, stage, origin>>

\* create, with a key pair.
Create ==
  \E key \in Keys, t \in Types, data \in Payloads :
    LET bytes == CoreEncoded(Call(t, data))
    IN /\ Remember(key, bytes, t, data)
       /\ Hold(Verified(Call(t, data), key, Sign(key, bytes)))

\* create, with an author and some signature.
CreateSigned ==
  /\ \E author \in Keys, t \in Types, data \in Payloads, s \in signed :
       Hold(Verified(Call(t, data), author, Sign(s.key, s.bytes)))
  /\ UNCHANGED signed

\* serialize, and what becomes of the bytes.
Send ==
  /\ stage \in {"held", "received"}
  /\ wire' = verified.bytes /\ stage' = "sent"
  /\ verified' = none /\ receiver' = none
  /\ UNCHANGED <<signed, origin>>

\* An id that is not written is read as 0.
IdOf(call_info, f) == IF f \in DOMAIN call_info THEN call_info[f] ELSE 0

\* Mutated form: one id is compared.
IsCallOfService(call_info, t) ==
  "instance_id" \in DOMAIN t /\ IdOf(call_info, "instance_id") = t["instance_id"]

\* The ids of a call are those of the type, if these are not undefined.
IsCallOf(call_info, t) ==
  \A f \in IdFields : f \in DOMAIN t /\ IdOf(call_info, f) = t[f]

\* Mutated form: the signature is checked against the bytes to be encoded.
VerdictRecoded(bytes, t) ==
  LET m == bytes.of
  IN IF none \in {m.author, m.signature} THEN "thrown"
     ELSE IF ~VerifyDetached(CoreEncoded(m.payload.of), m.signature, m.author) THEN "refused"
     ELSE IF m.payload.of.kind = "other" THEN "refused"
     ELSE IF m.payload.of.kind = "bare" THEN "thrown"
     ELSE IF IsCallOf(m.payload.of.call_info, t) THEN "received" ELSE "refused"

\* deserialize: a TypeError for what it needs and is not there, null, or a message.
Verdict(bytes, t) ==
  LET m == bytes.of
  IN IF none \in {m.author, m.signature} THEN "thrown"
     ELSE IF ~VerifyDetached(m.payload, m.signature, m.author) THEN "refused"
     ELSE IF m.payload.of.kind = "other" THEN "refused"
     ELSE IF m.payload.of.kind = "bare" THEN "thrown"
     ELSE IF IsCallOf(m.payload.of.call_info, t) THEN "received" ELSE "refused"

\* Mutated form: the payload is still that of the core.
OpenedAsCore(m) == Verified(m.payload.of, m.author, m.signature)

\* The object that is returned: its payload is decoded after its bytes are encoded.
Opened(m) ==
  [Verified(m.payload.of, m.author, m.signature) EXCEPT !.payload = Decode(@.arguments)]

Receive ==
  /\ stage = "sent"
  /\ \E t \in Types :
       /\ receiver' = t /\ stage' = Verdict(wire, t)
       /\ verified' = IF stage' = "received" THEN Opened(wire.of) ELSE none
  /\ UNCHANGED <<wire, signed, origin>>

-----------------------------------------------------------------------------
(* Around the library.                                                     *)

\* Another implementation makes a message, with zeros or without: canonical, or
\* with another form on one level, or no transaction, or one without call_info.
MadeElsewhere ==
  /\ stage = "idle"
  /\ \E key \in Keys, t \in Types, data \in Payloads,
        odd \in {"nothing", "arguments", "core", "message", "bare", "other"} :
       LET encoded(x, level) ==
             [of |-> x, form |-> IF odd = level THEN "other" ELSE "canonical"]
           kind == IF odd \in {"bare", "other"} THEN odd ELSE "call"
           core == [kind |-> kind, call_info |-> t,
                    arguments |-> encoded(Encode(data).of, "arguments")]
           bytes == encoded(core, "core")
       IN /\ Remember(key, bytes, IF kind = "call" THEN t ELSE none, data)
          /\ wire' = encoded([payload |-> bytes, author |-> key,
                              signature |-> Sign(key, bytes)], "message")
  /\ origin' = wire' /\ stage' = "sent"
  /\ UNCHANGED <<verified, receiver>>

\* Once, a part of the message is lost, or is that of another message.
Damage ==
  /\ stage = "sent" /\ origin # none
  /\ \/ \E a \in Keys \cup {none} : wire' = [wire EXCEPT !.of.author = a]
     \/ wire' = [wire EXCEPT !.of.signature = none]
     \/ \E s \in signed : wire' = [wire EXCEPT !.of.signature = Sign(s.key, s.bytes)]
     \/ \E s \in signed : s.type # plain /\ wire' = [wire EXCEPT !.of.payload = s.bytes]
  /\ wire' # wire
  /\ origin' = none
  /\ UNCHANGED <<verified, receiver, stage, signed>>

Next == SignData \/ Create \/ CreateSigned \/ Send \/ Receive \/ MadeElsewhere \/ Damage

Spec == Init /\ [][Next]_vars

-----------------------------------------------------------------------------
(* Properties.                                                             *)

\* What has become of a message when deserialize is done.
Arrived == {"received", "refused", "thrown"}

\* The bytes of a Verified object are canonical on both levels.
Recoded == {b \in MessageBytes : b.form = "canonical" /\ b.of.payload.form = "canonical"}
Made == [payload : Core, author : Keys, signature : Signatures, bytes : Recoded]
Delivery == [payload : UNION {[D -> Value] : D \in SUBSET Fields},
             author : Keys, signature : Signatures, bytes : Recoded]

\* Objects of the library are well formed, and its bytes canonical.
TypeOK ==
  /\ IF stage \in Arrived \cup {"sent"} THEN wire \in MessageBytes
     ELSE stage \in {"idle", "held"} /\ wire = none
  /\ IF stage \in Arrived THEN receiver \in Types ELSE receiver = none
  /\ IF stage = "held" THEN verified \in Made
     ELSE IF stage = "received" THEN verified \in Delivery
     ELSE verified = none
  /\ signed \subseteq [key : Keys, bytes : CoreBytes \cup Arguments,
                     type : Types \cup {plain, none}, data : Payloads]
  /\ origin \in MessageBytes \cup {none}

\* What a program reads from a field of an object.
Reads(data, f) ==
  IF f \in DOMAIN data THEN data[f].text ELSE IF f \in IntFields THEN "0" ELSE ""

\* A message that deserialize returns was signed by its author, for the receiving
\* service and method, over any number of programs, damaged or not, and says what
\* the author's object said.  Only a string '0' may be read as empty
\* (the FIXME of helpers.js:43).
Delivered ==
  stage = "received" =>
    \E s \in signed :
      /\ s.key = verified.author /\ s.type \in Types
      /\ \A f \in IdFields : IdOf(s.type, f) = IdOf(receiver, f)
      /\ \A f \in StringFields \cup IntFields :
           \/ Reads(verified.payload, f) = Reads(s.data, f)
           \/ f \in StringFields /\ Reads(s.data, f) = "0" /\ Reads(verified.payload, f) = ""

\* The bytes of a received message, and so its hash, are those of the message that
\* was made, through every program it passes, exactly if it was canonical.
HashIsThatOfOrigin ==
  stage = "received" /\ origin # none =>
    (verified.bytes = origin <=>
       origin.form = "canonical" /\ origin.of.payload.form = "canonical")

\* All programs come to the same verdict on a message that is handed on, and the
\* same payload, unless the signed bytes were not canonical: such a message
\* is accepted by the first program and by none after that.
HopsAgree ==
  stage \in Arrived /\ origin # none =>
    LET m == origin.of
        first == wire = origin
        genuine == m.signature = Sign(m.author, m.payload)
    IN /\ stage = "received" <=>
            /\ genuine /\ (first \/ m.payload.form = "canonical")
            /\ m.payload.of.kind = "call" /\ IsCallOf(m.payload.of.call_info, receiver)
       /\ stage = "thrown" => first /\ m.payload.of.kind = "bare"
       /\ stage = "received" => verified.payload = Decode(m.payload.of.arguments)

\* A signature that sign makes for a Transaction is one that create can be given:
\* the message is accepted (by a type that has its ids), and is the same as if it
\* were created with the key pair.
DetachedSignatureFits ==
  \A s \in signed :
    s.type \in Types /\ s.bytes = Serialize(s.type, s.data) =>
      LET v == Verified(Call(s.type, s.data), s.key, Sign(s.key, s.bytes))
          own == CoreEncoded(Call(s.type, s.data))
      IN /\ v = Verified(Call(s.type, s.data), s.key, Sign(s.key, own))
         /\ Verdict(v.bytes, s.type) =
              IF DOMAIN s.type = IdFields THEN "received" ELSE "refused"

HasZeros(bytes) == \E f \in DOMAIN bytes.of \ MessageFields : bytes.of[f] \in {"0", ""}

\* A received payload can be created again: signed by the same key it is the
\* same message, if no zero was written that the library leaves out.
CreatedAgain ==
  stage = "received" =>
    LET core == Call(receiver, verified.payload)
        again == Verified(core, verified.author, Sign(verified.author, CoreEncoded(core)))
        m == wire.of.payload
    IN /\ ~HasZeros(m.of.arguments) /\ m.of.call_info = receiver
       /\ "other" \notin {m.form, m.of.arguments.form}
       => again.bytes = verified.bytes

\* verifySignature confirms a signature of sign exactly for data of a Type that
\* has nothing to be cleaned.
VerifiesCleanOnly ==
  \A s \in signed :
    s.type # none /\ s.bytes = Serialize(s.type, s.data) =>
      (verifySignature(Sign(s.key, s.bytes), s.key, s.data, s.type) <=>
         s.type = plain /\ ~HasZeros(Encode(s.data)))

\* README.md:211, "The signature can be verified using the author's public key";
\* crypto/index.js:89 takes a Type|Transaction, and cryptography.js:232-241 of the
\* tests expects true for a Transaction.
VerifyUndoesSign ==
  \A s \in signed :
    s.type # none /\ s.bytes = Serialize(s.type, s.data) =>
      verifySignature(Sign(s.key, s.bytes), s.key, s.data, s.type)
=============================================================================
