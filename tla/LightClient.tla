---------------------------- MODULE LightClient ----------------------------
(***************************************************************************)
(* A program that reads an entry of a table of the blockchain: verifyTable *)
(* of src/src/blockchain/table.js takes the root hash of the table out of  *)
(* a proof for the map of all tables, and a second proof with that root    *)
(* hash shows the entry (getWallet of src/integration-tests/test.js).      *)
(* Both proofs go through the constructor of MapProof, step by step.       *)
(*                                                                         *)
(* The trusted `state_hash` is that of a block which verifyBlock accepted; *)
(* the node may answer from any other height, with another table or with   *)
(* hashes of its own.                                                      *)
(***************************************************************************)
EXTENDS MapProof

CONSTANTS Chain,      \* the tables at every height: Chain[height][table] is a map
          TableDocs,  \* answers to a request for a table, as [proof, entries]
          DataDocs    \* answers to a request for an entry

RootHash(m) == RootOf(Tree(Leaves(m))[<<>>])

\* The map of all tables: names of tables, which are keys, to root hashes.
Tables(height) == [t \in DOMAIN Chain[height] |-> RootHash(Chain[height][t])]

ASSUME ChainAssumption ==
  /\ \A h \in DOMAIN Chain : /\ IsTable(Tables(h))
                             /\ \A t \in DOMAIN Chain[h] : IsTable(Chain[h][t])
  /\ \A d \in TableDocs \cup DataDocs : IsProof(d.proof) /\ IsEntries(d.entries)
  /\ none \notin {"table", "data"}

VARIABLES
  asked,     \* height of the block, table and key; none when a proof stands alone
  phase,     \* which proof is verified, "table" or "data"; none before and after
  rootHash,  \* what verifyTable returned
  answer     \* what the program gets, as [status, value]; none until then

progress == <<phase, rootHash, answer>>
clientVars == <<vars, asked, progress>>

StandAlone ==
  /\ Init
  /\ asked = none /\ phase = none /\ rootHash = none /\ answer = none

\* The program has the block of a height and the answer about a table of it.
AskTable ==
  /\ \E h \in DOMAIN Chain : \E t \in DOMAIN Chain[h], k \in Keys \ DOMAIN Chain[h] :
       asked = [height |-> h, table |-> t, key |-> k]
  /\ map = Tables(asked.height)
  /\ \E d \in TableDocs : proof = d.proof /\ entries = d.entries
  /\ phase = "table" /\ rootHash = none /\ answer = none
  /\ pc = "parseProof" /\ outcome = "running"
  /\ rest = {} /\ contour = <<>> /\ lastPrefix = <<>> /\ newPrefix = <<>>
  /\ merkleRoot = MapHash(ZeroHash)

\* The constructor begins with the answer about an entry.
AskData ==
  /\ map' = Chain[asked.height][asked.table]
  /\ \E d \in DataDocs : proof' = d.proof /\ entries' = d.entries
  /\ phase' = "data"
  /\ pc' = "parseProof" /\ outcome' = "running"
  /\ rest' = {} /\ contour' = <<>> /\ lastPrefix' = <<>> /\ newPrefix' = <<>>
  /\ merkleRoot' = MapHash(ZeroHash)

Answer(s, v) ==
  /\ answer' = [status |-> s, value |-> v] /\ phase' = none
  /\ UNCHANGED <<vars, asked, rootHash>>

\* entries.get: what the document has for a key, at most one value.
Get(k) == {e.value : e \in {x \in Members(entries) : x.missing = none /\ x.key = k}}

Constructed(p) == phase = p /\ outcome = "ok"

ProofThrows == phase # none /\ outcome \in Errors /\ Answer(outcome, none)

\* Mutated form: the root hash of the proof is compared with nothing.
TableTrustedAlways == Constructed("table")

TableTrusted == Constructed("table") /\ merkleRoot = RootHash(Tables(asked.height))

VerifyTable ==
  /\ TableTrusted
  /\ \E root \in Get(asked.table) : rootHash' = root
  /\ AskData
  /\ UNCHANGED <<asked, answer>>

TableCorrupted == Constructed("table") /\ ~TableTrusted /\ Answer("tableCorrupted", none)

TableNotFound == TableTrusted /\ Get(asked.table) = {} /\ Answer("tableNotFound", none)

DataTrusted == Constructed("data") /\ merkleRoot = rootHash

DataMismatch == Constructed("data") /\ ~DataTrusted /\ Answer("rootMismatch", none)

IsMissing(k) == \E e \in Members(entries) : e.missing = k

EntryAbsent == DataTrusted /\ IsMissing(asked.key) /\ Answer("absent", none)

EntryFound ==
  /\ DataTrusted /\ ~IsMissing(asked.key)
  /\ \E v \in Get(asked.key) : Answer("found", v)

EntryNotInProof ==
  /\ DataTrusted /\ ~IsMissing(asked.key) /\ Get(asked.key) = {}
  /\ Answer("notInProof", none)

ClientInit == StandAlone \/ AskTable

ClientNext ==
  \/ Next /\ UNCHANGED <<asked, progress>>
  \/ ProofThrows \/ VerifyTable \/ TableCorrupted \/ TableNotFound
  \/ DataMismatch \/ EntryAbsent \/ EntryFound \/ EntryNotInProof

ClientSpec == ClientInit /\ [][ClientNext]_clientVars

-----------------------------------------------------------------------------
\* What the program gets is in the table it asked for, at the height of the
\* block it trusts, whatever tables, heights and hashes the two answers are
\* about; and so is the absence of a key.
DataIsInState ==
  answer # none =>
    LET leaves == Leaves(Chain[asked.height][asked.table])
        path == PathOf[asked.key]
    IN /\ answer.status = "found" => [path |-> path, hash |-> Blob(answer.value)] \in leaves
       /\ answer.status = "absent" => path \notin {x.path : x \in leaves}
=============================================================================
