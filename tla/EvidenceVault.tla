---------------------------- MODULE EvidenceVault ----------------------------
(***************************************************************************)
(* The tamper-evident evidence ledger: a hash chain of records to which    *)
(* concurrent requests of the API append the snapshots of incidents.  Each *)
(* request is one READ COMMITTED transaction that reads which incidents    *)
(* are sealed already, appends the others one by one under an advisory     *)
(* lock held to its end, and commits.                                      *)
(***************************************************************************)
EXTENDS Integers, Sequences, FiniteSets

CONSTANTS
  Incidents,   \* incidents that have a snapshot
  InCase,      \* those of the case that is exported
  InLimit,     \* the oldest `limit` of them
  Indexers,    \* concurrent requests to POST /evidence/index
  Exporters,   \* concurrent requests to GET /cases/{case_id}/export
  Nobody,      \* the lock is free
  Genesis,     \* GENESIS_HASH
  MaxCalls     \* bound: requests

Callers == Indexers \cup Exporters

ASSUME VaultAssumption ==
  /\ InCase \subseteq Incidents
  /\ InLimit \subseteq Incidents
  /\ Indexers \cap Exporters = {}
  /\ Nobody \notin Callers
  /\ MaxCalls \in Nat

\* No record hashes to GENESIS_HASH; a record's hash is a pair here.
ASSUME GenesisAssumption == DOMAIN Genesis # 1 .. 2

VARIABLES
  chain,    \* evidence_records: the committed rows in seq order
  lock,     \* the transaction that holds the advisory lock
  at,       \* per request: idle, sealing, or committed and about to answer
  todo,     \* per request: incidents it has still to seal
  held,     \* per request: rows it has inserted and not committed
  missing,  \* per request: incidents whose snapshot was not found
  calls     \* count of requests

vars == <<chain, lock, at, todo, held, missing, calls>>

\* SHA-256 has no collisions here; a snapshot's digest is its incident.
RecordHash(digest, prev) == <<digest, prev>>
Record(i, prev) ==
  [reference |-> i, digest |-> i, prev |-> prev, hash |-> RecordHash(i, prev)]
LastHash(rows) == IF rows = <<>> THEN Genesis ELSE rows[Len(rows)].hash

Sealed(rows) == {rows[k].reference : k \in DOMAIN rows}
Wanted(c) == IF c \in Indexers THEN InLimit ELSE InCase

\* verify_chain: the rows at which the chain is broken.
LinksOnly(rows) ==    \* mutant
  {k \in DOMAIN rows : rows[k].prev # LastHash(SubSeq(rows, 1, k - 1))}
VerifyChain(rows) ==
  {k \in DOMAIN rows :
     \/ rows[k].prev # (IF k = 1 THEN Genesis ELSE rows[k - 1].hash)
     \/ rows[k].hash # RecordHash(rows[k].digest, rows[k].prev)}

TypeOK ==
  /\ Sealed(chain) \subseteq Incidents
  /\ lock \in Callers \cup {Nobody}
  /\ at \in [Callers -> {"idle", "sealing", "committed"}]
  /\ \A c \in Callers :
       /\ todo[c] \cup missing[c] \cup Sealed(held[c]) \subseteq Wanted(c)
       /\ held[c] # <<>> => lock = c /\ at[c] = "sealing"
  /\ calls \in 0 .. MaxCalls

Init ==
  /\ chain = <<>>
  /\ lock = Nobody
  /\ at = [c \in Callers |-> "idle"]
  /\ todo = [c \in Callers |-> {}]
  /\ held = [c \in Callers |-> <<>>]
  /\ missing = [c \in Callers |-> {}]
  /\ calls = 0

\* What a query sees that is not the transaction's own.
ReadUncommitted(c) ==    \* mutant
  Sealed(chain) \cup UNION {Sealed(held[d]) : d \in Callers \ {c}}
AlreadySealed(c) == IF c \in Callers THEN Sealed(chain) ELSE {}

\* What is sealed already is read here, before the lock is taken.
Begin(c) ==
  /\ at[c] = "idle"
  /\ calls < MaxCalls
  /\ calls' = calls + 1
  /\ at' = [at EXCEPT ![c] = "sealing"]
  /\ todo' = [todo EXCEPT ![c] = Wanted(c) \ AlreadySealed(c)]
  /\ UNCHANGED <<chain, lock, held, missing>>

\* The snapshot is not in the object store: skipped.
SkipMissing(c, i) ==
  /\ i \in todo[c]
  /\ todo' = [todo EXCEPT ![c] = @ \ {i}]
  /\ missing' = [missing EXCEPT ![c] = @ \cup {i}]
  /\ UNCHANGED <<chain, lock, at, held, calls>>

\* pg_advisory_xact_lock is waited for.
MayAppend(c) == lock \in {c, Nobody}

\* append_evidence: the tail is read under the lock, and the row inserted.
TailAsCommitted(c) == IF c \in Callers THEN chain ELSE <<>>    \* mutant
Ledger(c) == chain \o held[c]

AppendEvidence(c, i) ==
  /\ i \in todo[c]
  /\ MayAppend(c)
  /\ lock' = c
  /\ todo' = [todo EXCEPT ![c] = @ \ {i}]
  /\ held' = [held EXCEPT ![c] = Append(@, Record(i, LastHash(Ledger(c))))]
  /\ UNCHANGED <<chain, at, missing, calls>>

Released(c) == IF lock = c THEN Nobody ELSE lock

Commit(c) ==
  /\ at[c] = "sealing"
  /\ todo[c] = {}
  /\ chain' = chain \o held[c]
  /\ held' = [held EXCEPT ![c] = <<>>]
  /\ lock' = Released(c)
  /\ at' = [at EXCEPT ![c] = "committed"]
  /\ UNCHANGED <<todo, missing, calls>>

\* The manifest is read and the request answered.
Answer(c) ==
  /\ at[c] = "committed"
  /\ at' = [at EXCEPT ![c] = "idle"]
  /\ missing' = [missing EXCEPT ![c] = {}]
  /\ UNCHANGED <<chain, lock, todo, held, calls>>

\* The request fails, its client goes away or the process dies.
Rollback(c) ==
  /\ at[c] # "idle"
  /\ at' = [at EXCEPT ![c] = "idle"]
  /\ todo' = [todo EXCEPT ![c] = {}]
  /\ held' = [held EXCEPT ![c] = <<>>]
  /\ missing' = [missing EXCEPT ![c] = {}]
  /\ lock' = Released(c)
  /\ UNCHANGED <<chain, calls>>

Next ==
  \E c \in Callers :
    \/ Begin(c)
    \/ \E i \in Incidents : SkipMissing(c, i) \/ AppendEvidence(c, i)
    \/ Commit(c)
    \/ Answer(c)
    \/ Rollback(c)

Spec == Init /\ [][Next]_vars

-----------------------------------------------------------------------------
\* vault.py:81-98.  Whatever requests seal concurrently, and whichever of them
\* fail halfway, the committed ledger verifies.
ChainVerifies == VerifyChain(chain) = {}

\* models.py:591-592.  Verification reports a ledger one of whose rows was
\* given another content, and a ledger that misses a row before its last.
TamperEvident ==
  \A k \in DOMAIN chain :
    /\ \A d \in Incidents \ {chain[k].digest} :
         VerifyChain([chain EXCEPT ![k].digest = d]) # {}
    /\ k < Len(chain) => VerifyChain(SubSeq(chain, 1, k - 1) \o SubSeq(chain, k + 1, Len(chain))) # {}

\* app.py:2440 and 2496-2518.  When a request has committed, every incident it was to seal
\* is in the ledger, whoever sealed it, except those whose snapshot was missing.
ManifestComplete ==
  \A c \in Callers : at[c] = "committed" => Wanted(c) \subseteq missing[c] \cup Sealed(chain)

=============================================================================
