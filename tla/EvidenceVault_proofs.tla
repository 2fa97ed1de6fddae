------------------------- MODULE EvidenceVault_proofs -------------------------
(***************************************************************************)
(* For every set of incidents and callers and any number of requests: the  *)
(* evidence ledger verifies at all times, no longer does when a row of it  *)
(* is changed or taken out, and holds what a request was to seal once that *)
(* request has committed.                                                  *)
(***************************************************************************)
EXTENDS EvidenceVault, SequenceTheorems, TLAPS

\* Some set holds every row; hashes nest without bound, so it is not named.
RowsTyped ==
  \E S : chain \in Seq(S) /\ held \in [Callers -> Seq(S)]

\* Rows that are not committed belong to the holder of the lock and go on from the
\* end of the committed ledger.
HolderExtends ==
  \A c \in Callers :
    /\ held[c] # <<>> => lock = c
    /\ VerifyChain(Ledger(c)) = {}

IInv == RowsTyped /\ HolderExtends /\ ChainVerifies

LEMMA AppendVerifies ==
  ASSUME NEW S, NEW rows \in Seq(S), VerifyChain(rows) = {}, NEW i
  PROVE  VerifyChain(Append(rows, Record(i, LastHash(rows)))) = {}
<1> DEFINE r == Record(i, LastHash(rows))
           n == Len(rows)
<1>1. /\ n \in Nat /\ DOMAIN rows = 1 .. n
      /\ DOMAIN Append(rows, r) = 1 .. n + 1
      /\ Append(rows, r)[n + 1] = r
      /\ \A k \in 1 .. n : Append(rows, r)[k] = rows[k]
  BY AppendProperties, SeqMonotonic
<1>2. r.hash = RecordHash(r.digest, r.prev)
  BY DEF Record
<1>3. r.prev = IF n + 1 = 1 THEN Genesis ELSE rows[n].hash
  BY <1>1 DEF Record, LastHash
<1> HIDE DEF r, n
<1>4. \A k \in 1 .. n : /\ rows[k].prev = (IF k = 1 THEN Genesis ELSE rows[k - 1].hash)
                        /\ rows[k].hash = RecordHash(rows[k].digest, rows[k].prev)
  BY <1>1 DEF VerifyChain
<1>5. ASSUME NEW k \in 1 .. n + 1
      PROVE  LET a == Append(rows, r)
             IN  /\ a[k].prev = (IF k = 1 THEN Genesis ELSE a[k - 1].hash)
                 /\ a[k].hash = RecordHash(a[k].digest, a[k].prev)
  <2>1. CASE k = n + 1
    BY <1>1, <1>2, <1>3, <2>1
  <2>2. CASE k \in 1 .. n
    <3>1. k # 1 => k - 1 \in 1 .. n
      BY <1>1, <2>2
    <3> QED BY <1>1, <1>4, <2>2, <3>1
  <2> QED BY <1>1, <2>1, <2>2
<1>6. VerifyChain(Append(rows, r)) = {}
  BY <1>1, <1>5 DEF VerifyChain
<1> QED BY <1>6 DEF r

LEMMA ConcatAppend ==
  ASSUME NEW S, NEW s \in Seq(S), NEW h \in Seq(S), NEW r \in S
  PROVE  s \o Append(h, r) = Append(s \o h, r)
  BY ConcatProperties, AppendProperties

LEMMA InitEstablishes == Init => IInv
<1> SUFFICES ASSUME Init PROVE IInv
  OBVIOUS
<1>1. chain \in Seq({}) /\ held \in [Callers -> Seq({})]
  BY DEF Init
<1>2. VerifyChain(<<>>) = {}
  BY DEF VerifyChain
<1>3. \A c \in Callers : Ledger(c) = <<>>
  BY DEF Init, Ledger
<1> QED BY <1>1, <1>2, <1>3 DEF Init, IInv, RowsTyped, HolderExtends, ChainVerifies

LEMMA NextPreserves == IInv /\ [Next]_vars => IInv'
<1> SUFFICES ASSUME IInv, [Next]_vars PROVE IInv'
  OBVIOUS
<1>1. PICK S : chain \in Seq(S) /\ held \in [Callers -> Seq(S)]
  BY DEF IInv, RowsTyped
<1>2. ASSUME NEW T, chain' \in Seq(T), held' \in [Callers -> Seq(T)],
             \A d \in Callers : held'[d] # <<>> => lock' = d,
             \A d \in Callers : VerifyChain(chain' \o held'[d]) = {},
             VerifyChain(chain') = {}
      PROVE  IInv'
  <2>1. RowsTyped'
    BY <1>2 DEF RowsTyped
  <2>2. ASSUME NEW d \in Callers PROVE VerifyChain(Ledger(d))' = {}
    BY <1>2 DEF VerifyChain, Ledger
  <2>3. HolderExtends'
    BY <1>2, <2>2 DEF HolderExtends
  <2>4. ChainVerifies'
    BY <1>2 DEF ChainVerifies, VerifyChain
  <2> QED BY <2>1, <2>3, <2>4 DEF IInv
<1>3. ASSUME UNCHANGED <<chain, lock, held>> PROVE IInv'
  <2>1. \A d \in Callers : VerifyChain(chain \o held[d]) = {} /\ (held[d] # <<>> => lock = d)
    BY DEF IInv, HolderExtends, Ledger
  <2>2. VerifyChain(chain) = {}
    BY DEF IInv, ChainVerifies
  <2> QED BY <1>1, <1>3, <1>2, <2>1, <2>2
<1>4. ASSUME NEW c \in Callers, NEW i \in Incidents, AppendEvidence(c, i) PROVE IInv'
  <2> DEFINE r == Record(i, LastHash(Ledger(c)))
             T == S \cup {r}
  <2>1. /\ lock \in {c, Nobody} /\ lock' = c /\ chain' = chain
        /\ held' = [held EXCEPT ![c] = Append(@, r)]
    BY <1>4 DEF AppendEvidence, MayAppend
  <2> HIDE DEF r
  <2>2. chain \in Seq(T) /\ \A d \in Callers : held[d] \in Seq(T)
    BY <1>1, SeqMonotonic
  <2>3. Append(held[c], r) \in Seq(T)
    BY <2>2, AppendProperties
  <2>4. held' \in [Callers -> Seq(T)]
    BY <1>1, <2>1, <2>2, <2>3
  <2>5. ASSUME NEW d \in Callers \ {c} PROVE held'[d] = <<>> /\ Ledger(d)' = Ledger(d)
    BY <1>1, <2>1, <2>5, VaultAssumption DEF IInv, HolderExtends, Ledger
  <2>6. Ledger(c)' = Append(Ledger(c), r)
    <3>1. held'[c] = Append(held[c], r)
      BY <1>1, <2>1
    <3> QED BY <2>1, <2>2, <3>1, ConcatAppend DEF Ledger, T
  <2>7. VerifyChain(Append(Ledger(c), r)) = {}
    <3>1. Ledger(c) \in Seq(T)
      BY <2>2, ConcatProperties DEF Ledger
    <3> QED BY <3>1, AppendVerifies DEF IInv, HolderExtends, r
  <2>8. \A d \in Callers : VerifyChain(chain' \o held'[d]) = {}
    BY <2>5, <2>6, <2>7 DEF IInv, HolderExtends, Ledger
  <2>9. \A d \in Callers : held'[d] # <<>> => lock' = d
    BY <2>1, <2>5
  <2>10. VerifyChain(chain') = {}
    BY <2>1 DEF IInv, ChainVerifies
  <2> QED BY <1>2, <2>1, <2>2, <2>4, <2>8, <2>9, <2>10
<1>5. ASSUME NEW c \in Callers, Commit(c) PROVE IInv'
  <2>1. /\ chain' = Ledger(c) /\ lock' = Released(c)
        /\ held' = [held EXCEPT ![c] = <<>>]
    BY <1>5 DEF Commit, Ledger
  <2>2. chain' \in Seq(S) /\ held' \in [Callers -> Seq(S)]
    BY <1>1, <2>1, ConcatProperties DEF Ledger
  <2>3. VerifyChain(chain') = {}
    BY <2>1 DEF IInv, HolderExtends
  <2>4. CASE held[c] = <<>>
    <3>1. chain' = chain
      BY <1>1, <2>1, <2>4, ConcatEmptySeq DEF Ledger
    <3>2. held' = held
      BY <1>1, <2>1, <2>4
    <3>3. \A d \in Callers : held'[d] # <<>> => lock' = d
      BY <2>1, <2>4, <3>2 DEF IInv, HolderExtends, Released
    <3>4. \A d \in Callers : VerifyChain(chain' \o held'[d]) = {}
      BY <3>1, <3>2 DEF IInv, HolderExtends, Ledger
    <3> QED BY <1>2, <2>2, <2>3, <3>3, <3>4
  <2>5. CASE held[c] # <<>>
    <3>1. \A d \in Callers : held'[d] = <<>>
      BY <1>1, <2>1, <2>5 DEF IInv, HolderExtends
    <3>2. \A d \in Callers : chain' \o held'[d] = chain'
      BY <2>2, <3>1, ConcatEmptySeq
    <3> QED BY <1>2, <2>2, <2>3, <3>1, <3>2
  <2> QED BY <2>4, <2>5
<1>6. ASSUME NEW c \in Callers, Rollback(c) PROVE IInv'
  <2>1. /\ chain' = chain /\ lock' = Released(c)
        /\ held' = [held EXCEPT ![c] = <<>>]
    BY <1>6 DEF Rollback
  <2>2. held' \in [Callers -> Seq(S)]
    BY <1>1, <2>1
  <2>3. \A d \in Callers : held'[d] # <<>> => lock' = d
    BY <1>1, <2>1 DEF IInv, HolderExtends, Released
  <2>4. ASSUME NEW d \in Callers PROVE VerifyChain(chain' \o held'[d]) = {}
    <3>1. CASE d = c
      BY <1>1, <2>1, <3>1, ConcatEmptySeq DEF IInv, ChainVerifies
    <3>2. CASE d # c
      BY <1>1, <2>1, <3>2 DEF IInv, HolderExtends, Ledger
    <3> QED BY <3>1, <3>2
  <2> QED BY <1>1, <1>2, <2>1, <2>2, <2>3, <2>4 DEF IInv, ChainVerifies
<1>7. CASE Next
  <2>1. PICK c \in Callers :
          \/ Begin(c)
          \/ \E i \in Incidents : SkipMissing(c, i) \/ AppendEvidence(c, i)
          \/ Commit(c)
          \/ Answer(c)
          \/ Rollback(c)
    BY <1>7 DEF Next
  <2>2. CASE Begin(c) \/ Answer(c) \/ \E i \in Incidents : SkipMissing(c, i)
    BY <1>3, <2>2 DEF Begin, Answer, SkipMissing
  <2> QED BY <1>4, <1>5, <1>6, <2>1, <2>2
<1>8. CASE UNCHANGED vars
  BY <1>3, <1>8 DEF vars
<1> QED BY <1>7, <1>8

\* vault.py:38-98.  However requests interleave, fail or die, the committed ledger is
\* one unbroken chain: no fork, no gap and no row chained to one that was rolled back.
THEOREM LedgerVerifies == Spec => []ChainVerifies
<1>1. Init => IInv
  BY InitEstablishes
<1>2. IInv /\ [Next]_vars => IInv'
  BY NextPreserves
<1>3. IInv => ChainVerifies
  BY DEF IInv
<1> QED BY <1>1, <1>2, <1>3, PTL DEF Spec

-----------------------------------------------------------------------------
Functions ==
  /\ at \in [Callers -> {"idle", "sealing", "committed"}]
  /\ DOMAIN todo = Callers
  /\ DOMAIN missing = Callers

\* What a request was to seal is to be sealed yet, was missing, is in its own rows or
\* in the ledger, which never loses a row.
Accounted ==
  \A c \in Callers :
    /\ at[c] = "sealing" =>
         Wanted(c) \subseteq todo[c] \cup missing[c] \cup Sealed(chain) \cup Sealed(held[c])
    /\ at[c] = "committed" => Wanted(c) \subseteq missing[c] \cup Sealed(chain)

LEMMA SealedConcat ==
  ASSUME NEW S, NEW s \in Seq(S), NEW h \in Seq(S)
  PROVE  Sealed(s \o h) = Sealed(s) \cup Sealed(h)
<1> DEFINE m == Len(s)
           n == Len(h)
<1>1. /\ m \in Nat /\ n \in Nat /\ DOMAIN s = 1 .. m /\ DOMAIN h = 1 .. n
      /\ DOMAIN (s \o h) = 1 .. m + n
      /\ \A k \in 1 .. m : (s \o h)[k] = s[k]
      /\ \A k \in 1 .. n : (s \o h)[m + k] = h[k]
  BY ConcatProperties
<1> HIDE DEF m, n
<1>2. ASSUME NEW k \in 1 .. m + n PROVE (s \o h)[k].reference \in Sealed(s) \cup Sealed(h)
  <2>1. CASE k \in 1 .. m
    BY <1>1, <2>1 DEF Sealed
  <2>2. CASE k \notin 1 .. m
    <3>1. k - m \in 1 .. n /\ m + (k - m) = k
      BY <1>1, <2>2
    <3>2. (s \o h)[k] = h[k - m]
      BY <1>1, <3>1
    <3> QED BY <1>1, <3>1, <3>2 DEF Sealed
  <2> QED BY <2>1, <2>2
<1>3. ASSUME NEW k \in 1 .. m PROVE s[k].reference \in Sealed(s \o h)
  <2>1. k \in DOMAIN (s \o h)
    BY <1>1
  <2> QED BY <1>1, <2>1 DEF Sealed
<1>4. ASSUME NEW k \in 1 .. n PROVE h[k].reference \in Sealed(s \o h)
  <2>1. m + k \in DOMAIN (s \o h)
    BY <1>1
  <2> QED BY <1>1, <2>1 DEF Sealed
<1>5. ASSUME NEW x \in Sealed(s \o h) PROVE x \in Sealed(s) \cup Sealed(h)
  <2>1. PICK k \in 1 .. m + n : x = (s \o h)[k].reference
    BY <1>1, <1>5 DEF Sealed
  <2> QED BY <1>2, <2>1
<1>6. ASSUME NEW x \in Sealed(s) PROVE x \in Sealed(s \o h)
  <2>1. PICK k \in 1 .. m : x = s[k].reference
    BY <1>1, <1>6 DEF Sealed
  <2> QED BY <1>3, <2>1
<1>7. ASSUME NEW x \in Sealed(h) PROVE x \in Sealed(s \o h)
  <2>1. PICK k \in 1 .. n : x = h[k].reference
    BY <1>1, <1>7 DEF Sealed
  <2> QED BY <1>4, <2>1
<1> QED BY <1>5, <1>6, <1>7

LEMMA SealedAppend ==
  ASSUME NEW S, NEW h \in Seq(S), NEW i, NEW prev
  PROVE  Sealed(Append(h, Record(i, prev))) = Sealed(h) \cup {i}
<1> DEFINE r == Record(i, prev)
           T == S \cup {r}
<1>1. h \in Seq(T) /\ r \in T
  BY SeqMonotonic
<1>2. r.reference = i
  BY DEF Record
<1> HIDE DEF r, T
<1>3. /\ Len(h) \in Nat /\ DOMAIN h = 1 .. Len(h)
      /\ DOMAIN Append(h, r) = 1 .. Len(h) + 1
      /\ Append(h, r)[Len(h) + 1] = r
      /\ \A k \in 1 .. Len(h) : Append(h, r)[k] = h[k]
  BY <1>1, AppendProperties
<1>4. ASSUME NEW k \in 1 .. Len(h) PROVE h[k].reference \in Sealed(Append(h, r))
  <2>1. k \in DOMAIN Append(h, r)
    BY <1>3
  <2> QED BY <1>3, <2>1 DEF Sealed
<1>5. i \in Sealed(Append(h, r))
  <2>1. Len(h) + 1 \in DOMAIN Append(h, r)
    BY <1>3
  <2> QED BY <1>2, <1>3, <2>1 DEF Sealed
<1>6. Sealed(h) \cup {i} \subseteq Sealed(Append(h, r))
  BY <1>3, <1>4, <1>5 DEF Sealed
<1>7. ASSUME NEW x \in Sealed(Append(h, r)) PROVE x \in Sealed(h) \cup {i}
  <2>1. PICK k \in 1 .. Len(h) + 1 : x = Append(h, r)[k].reference
    BY <1>3, <1>7 DEF Sealed
  <2>2. CASE k = Len(h) + 1
    BY <1>2, <1>3, <2>1, <2>2
  <2>3. CASE k \in 1 .. Len(h)
    BY <1>3, <2>1, <2>3 DEF Sealed
  <2> QED BY <1>3, <2>2, <2>3
<1>8. Sealed(Append(h, r)) = Sealed(h) \cup {i}
  BY <1>6, <1>7
<1> QED BY <1>8 DEF r

MInv == Functions /\ Accounted

LEMMA AccountKept == IInv /\ MInv /\ [Next]_vars => MInv'
<1> SUFFICES ASSUME IInv, MInv, [Next]_vars PROVE MInv'
  OBVIOUS
<1>1. PICK S : chain \in Seq(S) /\ held \in [Callers -> Seq(S)]
  BY DEF IInv, RowsTyped
<1>2. CASE UNCHANGED vars
  BY <1>2 DEF vars, MInv, Functions, Accounted, Sealed
<1>3. ASSUME NEW c \in Callers, Begin(c) PROVE MInv'
  <2>1. Functions'
    BY <1>3 DEF MInv, Functions, Begin
  <2>2. /\ at'[c] = "sealing" /\ todo'[c] = Wanted(c) \ Sealed(chain)
        /\ \A d \in Callers \ {c} : at'[d] = at[d] /\ todo'[d] = todo[d]
        /\ chain' = chain /\ held' = held /\ missing' = missing
    BY <1>3 DEF MInv, Functions, Begin, AlreadySealed
  <2> QED BY <2>1, <2>2 DEF MInv, Accounted, Sealed
<1>4. ASSUME NEW c \in Callers, NEW i \in Incidents, SkipMissing(c, i) PROVE MInv'
  <2>1. Functions'
    BY <1>4 DEF MInv, Functions, SkipMissing
  <2>2. /\ todo'[c] \cup missing'[c] = todo[c] \cup missing[c] /\ missing[c] \subseteq missing'[c]
        /\ \A d \in Callers \ {c} : todo'[d] = todo[d] /\ missing'[d] = missing[d]
        /\ chain' = chain /\ held' = held /\ at' = at
    BY <1>4 DEF MInv, Functions, SkipMissing
  <2>3. Sealed(chain)' = Sealed(chain) /\ \A d \in Callers : Sealed(held[d])' = Sealed(held[d])
    BY <2>2 DEF Sealed
  <2> QED BY <2>1, <2>2, <2>3 DEF MInv, Accounted
<1>5. ASSUME NEW c \in Callers, NEW i \in Incidents, AppendEvidence(c, i) PROVE MInv'
  <2>1. Functions'
    BY <1>5 DEF MInv, Functions, AppendEvidence
  <2>2. /\ todo[c] \subseteq todo'[c] \cup {i}
        /\ held'[c] = Append(held[c], Record(i, LastHash(Ledger(c))))
        /\ \A d \in Callers \ {c} : todo'[d] = todo[d] /\ held'[d] = held[d]
        /\ chain' = chain /\ missing' = missing /\ at' = at
    BY <1>1, <1>5 DEF MInv, Functions, AppendEvidence
  <2>3. /\ Sealed(chain)' = Sealed(chain)
        /\ \A d \in Callers \ {c} : Sealed(held[d])' = Sealed(held[d])
    BY <2>2 DEF Sealed
  <2>4. Sealed(held[c]) \cup {i} \subseteq Sealed(held'[c])
    BY <1>1, <2>2, SealedAppend
  <2>5. Sealed(held[c]) \cup {i} \subseteq Sealed(held[c])'
    BY <2>4 DEF Sealed
  <2> QED BY <2>1, <2>2, <2>3, <2>5 DEF MInv, Accounted
<1>6. ASSUME NEW c \in Callers, Commit(c) PROVE MInv'
  <2>1. Functions'
    BY <1>6 DEF MInv, Functions, Commit
  <2>2. /\ at[c] = "sealing" /\ todo[c] = {} /\ at'[c] = "committed"
        /\ chain' = chain \o held[c]
        /\ \A d \in Callers \ {c} : at'[d] = at[d] /\ held'[d] = held[d]
        /\ todo' = todo /\ missing' = missing
    BY <1>1, <1>6 DEF MInv, Functions, Commit
  <2>3. Sealed(chain') = Sealed(chain) \cup Sealed(held[c])
    BY <1>1, <2>2, SealedConcat
  <2>4. /\ Sealed(chain)' = Sealed(chain) \cup Sealed(held[c])
        /\ \A d \in Callers \ {c} : Sealed(held[d])' = Sealed(held[d])
    BY <2>2, <2>3 DEF Sealed
  <2> QED BY <2>1, <2>2, <2>4 DEF MInv, Accounted
<1>7. ASSUME NEW c \in Callers, Answer(c) \/ Rollback(c) PROVE MInv'
  <2>1. Functions'
    BY <1>7 DEF MInv, Functions, Answer, Rollback
  <2>2. /\ at'[c] = "idle" /\ chain' = chain
        /\ \A d \in Callers \ {c} :
             at'[d] = at[d] /\ todo'[d] = todo[d] /\ missing'[d] = missing[d] /\ held'[d] = held[d]
    BY <1>1, <1>7 DEF MInv, Functions, Answer, Rollback
  <2>3. /\ Sealed(chain)' = Sealed(chain)
        /\ \A d \in Callers \ {c} : Sealed(held[d])' = Sealed(held[d])
    BY <2>2 DEF Sealed
  <2> QED BY <2>1, <2>2, <2>3 DEF MInv, Accounted
<1> QED BY <1>2, <1>3, <1>4, <1>5, <1>6, <1>7 DEF Next

\* app.py:2440 and 2496-2518.  When a request has committed, each incident it was to
\* seal has a row in the ledger or had no snapshot, whatever other requests did.
THEOREM ManifestIsComplete == Spec => []ManifestComplete
<1>1. Init => IInv /\ MInv
  <2>1. Init => MInv
    BY DEF Init, MInv, Functions, Accounted
  <2> QED BY <2>1, InitEstablishes
<1>2. IInv /\ MInv /\ [Next]_vars => (IInv /\ MInv)'
  BY NextPreserves, AccountKept
<1>3. MInv => ManifestComplete
  BY DEF MInv, Accounted, ManifestComplete
<1> QED BY <1>1, <1>2, <1>3, PTL DEF Spec

-----------------------------------------------------------------------------
\* No two rows have the same hash, and none has the genesis hash, so that a row stands
\* at one place only.
Unlike(ledger) ==
  \A k \in DOMAIN ledger :
    /\ DOMAIN ledger[k] = {"reference", "digest", "prev", "hash"}
    /\ ledger[k].hash # Genesis
    /\ \A j \in DOMAIN ledger : ledger[j].hash = ledger[k].hash => j = k

RowsUnlike == Unlike(chain) /\ \A c \in Callers : Unlike(Ledger(c))

\* A row chained to the tail hashes to something new: a row with the same hash would
\* follow a row with the tail's hash, which is the tail itself.
LEMMA AppendUnlike ==
  ASSUME NEW S, NEW rows \in Seq(S), VerifyChain(rows) = {}, Unlike(rows), NEW i
  PROVE  Unlike(Append(rows, Record(i, LastHash(rows))))
<1> DEFINE r == Record(i, LastHash(rows))
           n == Len(rows)
           a == Append(rows, r)
<1>1. /\ n \in Nat /\ DOMAIN rows = 1 .. n /\ DOMAIN a = 1 .. n + 1
      /\ a[n + 1] = r /\ \A k \in 1 .. n : a[k] = rows[k]
  BY AppendProperties, SeqMonotonic
<1>2. r.hash = <<i, LastHash(rows)>> /\ DOMAIN r = {"reference", "digest", "prev", "hash"}
  BY DEF Record, RecordHash
<1>3. n # 0 => LastHash(rows) = rows[n].hash
  BY <1>1 DEF LastHash
<1> HIDE DEF r, n, a
<1>4. r.hash # Genesis
  BY <1>2, GenesisAssumption
<1>5. ASSUME NEW j \in 1 .. n PROVE rows[j].hash # r.hash
  <2>1. /\ rows[j].prev = (IF j = 1 THEN Genesis ELSE rows[j - 1].hash)
        /\ rows[j].hash = <<rows[j].digest, rows[j].prev>>
    BY <1>1 DEF VerifyChain, RecordHash
  <2>2. n \in 1 .. n /\ rows[n].hash # Genesis
    BY <1>1 DEF Unlike
  <2>3. j # 1 => j - 1 \in 1 .. n /\ rows[j - 1].hash # rows[n].hash
    BY <1>1 DEF Unlike
  <2> QED BY <1>1, <1>2, <1>3, <2>1, <2>2, <2>3
<1>6. ASSUME NEW k \in 1 .. n + 1
      PROVE  /\ DOMAIN a[k] = {"reference", "digest", "prev", "hash"}
             /\ a[k].hash # Genesis
             /\ \A j \in 1 .. n + 1 : a[j].hash = a[k].hash => j = k
  <2>1. \A j \in 1 .. n + 1 : j = n + 1 \/ j \in 1 .. n
    BY <1>1
  <2> QED BY <1>1, <1>2, <1>4, <1>5, <2>1 DEF Unlike
<1>7. Unlike(a)
  BY <1>1, <1>6 DEF Unlike
<1> QED BY <1>7 DEF a, r

LEMMA NextUnlike == IInv /\ RowsUnlike /\ [Next]_vars => RowsUnlike'
<1> SUFFICES ASSUME IInv, RowsUnlike, [Next]_vars PROVE RowsUnlike'
  OBVIOUS
<1>1. PICK S : chain \in Seq(S) /\ held \in [Callers -> Seq(S)]
  BY DEF IInv, RowsTyped
<1>2. ASSUME Unlike(chain'), \A d \in Callers : Unlike(chain' \o held'[d]) PROVE RowsUnlike'
  BY <1>2 DEF RowsUnlike, Unlike, Ledger
<1>3. ASSUME UNCHANGED <<chain, held>> PROVE RowsUnlike'
  BY <1>2, <1>3 DEF RowsUnlike, Ledger
<1>4. ASSUME NEW c \in Callers, NEW i \in Incidents, AppendEvidence(c, i) PROVE RowsUnlike'
  <2> DEFINE r == Record(i, LastHash(Ledger(c)))
             T == S \cup {r}
  <2>1. /\ lock \in {c, Nobody} /\ chain' = chain
        /\ held' = [held EXCEPT ![c] = Append(@, r)]
    BY <1>4 DEF AppendEvidence, MayAppend
  <2> HIDE DEF r
  <2>2. chain \in Seq(T) /\ \A d \in Callers : held[d] \in Seq(T)
    BY <1>1, SeqMonotonic
  <2>3. chain' \o held'[c] = Append(Ledger(c), r)
    <3>1. held'[c] = Append(held[c], r)
      BY <1>1, <2>1
    <3> QED BY <2>1, <2>2, <3>1, ConcatAppend DEF Ledger, T
  <2>4. Unlike(Append(Ledger(c), r))
    <3>1. Ledger(c) \in Seq(T)
      BY <2>2, ConcatProperties DEF Ledger
    <3> QED BY <3>1, AppendUnlike DEF IInv, HolderExtends, RowsUnlike, r
  <2>5. \A d \in Callers \ {c} : chain' \o held'[d] = Ledger(d)
    BY <1>1, <2>1 DEF Ledger
  <2> QED BY <1>2, <2>1, <2>3, <2>4, <2>5 DEF RowsUnlike
<1>5. ASSUME NEW c \in Callers, Commit(c) PROVE RowsUnlike'
  <2>1. chain' = Ledger(c) /\ held' = [held EXCEPT ![c] = <<>>]
    BY <1>5 DEF Commit, Ledger
  <2>2. CASE held[c] = <<>>
    <3>1. chain' = chain /\ held' = held
      BY <1>1, <2>1, <2>2, ConcatEmptySeq DEF Ledger
    <3> QED BY <1>3, <3>1
  <2>3. CASE held[c] # <<>>
    <3>1. \A d \in Callers : held'[d] = <<>>
      BY <1>1, <2>1, <2>3 DEF IInv, HolderExtends
    <3>2. chain' \in Seq(S)
      BY <1>1, <2>1, ConcatProperties DEF Ledger
    <3>3. \A d \in Callers : chain' \o held'[d] = Ledger(c)
      BY <2>1, <3>1, <3>2, ConcatEmptySeq
    <3> QED BY <1>2, <2>1, <3>3 DEF RowsUnlike
  <2> QED BY <2>2, <2>3
<1>6. ASSUME NEW c \in Callers, Rollback(c) PROVE RowsUnlike'
  <2>1. chain' = chain /\ held' = [held EXCEPT ![c] = <<>>]
    BY <1>6 DEF Rollback
  <2>2. \A d \in Callers : chain' \o held'[d] \in {chain, Ledger(d)}
    BY <1>1, <2>1, ConcatEmptySeq DEF Ledger
  <2> QED BY <1>2, <2>1, <2>2 DEF RowsUnlike
<1>7. CASE Next
  <2>1. PICK c \in Callers :
          \/ Begin(c)
          \/ \E i \in Incidents : SkipMissing(c, i) \/ AppendEvidence(c, i)
          \/ Commit(c)
          \/ Answer(c)
          \/ Rollback(c)
    BY <1>7 DEF Next
  <2>2. CASE Begin(c) \/ Answer(c) \/ \E i \in Incidents : SkipMissing(c, i)
    BY <1>3, <2>2 DEF Begin, Answer, SkipMissing
  <2> QED BY <1>4, <1>5, <1>6, <2>1, <2>2
<1> QED BY <1>3, <1>7 DEF vars

\* What is proved of a ledger that verifies and has no two rows alike: none of its rows
\* can be changed, and none before the last taken out, without a trace.
LEMMA TracesLeft ==
  ASSUME NEW S, NEW rows \in Seq(S), VerifyChain(rows) = {}, Unlike(rows),
         NEW k \in DOMAIN rows
  PROVE  /\ \A d : d # rows[k].digest => VerifyChain([rows EXCEPT ![k].digest = d]) # {}
         /\ k < Len(rows) =>
              VerifyChain(SubSeq(rows, 1, k - 1) \o SubSeq(rows, k + 1, Len(rows))) # {}
<1> DEFINE n == Len(rows)
<1>1. n \in Nat /\ DOMAIN rows = 1 .. n /\ k \in 1 .. n
  OBVIOUS
<1>2. \A j \in 1 .. n : /\ rows[j].prev = (IF j = 1 THEN Genesis ELSE rows[j - 1].hash)
                        /\ rows[j].hash = RecordHash(rows[j].digest, rows[j].prev)
  BY <1>1 DEF VerifyChain
<1>3. ASSUME NEW d, d # rows[k].digest PROVE VerifyChain([rows EXCEPT ![k].digest = d]) # {}
  <2> DEFINE changed == [rows EXCEPT ![k].digest = d]
  <2>1. DOMAIN changed = 1 .. n /\ changed[k] = [rows[k] EXCEPT !.digest = d]
    BY <1>1
  <2>2. /\ changed[k].digest = d /\ changed[k].prev = rows[k].prev
        /\ changed[k].hash = rows[k].hash
    BY <1>1, <2>1 DEF Unlike
  <2> HIDE DEF changed
  <2>3. changed[k].hash # RecordHash(changed[k].digest, changed[k].prev)
    BY <1>1, <1>2, <1>3, <2>2 DEF RecordHash
  <2>4. k \in VerifyChain(changed)
    BY <1>1, <2>1, <2>3 DEF VerifyChain
  <2> QED BY <2>4 DEF changed
<1>4. ASSUME k < n
      PROVE  VerifyChain(SubSeq(rows, 1, k - 1) \o SubSeq(rows, k + 1, n)) # {}
  <2> DEFINE before == SubSeq(rows, 1, k - 1)
             after == SubSeq(rows, k + 1, n)
             cut == before \o after
  <2>1. /\ before \in Seq(S) /\ Len(before) = k - 1
        /\ \A j \in 1 .. k - 1 : before[j] = rows[j]
    BY <1>1, <1>4, SubSeqProperties
  <2>2. after \in Seq(S) /\ Len(after) = n - k /\ after[1] = rows[k + 1]
    BY <1>1, <1>4, SubSeqProperties
  <2> HIDE DEF before, after
  <2>3. /\ DOMAIN cut = 1 .. n - 1 /\ cut[k] = rows[k + 1]
        /\ \A j \in 1 .. k - 1 : cut[j] = rows[j]
    <3> HIDE DEF n
    <3>0. Len(before) + Len(after) = n - 1
      BY <1>1, <2>1, <2>2
    <3>1. /\ cut \in Seq(S) /\ Len(cut) = Len(before) + Len(after)
          /\ \A j \in 1 .. Len(before) + Len(after) :
               cut[j] = IF j <= Len(before) THEN before[j] ELSE after[j - Len(before)]
      BY <2>1, <2>2, ConcatProperties
    <3> HIDE DEF cut
    <3>2. /\ Len(cut) = n - 1
          /\ \A j \in 1 .. n - 1 : cut[j] = IF j <= k - 1 THEN before[j] ELSE after[j - (k - 1)]
      BY <2>1, <3>0, <3>1
    <3>3. k \in 1 .. n - 1 /\ k - (k - 1) = 1 /\ \A j \in 1 .. k - 1 : j \in 1 .. n - 1
      BY <1>1, <1>4
    <3>4. cut[k] = rows[k + 1]
      <4>1. ~(k <= k - 1)
        BY <1>1
      <4>2. cut[k] = after[k - (k - 1)]
        BY <3>2, <3>3, <4>1
      <4> QED BY <2>2, <3>3, <4>2
    <3>5. \A j \in 1 .. k - 1 : cut[j] = rows[j]
      BY <1>1, <2>1, <3>2, <3>3
    <3> QED BY <3>1, <3>2, <3>4, <3>5
  <2> HIDE DEF cut
  <2>4. cut[k].prev = rows[k].hash
    BY <1>1, <1>2, <1>4, <2>3
  <2>5. rows[k].hash # (IF k = 1 THEN Genesis ELSE cut[k - 1].hash)
    <3>1. k # 1 => k - 1 \in 1 .. n /\ k - 1 \in 1 .. k - 1 /\ k - 1 # k
      BY <1>1
    <3> QED BY <1>1, <2>3, <3>1 DEF Unlike
  <2>6. k \in VerifyChain(cut)
    BY <1>1, <1>4, <2>3, <2>4, <2>5 DEF VerifyChain
  <2> QED BY <2>6 DEF cut, before, after
<1> QED BY <1>3, <1>4

\* models.py:591-592.  Whatever requests have sealed, and however they interleaved or
\* failed, verification reports a row of the ledger with other content, and a row before
\* the last that is not there any more.
THEOREM ChangesAreSeen == Spec => []TamperEvident
<1>1. Init => RowsUnlike
  <2> SUFFICES ASSUME Init PROVE RowsUnlike
    OBVIOUS
  <2>1. chain = <<>> /\ \A c \in Callers : Ledger(c) = <<>>
    BY DEF Init, Ledger
  <2> QED BY <2>1 DEF RowsUnlike, Unlike
<1>2. IInv /\ RowsUnlike => TamperEvident
  <2> SUFFICES ASSUME IInv, RowsUnlike PROVE TamperEvident
    OBVIOUS
  <2>1. PICK S : chain \in Seq(S)
    BY DEF IInv, RowsTyped
  <2> QED BY <2>1, TracesLeft DEF TamperEvident, IInv, ChainVerifies, RowsUnlike
<1> QED BY <1>1, <1>2, InitEstablishes, NextPreserves, NextUnlike, PTL DEF Spec
-----------------------------------------------------------------------------
\* What TypeOK says beyond Functions: a request deals only with what it wants, and has rows in
\* flight or work left only while it is sealing.
CallersTyped ==
  \A c \in Callers :
    /\ todo[c] \cup missing[c] \cup Sealed(held[c]) \subseteq Wanted(c)
    /\ held[c] # <<>> \/ todo[c] # {} => at[c] = "sealing"

TInv ==
  /\ Sealed(chain) \subseteq Incidents
  /\ lock \in Callers \cup {Nobody}
  /\ CallersTyped
  /\ calls \in 0 .. MaxCalls

LEMMA WantedAreIncidents == \A c : Wanted(c) \subseteq Incidents
BY VaultAssumption DEF Wanted

LEMMA NothingSealed == Sealed(<<>>) = {}
BY DEF Sealed

LEMMA TypesKept == IInv /\ MInv /\ TInv /\ [Next]_vars => TInv'
<1> SUFFICES ASSUME IInv, MInv, TInv, [Next]_vars PROVE TInv'
  OBVIOUS
<1>1. PICK S : chain \in Seq(S) /\ held \in [Callers -> Seq(S)]
  BY DEF IInv, RowsTyped
<1>2. CASE UNCHANGED vars
  BY <1>2 DEF vars, TInv, CallersTyped, Sealed, Wanted
\* The step is of the request c and leaves the others' states.
<1>3. ASSUME NEW c \in Callers,
             \A d \in Callers \ {c} : /\ at'[d] = at[d] /\ todo'[d] = todo[d]
                                      /\ missing'[d] = missing[d] /\ held'[d] = held[d],
             todo'[c] \cup missing'[c] \cup Sealed(held'[c]) \subseteq Wanted(c),
             held'[c] # <<>> \/ todo'[c] # {} => at'[c] = "sealing"
      PROVE  CallersTyped'
  <2> SUFFICES ASSUME NEW d \in Callers
               PROVE  /\ todo'[d] \cup missing'[d] \cup Sealed(held'[d]) \subseteq Wanted(d)
                      /\ held'[d] # <<>> \/ todo'[d] # {} => at'[d] = "sealing"
    BY DEF CallersTyped, Sealed, Wanted
  <2>1. CASE d = c
    BY <1>3, <2>1
  <2>2. CASE d # c
    BY <1>3, <2>2 DEF TInv, CallersTyped
  <2> QED BY <2>1, <2>2
<1>4. ASSUME chain' = chain PROVE Sealed(chain)' = Sealed(chain)
  BY <1>4 DEF Sealed
<1>5. ASSUME NEW c \in Callers, Begin(c) PROVE TInv'
  <2>1. /\ at'[c] = "sealing" /\ todo'[c] \subseteq Wanted(c)
        /\ UNCHANGED <<chain, lock, held, missing>>
        /\ \A d \in Callers \ {c} : at'[d] = at[d] /\ todo'[d] = todo[d]
    BY <1>5 DEF Begin, MInv, Functions
  <2>2. calls' \in 0 .. MaxCalls
    BY <1>5, VaultAssumption DEF Begin, TInv
  <2>3. CallersTyped'
    BY <1>3, <2>1 DEF TInv, CallersTyped
  <2> QED BY <1>4, <2>1, <2>2, <2>3 DEF TInv
<1>6. ASSUME NEW c \in Callers, NEW i \in Incidents, SkipMissing(c, i) PROVE TInv'
  <2>1. /\ i \in todo[c] /\ todo'[c] = todo[c] \ {i} /\ missing'[c] = missing[c] \cup {i}
        /\ UNCHANGED <<chain, lock, at, held, calls>>
        /\ \A d \in Callers \ {c} : missing'[d] = missing[d] /\ todo'[d] = todo[d]
    BY <1>6 DEF SkipMissing, MInv, Functions
  <2>2. CallersTyped'
    BY <1>3, <2>1 DEF TInv, CallersTyped
  <2> QED BY <1>4, <2>1, <2>2 DEF TInv
<1>7. ASSUME NEW c \in Callers, NEW i \in Incidents, AppendEvidence(c, i) PROVE TInv'
  <2>1. /\ i \in todo[c] /\ todo'[c] = todo[c] \ {i} /\ lock' = c
        /\ held'[c] = Append(held[c], Record(i, LastHash(Ledger(c))))
        /\ UNCHANGED <<chain, at, missing, calls>>
        /\ \A d \in Callers \ {c} : held'[d] = held[d] /\ todo'[d] = todo[d]
    BY <1>1, <1>7 DEF AppendEvidence, MInv, Functions
  <2>2. Sealed(held'[c]) = Sealed(held[c]) \cup {i}
    BY <1>1, <2>1, SealedAppend
  <2>3. todo[c] \cup missing[c] \cup Sealed(held[c]) \subseteq Wanted(c) /\ at[c] = "sealing"
    BY <2>1 DEF TInv, CallersTyped
  <2>4. CallersTyped'
    BY <1>3, <2>1, <2>2, <2>3
  <2> QED BY <1>4, <2>1, <2>4 DEF TInv
<1>8. ASSUME NEW c \in Callers, Commit(c) PROVE TInv'
  <2>1. /\ todo[c] = {} /\ chain' = chain \o held[c] /\ held'[c] = <<>>
        /\ lock' \in {lock, Nobody} /\ UNCHANGED <<todo, missing, calls>>
        /\ \A d \in Callers \ {c} : at'[d] = at[d] /\ held'[d] = held[d]
    BY <1>1, <1>8 DEF Commit, Released, MInv, Functions
  <2>2. Sealed(chain') = Sealed(chain) \cup Sealed(held[c])
    BY <1>1, <2>1, SealedConcat
  <2>3. Sealed(held[c]) \subseteq Incidents /\ todo[c] \cup missing[c] \subseteq Wanted(c)
    BY WantedAreIncidents DEF TInv, CallersTyped
  <2>4. Sealed(chain)' \subseteq Incidents
    BY <2>2, <2>3 DEF TInv, Sealed
  <2>5. CallersTyped'
    BY <1>3, <2>1, <2>3, NothingSealed
  <2> QED BY <2>1, <2>4, <2>5 DEF TInv
<1>9. ASSUME NEW c \in Callers, Answer(c) PROVE TInv'
  <2>1. /\ at[c] = "committed" /\ missing'[c] = {} /\ UNCHANGED <<chain, lock, todo, held, calls>>
        /\ \A d \in Callers \ {c} : at'[d] = at[d] /\ missing'[d] = missing[d]
    BY <1>9 DEF Answer, MInv, Functions
  <2>2. /\ todo[c] \cup Sealed(held[c]) \subseteq Wanted(c)
        /\ held[c] = <<>> /\ todo[c] = {}
    BY <2>1 DEF TInv, CallersTyped
  <2>3. CallersTyped'
    BY <1>3, <2>1, <2>2
  <2> QED BY <1>4, <2>1, <2>3 DEF TInv
<1>10. ASSUME NEW c \in Callers, Rollback(c) PROVE TInv'
  <2>1. /\ todo'[c] = {} /\ missing'[c] = {} /\ held'[c] = <<>> /\ UNCHANGED <<chain, calls>>
        /\ lock' \in {lock, Nobody}
        /\ \A d \in Callers \ {c} : /\ at'[d] = at[d] /\ todo'[d] = todo[d]
                                    /\ missing'[d] = missing[d] /\ held'[d] = held[d]
    BY <1>1, <1>10 DEF Rollback, Released, MInv, Functions
  <2>2. CallersTyped'
    BY <1>3, <2>1, NothingSealed
  <2> QED BY <1>4, <2>1, <2>2 DEF TInv
<1> QED BY <1>2, <1>5, <1>6, <1>7, <1>8, <1>9, <1>10 DEF Next

\* The type of the vault: rows in flight are those of the holder of the lock, who is sealing,
\* and nobody seals, or misses, an incident that was not asked for.
THEOREM VaultTypes == Spec => []TypeOK
<1>1. Init => IInv /\ MInv /\ TInv
  <2>1. Init => MInv
    BY DEF Init, MInv, Functions, Accounted
  <2>2. Init => TInv
    <3> SUFFICES ASSUME Init PROVE TInv
      OBVIOUS
    <3>1. Sealed(chain) = {} /\ \A c \in Callers : Sealed(held[c]) = {}
      BY NothingSealed DEF Init
    <3> QED BY <3>1, VaultAssumption DEF Init, TInv, CallersTyped
  <2> QED BY <2>1, <2>2, InitEstablishes
<1>2. IInv /\ MInv /\ TInv /\ [Next]_vars => (IInv /\ MInv /\ TInv)'
  BY NextPreserves, AccountKept, TypesKept
<1>3. IInv /\ MInv /\ TInv => TypeOK
  BY DEF IInv, HolderExtends, MInv, Functions, TInv, CallersTyped, TypeOK
<1> QED BY <1>1, <1>2, <1>3, PTL DEF Spec
=============================================================================
