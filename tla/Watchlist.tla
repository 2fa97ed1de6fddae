------------------------------ MODULE Watchlist ------------------------------
(***************************************************************************)
(* The watchlist.  Appearances are in two stores: the rows of the database *)
(* and the reference vectors of the index.  The API writes the row, then   *)
(* the vector, and nothing ties the two; the matcher of the context        *)
(* service looks up each live embedding among the vectors and keeps those  *)
(* whose entry it has in its copy of the rows.  Number plates have a row   *)
(* alone, with the plate's hash, and the engine has a copy of these rows.  *)
(***************************************************************************)
EXTENDS Integers, Sequences, FiniteSets

CONSTANTS
  Persons, Vehicles, Plates,  \* entries that may be enrolled, by category
  PlateOf,            \* per entry of Plates: its plate, which stands for the hash
  Limit,              \* vectors the matcher asks for
  MaxFails            \* bound: failed or interrupted index calls

Enrollable == Persons \cup Vehicles \cup Plates

\* An entry has one category.
WatchlistAssumption == Plates \cap (Persons \cup Vehicles) = {} /\ Limit \in Nat

VARIABLES
  rows,     \* per entry: none, live, or gone
  vectors,  \* the points of the index
  calls,    \* per entry: the index calls that follow a committed request
  known,    \* the matcher's copy of the rows
  plateWatch,  \* the engine's copy of the plates
  heard,    \* the step's embedding or plate read, if any: its category, and what was fired
  fails     \* bound

vars == <<rows, vectors, calls, known, plateWatch, heard, fails>>

Silence == [category |-> {}, near |-> {}, fired |-> {}]

Init ==
  /\ rows = [e \in Enrollable |-> "none"]
  /\ vectors = {}
  /\ calls = [e \in Enrollable |-> {}]
  /\ known = {}
  /\ plateWatch = {}
  /\ heard = Silence
  /\ fails = 0

\* watchlist_enroll: the row is committed before the vector is stored.
Enroll(e) ==
  /\ e \notin Plates
  /\ rows[e] = "none"
  /\ rows' = [rows EXCEPT ![e] = "live"]
  /\ calls' = [calls EXCEPT ![e] = @ \cup {"upsert"}]
  /\ UNCHANGED <<vectors, known, plateWatch, fails>>
  /\ heard' = Silence

\* watchlist_plate: the same plate may be enrolled again, under another label.
EnrollPlate(e) ==
  /\ e \in Plates
  /\ rows[e] = "none"
  /\ rows' = [rows EXCEPT ![e] = "live"]
  /\ UNCHANGED <<vectors, calls, known, plateWatch, fails>>
  /\ heard' = Silence

\* watchlist_delete: the row goes first; that the vector could not be
\* removed is not reported.  (For a plate the index has no point: the call does nothing.)
Delete(e) ==
  /\ rows[e] = "live"
  /\ rows' = [rows EXCEPT ![e] = "gone"]
  /\ calls' = [calls EXCEPT ![e] = IF e \in Plates THEN @ ELSE @ \cup {"remove"}]
  /\ UNCHANGED <<vectors, known, plateWatch, fails>>
  /\ heard' = Silence

Upsert(e) ==
  /\ "upsert" \in calls[e]
  /\ vectors' = vectors \cup {e}
  /\ calls' = [calls EXCEPT ![e] = @ \ {"upsert"}]
  /\ UNCHANGED <<rows, known, plateWatch, fails>>
  /\ heard' = Silence

Remove(e) ==
  /\ "remove" \in calls[e]
  /\ vectors' = vectors \ {e}
  /\ calls' = [calls EXCEPT ![e] = @ \ {"remove"}]
  /\ UNCHANGED <<rows, known, plateWatch, fails>>
  /\ heard' = Silence

\* The index fails or the API dies between the two stores.
Fail(e, call) ==
  /\ call \in calls[e] /\ fails < MaxFails
  /\ calls' = [calls EXCEPT ![e] = @ \ {call}]
  /\ fails' = fails + 1
  /\ UNCHANGED <<rows, vectors, known, plateWatch>>
  /\ heard' = Silence

\* WatchlistMatcher.refresh, at most every meta_refresh_seconds.
Refresh ==
  /\ known' = {e \in Enrollable : rows[e] = "live"}
  /\ UNCHANGED <<rows, vectors, calls, plateWatch, fails>>
  /\ heard' = Silence

\* _load_zones, on a clock of its own.
RefreshPlates ==
  /\ plateWatch' = {e \in Plates : rows[e] = "live"}
  /\ UNCHANGED <<rows, vectors, calls, known, fails>>
  /\ heard' = Silence

\* The first of the nearest vectors that is known, of the category and near enough.
NearestOnly(ranking, category, near) ==     \* mutant
  LET e == ranking[1] IN {e} \cap known \cap category \cap near
Match(ranking, category, near) ==
  LET top == {ranking[i] : i \in 1 .. IF Len(ranking) < Limit THEN Len(ranking) ELSE Limit}
      good == {i \in DOMAIN ranking : ranking[i] \in top \cap known \cap category \cap near}
  IN  {ranking[i] : i \in {j \in good : \A k \in good : j <= k}}

Rankings == {s \in [1 .. Cardinality(vectors) -> vectors] : \A i, j \in DOMAIN s : s[i] = s[j] => i = j}

\* handle: `near` are the entries whose threshold the score reaches; nothing is
\* looked up while no entry is known.
Embedding(category, near) ==
  /\ vectors # {} /\ known # {}
  /\ \E ranking \in Rankings :
       heard' = [category |-> category, near |-> near, fired |-> Match(ranking, category, near)]
  /\ UNCHANGED <<rows, vectors, calls, known, plateWatch, fails>>

Entries(plate) == {e \in Plates : PlateOf[e] = plate}

\* _eval_plate_watch: plate_watch has one entry per hash, which of them is not fixed.
ReadPlate(plate) ==
  /\ \E fired \in {{e} : e \in Entries(plate) \cap plateWatch}
                  \cup (IF Entries(plate) \cap plateWatch = {} THEN {{}} ELSE {}) :
       heard' = [category |-> Plates, near |-> Entries(plate), fired |-> fired]
  /\ UNCHANGED <<rows, vectors, calls, known, plateWatch, fails>>

Next ==
  \/ \E e \in Enrollable :
       \/ Enroll(e) \/ EnrollPlate(e) \/ Delete(e) \/ Upsert(e) \/ Remove(e)
       \/ \E call \in {"upsert", "remove"} : Fail(e, call)
  \/ Refresh
  \/ RefreshPlates
  \/ \E category \in {Persons, Vehicles}, near \in SUBSET vectors : Embedding(category, near)
  \/ \E plate \in {PlateOf[e] : e \in Plates} : ReadPlate(plate)

Spec == Init /\ [][Next]_vars
-----------------------------------------------------------------------------
Watching(category) == IF category = Plates THEN plateWatch ELSE known

\* watchlist.py:84-107, engine.py:352-382.  While the index holds no more vectors than
\* the matcher asks for, left-over ones included, an appearance near a known entry of
\* its category fires one of them, whatever ranks before it.  A plate fires as long
\* as one of its entries was there when the plates were last loaded.
WatchedIsFound ==
  [][heard' # heard /\ Cardinality(vectors) <= Limit
       /\ Watching(heard'.category) \cap heard'.category \cap heard'.near # {}
       => heard'.fired # {}]_vars
=============================================================================
