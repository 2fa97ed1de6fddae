--------------------------- MODULE Migrations_proofs ---------------------------
(***************************************************************************)
(* The revisions as ServiceParts takes them.  Order says which table each  *)
(* operation makes or drops; from it, a run is after any number of its     *)
(* operations at a schema of which the tables are the first so many, so    *)
(* PostgreSQL accepts the next operation, and the last one leaves the      *)
(* schema the ORM declares.                                                *)
(***************************************************************************)
EXTENDS ServiceParts, SequenceTheorems, TLAPS

\* The tables in the order in which the revisions create them, and the place of each.
Order == <<
  "evidence_records", "model_versions", "signatures", "sites", "users", "audit_logs",
  "buildings", "cases", "eval_runs", "cameras", "case_evidence", "recordings",
  "tracked_objects", "zones", "events", "incidents", "access_events", "case_incidents",
  "incident_status_logs", "watchlist_entries", "zone_snapshots", "schedule_windows",
  "nl_alerts", "responders", "oncall_shifts", "dispatches", "soc_shifts",
  "fleet_snapshots", "fleet_findings", "plate_sightings", "cross_site_links", "devices",
  "sensor_events">>

Rank == [
  evidence_records |-> 1, model_versions |-> 2, signatures |-> 3, sites |-> 4, users |-> 5,
  audit_logs |-> 6, buildings |-> 7, cases |-> 8, eval_runs |-> 9, cameras |-> 10,
  case_evidence |-> 11, recordings |-> 12, tracked_objects |-> 13, zones |-> 14,
  events |-> 15, incidents |-> 16, access_events |-> 17, case_incidents |-> 18,
  incident_status_logs |-> 19, watchlist_entries |-> 20, zone_snapshots |-> 21,
  schedule_windows |-> 22, nl_alerts |-> 23, responders |-> 24, oncall_shifts |-> 25,
  dispatches |-> 26, soc_shifts |-> 27, fleet_snapshots |-> 28, fleet_findings |-> 29,
  plate_sightings |-> 30, cross_site_links |-> 31, devices |-> 32, sensor_events |-> 33]

LEMMA Groups ==
  /\ DOMAIN M!Facility = {"sites", "buildings", "zones", "cameras"}
  /\ DOMAIN M!Detection = {"signatures", "tracked_objects", "events"}
  /\ DOMAIN M!IncidentRows = {"incidents", "incident_status_logs"}
  /\ DOMAIN M!Cases = {"case_incidents", "cases", "case_evidence"}
  /\ DOMAIN M!Sensors = {"access_events", "devices", "sensor_events"}
  /\ DOMAIN M!Records = {"recordings", "users", "audit_logs", "evidence_records"}
  /\ DOMAIN M!Governance = {"model_versions", "eval_runs"}
  /\ DOMAIN M!Watching = {"nl_alerts", "schedule_windows", "zone_snapshots", "watchlist_entries"}
  /\ DOMAIN M!Soc = {"responders", "oncall_shifts", "dispatches", "soc_shifts"}
  /\ DOMAIN M!FleetHealth = {"fleet_snapshots", "fleet_findings"}
  /\ DOMAIN M!CrossSites = {"plate_sightings", "cross_site_links"}
BY DEF M!Facility, M!Detection, M!IncidentRows, M!Cases, M!Sensors, M!Records, M!Governance,
   M!Watching, M!Soc, M!FleetHealth, M!CrossSites

LEMMA DeclaredIs ==
  /\ DOMAIN M!Declared = DOMAIN Rank
  /\ \A t \in DOMAIN M!Facility : M!Declared[t] = M!Facility[t]
  /\ \A t \in DOMAIN M!Detection : M!Declared[t] = M!Detection[t]
  /\ \A t \in DOMAIN M!IncidentRows : M!Declared[t] = M!IncidentRows[t]
  /\ \A t \in DOMAIN M!Cases : M!Declared[t] = M!Cases[t]
  /\ \A t \in DOMAIN M!Sensors : M!Declared[t] = M!Sensors[t]
  /\ \A t \in DOMAIN M!Records : M!Declared[t] = M!Records[t]
  /\ \A t \in DOMAIN M!Governance : M!Declared[t] = M!Governance[t]
  /\ \A t \in DOMAIN M!Watching : M!Declared[t] = M!Watching[t]
  /\ \A t \in DOMAIN M!Soc : M!Declared[t] = M!Soc[t]
  /\ \A t \in DOMAIN M!FleetHealth : M!Declared[t] = M!FleetHealth[t]
  /\ \A t \in DOMAIN M!CrossSites : M!Declared[t] = M!CrossSites[t]
<1>1. /\ DOMAIN M!Monitoring = DOMAIN M!Facility \cup DOMAIN M!Detection
                                \cup DOMAIN M!IncidentRows \cup DOMAIN M!Cases
      /\ \A t \in DOMAIN M!Facility : M!Monitoring[t] = M!Facility[t]
      /\ \A t \in DOMAIN M!Detection : M!Monitoring[t] = M!Detection[t]
      /\ \A t \in DOMAIN M!IncidentRows : M!Monitoring[t] = M!IncidentRows[t]
      /\ \A t \in DOMAIN M!Cases : M!Monitoring[t] = M!Cases[t]
  BY Groups DEF M!Monitoring, M!With
<1>2. /\ DOMAIN M!Keeping = DOMAIN M!Sensors \cup DOMAIN M!Records \cup DOMAIN M!Governance
      /\ \A t \in DOMAIN M!Sensors : M!Keeping[t] = M!Sensors[t]
      /\ \A t \in DOMAIN M!Records : M!Keeping[t] = M!Records[t]
      /\ \A t \in DOMAIN M!Governance : M!Keeping[t] = M!Governance[t]
  BY Groups DEF M!Keeping, M!With
<1>3. /\ DOMAIN M!Operations = DOMAIN M!Watching \cup DOMAIN M!Soc
                                \cup DOMAIN M!FleetHealth \cup DOMAIN M!CrossSites
      /\ \A t \in DOMAIN M!Watching : M!Operations[t] = M!Watching[t]
      /\ \A t \in DOMAIN M!Soc : M!Operations[t] = M!Soc[t]
      /\ \A t \in DOMAIN M!FleetHealth : M!Operations[t] = M!FleetHealth[t]
      /\ \A t \in DOMAIN M!CrossSites : M!Operations[t] = M!CrossSites[t]
  BY Groups DEF M!Operations, M!With
<1>4. /\ DOMAIN M!Declared = DOMAIN M!Monitoring \cup DOMAIN M!Keeping \cup DOMAIN M!Operations
      /\ \A t \in DOMAIN M!Monitoring : M!Declared[t] = M!Monitoring[t]
      /\ \A t \in DOMAIN M!Keeping : M!Declared[t] = M!Keeping[t]
      /\ \A t \in DOMAIN M!Operations : M!Declared[t] = M!Operations[t]
  BY Groups, <1>1, <1>2, <1>3 DEF M!Declared, M!With
<1>5. DOMAIN M!Declared = DOMAIN Rank
  BY Groups, <1>1, <1>2, <1>3, <1>4 DEF Rank
<1> QED BY <1>1, <1>2, <1>3, <1>4, <1>5

LEMMA Ranked ==
  /\ \A t \in DOMAIN Rank : Rank[t] \in 1 .. 33 /\ Order[Rank[t]] = t
  /\ \A t, u \in DOMAIN Rank : Rank[t] = Rank[u] => t = u
<1>1. \A t \in DOMAIN Rank : Rank[t] \in 1 .. 33 /\ Order[Rank[t]] = t
  BY DEF Rank, Order
<1> QED BY <1>1

Columns == {"risk_score", "occurrence_count", "last_seen_at"}

\* The tables of g refer to tables of a lower rank.
RefersBack(g) ==
  \A t \in DOMAIN g : \A r \in g[t].refs : r.to \in DOMAIN Rank /\ Rank[r.to] < Rank[t]
\* Only the incidents have columns that were not in the first schema.
IsTable(x, added) == x = [refs |-> x.refs, enums |-> x.enums, added |-> added]
Described(g) ==
  \A t \in DOMAIN g : IsTable(g[t], IF t = "incidents" THEN Columns ELSE {})

LEMMA To == \A c, t : M!Owned(c, t).to = t /\ M!Scoped(c, t).to = t /\ M!Linked(c, t).to = t
BY DEF M!Owned, M!Linked, M!Scoped, M!Reference

LEMMA TableIs ==
  \A f, e : M!Table(f, e).refs = f /\ M!Table(f, e).enums = e /\ IsTable(M!Table(f, e), {})
BY DEF M!Table, IsTable

LEMMA DeclaredInOrder == RefersBack(M!Declared) /\ Described(M!Declared)
<1>1. RefersBack(M!Facility)
  BY To, TableIs DEF RefersBack, M!Facility, Rank
<1>2. RefersBack(M!Detection)
  BY To, TableIs DEF RefersBack, M!Detection, Rank
<1>3. RefersBack(M!IncidentRows)
  BY To, TableIs DEF RefersBack, M!IncidentRows, Rank
<1>4. RefersBack(M!Cases)
  BY To, TableIs DEF RefersBack, M!Cases, Rank
<1>5. RefersBack(M!Sensors)
  BY To, TableIs DEF RefersBack, M!Sensors, Rank
<1>6. RefersBack(M!Records)
  BY To, TableIs DEF RefersBack, M!Records, Rank
<1>7. RefersBack(M!Governance)
  BY To, TableIs DEF RefersBack, M!Governance, Rank
<1>8. RefersBack(M!Watching)
  BY To, TableIs DEF RefersBack, M!Watching, Rank
<1>9. RefersBack(M!Soc)
  BY To, TableIs DEF RefersBack, M!Soc, Rank
<1>10. RefersBack(M!FleetHealth)
  BY To, TableIs DEF RefersBack, M!FleetHealth, Rank
<1>11. RefersBack(M!CrossSites)
  BY To, TableIs DEF RefersBack, M!CrossSites, Rank
<1>12. Described(M!Facility)
  BY TableIs DEF Described, M!Facility
<1>13. Described(M!Detection)
  BY TableIs DEF Described, M!Detection
<1>14. Described(M!IncidentRows)
  <2>1. IsTable(M!IncidentRows["incidents"], Columns)
    BY DEF M!IncidentRows, Columns, IsTable
  <2>2. IsTable(M!IncidentRows["incident_status_logs"], {})
    BY TableIs DEF M!IncidentRows
  <2> QED BY <2>1, <2>2, Groups DEF Described
<1>15. Described(M!Cases)
  BY TableIs DEF Described, M!Cases
<1>16. Described(M!Sensors)
  BY TableIs DEF Described, M!Sensors
<1>17. Described(M!Records)
  BY TableIs DEF Described, M!Records
<1>18. Described(M!Governance)
  BY TableIs DEF Described, M!Governance
<1>19. Described(M!Watching)
  BY TableIs DEF Described, M!Watching
<1>20. Described(M!Soc)
  BY TableIs DEF Described, M!Soc
<1>21. Described(M!FleetHealth)
  BY TableIs DEF Described, M!FleetHealth
<1>22. Described(M!CrossSites)
  BY TableIs, SMTT(60) DEF Described, M!CrossSites
<1>23. RefersBack(M!Declared)
  BY <1>1, <1>2, <1>3, <1>4, <1>5, <1>6, <1>7, <1>8, <1>9, <1>10, <1>11, DeclaredIs, Groups,
     SMTT(60) DEF RefersBack, Rank
<1>24. Described(M!Declared)
  BY <1>12, <1>13, <1>14, <1>15, <1>16, <1>17, <1>18, <1>19, <1>20, <1>21, <1>22, DeclaredIs,
     Groups DEF Described, Rank
<1> QED BY <1>23, <1>24
-----------------------------------------------------------------------------
CoreTypes == {"severity", "detection_method", "incident_status", "verdict", "camera_status",
  "zone_type", "user_role", "case_status", "recording_type", "access_event_type",
  "model_role", "model_stage"}

\* The first n tables, and the enum types they use.
Present(n) == {t \in DOMAIN Rank : Rank[t] <= n}
EnumsOf(n) == UNION {M!Declared[t].enums : t \in Present(n)}

LEMMA EnumTypes ==
  /\ \A t \in DOMAIN Rank : M!Declared[t].enums \subseteq CoreTypes \cup {"dispatch_state"}
  /\ \A t \in DOMAIN Rank : Rank[t] <= 25 => M!Declared[t].enums \subseteq CoreTypes
<1> DEFINE Good(g) ==
      \A t \in DOMAIN g :
        /\ g[t].enums \subseteq CoreTypes \cup {"dispatch_state"}
        /\ t # "dispatches" => g[t].enums \subseteq CoreTypes
<1>1. Good(M!Facility)
  BY TableIs DEF M!Facility, CoreTypes
<1>2. Good(M!Detection)
  BY TableIs DEF M!Detection, CoreTypes
<1>3. Good(M!IncidentRows)
  BY TableIs DEF M!IncidentRows, CoreTypes
<1>4. Good(M!Cases)
  BY TableIs DEF M!Cases, CoreTypes
<1>5. Good(M!Sensors)
  BY TableIs DEF M!Sensors, CoreTypes
<1>6. Good(M!Records)
  BY TableIs DEF M!Records, CoreTypes
<1>7. Good(M!Governance)
  BY TableIs DEF M!Governance, CoreTypes
<1>8. Good(M!Watching)
  BY TableIs DEF M!Watching, CoreTypes
<1>9. Good(M!Soc)
  BY TableIs DEF M!Soc, CoreTypes
<1>10. Good(M!FleetHealth)
  BY TableIs DEF M!FleetHealth, CoreTypes
<1>11. Good(M!CrossSites)
  BY TableIs DEF M!CrossSites, CoreTypes
<1>12. Good(M!Declared)
  BY <1>1, <1>2, <1>3, <1>4, <1>5, <1>6, <1>7, <1>8, <1>9, <1>10, <1>11, DeclaredIs, Groups DEF Rank
<1>13. Rank["dispatches"] = 26
  BY DEF Rank
<1> QED BY <1>12, <1>13, DeclaredIs

LEMMA EnumOwners ==
  /\ "severity" \in M!Declared["signatures"].enums
  /\ "detection_method" \in M!Declared["signatures"].enums
  /\ "incident_status" \in M!Declared["incidents"].enums
  /\ "verdict" \in M!Declared["incidents"].enums
  /\ "camera_status" \in M!Declared["cameras"].enums /\ "zone_type" \in M!Declared["zones"].enums
  /\ "user_role" \in M!Declared["users"].enums /\ "case_status" \in M!Declared["cases"].enums
  /\ "recording_type" \in M!Declared["recordings"].enums
  /\ "access_event_type" \in M!Declared["access_events"].enums
  /\ "model_role" \in M!Declared["model_versions"].enums
  /\ "model_stage" \in M!Declared["model_versions"].enums
  /\ "dispatch_state" \in M!Declared["dispatches"].enums
BY DeclaredIs, Groups, TableIs DEF M!Facility, M!Detection, M!IncidentRows, M!Cases, M!Sensors,
   M!Records, M!Governance, M!Soc

LEMMA CoreEnums == EnumsOf(19) = CoreTypes
<1>1. EnumsOf(19) \subseteq CoreTypes
  BY EnumTypes, Ranked DEF EnumsOf, Present
<1>2. CoreTypes \subseteq EnumsOf(19)
  <2>1. \A t \in {"signatures", "incidents", "cameras", "zones", "users", "cases", "recordings",
                   "access_events", "model_versions"} : M!Declared[t].enums \subseteq EnumsOf(19)
    BY DEF EnumsOf, Present, Rank
  <2> QED BY <2>1, EnumOwners DEF CoreTypes
<1> QED BY <1>1, <1>2

LEMMA AllEnums ==
  UNION {M!Declared[t].enums : t \in DOMAIN M!Declared} = CoreTypes \cup {"dispatch_state"}
<1>1. \A t \in DOMAIN Rank :
        M!Declared[t].enums \subseteq UNION {M!Declared[u].enums : u \in DOMAIN M!Declared}
  BY DeclaredIs
<1>2. {"signatures", "incidents", "cameras", "zones", "users", "cases", "recordings",
       "access_events", "model_versions", "dispatches"} \subseteq DOMAIN Rank
  BY DEF Rank
<1> QED BY <1>1, <1>2, EnumTypes, EnumOwners, DeclaredIs DEF CoreTypes
-----------------------------------------------------------------------------
LEMMA CreateIs ==
  ASSUME NEW t, NEW refs, NEW enums, NEW existing
  PROVE  LET o == M!Create(t, refs, enums, existing)
         IN  /\ o.op = "create" /\ o.table = t
             /\ o.refs = refs /\ o.enums = enums /\ o.existing = existing
BY SMTT(60) DEF M!Create

\* The operation o creates the n-th table as declared.
Creates(o, n) ==
  /\ o.op = "create" /\ o.table \in DOMAIN Rank /\ Rank[o.table] = n
  /\ o.refs = M!Declared[o.table].refs /\ o.enums \cup o.existing = M!Declared[o.table].enums

\* The operations s create the tables after the first `base`, with all their enum types
\* or with none.
Founds(s, base) == \A i \in 1 .. Len(s) : Creates(s[i], base + i) /\ s[i].existing = {}
Builds(s, base) == \A i \in 1 .. Len(s) : Creates(s[i], base + i) /\ s[i].enums = {}

LEMMA CoreCreates == Len(M!CoreTables) = 9 /\ Founds(M!CoreTables, 0)
BY CreateIs, TableIs, DeclaredIs, Groups, SMTT(60)
   DEF M!CoreTables, Founds, Creates, Rank, M!Facility,
   M!Detection, M!Records, M!Governance, M!Cases

LEMMA CameraCreates == Len(M!CameraTables) = 5 /\ Founds(M!CameraTables, 9)
BY CreateIs, TableIs, DeclaredIs, Groups, SMTT(60)
   DEF M!CameraTables, Founds, Creates, Rank, M!Facility,
   M!Detection, M!Records, M!Cases

LEMMA IncidentCreates == Len(M!IncidentTables) = 5 /\ Founds(M!IncidentTables, 14)
<1>1. /\ M!IncidentRows["incidents"].refs =
           {M!Linked("event_id", "events"), M!Linked("signature_id", "signatures"),
            M!Owned("camera_id", "cameras"), M!Linked("zone_id", "zones"),
            M!Linked("assigned_to", "users")}
      /\ M!IncidentRows["incidents"].enums = {"severity", "incident_status", "verdict"}
      /\ M!IncidentRows["incident_status_logs"] =
           M!Table({M!Owned("incident_id", "incidents"), M!Linked("user_id", "users")}, {})
  BY SMTT(60) DEF M!IncidentRows
<1> DEFINE Right(i) == Creates(M!IncidentTables[i], 14 + i) /\ M!IncidentTables[i].existing = {}
<1>2. \A i \in {1} : Right(i)
  BY CreateIs, TableIs, DeclaredIs, Groups, SMTT(60)
     DEF M!IncidentTables, Creates, Rank, M!Detection
<1>3. \A i \in {2} : Right(i)
  <2>1. /\ M!Declared["incidents"].refs = M!IncidentRows["incidents"].refs
        /\ M!Declared["incidents"].enums = M!IncidentRows["incidents"].enums
        /\ Rank["incidents"] = 16 /\ "incidents" \in DOMAIN Rank
    BY DeclaredIs, Groups DEF Rank
  <2>2. M!IncidentTables[2] = M!Create("incidents",
           {M!Linked("event_id", "events"), M!Linked("signature_id", "signatures"),
            M!Owned("camera_id", "cameras"), M!Linked("zone_id", "zones"),
            M!Linked("assigned_to", "users")},
         {"severity", "incident_status", "verdict"}, {})
    BY DEF M!IncidentTables
  <2> DEFINE o == M!IncidentTables[2]
  <2>3. o.op = "create" /\ o.table = "incidents" /\ o.existing = {}
    BY <2>2, CreateIs
  <2>4. o.refs = M!Declared["incidents"].refs
    BY <1>1, <2>1, <2>2, CreateIs
  <2>5. o.enums = M!Declared["incidents"].enums
    BY <1>1, <2>1, <2>2, CreateIs, SMTT(60)
  <2> QED BY <2>1, <2>3, <2>4, <2>5 DEF Creates
<1>4. \A i \in {3} : Right(i)
  BY CreateIs, TableIs, DeclaredIs, Groups, SMTT(60) DEF M!IncidentTables, Creates, Rank, M!Sensors
<1>5. \A i \in {4} : Right(i)
  BY CreateIs, TableIs, DeclaredIs, Groups, SMTT(60) DEF M!IncidentTables, Creates, Rank, M!Cases
<1>6. \A i \in {5} : Right(i)
  BY <1>1, CreateIs, TableIs, DeclaredIs, Groups, SMTT(60) DEF M!IncidentTables, Creates, Rank
<1>7. Len(M!IncidentTables) = 5
  BY SMTT(60) DEF M!IncidentTables
<1> QED BY <1>2, <1>3, <1>4, <1>5, <1>6, <1>7 DEF Founds

LEMMA WatchlistCreates == Len(M!WatchlistUp) = 1 /\ Builds(M!WatchlistUp, 19)
BY CreateIs, TableIs, DeclaredIs, Groups, SMTT(60)
   DEF M!WatchlistUp, Builds, Creates, Rank, M!Watching

LEMMA ZoneSnapshotsCreates == Len(M!ZoneSnapshotsUp) = 1 /\ Builds(M!ZoneSnapshotsUp, 20)
BY CreateIs, TableIs, DeclaredIs, Groups, SMTT(60)
   DEF M!ZoneSnapshotsUp, Builds, Creates, Rank, M!Watching

LEMMA SchedulesCreates == Len(M!SchedulesUp) = 1 /\ Builds(M!SchedulesUp, 21)
BY CreateIs, TableIs, DeclaredIs, Groups, SMTT(60)
   DEF M!SchedulesUp, Builds, Creates, Rank, M!Watching

LEMMA AlertsCreates == Len(M!AlertsUp) = 1 /\ Builds(M!AlertsUp, 22)
BY CreateIs, TableIs, DeclaredIs, Groups, SMTT(60) DEF M!AlertsUp, Builds, Creates, Rank, M!Watching

LEMMA EnterpriseCreates ==
  /\ Len(M!EnterpriseUp) = 9 /\ M!EnterpriseUp[1] = M!CreateType("dispatch_state")
  /\ \A i \in 2 .. 9 : Creates(M!EnterpriseUp[i], 22 + i) /\ M!EnterpriseUp[i].enums = {}
<1> USE CreateIs, TableIs, DeclaredIs, Groups
<1>1. Len(M!EnterpriseUp) = 9 /\ M!EnterpriseUp[1] = M!CreateType("dispatch_state")
  BY SMTT(60) DEF M!EnterpriseUp
<1>2. \A i \in 2 .. 5 : Creates(M!EnterpriseUp[i], 22 + i) /\ M!EnterpriseUp[i].enums = {}
  BY SMTT(60) DEF M!EnterpriseUp, Creates, Rank, M!Soc
<1>3. \A i \in 6 .. 7 : Creates(M!EnterpriseUp[i], 22 + i) /\ M!EnterpriseUp[i].enums = {}
  BY SMTT(60) DEF M!EnterpriseUp, Creates, Rank, M!FleetHealth
<1>4. \A i \in 8 .. 9 : Creates(M!EnterpriseUp[i], 22 + i) /\ M!EnterpriseUp[i].enums = {}
  BY SMTT(60) DEF M!EnterpriseUp, Creates, Rank, M!CrossSites
<1> QED BY <1>1, <1>2, <1>3, <1>4

LEMMA SensorPlaneCreates == Len(M!SensorPlaneUp) = 2 /\ Builds(M!SensorPlaneUp, 31)
BY CreateIs, TableIs, DeclaredIs, Groups, SMTT(60)
   DEF M!SensorPlaneUp, Builds, Creates, Rank, M!Sensors
\* c is a followed by b, which have m and n elements.
Joined(c, a, m, b, n) ==
  /\ DOMAIN c = 1 .. m + n
  /\ \A i \in 1 .. m : c[i] = a[i]
  /\ \A i \in 1 .. n : c[m + i] = b[i]

LEMMA JoinedIs ==
  ASSUME NEW Ops, NEW a \in Seq(Ops), NEW b \in Seq(Ops)
  PROVE  a \o b \in Seq(Ops) /\ Joined(a \o b, a, Len(a), b, Len(b))
BY DEF Joined

LEMMA LengthIs ==
  \A Ops : \A s \in Seq(Ops) : \A n \in Nat : DOMAIN s = 1 .. n => Len(s) = n
OBVIOUS

\* s is a sequence, as far as its domain says.
IsSequence(s) == Len(s) \in Nat /\ s = [i \in 1 .. Len(s) |-> s[i]]

LEMMA ElementsOfSeq == \A Ops : \A s \in Seq(Ops) : IsSequence(s)
BY SMTT(60) DEF IsSequence

LEMMA FirstRevision == IsSequence(M!Up[1]) /\ Len(M!Up[1]) = 19 /\ Founds(M!Up[1], 0)
<1> DEFINE Ops == {M!CoreTables[i] : i \in 1 .. 9} \cup {M!CameraTables[i] : i \in 1 .. 5}
                \cup {M!IncidentTables[i] : i \in 1 .. 5}
           both == M!CoreTables \o M!CameraTables
<1>1. M!CoreTables \in Seq(Ops) /\ Len(M!CoreTables) = 9
  BY DEF M!CoreTables
<1>2. M!CameraTables \in Seq(Ops) /\ Len(M!CameraTables) = 5
  BY DEF M!CameraTables
<1>3. M!IncidentTables \in Seq(Ops) /\ Len(M!IncidentTables) = 5
  BY DEF M!IncidentTables
<1> HIDE DEF Ops
<1>4. /\ both \in Seq(Ops)
      /\ Joined(both, M!CoreTables, Len(M!CoreTables), M!CameraTables, Len(M!CameraTables))
  BY <1>1, <1>2, JoinedIs
<1>5. both \in Seq(Ops) /\ Joined(both, M!CoreTables, 9, M!CameraTables, 5)
  BY <1>1, <1>2, <1>4
<1> HIDE DEF both
<1>6. Len(both) = 14
  BY <1>5, LengthIs DEF Joined
<1>7. /\ both \o M!IncidentTables \in Seq(Ops)
      /\ Joined(both \o M!IncidentTables, both, Len(both), M!IncidentTables, Len(M!IncidentTables))
  BY <1>3, <1>5, JoinedIs
<1>8. Joined(M!Up[1], both, 14, M!IncidentTables, 5) /\ Len(M!Up[1]) = 19
  <2>1. M!Up[1] = both \o M!IncidentTables
    BY DEF M!Up, both
  <2>2. Joined(M!Up[1], both, 14, M!IncidentTables, 5) /\ M!Up[1] \in Seq(Ops)
    BY <1>3, <1>6, <1>7, <2>1
  <2>3. DOMAIN M!Up[1] = 1 .. 19
    BY <2>2 DEF Joined
  <2> QED BY <2>2, <2>3, LengthIs
<1>9. ASSUME NEW i \in 1 .. 19 PROVE Creates(M!Up[1][i], i) /\ M!Up[1][i].existing = {}
  <2>1. CASE i <= 9
    <3>1. i \in 1 .. 9 /\ 0 + i = i
      BY <2>1
    <3>2. M!Up[1][i] = M!CoreTables[i]
      BY <1>5, <1>8, <3>1, SMTT(60) DEF Joined
    <3> QED BY <1>1, <3>1, <3>2, CoreCreates DEF Founds
  <2>2. CASE 9 < i /\ i <= 14
    <3>1. PICK j \in 1 .. 5 : i = 9 + j
      <4>1. i - 9 \in 1 .. 5 /\ i = 9 + (i - 9)
        BY <2>2
      <4> QED BY <4>1
    <3>2. M!Up[1][i] = M!CameraTables[j]
      BY <1>5, <1>8, <3>1, SMTT(60) DEF Joined
    <3> QED BY <1>2, <3>1, <3>2, CameraCreates DEF Founds
  <2>3. CASE 14 < i
    <3>1. PICK j \in 1 .. 5 : i = 14 + j
      <4>1. i - 14 \in 1 .. 5 /\ i = 14 + (i - 14)
        BY <2>3
      <4> QED BY <4>1
    <3>2. M!Up[1][i] = M!IncidentTables[j]
      BY <1>8, <3>1 DEF Joined
    <3> QED BY <1>3, <3>1, <3>2, IncidentCreates DEF Founds
  <2> QED BY <2>1, <2>2, <2>3
<1>10. \A i \in 1 .. 19 : 0 + i = i
  OBVIOUS
<1>11. IsSequence(M!Up[1])
  <2>1. M!Up[1] = both \o M!IncidentTables
    BY DEF M!Up, both
  <2> QED BY <1>7, <2>1, ElementsOfSeq
<1> QED BY <1>8, <1>9, <1>10, <1>11 DEF Founds

\* The operation o drops the n-th table.
Drops(o, n) == o.op = "drop" /\ o.table \in DOMAIN Rank /\ Rank[o.table] = n

LEMMA DropIs == \A t : M!Drop(t).op = "drop" /\ M!Drop(t).table = t
BY DEF M!Drop

LEMMA DropAllIs ==
  ASSUME NEW ts, NEW n \in Nat, DOMAIN ts = 1 .. n
  PROVE  /\ DOMAIN M!DropAll(ts) = 1 .. n /\ Len(M!DropAll(ts)) = n
         /\ \A i \in 1 .. n : M!DropAll(ts)[i] = M!Drop(ts[i])
BY DEF M!DropAll

LEMMA OtherDowns ==
  /\ Len(M!Down[2]) = 1 /\ Drops(M!Down[2][1], 20)
  /\ Len(M!Down[3]) = 1 /\ Drops(M!Down[3][1], 21)
  /\ Len(M!Down[6]) = 1 /\ Drops(M!Down[6][1], 22)
  /\ Len(M!Down[7]) = 1 /\ Drops(M!Down[7][1], 23)
  /\ Len(M!Down[10]) = 2 /\ Drops(M!Down[10][1], 33) /\ Drops(M!Down[10][2], 32)
BY DropIs, SMTT(60) DEF M!Down, M!DropAll, Drops, Rank

LEMMA EnterpriseDowns ==
  /\ Len(M!Down[8]) = 9 /\ M!Down[8][9] = M!DropType("dispatch_state")
  /\ \A i \in 1 .. 8 : Drops(M!Down[8][i], 32 - i)
BY DropIs, SMTT(60) DEF M!Down, M!EnterpriseDown, M!DropAll, Drops, Rank

LEMMA InitialDowns ==
  /\ Len(M!Down[1]) = 31
  /\ \A i \in 1 .. 19 : Drops(M!Down[1][i], 20 - i)
  /\ \A i \in 20 .. 31 : M!Down[1][i].op = "untype"
  /\ CoreTypes \subseteq {M!Down[1][i].type : i \in 20 .. 31}
BY DropIs, SMTT(60) DEF M!Down, M!InitialDown, M!DropAll, Drops, Rank, M!DropType, CoreTypes
-----------------------------------------------------------------------------
LEMMA RevisionSequences ==
  /\ IsSequence(M!Up[1]) /\ IsSequence(M!Up[2]) /\ IsSequence(M!Up[3]) /\ IsSequence(M!Up[4])
  /\ IsSequence(M!Up[5]) /\ IsSequence(M!Up[6]) /\ IsSequence(M!Up[7]) /\ IsSequence(M!Up[8])
  /\ IsSequence(M!Up[9]) /\ IsSequence(M!Up[10])
<1>1. IsSequence(M!Up[1])
  BY FirstRevision DEF IsSequence
<1>2. IsSequence(M!Up[2]) /\ IsSequence(M!Up[3]) /\ IsSequence(M!Up[4])
  BY DEF M!Up, M!WatchlistUp, M!ZoneSnapshotsUp, M!RiskScoreUp, IsSequence
<1>3. IsSequence(M!Up[5]) /\ IsSequence(M!Up[6]) /\ IsSequence(M!Up[7])
  BY DEF M!Up, M!GroupingUp, M!SchedulesUp, M!AlertsUp, IsSequence
<1>4. IsSequence(M!Up[8])
  BY DEF M!Up, M!EnterpriseUp, IsSequence
<1>5. IsSequence(M!Up[9]) /\ IsSequence(M!Up[10])
  BY DEF M!Up, M!CoreDefaults, M!SensorPlaneUp, IsSequence
<1> QED BY <1>1, <1>2, <1>3, <1>4, <1>5

LEMMA DownSequences ==
  /\ IsSequence(M!Down[1]) /\ IsSequence(M!Down[2]) /\ IsSequence(M!Down[3])
  /\ IsSequence(M!Down[4])
  /\ IsSequence(M!Down[5]) /\ IsSequence(M!Down[6]) /\ IsSequence(M!Down[7])
  /\ IsSequence(M!Down[8])
  /\ IsSequence(M!Down[9]) /\ IsSequence(M!Down[10])
<1>1. IsSequence(M!Down[1])
  BY DEF M!Down, M!InitialDown, M!DropAll, IsSequence
<1>2. IsSequence(M!Down[2]) /\ IsSequence(M!Down[3]) /\ IsSequence(M!Down[4])
  BY DEF M!Down, M!RiskScoreDown, M!DropAll, IsSequence
<1>3. IsSequence(M!Down[5]) /\ IsSequence(M!Down[6]) /\ IsSequence(M!Down[7])
  BY DEF M!Down, M!GroupingDown, M!DropAll, IsSequence
<1>4. IsSequence(M!Down[8])
  BY DEF M!Down, M!EnterpriseDown, M!DropAll, IsSequence
<1>5. IsSequence(M!Down[9]) /\ IsSequence(M!Down[10])
  BY DEF M!Down, M!CoreDefaults, M!DropAll, IsSequence
<1> QED BY <1>1, <1>2, <1>3, <1>4, <1>5

\* What is left of s after n of its elements.
Rest(s, n) == [i \in 1 .. Len(s) - n |-> s[n + i]]

LEMMA RestIs ==
  ASSUME NEW s, IsSequence(s), NEW n \in 0 .. Len(s)
  PROVE  /\ n = 0 => s = Rest(s, n)
         /\ Rest(s, n) = << >> <=> n = Len(s)
         /\ n < Len(s) => Head(Rest(s, n)) = s[n + 1] /\ Tail(Rest(s, n)) = Rest(s, n + 1)
<1>1. n = 0 => s = Rest(s, n)
  BY DEF IsSequence, Rest
<1>2. Rest(s, n) = << >> <=> n = Len(s)
  <2> DEFINE r == Rest(s, n)
  <2>1. DOMAIN r = 1 .. Len(s) - n /\ r = [i \in 1 .. Len(s) - n |-> s[n + i]]
    BY DEF Rest
  <2>2. ASSUME n = Len(s) PROVE r = << >>
    <3>1. 1 .. Len(s) - n = {}
      BY <2>2 DEF IsSequence
    <3>2. [i \in {} |-> s[n + i]] = << >>
      OBVIOUS
    <3> QED BY <2>1, <3>1, <3>2
  <2>3. ASSUME n # Len(s) PROVE r # << >>
    <3>1. 1 \in DOMAIN r
      BY <2>1, <2>3 DEF IsSequence
    <3> HIDE DEF r
    <3> QED BY <3>1
  <2> QED BY <2>2, <2>3
<1>3. n < Len(s) => Head(Rest(s, n)) = s[n + 1]
  BY DEF IsSequence, Rest
<1>4. n < Len(s) => Tail(Rest(s, n)) = Rest(s, n + 1)
  BY SMTT(60) DEF IsSequence, Rest
<1> QED BY <1>1, <1>2, <1>3, <1>4
-----------------------------------------------------------------------------
\* The first n tables as the revisions leave them, with these columns added to the incidents.
Tables(n, cols) ==
  [t \in Present(n) |-> [refs |-> M!Declared[t].refs, enums |-> M!Declared[t].enums,
                         added |-> IF t = "incidents" THEN cols ELSE {}]]

LEMMA GrowTables ==
  ASSUME NEW n \in 0 .. 32, NEW cols, NEW o, Creates(o, n + 1), n + 1 = 16 => cols = {},
         run.tables = Tables(n, cols)
  PROVE  /\ ~M!Exists(o.table)
         /\ \A r \in o.refs : M!Exists(r.to)
         /\ M!With(run.tables, [t \in {o.table} |-> M!Table(o.refs, o.enums \cup o.existing)])
              = Tables(n + 1, cols)
<1>1. DOMAIN run.tables = Present(n) /\ o.table \in DOMAIN Rank /\ Rank[o.table] = n + 1
  BY DEF Tables, Creates
<1>2. o.table \notin Present(n)
  BY <1>1 DEF Present
<1>3. \A r \in o.refs : r.to \in Present(n)
  BY <1>1, DeclaredInOrder, DeclaredIs, Ranked DEF RefersBack, Creates, Present
<1>4. Present(n + 1) = Present(n) \cup {o.table}
  BY <1>1, Ranked DEF Present
<1> DEFINE new == M!Table(o.refs, o.enums \cup o.existing)
<1>5. new = [refs |-> M!Declared[o.table].refs, enums |-> M!Declared[o.table].enums,
             added |-> IF o.table = "incidents" THEN cols ELSE {}]
  <2>1. o.table = "incidents" => n + 1 = 16
    BY <1>1 DEF Rank
  <2> QED BY <2>1 DEF M!Table, Creates
<1> HIDE DEF new
<1>6. M!With(run.tables, [t \in {o.table} |-> new]) = Tables(n + 1, cols)
  BY <1>1, <1>2, <1>4, <1>5 DEF M!With, Tables
<1> QED BY <1>1, <1>2, <1>3, <1>6 DEF M!Exists, new

LEMMA ShrinkTables ==
  ASSUME NEW n \in 1 .. 33, NEW cols, NEW o, Drops(o, n), run.tables = Tables(n, cols)
  PROVE  /\ M!Exists(o.table)
         /\ \A u \in DOMAIN M!Without(o.table) : \A r \in run.tables[u].refs : r.to # o.table
         /\ M!Without(o.table) = Tables(n - 1, cols)
<1>1. DOMAIN run.tables = Present(n) /\ o.table \in DOMAIN Rank /\ Rank[o.table] = n
  BY DEF Tables, Drops
<1>2. o.table \in Present(n) /\ Present(n) \ {o.table} = Present(n - 1)
  BY <1>1, Ranked DEF Present
<1>3. ASSUME NEW u \in Present(n - 1), NEW r \in run.tables[u].refs PROVE r.to # o.table
  <2>1. u \in DOMAIN Rank /\ Rank[u] <= n - 1 /\ run.tables[u].refs = M!Declared[u].refs
    BY <1>2 DEF Present, Tables
  <2>2. Rank[r.to] < Rank[u] /\ Rank[u] \in 1 .. 33 /\ Rank[r.to] \in 1 .. 33
    BY <2>1, <1>3, DeclaredInOrder, DeclaredIs, Ranked DEF RefersBack
  <2> QED BY <1>1, <2>1, <2>2
<1>4. M!Without(o.table) = Tables(n - 1, cols)
  BY <1>1, <1>2 DEF M!Without, Tables
<1>5. DOMAIN M!Without(o.table) = Present(n - 1)
  BY <1>1, <1>2 DEF M!Without
<1> QED BY <1>1, <1>2, <1>3, <1>4, <1>5 DEF M!Exists
-----------------------------------------------------------------------------
\* At revision k: the number of tables, the columns added to the incidents, the types.
After == <<19, 20, 21, 21, 21, 22, 23, 31, 31, 33>>
TablesAt(k) == IF k = 0 THEN 0 ELSE After[k]
ColumnsAt(k) == IF k < 4 THEN {} ELSE IF k = 4 THEN {"risk_score"} ELSE Columns
TypesAt(k) ==
  IF k = 0 THEN {} ELSE IF k < 8 THEN CoreTypes ELSE CoreTypes \cup {"dispatch_state"}

\* The schema s (of a run, or the committed one) is that of revision k.
IsAt(tbls, tps, k) == tbls = Tables(TablesAt(k), ColumnsAt(k)) /\ tps = TypesAt(k)

\* After n of the operations that lead up to revision k.
ColumnsUp(k, n) ==
  IF k = 4 /\ n = 0 THEN {}
  ELSE IF k = 5 /\ n = 0 THEN {"risk_score"}
  ELSE IF k = 5 /\ n = 1 THEN {"risk_score", "occurrence_count"}
  ELSE ColumnsAt(k)
TablesUp(k, n) ==
  IF k \in {4, 5, 9} THEN TablesAt(k)
  ELSE IF k = 8 THEN (IF n = 0 THEN 23 ELSE 22 + n)
  ELSE TablesAt(k - 1) + n
TypesUp(k, n) ==
  IF k = 1 THEN EnumsOf(n) ELSE IF k = 8 /\ n = 0 THEN CoreTypes ELSE TypesAt(k)
OnTheWayUp(k, n) ==
  /\ run.tables = Tables(TablesUp(k, n), ColumnsUp(k, n))
  /\ run.types = TypesUp(k, n)
  /\ k = 1 => run.memo = run.types

\* After n of the operations that lead down from revision k.
ColumnsDown(k, n) ==
  IF k = 4 /\ n = 1 THEN {}
  ELSE IF k = 5 /\ n = 1 THEN {"risk_score", "occurrence_count"}
  ELSE IF k = 5 /\ n = 2 THEN {"risk_score"}
  ELSE ColumnsAt(k)
TablesDown(k, n) ==
  IF k \in {4, 5, 9} THEN TablesAt(k)
  ELSE IF n <= TablesAt(k) - TablesAt(k - 1) THEN TablesAt(k) - n
  ELSE TablesAt(k - 1)
TypesDown(k, n, tps) ==
  IF k = 1 THEN tps \subseteq {M!Down[1][i].type : i \in {j \in 20 .. 31 : n < j}}
  ELSE tps = IF k = 8 /\ n = 9 THEN CoreTypes ELSE TypesAt(k)
OnTheWayDown(k, n) ==
  /\ run.tables = Tables(TablesDown(k, n), ColumnsDown(k, n))
  /\ TypesDown(k, n, run.types)

IsRun ==
  /\ run = [on |-> TRUE, to |-> run.to, at |-> run.at, ops |-> run.ops, tables |-> run.tables,
            types |-> run.types, memo |-> run.memo]
  /\ run.to \in 0 .. 10 /\ run.at \in 0 .. 10

\* Where a run is: at a revision, or on the way to the next one up or down.
Between == run.ops = << >> /\ IsAt(run.tables, run.types, run.at)
Upward ==
  /\ run.at \in 1 .. run.to
  /\ \E n \in 0 .. Len(M!Up[run.at]) :
       run.ops = Rest(M!Up[run.at], n) /\ n < Len(M!Up[run.at]) /\ OnTheWayUp(run.at, n)
Downward ==
  /\ run.at \in run.to .. 9
  /\ \E n \in 0 .. Len(M!Down[run.at + 1]) :
       /\ run.ops = Rest(M!Down[run.at + 1], n) /\ n < Len(M!Down[run.at + 1])
       /\ OnTheWayDown(run.at + 1, n)

RunFollows ==
  /\ IsRun
  /\ run.at = 0 /\ run.to # 0 => run.memo = {}
  /\ Between \/ Upward \/ Downward

MigrationInv ==
  /\ version \in 0 .. 10
  /\ IsAt(tables, types, version)
  /\ run = M!NoRun \/ RunFollows

LEMMA RevisionNumbers ==
  /\ TablesAt(0) = 0 /\ TablesAt(1) = 19 /\ TablesAt(2) = 20 /\ TablesAt(3) = 21
  /\ TablesAt(4) = 21 /\ TablesAt(5) = 21 /\ TablesAt(6) = 22 /\ TablesAt(7) = 23
  /\ TablesAt(8) = 31 /\ TablesAt(9) = 31 /\ TablesAt(10) = 33
BY DEF TablesAt, After

\* The operations of the revisions after the first, by what they do.
LEMMA LaterRevisions ==
  /\ Len(M!Up[2]) = 1 /\ Builds(M!Up[2], 19) /\ Len(M!Up[3]) = 1 /\ Builds(M!Up[3], 20)
  /\ Len(M!Up[6]) = 1 /\ Builds(M!Up[6], 21) /\ Len(M!Up[7]) = 1 /\ Builds(M!Up[7], 22)
  /\ Len(M!Up[10]) = 2 /\ Builds(M!Up[10], 31)
  /\ Len(M!Up[8]) = 9 /\ M!Up[8][1] = M!CreateType("dispatch_state")
  /\ \A i \in 2 .. 9 : Creates(M!Up[8][i], 22 + i) /\ M!Up[8][i].enums = {}
<1>1. /\ M!Up[2] = M!WatchlistUp /\ M!Up[3] = M!ZoneSnapshotsUp /\ M!Up[6] = M!SchedulesUp
      /\ M!Up[7] = M!AlertsUp /\ M!Up[8] = M!EnterpriseUp /\ M!Up[10] = M!SensorPlaneUp
  BY DEF M!Up
<1> QED
  BY <1>1, WatchlistCreates, ZoneSnapshotsCreates, SchedulesCreates, AlertsCreates,
     EnterpriseCreates, SensorPlaneCreates

LEMMA ColumnRevisions ==
  /\ Len(M!Up[4]) = 1 /\ M!Up[4][1] = M!AddColumn("incidents", "risk_score", TRUE)
  /\ Len(M!Up[5]) = 2 /\ M!Up[5][1] = M!AddColumn("incidents", "occurrence_count", TRUE)
  /\ M!Up[5][2] = M!AddColumn("incidents", "last_seen_at", TRUE)
  /\ Len(M!Down[4]) = 1 /\ M!Down[4][1] = M!DropColumn("incidents", "risk_score")
  /\ Len(M!Down[5]) = 2 /\ M!Down[5][1] = M!DropColumn("incidents", "last_seen_at")
  /\ M!Down[5][2] = M!DropColumn("incidents", "occurrence_count")
BY DEF M!Up, M!Down, M!RiskScoreUp, M!RiskScoreDown, M!GroupingUp, M!GroupingDown

LEMMA DefaultRevisions ==
  /\ Len(M!Up[9]) = 3 /\ Len(M!Down[9]) = 3
  /\ \A i \in 1 .. 3 : /\ M!Up[9][i].op = "default" /\ M!Down[9][i].op = "default"
                       /\ M!Up[9][i].table \in Present(31) /\ M!Down[9][i].table \in Present(31)
BY DEF M!Up, M!Down, M!CoreDefaults, M!AlterDefaults, Present, Rank
-----------------------------------------------------------------------------
\* The operation o is accepted, and leaves the run with these tables, types and memo.
Leads(o, tbls, tps, memo) ==
  M!Accepted(o) /\ M!Applied(o) = [run EXCEPT !.tables = tbls, !.types = tps, !.memo = memo]

LEMMA CreateStep ==
  ASSUME IsRun, NEW n \in 0 .. 32, NEW cols, NEW o, Creates(o, n + 1), n + 1 = 16 => cols = {},
         run.tables = Tables(n, cols), o.existing \subseteq run.types,
         (o.enums \ run.memo) \cap run.types = {}
  PROVE  Leads(o, Tables(n + 1, cols), run.types \cup o.enums, run.memo \cup o.enums)
<1>1. o.op = "create"
  BY DEF Creates
<1>2. M!Accepted(o)
  BY <1>1, GrowTables DEF M!Accepted
<1>3. M!Applied(o) = [run EXCEPT !.types = @ \cup o.enums, !.memo = @ \cup o.enums,
        !.tables = M!With(@, [t \in {o.table} |-> M!Table(o.refs, o.enums \cup o.existing)])]
  BY <1>1 DEF M!Applied
<1>4. M!With(run.tables, [t \in {o.table} |-> M!Table(o.refs, o.enums \cup o.existing)])
        = Tables(n + 1, cols)
  BY GrowTables
<1> QED BY <1>2, <1>3, <1>4 DEF IsRun, Leads

LEMMA DropStep ==
  ASSUME IsRun, NEW n \in 1 .. 33, NEW cols, NEW o, Drops(o, n), run.tables = Tables(n, cols)
  PROVE  Leads(o, Tables(n - 1, cols), run.types, run.memo)
<1>1. o.op = "drop"
  BY DEF Drops
<1> QED BY <1>1, ShrinkTables DEF M!Accepted, M!Applied, IsRun, Leads

LEMMA IncidentsHere ==
  ASSUME NEW n \in 16 .. 33, NEW cols, run.tables = Tables(n, cols)
  PROVE  /\ M!Exists("incidents") /\ run.tables["incidents"].added = cols
         /\ \A new : [run.tables EXCEPT !["incidents"].added = new] = Tables(n, new)
<1>1. "incidents" \in Present(n)
  BY DEF Present, Rank
<1>2. M!Exists("incidents") /\ run.tables["incidents"].added = cols
  BY <1>1 DEF Tables, M!Exists
<1>3. ASSUME NEW new PROVE [run.tables EXCEPT !["incidents"].added = new] = Tables(n, new)
  <2> DEFINE a == [run.tables EXCEPT !["incidents"].added = new]
  <2>1. a = [t \in Present(n) |-> IF t = "incidents" THEN [run.tables[t] EXCEPT !.added = new]
                                 ELSE run.tables[t]]
    BY <1>1 DEF Tables
  <2>2. [run.tables["incidents"] EXCEPT !.added = new] = Tables(n, new)["incidents"]
    BY <1>1 DEF Tables
  <2>3. \A t \in Present(n) : t # "incidents" => run.tables[t] = Tables(n, new)[t]
    BY DEF Tables
  <2>4. Tables(n, new) = [t \in Present(n) |-> Tables(n, new)[t]]
    BY DEF Tables
  <2> QED BY <2>1, <2>2, <2>3, <2>4
<1> QED BY <1>2, <1>3

LEMMA AddStep ==
  ASSUME IsRun, NEW n \in 16 .. 33, NEW cols, NEW c, c \notin cols, run.tables = Tables(n, cols),
         NEW o, o = M!AddColumn("incidents", c, TRUE)
  PROVE  Leads(o, Tables(n, cols \cup {c}), run.types, run.memo)
<1>1. o.op = "add" /\ o.table = "incidents" /\ o.col = c /\ o.fillable
  BY DEF M!AddColumn
<1>2. M!Exists("incidents") /\ run.tables["incidents"].added = cols
  BY IncidentsHere
<1>3. [run.tables EXCEPT !["incidents"].added = cols \cup {c}] = Tables(n, cols \cup {c})
  BY IncidentsHere
<1>4. M!Accepted(o)
  BY <1>1, <1>2 DEF M!Accepted
<1>5. M!Applied(o) = [run EXCEPT !.tables["incidents"].added = @ \cup {c}]
  BY <1>1 DEF M!Applied
<1>6. M!Applied(o) = [run EXCEPT !.tables = Tables(n, cols \cup {c})]
  BY <1>2, <1>3, <1>5 DEF IsRun
<1> QED BY <1>4, <1>6 DEF IsRun, Leads

LEMMA RemoveStep ==
  ASSUME IsRun, NEW n \in 16 .. 33, NEW cols, NEW c, c \in cols, run.tables = Tables(n, cols),
         NEW o, o = M!DropColumn("incidents", c)
  PROVE  Leads(o, Tables(n, cols \ {c}), run.types, run.memo)
<1>1. o.op = "remove" /\ o.table = "incidents" /\ o.col = c
  BY DEF M!DropColumn
<1>2. M!Exists("incidents") /\ run.tables["incidents"].added = cols
  BY IncidentsHere
<1>3. [run.tables EXCEPT !["incidents"].added = cols \ {c}] = Tables(n, cols \ {c})
  BY IncidentsHere
<1>4. M!Accepted(o)
  BY <1>1, <1>2 DEF M!Accepted
<1>5. M!Applied(o) = [run EXCEPT !.tables["incidents"].added = @ \ {c}]
  BY <1>1 DEF M!Applied
<1>6. M!Applied(o) = [run EXCEPT !.tables = Tables(n, cols \ {c})]
  BY <1>2, <1>3, <1>5 DEF IsRun
<1> QED BY <1>4, <1>6 DEF IsRun, Leads

LEMMA DefaultStep ==
  ASSUME IsRun, NEW n \in 16 .. 33, NEW cols, run.tables = Tables(n, cols),
         NEW o, o.op = "default", o.table \in Present(n)
  PROVE  Leads(o, run.tables, run.types, run.memo)
<1>1. M!Accepted(o)
  BY DEF M!Accepted, M!Exists, Tables
<1>2. M!Applied(o) = run
  BY DEF M!Applied
<1> QED BY <1>1, <1>2 DEF Leads, IsRun

LEMMA TypeStep ==
  ASSUME IsRun, NEW type, NEW o, o = M!CreateType(type)
  PROVE  Leads(o, run.tables, run.types \cup {type}, run.memo)
<1>1. o.op = "type" /\ o.type = type
  BY DEF M!CreateType
<1>2. M!Accepted(o) /\ M!Applied(o) = [run EXCEPT !.types = @ \cup {type}]
  BY <1>1 DEF M!Accepted, M!Applied
<1> QED BY <1>2 DEF Leads, IsRun

LEMMA UntypeStep ==
  ASSUME IsRun, NEW n, NEW cols, run.tables = Tables(n, cols), NEW o, o.op = "untype",
         \A t \in Present(n) : o.type \notin M!Declared[t].enums
  PROVE  Leads(o, run.tables, run.types \ {o.type}, run.memo)
<1>1. M!Accepted(o) /\ M!Applied(o) = [run EXCEPT !.types = @ \ {o.type}]
  BY DEF M!Accepted, M!Applied, Tables
<1> QED BY <1>1 DEF Leads, IsRun

\* The operation o leads the run to where it is after n operations up, or down.
LeadsUp(o, k, n) ==
  \E memo :
    /\ Leads(o, Tables(TablesUp(k, n), ColumnsUp(k, n)), TypesUp(k, n), memo)
    /\ k = 1 => memo = TypesUp(k, n)

LEMMA UpFirst ==
  ASSUME IsRun, NEW n \in 0 .. 18, NEW o, o = M!Up[1][n + 1], OnTheWayUp(1, n)
  PROVE  LeadsUp(o, 1, n + 1)
<1>1. n + 1 \in 1 .. 19 /\ 0 + (n + 1) = n + 1 /\ n \in 0 .. 32
  OBVIOUS
<1>2. Creates(o, n + 1) /\ o.existing = {}
  <2>1. Creates(M!Up[1][n + 1], 0 + (n + 1)) /\ M!Up[1][n + 1].existing = {}
    BY <1>1, FirstRevision DEF Founds
  <2> QED BY <1>1, <2>1
<1>3. /\ TablesUp(1, n) = n /\ ColumnsUp(1, n) = {} /\ TypesUp(1, n) = EnumsOf(n)
      /\ TablesUp(1, n + 1) = n + 1 /\ ColumnsUp(1, n + 1) = {}
      /\ TypesUp(1, n + 1) = EnumsOf(n + 1)
  BY RevisionNumbers DEF TablesUp, ColumnsUp, ColumnsAt, TypesUp
<1>4. run.tables = Tables(n, {}) /\ run.types = EnumsOf(n) /\ run.memo = run.types
  BY <1>3 DEF OnTheWayUp
<1>5. EnumsOf(n) \cup o.enums = EnumsOf(n + 1)
  <2>1. o.enums = M!Declared[o.table].enums /\ o.table \in DOMAIN Rank /\ Rank[o.table] = n + 1
    BY <1>2 DEF Creates
  <2>2. Present(n + 1) = Present(n) \cup {o.table}
    BY <1>1, <2>1, Ranked DEF Present
  <2> QED BY <2>1, <2>2 DEF EnumsOf
<1>6. Leads(o, Tables(n + 1, {}), run.types \cup o.enums, run.memo \cup o.enums)
  BY <1>1, <1>2, <1>4, CreateStep
<1>7. Leads(o, Tables(n + 1, {}), EnumsOf(n + 1), EnumsOf(n + 1))
  BY <1>4, <1>5, <1>6
<1> QED BY <1>3, <1>7 DEF LeadsUp

LEMMA EnterpriseRanks == \A n \in 1 .. 8 : 22 + n \in 19 .. 32
OBVIOUS

LEMMA UpCreate ==
  ASSUME IsRun, NEW k \in 2 .. 10, NEW n \in Nat, n < Len(M!Up[k]), NEW o, o = M!Up[k][n + 1],
         OnTheWayUp(k, n), k \in {2, 3, 6, 7, 10} \/ (k = 8 /\ n # 0)
  PROVE  LeadsUp(o, k, n + 1)
<1>1. PICK m \in 19 .. 32 :
        /\ TablesUp(k, n) = m /\ TablesUp(k, n + 1) = m + 1 /\ Creates(o, m + 1) /\ o.enums = {}
        /\ k < 8 => m <= 22
  <2>1. CASE k \in {2, 3, 6, 7}
    <3>1. Len(M!Up[k]) = 1 /\ Builds(M!Up[k], TablesAt(k - 1)) /\ TablesAt(k - 1) \in 19 .. 22
      <4>1. CASE k = 2
        BY <4>1, LaterRevisions, RevisionNumbers
      <4>2. CASE k = 3
        BY <4>2, LaterRevisions, RevisionNumbers
      <4>3. CASE k = 6
        BY <4>3, LaterRevisions, RevisionNumbers
      <4>4. CASE k = 7
        BY <4>4, LaterRevisions, RevisionNumbers
      <4> QED BY <2>1, <4>1, <4>2, <4>3, <4>4
    <3>2. n = 0 /\ n + 1 \in 1 .. Len(M!Up[k]) /\ n + 1 = 1
      BY <3>1
    <3>3. Creates(o, TablesAt(k - 1) + 1) /\ o.enums = {}
      BY <3>1, <3>2 DEF Builds
    <3>4. TablesUp(k, n) = TablesAt(k - 1) /\ TablesUp(k, n + 1) = TablesAt(k - 1) + 1
      BY <2>1, <3>1, <3>2 DEF TablesUp
    <3> QED BY <2>1, <3>1, <3>3, <3>4
  <2>2. CASE k = 10
    <3>1. n \in {0, 1} /\ Creates(o, 31 + (n + 1)) /\ o.enums = {}
      BY <2>2, LaterRevisions DEF Builds
    <3>2. TablesUp(k, n) = 31 + n /\ TablesUp(k, n + 1) = 31 + (n + 1)
      BY <2>2, <3>1, RevisionNumbers, SMTT(60) DEF TablesUp
    <3>3. 31 + n \in 19 .. 32
      BY <3>1
    <3>4. 31 + (n + 1) = (31 + n) + 1
      BY <3>1
    <3>5. TablesUp(k, n + 1) = (31 + n) + 1 /\ Creates(o, (31 + n) + 1)
      BY <3>1, <3>2, <3>4
    <3> QED BY <2>2, <3>1, <3>2, <3>3, <3>5, SMTT(60)
  <2>3. CASE k = 8 /\ n # 0
    <3>1. n + 1 \in 2 .. 9 /\ Creates(o, 22 + (n + 1)) /\ o.enums = {}
      BY <2>3, LaterRevisions
    <3>2. TablesUp(k, n) = 22 + n /\ TablesUp(k, n + 1) = 22 + (n + 1)
      BY <2>3, <3>1 DEF TablesUp
    <3>3. n \in 1 .. 8
      BY <3>1
    <3>4. 22 + n \in 19 .. 32
      BY <3>3, EnterpriseRanks
    <3>5. 22 + (n + 1) = (22 + n) + 1
      BY <3>3
    <3>6. TablesUp(k, n + 1) = (22 + n) + 1 /\ Creates(o, (22 + n) + 1)
      BY <3>1, <3>2, <3>5
    <3> QED BY <2>3, <3>1, <3>2, <3>4, <3>6, SMTT(60)
  <2> QED BY <2>1, <2>2, <2>3
<1>2. /\ ColumnsUp(k, n) = ColumnsAt(k) /\ ColumnsUp(k, n + 1) = ColumnsAt(k)
      /\ TypesUp(k, n) = TypesAt(k) /\ TypesUp(k, n + 1) = TypesAt(k)
  BY DEF ColumnsUp, TypesUp
<1>3. run.tables = Tables(m, ColumnsAt(k)) /\ run.types = TypesAt(k)
  BY <1>1, <1>2 DEF OnTheWayUp
<1>4. o.existing \subseteq run.types
  <2>1. /\ o.existing \subseteq M!Declared[o.table].enums
        /\ o.table \in DOMAIN Rank /\ Rank[o.table] = m + 1
    BY <1>1 DEF Creates
  <2>2. CASE k < 8
    <3>1. Rank[o.table] <= 25 /\ TypesAt(k) = CoreTypes
      BY <1>1, <2>1, <2>2 DEF TypesAt
    <3>2. M!Declared[o.table].enums \subseteq CoreTypes
      BY <2>1, <3>1, EnumTypes
    <3> QED BY <1>3, <2>1, <3>1, <3>2
  <2>3. CASE ~(k < 8)
    <3>1. TypesAt(k) = CoreTypes \cup {"dispatch_state"}
      BY <2>3 DEF TypesAt
    <3>2. M!Declared[o.table].enums \subseteq CoreTypes \cup {"dispatch_state"}
      BY <2>1, EnumTypes
    <3> QED BY <1>3, <2>1, <3>1, <3>2
  <2> QED BY <2>2, <2>3
<1>5. m \in 0 .. 32 /\ m + 1 # 16
  BY <1>1
<1>6. Leads(o, Tables(m + 1, ColumnsAt(k)), run.types \cup o.enums, run.memo \cup o.enums)
  BY <1>1, <1>3, <1>4, <1>5, CreateStep
<1>7. Leads(o, Tables(m + 1, ColumnsAt(k)), TypesAt(k), run.memo)
  BY <1>1, <1>3, <1>6
<1> QED BY <1>1, <1>2, <1>7 DEF LeadsUp

LEMMA UpColumn ==
  ASSUME IsRun, NEW k \in {4, 5}, NEW n \in Nat, n < Len(M!Up[k]), NEW o, o = M!Up[k][n + 1],
         OnTheWayUp(k, n)
  PROVE  LeadsUp(o, k, n + 1)
<1>1. PICK c, had : /\ o = M!AddColumn("incidents", c, TRUE) /\ c \notin had
                    /\ ColumnsUp(k, n) = had /\ ColumnsUp(k, n + 1) = had \cup {c}
  <2>1. CASE k = 4
    <3>1. n = 0 /\ n + 1 = 1
      BY <2>1, ColumnRevisions
    <3>2. ColumnsUp(k, n) = {} /\ ColumnsUp(k, n + 1) = {} \cup {"risk_score"}
      BY <2>1, <3>1 DEF ColumnsUp, ColumnsAt
    <3>3. o = M!AddColumn("incidents", "risk_score", TRUE)
      BY <2>1, <3>1, ColumnRevisions
    <3> QED BY <3>2, <3>3, Zenon
  <2>2. CASE k = 5 /\ n = 0
    <3>1. /\ ColumnsUp(k, n) = {"risk_score"}
          /\ ColumnsUp(k, n + 1) = {"risk_score"} \cup {"occurrence_count"}
      BY <2>2 DEF ColumnsUp, ColumnsAt
    <3>2. o = M!AddColumn("incidents", "occurrence_count", TRUE)
      <4>1. n + 1 = 1
        BY <2>2
      <4> QED BY <2>2, <4>1, ColumnRevisions
    <3>3. "occurrence_count" \notin {"risk_score"}
      OBVIOUS
    <3> QED BY <3>1, <3>2, <3>3, Zenon
  <2>3. CASE k = 5 /\ n = 1
    <3>1. /\ ColumnsUp(k, n) = {"risk_score", "occurrence_count"}
          /\ ColumnsUp(k, n + 1) = {"risk_score", "occurrence_count"} \cup {"last_seen_at"}
      BY <2>3 DEF ColumnsUp, ColumnsAt, Columns
    <3>2. o = M!AddColumn("incidents", "last_seen_at", TRUE)
      <4>1. n + 1 = 2
        BY <2>3
      <4> QED BY <2>3, <4>1, ColumnRevisions
    <3>3. "last_seen_at" \notin {"risk_score", "occurrence_count"}
      OBVIOUS
    <3> QED BY <3>1, <3>2, <3>3, Zenon
  <2>4. k = 5 => n \in {0, 1}
    BY ColumnRevisions
  <2> QED BY <2>1, <2>2, <2>3, <2>4
<1>2. /\ TablesUp(k, n) = 21 /\ TablesUp(k, n + 1) = 21
      /\ TypesUp(k, n) = TypesAt(k) /\ TypesUp(k, n + 1) = TypesAt(k)
  BY RevisionNumbers, SMTT(60) DEF TablesUp, TypesUp
<1>3. run.tables = Tables(21, had) /\ run.types = TypesAt(k)
  BY <1>1, <1>2 DEF OnTheWayUp
<1>4. 21 \in 16 .. 33 /\ k # 1
  OBVIOUS
<1>5. Leads(o, Tables(21, had \cup {c}), run.types, run.memo)
  BY <1>1, <1>3, <1>4, AddStep
<1> QED BY <1>1, <1>2, <1>3, <1>4, <1>5, Zenon DEF LeadsUp

LEMMA UpDefault ==
  ASSUME IsRun, NEW n \in Nat, n < Len(M!Up[9]), NEW o, o = M!Up[9][n + 1], OnTheWayUp(9, n)
  PROVE  LeadsUp(o, 9, n + 1)
<1>1. o.op = "default" /\ o.table \in Present(31)
  <2>1. n + 1 \in 1 .. 3
    BY DefaultRevisions
  <2> QED BY <2>1, DefaultRevisions
<1>2. /\ TablesUp(9, n) = 31 /\ ColumnsUp(9, n) = Columns /\ TypesUp(9, n) = TypesAt(9)
      /\ TablesUp(9, n + 1) = 31 /\ ColumnsUp(9, n + 1) = Columns /\ TypesUp(9, n + 1) = TypesAt(9)
  BY RevisionNumbers DEF TablesUp, ColumnsUp, ColumnsAt, TypesUp
<1>3. run.tables = Tables(31, Columns) /\ run.types = TypesAt(9)
  BY <1>2 DEF OnTheWayUp
<1>4. Leads(o, run.tables, run.types, run.memo)
  BY <1>1, <1>3, DefaultStep
<1> QED BY <1>2, <1>3, <1>4 DEF LeadsUp

LEMMA UpType ==
  ASSUME IsRun, NEW o, o = M!Up[8][1], OnTheWayUp(8, 0)
  PROVE  LeadsUp(o, 8, 1)
<1>1. /\ TablesUp(8, 0) = 23 /\ ColumnsUp(8, 0) = Columns /\ TypesUp(8, 0) = CoreTypes
      /\ TablesUp(8, 1) = 23 /\ ColumnsUp(8, 1) = Columns
      /\ TypesUp(8, 1) = CoreTypes \cup {"dispatch_state"}
  BY DEF TablesUp, ColumnsUp, ColumnsAt, TypesUp, TypesAt
<1>2. run.tables = Tables(23, Columns) /\ run.types = CoreTypes
  BY <1>1 DEF OnTheWayUp
<1>3. Leads(o, run.tables, run.types \cup {"dispatch_state"}, run.memo)
  BY LaterRevisions, TypeStep
<1> QED BY <1>1, <1>2, <1>3 DEF LeadsUp

LEMMA UpStep ==
  ASSUME IsRun, NEW k \in 1 .. 10, NEW n \in Nat, n < Len(M!Up[k]), NEW o, o = M!Up[k][n + 1],
         OnTheWayUp(k, n)
  PROVE  LeadsUp(o, k, n + 1)
<1>1. CASE k = 1
  <2>1. n \in 0 .. 18
    BY <1>1, FirstRevision
  <2> QED BY <1>1, <2>1, UpFirst
<1>2. CASE k \in {2, 3, 6, 7, 10} \/ (k = 8 /\ n # 0)
  <2>1. k \in 2 .. 10
    BY <1>2
  <2> QED BY <1>2, <2>1, UpCreate
<1>3. CASE k \in {4, 5}
  BY <1>3, UpColumn
<1>4. CASE k = 9
  BY <1>4, UpDefault
<1>5. CASE k = 8 /\ n = 0
  BY <1>5, UpType
<1> QED BY <1>1, <1>2, <1>3, <1>4, <1>5
-----------------------------------------------------------------------------
\* The operation o leads the run to where it is after n operations down from revision k.
LeadsDown(o, k, n) ==
  \E tps, memo :
    /\ Leads(o, Tables(TablesDown(k, n), ColumnsDown(k, n)), tps, memo)
    /\ TypesDown(k, n, tps)

LEMMA DownDrop ==
  ASSUME IsRun, NEW k \in 1 .. 10, NEW n \in Nat, NEW o, OnTheWayDown(k, n),
         NEW m \in 1 .. 33, Drops(o, m), TablesDown(k, n) = m, TablesDown(k, n + 1) = m - 1,
         k \in {1, 2, 3, 6, 7, 8, 10}, k = 1 => n < 19, k = 8 => n < 8
  PROVE  LeadsDown(o, k, n + 1)
<1>1. ColumnsDown(k, n) = ColumnsAt(k) /\ ColumnsDown(k, n + 1) = ColumnsAt(k)
  BY DEF ColumnsDown
<1>2. run.tables = Tables(m, ColumnsAt(k)) /\ TypesDown(k, n, run.types)
  BY <1>1 DEF OnTheWayDown
<1>3. TypesDown(k, n + 1, run.types)
  <2>1. CASE k = 1
    <3>1. \A j \in 20 .. 31 : n + 1 < j
      BY <2>1
    <3>2. run.types \subseteq {M!Down[1][i].type : i \in {j \in 20 .. 31 : n < j}}
      BY <1>2, <2>1 DEF TypesDown
    <3>3. {j \in 20 .. 31 : n < j} = {j \in 20 .. 31 : n + 1 < j}
      BY <3>1
    <3> QED BY <2>1, <3>2, <3>3 DEF TypesDown
  <2>2. CASE k # 1
    BY <1>2, <2>2 DEF TypesDown
  <2> QED BY <2>1, <2>2
<1>4. Leads(o, Tables(m - 1, ColumnsAt(k)), run.types, run.memo)
  BY <1>2, DropStep
<1> QED BY <1>1, <1>3, <1>4, Zenon DEF LeadsDown

LEMMA FirstRanks ==
  /\ \A n \in 0 .. 18 : TablesDown(1, n) = 19 - n /\ TablesDown(1, n + 1) = (19 - n) - 1
  /\ \A n \in 0 .. 7 : TablesDown(8, n) = 31 - n /\ TablesDown(8, n + 1) = (31 - n) - 1
<1>1. TablesAt(1) = 19 /\ TablesAt(1 - 1) = 0 /\ TablesAt(8) = 31 /\ TablesAt(8 - 1) = 23
  BY RevisionNumbers
<1>2. ASSUME NEW n \in 0 .. 19 PROVE TablesDown(1, n) = 19 - n
  BY <1>1 DEF TablesDown
<1>3. ASSUME NEW n \in 0 .. 8 PROVE TablesDown(8, n) = 31 - n
  BY <1>1 DEF TablesDown
<1>4. ASSUME NEW n \in 0 .. 18 PROVE n \in 0 .. 19 /\ n + 1 \in 0 .. 19
  OBVIOUS
<1>5. ASSUME NEW n \in 0 .. 7 PROVE n \in 0 .. 8 /\ n + 1 \in 0 .. 8
  OBVIOUS
<1>6. ASSUME NEW n \in 0 .. 18 PROVE 19 - (n + 1) = (19 - n) - 1
  OBVIOUS
<1>7. ASSUME NEW n \in 0 .. 7 PROVE 31 - (n + 1) = (31 - n) - 1
  OBVIOUS
<1> QED BY <1>2, <1>3, <1>4, <1>5, <1>6, <1>7

LEMMA DownTables ==
  ASSUME NEW k \in 1 .. 10, NEW n \in Nat, n < Len(M!Down[k]), NEW o, o = M!Down[k][n + 1],
         k \in {1, 2, 3, 6, 7, 8, 10}, k = 1 => n \in 0 .. 18, k = 8 => n \in 0 .. 7
  PROVE  \E m \in 1 .. 33 : Drops(o, m) /\ TablesDown(k, n) = m /\ TablesDown(k, n + 1) = m - 1
<1>1. CASE k = 1
  <2>1. n \in 0 .. 18
    BY <1>1
  <2>2. n + 1 \in 1 .. 19
    BY <2>1
  <2>3. 20 - (n + 1) = 19 - n
    BY <2>1
  <2>4. 19 - n \in 1 .. 33
    BY <2>1
  <2>5. Drops(o, 19 - n)
    <3>1. Drops(M!Down[1][n + 1], 20 - (n + 1))
      BY <2>2, InitialDowns
    <3> QED BY <1>1, <2>3, <3>1
  <2>6. TablesDown(k, n) = 19 - n /\ TablesDown(k, n + 1) = (19 - n) - 1
    BY <1>1, <2>1, FirstRanks
  <2> QED BY <2>4, <2>5, <2>6
<1>2. CASE k = 8
  <2>1. n \in 0 .. 7
    BY <1>2
  <2>2. n + 1 \in 1 .. 8
    BY <2>1
  <2>3. 32 - (n + 1) = 31 - n
    BY <2>1
  <2>4. 31 - n \in 1 .. 33
    BY <2>1
  <2>5. Drops(o, 31 - n)
    <3>1. Drops(M!Down[8][n + 1], 32 - (n + 1))
      BY <2>2, EnterpriseDowns
    <3> QED BY <1>2, <2>3, <3>1
  <2>6. TablesDown(k, n) = 31 - n /\ TablesDown(k, n + 1) = (31 - n) - 1
    BY <1>2, <2>1, FirstRanks
  <2> QED BY <2>4, <2>5, <2>6
<1>3. CASE k = 10 /\ n = 0
  <2>1. n + 1 = 1 /\ Drops(o, 33)
    BY <1>3, OtherDowns
  <2>2. TablesDown(k, n) = 33 /\ TablesDown(k, n + 1) = 33 - 1
    BY <1>3, RevisionNumbers, SMTT(60) DEF TablesDown
  <2> QED BY <2>1, <2>2
<1>4. CASE k = 10 /\ n = 1
  <2>1. n + 1 = 2 /\ Drops(o, 32)
    BY <1>4, OtherDowns
  <2>2. TablesDown(k, n) = 32 /\ TablesDown(k, n + 1) = 32 - 1
    BY <1>4, RevisionNumbers DEF TablesDown
  <2> QED BY <2>1, <2>2
<1>5. CASE k = 2
  <2>1. n = 0 /\ n + 1 = 1 /\ Drops(o, 20)
    BY <1>5, OtherDowns
  <2>2. TablesDown(k, n) = 20 /\ TablesDown(k, n + 1) = 20 - 1
    BY <1>5, <2>1, RevisionNumbers DEF TablesDown
  <2> QED BY <2>1, <2>2
<1>6. CASE k = 3
  <2>1. n = 0 /\ n + 1 = 1 /\ Drops(o, 21)
    BY <1>6, OtherDowns
  <2>2. TablesDown(k, n) = 21 /\ TablesDown(k, n + 1) = 21 - 1
    BY <1>6, <2>1, RevisionNumbers DEF TablesDown
  <2> QED BY <2>1, <2>2
<1>7. CASE k = 6
  <2>1. n = 0 /\ n + 1 = 1 /\ Drops(o, 22)
    BY <1>7, OtherDowns
  <2>2. TablesDown(k, n) = 22 /\ TablesDown(k, n + 1) = 22 - 1
    BY <1>7, <2>1, RevisionNumbers DEF TablesDown
  <2> QED BY <2>1, <2>2
<1>8. CASE k = 7
  <2>1. n = 0 /\ n + 1 = 1 /\ Drops(o, 23)
    BY <1>8, OtherDowns
  <2>2. TablesDown(k, n) = 23 /\ TablesDown(k, n + 1) = 23 - 1
    BY <1>8, <2>1, RevisionNumbers DEF TablesDown
  <2> QED BY <2>1, <2>2
<1>9. k = 10 => n \in {0, 1}
  <2>1. k = 10 => n < 2
    BY OtherDowns
  <2>2. \A j \in Nat : j < 2 => j \in {0, 1}
    OBVIOUS
  <2> QED BY <2>1, <2>2
<1> QED BY <1>1, <1>2, <1>3, <1>4, <1>5, <1>6, <1>7, <1>8, <1>9

LEMMA DownColumn ==
  ASSUME IsRun, NEW k \in {4, 5}, NEW n \in Nat, n < Len(M!Down[k]), NEW o, o = M!Down[k][n + 1],
         OnTheWayDown(k, n)
  PROVE  LeadsDown(o, k, n + 1)
<1>1. PICK c, had : /\ o = M!DropColumn("incidents", c) /\ c \in had
                    /\ ColumnsDown(k, n) = had /\ ColumnsDown(k, n + 1) = had \ {c}
  <2>1. CASE k = 4
    <3>1. n = 0 /\ n + 1 = 1
      BY <2>1, ColumnRevisions
    <3>2. /\ ColumnsDown(k, n) = {"risk_score"}
          /\ ColumnsDown(k, n + 1) = {"risk_score"} \ {"risk_score"}
      BY <2>1, <3>1 DEF ColumnsDown, ColumnsAt
    <3>3. o = M!DropColumn("incidents", "risk_score")
      BY <2>1, <3>1, ColumnRevisions
    <3>4. "risk_score" \in {"risk_score"}
      OBVIOUS
    <3> QED BY <3>2, <3>3, <3>4, Zenon
  <2>2. CASE k = 5 /\ n = 0
    <3>1. n + 1 = 1
      BY <2>2
    <3>2. ColumnsDown(k, n) = Columns /\ ColumnsDown(k, n + 1) = Columns \ {"last_seen_at"}
      BY <2>2, <3>1 DEF ColumnsDown, ColumnsAt, Columns
    <3>3. o = M!DropColumn("incidents", "last_seen_at")
      BY <2>2, <3>1, ColumnRevisions
    <3>4. "last_seen_at" \in Columns
      BY DEF Columns
    <3> QED BY <3>2, <3>3, <3>4, Zenon
  <2>3. CASE k = 5 /\ n = 1
    <3> DEFINE had == {"risk_score", "occurrence_count"}
    <3>1. n + 1 = 2
      BY <2>3
    <3>2. ColumnsDown(k, n) = had /\ ColumnsDown(k, n + 1) = had \ {"occurrence_count"}
      BY <2>3, <3>1 DEF ColumnsDown, ColumnsAt
    <3>3. o = M!DropColumn("incidents", "occurrence_count")
      BY <2>3, <3>1, ColumnRevisions
    <3>4. "occurrence_count" \in had
      OBVIOUS
    <3> HIDE DEF had
    <3> QED BY <3>2, <3>3, <3>4, Zenon
  <2>4. k = 5 => n \in {0, 1}
    BY ColumnRevisions
  <2> QED BY <2>1, <2>2, <2>3, <2>4
<1>2. TablesDown(k, n) = 21 /\ TablesDown(k, n + 1) = 21
  BY RevisionNumbers DEF TablesDown
<1>3. run.tables = Tables(21, had) /\ run.types = TypesAt(k)
  BY <1>1, <1>2 DEF OnTheWayDown, TypesDown
<1>4. TypesDown(k, n + 1, run.types)
  BY <1>3 DEF TypesDown
<1>5. 21 \in 16 .. 33
  OBVIOUS
<1>6. Leads(o, Tables(21, had \ {c}), run.types, run.memo)
  BY <1>1, <1>3, <1>5, RemoveStep
<1> QED BY <1>1, <1>2, <1>4, <1>6, Zenon DEF LeadsDown

LEMMA DownDefault ==
  ASSUME IsRun, NEW n \in Nat, n < Len(M!Down[9]), NEW o, o = M!Down[9][n + 1], OnTheWayDown(9, n)
  PROVE  LeadsDown(o, 9, n + 1)
<1>1. o.op = "default" /\ o.table \in Present(31)
  <2>1. n + 1 \in 1 .. 3
    BY DefaultRevisions
  <2> QED BY <2>1, DefaultRevisions
<1>2. /\ TablesDown(9, n) = 31 /\ ColumnsDown(9, n) = Columns
      /\ TablesDown(9, n + 1) = 31 /\ ColumnsDown(9, n + 1) = Columns
  BY RevisionNumbers DEF TablesDown, ColumnsDown, ColumnsAt
<1>3. run.tables = Tables(31, Columns) /\ TypesDown(9, n + 1, run.types)
  BY <1>2 DEF OnTheWayDown, TypesDown
<1>4. 31 \in 16 .. 33
  OBVIOUS
<1>5. Leads(o, Tables(31, Columns), run.types, run.memo)
  BY <1>1, <1>3, <1>4, DefaultStep
<1> QED BY <1>2, <1>3, <1>5, Zenon DEF LeadsDown

LEMMA DownDispatchState ==
  ASSUME IsRun, NEW o, o = M!Down[8][9], OnTheWayDown(8, 8)
  PROVE  LeadsDown(o, 8, 9)
<1>1. /\ TablesDown(8, 8) = 23 /\ ColumnsDown(8, 8) = Columns
      /\ TablesDown(8, 9) = 23 /\ ColumnsDown(8, 9) = Columns
  BY RevisionNumbers DEF TablesDown, ColumnsDown, ColumnsAt
<1>2. run.tables = Tables(23, Columns) /\ run.types = CoreTypes \cup {"dispatch_state"}
  BY <1>1 DEF OnTheWayDown, TypesDown, TypesAt
<1>3. o.op = "untype" /\ o.type = "dispatch_state"
  BY EnterpriseDowns DEF M!DropType
<1>4. "dispatch_state" \notin CoreTypes
  BY DEF CoreTypes
<1>5. \A t \in Present(23) : o.type \notin M!Declared[t].enums
  BY <1>3, <1>4, EnumTypes, Ranked DEF Present
<1>6. Leads(o, run.tables, run.types \ {o.type}, run.memo)
  BY <1>2, <1>3, <1>5, UntypeStep
<1>7. run.types \ {o.type} = CoreTypes
  BY <1>2, <1>3, <1>4
<1>8. Leads(o, Tables(23, Columns), CoreTypes, run.memo)
  BY <1>2, <1>6, <1>7
<1>9. TypesDown(8, 9, CoreTypes)
  BY DEF TypesDown
<1> QED BY <1>1, <1>8, <1>9, Zenon DEF LeadsDown

LEMMA DownTypes ==
  ASSUME IsRun, NEW n \in 19 .. 30, NEW o, o = M!Down[1][n + 1], OnTheWayDown(1, n)
  PROVE  LeadsDown(o, 1, n + 1)
<1>1. /\ TablesDown(1, n) = 0 /\ ColumnsDown(1, n) = {}
      /\ TablesDown(1, n + 1) = 0 /\ ColumnsDown(1, n + 1) = {}
  BY RevisionNumbers DEF TablesDown, ColumnsDown, ColumnsAt
<1>2. run.tables = Tables(0, {}) /\ TypesDown(1, n, run.types)
  BY <1>1 DEF OnTheWayDown
<1>3. n + 1 \in 20 .. 31 /\ o.op = "untype"
  BY InitialDowns
<1>4. \A t \in Present(0) : o.type \notin M!Declared[t].enums
  BY Ranked DEF Present
<1>5. Leads(o, run.tables, run.types \ {o.type}, run.memo)
  BY <1>2, <1>3, <1>4, UntypeStep
<1>6. TypesDown(1, n + 1, run.types \ {o.type})
  <2>1. run.types \subseteq {M!Down[1][i].type : i \in {j \in 20 .. 31 : n < j}}
    BY <1>2 DEF TypesDown
  <2>2. \A j \in 20 .. 31 : n < j => n + 1 < j \/ j = n + 1
    OBVIOUS
  <2>3. run.types \ {o.type} \subseteq {M!Down[1][i].type : i \in {j \in 20 .. 31 : n + 1 < j}}
    BY <2>1, <2>2
  <2> QED BY <2>3 DEF TypesDown
<1> QED BY <1>1, <1>2, <1>5, <1>6, Zenon DEF LeadsDown

LEMMA DownStep ==
  ASSUME IsRun, NEW k \in 1 .. 10, NEW n \in Nat, n < Len(M!Down[k]), NEW o, o = M!Down[k][n + 1],
         OnTheWayDown(k, n)
  PROVE  LeadsDown(o, k, n + 1)
<1>1. CASE k \in {1, 2, 3, 6, 7, 8, 10} /\ (k = 1 => n < 19) /\ (k = 8 => n < 8)
  <2>1. PICK m \in 1 .. 33 : Drops(o, m) /\ TablesDown(k, n) = m /\ TablesDown(k, n + 1) = m - 1
    <3>1. (k = 1 => n \in 0 .. 18) /\ (k = 8 => n \in 0 .. 7)
      <4>1. \A j \in Nat : (j < 19 => j \in 0 .. 18) /\ (j < 8 => j \in 0 .. 7)
        OBVIOUS
      <4> QED BY <1>1, <4>1
    <3> QED BY <1>1, <3>1, DownTables
  <2> QED BY <1>1, <2>1, DownDrop
<1>2. CASE k \in {4, 5}
  BY <1>2, DownColumn
<1>3. CASE k = 9
  BY <1>3, DownDefault
<1>4. CASE k = 8 /\ ~(n < 8)
  <2>1. n = 8 /\ n + 1 = 9
    BY <1>4, EnterpriseDowns
  <2> QED BY <1>4, <2>1, DownDispatchState
<1>5. CASE k = 1 /\ ~(n < 19)
  <2>1. n \in 19 .. 30
    BY <1>5, InitialDowns
  <2> QED BY <1>5, <2>1, DownTypes
<1> QED BY <1>1, <1>2, <1>3, <1>4, <1>5
-----------------------------------------------------------------------------
LEMMA RevisionLengths ==
  /\ Len(M!Up[1]) = 19 /\ Len(M!Up[2]) = 1 /\ Len(M!Up[3]) = 1 /\ Len(M!Up[4]) = 1
  /\ Len(M!Up[5]) = 2
  /\ Len(M!Up[6]) = 1 /\ Len(M!Up[7]) = 1 /\ Len(M!Up[8]) = 9 /\ Len(M!Up[9]) = 3
  /\ Len(M!Up[10]) = 2
  /\ Len(M!Down[1]) = 31 /\ Len(M!Down[2]) = 1 /\ Len(M!Down[3]) = 1 /\ Len(M!Down[4]) = 1
  /\ Len(M!Down[5]) = 2 /\ Len(M!Down[6]) = 1 /\ Len(M!Down[7]) = 1 /\ Len(M!Down[8]) = 9
  /\ Len(M!Down[9]) = 3 /\ Len(M!Down[10]) = 2
BY FirstRevision, LaterRevisions, ColumnRevisions, DefaultRevisions, OtherDowns,
   EnterpriseDowns, InitialDowns

LEMMA RevisionTables ==
  /\ TablesUp(1, 19) = 19 /\ TablesUp(2, 1) = 20 /\ TablesUp(3, 1) = 21 /\ TablesUp(4, 1) = 21
  /\ TablesUp(5, 2) = 21 /\ TablesUp(6, 1) = 22 /\ TablesUp(7, 1) = 23 /\ TablesUp(8, 9) = 31
  /\ TablesUp(9, 3) = 31 /\ TablesUp(10, 2) = 33 /\ TablesDown(1, 31) = 0
  /\ TablesDown(2, 1) = 19 /\ TablesDown(3, 1) = 20 /\ TablesDown(4, 1) = 21
  /\ TablesDown(5, 2) = 21 /\ TablesDown(6, 1) = 21 /\ TablesDown(7, 1) = 22
  /\ TablesDown(8, 9) = 23 /\ TablesDown(9, 3) = 31 /\ TablesDown(10, 2) = 31
BY RevisionNumbers DEF TablesUp, TablesDown

\* The first operation of a revision starts from the one below it, and its last ends at it.
LEMMA UpStarts ==
  ASSUME NEW k \in 1 .. 10, IsAt(run.tables, run.types, k - 1), k = 1 => run.memo = {}
  PROVE  OnTheWayUp(k, 0)
<1>1. CASE k = 1
  <2>1. run.tables = Tables(0, {}) /\ run.types = {} /\ run.memo = {}
    BY <1>1, RevisionNumbers DEF IsAt, ColumnsAt, TypesAt
  <2>2. TablesUp(1, 0) = 0 /\ ColumnsUp(1, 0) = {} /\ TypesUp(1, 0) = EnumsOf(0)
    BY RevisionNumbers DEF TablesUp, ColumnsUp, ColumnsAt, TypesUp
  <2>3. EnumsOf(0) = {}
    BY Ranked DEF EnumsOf, Present
  <2> QED BY <1>1, <2>1, <2>2, <2>3 DEF OnTheWayUp
<1>2. CASE k # 1
  <2>1. TablesUp(k, 0) = TablesAt(k - 1)
    <3>1. k \in {4, 5, 9} => TablesAt(k) = TablesAt(k - 1)
      BY RevisionNumbers
    <3>2. k = 8 => TablesAt(k - 1) = 23
      BY RevisionNumbers
    <3>3. TablesAt(k - 1) + 0 = TablesAt(k - 1)
      BY <1>2, RevisionNumbers
    <3> QED BY <3>1, <3>2, <3>3 DEF TablesUp
  <2>2. ColumnsUp(k, 0) = ColumnsAt(k - 1)
    BY <1>2 DEF ColumnsUp, ColumnsAt
  <2>3. TypesUp(k, 0) = TypesAt(k - 1)
    BY <1>2 DEF TypesUp, TypesAt
  <2> QED BY <1>2, <2>1, <2>2, <2>3 DEF OnTheWayUp, IsAt
<1> QED BY <1>1, <1>2

LEMMA UpEnds ==
  ASSUME NEW k \in 1 .. 10, NEW n \in Nat, n = Len(M!Up[k])
  PROVE  IsAt(Tables(TablesUp(k, n), ColumnsUp(k, n)), TypesUp(k, n), k)
<1>1. TablesUp(k, n) = TablesAt(k)
  <2>1. CASE k = 1
    BY <2>1, RevisionLengths, RevisionTables, RevisionNumbers
  <2>2. CASE k = 2
    BY <2>2, RevisionLengths, RevisionTables, RevisionNumbers
  <2>3. CASE k = 3
    BY <2>3, RevisionLengths, RevisionTables, RevisionNumbers
  <2>4. CASE k = 4
    BY <2>4, RevisionLengths, RevisionTables, RevisionNumbers
  <2>5. CASE k = 5
    BY <2>5, RevisionLengths, RevisionTables, RevisionNumbers
  <2>6. CASE k = 6
    BY <2>6, RevisionLengths, RevisionTables, RevisionNumbers
  <2>7. CASE k = 7
    BY <2>7, RevisionLengths, RevisionTables, RevisionNumbers
  <2>8. CASE k = 8
    BY <2>8, RevisionLengths, RevisionTables, RevisionNumbers
  <2>9. CASE k = 9
    BY <2>9, RevisionLengths, RevisionTables, RevisionNumbers
  <2>10. CASE k = 10
    BY <2>10, RevisionLengths, RevisionTables, RevisionNumbers
  <2> QED BY <2>1, <2>2, <2>3, <2>4, <2>5, <2>6, <2>7, <2>8, <2>9, <2>10
<1>2. ColumnsUp(k, n) = ColumnsAt(k)
  BY ColumnRevisions DEF ColumnsUp
<1>3. TypesUp(k, n) = TypesAt(k)
  <2>1. CASE k = 1
    BY <2>1, FirstRevision, CoreEnums DEF TypesUp, TypesAt
  <2>2. CASE k # 1
    BY <2>2, LaterRevisions, SMTT(60) DEF TypesUp
  <2> QED BY <2>1, <2>2
<1> QED BY <1>1, <1>2, <1>3 DEF IsAt

LEMMA DownStarts ==
  ASSUME NEW k \in 1 .. 10, IsAt(run.tables, run.types, k)
  PROVE  OnTheWayDown(k, 0)
<1>1. TablesDown(k, 0) = TablesAt(k)
  BY RevisionNumbers DEF TablesDown
<1>2. ColumnsDown(k, 0) = ColumnsAt(k)
  BY DEF ColumnsDown
<1>3. TypesDown(k, 0, run.types)
  <2>1. CASE k = 1
    <3>1. {j \in 20 .. 31 : 0 < j} = 20 .. 31
      OBVIOUS
    <3>2. run.types = CoreTypes
      BY <2>1 DEF IsAt, TypesAt
    <3> QED BY <2>1, <3>1, <3>2, InitialDowns DEF TypesDown
  <2>2. CASE k # 1
    BY <2>2 DEF TypesDown, IsAt
  <2> QED BY <2>1, <2>2
<1> QED BY <1>1, <1>2, <1>3 DEF OnTheWayDown, IsAt

LEMMA DownEnds ==
  ASSUME NEW k \in 1 .. 10, NEW n \in Nat, n = Len(M!Down[k]), NEW tps, TypesDown(k, n, tps)
  PROVE  IsAt(Tables(TablesDown(k, n), ColumnsDown(k, n)), tps, k - 1)
<1>1. TablesDown(k, n) = TablesAt(k - 1)
  <2>1. CASE k = 1
    BY <2>1, RevisionLengths, RevisionTables, RevisionNumbers
  <2>2. CASE k = 2
    BY <2>2, RevisionLengths, RevisionTables, RevisionNumbers
  <2>3. CASE k = 3
    BY <2>3, RevisionLengths, RevisionTables, RevisionNumbers
  <2>4. CASE k = 4
    BY <2>4, RevisionLengths, RevisionTables, RevisionNumbers
  <2>5. CASE k = 5
    BY <2>5, RevisionLengths, RevisionTables, RevisionNumbers
  <2>6. CASE k = 6
    BY <2>6, RevisionLengths, RevisionTables, RevisionNumbers
  <2>7. CASE k = 7
    BY <2>7, RevisionLengths, RevisionTables, RevisionNumbers
  <2>8. CASE k = 8
    BY <2>8, RevisionLengths, RevisionTables, RevisionNumbers
  <2>9. CASE k = 9
    BY <2>9, RevisionLengths, RevisionTables, RevisionNumbers
  <2>10. CASE k = 10
    BY <2>10, RevisionLengths, RevisionTables, RevisionNumbers
  <2> QED BY <2>1, <2>2, <2>3, <2>4, <2>5, <2>6, <2>7, <2>8, <2>9, <2>10
<1>2. ColumnsDown(k, n) = ColumnsAt(k - 1)
  BY ColumnRevisions DEF ColumnsDown, ColumnsAt
<1>3. tps = TypesAt(k - 1)
  <2>1. CASE k = 1
    <3>1. n = 31 /\ {j \in 20 .. 31 : n < j} = {}
      BY <2>1, InitialDowns
    <3>2. tps \subseteq {}
      BY <2>1, <3>1 DEF TypesDown
    <3> QED BY <2>1, <3>2 DEF TypesAt
  <2>2. CASE k # 1
    BY <2>2, EnterpriseDowns DEF TypesDown, TypesAt
  <2> QED BY <2>1, <2>2
<1> QED BY <1>1, <1>2, <1>3 DEF IsAt

LEMMA Revisions ==
  /\ Len(M!Up) = 10 /\ M!Head_ = 10
  /\ \A k \in 1 .. 10 : /\ IsSequence(M!Up[k]) /\ Len(M!Up[k]) \in Nat /\ Len(M!Up[k]) # 0
                        /\ IsSequence(M!Down[k]) /\ Len(M!Down[k]) \in Nat /\ Len(M!Down[k]) # 0
<1>1. Len(M!Up) = 10
  BY DEF M!Up
<1>2. ASSUME NEW k \in 1 .. 10
      PROVE  /\ IsSequence(M!Up[k]) /\ Len(M!Up[k]) \in Nat /\ Len(M!Up[k]) # 0
             /\ IsSequence(M!Down[k]) /\ Len(M!Down[k]) \in Nat /\ Len(M!Down[k]) # 0
  <2>1. CASE k = 1
    BY <2>1, RevisionSequences, DownSequences, RevisionLengths
  <2>2. CASE k = 2
    BY <2>2, RevisionSequences, DownSequences, RevisionLengths
  <2>3. CASE k = 3
    BY <2>3, RevisionSequences, DownSequences, RevisionLengths
  <2>4. CASE k = 4
    BY <2>4, RevisionSequences, DownSequences, RevisionLengths
  <2>5. CASE k = 5
    BY <2>5, RevisionSequences, DownSequences, RevisionLengths
  <2>6. CASE k = 6
    BY <2>6, RevisionSequences, DownSequences, RevisionLengths
  <2>7. CASE k = 7
    BY <2>7, RevisionSequences, DownSequences, RevisionLengths
  <2>8. CASE k = 8
    BY <2>8, RevisionSequences, DownSequences, RevisionLengths
  <2>9. CASE k = 9
    BY <2>9, RevisionSequences, DownSequences, RevisionLengths
  <2>10. CASE k = 10
    BY <2>10, RevisionSequences, DownSequences, RevisionLengths
  <2> QED BY <2>1, <2>2, <2>3, <2>4, <2>5, <2>6, <2>7, <2>8, <2>9, <2>10
<1> QED BY <1>1, <1>2 DEF M!Head_

\* Where an operation is due, it is the one the place of the run on its way says.
LEMMA OnTheWay ==
  ASSUME RunFollows, run.ops # << >>
  PROVE  \/ \E k \in 1 .. 10, n \in Nat :
              /\ k = run.at /\ k <= run.to /\ n < Len(M!Up[k]) /\ OnTheWayUp(k, n)
              /\ Head(run.ops) = M!Up[k][n + 1] /\ Tail(run.ops) = Rest(M!Up[k], n + 1)
         \/ \E k \in 1 .. 10, n \in Nat :
              /\ k = run.at + 1 /\ run.to <= run.at /\ n < Len(M!Down[k]) /\ OnTheWayDown(k, n)
              /\ Head(run.ops) = M!Down[k][n + 1] /\ Tail(run.ops) = Rest(M!Down[k], n + 1)
<1>1. CASE Upward
  <2>1. PICK k \in 1 .. 10 : k = run.at /\ k <= run.to
    BY <1>1, SMTT(60) DEF Upward, RunFollows, IsRun
  <2>2. PICK n \in 0 .. Len(M!Up[k]) :
          run.ops = Rest(M!Up[k], n) /\ n < Len(M!Up[k]) /\ OnTheWayUp(k, n)
    BY <1>1, <2>1 DEF Upward
  <2>3. IsSequence(M!Up[k]) /\ n \in Nat
    <3>1. IsSequence(M!Up[k]) /\ Len(M!Up[k]) \in Nat
      BY Revisions
    <3> QED BY <3>1
  <2>4. Head(run.ops) = M!Up[k][n + 1] /\ Tail(run.ops) = Rest(M!Up[k], n + 1)
    BY <2>2, <2>3, RestIs
  <2> QED BY <2>1, <2>2, <2>3, <2>4
<1>2. CASE Downward
  <2>1. PICK k \in 1 .. 10 : k = run.at + 1 /\ run.to <= run.at
    BY <1>2, SMTT(60) DEF Downward, RunFollows, IsRun
  <2>2. PICK n \in 0 .. Len(M!Down[k]) :
          run.ops = Rest(M!Down[k], n) /\ n < Len(M!Down[k]) /\ OnTheWayDown(k, n)
    BY <1>2, <2>1 DEF Downward
  <2>3. IsSequence(M!Down[k]) /\ n \in Nat
    <3>1. IsSequence(M!Down[k]) /\ Len(M!Down[k]) \in Nat
      BY Revisions
    <3> QED BY <3>1
  <2>4. Head(run.ops) = M!Down[k][n + 1] /\ Tail(run.ops) = Rest(M!Down[k], n + 1)
    BY <2>2, <2>3, RestIs
  <2> QED BY <2>1, <2>2, <2>3, <2>4
<1> QED BY <1>1, <1>2, SMTT(60) DEF RunFollows, Between

LEMMA AtARevision ==
  ASSUME RunFollows, run.ops = << >>
  PROVE  IsAt(run.tables, run.types, run.at)
<1>1. ASSUME Upward PROVE FALSE
  <2>1. PICK k \in 1 .. 10 : k = run.at
    BY <1>1 DEF Upward, RunFollows, IsRun
  <2>2. PICK n \in 0 .. Len(M!Up[k]) : run.ops = Rest(M!Up[k], n) /\ n < Len(M!Up[k])
    BY <1>1, <2>1 DEF Upward
  <2>3. IsSequence(M!Up[k]) /\ n # Len(M!Up[k])
    <3>1. IsSequence(M!Up[k]) /\ Len(M!Up[k]) \in Nat
      BY Revisions
    <3> QED BY <2>2, <3>1
  <2> QED BY <2>2, <2>3, RestIs
<1>2. ASSUME Downward PROVE FALSE
  <2>1. PICK k \in 1 .. 10 : k = run.at + 1
    BY <1>2, SMTT(60) DEF Downward, RunFollows, IsRun
  <2>2. PICK n \in 0 .. Len(M!Down[k]) : run.ops = Rest(M!Down[k], n) /\ n < Len(M!Down[k])
    BY <1>2, <2>1 DEF Downward
  <2>3. IsSequence(M!Down[k]) /\ n # Len(M!Down[k])
    <3>1. IsSequence(M!Down[k]) /\ Len(M!Down[k]) \in Nat
      BY Revisions
    <3> QED BY <2>2, <3>1
  <2> QED BY <2>2, <2>3, RestIs
<1> QED BY <1>1, <1>2 DEF RunFollows, Between

LEMMA InvRefusesNothing == MigrationInv => NoOperationRefused
<1> SUFFICES ASSUME MigrationInv, run.on, run.ops # << >> PROVE M!Accepted(Head(run.ops))
  BY DEF NoOperationRefused, M!NoOperationRefused
<1>1. RunFollows
  BY DEF MigrationInv, M!NoRun
<1>2. IsRun
  BY <1>1 DEF RunFollows
<1>3. CASE \E k \in 1 .. 10, n \in Nat :
              /\ k = run.at /\ k <= run.to /\ n < Len(M!Up[k]) /\ OnTheWayUp(k, n)
              /\ Head(run.ops) = M!Up[k][n + 1] /\ Tail(run.ops) = Rest(M!Up[k], n + 1)
  <2>1. PICK k \in 1 .. 10, n \in Nat :
          n < Len(M!Up[k]) /\ OnTheWayUp(k, n) /\ Head(run.ops) = M!Up[k][n + 1]
    BY <1>3
  <2>2. LeadsUp(M!Up[k][n + 1], k, n + 1)
    BY <1>2, <2>1, UpStep
  <2> QED BY <2>1, <2>2 DEF LeadsUp, Leads
<1>4. CASE \E k \in 1 .. 10, n \in Nat :
              /\ k = run.at + 1 /\ run.to <= run.at /\ n < Len(M!Down[k]) /\ OnTheWayDown(k, n)
              /\ Head(run.ops) = M!Down[k][n + 1] /\ Tail(run.ops) = Rest(M!Down[k], n + 1)
  <2>1. PICK k \in 1 .. 10, n \in Nat :
          n < Len(M!Down[k]) /\ OnTheWayDown(k, n) /\ Head(run.ops) = M!Down[k][n + 1]
    BY <1>4
  <2>2. LeadsDown(M!Down[k][n + 1], k, n + 1)
    BY <1>2, <2>1, DownStep
  <2> QED BY <2>1, <2>2 DEF LeadsDown, Leads
<1> QED BY <1>1, <1>3, <1>4, OnTheWay

LEMMA InvDeclaresHead == MigrationInv => HeadIsDeclared
<1> SUFFICES ASSUME MigrationInv, version = 10
             PROVE  /\ tables = M!Declared
                    /\ types = UNION {M!Declared[t].enums : t \in DOMAIN M!Declared}
  BY Revisions DEF HeadIsDeclared, M!HeadIsDeclared
<1>1. tables = Tables(33, Columns) /\ types = CoreTypes \cup {"dispatch_state"}
  BY RevisionNumbers DEF MigrationInv, IsAt, ColumnsAt, TypesAt
<1>2. Present(33) = DOMAIN M!Declared
  BY DeclaredIs, Ranked, SMTT(60) DEF Present
<1>3. \A t \in DOMAIN M!Declared : M!Declared[t] = Tables(33, Columns)[t]
  BY <1>2, DeclaredInOrder DEF Described, IsTable, Tables
<1>4. M!Declared = [t \in DOMAIN M!Declared |-> M!Declared[t]]
  BY DEF M!Declared, M!With
<1>5. Tables(33, Columns) = [t \in DOMAIN M!Declared |-> Tables(33, Columns)[t]]
  BY <1>2 DEF Tables
<1> QED BY <1>1, <1>3, <1>4, <1>5, AllEnums
-----------------------------------------------------------------------------
\* r has the fields of a run.
HasFields(r) ==
  r = [on |-> TRUE, to |-> r.to, at |-> r.at, ops |-> r.ops, tables |-> r.tables,
       types |-> r.types, memo |-> r.memo]

LEMMA FieldsOfARun ==
  ASSUME NEW r, HasFields(r)
  PROVE  /\ DOMAIN r = {"on", "to", "at", "ops", "tables", "types", "memo"}
         /\ r = [x \in DOMAIN r |-> r[x]] /\ r.on = TRUE
BY DEF HasFields

\* r at another revision, with another schema, and without its next operation.
Moved(r, place, ops) == [r EXCEPT !.at = place, !.ops = ops]
Changed(r, tbls, tps, memo) == [r EXCEPT !.tables = tbls, !.types = tps, !.memo = memo]
Advanced(r) == [r EXCEPT !.ops = Tail(@)]

LEMMA MovedFields ==
  ASSUME NEW r, HasFields(r), NEW place, NEW ops
  PROVE  LET new == Moved(r, place, ops)
         IN  /\ HasFields(new) /\ new.to = r.to /\ new.at = place /\ new.ops = ops
             /\ new.tables = r.tables /\ new.types = r.types /\ new.memo = r.memo
<1>1. PICK new : new = [r EXCEPT !.at = place, !.ops = ops]
  OBVIOUS
<1>2. new = [on |-> TRUE, to |-> r.to, at |-> place, ops |-> ops, tables |-> r.tables,
             types |-> r.types, memo |-> r.memo]
  BY <1>1, FieldsOfARun
<1>3. Moved(r, place, ops) = new
  BY <1>1 DEF Moved
<1> QED BY <1>2, <1>3 DEF HasFields

LEMMA ChangedFields ==
  ASSUME NEW r, HasFields(r), NEW tbls, NEW tps, NEW memo
  PROVE  LET new == Changed(r, tbls, tps, memo)
         IN  /\ HasFields(new) /\ new.to = r.to /\ new.at = r.at /\ new.ops = r.ops
             /\ new.tables = tbls /\ new.types = tps /\ new.memo = memo
<1>1. PICK new : new = [r EXCEPT !.tables = tbls, !.types = tps, !.memo = memo]
  OBVIOUS
<1>2. new = [on |-> TRUE, to |-> r.to, at |-> r.at, ops |-> r.ops, tables |-> tbls,
             types |-> tps, memo |-> memo]
  BY <1>1, FieldsOfARun
<1>3. Changed(r, tbls, tps, memo) = new
  BY <1>1 DEF Changed
<1> QED BY <1>2, <1>3 DEF HasFields

LEMMA AdvancedFields ==
  ASSUME NEW r, HasFields(r)
  PROVE  LET new == Advanced(r)
         IN  /\ HasFields(new) /\ new.to = r.to /\ new.at = r.at /\ new.ops = Tail(r.ops)
             /\ new.tables = r.tables /\ new.types = r.types /\ new.memo = r.memo
<1>1. PICK new : new = [r EXCEPT !.ops = Tail(@)]
  OBVIOUS
<1>2. new = [on |-> TRUE, to |-> r.to, at |-> r.at, ops |-> Tail(r.ops), tables |-> r.tables,
             types |-> r.types, memo |-> r.memo]
  BY <1>1, FieldsOfARun
<1>3. Advanced(r) = new
  BY <1>1 DEF Advanced
<1> QED BY <1>2, <1>3 DEF HasFields

LEMMA FieldsOfRun == IsRun <=> HasFields(run) /\ run.to \in 0 .. 10 /\ run.at \in 0 .. 10
BY DEF IsRun, HasFields

LEMMA WithPlace ==
  ASSUME IsRun, NEW place \in 0 .. 10, NEW ops, run' = Moved(run, place, ops)
  PROVE  /\ IsRun' /\ run'.at = place /\ run'.to = run.to /\ run'.ops = ops
         /\ run'.tables = run.tables /\ run'.types = run.types /\ run'.memo = run.memo
<1>1. /\ HasFields(run') /\ run'.to = run.to /\ run'.at = place /\ run'.ops = ops
      /\ run'.tables = run.tables /\ run'.types = run.types /\ run'.memo = run.memo
  BY FieldsOfRun, MovedFields
<1>2. IsRun'
  BY <1>1, FieldsOfRun DEF IsRun, HasFields
<1> QED BY <1>1, <1>2

LEMMA WithSchema ==
  ASSUME IsRun, NEW tbls, NEW tps, NEW memo, run' = Advanced(Changed(run, tbls, tps, memo))
  PROVE  /\ IsRun' /\ run'.at = run.at /\ run'.to = run.to /\ run'.ops = Tail(run.ops)
         /\ run'.tables = tbls /\ run'.types = tps /\ run'.memo = memo
<1> DEFINE r == Changed(run, tbls, tps, memo)
<1>1. /\ HasFields(r) /\ r.to = run.to /\ r.at = run.at /\ r.ops = run.ops
      /\ r.tables = tbls /\ r.types = tps /\ r.memo = memo
  BY FieldsOfRun, ChangedFields
<1> HIDE DEF r
<1>2. /\ HasFields(run') /\ run'.to = r.to /\ run'.at = r.at /\ run'.ops = Tail(r.ops)
      /\ run'.tables = r.tables /\ run'.types = r.types /\ run'.memo = r.memo
  BY <1>1, AdvancedFields DEF r
<1>3. IsRun'
  BY <1>1, <1>2, FieldsOfRun DEF IsRun, HasFields
<1> QED BY <1>1, <1>2, <1>3

LEMMA StartKeeps == ASSUME MigrationInv, NEW to \in 0 .. M!Head_, M!Start(to) PROVE MigrationInv'
<1>1. run' = [on |-> TRUE, to |-> to, at |-> version, ops |-> << >>, tables |-> tables,
              types |-> types, memo |-> {}] /\ UNCHANGED <<version, tables, types>>
  BY DEF M!Start
<1>2. version \in 0 .. 10 /\ IsAt(tables, types, version) /\ to \in 0 .. 10
  BY Revisions DEF MigrationInv
<1>3. IsRun' /\ Between' /\ run'.memo = {}
  BY <1>1, <1>2 DEF IsRun, Between
<1> QED BY <1>1, <1>2, <1>3 DEF MigrationInv, RunFollows

\* The run takes up the revision k, with all of its operations to do.
LEMMA RevisionKeeps == ASSUME MigrationInv, M!Revision PROVE MigrationInv'
<1>1. RunFollows /\ IsRun
  BY DEF MigrationInv, M!Revision, M!NoRun, RunFollows
<1>2. IsAt(run.tables, run.types, run.at) /\ UNCHANGED <<version, tables, types>>
  BY <1>1, AtARevision DEF M!Revision
<1>3. CASE run.at < run.to
  <2>1. PICK k \in 1 .. 10 : k = run.at + 1 /\ k <= run.to
    BY <1>1, <1>3 DEF IsRun
  <2>2. run.at = k - 1 /\ IsAt(run.tables, run.types, k - 1)
    BY <1>1, <1>2, <2>1 DEF IsRun
  <2>3. k = 1 => run.memo = {}
    BY <1>1, <1>3, <2>1 DEF RunFollows, IsRun
  <2>4. OnTheWayUp(k, 0)
    BY <2>2, <2>3, UpStarts
  <2>5. run' = Moved(run, k, M!Up[k])
    BY <1>1, <1>3, <2>1 DEF M!Revision, IsRun, Moved
  <2>6. /\ IsRun' /\ run'.at = k /\ run'.to = run.to /\ run'.ops = M!Up[k]
        /\ run'.tables = run.tables /\ run'.types = run.types /\ run'.memo = run.memo
    <3>1. k \in 0 .. 10
      OBVIOUS
    <3> QED BY <1>1, <2>5, <3>1, WithPlace
  <2>7. OnTheWayUp(k, 0)'
    BY <2>4, <2>6 DEF OnTheWayUp
  <2>8. IsSequence(M!Up[k]) /\ Len(M!Up[k]) \in Nat /\ Len(M!Up[k]) # 0
    BY Revisions
  <2>9. 0 \in 0 .. Len(M!Up[k]) /\ 0 < Len(M!Up[k]) /\ M!Up[k] = Rest(M!Up[k], 0)
    BY <2>8, RestIs
  <2>10. Upward'
    BY <1>1, <2>1, <2>6, <2>7, <2>9 DEF Upward, IsRun
  <2>11. RunFollows'
    BY <2>6, <2>10 DEF RunFollows
  <2> QED BY <1>2, <2>11 DEF MigrationInv
<1>4. CASE ~(run.at < run.to)
  <2>1. PICK k \in 1 .. 10 : k = run.at /\ run.to <= k - 1
    BY <1>1, <1>4 DEF M!Revision, IsRun
  <2>2. OnTheWayDown(k, 0)
    BY <1>2, <2>1, DownStarts
  <2>3. run' = Moved(run, k - 1, M!Down[k])
    BY <1>1, <1>4, <2>1 DEF M!Revision, IsRun, Moved
  <2>4. /\ IsRun' /\ run'.at = k - 1 /\ run'.to = run.to /\ run'.ops = M!Down[k]
        /\ run'.tables = run.tables /\ run'.types = run.types
    <3>1. k - 1 \in 0 .. 10
      OBVIOUS
    <3> QED BY <1>1, <2>3, <3>1, WithPlace
  <2>5. OnTheWayDown(k, 0)'
    BY <2>2, <2>4 DEF OnTheWayDown
  <2>6. IsSequence(M!Down[k]) /\ Len(M!Down[k]) \in Nat /\ Len(M!Down[k]) # 0
    BY Revisions
  <2>7. 0 \in 0 .. Len(M!Down[k]) /\ 0 < Len(M!Down[k]) /\ M!Down[k] = Rest(M!Down[k], 0)
    BY <2>6, RestIs
  <2>8. Downward'
    <3>1. run'.at \in run'.to .. 9 /\ run'.at + 1 = k
      BY <1>1, <2>1, <2>4 DEF IsRun
    <3> QED BY <2>4, <2>5, <2>7, <3>1 DEF Downward
  <2>9. run'.at = 0 /\ run'.to # 0 => run'.memo = {}
    BY <1>1, <2>1, <2>4 DEF IsRun
  <2>10. RunFollows'
    BY <2>4, <2>8, <2>9 DEF RunFollows
  <2> QED BY <1>2, <2>10 DEF MigrationInv
<1> QED BY <1>3, <1>4

LEMMA OperationKeeps == ASSUME MigrationInv, M!Operation PROVE MigrationInv'
<1>1. RunFollows /\ IsRun /\ UNCHANGED <<version, tables, types>>
  BY DEF MigrationInv, M!Operation, M!NoRun, RunFollows
<1>2. run' = Advanced(M!Applied(Head(run.ops))) /\ run.ops # << >>
  BY DEF M!Operation, Advanced
<1>3. ASSUME NEW k \in 1 .. 10, NEW n \in Nat, k = run.at, k <= run.to, n < Len(M!Up[k]),
             OnTheWayUp(k, n), Head(run.ops) = M!Up[k][n + 1], Tail(run.ops) = Rest(M!Up[k], n + 1)
      PROVE  MigrationInv'
  <2>1. LeadsUp(M!Up[k][n + 1], k, n + 1)
    BY <1>1, <1>3, UpStep
  <2> DEFINE tbls == Tables(TablesUp(k, n + 1), ColumnsUp(k, n + 1))
             tps == TypesUp(k, n + 1)
  <2>2. PICK memo : Leads(M!Up[k][n + 1], tbls, tps, memo) /\ (k = 1 => memo = tps)
    BY <2>1 DEF LeadsUp
  <2> HIDE DEF tbls, tps
  <2>3. M!Applied(Head(run.ops)) = Changed(run, tbls, tps, memo)
    BY <1>3, <2>2 DEF Leads, Changed
  <2>4. /\ IsRun' /\ run'.at = k /\ run'.to = run.to /\ run'.ops = Rest(M!Up[k], n + 1)
        /\ run'.tables = tbls /\ run'.types = tps /\ run'.memo = memo
    <3>1. /\ IsRun' /\ run'.at = run.at /\ run'.to = run.to /\ run'.ops = Tail(run.ops)
          /\ run'.tables = tbls /\ run'.types = tps /\ run'.memo = memo
      BY <1>1, <1>2, <2>3, WithSchema
    <3> QED BY <1>3, <3>1
  <2>5. IsSequence(M!Up[k]) /\ Len(M!Up[k]) \in Nat /\ n + 1 \in 0 .. Len(M!Up[k]) /\ n + 1 \in Nat
    <3>1. IsSequence(M!Up[k]) /\ Len(M!Up[k]) \in Nat
      BY Revisions
    <3> QED BY <1>3, <3>1
  <2>6. CASE n + 1 = Len(M!Up[k])
    <3>1. run'.ops = << >>
      BY <2>4, <2>5, <2>6, RestIs
    <3>2. IsAt(tbls, tps, k)
      BY <2>5, <2>6, UpEnds DEF tbls, tps
    <3>3. Between' /\ run'.at # 0
      BY <2>4, <3>1, <3>2 DEF Between
    <3> QED BY <1>1, <2>4, <3>3 DEF MigrationInv, RunFollows
  <2>7. CASE n + 1 # Len(M!Up[k])
    <3>1. OnTheWayUp(k, n + 1)'
      BY <2>2, <2>4 DEF OnTheWayUp, tbls, tps
    <3>2. n + 1 < Len(M!Up[k])
      BY <2>5, <2>7
    <3>3. run'.at \in 1 .. run'.to
      BY <1>1, <1>3, <2>4 DEF IsRun
    <3>4. Upward' /\ run'.at # 0
      BY <2>4, <2>5, <3>1, <3>2, <3>3 DEF Upward
    <3> QED BY <1>1, <2>4, <3>4 DEF MigrationInv, RunFollows
  <2> QED BY <2>6, <2>7
<1>4. ASSUME NEW k \in 1 .. 10, NEW n \in Nat, k = run.at + 1, run.to <= run.at, n < Len(M!Down[k]),
             OnTheWayDown(k, n), Head(run.ops) = M!Down[k][n + 1],
             Tail(run.ops) = Rest(M!Down[k], n + 1)
      PROVE  MigrationInv'
  <2>1. LeadsDown(M!Down[k][n + 1], k, n + 1)
    BY <1>1, <1>4, DownStep
  <2> DEFINE tbls == Tables(TablesDown(k, n + 1), ColumnsDown(k, n + 1))
  <2>2. PICK tps, memo : Leads(M!Down[k][n + 1], tbls, tps, memo) /\ TypesDown(k, n + 1, tps)
    BY <2>1 DEF LeadsDown
  <2> HIDE DEF tbls
  <2>3. M!Applied(Head(run.ops)) = Changed(run, tbls, tps, memo)
    BY <1>4, <2>2 DEF Leads, Changed
  <2>4. /\ IsRun' /\ run'.at = run.at /\ run'.to = run.to /\ run'.ops = Rest(M!Down[k], n + 1)
        /\ run'.tables = tbls /\ run'.types = tps
    <3>1. /\ IsRun' /\ run'.at = run.at /\ run'.to = run.to /\ run'.ops = Tail(run.ops)
          /\ run'.tables = tbls /\ run'.types = tps /\ run'.memo = memo
      BY <1>1, <1>2, <2>3, WithSchema
    <3> QED BY <1>4, <3>1
  <2>5. /\ IsSequence(M!Down[k]) /\ Len(M!Down[k]) \in Nat
        /\ n + 1 \in 0 .. Len(M!Down[k]) /\ n + 1 \in Nat
    <3>1. IsSequence(M!Down[k]) /\ Len(M!Down[k]) \in Nat
      BY Revisions
    <3> QED BY <1>4, <3>1
  <2>6. /\ run.at = k - 1 /\ run'.at \in run'.to .. 9 /\ run'.at + 1 = k
        /\ (run'.at = 0 /\ run'.to # 0 => run'.memo = {})
    BY <1>1, <1>4, <2>4, SMTT(60) DEF IsRun
  <2>7. CASE n + 1 = Len(M!Down[k])
    <3>1. run'.ops = << >>
      BY <2>4, <2>5, <2>7, RestIs
    <3>2. IsAt(tbls, tps, k - 1)
      BY <2>2, <2>5, <2>7, DownEnds DEF tbls
    <3>3. Between'
      BY <2>4, <2>6, <3>1, <3>2 DEF Between
    <3> QED BY <1>1, <2>4, <2>6, <3>3 DEF MigrationInv, RunFollows
  <2>8. CASE n + 1 # Len(M!Down[k])
    <3>1. OnTheWayDown(k, n + 1)'
      BY <2>2, <2>4 DEF OnTheWayDown, tbls
    <3>2. n + 1 < Len(M!Down[k])
      BY <2>5, <2>8
    <3>3. Downward'
      BY <2>4, <2>5, <2>6, <3>1, <3>2 DEF Downward
    <3> QED BY <1>1, <2>4, <2>6, <3>3 DEF MigrationInv, RunFollows
  <2> QED BY <2>7, <2>8
<1> QED BY <1>1, <1>2, <1>3, <1>4, OnTheWay

LEMMA CommitKeeps == ASSUME MigrationInv, M!Commit PROVE MigrationInv'
<1>1. RunFollows /\ IsRun
  BY DEF MigrationInv, M!Commit, M!NoRun, RunFollows
<1>2. IsAt(run.tables, run.types, run.at)
  BY <1>1, AtARevision DEF M!Commit
<1> QED BY <1>1, <1>2 DEF MigrationInv, M!Commit, IsRun

\* At a revision the schema is exactly the one that revision describes, and a run is at
\* the start of a revision or part of the way through its operations.
THEOREM MigrationsFollow == M!Spec => []MigrationInv
<1>1. M!Init => MigrationInv
  <2> SUFFICES ASSUME M!Init PROVE MigrationInv
    OBVIOUS
  <2>1. Present(0) = {}
    BY Ranked DEF Present
  <2>2. tables = Tables(0, {}) /\ types = {} /\ version = 0 /\ run = M!NoRun
    BY <2>1 DEF M!Init, Tables
  <2> QED BY <2>2, RevisionNumbers DEF MigrationInv, IsAt, ColumnsAt, TypesAt
<1>2. MigrationInv /\ [M!Next]_M!vars => MigrationInv'
  <2> SUFFICES ASSUME MigrationInv, [M!Next]_M!vars PROVE MigrationInv'
    OBVIOUS
  <2>1. ASSUME NEW to \in 0 .. M!Head_, M!Start(to) PROVE MigrationInv'
    BY <2>1, StartKeeps
  <2>2. CASE M!Revision
    BY <2>2, RevisionKeeps
  <2>3. CASE M!Operation
    BY <2>3, OperationKeeps
  <2>4. CASE M!Commit
    BY <2>4, CommitKeeps
  <2>5. CASE M!Die
    BY <2>5 DEF M!Die, MigrationInv
  <2>6. ASSUME run' = run, version' = version, tables' = tables, types' = types
        PROVE  MigrationInv'
    BY <2>6 DEF MigrationInv, RunFollows, IsRun, Between, Upward, Downward, OnTheWayUp, OnTheWayDown
  <2>7. CASE M!Use
    BY <2>6, <2>7 DEF M!Use
  <2>8. CASE UNCHANGED M!vars
    BY <2>6, <2>8 DEF M!vars
  <2> QED BY <2>1, <2>2, <2>3, <2>4, <2>5, <2>7, <2>8 DEF M!Next
<1> QED BY <1>1, <1>2, PTL DEF M!Spec

\* PostgreSQL refuses no operation of a run, from any version to any other.
THEOREM NothingRefused == M!Spec => []NoOperationRefused
BY MigrationsFollow, InvRefusesNothing, PTL

\* After the last revision the schema is the one the ORM declares.
THEOREM HeadAgrees == M!Spec => []HeadIsDeclared
BY MigrationsFollow, InvDeclaresHead, PTL
===============================================================================
