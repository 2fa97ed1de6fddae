----------------------------- MODULE Migrations -----------------------------
(***************************************************************************)
(* The ten Alembic revisions as the operations they send to PostgreSQL,    *)
(* run in one transaction from any version to any other, over an empty     *)
(* database or one in use.  A run may die and be started again.            *)
(* Within a run Alembic creates an enum type the first time a table of it  *)
(* uses the type (memo); a type created by an earlier run is not known.    *)
(***************************************************************************)
EXTENDS Schema, Integers, Sequences

CONSTANT MaxRuns   \* bound: runs of alembic

VARIABLES
  version,  \* alembic_version: how many revisions are applied
  tables,   \* the tables, as Schema describes them
  types,    \* the enum types
  used,     \* the application has written rows to every table
  run,      \* the run in progress: its private version, tables and types, its memo
  runs      \* bound: runs so far

vars == <<version, tables, types, used, run, runs>>

\* `enums` are created with the table, `existing` are declared create_type=False.
Create(t, refs, enums, existing) ==
  [op |-> "create", table |-> t, refs |-> refs, enums |-> enums, existing |-> existing]
Drop(t) == [op |-> "drop", table |-> t]
AddColumn(t, col, fillable) == [op |-> "add", table |-> t, col |-> col, fillable |-> fillable]
DropColumn(t, col) == [op |-> "remove", table |-> t, col |-> col]
AlterDefaults(t) == [op |-> "default", table |-> t]
CreateType(type) == [op |-> "type", type |-> type]
DropType(type) == [op |-> "untype", type |-> type]

DropAll(ts) == [i \in DOMAIN ts |-> Drop(ts[i])]

CoreTables == <<
  Create("evidence_records", {}, {}, {}),
  Create("model_versions", {}, {"model_role", "model_stage"}, {}),
  Create("signatures", {}, {"severity", "detection_method"}, {}),
  Create("sites", {}, {}, {}),
  Create("users", {}, {"user_role"}, {}),
  Create("audit_logs", {Linked("user_id", "users")}, {}, {}),
  Create("buildings", {Owned("site_id", "sites")}, {}, {}),
  Create("cases", {Linked("assigned_to", "users")}, {"case_status", "severity"}, {}),
  Create("eval_runs", {Scoped("model_version_id", "model_versions")}, {}, {})>>

CameraTables == <<
  Create("cameras", {Linked("site_id", "sites"), Linked("building_id", "buildings")},
         {"camera_status"}, {}),
  Create("case_evidence", {Owned("case_id", "cases"),
         Linked("evidence_record_id", "evidence_records")}, {}, {}),
  Create("recordings", {Owned("camera_id", "cameras")}, {"recording_type"}, {}),
  Create("tracked_objects", {Owned("camera_id", "cameras")}, {}, {}),
  Create("zones", {Owned("site_id", "sites"), Linked("building_id", "buildings"),
         Linked("camera_id", "cameras")}, {"zone_type"}, {})>>

IncidentTables == <<
  Create("events", {Linked("signature_id", "signatures"), Owned("camera_id", "cameras"),
         Linked("zone_id", "zones")}, {"severity"}, {}),
  Create("incidents", {Linked("event_id", "events"), Linked("signature_id", "signatures"),
         Owned("camera_id", "cameras"), Linked("zone_id", "zones"),
         Linked("assigned_to", "users")}, {"severity", "incident_status", "verdict"}, {}),
  Create("access_events", {Linked("camera_id", "cameras"), Linked("incident_id", "incidents")},
         {"access_event_type"}, {}),
  Create("case_incidents", {Owned("case_id", "cases"), Owned("incident_id", "incidents")}, {}, {}),
  Create("incident_status_logs", {Owned("incident_id", "incidents"),
         Linked("user_id", "users")}, {}, {})>>

InitialDown ==
  DropAll(<<"incident_status_logs", "case_incidents", "access_events", "incidents", "events",
            "zones", "tracked_objects", "recordings", "case_evidence", "cameras", "eval_runs",
            "cases", "buildings", "audit_logs", "users", "sites", "signatures",
            "model_versions", "evidence_records">>)
  \o <<DropType("severity"), DropType("detection_method"), DropType("incident_status"),
       DropType("verdict"), DropType("camera_status"), DropType("zone_type"),
       DropType("user_role"), DropType("case_status"), DropType("recording_type"),
       DropType("access_event_type"), DropType("model_role"), DropType("model_stage")>>

WatchlistUp == <<Create("watchlist_entries", {Linked("added_by", "users")}, {}, {})>>
ZoneSnapshotsUp ==
  <<Create("zone_snapshots", {Owned("zone_id", "zones"), Linked("camera_id", "cameras")}, {}, {})>>
RiskScoreUp == <<AddColumn("incidents", "risk_score", TRUE)>>
RiskScoreDown == <<DropColumn("incidents", "risk_score")>>
GroupingUp ==
  <<AddColumn("incidents", "occurrence_count", TRUE), AddColumn("incidents", "last_seen_at", TRUE)>>
GroupingDown ==
  <<DropColumn("incidents", "last_seen_at"), DropColumn("incidents", "occurrence_count")>>
SchedulesUp == <<Create("schedule_windows",
  {Scoped("camera_id", "cameras"), Scoped("zone_id", "zones")}, {}, {})>>
AlertsRecreate ==      \* mutant: the severity type is declared anew
  <<Create("nl_alerts", {Scoped("camera_id", "cameras")}, {"severity"}, {})>>
AlertsUp == <<Create("nl_alerts", {Scoped("camera_id", "cameras")}, {}, {"severity"})>>

EnterpriseUp == <<
  CreateType("dispatch_state"),
  Create("responders", {Linked("site_id", "sites")}, {}, {}),
  Create("oncall_shifts", {Owned("responder_id", "responders"), Linked("site_id", "sites")}, {}, {}),
  Create("dispatches", {Owned("incident_id", "incidents"), Linked("camera_id", "cameras"),
         Linked("site_id", "sites"), Linked("responder_id", "responders")},
         {}, {"severity", "dispatch_state"}),
  Create("soc_shifts", {Linked("user_id", "users")}, {}, {}),
  Create("fleet_snapshots", {}, {}, {}),
  Create("fleet_findings", {Linked("site_id", "sites")}, {}, {"severity"}),
  Create("plate_sightings", {Linked("site_id", "sites"), Linked("camera_id", "cameras")}, {}, {}),
  Create("cross_site_links", {}, {}, {})>>
EnterpriseDown ==
  DropAll(<<"cross_site_links", "plate_sightings", "fleet_findings", "fleet_snapshots",
            "soc_shifts", "dispatches", "oncall_shifts", "responders">>)
  \o <<DropType("dispatch_state")>>

CoreDefaults == <<AlterDefaults("signatures"), AlterDefaults("cameras"), AlterDefaults("zones")>>

SensorPlaneUp ==
  <<Create("devices", {Linked("site_id", "sites"), Linked("zone_id", "zones"),
           Linked("camera_id", "cameras")}, {}, {}),
    Create("sensor_events", {Owned("device_id", "devices"), Linked("site_id", "sites"),
           Linked("incident_id", "incidents")}, {}, {})>>

Up == <<CoreTables \o CameraTables \o IncidentTables, WatchlistUp, ZoneSnapshotsUp, RiskScoreUp,
        GroupingUp, SchedulesUp, AlertsUp, EnterpriseUp, CoreDefaults, SensorPlaneUp>>
Down == <<InitialDown, DropAll(<<"watchlist_entries">>), DropAll(<<"zone_snapshots">>),
          RiskScoreDown, GroupingDown, DropAll(<<"schedule_windows">>), DropAll(<<"nl_alerts">>),
          EnterpriseDown, CoreDefaults, DropAll(<<"sensor_events", "devices">>)>>
Head_ == Len(Up)

NoRun == [on |-> FALSE]

Init ==
  /\ version = 0
  /\ tables = [t \in {} |-> {}]
  /\ types = {}
  /\ used = FALSE
  /\ run = NoRun
  /\ runs = 0

\* alembic upgrade, of any release: up to the revisions that release ships.
Start(to) ==
  /\ ~run.on /\ runs < MaxRuns /\ to # version
  /\ runs' = runs + 1
  /\ run' = [on |-> TRUE, to |-> to, at |-> version, ops |-> << >>,
             tables |-> tables, types |-> types, memo |-> {}]
  /\ UNCHANGED <<version, tables, types, used>>

\* The next revision on the way, whose operations follow.
Revision ==
  /\ run.on /\ run.ops = << >> /\ run.at # run.to
  /\ run' = IF run.at < run.to THEN [run EXCEPT !.at = @ + 1, !.ops = Up[run.at + 1]]
            ELSE [run EXCEPT !.at = @ - 1, !.ops = Down[run.at]]
  /\ UNCHANGED <<version, tables, types, used, runs>>

Exists(t) == t \in DOMAIN run.tables
Without(t) == [u \in DOMAIN run.tables \ {t} |-> run.tables[u]]

\* What PostgreSQL accepts.
Accepted(o) ==
  CASE o.op = "create"  -> /\ ~Exists(o.table)
                           /\ \A r \in o.refs : Exists(r.to)
                           /\ (o.enums \ run.memo) \cap run.types = {}
                           /\ o.existing \subseteq run.types
    [] o.op = "drop"    -> /\ Exists(o.table)
                           /\ \A u \in DOMAIN Without(o.table) :
                                \A r \in run.tables[u].refs : r.to # o.table
    [] o.op = "add"     -> Exists(o.table) /\ o.col \notin run.tables[o.table].added
                             /\ (o.fillable \/ ~used)
    [] o.op = "remove"  -> Exists(o.table) /\ o.col \in run.tables[o.table].added
    [] o.op = "default" -> Exists(o.table)
    [] o.op = "untype"  -> \A t \in DOMAIN run.tables : o.type \notin run.tables[t].enums
    [] OTHER            -> TRUE

Applied(o) ==
  CASE o.op = "create"  -> [run EXCEPT !.types = @ \cup o.enums, !.memo = @ \cup o.enums,
                              !.tables = With(@, [t \in {o.table} |-> Table(o.refs, o.enums \cup o.existing)])]
    [] o.op = "drop"    -> [run EXCEPT !.tables = Without(o.table)]
    [] o.op = "add"     -> [run EXCEPT !.tables[o.table].added = @ \cup {o.col}]
    [] o.op = "remove"  -> [run EXCEPT !.tables[o.table].added = @ \ {o.col}]
    [] o.op = "type"    -> [run EXCEPT !.types = @ \cup {o.type}]
    [] o.op = "untype"  -> [run EXCEPT !.types = @ \ {o.type}]
    [] OTHER            -> run

\* What is refused ends the run.
Operation ==
  /\ run.on /\ run.ops # << >> /\ Accepted(Head(run.ops))
  /\ run' = [Applied(Head(run.ops)) EXCEPT !.ops = Tail(@)]
  /\ UNCHANGED <<version, tables, types, used, runs>>

Commit ==
  /\ run.on /\ run.ops = << >> /\ run.at = run.to
  /\ version' = run.to /\ tables' = run.tables /\ types' = run.types
  /\ run' = NoRun
  /\ used' = (used /\ run.to # 0)
  /\ UNCHANGED runs

DieStamped ==      \* mutant: the version is stamped outside of the transaction
  /\ run.on
  /\ version' = run.to
  /\ run' = NoRun
  /\ UNCHANGED <<tables, types, used, runs>>
Die ==
  /\ run.on
  /\ run' = NoRun
  /\ UNCHANGED <<version, tables, types, used, runs>>

\* The services of the release that is installed run and write.
Use ==
  /\ ~run.on /\ version > 0 /\ ~used
  /\ used' = TRUE
  /\ UNCHANGED <<version, tables, types, run, runs>>

Next == (\E to \in 0 .. Head_ : Start(to)) \/ Revision \/ Operation \/ Commit \/ Die \/ Use

Spec == Init /\ [][Next]_vars
-----------------------------------------------------------------------------
\* deploy/RUNBOOK.md:60-61, upgrading from any release and back: PostgreSQL
\* refuses no operation, with rows or without, in one run or in many, after a
\* run that died and after a downgrade.
NoOperationRefused == run.on /\ run.ops # << >> => Accepted(Head(run.ops))

\* migrations and models.py agree: at the last revision the tables, their keys
\* with their delete rules and their types are those the ORM declares, and no
\* other type is left.
HeadIsDeclared ==
  version = Head_ =>
    /\ tables = Declared
    /\ types = UNION {Declared[t].enums : t \in DOMAIN Declared}
=============================================================================
