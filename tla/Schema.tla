------------------------------- MODULE Schema -------------------------------
(***************************************************************************)
(* The tables the ORM models declare: their foreign keys with the rule for *)
(* a deleted parent, the enum types of their columns, and the columns that *)
(* were not in the first schema.  Other columns and indexes are left out.  *)
(***************************************************************************)
Reference(col, table, rule, null) == [col |-> col, to |-> table, rule |-> rule, null |-> null]
\* NOT NULL, deleted with the parent; nullable, deleted with it; nullable, set to NULL.
Owned(col, table) == Reference(col, table, "CASCADE", FALSE)
Scoped(col, table) == Reference(col, table, "CASCADE", TRUE)
Linked(col, table) == Reference(col, table, "SET NULL", TRUE)

\* The tables of f and those of g.
With(f, g) == [t \in DOMAIN f \cup DOMAIN g |-> IF t \in DOMAIN f THEN f[t] ELSE g[t]]

Table(refs, enums) == [refs |-> refs, enums |-> enums, added |-> {}]

Facility ==
  [sites     |-> Table({}, {}),
   buildings |-> Table({Owned("site_id", "sites")}, {}),
   zones     |-> Table({Owned("site_id", "sites"), Linked("building_id", "buildings"),
                        Linked("camera_id", "cameras")}, {"zone_type"}),
   cameras   |-> Table({Linked("site_id", "sites"), Linked("building_id", "buildings")},
                       {"camera_status"})]

Detection ==
  [signatures      |-> Table({}, {"severity", "detection_method"}),
   tracked_objects |-> Table({Owned("camera_id", "cameras")}, {}),
   events          |-> Table({Linked("signature_id", "signatures"), Owned("camera_id", "cameras"),
                              Linked("zone_id", "zones")}, {"severity"})]

IncidentRows ==
  [incidents |->
     [refs  |-> {Linked("event_id", "events"), Linked("signature_id", "signatures"),
                 Owned("camera_id", "cameras"), Linked("zone_id", "zones"),
                 Linked("assigned_to", "users")},
      enums |-> {"severity", "incident_status", "verdict"},
      added |-> {"risk_score", "occurrence_count", "last_seen_at"}],
   incident_status_logs |->
     Table({Owned("incident_id", "incidents"), Linked("user_id", "users")}, {})]

Cases ==
  [case_incidents |-> Table({Owned("case_id", "cases"), Owned("incident_id", "incidents")}, {}),
   cases          |-> Table({Linked("assigned_to", "users")}, {"case_status", "severity"}),
   case_evidence  |-> Table({Owned("case_id", "cases"),
                             Linked("evidence_record_id", "evidence_records")}, {})]

Sensors ==
  [access_events |-> Table({Linked("camera_id", "cameras"), Linked("incident_id", "incidents")},
                           {"access_event_type"}),
   devices       |-> Table({Linked("site_id", "sites"), Linked("zone_id", "zones"),
                            Linked("camera_id", "cameras")}, {}),
   sensor_events |-> Table({Owned("device_id", "devices"), Linked("site_id", "sites"),
                            Linked("incident_id", "incidents")}, {})]

Records ==
  [recordings       |-> Table({Owned("camera_id", "cameras")}, {"recording_type"}),
   users            |-> Table({}, {"user_role"}),
   audit_logs       |-> Table({Linked("user_id", "users")}, {}),
   evidence_records |-> Table({}, {})]

Governance ==
  [model_versions |-> Table({}, {"model_role", "model_stage"}),
   eval_runs      |-> Table({Scoped("model_version_id", "model_versions")}, {})]

Watching ==
  [nl_alerts         |-> Table({Scoped("camera_id", "cameras")}, {"severity"}),
   schedule_windows  |-> Table({Scoped("camera_id", "cameras"), Scoped("zone_id", "zones")}, {}),
   zone_snapshots    |-> Table({Owned("zone_id", "zones"), Linked("camera_id", "cameras")}, {}),
   watchlist_entries |-> Table({Linked("added_by", "users")}, {})]

Soc ==
  [responders    |-> Table({Linked("site_id", "sites")}, {}),
   oncall_shifts |-> Table({Owned("responder_id", "responders"), Linked("site_id", "sites")}, {}),
   dispatches    |-> Table({Owned("incident_id", "incidents"), Linked("camera_id", "cameras"),
                            Linked("site_id", "sites"), Linked("responder_id", "responders")},
                           {"severity", "dispatch_state"}),
   soc_shifts    |-> Table({Linked("user_id", "users")}, {})]

FleetHealth ==
  [fleet_snapshots |-> Table({}, {}),
   fleet_findings  |-> Table({Linked("site_id", "sites")}, {"severity"})]

CrossSites ==
  [plate_sightings  |-> Table({Linked("site_id", "sites"), Linked("camera_id", "cameras")}, {}),
   cross_site_links |-> Table({}, {})]

Monitoring == With(Facility, With(Detection, With(IncidentRows, Cases)))
Keeping == With(Sensors, With(Records, Governance))
Operations == With(Watching, With(Soc, With(FleetHealth, CrossSites)))

Declared == With(Monitoring, With(Keeping, Operations))
=============================================================================
