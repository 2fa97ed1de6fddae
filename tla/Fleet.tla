------------------------------- MODULE Fleet -------------------------------
(***************************************************************************)
(* The fleet monitor beside the recorder that writes the camera rows it    *)
(* reads: a loop that collects cameras, then probes services, then         *)
(* evaluates the rules and reconciles the findings in one transaction.  A  *)
(* rule over a metric stands as a flag: the metric is over its threshold.  *)
(* A recorder that stops leaves the row of its camera as it was.  Times    *)
(* are ages; the clock does not run past the deadlines of the loop.        *)
(***************************************************************************)
EXTENDS Integers

CONSTANTS
  Cameras,
  Services,   \* those that are probed; perception also answers with its metrics
  Weaknesses,          \* findings of a camera online: low_fps, stream_unstable
  HostMetrics,         \* disk_pressure, mem_pressure
  PerceptionMetrics,   \* perception_cpu, high_inference_latency
  Stale,      \* camera_stale_seconds
  Period,     \* collect_seconds
  MaxLag,     \* bound on the time the services take to answer
  MaxFailed   \* bound on ticks in a row that fail

VARIABLES
  silent,     \* per camera: age of last_seen
  status,     \* per camera row: online, offline
  health,     \* per camera row: what is weak in the health it was reported with
  up,         \* services that answer
  phase,      \* of the loop: wait, probe, reconcile
  timer,      \* time in the phase
  collected,  \* per camera, as collected: status, age of last_seen and health
  answered,   \* services that were up when they were probed
  measured,   \* metrics of perception and of the host that were over their thresholds
  findings,   \* (kind, target) of the active rows of fleet_findings
  failed      \* ticks that have failed in a row

vars == <<silent, status, health, up, phase, timer, collected, answered, measured, findings,
          failed>>
loop == <<phase, timer, collected, answered, measured, findings, failed>>
rows == <<silent, status, health>>

\* The longest a camera may be silent before its finding is there.
Deadline == Stale + (MaxFailed + 1) * (Period + MaxLag)
Grown(age) == IF age <= Deadline THEN age + 1 ELSE age

Nothing == [c \in Cameras |-> [status |-> "online", age |-> 0, weak |-> {}]]

Init ==
  /\ silent = [c \in Cameras |-> 0]
  /\ status = [c \in Cameras |-> "online"]
  /\ health = [c \in Cameras |-> {}]
  /\ up = Services
  /\ phase = "wait" /\ timer = Period     \* run() ticks at once
  /\ collected = Nothing
  /\ answered = {} /\ measured = {} /\ findings = {} /\ failed = 0

Tick ==
  /\ timer < (CASE phase = "wait" -> Period [] phase = "probe" -> MaxLag [] OTHER -> 0)
  /\ timer' = timer + 1
  /\ silent' = [c \in Cameras |-> Grown(silent[c])]
  /\ UNCHANGED <<status, health, up, phase, collected, answered, measured, findings, failed>>

\* Ingest, _update_camera_row: last_seen only while the stream is online.
Report(c, s, weak) ==
  /\ status' = [status EXCEPT ![c] = s]
  /\ silent' = [silent EXCEPT ![c] = IF s = "online" THEN 0 ELSE @]
  /\ health' = [health EXCEPT ![c] = weak]
  /\ UNCHANGED up /\ UNCHANGED loop

Flip(s) ==
  /\ up' = IF s \in up THEN up \ {s} ELSE up \cup {s}
  /\ UNCHANGED rows /\ UNCHANGED loop

\* collect_cameras.
Collect ==
  /\ phase = "wait" /\ timer = Period
  /\ phase' = "probe" /\ timer' = 0
  /\ collected' = [c \in Cameras |->
                    [status |-> status[c], age |-> silent[c], weak |-> health[c]]]
  /\ UNCHANGED rows /\ UNCHANGED <<up, answered, measured, findings, failed>>

\* _eval_perception looks at the metrics of a perception service that is up.
Measurable == HostMetrics \cup (IF "perception" \in up THEN PerceptionMetrics ELSE {})

\* collect_services and collect_host; what was collected grows older meanwhile.
Probe ==
  /\ phase = "probe"
  /\ phase' = "reconcile" /\ timer' = 0
  /\ answered' = up
  /\ measured' \in SUBSET Measurable
  /\ collected' = [c \in Cameras |-> [collected[c] EXCEPT !.age = @ + timer]]
  /\ UNCHANGED rows /\ UNCHANGED <<up, findings, failed>>

\* evaluate.
OfflineByStatus(row) == row.status # "online"     \* mutant: last_seen is not looked at
Offline(row) == row.status # "online" \/ row.age > Stale

\* An offline camera is not looked at for anything else.
CameraFindings(c) ==
  IF Offline(collected[c]) THEN {<<"camera_offline", c>>}
  ELSE {<<w, c>> : w \in collected[c].weak}

Produced ==
  UNION {CameraFindings(c) : c \in Cameras}
    \cup {<<"service_down", s>> : s \in Services \ answered}
    \cup {<<m, "perception">> : m \in measured \cap PerceptionMetrics}
    \cup {<<m, "host">> : m \in measured \cap HostMetrics}

\* What a tick has collected is gone with it.
EndTick ==
  /\ phase' = "wait" /\ timer' = 0
  /\ collected' = Nothing /\ answered' = {} /\ measured' = {}

\* _reconcile_findings: what is produced is active, everything else gets resolved.
Reconcile ==
  /\ phase = "reconcile"
  /\ findings' = Produced /\ failed' = 0
  /\ EndTick
  /\ UNCHANGED rows /\ UNCHANGED up

Fail ==
  /\ phase # "wait" /\ failed < MaxFailed
  /\ EndTick
  /\ failed' = failed + 1
  /\ UNCHANGED rows /\ UNCHANGED <<up, findings>>

Next ==
  \/ Tick \/ Collect \/ Probe \/ Reconcile \/ Fail
  \/ \E c \in Cameras, s \in {"online", "offline"}, weak \in SUBSET Weaknesses : Report(c, s, weak)
  \/ \E s \in Services : Flip(s)

Spec == Init /\ [][Next]_vars
-----------------------------------------------------------------------------
\* engine.py:62-93, diagnostics.py:80-107 (fleet), manager.py:98-104 (ingest).  However
\* a camera went silent, its recorder stopped or ingest gone, with its row still saying
\* online: within the staleness and one round of the loop, more for failed ones, there
\* is a finding for it.
SilenceIsFound ==
  \A c \in Cameras : silent[c] > Deadline => <<"camera_offline", c>> \in findings
=============================================================================
