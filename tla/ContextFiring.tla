---------------------------- MODULE ContextFiring ----------------------------
(***************************************************************************)
(* From an alarm to an incident: the tasks of the context service that     *)
(* call _fire, and _fire itself.  A call checks and sets the cooldown,     *)
(* gives way to a schedule window, rolls into an open incident of the same *)
(* group, or stores a new incident and announces it.  Everything after the *)
(* cooldown awaits, so the calls of different tasks interleave, and what   *)
(* raises is called again by the bus.  A frame first fires for the tracks  *)
(* that have left, then for what it finds in the zones; handoffs and       *)
(* anomalies have a cooldown of their own, set before _fire.  One camera.  *)
(***************************************************************************)
EXTENDS Integers, Sequences, FiniteSets

CONSTANTS
  FrameAlarms,  \* alarms of the evaluators: [sig, scope], the scope being a track or zone
  Handoffs,     \* alarms of tracks that have left and appear on another camera
  Anomalies,    \* alarms of zones far above their learned occupancy
  Watched,      \* watchlist entries
  Devices,      \* sensors bound to the camera
  Classes,      \* their classes: panic_button, environmental, any other
  Requests,     \* concurrent requests to /access-event and /fall-event
  Events,       \* access events that are reported: access_denied, door_forced
  Expected,     \* signatures a schedule window covers
  Cooldown,     \* cooldown_seconds of the signatures
  Horizon,      \* 3600 s: older cooldowns are pruned
  GateCooldown, \* handoff_cooldown_s, anomaly_cooldown_s; eight times that is the horizon
  Window,       \* dedup_window_s
  MaxTime, MaxCalls, MaxAttempts, MaxFails   \* bounds

VARIABLES
  now,        \* the clock
  cooldowns,  \* when each alarm last passed: ContextEngine.cooldowns
  gates,      \* handoff_fires and anomaly_fires
  incidents,  \* the table, in order of creation
  stats,      \* incidents published since the start: ContextEngine.stats["incidents"]
  hits,       \* hit_count of all watchlist entries
  call,       \* what each task is doing
  budget,     \* bound: messages, requests and failures so far
  passed,     \* history: when each alarm last passed the cooldown, since the start
  started     \* history: incidents there were when the service last started

vars == <<now, cooldowns, gates, incidents, stats, hits, call, budget, passed, started>>

Consumers == {"objects", "embeddings", "sensors"}
Tasks == Consumers \cup Requests

AccessSignatures == {"Badge and Tailgating", "Badge and Loitering", "Verified Forced Door"}
SensorSignatures == {"Panic Alarm", "Environmental Alarm", "Verified Sensor Alarm", "Sensor Alarm"}

RequestSignatures == AccessSignatures \cup {"Person Fall"}

Alarm(sig, scope) == [sig |-> sig, scope |-> scope]
VideoAlarms == FrameAlarms \cup Handoffs \cup Anomalies
AlarmsOf(t) ==
  IF t = "objects" THEN VideoAlarms
  ELSE IF t = "embeddings" THEN [sig : {"Watchlist Hit"}, scope : Watched]
  ELSE IF t = "sensors" THEN [sig : SensorSignatures, scope : Devices]
  ELSE [sig : AccessSignatures, scope : {"door"}] \cup {Alarm("Person Fall", "camera")}
Alarms == UNION {AlarmsOf(t) : t \in Tasks}

\* The signatures of the video evaluators have names of their own (catalog.py), and a
\* cooldown is forgotten only once it is over.
FiringAssumption ==
  /\ Cooldown \in Nat /\ Horizon \in Nat /\ Window \in Nat /\ MaxAttempts \in Nat
  /\ Cooldown <= Horizon
  /\ \A a \in VideoAlarms :
       /\ a = Alarm(a.sig, a.scope)
       /\ a.sig \notin SensorSignatures \cup RequestSignatures \cup {"Watchlist Hit"}
  /\ Consumers \cap Requests = {}

\* handle_access: the live video decides what an access event amounts to.
AccessEvents == [event : Events, people : 0 .. 2, dwelling : BOOLEAN]
AccessAlarms(e) ==
  IF e.event = "access_denied" /\ e.people >= 2 THEN <<Alarm("Badge and Tailgating", "door")>>
  ELSE IF e.event = "access_denied" /\ e.dwelling THEN <<Alarm("Badge and Loitering", "door")>>
  ELSE IF e.event = "door_forced" /\ e.people > 0 THEN <<Alarm("Verified Forced Door", "door")>>
  ELSE << >>

\* _sensor_is_alarm: the sender's severity, flag, event type and state stand as one choice.
SensorReports == [class : Classes, device : Devices, alarm : BOOLEAN, people : 0 .. 1]
SensorAlarms(r) ==
  LET sig == IF r.class = "panic_button" THEN "Panic Alarm"
             ELSE IF r.class = "environmental" THEN "Environmental Alarm"
             ELSE IF r.people > 0 THEN "Verified Sensor Alarm" ELSE "Sensor Alarm"
  IN  IF r.alarm THEN <<Alarm(sig, r.device)>> ELSE << >>

\* At most n members of S, in some order.
Orders(S, n) ==
  {s \in UNION {[1 .. k -> S] : k \in 0 .. n} : \A i, j \in DOMAIN s : s[i] = s[j] => i = j}

\* Zones whose occupancy is far above what _refresh_baselines has learned.
Unusual == Orders(Anomalies, 1)
\* _reid_handoff_query: of the tracks that have left, one whose appearance was seen by
\* another camera lately.
Reappearances == Orders(Handoffs, 1)

\* What a message or request may ask to fire, in the order of the evaluators.
Work(t) ==
  IF t = "objects" THEN Orders(FrameAlarms, 2)
  ELSE IF t = "embeddings" THEN {<<Alarm("Watchlist Hit", e)>> : e \in Watched}
  ELSE IF t = "sensors" THEN {SensorAlarms(r) : r \in SensorReports}
  ELSE {AccessAlarms(e) : e \in AccessEvents} \cup {<<Alarm("Person Fall", "camera")>>}

Idle == [pc |-> "idle"]
None == -1

Init ==
  /\ now = 0
  /\ cooldowns = [a \in Alarms |-> None]
  /\ gates = [a \in Handoffs \cup Anomalies |-> None]
  /\ incidents = << >>
  /\ stats = 0
  /\ hits = 0
  /\ call = [t \in Tasks |-> Idle]
  /\ budget = [calls |-> 0, fails |-> 0]
  /\ passed = cooldowns
  /\ started = 0

PrunedEarly ==     \* mutant
  [a \in Alarms |-> IF now - cooldowns[a] < Cooldown - 1 THEN cooldowns[a] ELSE None]
\* _prune_state, at most once a minute and only by the frame handler.
Pruned == [a \in Alarms |-> IF now - cooldowns[a] < Horizon THEN cooldowns[a] ELSE None]
PrunedGates == [a \in DOMAIN gates |-> IF now - gates[a] < 8 * GateCooldown THEN gates[a] ELSE None]

\* A frame's own alarms are found once its handoffs have fired (`made`).
Receive(t) ==
  /\ call[t] = Idle
  /\ budget.calls < MaxCalls
  /\ \E work \in Work(t), unusual \in (IF t = "objects" THEN Unusual ELSE {<< >>}),
        left \in (IF t = "objects" THEN Reappearances ELSE {<< >>}) :
       /\ work \o unusual \o left # << >> \/ t # "objects"
       /\ call' = [call EXCEPT ![t] =
            [pc |-> "next", work |-> work, unusual |-> unusual, left |-> left,
             made |-> t # "objects",
             todo |-> IF t = "objects" THEN << >> ELSE work,
             at |-> IF t = "objects" THEN now ELSE 0,
             attempt |-> 1, row |-> 0, seen |-> 0, before |-> 0]]
  /\ budget' = [budget EXCEPT !.calls = @ + 1]
  /\ \E prune \in {FALSE, t = "objects"} :
       /\ cooldowns' = IF prune THEN Pruned ELSE cooldowns
       /\ gates' = IF prune THEN PrunedGates ELSE gates
  /\ UNCHANGED <<now, incidents, stats, hits, passed, started>>

At(t, pc) == call[t].pc = pc
Current(t) == Head(call[t].todo)
\* _fire returns to its caller, which goes on with the next candidate.
Return(t, rest) == [call EXCEPT ![t].pc = IF t = "embeddings" THEN "count" ELSE "next",
                                ![t].row = 0, ![t].seen = 0, ![t].todo = rest,
                                ![t].at = IF t = "objects" THEN @ ELSE 0]

GateOpen(a, at) == gates[a] = None \/ at - gates[a] >= GateCooldown

\* _check_handoffs, for one track that has left: its appearance is on another camera.
Handoff(t) ==
  /\ At(t, "next") /\ call[t].todo = << >> /\ call[t].left # << >>
  /\ LET a == Head(call[t].left)
         open == GateOpen(a, call[t].at)
     IN  /\ gates' = IF open THEN [gates EXCEPT ![a] = call[t].at] ELSE gates
         /\ call' = [call EXCEPT ![t].left = Tail(@),
                                 ![t].todo = IF open THEN <<a>> ELSE << >>]
  /\ UNCHANGED <<now, cooldowns, incidents, stats, hits, budget, passed, started>>

\* _check_anomalies and the evaluators; no await separates them.
Evaluate(t) ==
  /\ At(t, "next") /\ ~call[t].made /\ call[t].todo = << >> /\ call[t].left = << >>
  /\ LET unusual == call[t].unusual
         found == unusual # << >> /\ GateOpen(Head(unusual), call[t].at)
     IN  /\ gates' = IF found THEN [gates EXCEPT ![Head(unusual)] = call[t].at] ELSE gates
         /\ call' = [call EXCEPT ![t].made = TRUE,
                       ![t].todo = IF found THEN unusual \o call[t].work ELSE call[t].work]
  /\ UNCHANGED <<now, cooldowns, incidents, stats, hits, budget, passed, started>>

\* Frames bring their timestamp; the other handlers read the clock just before.
Clock(t) == IF t = "objects" THEN call[t].at ELSE now
Cooling(t) ==
  cooldowns[Current(t)] # None /\ Clock(t) - cooldowns[Current(t)] < Cooldown

Skip(t) ==
  /\ At(t, "next") /\ call[t].todo # << >> /\ Cooling(t)
  /\ call' = [call EXCEPT ![t].todo = Tail(@)]
  /\ UNCHANGED <<now, cooldowns, gates, incidents, stats, hits, budget, passed, started>>

\* The cooldown is set here, before the first await.
Pass(t) ==
  /\ At(t, "next") /\ call[t].todo # << >> /\ ~Cooling(t)
  /\ cooldowns' = [cooldowns EXCEPT ![Current(t)] = Clock(t)]
  /\ passed' = [passed EXCEPT ![Current(t)] = Clock(t)]
  /\ call' = [call EXCEPT ![t].pc = IF Current(t).sig \in Expected THEN "suppress" ELSE "look",
                          ![t].at = Clock(t), ![t].before = IF t = "embeddings" THEN stats ELSE 0]
  /\ UNCHANGED <<now, gates, incidents, stats, hits, budget, started>>

\* _bump_schedule.
Suppress(t) ==
  /\ At(t, "suppress")
  /\ call' = Return(t, Tail(call[t].todo))
  /\ UNCHANGED <<now, cooldowns, gates, incidents, stats, hits, budget, passed, started>>

MatchesNone(t) == {}     \* mutant
\* _group_into_open: the latest open incident of the group seen within the window.
Matches(t) ==
  {i \in DOMAIN incidents :
     /\ incidents[i].sig = Current(t).sig
     /\ incidents[i].open
     /\ incidents[i].last >= call[t].at - Window}

Look(t) ==
  /\ At(t, "look")
  /\ \/ Matches(t) = {} /\ call' = [call EXCEPT ![t].pc = "store"]
     \/ \E i \in Matches(t) :
          /\ \A j \in Matches(t) : j <= i
          /\ call' = [call EXCEPT ![t].pc = "roll", ![t].row = i,
                                  ![t].seen = incidents[i].count]
  /\ UNCHANGED <<now, cooldowns, gates, incidents, stats, hits, budget, passed, started>>

\* occurrence_count is the value read plus one, whatever has become of the row.
Roll(t) ==
  /\ At(t, "roll")
  /\ incidents' = [incidents EXCEPT ![call[t].row].count = call[t].seen + 1,
                                    ![call[t].row].last = call[t].at]
  /\ call' = Return(t, Tail(call[t].todo))
  /\ UNCHANGED <<now, cooldowns, gates, stats, hits, budget, passed, started>>

\* Snapshot, then Event, Incident and IncidentStatusLog in one commit.
Store(t) ==
  /\ At(t, "store")
  /\ incidents' = Append(incidents, [sig |-> Current(t).sig,
                                     made |-> call[t].at, last |-> call[t].at,
                                     count |-> 1, open |-> TRUE])
  /\ call' = [call EXCEPT ![t].pc = "publish", ![t].row = Len(incidents) + 1]
  /\ UNCHANGED <<now, cooldowns, gates, stats, hits, budget, passed, started>>

Publish(t) ==
  /\ At(t, "publish")
  /\ stats' = stats + 1
  /\ call' = Return(t, Tail(call[t].todo))
  /\ UNCHANGED <<now, cooldowns, gates, incidents, hits, budget, passed, started>>

\* WatchlistMatcher._fire_hit compares the engine's counter with what it was before.
Count(t) ==
  /\ At(t, "count")
  /\ hits' = IF stats > call[t].before THEN hits + 1 ELSE hits
  /\ call' = [call EXCEPT ![t].pc = "next", ![t].before = 0]
  /\ UNCHANGED <<now, cooldowns, gates, incidents, stats, budget, passed, started>>

Done(t) ==
  /\ At(t, "next") /\ call[t].made /\ call[t].todo = << >>
  /\ call' = [call EXCEPT ![t] = Idle]
  /\ UNCHANGED <<now, cooldowns, gates, incidents, stats, hits, budget, passed, started>>

\* A frame handled again finds its tracks that have left gone, so it fires no handoff.
Again(t) ==
  IF t \in Consumers /\ call[t].attempt < MaxAttempts
  THEN [call[t] EXCEPT !.pc = "next", !.attempt = @ + 1, !.row = 0, !.seen = 0, !.left = << >>,
                       !.made = t # "objects",
                       !.todo = IF t = "objects" THEN << >> ELSE call[t].work]
  ELSE Idle

\* An await raises; before a frame's own alarms are made that is the search for a handoff
\* or the snapshot of the zones.
Fail(t) ==
  /\ call[t].pc # "idle"
  /\ At(t, "next") => ~call[t].made /\ call[t].todo = << >>
  /\ budget.fails < MaxFails
  /\ budget' = [budget EXCEPT !.fails = @ + 1]
  /\ call' = [call EXCEPT ![t] = Again(t)]
  /\ UNCHANGED <<now, cooldowns, gates, incidents, stats, hits, passed, started>>

\* The service dies; what it remembered is gone.
Crash ==
  /\ budget.fails < MaxFails
  /\ budget' = [budget EXCEPT !.fails = @ + 1]
  /\ cooldowns' = [a \in Alarms |-> None]
  /\ gates' = [a \in DOMAIN gates |-> None]
  /\ call' = [t \in Tasks |-> Idle]
  /\ passed' = cooldowns'
  /\ stats' = 0
  /\ started' = Len(incidents)
  /\ UNCHANGED <<now, incidents, hits>>

\* An operator or the model's verdict closes an incident (resolved, false positive).
Close(i) ==
  /\ incidents[i].open
  /\ incidents' = [incidents EXCEPT ![i].open = FALSE]
  /\ UNCHANGED <<now, cooldowns, gates, stats, hits, call, budget, passed, started>>

Tick ==
  /\ now < MaxTime
  /\ now' = now + 1
  /\ UNCHANGED <<cooldowns, gates, incidents, stats, hits, call, budget, passed, started>>

Next ==
  \/ \E t \in Tasks :
       \/ Receive(t) \/ Handoff(t) \/ Evaluate(t) \/ Skip(t) \/ Pass(t) \/ Suppress(t) \/ Look(t) \/ Roll(t)
       \/ Store(t) \/ Publish(t) \/ Count(t) \/ Done(t) \/ Fail(t)
  \/ \E i \in DOMAIN incidents : Close(i)
  \/ Crash
  \/ Tick

Spec == Init /\ [][Next]_vars

-----------------------------------------------------------------------------
\* engine.py:1106-1110, 598-613.  An alarm passes at most once per cooldown: not
\* twice for two requests at once, not for a frame handled again, not because
\* its entry was pruned.
OncePerCooldown ==
  [][\A a \in Alarms :
       {passed[a], passed'[a]} \cap {None} = {} /\ passed'[a] # passed[a]
         => passed'[a] - passed[a] >= Cooldown]_vars

\* engine.py:864-900, 1124-1134.  Two open incidents of one signature, camera and
\* zone are apart by the cooldown or by more than the dedup window: what comes
\* closer is rolled up, whichever task, track or sensor it comes from.  Requests run
\* beside each other, and one that rolls up late sets last_seen_at back to its own time:
\* of theirs only the incidents of one run of the service are apart.
DuplicatesAreApart ==
  \A i, j \in DOMAIN incidents :
    /\ i # j /\ incidents[i].sig = incidents[j].sig /\ incidents[i].open /\ incidents[j].open
    /\ incidents[i].sig \in RequestSignatures => i > started /\ j > started
    => LET gap == incidents[j].made - incidents[i].made
       IN  gap >= Cooldown \/ -gap >= Cooldown \/ gap > Window \/ -gap > Window
=============================================================================
