------------------------------ MODULE NLAlerts ------------------------------
(***************************************************************************)
(* A natural-language alert and the evaluator of the reason service that   *)
(* looks at it once per tick: rows are loaded and the time is taken when   *)
(* the tick begins, frames and answers come later, and operators edit the  *)
(* alert meanwhile.  Times are ages.                                       *)
(***************************************************************************)
EXTENDS Integers

CONSTANTS
  Interval,   \* eval_interval_s
  Cooldown,   \* cooldown_s
  MaxLag      \* bound on the time a tick takes

Never == Cooldown + MaxLag + 1     \* an age no test tells from a greater one

VARIABLES
  active,     \* NLAlert.active
  evaluated,  \* age of last_eval_at
  fired,      \* age of last_fired_at
  lag,        \* time since the tick began; -1 between ticks
  loaded,     \* last_fired_at as the tick has loaded it
  frame,      \* the tick has marked the evaluation and has a frame
  since       \* history: age of the alert's last incident

vars == <<active, evaluated, fired, lag, loaded, frame, since>>

Grown(age) == IF age < Never THEN age + 1 ELSE age

Init ==
  /\ active = TRUE /\ evaluated = Never /\ fired = Never /\ since = Never
  /\ lag = -1 /\ loaded = Never /\ frame = FALSE

Tick ==
  /\ lag < MaxLag
  /\ lag' = IF lag = -1 THEN lag ELSE lag + 1
  /\ evaluated' = Grown(evaluated) /\ fired' = Grown(fired)
  /\ loaded' = Grown(loaded) /\ since' = Grown(since)
  /\ UNCHANGED <<active, frame>>

\* The active alerts, those due by the time of their last evaluation.
Load ==
  /\ active /\ lag = -1 /\ evaluated >= Interval
  /\ lag' = 0 /\ loaded' = fired
  /\ UNCHANGED <<active, evaluated, fired, frame, since>>

\* fresh_frame, then _mark_eval, with the tick's time and before anyone was asked.
MarkEval ==
  /\ lag # -1 /\ ~frame
  /\ evaluated' = lag
  /\ frame' = TRUE
  /\ UNCHANGED <<active, fired, lag, loaded, since>>

Done == lag' = -1 /\ frame' = FALSE
StillCools == loaded - lag < Cooldown

\* No frame, an error of the VLM, no confident box, or a match within the cooldown.
NoMatch ==
  /\ frame /\ Done
  /\ UNCHANGED <<active, evaluated, fired, loaded, since>>

\* _fire: event, incident and last_fired_at in one transaction, by a clock read only now.
TickTime == lag     \* mutant: stamped with the time the tick began
Stamp == 0

Fire ==
  /\ frame /\ ~StillCools /\ Done
  /\ fired' = Stamp /\ since' = 0
  /\ UNCHANGED <<active, evaluated, loaded>>

\* The service dies or restarts; nothing of the alert is kept in memory.
Restart ==
  /\ lag # -1 /\ Done
  /\ UNCHANGED <<active, evaluated, fired, loaded, since>>

Switch ==
  /\ active' = ~active
  /\ UNCHANGED <<evaluated, fired, lag, loaded, frame, since>>

Next == Tick \/ Load \/ MarkEval \/ NoMatch \/ Fire \/ Restart \/ Switch

Spec == Init /\ [][Next]_vars
-----------------------------------------------------------------------------
\* nl_alerts.py:129, 183-188.  The cooldown is checked by the time the tick began and
\* against the row as it was then; still two incidents of an alert are Cooldown apart,
\* across restarts, too.
AlertsAreApart == [][since' = 0 /\ since # 0 => since >= Cooldown]_vars
=============================================================================
