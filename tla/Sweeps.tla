------------------------------- MODULE Sweeps -------------------------------
(***************************************************************************)
(* The signature sweep of the reason service, which asks the VLM about     *)
(* frames of the active cameras.  It takes the time once, at the start of  *)
(* a tick, and then waits for frames, answers and the database.  Times are *)
(* ages.                                                                   *)
(***************************************************************************)
EXTENDS Integers, FiniteSets

CONSTANTS
  Cameras,
  Signatures,      \* the enabled VLM signatures, 1 .. n in the order the database gives them
  MaxSignatures,   \* vlm_sweep_max_signatures
  MaxCameras,      \* vlm_sweep_max_cameras
  Interval,        \* vlm_sweep_interval_s
  Cooldown,        \* vlm_sweep_cooldown_s
  MaxLag           \* bound on the time one tick takes

Keys == Cameras \X Signatures
Never == 2 * Cooldown        \* an age no test tells from a greater one
SweepParameters ==
  /\ MaxSignatures \in Nat \ {0} /\ MaxCameras \in Nat \ {0}
  /\ Interval \in Nat /\ Cooldown \in Nat /\ MaxLag \in Nat
  /\ Interval <= Never /\ MaxLag < Cooldown

VARIABLES
  lag,      \* time since the tick began; -1 between ticks
  todo,     \* cameras the tick has not come to
  count,    \* cameras evaluated in the tick
  swept,    \* _last_swept, as ages
  cool,     \* _cooldown, as ages
  hits,     \* matches of the camera in hand, not yet handled
  since     \* history: age of the last incident of each key

vars == <<lag, todo, count, swept, cool, hits, since>>

Grown(age) == IF age < Never THEN age + 1 ELSE age

Init ==
  /\ lag = -1 /\ todo = {} /\ count = 0 /\ hits = {}
  /\ swept = [c \in Cameras |-> Never]
  /\ cool = [k \in Keys |-> Never] /\ since = [k \in Keys |-> Never]

\* Time passes; a tick takes at most MaxLag.
Tick ==
  /\ lag < MaxLag
  /\ lag' = IF lag = -1 THEN lag ELSE lag + 1
  /\ swept' = [c \in Cameras |-> Grown(swept[c])]
  /\ cool' = [k \in Keys |-> Grown(cool[k])]
  /\ since' = [k \in Keys |-> Grown(since[k])]
  /\ UNCHANGED <<todo, count, hits>>
-----------------------------------------------------------------------------
\* tick(): _load, and now_m.
Begin ==
  /\ lag = -1
  /\ lag' = 0 /\ todo' = Cameras /\ count' = 0 /\ hits' = {}
  /\ UNCHANGED <<swept, cool, since>>

\* sigs[: vlm_sweep_max_signatures], the query without an order of its own.
Sought == {s \in Signatures : s <= MaxSignatures}

Due(c) == swept[c] - lag >= Interval
NotDue(c) ==
  /\ c \in todo /\ hits = {} /\ ~Due(c)
  /\ todo' = todo \ {c}
  /\ UNCHANGED <<lag, count, swept, cool, hits, since>>

\* No frame: marked as swept all the same.
NoFrame(c) ==
  /\ c \in todo /\ hits = {} /\ Due(c) /\ count < MaxCameras
  /\ todo' = todo \ {c} /\ swept' = [swept EXCEPT ![c] = lag]
  /\ UNCHANGED <<lag, count, cool, hits, since>>

\* One call for all the signatures; the answer names some of them, or none after an error.
Evaluate(c) ==
  /\ c \in todo /\ hits = {} /\ Due(c) /\ count < MaxCameras
  /\ todo' = todo \ {c} /\ swept' = [swept EXCEPT ![c] = lag]
  /\ count' = count + 1
  /\ hits' \in SUBSET ({c} \X Sought)
  /\ UNCHANGED <<lag, cool, since>>

\* A match: within the cooldown it is passed over, else the cooldown begins and _fire
\* stores an incident and announces it; an error there ends the tick without _prune.
Cools(k) == cool[k] - lag < Cooldown
Passed(k) ==
  /\ k \in hits /\ Cools(k)
  /\ hits' = hits \ {k}
  /\ UNCHANGED <<lag, todo, count, swept, cool, since>>

Fire(k) ==
  /\ k \in hits /\ ~Cools(k)
  /\ cool' = [cool EXCEPT ![k] = lag]
  /\ \/ hits' = hits \ {k} /\ since' = [since EXCEPT ![k] = 0] /\ UNCHANGED <<lag, todo>>
     \/ hits' = {} /\ lag' = -1 /\ todo' = {} /\ UNCHANGED since
  /\ UNCHANGED <<count, swept>>

\* The loop ends, for want of cameras or at the cap; _prune forgets old cooldowns.
ShortHorizon == Cooldown \div 2     \* mutant: entries that still cool are forgotten
Horizon == 2 * Cooldown

End ==
  /\ lag # -1 /\ hits = {} /\ (todo = {} \/ count >= MaxCameras)
  /\ cool' = [k \in Keys |-> IF cool[k] - lag < Horizon THEN cool[k] ELSE Never]
  /\ lag' = -1 /\ todo' = {}
  /\ UNCHANGED <<count, swept, hits, since>>

\* A restart forgets what only the process knows.
Restart ==
  /\ lag' = -1 /\ todo' = {} /\ hits' = {} /\ count' = 0
  /\ swept' = [c \in Cameras |-> Never]
  /\ cool' = [k \in Keys |-> Never] /\ since' = [k \in Keys |-> Never]

Next ==
  \/ Tick \/ Begin \/ End \/ Restart
  \/ \E c \in Cameras : NotDue(c) \/ NoFrame(c) \/ Evaluate(c)
  \/ \E k \in Keys : Passed(k) \/ Fire(k)

Spec == Init /\ [][Next]_vars

-----------------------------------------------------------------------------
\* signature_sweep.py:177-187.  The cooldown runs from the start of a tick, the incident
\* is stored later in it: two of one camera and signature are Cooldown less the length
\* of a tick apart, whatever _prune has forgotten in between.
RefiresAreApart ==
  [][\A k \in Keys : since'[k] = 0 /\ since[k] # 0 => since[k] >= Cooldown - MaxLag]_vars
=============================================================================
