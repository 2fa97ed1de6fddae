---------------------------- MODULE ContextParts ----------------------------
(***************************************************************************)
(* The parts of the context service: tracks and zones (ContextTracking),   *)
(* the firing of alarms and the watchlist.  They share no state here, so   *)
(* one specification explores them side by side: the initial state chooses *)
(* `part`, and only that part takes steps.                                 *)
(***************************************************************************)
EXTENDS ContextTracking

CONSTANTS
  FrameAlarms, Handoffs, Anomalies, Watched, Devices, Classes, Requests,   \* ContextFiring
  Events, Expected, Cooldown, Horizon, GateCooldown, Window,
  MaxTime, MaxCalls, MaxAttempts, MaxFails,
  Persons, Vehicles, Plates, PlateOf, Limit, MaxIndexFails                 \* Watchlist

VARIABLES
  part,
  now, cooldowns, gates, incidents, stats, hits, call, budget, passed, started,
  entries, vectors, indexCalls, known, plateWatch, heard, fails

firing == <<now, cooldowns, gates, incidents, stats, hits, call, budget, passed, started>>
watchlist == <<entries, vectors, indexCalls, known, plateWatch, heard, fails>>

F == INSTANCE ContextFiring

W == INSTANCE Watchlist WITH MaxFails <- MaxIndexFails, rows <- entries, calls <- indexCalls

ASSUME FiringParameters == F!FiringAssumption
ASSUME WatchlistParameters == W!WatchlistAssumption

PartsInit == part \in {"tracking", "firing", "watchlist"} /\ Init /\ F!Init /\ W!Init

PartsNext ==
  \/ part = "tracking" /\ Next /\ UNCHANGED <<part, firing, watchlist>>
  \/ part = "firing" /\ F!Next /\ UNCHANGED <<part, vars, watchlist>>
  \/ part = "watchlist" /\ W!Next /\ UNCHANGED <<part, vars, firing>>

PartsSpec == PartsInit /\ [][PartsNext]_<<part, firing, watchlist, vars>>
-----------------------------------------------------------------------------
\* The properties are those of the modules, where each is stated and explained.

\* ContextFiring: a passed alarm does not pass again within its cooldown.
OncePerCooldown == F!OncePerCooldown
\* ContextFiring: open incidents of one signature are apart.
DuplicatesAreApart == F!DuplicatesAreApart
\* Watchlist: someone watched who is near enough is found.
WatchedIsFound == W!WatchedIsFound
=============================================================================
