--------------------------- MODULE ContextTracking ---------------------------
(***************************************************************************)
(* What the context engine remembers of one camera: the tracks in sight,   *)
(* the zones each is in and since when, and who is in each zone.  It is    *)
(* kept up to date frame by frame; alarms are evaluated after each frame.  *)
(* `log` is what it is compared with: every frame handled since the start. *)
(* A restart of the service loses all of it and is Init again.             *)
(***************************************************************************)
EXTENDS Integers, Sequences

CONSTANTS
  Tracks,      \* track ids of the camera
  Zones,       \* its zones
  Restricted,  \* those of type perimeter, restricted or exclusion
  Stale,       \* track_stale_seconds
  MinAge,      \* min_track_age_seconds
  Confirm,     \* intrusion_confirm_seconds
  Loiter,      \* loiter_seconds
  Gaps,        \* bound: time from one frame to the next
  MaxFrames    \* bound: frames

ASSUME TrackingAssumption ==
  /\ Restricted \subseteq Zones
  /\ {Stale, MinAge, Confirm, Loiter} \subseteq Nat
  /\ Gaps \subseteq Nat
  /\ MaxFrames \in Nat

VARIABLES
  tracks,     \* CameraState.tracks: first, last, zones and zone_enter by track id
  occupants,  \* ZoneState.occupants
  log         \* history: the frames handled, with the zone_hits by track id

Frames == [at : Nat, hits : UNION {[S -> SUBSET Zones] : S \in SUBSET Tracks}]

vars == <<tracks, occupants, log>>

Live == DOMAIN tracks
Now == IF log = <<>> THEN 0 ELSE log[Len(log)].at

Init ==
  /\ tracks = [t \in {} |-> {}]
  /\ occupants = [z \in Zones |-> {}]
  /\ log = <<>>

ZonesOf(t) == IF t \in Live THEN tracks[t].zones ELSE {}

\* zone_enter: set on entry, kept while inside, dropped on leaving.
EveryFrameEnters(t, f) ==    \* mutant
  [z \in f.hits[t] |-> f.at]
EntryKept(t, f) ==           \* mutant
  [z \in f.hits[t] |-> IF t \in Live THEN tracks[t].first ELSE f.at]
Entries(t, f) ==
  [z \in f.hits[t] |-> IF z \in ZonesOf(t) THEN tracks[t].enter[z] ELSE f.at]

Sighted(t, f) ==
  [first |-> IF t \in Live THEN tracks[t].first ELSE f.at,
   last |-> f.at,
   zones |-> f.hits[t],
   enter |-> Entries(t, f)]

Updated(f) ==
  [t \in Live \cup DOMAIN f.hits |-> IF t \in DOMAIN f.hits THEN Sighted(t, f) ELSE tracks[t]]

\* _prune: after the update, so a track that is back in the frame is kept.
PrunedByAge(f) == {t \in DOMAIN Updated(f) : f.at - Updated(f)[t].first > Stale}    \* mutant
Pruned(f) == {t \in DOMAIN Updated(f) : f.at - Updated(f)[t].last > Stale}

PruneForgotten(z, f) ==      \* mutant
  (occupants[z] \cup {t \in DOMAIN f.hits : z \in f.hits[t] \ ZonesOf(t)})
    \ {t \in DOMAIN f.hits : z \in ZonesOf(t) \ f.hits[t]}
Occupants(z, f) ==
  ((occupants[z] \cup {t \in DOMAIN f.hits : z \in f.hits[t] \ ZonesOf(t)})
    \ {t \in DOMAIN f.hits : z \in ZonesOf(t) \ f.hits[t]})
    \ {t \in Pruned(f) : z \in Updated(f)[t].zones}

\* handle, up to the evaluators: no await separates these assignments.
Handle(f) ==
  /\ tracks' = [t \in DOMAIN Updated(f) \ Pruned(f) |-> Updated(f)[t]]
  /\ occupants' = [z \in Zones |-> Occupants(z, f)]

Frame(gap, seen, hits) ==
  LET f == [at |-> Now + gap, hits |-> [t \in seen |-> hits[t]]]
  IN  /\ Len(log) < MaxFrames
      /\ Handle(f)
      /\ log' = Append(log, f)

\* The handler raised after the update and the bus calls it with the same frame.
Retry ==
  /\ log # <<>>
  /\ Handle(log[Len(log)])
  /\ UNCHANGED log

Next ==
  \/ \E gap \in Gaps, seen \in SUBSET Tracks :
       \E hits \in [seen -> SUBSET Zones] : Frame(gap, seen, hits)
  \/ Retry

Spec == Init /\ [][Next]_vars

\* _eval_intrusion and _eval_loitering run over every live track, in the frame or not.
Intrusions ==
  {p \in Live \X Restricted :
     /\ Now - tracks[p[1]].first >= MinAge
     /\ p[2] \in tracks[p[1]].zones
     /\ Now - tracks[p[1]].enter[p[2]] >= Confirm}

Loiterers ==
  {p \in Live \X Zones :
     p[2] \in DOMAIN tracks[p[1]].enter /\ Now - tracks[p[1]].enter[p[2]] >= Loiter}

-----------------------------------------------------------------------------
\* The same notions read off the frames.  Sightings are frame numbers.
Sightings(t) == {k \in DOMAIN log : t \in DOMAIN log[k].hits}
InsideAt(t, z) == {k \in Sightings(t) : z \in log[k].hits[t]}
LastSighting(t, k) == CHOOSE j \in Sightings(t) :
  j < k /\ \A i \in Sightings(t) : i < k => i <= j

\* A frame without the track came more than Stale after its last sighting.
ForgottenAt(t, k) ==
  /\ k \notin Sightings(t)
  /\ \E j \in Sightings(t) : j < k
  /\ log[k].at - log[LastSighting(t, k)].at > Stale

TypeOK ==
  /\ Live \subseteq Tracks
  /\ \A t \in Live :
       /\ tracks[t].first <= tracks[t].last /\ tracks[t].last <= Now
       /\ tracks[t].zones \subseteq Zones
       /\ DOMAIN tracks[t].enter = tracks[t].zones
       /\ \A z \in tracks[t].zones : tracks[t].enter[z] \in tracks[t].first .. tracks[t].last
  /\ occupants \in [Zones -> SUBSET Tracks]
  /\ log \in Seq(Frames)

\* engine.py:616-627, 751-788.  The two records of who is where agree, so the
\* crowd and occupancy alarms count live tracks that are in the zone.
OccupantsAgree == \A z \in Zones : occupants[z] = {t \in Live : z \in tracks[t].zones}

\* engine.py:302-324, 616-627.  A zone holds exactly the tracks whose latest
\* sighting was inside it, unless frames went on without them for too long.
OccupancyIsExact ==
  \A t \in Tracks, z \in Zones :
    t \in occupants[z] <=>
      \E k \in InsideAt(t, z) : \A j \in k .. Len(log) :
        ~ForgottenAt(t, j) /\ (j \in Sightings(t) => j \in InsideAt(t, z))

\* engine.py:650-698.  An intrusion is reported of a track sighted inside the zone
\* at least Confirm ago that has not been sighted outside it since.
IntrusionsWereHeld ==
  \A p \in Intrusions : \E k \in InsideAt(p[1], p[2]) :
    /\ Now - log[k].at >= Confirm
    /\ \A j \in Sightings(p[1]) : j >= k => j \in InsideAt(p[1], p[2])

\* engine.py:650-698.  A track inside a restricted zone in every frame of the
\* confirmation window is reported.
NoIntrusionMissed ==
  \A t \in Tracks, z \in Restricted : \A k \in InsideAt(t, z) :
    /\ Now - log[k].at >= Confirm
    /\ Now - log[k].at >= MinAge
    /\ k .. Len(log) \subseteq InsideAt(t, z)
    => <<t, z>> \in Intrusions

\* engine.py:727-749.  A track reported as loitering was sighted in the zone at least
\* Loiter ago and has not been sighted outside it since: a visit does not count the
\* time of an earlier one.
LoiterersStayed ==
  \A p \in Loiterers : \E k \in InsideAt(p[1], p[2]) :
    /\ Now - log[k].at >= Loiter
    /\ \A j \in Sightings(p[1]) : j >= k => j \in InsideAt(p[1], p[2])

\* engine.py:650-656, "not on the first boundary-crossing frame.  This rejects
\* detection jitter and bbox flicker": one sighting does not make an intrusion.
FlickerRejected ==
  \A p \in Intrusions : \E j, k \in InsideAt(p[1], p[2]) : j # k
=============================================================================
