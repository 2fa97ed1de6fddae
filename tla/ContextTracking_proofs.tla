------------------------ MODULE ContextTracking_proofs ------------------------
(***************************************************************************)
(* Proofs about ContextTracking, for every set of tracks and zones and     *)
(* every sequence of frames.                                               *)
(***************************************************************************)
EXTENDS ContextTracking, TLAPS

\* Both records of who is where are updated by the same hits, whatever frame it is.
LEMMA HandleAgrees ==
  ASSUME OccupantsAgree, NEW f, Handle(f)
  PROVE  OccupantsAgree'
<1> SUFFICES ASSUME NEW z \in Zones, NEW t
             PROVE  t \in occupants'[z] <=> t \in DOMAIN tracks' /\ z \in tracks'[t].zones
  BY DEF OccupantsAgree, Live, Handle
<1>1. t \in occupants[z] <=> z \in ZonesOf(t)
  BY DEF OccupantsAgree, ZonesOf
<1>2. occupants'[z] = Occupants(z, f)
  BY DEF Handle
<1>3. t \in DOMAIN tracks' <=> t \in Live \cup DOMAIN f.hits /\ t \notin Pruned(f)
  BY DEF Handle, Updated
<1>4. t \in DOMAIN tracks' => tracks'[t] = Updated(f)[t]
  BY DEF Handle
<1>5. Pruned(f) \subseteq Live \cup DOMAIN f.hits
  BY DEF Pruned, Updated
<1>6. CASE t \in DOMAIN f.hits
  <2>1. Updated(f)[t].zones = f.hits[t]
    BY <1>6 DEF Updated, Sighted
  <2> QED BY <1>1, <1>2, <1>3, <1>4, <1>6, <2>1 DEF Occupants
<1>7. CASE t \notin DOMAIN f.hits /\ t \in Live
  <2>1. Updated(f)[t].zones = ZonesOf(t)
    BY <1>7 DEF Updated, ZonesOf
  <2> QED BY <1>1, <1>2, <1>3, <1>4, <1>7, <2>1 DEF Occupants
<1>8. CASE t \notin DOMAIN f.hits /\ t \notin Live
  <2>1. ZonesOf(t) = {}
    BY <1>8 DEF ZonesOf
  <2> QED BY <1>1, <1>2, <1>3, <1>5, <1>8, <2>1 DEF Occupants
<1> QED BY <1>6, <1>7, <1>8

\* engine.py:302-324, 616-627.  A zone's occupants are the live tracks that are in it,
\* after every frame: neither a leaving, a pruning nor a retried frame leaves a ghost.
THEOREM ZonesAndTracksAgree == Spec => []OccupantsAgree
<1>1. Init => OccupantsAgree
  BY DEF Init, OccupantsAgree, Live
<1>2. OccupantsAgree /\ [Next]_vars => OccupantsAgree'
  <2> SUFFICES ASSUME OccupantsAgree, [Next]_vars PROVE OccupantsAgree'
    OBVIOUS
  <2>1. CASE Next
    <3>1. PICK f : Handle(f)
      BY <2>1 DEF Next, Frame, Retry
    <3> QED BY <3>1, HandleAgrees
  <2>2. CASE UNCHANGED vars
    BY <2>2 DEF vars, OccupantsAgree, Live
  <2> QED BY <2>1, <2>2
<1> QED BY <1>1, <1>2, PTL DEF Spec

\* Of every zone a track is in, the entry time is that of a sighting inside it
\* after which it was not sighted outside.
EntriesAreSightings ==
  \A t \in Live : \A z \in tracks[t].zones :
    \E k \in InsideAt(t, z) :
      /\ log[k].at = tracks[t].enter[z]
      /\ \A j \in Sightings(t) : j >= k => j \in InsideAt(t, z)

LogOK == log \in Seq(Frames)

LEMMA NowType == ASSUME LogOK PROVE Now \in Nat
<1>1. CASE log = <<>>
  BY <1>1 DEF Now
<1>2. CASE log # <<>>
  <2>1. Len(log) \in DOMAIN log
    BY <1>2 DEF LogOK
  <2>2. log[Len(log)] \in Frames
    BY <2>1 DEF LogOK
  <2> QED BY <1>2, <2>2 DEF Now, Frames
<1> QED BY <1>1, <1>2

LEMMA FrameType ==
  ASSUME LogOK, NEW gap \in Gaps, NEW seen \in SUBSET Tracks,
         NEW hits \in [seen -> SUBSET Zones]
  PROVE  [at |-> Now + gap, hits |-> [t \in seen |-> hits[t]]] \in Frames
<1>1. Now + gap \in Nat
  BY NowType, TrackingAssumption
<1>2. [t \in seen |-> hits[t]] \in UNION {[S -> SUBSET Zones] : S \in SUBSET Tracks}
  BY Zenon
<1> QED BY <1>1, <1>2 DEF Frames

LEMMA Init2 == Init => LogOK /\ EntriesAreSightings
  BY DEF Init, LogOK, EntriesAreSightings, Live

LEMMA EntriesKept ==
  ASSUME LogOK, EntriesAreSightings, [Next]_vars
  PROVE  LogOK' /\ EntriesAreSightings'
<1>1. ASSUME NEW gap \in Gaps, NEW seen \in SUBSET Tracks,
             NEW hits \in [seen -> SUBSET Zones], Frame(gap, seen, hits)
      PROVE  LogOK' /\ EntriesAreSightings'
  <2> DEFINE f == [at |-> Now + gap, hits |-> [t \in seen |-> hits[t]]]
             n == Len(log)
  <2>1. f \in Frames
    BY FrameType
  <2>2. Handle(f) /\ log' = Append(log, f)
    BY <1>1 DEF Frame
  <2> HIDE DEF f
  <2>3. LogOK'
    BY <2>1, <2>2 DEF LogOK
  <2>4. /\ n \in Nat /\ DOMAIN log = 1 .. n /\ DOMAIN log' = 1 .. n + 1
        /\ log'[n + 1] = f
        /\ \A k \in 1 .. n : log'[k] = log[k]
    BY <2>1, <2>2 DEF LogOK
  <2> HIDE DEF n
  <2> SUFFICES ASSUME NEW t \in Live', NEW z \in tracks'[t].zones
               PROVE  \E k \in InsideAt(t, z)' :
                        /\ log'[k].at = tracks'[t].enter[z]
                        /\ \A j \in Sightings(t)' : j >= k => j \in InsideAt(t, z)'
    BY <2>3 DEF EntriesAreSightings
  <2>5. t \in Live \cup DOMAIN f.hits /\ tracks'[t] = Updated(f)[t]
    BY <2>2 DEF Handle, Updated, Live
  <2>6. /\ Sightings(t)' = Sightings(t) \cup {k \in {n + 1} : t \in DOMAIN f.hits}
        /\ InsideAt(t, z)' = InsideAt(t, z) \cup
             {k \in {n + 1} : t \in DOMAIN f.hits /\ z \in f.hits[t]}
    BY <2>4 DEF Sightings, InsideAt
  <2>7. Sightings(t) \subseteq 1 .. n
    BY <2>4 DEF Sightings
  <2>8. CASE t \in DOMAIN f.hits
    <3>1. tracks'[t] = Sighted(t, f)
      BY <2>5, <2>8 DEF Updated
    <3>2. z \in f.hits[t] /\ tracks'[t].enter = Entries(t, f)
      BY <3>1 DEF Sighted
    <3>3. CASE z \in ZonesOf(t)
      <4>1. t \in Live /\ z \in tracks[t].zones
        BY <3>3 DEF ZonesOf
      <4>2. PICK k \in InsideAt(t, z) :
              /\ log[k].at = tracks[t].enter[z]
              /\ \A j \in Sightings(t) : j >= k => j \in InsideAt(t, z)
        BY <4>1 DEF EntriesAreSightings
      <4>3. tracks'[t].enter[z] = tracks[t].enter[z]
        BY <3>2, <3>3 DEF Entries
      <4>4. k \in 1 .. n
        BY <2>7 DEF InsideAt
      <4>5. log'[k].at = tracks'[t].enter[z]
        BY <2>4, <4>2, <4>3, <4>4
      <4> QED BY <2>6, <2>8, <3>2, <4>2, <4>5
    <3>4. CASE z \notin ZonesOf(t)
      <4>1. tracks'[t].enter[z] = f.at
        BY <3>2, <3>4 DEF Entries
      <4>2. n + 1 \in InsideAt(t, z)' /\ log'[n + 1].at = tracks'[t].enter[z]
        BY <2>4, <2>6, <2>8, <3>2, <4>1
      <4>3. \A j \in Sightings(t)' : j >= n + 1 => j = n + 1
        BY <2>4, <2>6, <2>7
      <4> QED BY <4>2, <4>3
    <3> QED BY <3>3, <3>4
  <2>9. CASE t \notin DOMAIN f.hits
    <3>1. t \in Live /\ tracks'[t] = tracks[t]
      BY <2>5, <2>9 DEF Updated
    <3>2. PICK k \in InsideAt(t, z) :
            /\ log[k].at = tracks[t].enter[z]
            /\ \A j \in Sightings(t) : j >= k => j \in InsideAt(t, z)
      BY <3>1 DEF EntriesAreSightings
    <3>3. k \in 1 .. n
      BY <2>7 DEF InsideAt
    <3> QED BY <2>4, <2>6, <2>9, <3>1, <3>2, <3>3
  <2> QED BY <2>8, <2>9
<1>2. ASSUME Retry PROVE LogOK' /\ EntriesAreSightings'
  <2> DEFINE n == Len(log)
             f == log[n]
  <2>1. Handle(f) /\ log' = log
    BY <1>2 DEF Retry
  <2>2. n \in DOMAIN log /\ DOMAIN log = 1 .. n /\ n \in Nat
    BY <1>2 DEF Retry, LogOK
  <2> SUFFICES ASSUME NEW t \in Live', NEW z \in tracks'[t].zones
               PROVE  \E k \in InsideAt(t, z) :
                        /\ log[k].at = tracks'[t].enter[z]
                        /\ \A j \in Sightings(t) : j >= k => j \in InsideAt(t, z)
    BY <2>1 DEF EntriesAreSightings, LogOK, Sightings, InsideAt
  <2>3. t \in Live \cup DOMAIN f.hits /\ tracks'[t] = Updated(f)[t]
    BY <2>1 DEF Handle, Updated, Live
  <2>4. CASE t \in DOMAIN f.hits /\ z \notin ZonesOf(t)
    <3>1. tracks'[t] = Sighted(t, f)
      BY <2>3, <2>4 DEF Updated
    <3>2. z \in f.hits[t] /\ tracks'[t].enter[z] = f.at
      BY <2>4, <3>1 DEF Sighted, Entries
    <3>3. n \in InsideAt(t, z)
      BY <2>2, <2>4, <3>2 DEF InsideAt, Sightings
    <3>4. \A j \in Sightings(t) : j >= n => j = n
      BY <2>2 DEF Sightings
    <3> QED BY <3>2, <3>3, <3>4
  <2>5. CASE ~(t \in DOMAIN f.hits /\ z \notin ZonesOf(t))
    <3>1. t \in Live /\ z \in tracks[t].zones /\ tracks'[t].enter[z] = tracks[t].enter[z]
      <4>1. CASE t \in DOMAIN f.hits
        <5>1. tracks'[t] = Sighted(t, f) /\ z \in f.hits[t]
          BY <2>3, <4>1 DEF Updated, Sighted
        <5> QED BY <2>5, <4>1, <5>1 DEF Sighted, Entries, ZonesOf
      <4>2. CASE t \notin DOMAIN f.hits
        BY <2>3, <4>2 DEF Updated
      <4> QED BY <4>1, <4>2
    <3> QED BY <3>1 DEF EntriesAreSightings
  <2> QED BY <2>4, <2>5
<1>3. ASSUME UNCHANGED vars PROVE LogOK' /\ EntriesAreSightings'
  BY <1>3 DEF vars, LogOK, EntriesAreSightings, Live, Sightings, InsideAt
<1> QED BY <1>1, <1>2, <1>3 DEF Next

\* engine.py:650-698.  Whatever frames arrive, an intrusion is reported only of a track
\* that was sighted inside the zone at least the confirmation window ago and was not
\* sighted outside it since.
THEOREM IntrusionsHeld == Spec => []IntrusionsWereHeld
<1>1. Init => LogOK /\ EntriesAreSightings
  BY Init2
<1>2. LogOK /\ EntriesAreSightings /\ [Next]_vars => (LogOK /\ EntriesAreSightings)'
  BY EntriesKept
<1>3. EntriesAreSightings => IntrusionsWereHeld
  <2> SUFFICES ASSUME EntriesAreSightings, NEW p \in Intrusions
               PROVE  \E k \in InsideAt(p[1], p[2]) :
                        /\ Now - log[k].at >= Confirm
                        /\ \A j \in Sightings(p[1]) : j >= k => j \in InsideAt(p[1], p[2])
    BY DEF IntrusionsWereHeld
  <2>1. /\ p[1] \in Live /\ p[2] \in tracks[p[1]].zones
        /\ Now - tracks[p[1]].enter[p[2]] >= Confirm
    BY DEF Intrusions
  <2>2. PICK k \in InsideAt(p[1], p[2]) :
          /\ log[k].at = tracks[p[1]].enter[p[2]]
          /\ \A j \in Sightings(p[1]) : j >= k => j \in InsideAt(p[1], p[2])
    BY <2>1 DEF EntriesAreSightings
  <2> QED BY <2>1, <2>2
<1> QED BY <1>1, <1>2, <1>3, PTL DEF Spec

-----------------------------------------------------------------------------
\* What one frame does to one track.
LEMMA TrackStep ==
  ASSUME NEW f, f.at \in Nat, Handle(f), NEW t
  PROVE  /\ t \in DOMAIN f.hits => t \in Live' /\ tracks'[t] = Sighted(t, f)
         /\ t \notin DOMAIN f.hits =>
              /\ t \in Live' <=> t \in Live /\ ~(f.at - tracks[t].last > Stale)
              /\ t \in Live' => tracks'[t] = tracks[t]
<1>1. /\ t \in Live' <=> t \in Live \cup DOMAIN f.hits /\ t \notin Pruned(f)
      /\ t \in Live' => tracks'[t] = Updated(f)[t]
  BY DEF Handle, Updated, Live
<1>2. CASE t \in DOMAIN f.hits
  <2>1. Updated(f)[t] = Sighted(t, f)
    BY <1>2 DEF Updated
  <2>2. Sighted(t, f).last = f.at
    BY DEF Sighted
  <2>3. t \notin Pruned(f)
    BY <2>1, <2>2, TrackingAssumption DEF Pruned
  <2> QED BY <1>1, <1>2, <2>1, <2>3
<1>3. CASE t \notin DOMAIN f.hits
  <2>1. t \in Live => Updated(f)[t] = tracks[t]
    BY <1>3 DEF Updated
  <2>2. t \in Live => (t \in Pruned(f) <=> f.at - tracks[t].last > Stale)
    BY <2>1 DEF Pruned, Updated
  <2> QED BY <1>1, <1>3, <2>1, <2>2
<1> QED BY <1>2, <1>3

\* A step handles a frame: a new one, or the last one again.
LEMMA StepCases ==
  ASSUME LogOK, Next
  PROVE  \E f \in Frames :
           /\ Handle(f)
           /\ \/ log' = Append(log, f) /\ f.at >= Now
              \/ log' = log /\ log # <<>> /\ f = log[Len(log)]
<1>1. ASSUME NEW gap \in Gaps, NEW seen \in SUBSET Tracks,
             NEW hits \in [seen -> SUBSET Zones], Frame(gap, seen, hits)
      PROVE  \E f \in Frames : Handle(f) /\ log' = Append(log, f) /\ f.at >= Now
  <2> DEFINE f == [at |-> Now + gap, hits |-> [t \in seen |-> hits[t]]]
  <2>1. f \in Frames
    BY FrameType
  <2>2. f.at >= Now
    BY NowType, TrackingAssumption
  <2>3. Handle(f) /\ log' = Append(log, f)
    BY <1>1 DEF Frame
  <2> HIDE DEF f
  <2> QED BY <2>1, <2>2, <2>3
<1>2. CASE Retry
  <2>1. log[Len(log)] \in Frames
    BY <1>2 DEF Retry, LogOK
  <2> QED BY <1>2, <2>1 DEF Retry
<1> QED BY <1>1, <1>2 DEF Next

\* What a new frame adds to the history.
LEMMA Appended ==
  ASSUME LogOK, NEW f \in Frames, log' = Append(log, f)
  PROVE  /\ LogOK'
         /\ Len(log) \in Nat /\ Len(log') = Len(log) + 1
         /\ Now' = f.at
         /\ log'[Len(log) + 1] = f
         /\ \A k \in 1 .. Len(log) : log'[k] = log[k]
         /\ \A t : /\ Sightings(t) \subseteq 1 .. Len(log)
                   /\ Sightings(t)' = Sightings(t) \cup
                        {k \in {Len(log) + 1} : t \in DOMAIN f.hits}
         /\ \A t, z : InsideAt(t, z)' = InsideAt(t, z) \cup
              {k \in {Len(log) + 1} : t \in DOMAIN f.hits /\ z \in f.hits[t]}
<1> DEFINE n == Len(log)
<1>1. LogOK'
  BY DEF LogOK
<1>2. /\ n \in Nat /\ DOMAIN log = 1 .. n /\ DOMAIN log' = 1 .. n + 1
      /\ Len(log') = n + 1 /\ log' # <<>>
      /\ log'[n + 1] = f
      /\ \A k \in 1 .. n : log'[k] = log[k]
  BY DEF LogOK
<1> HIDE DEF n
<1>3. Now' = f.at
  BY <1>2 DEF Now
<1>4. ASSUME NEW t
      PROVE  /\ Sightings(t) \subseteq 1 .. n
             /\ Sightings(t)' = Sightings(t) \cup {k \in {n + 1} : t \in DOMAIN f.hits}
  BY <1>2 DEF Sightings
<1>5. ASSUME NEW t, NEW z
      PROVE  InsideAt(t, z)' = InsideAt(t, z) \cup
               {k \in {n + 1} : t \in DOMAIN f.hits /\ z \in f.hits[t]}
  BY <1>2, <1>4 DEF InsideAt
<1> QED BY <1>1, <1>2, <1>3, <1>4, <1>5 DEF n

LEMMA LogFacts ==
  ASSUME LogOK
  PROVE  /\ Len(log) \in Nat
         /\ \A t : Sightings(t) \subseteq 1 .. Len(log)
         /\ \A t, z : InsideAt(t, z) \subseteq Sightings(t)
         /\ \A k \in 1 .. Len(log) : log[k].at \in Nat
         /\ log # <<>> => Len(log) \in 1 .. Len(log) /\ Now = log[Len(log)].at
         /\ log = <<>> => Len(log) = 0
<1>1. Len(log) \in Nat /\ DOMAIN log = 1 .. Len(log)
  BY DEF LogOK
<1>2. \A k \in 1 .. Len(log) : log[k] \in Frames
  BY <1>1 DEF LogOK
<1>3. \A k \in 1 .. Len(log) : log[k].at \in Nat
  BY <1>2 DEF Frames
<1>4. log # <<>> => Len(log) \in 1 .. Len(log)
  BY DEF LogOK
<1> QED BY <1>1, <1>3, <1>4 DEF Sightings, InsideAt, Now

-----------------------------------------------------------------------------
\* The engine knows of a track what its last sighting said, until frames have gone on
\* without it for too long.
Latest(t, m) == m \in Sightings(t) /\ \A j \in Sightings(t) : j <= m
Fresh(m) == \A j \in m .. Len(log) : log[j].at - log[m].at <= Stale

KnowsLatest ==
  \A t :
    /\ Sightings(t) # {} => \E m : Latest(t, m)
    /\ \A m : Latest(t, m) =>
         /\ t \in Live <=> Fresh(m)
         /\ t \in Live => tracks[t].last = log[m].at /\ tracks[t].zones = log[m].hits[t]
    /\ t \in Live => Sightings(t) # {}

LEMMA LatestIsOne == \A t, m, k : LogOK /\ Latest(t, m) /\ Latest(t, k) => m = k
<1> SUFFICES ASSUME NEW t, NEW m, NEW k, LogOK, Latest(t, m), Latest(t, k) PROVE m = k
  OBVIOUS
<1>1. m \in Nat /\ k \in Nat /\ m <= k /\ k <= m
  BY LogFacts DEF Latest
<1> QED BY <1>1

LEMMA KnownAfterFrame ==
  ASSUME LogOK, KnowsLatest, NEW f \in Frames, Handle(f), log' = Append(log, f), NEW t
  PROVE  /\ Sightings(t)' # {} => \E m : Latest(t, m)'
         /\ \A m : Latest(t, m)' =>
              /\ t \in Live' <=> Fresh(m)'
              /\ t \in Live' => tracks'[t].last = log'[m].at /\ tracks'[t].zones = log'[m].hits[t]
         /\ t \in Live' => Sightings(t)' # {}
<1> DEFINE n == Len(log)
<1>1. /\ n \in Nat /\ Len(log') = n + 1 /\ log'[n + 1] = f /\ f.at \in Nat
      /\ \A k \in 1 .. n : log'[k] = log[k] /\ log[k].at \in Nat
      /\ Sightings(t) \subseteq 1 .. n
      /\ Sightings(t)' = Sightings(t) \cup {k \in {n + 1} : t \in DOMAIN f.hits}
  BY Appended, LogFacts DEF Frames
<1>2. /\ t \in DOMAIN f.hits => t \in Live' /\ tracks'[t] = Sighted(t, f)
      /\ t \notin DOMAIN f.hits =>
           /\ t \in Live' <=> t \in Live /\ ~(f.at - tracks[t].last > Stale)
           /\ t \in Live' => tracks'[t] = tracks[t]
  BY <1>1, TrackStep
<1> HIDE DEF n
<1>3. CASE t \in DOMAIN f.hits
  <2>1. \A m : m = n + 1 => Latest(t, m)'
    BY <1>1, <1>3 DEF Latest
  <2>2. \A m : Latest(t, m)' => m = n + 1
    BY <1>1, <1>3 DEF Latest
  <2>3. \A j \in n + 1 .. n + 1 : log'[j].at - log'[n + 1].at <= Stale
    BY <1>1, TrackingAssumption
  <2>4. \A m : m = n + 1 => Fresh(m)'
    BY <1>1, <2>3 DEF Fresh
  <2>5. tracks'[t].last = f.at /\ tracks'[t].zones = f.hits[t]
    BY <1>2, <1>3 DEF Sighted
  <2>6. Sightings(t)' # {}
    BY <1>1, <1>3
  <2> QED BY <1>1, <1>2, <1>3, <2>1, <2>2, <2>4, <2>5, <2>6
<1>4. CASE t \notin DOMAIN f.hits
  <2>1. Sightings(t)' = Sightings(t)
    BY <1>1, <1>4
  <2>2. \A m : Latest(t, m)' <=> Latest(t, m)
    BY <2>1 DEF Latest
  <2>3. \A m : Latest(t, m) => m \in 1 .. n
    BY <1>1 DEF Latest
  <2>4. ASSUME NEW m \in 1 .. n
        PROVE  Fresh(m)' <=> Fresh(m) /\ f.at - log[m].at <= Stale
    <3>1. \A j : j \in m .. n + 1 <=> j \in m .. n \/ j = n + 1
      BY <1>1
    <3>2. \A j \in m .. n : j \in 1 .. n
      BY <1>1
    <3> QED BY <1>1, <3>1, <3>2 DEF Fresh, n
  <2>5. ASSUME NEW m, Latest(t, m)
        PROVE  /\ t \in Live' <=> Fresh(m)'
               /\ t \in Live' => tracks'[t].last = log'[m].at
                                 /\ tracks'[t].zones = log'[m].hits[t]
    <3>1. m \in 1 .. n /\ log'[m] = log[m]
      BY <1>1, <2>3, <2>5
    <3>2. t \in Live => tracks[t].last = log[m].at /\ tracks[t].zones = log[m].hits[t]
      BY <2>5 DEF KnowsLatest
    <3>3. t \in Live <=> Fresh(m)
      BY <2>5 DEF KnowsLatest
    <3>4. t \in Live' <=> Fresh(m)'
      BY <1>1, <1>2, <1>4, <2>4, <3>1, <3>2, <3>3, TrackingAssumption
    <3> QED BY <1>2, <1>4, <3>1, <3>2, <3>4
  <2>6. Sightings(t) # {} => \E m : Latest(t, m)
    BY DEF KnowsLatest
  <2>7. t \in Live' => Sightings(t) # {}
    BY <1>2, <1>4 DEF KnowsLatest
  <2> QED BY <2>1, <2>2, <2>5, <2>6, <2>7
<1> QED BY <1>3, <1>4

LEMMA KnownAfterRetry ==
  ASSUME LogOK, KnowsLatest, log # <<>>, Handle(log[Len(log)]), log' = log, NEW t
  PROVE  /\ \A m : Latest(t, m) =>
              /\ t \in Live' <=> Fresh(m)
              /\ t \in Live' => tracks'[t].last = log[m].at /\ tracks'[t].zones = log[m].hits[t]
         /\ t \in Live' => Sightings(t) # {}
<1> DEFINE n == Len(log)
           f == log[n]
<1>1. /\ n \in 1 .. n /\ n \in Nat /\ f.at \in Nat
      /\ Sightings(t) \subseteq 1 .. n
      /\ \A k \in 1 .. n : log[k].at \in Nat
      /\ DOMAIN log = 1 .. n
  BY LogFacts DEF LogOK
<1>2. /\ t \in DOMAIN f.hits => t \in Live' /\ tracks'[t] = Sighted(t, f)
      /\ t \notin DOMAIN f.hits =>
           /\ t \in Live' <=> t \in Live /\ ~(f.at - tracks[t].last > Stale)
           /\ t \in Live' => tracks'[t] = tracks[t]
  BY <1>1, TrackStep
<1>3. t \in DOMAIN f.hits <=> n \in Sightings(t)
  BY <1>1 DEF Sightings
<1>4. CASE t \in DOMAIN f.hits
  <2>1. \A m : Latest(t, m) => m = n
    BY <1>1, <1>3, <1>4 DEF Latest
  <2>2. Fresh(n)
    <3>1. \A k \in Nat : \A j \in k .. k : j = k
      OBVIOUS
    <3>2. f.at - f.at <= Stale
      BY <1>1, TrackingAssumption
    <3> QED BY <1>1, <3>1, <3>2 DEF Fresh
  <2>3. tracks'[t].last = f.at /\ tracks'[t].zones = f.hits[t]
    BY <1>2, <1>4 DEF Sighted
  <2> QED BY <1>2, <1>3, <1>4, <2>1, <2>2, <2>3
<1>5. CASE t \notin DOMAIN f.hits
  <2>1. t \in Live => Sightings(t) # {}
    BY DEF KnowsLatest
  <2>2. ASSUME NEW m, Latest(t, m) PROVE t \in Live' <=> t \in Live
    <3>1. m \in 1 .. n /\ n \in m .. n
      BY <1>1, <2>2 DEF Latest
    <3>2. t \in Live => Fresh(m) /\ tracks[t].last = log[m].at
      BY <2>2 DEF KnowsLatest
    <3>3. t \in Live => f.at - tracks[t].last <= Stale
      BY <3>1, <3>2 DEF Fresh
    <3>4. t \in Live => ~(f.at - tracks[t].last > Stale)
      BY <1>1, <3>1, <3>2, <3>3, TrackingAssumption
    <3> QED BY <1>2, <1>5, <3>4
  <2>3. ASSUME NEW m, Latest(t, m)
        PROVE  /\ t \in Live' <=> Fresh(m)
               /\ t \in Live' => tracks'[t].last = log[m].at /\ tracks'[t].zones = log[m].hits[t]
    BY <1>2, <1>5, <2>2, <2>3 DEF KnowsLatest
  <2> QED BY <1>2, <1>5, <2>1, <2>3
<1> QED BY <1>4, <1>5

LEMMA KnownKept ==
  ASSUME LogOK, KnowsLatest, [Next]_vars
  PROVE  KnowsLatest'
<1>1. CASE UNCHANGED vars
  BY <1>1 DEF vars, KnowsLatest, Latest, Fresh, Live, Sightings
<1>2. CASE Next
  <2>1. PICK f \in Frames :
           /\ Handle(f)
           /\ \/ log' = Append(log, f) /\ f.at >= Now
              \/ log' = log /\ log # <<>> /\ f = log[Len(log)]
    BY <1>2, StepCases
  <2>2. CASE log' = Append(log, f)
    BY <2>1, <2>2, KnownAfterFrame DEF KnowsLatest
  <2>3. CASE log' = log /\ log # <<>> /\ f = log[Len(log)]
    <3>1. \A t : /\ Sightings(t)' = Sightings(t)
                 /\ \A m : (Latest(t, m)' <=> Latest(t, m)) /\ (Fresh(m)' <=> Fresh(m))
      BY <2>3 DEF Sightings, Latest, Fresh
    <3>2. \A t : Sightings(t) # {} => \E m : Latest(t, m)
      BY DEF KnowsLatest
    <3> QED BY <2>1, <2>3, <3>1, <3>2, KnownAfterRetry DEF KnowsLatest
  <2> QED BY <2>1, <2>2, <2>3
<1> QED BY <1>1, <1>2

LEMMA ExactFromKnown ==
  ASSUME LogOK, OccupantsAgree, KnowsLatest
  PROVE  OccupancyIsExact
<1> DEFINE n == Len(log)
<1> SUFFICES ASSUME NEW t \in Tracks, NEW z \in Zones
             PROVE  t \in occupants[z] <=>
                      \E k \in InsideAt(t, z) : \A j \in k .. n :
                        ~ForgottenAt(t, j) /\ (j \in Sightings(t) => j \in InsideAt(t, z))
  BY DEF OccupancyIsExact
<1>1. t \in occupants[z] <=> t \in Live /\ z \in tracks[t].zones
  BY DEF OccupantsAgree
<1>2. /\ n \in Nat /\ Sightings(t) \subseteq 1 .. n /\ InsideAt(t, z) \subseteq Sightings(t)
      /\ \A k \in 1 .. n : log[k].at \in Nat
  BY LogFacts
<1>3. ASSUME NEW m, Latest(t, m), NEW j \in m .. n
      PROVE  /\ j \in 1 .. n
             /\ ForgottenAt(t, j) <=> log[j].at - log[m].at > Stale
  <2>1. m \in 1 .. n /\ j \in 1 .. n
    BY <1>2, <1>3 DEF Latest
  <2>2. CASE j = m
    BY <1>2, <1>3, <2>1, <2>2, TrackingAssumption DEF Latest, ForgottenAt
  <2>3. CASE j # m
    <3>1. m < j /\ j \notin Sightings(t)
      BY <1>2, <1>3, <2>1, <2>3 DEF Latest
    <3>2. \A i : i \in Sightings(t) /\ i < j /\ (\A l \in Sightings(t) : l < j => l <= i) => i = m
      BY <1>2, <1>3, <3>1 DEF Latest
    <3>3. m \in Sightings(t) /\ \A l \in Sightings(t) : l < j => l <= m
      BY <1>3 DEF Latest
    <3>4. LastSighting(t, j) = m
      BY <3>1, <3>2, <3>3 DEF LastSighting
    <3> QED BY <2>1, <3>1, <3>3, <3>4 DEF ForgottenAt
  <2> QED BY <2>1, <2>2, <2>3
<1>4. ASSUME t \in Live, z \in tracks[t].zones
      PROVE  \E k \in InsideAt(t, z) : \A j \in k .. n :
               ~ForgottenAt(t, j) /\ (j \in Sightings(t) => j \in InsideAt(t, z))
  <2>1. PICK m : Latest(t, m)
    BY <1>4 DEF KnowsLatest
  <2>2. Fresh(m) /\ z \in log[m].hits[t]
    BY <1>4, <2>1 DEF KnowsLatest
  <2>3. m \in InsideAt(t, z) /\ m \in 1 .. n
    BY <1>2, <2>1, <2>2 DEF Latest, InsideAt
  <2>4. ASSUME NEW j \in m .. n
        PROVE  ~ForgottenAt(t, j) /\ (j \in Sightings(t) => j \in InsideAt(t, z))
    <3>1. log[j].at - log[m].at <= Stale
      BY <2>2 DEF Fresh
    <3>2. j \in 1 .. n /\ (ForgottenAt(t, j) <=> log[j].at - log[m].at > Stale)
      BY <1>3, <2>1
    <3>3. ~ForgottenAt(t, j)
      BY <1>2, <2>3, <3>1, <3>2, TrackingAssumption
    <3>4. j \in Sightings(t) => j = m
      BY <1>2, <2>1, <2>3 DEF Latest
    <3> QED BY <2>3, <3>3, <3>4
  <2> QED BY <2>3, <2>4
<1>5. ASSUME NEW k \in InsideAt(t, z),
             \A j \in k .. n :
               ~ForgottenAt(t, j) /\ (j \in Sightings(t) => j \in InsideAt(t, z))
      PROVE  t \in Live /\ z \in tracks[t].zones
  <2>1. PICK m : Latest(t, m)
    BY <1>2 DEF KnowsLatest
  <2>2. k \in 1 .. n /\ m \in k .. n /\ m \in Sightings(t)
    BY <1>2, <2>1 DEF Latest
  <2>3. m \in InsideAt(t, z)
    BY <1>5, <2>2
  <2>4. ASSUME NEW j \in m .. n PROVE log[j].at - log[m].at <= Stale
    <3>1. j \in 1 .. n /\ (ForgottenAt(t, j) <=> log[j].at - log[m].at > Stale)
      BY <1>3, <2>1
    <3>2. ~ForgottenAt(t, j)
      BY <1>2, <1>5, <2>2
    <3> QED BY <1>2, <2>2, <3>1, <3>2, TrackingAssumption
  <2>5. t \in Live /\ tracks[t].zones = log[m].hits[t]
    BY <2>1, <2>4 DEF KnowsLatest, Fresh
  <2> QED BY <2>3, <2>5 DEF InsideAt
<1> QED BY <1>1, <1>4, <1>5

LEMMA Inductive ==
  Spec => [](LogOK /\ EntriesAreSightings /\ OccupantsAgree /\ KnowsLatest)
<1>1. Init => LogOK /\ EntriesAreSightings /\ KnowsLatest
  <2>1. Init => \A t : Sightings(t) = {} /\ t \notin Live
    BY DEF Init, Sightings, Live
  <2> QED BY <2>1, Init2 DEF KnowsLatest, Latest
<1>2. LogOK /\ EntriesAreSightings /\ KnowsLatest /\ [Next]_vars
        => (LogOK /\ EntriesAreSightings /\ KnowsLatest)'
  BY EntriesKept, KnownKept
<1> QED BY <1>1, <1>2, ZonesAndTracksAgree, PTL DEF Spec

\* engine.py:302-324, 616-627.  Whatever frames come, and however often one is handled
\* again, a zone holds exactly the tracks whose latest sighting was inside it and whom
\* the engine has had no reason to forget since.
THEOREM OccupancyFollowsFrames == Spec => []OccupancyIsExact
BY Inductive, ExactFromKnown, PTL

-----------------------------------------------------------------------------
\* Of a track that has been inside a zone in every frame since the k-th, the engine
\* has had the entry since that frame at the latest.
Held ==
  \A t, z : \A k \in InsideAt(t, z) :
    k .. Len(log) \subseteq InsideAt(t, z) =>
      /\ t \in Live /\ z \in tracks[t].zones
      /\ tracks[t].first <= log[k].at /\ tracks[t].enter[z] <= log[k].at

Past ==
  \A t \in Live :
    /\ tracks[t].first \in Nat /\ tracks[t].first <= Now
    /\ \A z \in tracks[t].zones : tracks[t].enter[z] \in Nat /\ tracks[t].enter[z] <= Now

\* One frame f, sighting t in z: the entry is kept or is f's.
LEMMA SightedSince ==
  ASSUME Past, Now \in Nat, NEW f, f.at \in Nat, f.at >= Now, NEW t, NEW z \in f.hits[t]
  PROVE  /\ Sighted(t, f).first \in Nat /\ Sighted(t, f).first <= f.at
         /\ Sighted(t, f).enter[z] \in Nat /\ Sighted(t, f).enter[z] <= f.at
         /\ t \in Live => Sighted(t, f).first = tracks[t].first
         /\ t \in Live /\ z \in tracks[t].zones => Sighted(t, f).enter[z] = tracks[t].enter[z]
<1>1. Sighted(t, f).first = IF t \in Live THEN tracks[t].first ELSE f.at
  BY DEF Sighted
<1>2. Sighted(t, f).enter[z] = IF z \in ZonesOf(t) THEN tracks[t].enter[z] ELSE f.at
  BY DEF Sighted, Entries
<1>3. z \in ZonesOf(t) <=> t \in Live /\ z \in tracks[t].zones
  BY DEF ZonesOf
<1>4. t \in Live => tracks[t].first \in Nat /\ tracks[t].first <= f.at
  BY DEF Past
<1>5. t \in Live /\ z \in tracks[t].zones =>
        tracks[t].enter[z] \in Nat /\ tracks[t].enter[z] <= f.at
  BY DEF Past
<1> QED BY <1>1, <1>2, <1>3, <1>4, <1>5

LEMMA PastKept == ASSUME LogOK, Past, [Next]_vars PROVE Past'
<1>1. CASE UNCHANGED vars
  BY <1>1 DEF vars, Past, Live, Now
<1>2. CASE Next
  <2>1. PICK f \in Frames :
           /\ Handle(f)
           /\ \/ log' = Append(log, f) /\ f.at >= Now
              \/ log' = log /\ log # <<>> /\ f = log[Len(log)]
    BY <1>2, StepCases
  <2>2. Now \in Nat /\ f.at \in Nat
    BY NowType DEF Frames
  <2>3. Now' = f.at /\ f.at >= Now
    <3>1. CASE log' = Append(log, f)
      BY <2>1, <2>2, <3>1, Appended, LogFacts DEF Now
    <3>2. CASE log' = log /\ log # <<>> /\ f = log[Len(log)]
      BY <2>2, <3>2, LogFacts DEF Now
    <3> QED BY <2>1, <3>1, <3>2
  <2> SUFFICES ASSUME NEW t \in Live'
               PROVE  /\ tracks'[t].first \in Nat /\ tracks'[t].first <= f.at
                      /\ \A z \in tracks'[t].zones :
                           tracks'[t].enter[z] \in Nat /\ tracks'[t].enter[z] <= f.at
    BY <2>3 DEF Past
  <2>4. CASE t \in DOMAIN f.hits
    <3>1. tracks'[t] = Sighted(t, f) /\ tracks'[t].zones = f.hits[t]
      BY <2>1, <2>2, <2>4, TrackStep DEF Sighted
    <3>2. tracks'[t].first \in Nat /\ tracks'[t].first <= f.at
      BY <2>2, <2>3, <3>1 DEF Past, Sighted
    <3> QED BY <2>2, <2>3, <3>1, <3>2, SightedSince
  <2>5. CASE t \notin DOMAIN f.hits
    <3>1. t \in Live /\ tracks'[t] = tracks[t]
      BY <2>1, <2>2, <2>5, TrackStep
    <3> QED BY <2>2, <2>3, <3>1 DEF Past
  <2> QED BY <2>4, <2>5
<1> QED BY <1>1, <1>2

LEMMA HeldKept == ASSUME LogOK, Past, Held, [Next]_vars PROVE Held'
<1>1. CASE UNCHANGED vars
  BY <1>1 DEF vars, Held, Live, InsideAt, Sightings
<1>2. CASE Next
  <2> DEFINE n == Len(log)
  <2>1. PICK f \in Frames :
           /\ Handle(f)
           /\ \/ log' = Append(log, f) /\ f.at >= Now
              \/ log' = log /\ log # <<>> /\ f = log[Len(log)]
    BY <1>2, StepCases
  <2>2. Now \in Nat /\ f.at \in Nat
    BY NowType DEF Frames
  <2>3. n \in Nat /\ \A t, z : InsideAt(t, z) \subseteq 1 .. n
    BY LogFacts
  <2> HIDE DEF n
  <2>4. ASSUME NEW t, NEW z, NEW k, t \in DOMAIN f.hits, z \in f.hits[t], f.at >= Now,
               t \in Live /\ z \in tracks[t].zones,
               tracks[t].first <= log[k].at, tracks[t].enter[z] <= log[k].at
        PROVE  /\ t \in Live' /\ z \in tracks'[t].zones
               /\ tracks'[t].first <= log[k].at /\ tracks'[t].enter[z] <= log[k].at
    <3>1. t \in Live' /\ tracks'[t] = Sighted(t, f)
      BY <2>1, <2>2, <2>4, TrackStep
    <3>2. tracks'[t].zones = f.hits[t]
      BY <3>1 DEF Sighted
    <3> QED BY <2>2, <2>4, <3>1, <3>2, SightedSince
  <2>5. CASE log' = Append(log, f) /\ f.at >= Now
    <3> SUFFICES ASSUME NEW t, NEW z, NEW k \in InsideAt(t, z)',
                        k .. n + 1 \subseteq InsideAt(t, z)'
                 PROVE  /\ t \in Live' /\ z \in tracks'[t].zones
                        /\ tracks'[t].first <= log'[k].at /\ tracks'[t].enter[z] <= log'[k].at
      BY <2>1, <2>5, Appended DEF Held, n
    <3>1. InsideAt(t, z)' = InsideAt(t, z) \cup
            {j \in {n + 1} : t \in DOMAIN f.hits /\ z \in f.hits[t]}
      BY <2>5, Appended DEF n
    <3>2. k \in 1 .. n + 1
      BY <2>3, <3>1
    <3>3. n + 1 \in k .. n + 1
      BY <2>3, <3>2
    <3>4. n + 1 \notin InsideAt(t, z)
      BY <2>3
    <3>5. t \in DOMAIN f.hits /\ z \in f.hits[t]
      BY <3>1, <3>3, <3>4
    <3>6. CASE k = n + 1
      <4>1. log'[k].at = f.at
        BY <2>5, <3>6, Appended DEF n
      <4>2. t \in Live' /\ tracks'[t] = Sighted(t, f)
        BY <2>1, <2>2, <3>5, TrackStep
      <4>3. tracks'[t].zones = f.hits[t]
        BY <4>2 DEF Sighted
      <4> QED BY <2>2, <2>5, <3>5, <4>1, <4>2, <4>3, SightedSince
    <3>7. CASE k \in 1 .. n
      <4>1. k \in InsideAt(t, z) /\ k .. n \subseteq InsideAt(t, z)
        BY <2>3, <3>1, <3>7
      <4>2. /\ t \in Live /\ z \in tracks[t].zones
            /\ tracks[t].first <= log[k].at /\ tracks[t].enter[z] <= log[k].at
        BY <4>1 DEF Held, n
      <4>3. log'[k] = log[k]
        BY <2>5, <3>7, Appended DEF n
      <4> QED BY <2>4, <2>5, <3>5, <4>2, <4>3
    <3> QED BY <2>3, <3>2, <3>6, <3>7
  <2>6. CASE log' = log /\ log # <<>> /\ f = log[Len(log)]
    <3> SUFFICES ASSUME NEW t, NEW z, NEW k \in InsideAt(t, z), k .. n \subseteq InsideAt(t, z)
                 PROVE  /\ t \in Live' /\ z \in tracks'[t].zones
                        /\ tracks'[t].first <= log[k].at /\ tracks'[t].enter[z] <= log[k].at
      BY <2>6 DEF Held, InsideAt, Sightings, n
    <3>1. n \in InsideAt(t, z)
      BY <2>3
    <3>2. t \in DOMAIN f.hits /\ z \in f.hits[t]
      BY <2>6, <3>1 DEF InsideAt, Sightings, n
    <3>3. /\ t \in Live /\ z \in tracks[t].zones
          /\ tracks[t].first <= log[k].at /\ tracks[t].enter[z] <= log[k].at
      BY DEF Held, n
    <3>4. f.at >= Now
      BY <2>2, <2>6, LogFacts
    <3> QED BY <2>4, <3>2, <3>3, <3>4
  <2> QED BY <2>1, <2>5, <2>6
<1> QED BY <1>1, <1>2

\* engine.py:650-698.  A track that is inside a restricted zone in every frame of the
\* confirmation window is reported, also when it was there before, when other tracks
\* come, go and are forgotten, and when frames are handled twice.
THEOREM NoHeldIntrusionMissed == Spec => []NoIntrusionMissed
<1>1. Init => LogOK /\ Past /\ Held
  BY DEF Init, LogOK, Past, Held, Live, InsideAt, Sightings
<1>2. LogOK /\ EntriesAreSightings /\ Past /\ Held /\ [Next]_vars => (LogOK /\ Past /\ Held)'
  BY EntriesKept, PastKept, HeldKept
<1>3. LogOK /\ Past /\ Held => NoIntrusionMissed
  <2> SUFFICES ASSUME LogOK, Past, Held, NEW t \in Tracks, NEW z \in Restricted,
                      NEW k \in InsideAt(t, z),
                      Now - log[k].at >= Confirm, Now - log[k].at >= MinAge,
                      k .. Len(log) \subseteq InsideAt(t, z)
               PROVE  <<t, z>> \in Intrusions
    BY DEF NoIntrusionMissed
  <2>1. /\ t \in Live /\ z \in tracks[t].zones
        /\ tracks[t].first <= log[k].at /\ tracks[t].enter[z] <= log[k].at
    BY DEF Held
  <2>2. tracks[t].first \in Nat /\ tracks[t].enter[z] \in Nat
    BY <2>1 DEF Past
  <2>3. Now \in Nat /\ log[k].at \in Nat
    BY NowType, LogFacts
  <2>4. Now - tracks[t].first >= MinAge /\ Now - tracks[t].enter[z] >= Confirm
    <3>1. \A a, b, c, d : a \in Nat /\ b \in Nat /\ c \in Nat /\ d \in Nat
                         /\ a - b >= d /\ c <= b => a - c >= d
      OBVIOUS
    <3>2. MinAge \in Nat /\ Confirm \in Nat
      BY TrackingAssumption
    <3> QED BY <2>1, <2>2, <2>3, <3>1, <3>2
  <2> QED BY <2>1, <2>4 DEF Intrusions
<1> QED BY <1>1, <1>2, <1>3, Inductive, PTL DEF Spec

-----------------------------------------------------------------------------
EntersItsZones == \A t \in Live : DOMAIN tracks[t].enter = tracks[t].zones

\* engine.py:727-749.  The time a track is reported to have loitered is that of its
\* present stay: it was sighted inside that long ago and not outside since.
THEOREM LoiteringIsOneStay == Spec => []LoiterersStayed
<1>1. Init => EntersItsZones
  BY DEF Init, EntersItsZones, Live
<1>2. LogOK /\ EntersItsZones /\ [Next]_vars => EntersItsZones'
  <2> SUFFICES ASSUME LogOK, EntersItsZones, [Next]_vars PROVE EntersItsZones'
    OBVIOUS
  <2>1. CASE UNCHANGED vars
    BY <2>1 DEF vars, EntersItsZones, Live
  <2>2. CASE Next
    <3>1. PICK f \in Frames : Handle(f)
      BY <2>2, StepCases
    <3>2. f.at \in Nat
      BY DEF Frames
    <3> SUFFICES ASSUME NEW t \in Live' PROVE DOMAIN tracks'[t].enter = tracks'[t].zones
      BY DEF EntersItsZones
    <3>3. CASE t \in DOMAIN f.hits
      <4>1. tracks'[t] = Sighted(t, f)
        BY <3>1, <3>2, <3>3, TrackStep
      <4>2. Sighted(t, f).zones = f.hits[t] /\ Sighted(t, f).enter = Entries(t, f)
        BY DEF Sighted
      <4>3. DOMAIN Entries(t, f) = f.hits[t]
        BY DEF Entries
      <4> QED BY <4>1, <4>2, <4>3
    <3>4. CASE t \notin DOMAIN f.hits
      BY <3>1, <3>2, <3>4, TrackStep DEF EntersItsZones
    <3> QED BY <3>3, <3>4
  <2> QED BY <2>1, <2>2
<1>3. EntriesAreSightings /\ EntersItsZones => LoiterersStayed
  <2> SUFFICES ASSUME EntriesAreSightings, EntersItsZones, NEW p \in Loiterers
               PROVE  \E k \in InsideAt(p[1], p[2]) :
                        /\ Now - log[k].at >= Loiter
                        /\ \A j \in Sightings(p[1]) : j >= k => j \in InsideAt(p[1], p[2])
    BY DEF LoiterersStayed
  <2>1. /\ p[1] \in Live /\ p[2] \in tracks[p[1]].zones
        /\ Now - tracks[p[1]].enter[p[2]] >= Loiter
    BY DEF Loiterers, EntersItsZones
  <2>2. PICK k \in InsideAt(p[1], p[2]) :
          /\ log[k].at = tracks[p[1]].enter[p[2]]
          /\ \A j \in Sightings(p[1]) : j >= k => j \in InsideAt(p[1], p[2])
    BY <2>1 DEF EntriesAreSightings
  <2> QED BY <2>1, <2>2
<1> QED BY <1>1, <1>2, <1>3, Inductive, PTL DEF Spec
=============================================================================
