----------------------------- MODULE CrossSite -----------------------------
(***************************************************************************)
(* Cross-site correlation of vehicles: plate sightings, each tied to the   *)
(* site its camera is at, as far as a cache knows, while cameras are moved *)
(* and sites deleted.                                                      *)
(***************************************************************************)
EXTENDS Integers, FiniteSets

CONSTANTS
  Cameras, Sites,
  TTL          \* _CACHE_TTL_S

NoSite == "none"

VARIABLES
  siteOf,    \* cameras.site_id
  left,      \* history: age of each camera's departure from each site; 0 while it is there
  cache,     \* _site_cache: per camera the site, or "unread"
  loaded,    \* age of _cache_loaded
  sighted,   \* plate_sightings of the plate within the window: site and camera
  plate      \* sites of the plate's cross_site_links row; empty: no row

vars == <<siteOf, left, cache, loaded, sighted, plate>>

Init ==
  /\ siteOf \in [Cameras -> Sites]
  /\ left = [c \in Cameras |-> [s \in Sites |-> IF s = siteOf[c] THEN 0 ELSE TTL + 1]]
  /\ cache = [c \in Cameras |-> "unread"] /\ loaded = TTL + 1
  /\ sighted = {} /\ plate = {}

\* PATCH /cameras, or DELETE /sites, which leaves its cameras without one.
Move(c, s) ==
  /\ s # siteOf[c]
  /\ siteOf' = [siteOf EXCEPT ![c] = s]
  /\ left' = [left EXCEPT ![c] = [x \in Sites |-> IF x = s THEN 0 ELSE @[x]]]
  /\ UNCHANGED <<cache, loaded, sighted, plate>>

Tick ==
  /\ loaded' = IF loaded <= TTL THEN loaded + 1 ELSE loaded
  /\ left' = [c \in Cameras |-> [s \in Sites |->
                IF s = siteOf[c] THEN 0 ELSE IF left[c][s] <= TTL THEN left[c][s] + 1 ELSE left[c][s]]]
  /\ UNCHANGED <<siteOf, cache, sighted, plate>>
-----------------------------------------------------------------------------
\* _maybe_expire_cache: the whole of it, by the time it was last emptied.
NeverExpired == cache     \* mutant
Current == IF loaded > TTL THEN [c \in Cameras |-> "unread"] ELSE cache
Site(c) == IF Current[c] = "unread" THEN siteOf[c] ELSE Current[c]

\* handle, one transaction: the sighting, and with it the link, once there are two sites.
\* A message delivered again adds a sighting that says the same.
Handle(c) ==
  /\ cache' = [Current EXCEPT ![c] = Site(c)]
  /\ loaded' = IF loaded > TTL THEN 0 ELSE loaded
  /\ sighted' = sighted \cup {<<Site(c), c>>}
  /\ LET seenAt == {x[1] : x \in sighted'} \ {NoSite} IN
       plate' = IF Cardinality(seenAt) < 2 THEN plate ELSE seenAt
  /\ UNCHANGED <<siteOf, left>>

\* The window moves on: sightings no longer count, a link that was made stays as it is.
Forget ==
  /\ sighted # {}
  /\ sighted' = {}
  /\ UNCHANGED <<siteOf, left, cache, loaded, plate>>

\* The cache goes with the process.
Restart ==
  /\ cache' = [c \in Cameras |-> "unread"] /\ loaded' = TTL + 1
  /\ UNCHANGED <<siteOf, left, sighted, plate>>

Next ==
  \/ \E c \in Cameras, s \in Sites \cup {NoSite} : Move(c, s)
  \/ \E c \in Cameras : Handle(c)
  \/ Tick \/ Forget \/ Restart

Spec == Init /\ [][Next]_vars
-----------------------------------------------------------------------------
\* engine.py:55-74.  A sighting is tied to a site its camera is at, or has left no longer
\* than the cache's lifetime ago: a camera that was moved makes its vehicles appear at
\* two sites for a minute and no longer.
SightingsAreCurrent ==
  [][\A x \in sighted' \ sighted : x[1] = NoSite \/ left[x[2]][x[1]] <= TTL]_vars
=============================================================================
