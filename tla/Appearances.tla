---------------------------- MODULE Appearances ----------------------------
(***************************************************************************)
(* The periodic scan that links appearance vectors across sites: it reads  *)
(* which camera is at which site, then searches vector by vector and       *)
(* stores each link in a transaction of its own, while cameras move.       *)
(***************************************************************************)
EXTENDS Integers, FiniteSets

CONSTANTS
  Cameras, Sites,
  Points,        \* the vectors of the reid collection, numbered by their ids
  PointCamera,   \* per point, the camera that took it
  MaxLinks       \* _MAX_LINKS_PER_SCAN

NoSite == "none"

VARIABLES
  siteOf,    \* cameras.site_id
  map,       \* cam_site as the scan has read it
  todo,      \* points the scan has not come to
  made,      \* links it has made
  seen,      \* _seen_keys
  links      \* cross_site_links of appearances: entity_key and its two points

vars == <<siteOf, map, todo, made, seen, links>>

Init ==
  /\ siteOf \in [Cameras -> Sites]
  /\ map = siteOf /\ todo = {} /\ made = 0 /\ seen = {} /\ links = {}

\* PATCH /cameras, or DELETE /sites, which leaves its cameras without one.
Move(c, s) ==
  /\ s # siteOf[c]
  /\ siteOf' = [siteOf EXCEPT ![c] = s]
  /\ UNCHANGED <<map, todo, made, seen, links>>

\* _scan: the cameras that have a site; nothing to do with fewer than two sites.
Scan ==
  /\ todo = {}
  /\ Cardinality({siteOf[c] : c \in Cameras} \ {NoSite}) >= 2
  /\ map' = siteOf /\ todo' = Points /\ made' = 0
  /\ UNCHANGED <<siteOf, seen, links>>

Others(p) == {q \in Points : map[PointCamera[q]] \notin {NoSite, map[PointCamera[p]]}}

\* The key of a pair is the same from both of its ends.
DirectedKey(p, q) == <<p, q>>     \* mutant
Key(p, q) == IF p < q THEN <<p, q>> ELSE <<q, p>>

\* Pairs this process has linked before are passed over, the next hit is tried instead.
Untried(p) == {q \in Others(p) : Key(p, q) \notin seen}

\* _upsert_appearance, in a transaction of its own: the key is looked up first.
Link(p, q) ==
  /\ p \in todo /\ made < MaxLinks /\ map[PointCamera[p]] # NoSite /\ q \in Untried(p)
  /\ todo' = todo \ {p}
  /\ seen' = seen \cup {Key(p, q)}
  /\ IF \E l \in links : l.key = Key(p, q)
     THEN UNCHANGED <<made, links>>
     ELSE made' = made + 1 /\ links' = links \cup {[key |-> Key(p, q), ends |-> {p, q}]}
  /\ UNCHANGED <<siteOf, map>>

\* No hit is near enough, or the search fails.
Miss(p) ==
  /\ p \in todo
  /\ todo' = todo \ {p}
  /\ UNCHANGED <<siteOf, map, made, seen, links>>

\* The scan ends early: at the cap, or for an error of the database.
End ==
  /\ todo # {}
  /\ todo' = {}
  /\ UNCHANGED <<siteOf, map, made, seen, links>>

\* _seen_keys goes with the process, the rows stay.
Restart ==
  /\ todo' = {} /\ seen' = {}
  /\ UNCHANGED <<siteOf, map, made, links>>

Next ==
  \/ \E c \in Cameras, s \in Sites \cup {NoSite} : Move(c, s)
  \/ Scan \/ End \/ Restart
  \/ \E p \in Points : Miss(p) \/ \E q \in Points : Link(p, q)

Spec == Init /\ [][Next]_vars
-----------------------------------------------------------------------------
\* reidscan.py:105-126, 140-188.  A pair is linked once, whichever of its ends finds the
\* other and however often the process starts afresh.
LinkedOnce == \A l, m \in links : l.ends = m.ends => l = m
=============================================================================
