------------------------------- MODULE Dispatch -------------------------------
(***************************************************************************)
(* The dispatch service: a consumer that opens a responder dispatch for    *)
(* each confirmed incident of high severity, a sweeper that enforces the   *)
(* acknowledgement and resolution SLAs, and the operators' requests, all   *)
(* over one table.  The sweeper and the requests are transactions of a     *)
(* READ COMMITTED database: each reads rows, awaits, and later writes only *)
(* the columns it changed, so what one of them read may be stale by then.  *)
(* A step here runs from one await to the next.                            *)
(***************************************************************************)
EXTENDS Integers, Sequences, FiniteSets

CONSTANTS
  Incidents,     \* incidents announced on incidents.verified
  Qualifying,    \* those that are confirmed and severe enough to dispatch
  WithCamera,    \* those whose message names a camera
  Responders,    \* the on-call roster
  Nobody,        \* no responder
  Operators,     \* concurrent users of the HTTP interface
  MaxRetries,    \* run_consumer's max_retries
  MaxRequests,   \* bound: operator requests
  MaxCrashes     \* bound: process deaths

ASSUME IncidentsAssumption ==
  /\ Qualifying \subseteq Incidents
  /\ WithCamera \subseteq Incidents
  /\ Nobody \notin Responders
ASSUME BoundsAssumption ==
  /\ MaxRetries \in Nat \ {0}
  /\ MaxRequests \in Nat
  /\ MaxCrashes \in Nat

VARIABLES
  rows,        \* the dispatches table: row d is rows[d], in insertion order
  age,         \* SLAs run out per row: 0 none, 1 the ack SLA, 2 the resolve SLA too
  queue,       \* incidents.verified: messages whose offset is not committed
  dlq,         \* messages given up on
  paged,       \* <<incident, tier>>: pages that went out
  consumer,    \* the message being handled, where, and the failed attempts
  sweep,       \* where the sweeper is
  now,         \* the ages as of the sweep's start (a prefix of the rows)
  todo,        \* rows selected for escalation and not reached yet
  working,     \* the row being escalated and its new responder
  flushed,     \* rows this sweep has updated, not committed: row -> responder
  expiring,    \* rows this sweep is about to expire
  ackedBefore,      \* history: rows acknowledged when the sweep began
  resolvedBefore,   \* history: rows resolved when the sweep began
  request,     \* per operator: the request in progress
  requests,    \* count of operator requests
  crashes      \* count of process deaths

database == <<rows, age>>
bus == <<queue, dlq>>
sweeper == <<sweep, now, todo, working, flushed, expiring,
             ackedBefore, resolvedBefore>>
operators == <<request, requests>>
vars == <<database, bus, paged, consumer, sweeper, operators, crashes>>

States == {"notified", "acknowledged", "resolved", "escalated", "expired"}
OpenStates == {"notified", "escalated", "acknowledged"}
Row == [incident : Incidents, state : States, tier : Nat,
        responder : Responders \cup {Nobody}, acked : BOOLEAN, resolved : BOOLEAN]
Rows == DOMAIN rows

\* rows[d].acked and .resolved stand for acknowledged_at and resolved_at being set.
Idle == [at |-> "idle", msg |-> Nobody, failed |-> 0]
NoRequest == [op |-> "none", row |-> 0, state |-> "notified"]
NoWork == [row |-> 0, next |-> Nobody]

TypeOK ==
  /\ rows \in Seq(Row)
  /\ age \in [Rows -> 0 .. 2]
  /\ queue \subseteq Incidents
  /\ dlq \subseteq Incidents
  /\ paged \subseteq Incidents \X (1 .. 2)
  /\ consumer \in [at : {"idle", "selected", "paged", "handled"},
                   msg : Incidents \cup {Nobody}, failed : 0 .. MaxRetries]
  /\ sweep \in {"idle", "next", "flush", "page", "commit"}
  /\ Len(now) <= Len(rows)
  /\ todo \subseteq Rows
  /\ working \in [row : {0} \cup Rows, next : Responders \cup {Nobody}]
  /\ DOMAIN flushed \subseteq Rows
  /\ expiring \subseteq Rows
  /\ ackedBefore \subseteq Rows
  /\ resolvedBefore \subseteq Rows
  /\ request \in [Operators -> [op : {"none", "ack", "resolve", "assign"},
                                row : {0} \cup Rows, state : States]]
  /\ requests \in 0 .. MaxRequests
  /\ crashes \in 0 .. MaxCrashes

Init ==
  /\ rows = <<>>
  /\ age = <<>>
  /\ queue = Incidents
  /\ dlq = {}
  /\ paged = {}
  /\ consumer = Idle
  /\ sweep = "idle"
  /\ now = <<>>
  /\ todo = {}
  /\ working = NoWork
  /\ flushed = <<>>
  /\ expiring = {}
  /\ ackedBefore = {}
  /\ resolvedBefore = {}
  /\ request = [o \in Operators |-> NoRequest]
  /\ requests = 0
  /\ crashes = 0

-----------------------------------------------------------------------------
(***************************************************************************)
(* DispatchEngine.handle, called by run_consumer.                          *)
(***************************************************************************)

\* Idempotency: one dispatch per incident.
ExistingNotChecked(i) == i \notin Incidents        \* mutant
ExistingIfPaged(i) == <<i, 1>> \in paged           \* mutant
Existing(i) == \E d \in Rows : rows[d].incident = i

\* The message is delivered (again): skipped, or found to need a dispatch.
HandleSelect(i) ==
  /\ consumer.at = "idle"
  /\ consumer.msg \in {i, Nobody}
  /\ i \in queue
  /\ consumer' = [consumer EXCEPT
       !.at = IF i \in Qualifying /\ ~Existing(i) THEN "selected" ELSE "handled",
       !.msg = i]
  /\ UNCHANGED <<database, bus, paged, sweeper, operators, crashes>>

\* The row is inserted (uncommitted) and the responder on call is paged.
HandleNotify ==
  /\ consumer.at = "selected"
  /\ paged' = paged \cup {<<consumer.msg, 1>>}
  /\ consumer' = [consumer EXCEPT !.at = "paged"]
  /\ UNCHANGED <<database, bus, sweeper, operators, crashes>>

InsertRow(r) ==
  /\ rows' = Append(rows, [incident |-> consumer.msg, state |-> "notified",
                           tier |-> 1, responder |-> r,
                           acked |-> FALSE, resolved |-> FALSE])
  /\ age' = Append(age, 0)

HandleCommit(r) ==
  /\ consumer.at = "paged"
  /\ InsertRow(r)
  /\ consumer' = [consumer EXCEPT !.at = "handled"]
  /\ UNCHANGED <<bus, paged, sweeper, operators, crashes>>

\* The handler raises and its transaction is rolled back, or it raises at the
\* commit and the database committed all the same.  run_consumer calls it again,
\* and after max_retries puts the message in the DLQ, or replays it when the DLQ
\* cannot be reached either.
HandleRaises ==
  /\ consumer.at \in {"selected", "paged"}
  /\ \/ UNCHANGED database
     \/ consumer.at = "paged" /\ \E r \in Responders \cup {Nobody} : InsertRow(r)
  /\ IF consumer.failed + 1 = MaxRetries
       THEN \/ /\ dlq' = dlq \cup {consumer.msg}
               /\ consumer' = [consumer EXCEPT !.at = "handled"]
            \/ /\ consumer' = [consumer EXCEPT !.at = "idle", !.failed = 0]
               /\ UNCHANGED dlq
       ELSE /\ consumer' = [consumer EXCEPT !.at = "idle", !.failed = @ + 1]
            /\ UNCHANGED dlq
  /\ UNCHANGED <<queue, paged, sweeper, operators, crashes>>

\* run_consumer commits the message's offset.
CommitOffset ==
  /\ consumer.at = "handled"
  /\ queue' = queue \ {consumer.msg}
  /\ consumer' = Idle
  /\ UNCHANGED <<database, dlq, paged, sweeper, operators, crashes>>

-----------------------------------------------------------------------------
(***************************************************************************)
(* SlaSweeper._sweep.                                                      *)
(***************************************************************************)

SlaElapses(d) ==
  /\ age[d] < 2
  /\ age' = [age EXCEPT ![d] = @ + 1]
  /\ UNCHANGED <<rows, bus, paged, consumer, sweeper, operators, crashes>>

\* The rows the ACK SLA applies to.
AwaitingAckOrEscalated(d) == rows[d].state \in {"notified", "escalated"}   \* mutant
AwaitingAckByTimestamp(d) == rows[d].tier = 1                              \* mutant
AwaitingAck(d) == rows[d].state = "notified"

SweepSelect ==
  /\ sweep = "idle"
  /\ sweep' = "next"
  /\ now' = age
  /\ todo' = {d \in Rows : AwaitingAck(d) /\ age[d] >= 1}
  /\ ackedBefore' = {d \in Rows : rows[d].acked}
  /\ resolvedBefore' = {d \in Rows : rows[d].resolved}
  /\ UNCHANGED <<database, bus, paged, consumer, working, flushed, expiring,
                 operators, crashes>>

HasCamera(d) == rows[d].incident \in WithCamera

\* Resolve who is on call at the next tier, else at the first, else keep the
\* responder.  The query for the camera's name flushes the update before the
\* page; without a camera the next query does, after it.
SweepEscalate(d, next) ==
  /\ sweep = "next"
  /\ d \in todo
  /\ todo' = todo \ {d}
  /\ working' = [row |-> d, next |-> next]
  /\ sweep' = IF HasCamera(d) THEN "flush" ELSE "page"
  /\ UNCHANGED <<database, bus, paged, consumer, now, flushed, expiring,
                 ackedBefore, resolvedBefore, operators, crashes>>

NewResponder(d, next) == IF next = Nobody THEN rows[d].responder ELSE next

\* After the UPDATE: a row with a camera is paged for next, one without was.
AfterFlushUnpaged(d) == IF d \in Rows THEN "next" ELSE "page"   \* mutant
AfterFlush(d) == IF HasCamera(d) THEN "page" ELSE "next"

\* The UPDATE reaches the database: the row is locked until the sweep ends.
SweepFlush ==
  /\ sweep = "flush"
  /\ LET d == working.row IN
     /\ flushed' = [e \in DOMAIN flushed \cup {d} |->
                      IF e = d THEN working.next ELSE flushed[e]]
     /\ sweep' = AfterFlush(d)
  /\ UNCHANGED <<database, bus, paged, consumer, now, todo, working, expiring,
                 ackedBefore, resolvedBefore, operators, crashes>>

SweepPage ==
  /\ sweep = "page"
  /\ paged' = paged \cup {<<rows[working.row].incident, rows[working.row].tier + 1>>}
  /\ sweep' = IF HasCamera(working.row) THEN "next" ELSE "flush"
  /\ UNCHANGED <<database, bus, consumer, now, todo, working, flushed, expiring,
                 ackedBefore, resolvedBefore, operators, crashes>>

\* What the sweep's own transaction sees of a row.
StateSeen(d) == IF d \in DOMAIN flushed THEN "escalated" ELSE rows[d].state
AgeSeen(d) == IF d \in DOMAIN now THEN now[d] ELSE 0

\* The rows the RESOLVE SLA applies to.
AwaitingResolveNotAcked(d) == StateSeen(d) \in {"notified", "escalated"}   \* mutant
AwaitingResolve(d) == StateSeen(d) \in OpenStates /\ ~rows[d].resolved

SweepSelectUnresolved ==
  /\ sweep = "next"
  /\ todo = {}
  /\ expiring' = {d \in Rows : AwaitingResolve(d) /\ AgeSeen(d) = 2}
  /\ sweep' = "commit"
  /\ UNCHANGED <<database, bus, paged, consumer, now, todo, working, flushed,
                 ackedBefore, resolvedBefore, operators, crashes>>

SweepEnds ==
  /\ sweep' = "idle"
  /\ now' = <<>>
  /\ todo' = {}
  /\ working' = NoWork
  /\ flushed' = <<>>
  /\ expiring' = {}
  /\ ackedBefore' = {}
  /\ resolvedBefore' = {}

\* The columns this sweep changed, over whatever the row has become.
Swept(d) ==
  LET r == IF d \in DOMAIN flushed
             THEN [rows[d] EXCEPT !.state = "escalated", !.tier = @ + 1,
                                  !.responder = NewResponder(d, flushed[d])]
             ELSE rows[d]
  IN  IF d \in expiring THEN [r EXCEPT !.state = "expired"] ELSE r

SweepCommit ==
  /\ sweep = "commit"
  /\ rows' = [d \in Rows |-> Swept(d)]
  /\ SweepEnds
  /\ UNCHANGED <<age, bus, paged, consumer, operators, crashes>>

\* A query or the commit raises: rolled back; the next sweep starts over.
SweepRaises ==
  /\ sweep # "idle"
  /\ SweepEnds
  /\ UNCHANGED <<database, bus, paged, consumer, operators, crashes>>

-----------------------------------------------------------------------------
(***************************************************************************)
(* The operators' requests: ack, resolve, assign.                          *)
(***************************************************************************)

\* _load_dispatch: the request reads the row.
RequestLoad(o, op, d) ==
  /\ request[o].op = "none"
  /\ requests < MaxRequests
  /\ requests' = requests + 1
  /\ request' = [request EXCEPT ![o] = [op |-> op, row |-> d, state |-> rows[d].state]]
  /\ UNCHANGED <<database, bus, paged, consumer, sweeper, crashes>>

\* The UPDATE carries the state column only if the request changed what it
\* read, and waits for a sweep that holds the row.
RequestWrites(o, row) ==
  LET d == request[o].row IN
  /\ d \notin DOMAIN flushed
  /\ rows' = [rows EXCEPT ![d] = row]
  /\ request' = [request EXCEPT ![o] = NoRequest]
  /\ UNCHANGED <<age, bus, paged, consumer, sweeper, requests, crashes>>

Written(o, state) ==
  IF request[o].state = state THEN rows[request[o].row].state ELSE state

AckDispatch(o) ==
  /\ request[o].op = "ack"
  /\ RequestWrites(o, [rows[request[o].row] EXCEPT
       !.acked = TRUE, !.state = Written(o, "acknowledged")])

ResolveDispatch(o) ==
  /\ request[o].op = "resolve"
  /\ RequestWrites(o, [rows[request[o].row] EXCEPT
       !.resolved = TRUE, !.state = Written(o, "resolved")])

AssignDispatch(o, r) ==
  /\ request[o].op = "assign"
  /\ RequestWrites(o, [rows[request[o].row] EXCEPT !.responder = r])

\* The process dies: transactions are rolled back, the message is redelivered.
Crash ==
  /\ crashes < MaxCrashes
  /\ crashes' = crashes + 1
  /\ consumer' = Idle
  /\ SweepEnds
  /\ request' = [o \in Operators |-> NoRequest]
  /\ UNCHANGED <<database, bus, paged, requests>>

-----------------------------------------------------------------------------
Consume ==
  \/ \E i \in queue : HandleSelect(i)
  \/ HandleNotify
  \/ \E r \in Responders \cup {Nobody} : HandleCommit(r)
  \/ HandleRaises
  \/ CommitOffset

Sweep ==
  \/ SweepSelect
  \/ \E d \in todo, next \in Responders \cup {Nobody} : SweepEscalate(d, next)
  \/ SweepFlush
  \/ SweepPage
  \/ SweepSelectUnresolved
  \/ SweepCommit

Operate ==
  \E o \in Operators :
    \/ \E op \in {"ack", "resolve", "assign"}, d \in Rows : RequestLoad(o, op, d)
    \/ AckDispatch(o)
    \/ ResolveDispatch(o)
    \/ \E r \in Responders \cup {Nobody} : AssignDispatch(o, r)

Next ==
  \/ Consume
  \/ \E d \in Rows : SlaElapses(d)
  \/ Sweep
  \/ SweepRaises
  \/ Operate
  \/ Crash

Spec == Init /\ [][Next]_vars

\* The event loop keeps running the consumer and the sweeper, time passes, and
\* neither the database nor a transport fails for ever.  Operators owe nothing.
Fairness ==
  /\ SF_vars(\E i \in queue : HandleSelect(i))
  /\ SF_vars(HandleNotify)
  /\ SF_vars(\E r \in Responders \cup {Nobody} : HandleCommit(r))
  /\ SF_vars(CommitOffset)
  /\ \A d \in 1 .. Cardinality(Incidents) : WF_vars(d \in Rows /\ SlaElapses(d))
  /\ WF_vars(SweepSelect)
  /\ SF_vars(\E d \in todo, next \in Responders \cup {Nobody} : SweepEscalate(d, next))
  /\ SF_vars(SweepFlush)
  /\ SF_vars(SweepPage)
  /\ SF_vars(SweepSelectUnresolved)
  /\ SF_vars(SweepCommit)

FairSpec == Spec /\ Fairness

-----------------------------------------------------------------------------
\* engine.py:46-47 and 67.  However often a message is delivered, and wherever
\* the process dies or the database fails, an incident has one dispatch.
OneDispatchPerIncident ==
  \A d, e \in Rows : rows[d].incident = rows[e].incident => d = e

Dispatched == {rows[d].incident : d \in Rows}

\* sla.py:7.  A dispatch escalates at most once, whatever the order of sweeps,
\* failed sweeps and operators' requests.
EscalatesOnce ==
  \A d \in Rows : rows[d].tier = 1 \/ (rows[d].tier = 2 /\ rows[d].state # "notified")

\* sla.py:5-6, "a real re-notification".  No tier is on record whose responder
\* was not paged.
PagedBeforeRecorded ==
  \A d \in Rows : \A t \in 1 .. rows[d].tier : <<rows[d].incident, t>> \in paged

\* The sweeper overwrites no acknowledgement and no resolution that was on
\* record when the sweep began.
SweepIsFresh ==
  [][\A d \in Rows :
       rows'[d].state # rows[d].state =>
         /\ rows'[d].state = "escalated" => d \notin ackedBefore \cup resolvedBefore
         /\ rows'[d].state = "expired" => d \notin resolvedBefore]_vars

\* sla.py:5-6.  Only a dispatch that is not acknowledged is escalated.
OnlyUnackedEscalates ==
  [][\A d \in Rows :
       rows'[d].state = "escalated" /\ rows[d].state # "escalated" => ~rows[d].acked]_vars

\* engine.py:46.  Each confirmed incident of high severity gets a dispatch, or is
\* left in the DLQ.
EveryIncidentDispatched == \A i \in Qualifying : <>(i \in Dispatched \cup dlq)

\* sla.py:3-9.  A dispatch nobody resolves expires, whatever else happens to it.
UnresolvedExpires ==
  \A d \in 1 .. Cardinality(Incidents) :
    (d \in Rows) ~> (d \in Rows /\ (rows[d].resolved \/ rows[d].state = "expired"))
=============================================================================
