---------------------------- MODULE IncidentLife ----------------------------
(***************************************************************************)
(* The life of one incident after the context service has opened it.  Four *)
(* writers share its row: the reason service, which has a model verify the *)
(* candidate and announces the verdict; the SOP playbooks and the          *)
(* escalator of the notify service; and the requests of the API.  Each is  *)
(* a READ COMMITTED transaction that reads the row, awaits, and writes the *)
(* columns it changed; the attributes column is one JSON value, written    *)
(* whole.  A step here runs from one await to the next.                    *)
(***************************************************************************)
EXTENDS Integers, FiniteSets

CONSTANTS
  None,          \* no verdict, no playbook
  Playbooks,     \* the SOP playbooks
  PlaybookFor,   \* the first playbook that matches, by the verdict on record
  Escalating,    \* playbooks with the action escalate
  CaseOpening,   \* ... create_case
  Investigating, \* ... investigate
  LowSeverity,   \* the incident's severity is below the shed line
  Operators,     \* concurrent users of the API
  MaxRetries,    \* run_consumer's max_retries
  MaxAge,        \* 2, or 3 if the incident can outlive the escalation horizon
  MaxCount,      \* bound: pages and playbook runs counted
  MaxRequests,   \* bound: operators' requests
  MaxCrashes     \* bound: process deaths

Verdicts == {"confirmed", "rejected", "unverified"}

ASSUME PlaybooksAssumption ==
  /\ None \notin Playbooks \cup Verdicts
  /\ PlaybookFor \in [Verdicts \cup {None} -> Playbooks \cup {None}]
ASSUME BoundsAssumption ==
  /\ MaxRetries \in Nat \ {0}
  /\ MaxAge \in 2 .. 3
  /\ MaxCount \in Nat \ {0}
  /\ {MaxRequests, MaxCrashes} \subseteq Nat

VARIABLES
  status,      \* the incident's status
  verdict,     \* its verdict
  attributes,  \* its attributes: escalation level, investigation, deferred mark
  locked,      \* the playbook's transaction holds the row's lock
  age,         \* escalation delays passed: 0, level 1, level 2, 3 the horizon
  stale,       \* the candidate is older than backpressure_stale_seconds
  pending,     \* consumers that have not committed the candidate's offset
  dlq,         \* consumers that gave up on the candidate
  announced,   \* verdicts published on incidents.verified
  reason,      \* the reason service's handler
  playbook,    \* the playbook engine's handler
  ran,         \* the playbook engine's _ran, in memory
  acts,        \* per playbook: times it sent, since the process started
  escalator,   \* the escalator's sweep
  paged,       \* per level: times the on-call contact was paged
  request,     \* per client of the API: the request in progress
  requests,    \* count of operators' requests
  crashes      \* count of process deaths

row == <<status, verdict, attributes, locked>>
world == <<age, stale, crashes>>
candidate == <<pending, dlq>>
playbooks == <<playbook, ran, acts>>
escalation == <<escalator, paged>>
api == <<request, requests>>
vars == <<row, world, candidate, announced, reason, playbooks, escalation, api>>

Statuses == {"new", "ack", "escalated", "resolved", "false_positive"}
Attributes == [level : 0 .. 2, investigated : BOOLEAN, deferred : BOOLEAN]
Consumers == {"reason", "playbooks"}
Clients == Operators \cup {"playbooks"}
StatusOf == [ack |-> "ack", escalate |-> "escalated",
             resolve |-> "resolved", false |-> "false_positive"]

NoAttributes == [level |-> 0, investigated |-> FALSE, deferred |-> FALSE]
ReasonIdle == [at |-> "idle", result |-> None, status |-> "new",
               seen |-> NoAttributes, failed |-> 0]
PlaybookIdle == [at |-> "idle", name |-> None, status |-> "new", failed |-> 0]
EscalatorIdle == [at |-> "idle", level |-> 0, due |-> 0, seen |-> NoAttributes]
NoRequest == [op |-> "none", status |-> "new", seen |-> NoAttributes]

TypeOK ==
  /\ status \in Statuses
  /\ verdict \in Verdicts \cup {None}
  /\ attributes \in Attributes
  /\ locked \in BOOLEAN
  /\ age \in 0 .. MaxAge
  /\ stale \in BOOLEAN
  /\ pending \subseteq Consumers
  /\ dlq \subseteq Consumers
  /\ announced \subseteq Verdicts
  /\ reason \in [at : {"idle", "deferring", "verifying", "deciding", "publishing", "handled"},
                 result : Verdicts \cup {None}, status : Statuses,
                 seen : Attributes, failed : 0 .. MaxRetries - 1]
  /\ playbook \in [at : {"idle", "acting", "sending", "asking", "waiting",
                         "committing", "handled"},
                   name : Playbooks \cup {None}, status : Statuses,
                   failed : 0 .. MaxRetries - 1]
  /\ ran \subseteq Playbooks
  /\ acts \in [Playbooks -> 0 .. MaxCount]
  /\ escalator \in [at : {"idle", "paging"}, level : 0 .. 2, due : 0 .. 2,
                    seen : Attributes]
  /\ paged \in [1 .. 2 -> 0 .. MaxCount]
  /\ request \in [Clients -> [op : {"none", "investigate"} \cup DOMAIN StatusOf,
                              status : Statuses, seen : Attributes]]
  /\ requests \in 0 .. MaxRequests
  /\ crashes \in 0 .. MaxCrashes

\* ContextEngine._fire has committed the incident and published the candidate.
Init ==
  /\ status = "new"
  /\ verdict = None
  /\ attributes = NoAttributes
  /\ locked = FALSE
  /\ age = 0
  /\ stale = FALSE
  /\ pending = Consumers
  /\ dlq = {}
  /\ announced = {}
  /\ reason = ReasonIdle
  /\ playbook = PlaybookIdle
  /\ ran = {}
  /\ acts = [p \in Playbooks |-> 0]
  /\ escalator = EscalatorIdle
  /\ paged = [l \in 1 .. 2 |-> 0]
  /\ request = [o \in Clients |-> NoRequest]
  /\ requests = 0
  /\ crashes = 0

Counted(n) == IF n < MaxCount THEN n + 1 ELSE n

\* run_consumer, when the handler raised after failed earlier attempts: next,
\* its next state, is another attempt, the DLQ, or the message fetched again.
Retried(failed, next, idle, consumer) ==
  \/ /\ failed + 1 < MaxRetries
     /\ next = [idle EXCEPT !.failed = failed + 1]
     /\ UNCHANGED dlq
  \/ /\ failed + 1 = MaxRetries
     /\ next = [idle EXCEPT !.at = "handled"]
     /\ dlq' = dlq \cup {consumer}
  \/ /\ failed + 1 = MaxRetries
     /\ next = idle
     /\ UNCHANGED dlq

-----------------------------------------------------------------------------
(***************************************************************************)
(* ReasonEngine.handle.                                                    *)
(***************************************************************************)

\* Idempotency: the verdict is already on record.
NeverVerified == verdict \notin Verdicts \cup {None}    \* mutant
AlreadyVerified == verdict # None

\* A stale candidate of low severity is not verified, under backpressure.
Shed == stale /\ LowSeverity

\* _defer reads the row it marks.
ReasonTakes ==
  /\ reason.at = "idle"
  /\ "reason" \in pending
  /\ reason' = [reason EXCEPT
       !.at = IF Shed THEN "deferring"
              ELSE IF AlreadyVerified THEN "handled" ELSE "verifying",
       !.seen = IF Shed THEN attributes ELSE @]
  /\ UNCHANGED <<row, world, candidate, announced, playbooks, escalation, api>>

MarkForgotten(seen) == seen                       \* mutant
Marked(seen) == [seen EXCEPT !.deferred = TRUE]

ReasonDefers ==
  /\ reason.at = "deferring"
  /\ ~locked
  /\ attributes' = Marked(reason.seen)
  /\ reason' = [ReasonIdle EXCEPT !.at = "handled"]
  /\ UNCHANGED <<status, verdict, locked, world, candidate, announced, playbooks,
                 escalation, api>>

\* The VLM and the second opinion settle on v; then the row is read.
ReasonReads(v) ==
  /\ reason.at = "verifying"
  /\ reason' = [reason EXCEPT !.at = "deciding", !.result = v, !.status = status,
                              !.seen = attributes]
  /\ UNCHANGED <<row, world, candidate, announced, playbooks, escalation, api>>

\* The verdict is committed; a rejected incident is dismissed.  The attributes
\* are written only when the result brings some.
ReasonDecides(brings) ==
  /\ reason.at = "deciding"
  /\ ~locked
  /\ verdict' = reason.result
  /\ status' = IF reason.result = "rejected" /\ reason.status # "false_positive"
                 THEN "false_positive" ELSE status
  /\ attributes' = IF brings THEN reason.seen ELSE attributes
  /\ reason' = [reason EXCEPT !.at = "publishing", !.status = "new", !.seen = NoAttributes]
  /\ UNCHANGED <<locked, world, candidate, announced, playbooks, escalation, api>>

ReasonPublishes ==
  /\ reason.at = "publishing"
  /\ announced' = announced \cup {reason.result}
  /\ reason' = [ReasonIdle EXCEPT !.at = "handled"]
  /\ UNCHANGED <<row, world, candidate, playbooks, escalation, api>>

\* The VLM, the database or the producer fails; the producer may also fail to hear
\* that the broker has the message.
ReasonRaises ==
  /\ reason.at \in {"deferring", "verifying", "deciding", "publishing"}
  /\ \/ UNCHANGED announced
     \/ reason.at = "publishing" /\ announced' = announced \cup {reason.result}
  /\ Retried(reason.failed, reason', ReasonIdle, "reason")
  /\ UNCHANGED <<row, world, pending, playbooks, escalation, api>>

ReasonCommitsOffset ==
  /\ reason.at = "handled"
  /\ pending' = pending \ {"reason"}
  /\ reason' = ReasonIdle
  /\ UNCHANGED <<row, world, dlq, announced, playbooks, escalation, api>>

-----------------------------------------------------------------------------
(***************************************************************************)
(* PlaybookEngine.handle.                                                  *)
(***************************************************************************)

\* Added before the actions, so that a retry does not repeat them.
RanAfterwards(p) == ran \ {p}                     \* mutant
RanBefore(p) == ran \cup {p}

PlaybookTakes ==
  /\ playbook.at = "idle"
  /\ "playbooks" \in pending
  /\ LET p == PlaybookFor[verdict] IN
     IF p = None \/ p \in ran
       THEN /\ playbook' = [PlaybookIdle EXCEPT !.at = "handled"]
            /\ UNCHANGED ran
       ELSE /\ playbook' = [playbook EXCEPT !.at = "acting", !.name = p, !.status = status]
            /\ ran' = RanBefore(p)
  /\ UNCHANGED <<row, world, candidate, announced, reason, acts, escalation, api>>

\* The playbook changes the status it read.
Escalates == playbook.name \in Escalating /\ playbook.status \in {"new", "ack"}

\* Inserting the case flushes the new status: the row is locked from here on.
PlaybookOpensCase ==
  /\ playbook.at = "acting"
  /\ playbook.name \in CaseOpening
  /\ locked' = Escalates
  /\ playbook' = [playbook EXCEPT !.at = "sending"]
  /\ UNCHANGED <<status, verdict, attributes, world, candidate, announced, reason,
                 ran, acts, escalation, api>>

\* The mail and the webhook.
PlaybookSends ==
  /\ \/ playbook.at = "sending"
     \/ playbook.at = "acting" /\ playbook.name \notin CaseOpening
  /\ acts' = [acts EXCEPT ![playbook.name] = Counted(@)]
  /\ playbook' = [playbook EXCEPT
       !.at = IF playbook.name \in Investigating THEN "asking" ELSE "committing"]
  /\ UNCHANGED <<row, world, candidate, announced, reason, ran, escalation, api>>

\* The API is asked to assemble the investigation.  It reads the incident.
PlaybookAsks ==
  /\ playbook.at = "asking"
  /\ request["playbooks"].op = "none"
  /\ request' = [request EXCEPT !["playbooks"] =
       [NoRequest EXCEPT !.op = "investigate", !.seen = attributes]]
  /\ playbook' = [playbook EXCEPT !.at = "waiting"]
  /\ UNCHANGED <<row, world, candidate, announced, reason, ran, acts, escalation, requests>>

Answered == playbook.at = "waiting" /\ request["playbooks"].op = "none"
OnlyAnswered == Answered                          \* mutant
\* The API cannot be reached, or has not answered within 45 s.
AnsweredOrTimedOut == Answered \/ playbook.at \in {"asking", "waiting"}

PlaybookGoesOn ==
  /\ AnsweredOrTimedOut
  /\ playbook' = [playbook EXCEPT !.at = "committing"]
  /\ UNCHANGED <<row, world, candidate, announced, reason, ran, acts, escalation, api>>

PlaybookCommits ==
  /\ playbook.at = "committing"
  /\ status' = IF Escalates THEN "escalated" ELSE status
  /\ locked' = FALSE
  /\ playbook' = [PlaybookIdle EXCEPT !.at = "handled"]
  /\ UNCHANGED <<verdict, attributes, world, candidate, announced, reason, ran, acts,
                 escalation, api>>

PlaybookRaises ==
  /\ playbook.at \in {"acting", "sending", "committing"}
  /\ Retried(playbook.failed, playbook', PlaybookIdle, "playbooks")
  /\ locked' = FALSE
  /\ UNCHANGED <<status, verdict, attributes, world, pending, announced, reason, ran,
                 acts, escalation, api>>

PlaybookCommitsOffset ==
  /\ playbook.at = "handled"
  /\ pending' = pending \ {"playbooks"}
  /\ playbook' = PlaybookIdle
  /\ UNCHANGED <<row, world, dlq, announced, reason, ran, acts, escalation, api>>

-----------------------------------------------------------------------------
(***************************************************************************)
(* Escalator._sweep.                                                       *)
(***************************************************************************)

\* A confirmed incident nobody has taken, within the escalation horizon.
UnackedOfAnyVerdict == status = "new" /\ age < 3  \* mutant
UnackedBeforeLevel1 == status = "new" /\ verdict = "confirmed" /\ age < 1   \* mutant
Unacked == status = "new" /\ verdict = "confirmed" /\ age < 3

EscalatorSelects ==
  /\ escalator.at = "idle"
  /\ Unacked
  /\ attributes.level < age
  /\ escalator' = [at |-> "paging", level |-> attributes.level, due |-> age,
                   seen |-> attributes]
  /\ UNCHANGED <<row, world, candidate, announced, reason, playbooks, paged, api>>

HighestLevel(l) == IF l < escalator.due THEN escalator.due ELSE l   \* mutant
NextLevel(l) == l + 1

EscalatorPages ==
  /\ escalator.at = "paging"
  /\ escalator.level < escalator.due
  /\ LET l == NextLevel(escalator.level) IN
     /\ paged' = [paged EXCEPT ![l] = Counted(@)]
     /\ escalator' = [escalator EXCEPT !.level = l]
  /\ UNCHANGED <<row, world, candidate, announced, reason, playbooks, api>>

EscalatorCommits ==
  /\ escalator.at = "paging"
  /\ escalator.level = escalator.due
  /\ ~locked
  /\ attributes' = [escalator.seen EXCEPT !.level = escalator.level]
  /\ escalator' = EscalatorIdle
  /\ UNCHANGED <<status, verdict, locked, world, candidate, announced, reason,
                 playbooks, paged, api>>

EscalatorRaises ==
  /\ escalator.at = "paging"
  /\ escalator' = EscalatorIdle
  /\ UNCHANGED <<row, world, candidate, announced, reason, playbooks, paged, api>>

-----------------------------------------------------------------------------
(***************************************************************************)
(* The API's requests: incident_action, and incident_investigate.          *)
(***************************************************************************)

RequestLoads(o, op) ==
  /\ request[o].op = "none"
  /\ requests < MaxRequests
  /\ requests' = requests + 1
  /\ request' = [request EXCEPT ![o] =
       IF op = "investigate" THEN [NoRequest EXCEPT !.op = op, !.seen = attributes]
                             ELSE [NoRequest EXCEPT !.op = op, !.status = status]]
  /\ UNCHANGED <<row, world, candidate, announced, reason, playbooks, escalation>>

IncidentAction(o) ==
  /\ request[o].op \in DOMAIN StatusOf
  /\ ~locked
  /\ LET new == StatusOf[request[o].op] IN
     status' = IF request[o].status = new THEN status ELSE new
  /\ request' = [request EXCEPT ![o] = NoRequest]
  /\ UNCHANGED <<verdict, attributes, locked, world, candidate, announced, reason,
                 playbooks, escalation, requests>>

IncidentInvestigate(o) ==
  /\ request[o].op = "investigate"
  /\ ~locked
  /\ attributes' = [request[o].seen EXCEPT !.investigated = TRUE]
  /\ request' = [request EXCEPT ![o] = NoRequest]
  /\ UNCHANGED <<status, verdict, locked, world, candidate, announced, reason,
                 playbooks, escalation, requests>>

\* The database refuses, or the API's process dies.
RequestFails(o) ==
  /\ request[o].op # "none"
  /\ request' = [request EXCEPT ![o] = NoRequest]
  /\ UNCHANGED <<row, world, candidate, announced, reason, playbooks, escalation, requests>>

-----------------------------------------------------------------------------
AgeAdvances ==
  /\ age < MaxAge
  /\ age' = age + 1
  /\ UNCHANGED <<row, stale, crashes, candidate, announced, reason, playbooks,
                 escalation, api>>

\* Looked at only when the severity is low.
CandidateGoesStale ==
  /\ LowSeverity /\ ~stale
  /\ stale' = TRUE
  /\ UNCHANGED <<row, age, crashes, candidate, announced, reason, playbooks,
                 escalation, api>>

ReasonCrashes ==
  /\ crashes < MaxCrashes
  /\ crashes' = crashes + 1
  /\ reason' = ReasonIdle
  /\ UNCHANGED <<row, age, stale, candidate, announced, playbooks, escalation, api>>

\* The playbook engine and the escalator are tasks of one process.
NotifyCrashes ==
  /\ crashes < MaxCrashes
  /\ crashes' = crashes + 1
  /\ playbook' = PlaybookIdle
  /\ ran' = {}
  /\ acts' = [p \in Playbooks |-> 0]
  /\ locked' = FALSE
  /\ escalator' = EscalatorIdle
  /\ UNCHANGED <<status, verdict, attributes, age, stale, candidate, announced,
                 reason, paged, api>>

Reason ==
  \/ ReasonTakes
  \/ ReasonDefers
  \/ \E v \in Verdicts : ReasonReads(v)
  \/ \E brings \in BOOLEAN : ReasonDecides(brings)
  \/ ReasonPublishes
  \/ ReasonCommitsOffset

Playbook ==
  \/ PlaybookTakes
  \/ PlaybookOpensCase
  \/ PlaybookSends
  \/ PlaybookAsks
  \/ PlaybookGoesOn
  \/ PlaybookCommits
  \/ PlaybookCommitsOffset

Escalator ==
  \/ EscalatorSelects
  \/ EscalatorPages
  \/ EscalatorCommits

Requests ==
  \E o \in Clients :
    \/ \E op \in {"investigate"} \cup DOMAIN StatusOf :
         o \in Operators /\ RequestLoads(o, op)
    \/ IncidentAction(o)
    \/ IncidentInvestigate(o)
    \/ RequestFails(o)

Next ==
  \/ Reason \/ ReasonRaises
  \/ Playbook \/ PlaybookRaises
  \/ Escalator \/ EscalatorRaises
  \/ Requests
  \/ AgeAdvances \/ CandidateGoesStale
  \/ ReasonCrashes \/ NotifyCrashes

Spec == Init /\ [][Next]_vars

\* Every task of an event loop keeps being scheduled, and no dependency fails
\* for ever.
Fairness ==
  /\ SF_vars(ReasonTakes) /\ SF_vars(ReasonDefers)
  /\ SF_vars(\E v \in Verdicts : ReasonReads(v))
  /\ SF_vars(\E brings \in BOOLEAN : ReasonDecides(brings))
  /\ WF_vars(PlaybookTakes) /\ WF_vars(PlaybookOpensCase) /\ WF_vars(PlaybookSends)
  /\ WF_vars(PlaybookGoesOn) /\ WF_vars(PlaybookCommits)
  /\ WF_vars(AgeAdvances)
  /\ SF_vars(EscalatorSelects) /\ SF_vars(EscalatorPages)
  /\ \A o \in Clients : WF_vars(IncidentAction(o)) /\ WF_vars(IncidentInvestigate(o))

-----------------------------------------------------------------------------
\* engine.py:116-126 of the reason service.  Whatever is announced downstream is
\* the verdict on record: redeliveries and restarts never change it.
AnnouncedIsOnRecord == announced \subseteq {verdict}

\* playbooks.py:95-98.  A playbook's mails and webhooks go out at most once in
\* the life of the process, however often the handler fails and is retried.
RunsOncePerLife == \A p \in Playbooks : acts[p] <= 1

\* escalation.py:86-88.  No level of the chain is skipped: whoever is paged at
\* the second level, the first was paged before.
NoLevelSkipped == paged[2] > 0 => paged[1] > 0

\* escalation.py:72-74.  Nobody is paged for an incident the model rejected or
\* could not verify.
OnlyConfirmedPaged == paged[1] + paged[2] > 0 => verdict = "confirmed"

\* reason engine.py:100-103 and 119-126.  Each candidate ends with a verdict, with
\* the mark that says it was deferred, or in the DLQ.
CandidateSettles == <>(verdict # None \/ attributes.deferred \/ "reason" \in dlq)

\* escalation.py:3-5.  A confirmed incident nobody takes is paged to the on-call
\* contact (while it is young enough to escalate).
UnackedIsPaged ==
  (verdict = "confirmed" /\ status = "new") ~> (paged[1] > 0 \/ status # "new")

\* playbooks.py:167-182.  Every request is answered, also those that wait for the
\* row a playbook holds while it waits for the API.
RequestsAnswered == \A o \in Clients : request[o].op # "none" ~> request[o].op = "none"

\* kafka.py:138-139, "no event is ever silently lost".  A verdict on record is
\* announced, unless the candidate is still to be handled or is in the DLQ.
VerdictIsAnnounced == verdict # None => announced # {} \/ "reason" \in pending \cup dlq

\* playbooks.py:167.  The playbook never waits for a request that waits for it.
NoMutualWait ==
  ~(playbook.at = "waiting" /\ locked /\ request["playbooks"].op = "investigate")
=============================================================================
