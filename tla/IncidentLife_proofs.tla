------------------------- MODULE IncidentLife_proofs -------------------------
(***************************************************************************)
(* What holds of an incident whatever its severity and playbooks, however  *)
(* many users the API has and however often a service fails or restarts:   *)
(* the verdict announced is the one on record, only confirmed incidents    *)
(* are paged, no level of the escalation chain is skipped, a playbook      *)
(* sends once in the life of a process, and no candidate is dropped.       *)
(***************************************************************************)
EXTENDS IncidentLife, TLAPS

\* The reason service decides an undecided incident and publishes what it
\* decided.
Deciding ==
  /\ reason.at \in {"verifying", "deciding"} => verdict = None
  /\ reason.at = "deciding" => reason.result \in Verdicts
  /\ reason.at = "publishing" => reason.result = verdict /\ verdict # None
  /\ verdict = None => announced = {}
  /\ verdict \in Verdicts \cup {None}

\* A copy of the attributes says "level l" only if level 1 was paged.
Grounded(a) == a.level > 0 => paged[1] > 0

Paging ==
  /\ paged \in [1 .. 2 -> Nat]
  /\ age \in 0 .. 3
  /\ escalator.at = "paging" =>
       /\ verdict = "confirmed"
       /\ escalator.level \in 0 .. 2 /\ escalator.due \in 0 .. 2
       /\ escalator.level > 0 => paged[1] > 0
       /\ Grounded(escalator.seen)

Levels ==
  /\ attributes \in Attributes /\ Grounded(attributes)
  /\ reason.seen \in Attributes /\ Grounded(reason.seen)
  /\ escalator.seen \in Attributes
  /\ DOMAIN request = Clients
  /\ \A o \in Clients : request[o].seen \in Attributes /\ Grounded(request[o].seen)

IInv == Deciding /\ Paging /\ Levels /\ AnnouncedIsOnRecord /\ NoLevelSkipped
          /\ OnlyConfirmedPaged

LEMMA InitIInv == Init => IInv
<1> SUFFICES ASSUME Init PROVE IInv
  OBVIOUS
<1>1. NoAttributes \in Attributes /\ NoAttributes.level = 0
  BY DEF NoAttributes, Attributes
<1>2. Deciding /\ AnnouncedIsOnRecord
  BY DEF Init, Deciding, AnnouncedIsOnRecord, ReasonIdle
<1>3. Paging /\ NoLevelSkipped /\ OnlyConfirmedPaged
  BY DEF Init, Paging, NoLevelSkipped, OnlyConfirmedPaged, EscalatorIdle
<1>4. Levels
  BY <1>1 DEF Init, Levels, Grounded, ReasonIdle, EscalatorIdle, NoRequest
<1>5. QED
  BY <1>2, <1>3, <1>4 DEF IInv

\* A step that leaves the verdict and the pages alone, and copies attributes
\* only from where attributes were, keeps everything but what the reason
\* service's own state says.
LEMMA CopiesKeep ==
  ASSUME IInv, UNCHANGED <<verdict, paged, announced, escalator>>, age' \in 0 .. 3,
         attributes' \in Attributes, attributes'.level > 0 => paged[1] > 0,
         reason'.seen \in Attributes, reason'.seen.level > 0 => paged[1] > 0,
         DOMAIN request' = Clients,
         \A o \in Clients : request'[o].seen \in Attributes
                            /\ (request'[o].seen.level > 0 => paged[1] > 0)
  PROVE  Paging' /\ Levels' /\ AnnouncedIsOnRecord' /\ NoLevelSkipped' /\ OnlyConfirmedPaged'
<1> USE DEF IInv, Paging, Levels, Grounded
<1>1. Paging' /\ Levels'
  OBVIOUS
<1>2. AnnouncedIsOnRecord' /\ NoLevelSkipped' /\ OnlyConfirmedPaged'
  BY DEF AnnouncedIsOnRecord, NoLevelSkipped, OnlyConfirmedPaged
<1>3. QED
  BY <1>1, <1>2

LEMMA IdleFacts ==
  /\ ReasonIdle.at = "idle" /\ ReasonIdle.seen \in Attributes /\ ReasonIdle.seen.level = 0
  /\ NoRequest.seen \in Attributes /\ NoRequest.seen.level = 0
  /\ EscalatorIdle.at = "idle" /\ EscalatorIdle.seen \in Attributes
BY DEF ReasonIdle, NoRequest, EscalatorIdle, NoAttributes, Attributes

\* The reason service's handler.
LEMMA ReasonKeeps == IInv /\ (Reason \/ ReasonRaises \/ ReasonCrashes) => IInv'
<1> SUFFICES ASSUME IInv, Reason \/ ReasonRaises \/ ReasonCrashes PROVE IInv'
  OBVIOUS
<1> USE DEF IInv, world, escalation, api, row
<1>1. CASE ReasonTakes
  <2>1. UNCHANGED <<verdict, paged, announced, escalator, age, attributes, request>>
    BY <1>1 DEF ReasonTakes
  <2>2. reason'.at = IF Shed THEN "deferring"
                     ELSE IF AlreadyVerified THEN "handled" ELSE "verifying"
    BY <1>1 DEF ReasonTakes
  <2>3. reason'.seen = attributes \/ reason'.seen = reason.seen
    BY <1>1 DEF ReasonTakes
  <2>4. Deciding'
    BY <2>1, <2>2 DEF Deciding, AlreadyVerified
  <2>5. QED
    BY <2>1, <2>3, <2>4, CopiesKeep DEF Levels, Grounded, Paging
<1>2. CASE ReasonDefers
  <2>1. UNCHANGED <<verdict, paged, announced, escalator, age, request>>
    BY <1>2 DEF ReasonDefers
  <2>2. reason'.at = "handled" /\ reason'.seen = ReasonIdle.seen
    BY <1>2 DEF ReasonDefers, ReasonIdle
  <2>3. attributes' \in Attributes /\ attributes'.level = reason.seen.level
    BY <1>2 DEF ReasonDefers, Marked, Levels, Attributes
  <2>4. Deciding'
    BY <2>1, <2>2 DEF Deciding
  <2>5. QED
    BY <2>1, <2>2, <2>3, <2>4, CopiesKeep, IdleFacts DEF Levels, Grounded, Paging
<1>3. ASSUME NEW v \in Verdicts, ReasonReads(v)
      PROVE  IInv'
  <2>1. UNCHANGED <<verdict, paged, announced, escalator, age, attributes, request>>
    BY <1>3 DEF ReasonReads
  <2>2. reason.at = "verifying"
        /\ reason' = [reason EXCEPT !.at = "deciding", !.result = v, !.status = status,
                                    !.seen = attributes]
    BY <1>3 DEF ReasonReads
  <2>3. Deciding'
    BY <2>1, <2>2 DEF Deciding
  <2>4. QED
    BY <2>1, <2>2, <2>3, CopiesKeep DEF Levels, Grounded, Paging
<1>4. ASSUME NEW b \in BOOLEAN, ReasonDecides(b)
      PROVE  IInv'
  <2>1. UNCHANGED <<paged, announced, escalator, age, request>>
    BY <1>4 DEF ReasonDecides
  <2>2. /\ reason.at = "deciding" /\ verdict = None /\ verdict' = reason.result
        /\ reason.result \in Verdicts
    BY <1>4 DEF ReasonDecides, Deciding
  <2>3. reason'.at = "publishing" /\ reason'.result = reason.result
        /\ reason'.seen = NoAttributes
    BY <1>4 DEF ReasonDecides
  <2>4. attributes' = reason.seen \/ attributes' = attributes
    BY <1>4 DEF ReasonDecides
  <2>5. announced = {} /\ ~(escalator.at = "paging") /\ paged[1] + paged[2] = 0
    BY <2>2, PlaybooksAssumption DEF Deciding, Paging, OnlyConfirmedPaged, Verdicts
  <2>6. verdict' # None
    BY <2>2, PlaybooksAssumption DEF Verdicts
  <2>7. Deciding' /\ AnnouncedIsOnRecord'
    BY <2>1, <2>2, <2>3, <2>5, <2>6 DEF Deciding, AnnouncedIsOnRecord
  <2>8. Paging' /\ NoLevelSkipped' /\ OnlyConfirmedPaged'
    BY <2>1, <2>5 DEF Paging, NoLevelSkipped, OnlyConfirmedPaged
  <2>9. Levels'
    BY <2>1, <2>3, <2>4 DEF Levels, Grounded, NoAttributes, Attributes
  <2>10. QED
    BY <2>7, <2>8, <2>9
<1>5. CASE ReasonPublishes
  <2>1. UNCHANGED <<verdict, paged, escalator, age, attributes, request>>
    BY <1>5 DEF ReasonPublishes
  <2>2. reason.at = "publishing" /\ announced' = announced \cup {verdict}
    BY <1>5 DEF ReasonPublishes, Deciding
  <2>3. reason'.at = "handled" /\ reason'.seen = ReasonIdle.seen
    BY <1>5 DEF ReasonPublishes, ReasonIdle
  <2>4. verdict # None
    BY <2>2 DEF Deciding
  <2>5. Deciding' /\ AnnouncedIsOnRecord'
    BY <2>1, <2>2, <2>3, <2>4 DEF Deciding, AnnouncedIsOnRecord
  <2>6. Paging' /\ Levels' /\ NoLevelSkipped' /\ OnlyConfirmedPaged'
    BY <2>1, <2>3, IdleFacts DEF Paging, Levels, Grounded, NoLevelSkipped, OnlyConfirmedPaged
  <2>7. QED
    BY <2>5, <2>6
<1>6. CASE ReasonRaises \/ ReasonCommitsOffset \/ ReasonCrashes
  <2>1. UNCHANGED <<verdict, paged, escalator, age, attributes, request>>
    BY <1>6 DEF ReasonRaises, ReasonCommitsOffset, ReasonCrashes
  <2>2. \/ announced' = announced
        \/ announced' = announced \cup {verdict} /\ verdict # None
    BY <1>6 DEF ReasonRaises, ReasonCommitsOffset, ReasonCrashes, Deciding
  <2>3. reason'.at \in {"idle", "handled"} /\ reason'.seen = ReasonIdle.seen
    BY <1>6 DEF ReasonRaises, Retried, ReasonCommitsOffset, ReasonCrashes, ReasonIdle
  <2>4. Deciding' /\ AnnouncedIsOnRecord'
    BY <2>1, <2>2, <2>3 DEF Deciding, AnnouncedIsOnRecord
  <2>5. Paging' /\ Levels' /\ NoLevelSkipped' /\ OnlyConfirmedPaged'
    BY <2>1, <2>3, IdleFacts DEF Paging, Levels, Grounded, NoLevelSkipped, OnlyConfirmedPaged
  <2>6. QED
    BY <2>4, <2>5
<1>7. QED
  BY <1>1, <1>2, <1>3, <1>4, <1>5, <1>6 DEF Reason

\* The playbooks, time and crashes leave verdict, pages and attributes alone.
LEMMA OthersKeep ==
  IInv /\ (Playbook \/ PlaybookRaises \/ AgeAdvances \/ CandidateGoesStale) => IInv'
<1> SUFFICES ASSUME IInv, Playbook \/ PlaybookRaises \/ AgeAdvances \/ CandidateGoesStale
             PROVE  IInv'
  OBVIOUS
<1> USE DEF IInv, world, escalation, api, row
<1>1. UNCHANGED <<verdict, paged, announced, escalator, attributes, reason>>
  BY DEF Playbook, PlaybookTakes, PlaybookOpensCase, PlaybookSends, PlaybookAsks,
     PlaybookGoesOn, PlaybookCommits, PlaybookCommitsOffset, PlaybookRaises,
     AgeAdvances, CandidateGoesStale
<1>2. age' \in 0 .. 3
  BY BoundsAssumption DEF Playbook, PlaybookTakes, PlaybookOpensCase, PlaybookSends,
     PlaybookAsks, PlaybookGoesOn, PlaybookCommits, PlaybookCommitsOffset, PlaybookRaises,
     AgeAdvances, CandidateGoesStale, Paging
<1>3. /\ DOMAIN request' = Clients
      /\ \A o \in Clients : request'[o].seen = request[o].seen \/ request'[o].seen = attributes
  <2>1. CASE PlaybookAsks
    BY <2>1 DEF PlaybookAsks, NoRequest, Levels
  <2>2. CASE request' = request
    BY <2>2 DEF Levels
  <2>3. PlaybookAsks \/ request' = request
    BY DEF Playbook, PlaybookTakes, PlaybookOpensCase, PlaybookSends,
       PlaybookGoesOn, PlaybookCommits, PlaybookCommitsOffset, PlaybookRaises,
       AgeAdvances, CandidateGoesStale
  <2>4. QED
    BY <2>1, <2>2, <2>3
<1>4. Deciding'
  BY <1>1 DEF Deciding
<1>5. QED
  BY <1>1, <1>2, <1>3, <1>4, CopiesKeep DEF Levels, Grounded

LEMMA EscalatorKeeps == IInv /\ (Escalator \/ EscalatorRaises \/ NotifyCrashes) => IInv'
<1> SUFFICES ASSUME IInv, Escalator \/ EscalatorRaises \/ NotifyCrashes PROVE IInv'
  OBVIOUS
<1> USE DEF IInv, world, escalation, api, row
<1>1. UNCHANGED <<verdict, announced, reason, request, age>>
  BY DEF Escalator, EscalatorSelects, EscalatorPages, EscalatorCommits, EscalatorRaises,
     NotifyCrashes
<1>2. Deciding' /\ AnnouncedIsOnRecord'
  BY <1>1 DEF Deciding, AnnouncedIsOnRecord
<1>3. CASE EscalatorSelects
  <2>1. /\ UNCHANGED <<paged, attributes>> /\ verdict = "confirmed"
        /\ escalator' = [at |-> "paging", level |-> attributes.level, due |-> age,
                         seen |-> attributes]
    BY <1>3 DEF EscalatorSelects, Unacked
  <2>2. age \in 0 .. 2 /\ attributes.level \in 0 .. 2
    BY <1>3 DEF EscalatorSelects, Unacked, Paging, Levels, Attributes
  <2>3. Paging' /\ Levels' /\ NoLevelSkipped' /\ OnlyConfirmedPaged'
    BY <1>1, <2>1, <2>2 DEF Paging, Levels, Grounded, NoLevelSkipped, OnlyConfirmedPaged
  <2>4. QED
    BY <1>2, <2>3
<1>4. CASE EscalatorPages
  <2> DEFINE l == escalator.level + 1
  <2>1. /\ UNCHANGED attributes /\ verdict = "confirmed" /\ escalator.at = "paging"
        /\ escalator.level \in 0 .. 2 /\ escalator.due \in 0 .. 2
        /\ escalator.level < escalator.due
        /\ paged' = [paged EXCEPT ![l] = Counted(@)]
        /\ escalator' = [escalator EXCEPT !.level = l]
    BY <1>4 DEF EscalatorPages, NextLevel, Paging
  <2>2. l \in 1 .. 2 /\ paged \in [1 .. 2 -> Nat]
    BY <2>1 DEF Paging
  <2>3. \A n \in Nat : Counted(n) \in Nat /\ Counted(n) > 0 /\ Counted(n) >= n
    BY BoundsAssumption DEF Counted
  <2>4. /\ paged' \in [1 .. 2 -> Nat] /\ paged'[l] > 0
        /\ paged[1] > 0 => paged'[1] > 0
        /\ l = 1 => paged'[2] = paged[2]
    BY <2>1, <2>2, <2>3
  <2>5. paged'[1] > 0
    <3>1. CASE l = 1
      BY <2>4, <3>1
    <3>2. CASE l = 2
      BY <2>1, <2>4, <3>2 DEF Paging
    <3>3. QED
      BY <2>2, <3>1, <3>2
  <2>6. Paging' /\ Levels' /\ NoLevelSkipped' /\ OnlyConfirmedPaged'
    BY <1>1, <2>1, <2>2, <2>4, <2>5 DEF Paging, Levels, Grounded, NoLevelSkipped,
       OnlyConfirmedPaged
  <2>7. QED
    BY <1>2, <2>6
<1>5. CASE EscalatorCommits
  <2>1. UNCHANGED paged /\ escalator' = EscalatorIdle
    BY <1>5 DEF EscalatorCommits
  <2>2. /\ attributes' \in Attributes
        /\ attributes'.level > 0 => paged[1] > 0
    BY <1>5 DEF EscalatorCommits, Paging, Levels, Attributes
  <2>3. Paging' /\ Levels' /\ NoLevelSkipped' /\ OnlyConfirmedPaged'
    BY <1>1, <2>1, <2>2, IdleFacts DEF Paging, Levels, Grounded, NoLevelSkipped,
       OnlyConfirmedPaged
  <2>4. QED
    BY <1>2, <2>3
<1>6. CASE EscalatorRaises \/ NotifyCrashes
  <2>1. UNCHANGED <<paged, attributes>> /\ escalator' = EscalatorIdle
    BY <1>6 DEF EscalatorRaises, NotifyCrashes
  <2>2. Paging' /\ Levels' /\ NoLevelSkipped' /\ OnlyConfirmedPaged'
    BY <1>1, <2>1, IdleFacts DEF Paging, Levels, Grounded, NoLevelSkipped, OnlyConfirmedPaged
  <2>3. QED
    BY <1>2, <2>2
<1>7. QED
  BY <1>3, <1>4, <1>5, <1>6 DEF Escalator

LEMMA RequestsKeep == IInv /\ Requests => IInv'
<1> SUFFICES ASSUME IInv, NEW o \in Clients,
                    \/ \E op \in {"investigate"} \cup DOMAIN StatusOf :
                         o \in Operators /\ RequestLoads(o, op)
                    \/ IncidentAction(o)
                    \/ IncidentInvestigate(o)
                    \/ RequestFails(o)
             PROVE  IInv'
  BY DEF Requests
<1> USE DEF IInv, world, escalation, row
<1>1. UNCHANGED <<verdict, paged, announced, escalator, reason, age>>
  BY DEF RequestLoads, IncidentAction, IncidentInvestigate, RequestFails
<1>2. Deciding'
  BY <1>1 DEF Deciding
<1>3. /\ DOMAIN request' = Clients
      /\ \A c \in Clients :
           request'[c].seen \in {request[c].seen, attributes, NoRequest.seen}
  <2>1. ASSUME NEW op \in {"investigate"} \cup DOMAIN StatusOf, RequestLoads(o, op)
        PROVE  /\ DOMAIN request' = Clients
               /\ \A c \in Clients :
                 request'[c].seen \in {request[c].seen, attributes, NoRequest.seen}
    <3>1. PICK q : request' = [request EXCEPT ![o] = q]
                   /\ (q = [NoRequest EXCEPT !.op = op, !.seen = attributes]
                       \/ q = [NoRequest EXCEPT !.op = op, !.status = status])
      BY <2>1 DEF RequestLoads
    <3>2. q.seen \in {attributes, NoRequest.seen}
      BY <3>1 DEF NoRequest
    <3>3. QED
      BY <3>1, <3>2 DEF Levels
  <2>2. CASE IncidentAction(o) \/ IncidentInvestigate(o) \/ RequestFails(o)
    <3>1. request' = [request EXCEPT ![o] = NoRequest]
      BY <2>2 DEF IncidentAction, IncidentInvestigate, RequestFails
    <3>2. QED
      BY <3>1 DEF Levels
  <2>3. QED
    BY <2>1, <2>2
<1>4. attributes' \in Attributes /\ (attributes'.level > 0 => paged[1] > 0)
  <2>1. CASE IncidentInvestigate(o)
    BY <2>1 DEF IncidentInvestigate, Levels, Grounded, Attributes
  <2>2. CASE attributes' = attributes
    BY <2>2 DEF Levels, Grounded
  <2>3. QED
    BY <2>1, <2>2 DEF RequestLoads, IncidentAction, RequestFails
<1>5. QED
  BY <1>1, <1>2, <1>3, <1>4, CopiesKeep, IdleFacts DEF Levels, Grounded, Paging

LEMMA NextIInv == IInv /\ [Next]_vars => IInv'
<1> SUFFICES ASSUME IInv, UNCHANGED vars PROVE IInv'
  BY ReasonKeeps, OthersKeep, EscalatorKeeps, RequestsKeep DEF Next
<1>1. UNCHANGED <<verdict, paged, announced, escalator, reason, age, attributes, request>>
  BY DEF vars, row, world, escalation, api
<1>2. QED
  BY <1>1 DEF IInv, Deciding, Paging, Levels, Grounded, AnnouncedIsOnRecord,
     NoLevelSkipped, OnlyConfirmedPaged

LEMMA Inductive == Spec => []IInv
BY InitIInv, NextIInv, PTL DEF Spec

\* reason engine.py:116-126.  The verdict the services downstream hear of is the
\* one on record, through every retry, redelivery and restart.
THEOREM OneVerdict == Spec => []AnnouncedIsOnRecord
BY Inductive, PTL DEF IInv

\* escalation.py:72-74 and 86-88.  The on-call contact is paged only for confirmed
\* incidents, and the second level never before the first, although the level on
\* record can be lost to another writer of the attributes.
THEOREM ChainInOrder == Spec => [](OnlyConfirmedPaged /\ NoLevelSkipped)
BY Inductive, PTL DEF IInv

\* escalation.py:72-74.  However the sweep, the model, the playbooks and the operators
\* interleave, only a confirmed incident is paged.
THEOREM PagesNeedAVerdict == Spec => []OnlyConfirmedPaged
BY Inductive, PTL DEF IInv

-----------------------------------------------------------------------------
\* A playbook that has sent is remembered as run, and one on its way to sending is
\* remembered and has not sent.
Remembered ==
  /\ acts \in [Playbooks -> Nat]
  /\ \A p \in Playbooks : p \notin ran => acts[p] = 0
  /\ {"at", "name"} \subseteq DOMAIN playbook
  /\ playbook.at \in {"acting", "sending"} =>
       playbook.name \in Playbooks /\ playbook.name \in ran /\ acts[playbook.name] = 0

LEMMA NextRemembers ==
  ASSUME verdict \in Verdicts \cup {None}, Remembered, RunsOncePerLife, [Next]_vars
  PROVE  Remembered' /\ RunsOncePerLife'
<1> USE DEF Remembered, RunsOncePerLife
<1>1. CASE PlaybookTakes
  <2> DEFINE p == PlaybookFor[verdict]
  <2>1. CASE p = None \/ p \in ran
    <3>1. UNCHANGED <<ran, acts>> /\ playbook' = [PlaybookIdle EXCEPT !.at = "handled"]
      BY <1>1, <2>1 DEF PlaybookTakes
    <3> QED BY <3>1 DEF PlaybookIdle
  <2>2. CASE p # None /\ p \notin ran
    <3>1. /\ UNCHANGED acts /\ ran' = ran \cup {p}
          /\ playbook' = [playbook EXCEPT !.at = "acting", !.name = p, !.status = status]
      BY <1>1, <2>2 DEF PlaybookTakes, RanBefore
    <3>2. p \in Playbooks
      BY <2>2, PlaybooksAssumption
    <3> QED BY <3>1, <3>2, <2>2
  <2> QED BY <2>1, <2>2
<1>2. CASE PlaybookOpensCase
  BY <1>2 DEF PlaybookOpensCase
<1>3. CASE PlaybookSends
  <2> DEFINE p == playbook.name
  <2>1. p \in Playbooks /\ p \in ran /\ acts[p] = 0
    BY <1>3 DEF PlaybookSends
  <2>2. acts' = [acts EXCEPT ![p] = 1] /\ UNCHANGED ran
    <3>1. Counted(0) = 1
      BY BoundsAssumption DEF Counted
    <3> QED BY <1>3, <2>1, <3>1 DEF PlaybookSends
  <2>3. playbook'.at \in {"asking", "committing"} /\ {"at", "name"} \subseteq DOMAIN playbook'
    BY <1>3 DEF PlaybookSends
  <2> QED BY <2>1, <2>2, <2>3
<1>4. CASE PlaybookAsks \/ PlaybookGoesOn
  BY <1>4 DEF PlaybookAsks, PlaybookGoesOn
<1>5. CASE PlaybookCommits \/ PlaybookCommitsOffset
  BY <1>5 DEF PlaybookCommits, PlaybookCommitsOffset, PlaybookIdle
<1>6. CASE PlaybookRaises
  <2>1. /\ playbook'.at \in {"idle", "handled"} /\ {"at", "name"} \subseteq DOMAIN playbook'
        /\ UNCHANGED <<acts, ran>>
    BY <1>6 DEF PlaybookRaises, Retried, PlaybookIdle
  <2> QED BY <2>1
<1>7. CASE NotifyCrashes
  BY <1>7 DEF NotifyCrashes, PlaybookIdle
<1>8. ASSUME UNCHANGED playbooks PROVE Remembered' /\ RunsOncePerLife'
  BY <1>8 DEF playbooks
<1>9. CASE Reason \/ ReasonRaises \/ ReasonCrashes
  BY <1>8, <1>9 DEF Reason, ReasonTakes, ReasonDefers, ReasonReads, ReasonDecides,
     ReasonPublishes, ReasonCommitsOffset, ReasonRaises, ReasonCrashes
<1>10. CASE Escalator \/ EscalatorRaises
  BY <1>8, <1>10 DEF Escalator, EscalatorSelects, EscalatorPages, EscalatorCommits,
     EscalatorRaises
<1>11. CASE Requests
  BY <1>8, <1>11 DEF Requests, RequestLoads, IncidentAction, IncidentInvestigate, RequestFails
<1>12. CASE AgeAdvances \/ CandidateGoesStale \/ UNCHANGED vars
  BY <1>8, <1>12 DEF AgeAdvances, CandidateGoesStale, vars
<1> QED
  BY <1>1, <1>2, <1>3, <1>4, <1>5, <1>6, <1>7, <1>9, <1>10, <1>11, <1>12 DEF Next, Playbook

\* playbooks.py:95-98.  However often the handler fails and is retried and the message
\* redelivered, a playbook's mails and webhooks go out once in the life of the process.
THEOREM SendsOncePerLife == Spec => []RunsOncePerLife
<1>1. Init => Remembered /\ RunsOncePerLife
  BY DEF Init, Remembered, RunsOncePerLife, PlaybookIdle
<1>2. IInv => verdict \in Verdicts \cup {None}
  BY DEF IInv, Deciding
<1>3. IInv /\ Remembered /\ RunsOncePerLife /\ [Next]_vars => (Remembered /\ RunsOncePerLife)'
  BY <1>2, NextRemembers
<1> QED BY <1>1, <1>3, Inductive, PTL DEF Spec
-----------------------------------------------------------------------------
\* What the reason service owes a candidate: a verdict, a place in the DLQ, or under
\* backpressure a deferral.
Settled == verdict # None \/ "reason" \in dlq \/ Shed
CandidateKept == "reason" \in pending \/ Settled

SettledFirst ==
  /\ CandidateKept
  /\ reason.at = "handled" => Settled
  /\ reason.at = "deferring" => Shed

LEMMA SettledStays ==
  ASSUME IInv, IInv', [Next]_vars PROVE Settled => Settled'
<1>1. stale => stale'
  BY DEF Next, Reason, ReasonTakes, ReasonDefers, ReasonReads, ReasonDecides, ReasonPublishes,
     ReasonCommitsOffset, ReasonRaises, ReasonCrashes, Playbook, PlaybookTakes,
     PlaybookOpensCase, PlaybookSends, PlaybookAsks, PlaybookGoesOn, PlaybookCommits,
     PlaybookCommitsOffset, PlaybookRaises, Escalator, EscalatorSelects, EscalatorPages,
     EscalatorCommits, EscalatorRaises, NotifyCrashes, Requests, RequestLoads, IncidentAction,
     IncidentInvestigate, RequestFails, AgeAdvances, CandidateGoesStale, vars, world
<1>2. dlq \subseteq dlq'
  BY DEF Next, Reason, ReasonTakes, ReasonDefers, ReasonReads, ReasonDecides, ReasonPublishes,
     ReasonCommitsOffset, ReasonRaises, ReasonCrashes, Playbook, PlaybookTakes,
     PlaybookOpensCase, PlaybookSends, PlaybookAsks, PlaybookGoesOn, PlaybookCommits,
     PlaybookCommitsOffset, PlaybookRaises, Escalator, EscalatorSelects, EscalatorPages,
     EscalatorCommits, EscalatorRaises, NotifyCrashes, Requests, RequestLoads, IncidentAction,
     IncidentInvestigate, RequestFails, AgeAdvances, CandidateGoesStale, vars, candidate, Retried
<1>3. verdict' = verdict \/ verdict' \in Verdicts
  <2>1. CASE \E b \in BOOLEAN : ReasonDecides(b)
    BY <2>1 DEF ReasonDecides, IInv, Deciding
  <2>2. CASE ~\E b \in BOOLEAN : ReasonDecides(b)
    BY <2>2 DEF Next, Reason, ReasonTakes, ReasonDefers, ReasonReads, ReasonPublishes,
     ReasonCommitsOffset, ReasonRaises, ReasonCrashes, Playbook, PlaybookTakes,
     PlaybookOpensCase, PlaybookSends, PlaybookAsks, PlaybookGoesOn, PlaybookCommits,
     PlaybookCommitsOffset, PlaybookRaises, Escalator, EscalatorSelects, EscalatorPages,
     EscalatorCommits, EscalatorRaises, NotifyCrashes, Requests, RequestLoads, IncidentAction,
     IncidentInvestigate, RequestFails, AgeAdvances, CandidateGoesStale, vars, row
  <2> QED BY <2>1, <2>2
<1>4. None \notin Verdicts
  BY PlaybooksAssumption
<1> QED BY <1>1, <1>2, <1>3, <1>4 DEF Settled, Shed

LEMMA NextSettles ==
  ASSUME IInv, IInv', SettledFirst, [Next]_vars PROVE SettledFirst'
<1>1. Settled => Settled'
  BY SettledStays
<1>2. ASSUME reason'.at \in {"handled", "deferring"} => reason' = reason, pending' = pending,
             stale' = stale
      PROVE  SettledFirst'
  BY <1>1, <1>2 DEF SettledFirst, CandidateKept, Shed
<1>3. CASE ReasonTakes
  <2>1. /\ reason'.at = IF Shed THEN "deferring"
                        ELSE IF AlreadyVerified THEN "handled" ELSE "verifying"
        /\ UNCHANGED <<pending, verdict, stale>>
    BY <1>3 DEF ReasonTakes, row, world, candidate
  <2> QED BY <1>1, <2>1 DEF SettledFirst, CandidateKept, Settled, Shed, AlreadyVerified
<1>4. CASE ReasonDefers
  BY <1>1, <1>4 DEF ReasonDefers, candidate, world, SettledFirst, CandidateKept, Settled, ReasonIdle
<1>5. CASE (\E v \in Verdicts : ReasonReads(v)) \/ (\E b \in BOOLEAN : ReasonDecides(b))
  <2>1. ASSUME NEW v \in Verdicts, ReasonReads(v)
        PROVE  reason'.at = "deciding" /\ UNCHANGED <<pending, stale>>
    BY <2>1 DEF ReasonReads, candidate, world
  <2>2. ASSUME NEW b \in BOOLEAN, ReasonDecides(b)
        PROVE  reason'.at = "publishing" /\ UNCHANGED <<pending, stale>>
    BY <2>2 DEF ReasonDecides, candidate, world
  <2> QED BY <1>2, <1>5, <2>1, <2>2
<1>6. CASE ReasonPublishes
  <2>1. reason'.at = "handled" /\ pending' = pending /\ Settled
    BY <1>6 DEF ReasonPublishes, candidate, IInv, Deciding, Settled, ReasonIdle
  <2> QED BY <1>1, <2>1 DEF SettledFirst, CandidateKept
<1>7. CASE ReasonRaises
  <2>1. UNCHANGED <<pending, stale>> /\ Retried(reason.failed, reason', ReasonIdle, "reason")
    BY <1>7 DEF ReasonRaises, world
  <2>2. reason'.at \in {"idle", "handled"} /\ (reason'.at = "handled" => "reason" \in dlq')
    BY <2>1 DEF Retried, ReasonIdle
  <2> QED BY <1>1, <2>1, <2>2 DEF SettledFirst, CandidateKept, Settled
<1>8. CASE ReasonCommitsOffset
  <2>1. Settled' /\ reason'.at = "idle"
    BY <1>1, <1>8 DEF ReasonCommitsOffset, SettledFirst, ReasonIdle
  <2> QED BY <2>1 DEF SettledFirst, CandidateKept
<1>9. CASE ReasonCrashes
  BY <1>2, <1>9 DEF ReasonCrashes, ReasonIdle, candidate
<1>10. CASE PlaybookCommitsOffset
  <2>1. pending' = pending \ {"playbooks"} /\ UNCHANGED <<reason, stale>>
    BY <1>10 DEF PlaybookCommitsOffset, world
  <2> QED BY <1>1, <2>1 DEF SettledFirst, CandidateKept, Shed
<1>11. CASE Playbook /\ ~PlaybookCommitsOffset
  BY <1>2, <1>11 DEF Playbook, PlaybookTakes, PlaybookOpensCase, PlaybookSends, PlaybookAsks,
     PlaybookGoesOn, PlaybookCommits, world, candidate
<1>12. CASE PlaybookRaises \/ NotifyCrashes \/ AgeAdvances
  BY <1>2, <1>12 DEF PlaybookRaises, NotifyCrashes, AgeAdvances, world, candidate
<1>13. CASE Escalator \/ EscalatorRaises
  BY <1>2, <1>13 DEF Escalator, EscalatorSelects, EscalatorPages, EscalatorCommits,
     EscalatorRaises, world, candidate
<1>14. CASE Requests
  BY <1>2, <1>14 DEF Requests, RequestLoads, IncidentAction, IncidentInvestigate, RequestFails,
     world, candidate
<1>15. CASE CandidateGoesStale
  BY <1>1, <1>15 DEF CandidateGoesStale, candidate, SettledFirst, CandidateKept, Shed
<1>16. CASE UNCHANGED vars
  BY <1>2, <1>16 DEF vars, world, candidate
<1> QED
  BY <1>3, <1>4, <1>5, <1>6, <1>7, <1>8, <1>9, <1>10, <1>11, <1>12, <1>13, <1>14, <1>15, <1>16
     DEF Next, Reason

\* kafka.py:138-139, reason engine.py:100-126.  The reason service lets go of a candidate
\* only with a verdict on record, in the DLQ, or shed under backpressure: no retry,
\* redelivery or restart drops it (that it comes to that is CandidateSettles).
THEOREM NoCandidateDropped == Spec => []CandidateKept
<1>1. Init => SettledFirst
  BY DEF Init, SettledFirst, CandidateKept, Consumers, ReasonIdle
<1>2. IInv /\ IInv' /\ SettledFirst /\ [Next]_vars => SettledFirst'
  BY NextSettles
<1>3. SettledFirst => CandidateKept
  BY DEF SettledFirst
<1> QED BY <1>1, <1>2, <1>3, Inductive, PTL DEF Spec
-----------------------------------------------------------------------------
\* What TypeOK says beyond IInv, by who writes what.
ReasonStates == [at : {"idle", "deferring", "verifying", "deciding", "publishing", "handled"},
                 result : Verdicts \cup {None}, status : Statuses,
                 seen : Attributes, failed : 0 .. MaxRetries - 1]
PlaybookStates == [at : {"idle", "acting", "sending", "asking", "waiting", "committing", "handled"},
                   name : Playbooks \cup {None}, status : Statuses, failed : 0 .. MaxRetries - 1]
EscalatorStates == [at : {"idle", "paging"}, level : 0 .. 2, due : 0 .. 2, seen : Attributes]
RequestStates == [op : {"none", "investigate"} \cup DOMAIN StatusOf,
                  status : Statuses, seen : Attributes]

RowTyped == status \in Statuses /\ locked \in BOOLEAN
WorldTyped == age \in 0 .. MaxAge /\ stale \in BOOLEAN /\ crashes \in 0 .. MaxCrashes
CandidateTyped == pending \subseteq Consumers /\ dlq \subseteq Consumers
ReasonTyped == reason \in ReasonStates
PlaybookTyped ==
  playbook \in PlaybookStates /\ ran \subseteq Playbooks /\ acts \in [Playbooks -> 0 .. MaxCount]
EscalatorTyped == escalator \in EscalatorStates /\ paged \in [1 .. 2 -> 0 .. MaxCount]
ApiTyped == request \in [Clients -> RequestStates] /\ requests \in 0 .. MaxRequests

TInv == RowTyped /\ WorldTyped /\ CandidateTyped /\ ReasonTyped /\ PlaybookTyped
          /\ EscalatorTyped /\ ApiTyped

LEMMA Bounds == MaxAge \in Nat /\ MaxRequests \in Nat /\ MaxCrashes \in Nat
BY BoundsAssumption

LEMMA IdleTyped ==
  /\ NoAttributes \in Attributes /\ ReasonIdle \in ReasonStates /\ PlaybookIdle \in PlaybookStates
  /\ EscalatorIdle \in EscalatorStates /\ NoRequest \in RequestStates
  /\ \A n \in 0 .. MaxCount : Counted(n) \in 0 .. MaxCount
<1>1. NoAttributes \in Attributes
  BY DEF NoAttributes, Attributes
<1>2. 0 \in 0 .. MaxRetries - 1
  BY BoundsAssumption
<1>3. "new" \in Statuses
  BY DEF Statuses
<1>4. ReasonIdle \in ReasonStates
  BY <1>1, <1>2, <1>3 DEF ReasonIdle, ReasonStates
<1>5. PlaybookIdle \in PlaybookStates
  BY <1>2, <1>3 DEF PlaybookIdle, PlaybookStates
<1>6. EscalatorIdle \in EscalatorStates
  BY <1>1 DEF EscalatorIdle, EscalatorStates
<1>7. NoRequest \in RequestStates
  BY <1>1, <1>3 DEF NoRequest, RequestStates
<1>8. \A n \in 0 .. MaxCount : Counted(n) \in 0 .. MaxCount
  BY BoundsAssumption DEF Counted
<1> QED BY <1>1, <1>4, <1>5, <1>6, <1>7, <1>8

\* A retry is of the same type as the idle handler, and gives up for one consumer.
LEMMA RetriedTyped ==
  ASSUME NEW failed \in 0 .. MaxRetries - 1, NEW next, NEW idle, NEW consumer,
         Retried(failed, next, idle, consumer)
  PROVE  /\ dlq' \subseteq dlq \cup {consumer}
         /\ idle \in ReasonStates => next \in ReasonStates
         /\ idle \in PlaybookStates => next \in PlaybookStates
<1>1. dlq' \subseteq dlq \cup {consumer}
  BY DEF Retried
<1>2. \/ failed + 1 < MaxRetries /\ next = [idle EXCEPT !.failed = failed + 1]
      \/ next = [idle EXCEPT !.at = "handled"]
      \/ next = idle
  BY DEF Retried
<1>3. failed + 1 < MaxRetries => failed + 1 \in 0 .. MaxRetries - 1
  BY BoundsAssumption
<1> QED BY <1>1, <1>2, <1>3 DEF ReasonStates, PlaybookStates

LEMMA ReasonTypes == IInv /\ TInv /\ (Reason \/ ReasonRaises) => TInv'
<1> SUFFICES ASSUME IInv, TInv, Reason \/ ReasonRaises PROVE TInv'
  OBVIOUS
<1> USE DEF TInv
<1>1. UNCHANGED <<locked, world, playbooks, escalation, api>>
  BY DEF Reason, ReasonTakes, ReasonDefers, ReasonReads, ReasonDecides, ReasonPublishes,
     ReasonCommitsOffset, ReasonRaises, row
<1>2. ASSUME status' \in Statuses, pending' \subseteq pending, dlq' \subseteq dlq \cup {"reason"},
             reason' \in ReasonStates
      PROVE  TInv'
  BY <1>1, <1>2 DEF RowTyped, WorldTyped, CandidateTyped, ReasonTyped, PlaybookTyped,
     EscalatorTyped, ApiTyped, world, playbooks, escalation, api, Consumers
<1>3. attributes \in Attributes
  BY DEF IInv, Levels
<1>4. CASE ReasonTakes
  <2>1. UNCHANGED <<row, candidate>>
    BY <1>4 DEF ReasonTakes
  <2>2. reason' \in ReasonStates
    BY <1>3, <1>4 DEF ReasonTakes, ReasonTyped, ReasonStates
  <2> QED BY <1>2, <2>1, <2>2 DEF row, candidate, RowTyped
<1>5. CASE ReasonDefers \/ ReasonPublishes
  <2>1. UNCHANGED <<status, candidate>> /\ reason' = [ReasonIdle EXCEPT !.at = "handled"]
    BY <1>5 DEF ReasonDefers, ReasonPublishes, row
  <2>2. reason' \in ReasonStates
    BY <2>1, IdleTyped DEF ReasonStates
  <2> QED BY <1>2, <2>1, <2>2 DEF candidate, RowTyped
<1>6. ASSUME NEW v \in Verdicts, ReasonReads(v) PROVE TInv'
  <2>1. UNCHANGED <<row, candidate>>
    BY <1>6 DEF ReasonReads
  <2>2. reason' \in ReasonStates
    BY <1>3, <1>6 DEF ReasonReads, RowTyped, ReasonTyped, ReasonStates
  <2> QED BY <1>2, <2>1, <2>2 DEF row, candidate, RowTyped
<1>7. ASSUME NEW b \in BOOLEAN, ReasonDecides(b) PROVE TInv'
  <2>1. /\ UNCHANGED candidate /\ status' \in {status, "false_positive"}
        /\ reason' = [reason EXCEPT !.at = "publishing", !.status = "new", !.seen = NoAttributes]
    BY <1>7 DEF ReasonDecides
  <2>2. reason' \in ReasonStates
    BY <2>1, IdleTyped DEF ReasonTyped, ReasonStates, Statuses
  <2> QED BY <1>2, <2>1, <2>2 DEF candidate, RowTyped, Statuses
<1>8. CASE ReasonRaises
  <2>1. UNCHANGED <<row, pending>> /\ Retried(reason.failed, reason', ReasonIdle, "reason")
    BY <1>8 DEF ReasonRaises
  <2>2. reason.failed \in 0 .. MaxRetries - 1
    BY DEF ReasonTyped, ReasonStates
  <2> QED BY <1>2, <2>1, <2>2, RetriedTyped, IdleTyped DEF row, RowTyped
<1>9. CASE ReasonCommitsOffset
  BY <1>2, <1>9, IdleTyped DEF ReasonCommitsOffset, row, RowTyped
<1> QED BY <1>4, <1>5, <1>6, <1>7, <1>8, <1>9 DEF Reason

LEMMA PlaybookTypes == IInv /\ TInv /\ (Playbook \/ PlaybookRaises) => TInv'
<1> SUFFICES ASSUME IInv, TInv, Playbook \/ PlaybookRaises PROVE TInv'
  OBVIOUS
<1> USE DEF TInv
<1>1. UNCHANGED <<world, reason, escalation, requests>>
  BY DEF Playbook, PlaybookTakes, PlaybookOpensCase, PlaybookSends, PlaybookAsks, PlaybookGoesOn,
     PlaybookCommits, PlaybookCommitsOffset, PlaybookRaises, api
<1>2. ASSUME status' \in Statuses, locked' \in BOOLEAN, pending' \subseteq pending,
             dlq' \subseteq dlq \cup {"playbooks"}, PlaybookTyped',
             request' \in [Clients -> RequestStates]
      PROVE  TInv'
  BY <1>1, <1>2 DEF RowTyped, WorldTyped, CandidateTyped, ReasonTyped, EscalatorTyped, ApiTyped,
     world, escalation, Consumers
<1>3. CASE PlaybookTakes
  <2> DEFINE p == PlaybookFor[verdict]
  <2>1. UNCHANGED <<row, candidate, acts, request>>
    BY <1>3 DEF PlaybookTakes, api
  <2>2. p \in Playbooks \cup {None}
    BY PlaybooksAssumption DEF IInv, Deciding
  <2> HIDE DEF p
  <2>3. \/ playbook' = [PlaybookIdle EXCEPT !.at = "handled"] /\ ran' = ran
        \/ /\ playbook' = [playbook EXCEPT !.at = "acting", !.name = p, !.status = status]
           /\ ran' = ran \cup {p} /\ p # None
    BY <1>3 DEF PlaybookTakes, RanBefore, p
  <2>4. playbook' \in PlaybookStates /\ ran' \subseteq Playbooks
    BY <2>2, <2>3, IdleTyped DEF PlaybookTyped, PlaybookStates, RowTyped
  <2> QED BY <1>2, <2>1, <2>4 DEF row, candidate, RowTyped, PlaybookTyped, ApiTyped
<1>4. CASE PlaybookOpensCase
  <2>1. UNCHANGED <<status, candidate, acts, ran, request>> /\ locked' \in BOOLEAN
        /\ playbook' = [playbook EXCEPT !.at = "sending"]
    BY <1>4 DEF PlaybookOpensCase, api, Escalates
  <2>2. playbook' \in PlaybookStates
    BY <2>1 DEF PlaybookTyped, PlaybookStates
  <2> QED BY <1>2, <2>1, <2>2 DEF candidate, RowTyped, PlaybookTyped, ApiTyped
<1>5. CASE PlaybookSends
  <2>1. /\ UNCHANGED <<row, candidate, ran, request>>
        /\ acts' = [acts EXCEPT ![playbook.name] = Counted(acts[playbook.name])]
        /\ \/ playbook' = [playbook EXCEPT !.at = "asking"]
           \/ playbook' = [playbook EXCEPT !.at = "committing"]
    BY <1>5 DEF PlaybookSends, api
  <2>2. playbook' \in PlaybookStates
    BY <2>1 DEF PlaybookTyped, PlaybookStates
  <2>3. acts' \in [Playbooks -> 0 .. MaxCount]
    BY <2>1, IdleTyped DEF PlaybookTyped
  <2> QED BY <1>2, <2>1, <2>2, <2>3 DEF row, candidate, RowTyped, PlaybookTyped, ApiTyped
<1>6. CASE PlaybookAsks
  <2>1. /\ UNCHANGED <<row, candidate, ran, acts>>
        /\ playbook' = [playbook EXCEPT !.at = "waiting"]
        /\ request' = [request EXCEPT !["playbooks"] =
                         [NoRequest EXCEPT !.op = "investigate", !.seen = attributes]]
    BY <1>6 DEF PlaybookAsks
  <2>2. playbook' \in PlaybookStates
    BY <2>1 DEF PlaybookTyped, PlaybookStates
  <2>3. [NoRequest EXCEPT !.op = "investigate", !.seen = attributes] \in RequestStates
    BY IdleTyped DEF RequestStates, IInv, Levels
  <2> QED BY <1>2, <2>1, <2>2, <2>3 DEF row, candidate, RowTyped, PlaybookTyped, ApiTyped
<1>7. CASE PlaybookGoesOn
  <2>1. UNCHANGED <<row, candidate, ran, acts, request>>
        /\ playbook' = [playbook EXCEPT !.at = "committing"]
    BY <1>7 DEF PlaybookGoesOn, api
  <2>2. playbook' \in PlaybookStates
    BY <2>1 DEF PlaybookTyped, PlaybookStates
  <2> QED BY <1>2, <2>1, <2>2 DEF row, candidate, RowTyped, PlaybookTyped, ApiTyped
<1>8. CASE PlaybookCommits
  <2>1. /\ UNCHANGED <<candidate, ran, acts, request>> /\ locked' = FALSE
        /\ status' \in {status, "escalated"} /\ playbook' = [PlaybookIdle EXCEPT !.at = "handled"]
    BY <1>8 DEF PlaybookCommits, api
  <2>2. playbook' \in PlaybookStates /\ status' \in Statuses
    BY <2>1, IdleTyped DEF PlaybookStates, RowTyped, Statuses
  <2> QED BY <1>2, <2>1, <2>2 DEF candidate, PlaybookTyped, ApiTyped
<1>9. CASE PlaybookRaises
  <2>1. /\ UNCHANGED <<status, pending, ran, acts, request>> /\ locked' = FALSE
        /\ Retried(playbook.failed, playbook', PlaybookIdle, "playbooks")
    BY <1>9 DEF PlaybookRaises, api
  <2>2. playbook.failed \in 0 .. MaxRetries - 1
    BY DEF PlaybookTyped, PlaybookStates
  <2>3. playbook' \in PlaybookStates /\ dlq' \subseteq dlq \cup {"playbooks"}
    BY <2>1, <2>2, RetriedTyped, IdleTyped
  <2> QED BY <1>2, <2>1, <2>3 DEF RowTyped, PlaybookTyped, ApiTyped
<1>10. CASE PlaybookCommitsOffset
  <2>1. /\ UNCHANGED <<row, dlq, ran, acts, request>> /\ pending' \subseteq pending
        /\ playbook' = PlaybookIdle
    BY <1>10 DEF PlaybookCommitsOffset, api
  <2> QED BY <1>2, <2>1, IdleTyped DEF row, RowTyped, PlaybookTyped, ApiTyped
<1> QED BY <1>3, <1>4, <1>5, <1>6, <1>7, <1>8, <1>9, <1>10 DEF Playbook

LEMMA EscalatorTypes == IInv /\ TInv /\ (Escalator \/ EscalatorRaises) => TInv'
<1> SUFFICES ASSUME IInv, TInv, Escalator \/ EscalatorRaises PROVE TInv'
  OBVIOUS
<1>1. UNCHANGED <<status, locked, world, candidate, reason, playbooks, api>>
  BY DEF Escalator, EscalatorSelects, EscalatorPages, EscalatorCommits, EscalatorRaises, row
<1>2. EscalatorTyped' => TInv'
  BY <1>1 DEF TInv, RowTyped, WorldTyped, CandidateTyped, ReasonTyped, PlaybookTyped, ApiTyped,
     world, candidate, playbooks, api
<1> USE DEF TInv, EscalatorTyped
<1>3. CASE EscalatorSelects
  <2>1. /\ paged' = paged
        /\ escalator' = [at |-> "paging", level |-> attributes.level, due |-> age,
                         seen |-> attributes]
    BY <1>3 DEF EscalatorSelects
  <2>2. attributes \in Attributes /\ attributes.level \in 0 .. 2
    BY DEF IInv, Levels, Attributes
  <2>3. age \in 0 .. 2
    BY <1>3 DEF EscalatorSelects, Unacked, IInv, Paging
  <2> QED BY <1>2, <2>1, <2>2, <2>3 DEF EscalatorStates
<1>4. CASE EscalatorPages
  <2> DEFINE l == escalator.level + 1
  <2>1. l \in 1 .. 2
    BY <1>4 DEF EscalatorPages, EscalatorStates
  <2>2. /\ paged' = [paged EXCEPT ![l] = Counted(paged[l])]
        /\ escalator' = [escalator EXCEPT !.level = l]
    BY <1>4 DEF EscalatorPages, NextLevel
  <2> HIDE DEF l
  <2>3. paged' \in [1 .. 2 -> 0 .. MaxCount]
    BY <2>1, <2>2, IdleTyped
  <2>4. escalator' \in EscalatorStates
    BY <2>1, <2>2 DEF EscalatorStates
  <2> QED BY <1>2, <2>3, <2>4
<1>5. CASE EscalatorCommits \/ EscalatorRaises
  BY <1>2, <1>5, IdleTyped DEF EscalatorCommits, EscalatorRaises
<1> QED BY <1>3, <1>4, <1>5 DEF Escalator

LEMMA RequestTypes == IInv /\ TInv /\ Requests => TInv'
<1> SUFFICES ASSUME IInv, TInv, NEW o \in Clients,
                    \/ \E op \in {"investigate"} \cup DOMAIN StatusOf :
                         o \in Operators /\ RequestLoads(o, op)
                    \/ IncidentAction(o)
                    \/ IncidentInvestigate(o)
                    \/ RequestFails(o)
             PROVE  TInv'
  BY DEF Requests
<1> USE DEF TInv
<1>1. UNCHANGED <<locked, world, candidate, reason, playbooks, escalation>>
  BY DEF RequestLoads, IncidentAction, IncidentInvestigate, RequestFails, row
<1>2. status' \in Statuses /\ ApiTyped' => TInv'
  BY <1>1 DEF RowTyped, WorldTyped, CandidateTyped, ReasonTyped, PlaybookTyped, EscalatorTyped,
     world, candidate, playbooks, escalation
<1>3. ASSUME NEW op \in {"investigate"} \cup DOMAIN StatusOf, RequestLoads(o, op) PROVE TInv'
  <2> DEFINE r == IF op = "investigate" THEN [NoRequest EXCEPT !.op = op, !.seen = attributes]
                                        ELSE [NoRequest EXCEPT !.op = op, !.status = status]
  <2>1. status' = status /\ requests' = requests + 1 /\ requests < MaxRequests
        /\ request' = [request EXCEPT ![o] = r]
    BY <1>3 DEF RequestLoads, row
  <2>2. r \in RequestStates
    BY IdleTyped DEF RequestStates, IInv, Levels, RowTyped
  <2> HIDE DEF r
  <2>3. requests' \in 0 .. MaxRequests
    BY <2>1, BoundsAssumption DEF ApiTyped
  <2> QED BY <1>2, <2>1, <2>2, <2>3 DEF ApiTyped, RowTyped
<1>4. CASE IncidentAction(o)
  <2>1. /\ request[o].op \in DOMAIN StatusOf /\ status' \in {status, StatusOf[request[o].op]}
        /\ request' = [request EXCEPT ![o] = NoRequest] /\ requests' = requests
    BY <1>4 DEF IncidentAction
  <2>2. status' \in Statuses
    BY <2>1 DEF StatusOf, Statuses, RowTyped
  <2> QED BY <1>2, <2>1, <2>2, IdleTyped DEF ApiTyped
<1>5. CASE IncidentInvestigate(o) \/ RequestFails(o)
  BY <1>2, <1>5, IdleTyped DEF IncidentInvestigate, RequestFails, row, ApiTyped, RowTyped
<1> QED BY <1>3, <1>4, <1>5

LEMMA OtherTypes ==
  TInv /\ (AgeAdvances \/ CandidateGoesStale \/ ReasonCrashes \/ NotifyCrashes \/ UNCHANGED vars)
    => TInv'
<1> SUFFICES ASSUME TInv, AgeAdvances \/ CandidateGoesStale \/ ReasonCrashes \/ NotifyCrashes
                            \/ UNCHANGED vars
             PROVE  TInv'
  OBVIOUS
<1> USE DEF TInv
<1>1. UNCHANGED <<status, candidate, api>> /\ locked' \in {locked, FALSE}
  BY DEF AgeAdvances, CandidateGoesStale, ReasonCrashes, NotifyCrashes, vars, row
<1>2. RowTyped' /\ CandidateTyped' /\ ApiTyped'
  BY <1>1 DEF RowTyped, CandidateTyped, ApiTyped, candidate, api
<1>3. WorldTyped'
  <2>1. age' = age \/ (age < MaxAge /\ age' = age + 1)
    BY DEF AgeAdvances, CandidateGoesStale, ReasonCrashes, NotifyCrashes, vars, world
  <2>2. crashes' = crashes \/ (crashes < MaxCrashes /\ crashes' = crashes + 1)
    BY DEF AgeAdvances, CandidateGoesStale, ReasonCrashes, NotifyCrashes, vars, world
  <2>3. stale' = stale \/ stale' = TRUE
    BY DEF AgeAdvances, CandidateGoesStale, ReasonCrashes, NotifyCrashes, vars, world
  <2>4. stale' \in BOOLEAN
    BY <2>3, Zenon DEF WorldTyped
  <2>5. age' \in 0 .. MaxAge
    BY <2>1, Bounds DEF WorldTyped
  <2>6. crashes' \in 0 .. MaxCrashes
    BY <2>2, Bounds DEF WorldTyped
  <2> QED BY <2>4, <2>5, <2>6 DEF WorldTyped
<1>4. reason' \in {reason, ReasonIdle}
  BY DEF AgeAdvances, CandidateGoesStale, ReasonCrashes, NotifyCrashes, vars
<1>5. PlaybookTyped' /\ EscalatorTyped'
  <2>1. CASE NotifyCrashes
    BY <2>1, IdleTyped, BoundsAssumption DEF NotifyCrashes, PlaybookTyped, EscalatorTyped
  <2>2. CASE ~NotifyCrashes
    BY <2>2 DEF AgeAdvances, CandidateGoesStale, ReasonCrashes, vars, playbooks, escalation,
       PlaybookTyped, EscalatorTyped
  <2> QED BY <2>1, <2>2
<1> QED BY <1>2, <1>3, <1>4, <1>5, IdleTyped DEF ReasonTyped

\* The type of an incident's life: handlers are tried MaxRetries times at most, and no copy
\* of the attributes, however stale, holds anything but a level of the chain.
THEOREM LifeTypes == Spec => []TypeOK
<1>1. Init => TInv
  <2> SUFFICES ASSUME Init PROVE TInv
    OBVIOUS
  <2>1. RowTyped /\ CandidateTyped
    BY DEF Init, RowTyped, CandidateTyped, Statuses
  <2>2. WorldTyped
    <3>1. age = 0 /\ crashes = 0 /\ stale = FALSE
      BY DEF Init
    <3>2. 0 \in 0 .. MaxAge /\ 0 \in 0 .. MaxCrashes
      BY Bounds
    <3> QED BY <3>1, <3>2 DEF WorldTyped
  <2>3. ReasonTyped /\ PlaybookTyped /\ EscalatorTyped /\ ApiTyped
    BY BoundsAssumption, IdleTyped DEF Init, ReasonTyped, PlaybookTyped, EscalatorTyped, ApiTyped
  <2> QED BY <2>1, <2>2, <2>3 DEF TInv
<1>2. IInv /\ TInv /\ [Next]_vars => TInv'
  BY ReasonTypes, PlaybookTypes, EscalatorTypes, RequestTypes, OtherTypes DEF Next
<1>3. IInv /\ TInv => TypeOK
  <2> SUFFICES ASSUME IInv, TInv PROVE TypeOK
    OBVIOUS
  <2>1. verdict \in Verdicts \cup {None} /\ attributes \in Attributes
    BY DEF IInv, Deciding, Levels
  <2>2. announced \subseteq Verdicts
    BY DEF IInv, Deciding, AnnouncedIsOnRecord
  <2> QED BY <2>1, <2>2 DEF TypeOK, TInv, RowTyped, WorldTyped, CandidateTyped, ReasonTyped,
      PlaybookTyped, EscalatorTyped, ApiTyped, ReasonStates, PlaybookStates, EscalatorStates,
      RequestStates
<1> QED BY <1>1, <1>2, <1>3, Inductive, PTL DEF Spec
=============================================================================
