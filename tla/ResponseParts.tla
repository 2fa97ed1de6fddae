---------------------------- MODULE ResponseParts ----------------------------
(***************************************************************************)
(* The two services that respond to an incident: the dispatch of a         *)
(* responder, and its life from candidate to playbooks and pages.  They    *)
(* share no state here, so one specification explores them side by side:   *)
(* the initial state chooses `part`, and only that part takes steps.       *)
(***************************************************************************)
EXTENDS Dispatch

CONSTANTS
  Playbooks, PlaybookFor, Escalating, CaseOpening, Investigating, LowSeverity,  \* IncidentLife
  Users, MaxHandlerRetries, MaxAge, MaxCount, MaxUserRequests, MaxDeaths

VARIABLES
  part,
  status, verdict, attributes, locked, candidateAge, stale, pending, givenUp, announced,
  reason, playbook, ran, acts, escalator, onCallPaged, apiRequest, apiRequests, deaths

life == <<status, verdict, attributes, locked, candidateAge, stale, pending, givenUp,
          announced, reason, playbook, ran, acts, escalator, onCallPaged, apiRequest,
          apiRequests, deaths>>

L == INSTANCE IncidentLife WITH
  None <- Nobody, Operators <- Users, MaxRetries <- MaxHandlerRetries,
  MaxRequests <- MaxUserRequests, MaxCrashes <- MaxDeaths,
  age <- candidateAge, dlq <- givenUp, paged <- onCallPaged, request <- apiRequest,
  requests <- apiRequests, crashes <- deaths

ASSUME LifeParameters == L!PlaybooksAssumption /\ L!BoundsAssumption

PartsInit == part \in {"life", "dispatch"} /\ Init /\ L!Init

InLife(A) == part = "life" /\ A /\ UNCHANGED <<part, vars>>

PartsNext ==
  \/ part = "dispatch" /\ Next /\ UNCHANGED <<part, life>>
  \/ InLife(L!Reason) \/ InLife(L!ReasonRaises) \/ InLife(L!ReasonCrashes)
  \/ InLife(L!Playbook) \/ InLife(L!PlaybookRaises)
  \/ InLife(L!Escalator) \/ InLife(L!EscalatorRaises) \/ InLife(L!NotifyCrashes)
  \/ InLife(L!Requests)
  \/ InLife(L!AgeAdvances)

PartsSpec == PartsInit /\ [][PartsNext]_<<part, vars, life>>
-----------------------------------------------------------------------------
\* The properties of IncidentLife, which states and explains them.

\* IncidentLife: a playbook runs once in the life of a process.
RunsOncePerLife == L!RunsOncePerLife
\* IncidentLife: only confirmed incidents are paged.
OnlyConfirmedPaged == L!OnlyConfirmedPaged
=============================================================================
