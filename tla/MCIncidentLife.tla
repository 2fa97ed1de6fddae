--------------------------- MODULE MCIncidentLife ---------------------------
(***************************************************************************)
(* Instances of IncidentLife after configs/playbooks.yaml: an intrusion    *)
(* that scores 60 to 79 before its verdict runs "Perimeter Intrusion       *)
(* Response", confirmed it scores 80 and runs "P1 Critical Response",      *)
(* rejected it matches nothing.                                            *)
(***************************************************************************)
EXTENDS IncidentLife

CONSTANTS p1, perimeter

Rescored ==
  [v \in Verdicts \cup {None} |->
     CASE v = "confirmed" -> p1 [] v = "rejected" -> None [] OTHER -> perimeter]

Critical == [v \in Verdicts \cup {None} |-> p1]

\* The steps of Next without process deaths and without operators, whose requests
\* and deaths MCResponse explores: liveness is checked on this part.
UndisturbedNext ==
  \/ Reason \/ ReasonRaises
  \/ Playbook \/ PlaybookRaises
  \/ Escalator \/ EscalatorRaises
  \/ IncidentInvestigate("playbooks") \/ RequestFails("playbooks")
  \/ AgeAdvances \/ CandidateGoesStale

UndisturbedSpec == Init /\ [][UndisturbedNext]_vars /\ Fairness
=============================================================================
