------------------------------ MODULE MCContext ------------------------------
(***************************************************************************)
(* One small instance of each part of ContextParts, the numbers and other  *)
(* sets in the configuration.                                              *)
(*   ContextFiring: one track alarms in a zone, another may have left for  *)
(*   the next camera, and there may be a crowd where there never is one;   *)
(*   panic buttons are expected (a drill).                                 *)
(*   Watchlist: a person, a vehicle and two entries of one plate; one      *)
(*   index call that fails.                                                *)
(***************************************************************************)
EXTENDS ContextParts

Intrusion == {[sig |-> "Intrusion", scope |-> 1]}
Reappearance == {[sig |-> "Cross-Camera Handoff", scope |-> 2]}
Crowd == {[sig |-> "Anomalous Activity", scope |-> "zone"]}
OnePlate == [e \in Plates |-> "plate"]
=============================================================================
