------------------------------ MODULE MCResponse ------------------------------
(***************************************************************************)
(* One small instance of each part of ResponseParts, the numbers and other *)
(* sets in the configuration.  As in configs/playbooks.yaml, the incident  *)
(* is critical whatever the verdict and runs "P1 Critical Response".       *)
(***************************************************************************)
EXTENDS ResponseParts

CONSTANTS i1, i2, o1, o2, r1, p1, perimeter

Critical == [v \in {"confirmed", "rejected", "unverified", Nobody} |-> p1]
=============================================================================
