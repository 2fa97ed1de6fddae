------------------------------ MODULE MCServices ------------------------------
(***************************************************************************)
(* One small instance of each part of ServiceParts, the numbers and sets   *)
(* of numbers in the configuration.                                        *)
(*   Migrations: any version to any other, three times.                    *)
(*   ModelRegistry: two models, two requests at once, scores below, at and *)
(*   above the least gain.                                                 *)
(*   Access: with a password, or known to the provider alone.              *)
(*   Ingest: retention of one segment, so that every upload has something  *)
(*   to remove.                                                            *)
(*   Fleet: one rule of each kind.                                         *)
(*   CrossSite: one camera that moves between two sites.                   *)
(*   Appearances: the first point was taken by one camera, the others by   *)
(*   the other.                                                            *)
(* Parts that do not choose their camera's site are started with one.      *)
(***************************************************************************)
EXTENDS ServiceParts

ZeroHash == <<>>
PointCameras == <<"c", "d", "d">>

MCInit ==
  /\ PartsInit
  /\ part # "access" => users["u"].role = "admin"
  /\ part # "plates" => siteOf = [c \in PlateCameras |-> "s"]
  /\ part # "appearances" => cameraSite = [c \in ScanCameras |-> "s"]

MCSpec == MCInit /\ [][PartsNext]_all
=============================================================================
