--------------------------- MODULE MCMaintenance ---------------------------
(***************************************************************************)
(* Instances of Maintenance for TLC.                                       *)
(***************************************************************************)
EXTENDS Maintenance, TLC
CONSTANTS u1, c1
=============================================================================
