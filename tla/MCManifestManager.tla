------------------------- MODULE MCManifestManager -------------------------
(***************************************************************************)
(* Instances of ManifestManager for TLC.                                   *)
(***************************************************************************)
EXTENDS ManifestManager, TLC
CONSTANTS a, b, x, y

SymIDs == Permutations(IDs)
=============================================================================
