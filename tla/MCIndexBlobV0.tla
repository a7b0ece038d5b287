--------------------------- MODULE MCIndexBlobV0 ---------------------------
(***************************************************************************)
(* Instances of IndexBlobV0 for TLC.                                       *)
(***************************************************************************)
EXTENDS IndexBlobV0, TLC
CONSTANT c1

\* A deleted content is not found again when deletions are dropped together with all active
\* entries of the content, in whatever order deleteOldBlobs deletes.
DeletedNotFoundUnlessPartial == "partialDrop" \notin lapses => DeletedNotFound
=============================================================================
