--------------------------- MODULE ManifestStore ---------------------------
(***************************************************************************)
(* What the manifest manager promises its callers, without contents,       *)
(* compaction or caches: manifests appear and disappear in steps, each of  *)
(* which publishes what one client changed.  A manifest stays until its    *)
(* deletion is published, and then it is gone for good.                    *)
(***************************************************************************)
CONSTANT IDs
VARIABLES live, gone

Init == live = {} /\ gone = {}

\* A client's puts and deletes become visible together.
Publish(puts, deletes) ==
  /\ puts \cap (live \cup gone) = {}
  /\ live' = (live \cup puts) \ deletes
  /\ gone' = gone \cup deletes

Next == \E puts, deletes \in SUBSET IDs : Publish(puts, deletes)

Spec == Init /\ [][Next]_<<live, gone>>
=============================================================================
