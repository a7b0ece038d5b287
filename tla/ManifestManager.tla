-------------------------- MODULE ManifestManager --------------------------
(***************************************************************************)
(* Manifests (repo/manifest): small records that every client keeps in     *)
(* contents with the prefix `m`, over the content manager of each client.  *)
(*                                                                         *)
(* A manifest is an ID; a manifest content is the set of entries it holds  *)
(* and their order, which in Go follows a map's iteration and is random.   *)
(* Both together are the content ID: contents are named by their hash.     *)
(* The content manager is modelled by what manifests rely on: an index of  *)
(* live and deleted contents in storage, a cached copy of it per client,   *)
(* and changes of the client that one index blob publishes together.       *)
(***************************************************************************)
EXTENDS Integers, FiniteSets

CONSTANTS
  Clients,
  IDs,                       \* the manifests that may be put
  Compactors,                \* clients that may compact: not opened read-only
  AutoCompactionThreshold,
  Orders,                    \* in which the entries of a content may be encoded
  DeletesFail,               \* DeleteContent may return an error, as when an index refresh fails
  MaxChanges, MaxTime, MaxFaults \* bounds

ASSUME ManifestAssumption ==
  /\ Compactors \subseteq Clients /\ IsFiniteSet(IDs) /\ 1 \in Orders
  /\ DeletesFail \in BOOLEAN /\ AutoCompactionThreshold \in Nat \ {0, 1}
  /\ MaxChanges \in Nat /\ MaxTime \in Nat /\ MaxFaults \in Nat

VARIABLES
  index,      \* storage: which manifest contents there are, live or deleted
  mgr,        \* per client: the manifest manager and its content manager; `deleting` is
              \* history, the manifests whose deletion is in its uncommitted changes
  now,        \* seconds, the resolution of index timestamps
  changes,    \* puts and deletes so far; their number is the ModTime of the last
  faults,
  taken,      \* manifest IDs that were given out
  published   \* history: manifests whose deletion an index blob has published

vars == <<index, mgr, now, changes, faults, taken, published>>

\* manifestEntry; labels and payload do not matter here.
ManifestEntry == [id : IDs, modTime : 1..MaxChanges, deleted : BOOLEAN]
Content == [entries : SUBSET ManifestEntry, order : Orders]
IndexEntry == [ts : Nat, deleted : BOOLEAN]
IsIndex(ndx) == DOMAIN ndx \subseteq Content /\ \A c \in DOMAIN ndx : ndx[c] \in IndexEntry
NoEntries == [c \in {} |-> [ts |-> 0, deleted |-> FALSE]]

TypeOK ==
  /\ IsIndex(index) /\ taken \subseteq IDs /\ published \subseteq taken
  /\ now \in Nat /\ changes \in Nat /\ faults \in Nat
  /\ \A u \in Clients :
       /\ IsIndex(mgr[u].committedIndex) /\ IsIndex(mgr[u].uncommitted)
       /\ mgr[u].pendingEntries \subseteq ManifestEntry
       /\ mgr[u].committedEntries \subseteq ManifestEntry
       /\ mgr[u].committedContentIDs \subseteq Content /\ mgr[u].upToDate \in BOOLEAN
       /\ mgr[u].deleting \subseteq IDs
----------------------------------------------------------------------------
(* The content manager, from how manifests use it *)

GreaterThan(e, f) == e.ts > f.ts \/ (e.ts = f.ts /\ ~e.deleted)

\* An index with the entries of an index blob added.
Merge(ndx, blob) ==
  [c \in DOMAIN ndx \cup DOMAIN blob |->
     IF c \notin DOMAIN blob THEN ndx[c]
     ELSE IF c \notin DOMAIN ndx \/ GreaterThan(blob[c], ndx[c]) THEN blob[c]
     ELSE ndx[c]]

LiveContents(ndx) == {c \in DOMAIN ndx : ~ndx[c].deleted}
\* Mutant: the time of the entry before is kept.
KeptWriteTime(previous) == previous
ContentWriteTime(previous) == IF now > previous THEN now ELSE previous + 1
With(ndx, c, entry) == [d \in DOMAIN ndx \cup {c} |-> IF d = c THEN entry ELSE ndx[d]]

\* What a client sees: its own changes hide the cached index.
Overlay(ndx, changed) == [c \in DOMAIN ndx \cup DOMAIN changed |->
                            IF c \in DOMAIN changed THEN changed[c] ELSE ndx[c]]
Seen(u) == Overlay(mgr[u].committedIndex, mgr[u].uncommitted)

\* WriteContent: nothing to do for a content that is there and not deleted.
WriteContent(u, c) ==
  LET known == Seen(u) IN
  IF c \in LiveContents(known) THEN mgr[u].uncommitted
  ELSE With(mgr[u].uncommitted, c,
            [ts |-> ContentWriteTime(IF c \in DOMAIN known THEN known[c].ts ELSE -1), deleted |-> FALSE])

\* DeleteContent of each of a set: what is still in a pending pack is taken out of it.
DeleteContents(u, changed, contents, stillPending) ==
  LET known == Overlay(mgr[u].committedIndex, changed)
      dropped == {c \in contents \cap LiveContents(changed) : stillPending}
      marked == (contents \cap LiveContents(known)) \ dropped
  IN  [c \in (DOMAIN changed \cup marked) \ dropped |->
         IF c \in marked THEN [ts |-> ContentWriteTime(known[c].ts), deleted |-> TRUE] ELSE changed[c]]
----------------------------------------------------------------------------
(* Manifest entries *)

EntriesOf(contents) == UNION {c.entries : c \in contents}

\* The contents that some entries may be written as.
Encodings(entries) ==
  {[entries |-> entries, order |-> o] : o \in IF Cardinality(entries) > 1 THEN Orders ELSE {1}}

\* mergeEntryLocked for all entries of some contents: the newest one of each manifest.
Newest(contents) ==
  LET all == EntriesOf(contents) IN
  {e \in all : \A f \in all : f.id = e.id => f.modTime <= e.modTime}

\* loadManifestContentsLocked: deletions are dropped after the merge.
LoadManifestContents(contents) == {e \in Newest(contents) : ~e.deleted}

\* The entries with others put over them.
Replace(entries, new) == {e \in entries : \A f \in new : f.id # e.id} \cup new
IDsOf(entries) == {e.id : e \in entries}

NewManager == [pendingEntries |-> {}, committedEntries |-> {}, committedContentIDs |-> {},
               upToDate |-> FALSE, committedIndex |-> index, uncommitted |-> NoEntries,
               deleting |-> {}]

Init ==
  /\ index = NoEntries /\ now = 0 /\ changes = 0 /\ faults = 0 /\ taken = {} /\ published = {}
  /\ mgr = [u \in Clients |-> NewManager]
----------------------------------------------------------------------------
(* Operations of a manifest manager *)

\* Put: manifest IDs are random, so a new one was never used before.
Put(u, id) ==
  /\ changes < MaxChanges /\ id \notin taken
  /\ taken' = taken \cup {id}
  /\ changes' = changes + 1
  /\ mgr' = [mgr EXCEPT ![u].pendingEntries =
               @ \cup {[id |-> id, modTime |-> changes', deleted |-> FALSE]}]
  /\ UNCHANGED <<index, now, faults, published>>

\* Delete, once the committed entries are up to date.
Delete(u, id) ==
  /\ changes < MaxChanges /\ mgr[u].upToDate
  /\ id \in IDsOf(mgr[u].pendingEntries \cup mgr[u].committedEntries)
  /\ changes' = changes + 1
  /\ mgr' = [mgr EXCEPT ![u].pendingEntries =
               Replace(@, {[id |-> id, modTime |-> changes', deleted |-> TRUE]})]
  /\ UNCHANGED <<index, now, faults, taken, published>>

\* An index blob publishes the uncommitted changes of a manager.
Publish(u, manager) ==
  /\ index' = Merge(index, manager.uncommitted)
  /\ mgr' = [mgr EXCEPT ![u] = [manager EXCEPT
       !.committedIndex = Merge(@, manager.uncommitted), !.uncommitted = NoEntries,
       !.upToDate = FALSE, !.deleting = {}]]
  /\ published' = published \cup manager.deleting

\* Mutant: the content that was just written is deleted like the others.
CompactAllContents(manager, content) == manager.committedContentIDs

\* The contents that compaction deletes: not the one it has written, which may be an old one.
CompactedContents(manager, content) == manager.committedContentIDs \ {content}

\* compactLocked writes what is committed as one content and deletes the contents it was read
\* from, those in `done` if a delete fails.
CompactLocked(u, manager, content, done, stillPending) ==
  LET written == IF manager.committedEntries = {} THEN {} ELSE {content}
      changed == IF written = {} THEN manager.uncommitted ELSE WriteContent(u, content)
  IN  [manager EXCEPT
         !.committedContentIDs = (@ \cup written) \ done,
         !.uncommitted = DeleteContents(u, changed, done, stillPending),
         !.upToDate = FALSE]

\* loadCommittedContentsLocked: what the manifests are when the revision has changed.
Loaded(u) ==
  LET contents == LiveContents(Seen(u)) IN
  [mgr[u] EXCEPT !.committedEntries = LoadManifestContents(contents),
                 !.committedContentIDs = contents, !.upToDate = TRUE]
TooManyContents(u) ==
  u \in Compactors /\ Cardinality(LiveContents(Seen(u))) >= AutoCompactionThreshold

\* ensureInitializedLocked, as called by Get, Find and Delete.
EnsureInitialized(u) ==
  /\ ~mgr[u].upToDate /\ ~TooManyContents(u)
  /\ mgr' = [mgr EXCEPT ![u] = Loaded(u)]
  /\ UNCHANGED <<index, now, changes, faults, taken, published>>

\* The same with maybeCompactLocked: compaction and a flush.
AutoCompact(u) ==
  /\ ~mgr[u].upToDate /\ TooManyContents(u)
  /\ \E content \in Encodings(Loaded(u).committedEntries), stillPending \in BOOLEAN :
       Publish(u, CompactLocked(u, Loaded(u), content, CompactedContents(Loaded(u), content), stillPending))
  /\ UNCHANGED <<now, changes, faults, taken>>

\* A delete or the flush fails: what was done stays among the uncommitted changes.
AutoCompactFails(u) ==
  /\ ~mgr[u].upToDate /\ TooManyContents(u) /\ faults < MaxFaults
  /\ \E content \in Encodings(Loaded(u).committedEntries), stillPending \in BOOLEAN :
       LET all == CompactedContents(Loaded(u), content) IN
       \E done \in IF DeletesFail THEN SUBSET all ELSE {all} :
         mgr' = [mgr EXCEPT ![u] = CompactLocked(u, Loaded(u), content, done, stillPending)]
  /\ faults' = faults + 1
  /\ UNCHANGED <<index, now, changes, taken, published>>

\* Flush: the pending entries become one content.
Flush(u) ==
  LET entries == mgr[u].pendingEntries IN
  /\ entries # {}
  /\ \E content \in Encodings(entries) :
       mgr' = [mgr EXCEPT ![u] = [mgr[u] EXCEPT
         !.uncommitted = WriteContent(u, content), !.pendingEntries = {},
         !.committedEntries = Replace(@, entries), !.committedContentIDs = @ \cup {content},
         !.upToDate = FALSE, !.deleting = @ \cup IDsOf({e \in entries : e.deleted})]]
  /\ UNCHANGED <<index, now, changes, faults, taken, published>>

\* The content manager's flush, which follows that of the manifests, or its flush timer.
FlushContents(u) ==
  /\ mgr[u].uncommitted # NoEntries
  /\ Publish(u, mgr[u])
  /\ UNCHANGED <<now, changes, faults, taken>>

\* Indexes are reloaded from storage.
Refresh(u) ==
  /\ mgr[u].committedIndex # index
  /\ mgr' = [mgr EXCEPT ![u].committedIndex = index, ![u].upToDate = FALSE]
  /\ UNCHANGED <<index, now, changes, faults, taken, published>>

\* The client dies, and is started again.
Crash(u) ==
  /\ faults < MaxFaults /\ mgr[u] # NewManager
  /\ mgr' = [mgr EXCEPT ![u] = NewManager]
  /\ faults' = faults + 1
  /\ UNCHANGED <<index, now, changes, taken, published>>

Tick ==
  /\ now < MaxTime
  /\ now' = now + 1
  /\ UNCHANGED <<index, mgr, changes, faults, taken, published>>

Next ==
  \/ \E u \in Clients :
       \/ \E id \in IDs : Put(u, id) \/ Delete(u, id)
       \/ EnsureInitialized(u) \/ AutoCompact(u) \/ AutoCompactFails(u) \/ Flush(u) \/ FlushContents(u) \/ Refresh(u) \/ Crash(u)
  \/ Tick

Spec == Init /\ [][Next]_vars
----------------------------------------------------------------------------
(* Properties *)

\* The manifests that a client opening the repository finds.
Found == IDsOf(LoadManifestContents(LiveContents(index)))

Abstract == INSTANCE ManifestStore WITH live <- Found, gone <- published

\* Manifests are published in whole steps, stay until their deletion is published and do not
\* return, whatever compactions, failing flushes and crashes do in between.
ImplementsManifestStore == Abstract!Spec

\* A manifest that was published is found until its deletion is published: a compaction never
\* removes the last content that holds it.
PublishedFound == \A e \in EntriesOf(DOMAIN index) : e.id \in Found \cup published

\* A manifest whose deletion was published is not found again.
DeletedStayDeleted == Found \cap published = {}
=============================================================================
