---------------------------- MODULE Maintenance ----------------------------
(***************************************************************************)
(* Full maintenance (repo/maintenance, snapshot/snapshotgc) running beside *)
(* clients that upload snapshots, with the epoch index format.             *)
(*                                                                         *)
(* Nobody takes a lock that both sides know: what keeps the contents of a  *)
(* snapshot in storage are delays.  Time is the clock `now`; its unit      *)
(* stands for the hours the safety parameters are given in.                *)
(*                                                                         *)
(* Abstractions: the index is its merge, one winning entry per content     *)
(* (the merge is associative and nothing removes entries from the epoch    *)
(* index); each content has packs of its own and a pack is uploaded when   *)
(* its content is written; snapshots are the set of contents they use, so  *)
(* deleting snapshots takes contents out of `used`.                        *)
(***************************************************************************)
EXTENDS Integers, Sequences, FiniteSets, FiniteSetsExt

CONSTANTS
  Clients, Contents,
  Initial,             \* the contents of the snapshot that exists at the start
  Maintainer,          \* the writer that runs maintenance
  Nil,                 \* no entry, no session, no time
  RewriteMinAge, MinContentAgeSubjectToGC, MarginBetweenSnapshotGC,
  DropContentFromIndexExtraMargin, BlobDeleteMinAge, SessionExpirationAge,
  MinRewriteToOrphanDeletionDelay, \* SafetyParameters
  IndexRefreshFrequency, \* a client reloads an index older than this
  CheckpointInterval,    \* a client flushes what it refers to at least this often
  UploadDuration,        \* how long one upload takes at most
  FullCycleInterval,     \* between maintenance runs, 0 when they are started by hand
  ForceHash,             \* ForceHashPercentage is 100: no cached entry is used
  MaxTime, MaxFaults, MaxUploads, MaxRuns, MaxRunDuration \* bounds

MaxRetainedRunInfo == 5  \* maxRetainedRunInfoPerRunType
Writers == Clients \cup {Maintainer}

ASSUME MaintenanceAssumption ==
  /\ Maintainer \notin Clients /\ IsFiniteSet(Clients) /\ IsFiniteSet(Contents)
  /\ Nil \notin Int /\ Initial \subseteq Contents /\ ForceHash \in BOOLEAN
  /\ \A d \in {RewriteMinAge, MinContentAgeSubjectToGC, MarginBetweenSnapshotGC,
               DropContentFromIndexExtraMargin, BlobDeleteMinAge, SessionExpirationAge,
               MinRewriteToOrphanDeletionDelay, IndexRefreshFrequency, CheckpointInterval,
               UploadDuration, FullCycleInterval, MaxTime, MaxFaults, MaxUploads, MaxRuns, MaxRunDuration} : d \in Nat

VARIABLES
  now,
  index, watermark, packs, sessions, used,  \* storage: entries, deletion watermark, blobs, snapshots
  gcRuns, rewriteEnd, deleteEnd, nextFull,  \* storage: the schedule, with its record of past tasks
  client,                                   \* per client: its upload and its cached indexes
  m,                                        \* the maintenance run
  faults, uploads, runs                     \* how much of the bounds is used

storage == <<index, watermark, packs, sessions, used>>
schedule == <<gcRuns, rewriteEnd, deleteEnd, nextFull>>
counters == <<faults, uploads, runs>>
vars == <<now, storage, schedule, client, m, counters>>

\* A session is named after its writer and its start, a pack after what it holds and its session.
Session == [by : Writers, start : Nat]
Pack == [content : Contents, at : Nat, session : Session]
Entry == [pack : Pack, ts : Nat, deleted : BOOLEAN]
Index == [Contents -> Entry \cup {Nil}]
View == [index : Index, watermark : Int, used : SUBSET Contents]
ASSUME NilAssumption == Nil \notin Session /\ Nil \notin Entry /\ Nil \notin View
RunInfo == [start : Nat, end : Nat, success : BOOLEAN]
Phases == {"idle", "gc", "gcFlush", "gcReport", "rewriting", "drop", "orphans", "delete"}

NoEntries == [c \in Contents |-> Nil]
IdleClient(view, loaded) ==
  [uploading |-> FALSE, started |-> 0, checkpoint |-> 0, prev |-> {}, refs |-> {},
   pending |-> NoEntries, session |-> Nil, view |-> view, loaded |-> loaded]
IdleRun == [pc |-> "idle", start |-> 0, view |-> Nil, pending |-> NoEntries, session |-> Nil, sessions |-> {}]

TypeOK ==
  /\ now \in Nat /\ faults \in Nat /\ uploads \in Nat /\ runs \in Nat /\ watermark \in Int
  /\ index \in Index /\ packs \subseteq Pack /\ sessions \subseteq Session /\ used \subseteq Contents
  /\ gcRuns \in Seq(RunInfo) /\ Len(gcRuns) <= MaxRetainedRunInfo
  /\ rewriteEnd \in Nat \cup {Nil} /\ deleteEnd \in Nat \cup {Nil} /\ nextFull \in Nat
  /\ client \in [Clients -> [uploading : BOOLEAN, started : Nat, checkpoint : Nat,
                             prev : SUBSET Contents, refs : SUBSET Contents, pending : Index,
                             session : Session \cup {Nil}, view : View \cup {Nil}, loaded : Nat]]
  /\ m \in [pc : Phases, start : Nat, view : View \cup {Nil}, pending : Index,
            session : Session \cup {Nil}, sessions : SUBSET Session]
----------------------------------------------------------------------------
(* The content index *)

ContentWriteTime(previous) == IF now > previous THEN now ELSE previous + 1

\* Which of two entries of a content wins; pack names decide ties and are random.
GreaterThan(a, b, tie) ==
  IF a.ts # b.ts THEN a.ts > b.ts
  ELSE IF a.deleted # b.deleted THEN ~a.deleted
  ELSE tie

Merge(old, new, tie) ==
  [c \in Contents |-> IF old[c] = Nil THEN new[c]
                      ELSE IF new[c] = Nil \/ ~GreaterThan(new[c], old[c], tie) THEN old[c]
                      ELSE new[c]]

ShouldIgnore(entry, deletionWatermark) == entry.deleted /\ entry.ts <= deletionWatermark

\* getContent: the entry of c that an index and a watermark show, deleted or not.
GetContent(ndx, deletionWatermark, c) ==
  IF ndx[c] = Nil \/ ShouldIgnore(ndx[c], deletionWatermark) THEN Nil ELSE ndx[c]
InView(view, c) == GetContent(view.index, view.watermark, c)

Current == [index |-> index, watermark |-> watermark, used |-> used]

\* The entry of a content written again in a session: a new pack, a later timestamp.
WrittenEntry(c, session, previous, deleted) ==
  [pack |-> [content |-> c, at |-> now, session |-> session],
   ts |-> ContentWriteTime(previous), deleted |-> deleted]
PacksOf(ndx) == {ndx[c].pack : c \in {d \in Contents : ndx[d] # Nil}}

\* The repository starts with a snapshot of some contents.
FirstSession == [by |-> Maintainer, start |-> 0]

Init ==
  /\ now = 0 /\ faults = 0 /\ uploads = 0 /\ runs = 0
  /\ index = [c \in Contents |-> IF c \in Initial THEN WrittenEntry(c, FirstSession, -1, FALSE) ELSE Nil]
  /\ watermark = -1 /\ packs = PacksOf(index) /\ sessions = {} /\ used = Initial
  /\ gcRuns = <<>> /\ rewriteEnd = Nil /\ deleteEnd = Nil /\ nextFull = 0
  /\ client = [u \in Clients |-> IdleClient(Current, 0)]
  /\ m = IdleRun
----------------------------------------------------------------------------
(* Clients: uploads of snapshots *)

\* maybeRefreshIndexes: indexes past refreshIndexesAfter are reloaded before they are used.
Refresh(u) ==
  /\ client[u].view = Nil
  /\ client' = [client EXCEPT ![u].view = Current, ![u].loaded = now]
  /\ UNCHANGED <<now, storage, schedule, m, counters>>

\* Upload opens the directories of previous snapshots, which are loaded once and kept; the
\* repository may just have been opened.
StartUpload(u) ==
  /\ ~client[u].uploading /\ client[u].view # Nil /\ uploads < MaxUploads
  /\ \E reopened \in BOOLEAN :
       LET view == IF reopened THEN Current ELSE client[u].view IN
       client' = [client EXCEPT ![u] = [client[u] EXCEPT
         !.uploading = TRUE, !.started = now, !.checkpoint = now, !.prev = IF ForceHash THEN {} ELSE view.used,
         !.view = view, !.loaded = IF reopened THEN now ELSE client[u].loaded]]
  /\ uploads' = uploads + 1
  /\ UNCHANGED <<now, storage, schedule, m, faults, runs>>

\* A file that did not change since a previous snapshot: its object is taken over, unverified.
ReuseCachedEntry(u, c) ==
  /\ client[u].uploading /\ ~ForceHash /\ c \in client[u].prev \ client[u].refs
  /\ client' = [client EXCEPT ![u].refs = @ \cup {c}]
  /\ UNCHANGED <<now, storage, schedule, m, counters>>

\* WriteContent of a file: nothing is stored when the content is known and not deleted.
WriteContent(u, c) ==
  LET known == IF client[u].pending[c] # Nil THEN client[u].pending[c] ELSE InView(client[u].view, c)
      session == IF client[u].session # Nil THEN client[u].session ELSE [by |-> u, start |-> now]
      entry == WrittenEntry(c, session, IF known = Nil THEN -1 ELSE known.ts, FALSE)
  IN  /\ client[u].uploading /\ client[u].view # Nil /\ c \notin client[u].refs
      /\ IF known # Nil /\ ~known.deleted
         THEN /\ client' = [client EXCEPT ![u].refs = @ \cup {c}]
              /\ UNCHANGED <<packs, sessions>>
         ELSE /\ client' = [client EXCEPT ![u] = [client[u] EXCEPT
                   !.refs = client[u].refs \cup {c}, !.pending = [client[u].pending EXCEPT ![c] = entry],
                   !.session = session]]
              /\ packs' = packs \cup {entry.pack} /\ sessions' = sessions \cup {session}
      /\ UNCHANGED <<now, index, watermark, used, schedule, m, counters>>

\* The indexes a writer has cached, with what it has just stored.
WithEntries(view, new, tie) ==
  IF view = Nil THEN Nil ELSE [view EXCEPT !.index = Merge(view.index, new, tie)]

\* The index of the uploaded packs is stored, the session ends, the cached indexes include it.
CommitPending(u, tie, upload) ==
  LET mine == client[u].pending IN
  /\ index' = Merge(index, mine, tie)
  /\ sessions' = sessions \ {client[u].session}
  /\ client' = [client EXCEPT ![u] = [upload EXCEPT
                  !.pending = NoEntries, !.session = Nil, !.view = WithEntries(upload.view, mine, tie)]]

\* An index flush on its own, as by flushPackIndexesAfter.
FlushIndex(u, tie) ==
  /\ client[u].pending # NoEntries
  /\ CommitPending(u, tie, client[u])
  /\ UNCHANGED <<now, watermark, packs, used, schedule, m, counters>>

\* checkpointRoot: a manifest for what was processed so far, flushed with the contents.
CheckpointRoot(u, tie) ==
  /\ client[u].uploading
  /\ used' = used \cup client[u].refs
  /\ CommitPending(u, tie, [client[u] EXCEPT !.checkpoint = now])
  /\ UNCHANGED <<now, watermark, packs, schedule, m, counters>>

\* The manifest of the complete snapshot is flushed.
FinishUpload(u, tie) ==
  /\ client[u].uploading
  /\ used' = used \cup client[u].refs
  /\ CommitPending(u, tie, IdleClient(client[u].view, client[u].loaded))
  /\ UNCHANGED <<now, watermark, packs, schedule, m, counters>>

\* The upload dies: packs and the session marker stay behind.
AbandonUpload(u) ==
  /\ client[u].uploading /\ faults < MaxFaults
  /\ client' = [client EXCEPT ![u] = IdleClient(client[u].view, client[u].loaded)]
  /\ faults' = faults + 1
  /\ UNCHANGED <<now, storage, schedule, m, uploads, runs>>

\* Snapshots are deleted, by a user or by the retention policy.
DeleteSnapshots ==
  /\ \E rest \in SUBSET used : rest # used /\ used' = rest
  /\ UNCHANGED <<now, index, watermark, packs, sessions, schedule, client, m, counters>>
----------------------------------------------------------------------------
(* Maintenance: RunExclusive in full mode, the tasks in their order *)

\* RunExclusive: the schedule blob is written, then the indexes are loaded for the last time.
\* Snapshot GC records its start after one more read of the schedule: the same instant here.
RunExclusive ==
  /\ m.pc = "idle" /\ now >= nextFull /\ runs < MaxRuns
  /\ nextFull' = now + FullCycleInterval
  /\ runs' = runs + 1
  /\ m' = [IdleRun EXCEPT !.pc = "gc", !.start = now, !.view = Current]
  /\ UNCHANGED <<now, storage, gcRuns, rewriteEnd, deleteEnd, client, faults, uploads>>

\* What the maintainer's uncommitted session is called.
MaintenanceSession == [by |-> Maintainer, start |-> now]

\* Mutant: contents in use are left as they are.
CollectWithoutUndelete(c) ==
  LET entry == InView(m.view, c) IN
  IF \/ entry = Nil \/ c \in m.view.used
     \/ m.start - entry.ts < MinContentAgeSubjectToGC \/ entry.deleted
  THEN Nil
  ELSE [entry EXCEPT !.deleted = TRUE, !.ts = ContentWriteTime(entry.ts)]

\* runInternal of snapshot GC for one content: undelete it, delete it or leave it alone.
CollectedEntry(c) ==
  LET entry == InView(m.view, c) IN
  IF entry = Nil THEN Nil
  ELSE IF c \in m.view.used
       THEN IF entry.deleted THEN WrittenEntry(c, MaintenanceSession, entry.ts, FALSE) ELSE Nil
  ELSE IF m.start - entry.ts < MinContentAgeSubjectToGC \/ entry.deleted THEN Nil
  ELSE [entry EXCEPT !.deleted = TRUE, !.ts = ContentWriteTime(entry.ts)]

\* Every content in use is found (VerifyObject), the ones to undelete can be read.
GCPossible ==
  \A c \in m.view.used : LET entry == InView(m.view, c) IN
    entry # Nil /\ (entry.deleted => entry.pack \in packs)

SnapshotGC ==
  LET collected == [c \in Contents |-> CollectedEntry(c)] IN
  /\ m.pc = "gc" /\ GCPossible
  /\ m' = [m EXCEPT !.pc = "gcFlush", !.pending = collected, !.session = MaintenanceSession]
  /\ packs' = packs \cup {p \in PacksOf(collected) : p.session = MaintenanceSession}
  /\ sessions' = IF collected = NoEntries THEN sessions ELSE sessions \cup {MaintenanceSession}
  /\ UNCHANGED <<now, index, watermark, used, schedule, client, counters>>

SnapshotGCFlush(tie) ==
  /\ m.pc = "gcFlush"
  /\ index' = Merge(index, m.pending, tie)
  /\ sessions' = sessions \ {m.session}
  /\ m' = [m EXCEPT !.pc = "gcReport", !.pending = NoEntries, !.session = Nil,
                  !.view = WithEntries(m.view, m.pending, tie)]
  /\ UNCHANGED <<now, watermark, packs, used, schedule, client, counters>>

\* Schedule.ReportRun: newest first, the oldest entries are forgotten.
WithRun(history, success) ==
  LET all == <<[start |-> m.start, end |-> now, success |-> success]>> \o history IN
  SubSeq(all, 1, Min({Len(all), MaxRetainedRunInfo}))

\* Snapshot GC returns an error: recorded, and the maintenance run ends.
SnapshotGCFails ==
  /\ \/ m.pc = "gc" /\ ~GCPossible /\ UNCHANGED faults
     \/ m.pc \in {"gcFlush", "gcReport"} /\ faults < MaxFaults /\ faults' = faults + 1
  /\ gcRuns' = WithRun(gcRuns, FALSE)
  /\ m' = IdleRun
  /\ UNCHANGED <<now, storage, rewriteEnd, deleteEnd, nextFull, client, uploads, runs>>

ShouldFullRewriteContents ==
  \/ rewriteEnd = Nil \/ MinRewriteToOrphanDeletionDelay = 0
  \/ deleteEnd # Nil /\ deleteEnd >= rewriteEnd

\* Snapshot GC has succeeded; runFullMaintenance begins, with the rewrite when it is due.
ReportSnapshotGC ==
  /\ m.pc = "gcReport"
  /\ gcRuns' = WithRun(gcRuns, TRUE)
  /\ m' = [m EXCEPT !.pc = IF ShouldFullRewriteContents THEN "rewriting" ELSE "drop"]
  /\ UNCHANGED <<now, storage, rewriteEnd, deleteEnd, nextFull, client, counters>>

\* Contents of short packs, with the deleted ones, move to new packs; an index flush follows.
RewriteContents(tie) ==
  /\ m.pc = "rewriting"
  /\ \E batch \in SUBSET {c \in Contents : LET entry == InView(m.view, c) IN
                           entry # Nil /\ now - entry.ts >= RewriteMinAge /\ entry.pack \in packs} \ {{}} :
       LET rewritten == [c \in Contents |->
             IF c \notin batch THEN Nil
             ELSE WrittenEntry(c, MaintenanceSession, m.view.index[c].ts, m.view.index[c].deleted)]
       IN  /\ packs' = packs \cup PacksOf(rewritten)
           /\ index' = Merge(index, rewritten, tie)
           /\ m' = [m EXCEPT !.view = WithEntries(m.view, rewritten, tie)]
  /\ UNCHANGED <<now, watermark, sessions, used, schedule, client, counters>>

ReportRewrite ==
  /\ m.pc = "rewriting"
  /\ rewriteEnd' = now
  /\ m' = [m EXCEPT !.pc = "drop"]
  /\ UNCHANGED <<now, storage, gcRuns, deleteEnd, nextFull, client, counters>>

\* Mutant: the latest collection will do.
DropAfterOneCycle(history) ==
  LET ok == {i \in DOMAIN history : history[i].success} IN
  IF ok = {} THEN Nil ELSE history[Min(ok)].start - DropContentFromIndexExtraMargin

\* findSafeDropTime over the recorded runs, Nil when there is none.
FindSafeDropTime(history) ==
  LET ok == {i \in DOMAIN history : history[i].success}
      latest == Min(ok)
      earlier == {i \in ok \ {latest} : history[latest].start - history[i].end > MarginBetweenSnapshotGC}
  IN  IF ok = {} \/ earlier = {} THEN Nil
      ELSE history[Min(earlier)].start - DropContentFromIndexExtraMargin

\* Mutant: no test for a drop time that is not there.
DropAtAnyTime ==
  /\ m.pc = "drop"
  /\ watermark' = FindSafeDropTime(gcRuns)
  /\ m' = [m EXCEPT !.pc = "orphans", !.view = [Current EXCEPT !.watermark = watermark']]
  /\ UNCHANGED <<now, index, packs, sessions, used, schedule, client, counters>>

\* The watermark only moves forward.
AdvanceDeletionWatermark(ts) == IF ts < watermark THEN watermark ELSE ts

\* DropDeletedContents, after which the maintainer's indexes are reloaded.
DropDeletedContents ==
  LET safe == FindSafeDropTime(gcRuns) IN
  /\ m.pc = "drop"
  /\ IF safe = Nil
     THEN m' = [m EXCEPT !.pc = "orphans"] /\ UNCHANGED watermark
     ELSE /\ watermark' = AdvanceDeletionWatermark(safe)
          /\ m' = [m EXCEPT !.pc = "orphans", !.view = [Current EXCEPT !.watermark = watermark']]
  /\ UNCHANGED <<now, index, packs, sessions, used, schedule, client, counters>>

\* Mutant: no delay after a rewrite.
DeleteAfterRewrite == rewriteEnd = Nil \/ now >= rewriteEnd

\* Only some time after the last rewrite, so that other clients load the new indexes first.
ShouldDeleteOrphanedPacks == rewriteEnd = Nil \/ now >= rewriteEnd + MinRewriteToOrphanDeletionDelay

\* DeleteUnreferencedBlobs lists the active sessions before anything else.
ListActiveSessions ==
  /\ m.pc = "orphans"
  /\ m' = IF ShouldDeleteOrphanedPacks THEN [m EXCEPT !.pc = "delete", !.sessions = sessions] ELSE IdleRun
  /\ UNCHANGED <<now, storage, schedule, client, counters>>

\* A blob stored at a time by a session may go when no entry of the maintainer's indexes needs it.
Alive(session) == session \in m.sessions /\ m.start - session.start < SessionExpirationAge
Unreferenced(at, session) ==
  at <= m.start /\ m.start - at >= BlobDeleteMinAge /\ ~Alive(session)
UsedPacks == {InView(m.view, c).pack : c \in {d \in Contents : InView(m.view, d) # Nil}}
OrphanedPacks == {p \in packs \ UsedPacks : Unreferenced(p.at, p.session)}

DeleteUnreferencedBlobs ==
  /\ m.pc = "delete"
  /\ packs' = packs \ OrphanedPacks
  /\ sessions' = {s \in sessions : ~Unreferenced(s.start, s)}
  /\ deleteEnd' = now
  /\ m' = IdleRun
  /\ UNCHANGED <<now, index, watermark, used, gcRuns, rewriteEnd, nextFull, client, counters>>

\* A delete fails: the run ends with some of the blobs deleted.
DeleteUnreferencedBlobsFails ==
  /\ m.pc = "delete" /\ faults < MaxFaults
  /\ \E gone \in SUBSET OrphanedPacks : gone # {} /\ packs' = packs \ gone
  /\ m' = IdleRun
  /\ faults' = faults + 1
  /\ UNCHANGED <<now, index, watermark, sessions, used, schedule, client, uploads, runs>>

\* The process dies, or the rewrite fails: nothing is recorded that a later run would look at.
MaintenanceStops ==
  /\ m.pc # "idle" /\ faults < MaxFaults
  /\ m' = IdleRun
  /\ faults' = faults + 1
  /\ UNCHANGED <<now, storage, schedule, client, uploads, runs>>
----------------------------------------------------------------------------
\* Time passes, but no client keeps references longer than CheckpointInterval without a
\* flush, nor an upload open longer than UploadDuration.  Indexes past refreshIndexesAfter
\* are as good as none.
Tick ==
  /\ now < MaxTime
  /\ \A u \in Clients : client[u].uploading =>
       now < client[u].checkpoint + CheckpointInterval /\ now < client[u].started + UploadDuration
  /\ m.pc # "idle" => now < m.start + MaxRunDuration
  /\ now' = now + 1
  /\ client' = [u \in Clients |-> IF now' > client[u].loaded + IndexRefreshFrequency
                                 THEN [client[u] EXCEPT !.view = Nil, !.loaded = 0] ELSE client[u]]
  /\ UNCHANGED <<storage, schedule, m, counters>>

ClientNext(u) ==
  \/ Refresh(u) \/ StartUpload(u) \/ AbandonUpload(u)
  \/ \E c \in Contents : ReuseCachedEntry(u, c) \/ WriteContent(u, c)
  \/ \E tie \in BOOLEAN : FlushIndex(u, tie) \/ CheckpointRoot(u, tie) \/ FinishUpload(u, tie)

MaintenanceNext ==
  \/ RunExclusive \/ SnapshotGC \/ ReportSnapshotGC \/ SnapshotGCFails
  \/ ReportRewrite \/ DropDeletedContents
  \/ ListActiveSessions \/ DeleteUnreferencedBlobs \/ DeleteUnreferencedBlobsFails \/ MaintenanceStops
  \/ \E tie \in BOOLEAN : SnapshotGCFlush(tie) \/ RewriteContents(tie)

Next ==
  \/ \E u \in Clients : ClientNext(u)
  \/ DeleteSnapshots
  \/ MaintenanceNext
  \/ Tick

Spec == Init /\ [][Next]_vars
----------------------------------------------------------------------------
(* Properties *)

\* Every content of a snapshot can be read: its index entry is not dropped and the pack is in
\* storage.  Snapshot GC, the deletion watermark and blob deletion of maintenance run beside
\* uploads that refer to the same contents.
SnapshotReadable ==
  \A c \in used : LET entry == GetContent(index, watermark, c) IN entry # Nil /\ entry.pack \in packs

\* A client whose cached indexes are within the refresh interval can read every content that these
\* indexes show and do not show as deleted: packs orphaned by a rewrite stay until the indexes
\* naming them have expired, also when the rewrite died before it was recorded, since the next run
\* then rewrites, and waits, again; and packs of contents that snapshot GC deletes stay until the
\* deletion is dropped.  Nothing delays the deletion of a pack whose content a client has written
\* again after GC deleted it, when the same run sees the new entry.
RewrittenPacksKept ==
  \A u \in Clients : client[u].view # Nil => \A c \in Contents :
    LET entry == InView(client[u].view, c) IN
    entry # Nil /\ ~entry.deleted =>
      entry.pack \in packs \/ (index[c].pack # entry.pack /\ index[c].pack.session.by \in Clients)

\* A successful snapshot GC leaves no content deleted that a snapshot it knew still uses.
GCRepairs ==
  [][ReportSnapshotGC => \A c \in m.view.used \cap used : index[c] # Nil /\ ~index[c].deleted]_vars
=============================================================================
