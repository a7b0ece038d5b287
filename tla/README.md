# TLA+ models of the repository layer

This directory models the core of the backup repository: how clients that share
nothing but a blob store write contents into packs, publish them through index
blobs, compact and clean up those indexes, keep manifests in them, and collect what
no snapshot needs any more, without losing anything. The models
are checked with TLC on small instances; the modules named `...Proofs` hold theorems
checked by TLAPS for every instance (section 8).

## 1. Inventory

Own code is `repo/`, `internal/`, `snapshot/`, `fs/` and `cli/`. The layers, from
the storage up:

| Component | Source | State | Operations | Hard behaviour |
|---|---|---|---|---|
| blob storage | `repo/blob` | blobs with names and times | put, get, list, delete | errors after the effect, listings that race writes |
| epoch manager | `internal/epoch` | cached snapshot with an expiry time; blobs named by epoch | write index, get the complete index set, advance epoch, compact, make ranges, clean up | clients without locks, slow writes, expired snapshots, crashes half-way |
| complete sets | `internal/completeset` | none | which multi-part sets are whole | parts of different attempts |
| index blob manager V1 / V0 | `repo/content/indexblob` | V0: compaction logs, cleanup blobs | write, list, compact | eventually consistent listings, order of deletes |
| content write manager | `repo/content/content_manager*.go` | pending, writing and failed packs, index being built, flushing flag | write, delete, undelete, rewrite, flush, pause index flush | goroutines around one mutex and one condition variable, failed uploads |
| sessions | `repo/content/sessions.go` | current session, its marker blobs | start, commit | marker must outlive the unindexed packs |
| committed content index | `repo/content/committed_content_index*.go`, `index/` | merged index entries | look up, add, replace | which entry wins, one-second timestamps |
| maintenance | `repo/maintenance` | schedule, owner, safety parameters | blob GC, rewrite, drop deleted, epoch maintenance | races with live clients, clock skew, two GC cycles |
| manifests | `repo/manifest` | pending and committed entries, revision | put, get, find, delete, compact | compaction of several clients, equal times |
| format, upgrade lock | `repo/format` | cached format blob | refresh, lock, commit, roll back | stale caches |
| objects | `repo/object` | writer buffers, indirect entries | write, read, concatenate, checkpoint | asynchronous chunk writes |
| caches, throttling, retry | `internal/cache`, `listcache`, `ownwrites`, `repo/blob/throttling` | cached blobs and listings | get, put, sweep | stale listings, limits |
| concurrency helpers | `internal/workshare`, `parallelwork`, `scheduler` | queues, semaphores | enqueue, process, wait | lost wakeups, shutdown |
| server | `internal/server`, `uitask` | source managers, tasks, sessions | snapshot, pause, cancel | task races |
| snapshots | `snapshot` | policies, manifests | upload, retention, GC, restore | checkpoints, cancelled uploads |

How they interact: `WriteManager.Flush` builds index shards and hands them to the
index blob manager, which with the current format calls `epoch.Manager.WriteIndex`;
`SharedManager.Refresh` and every open call `GetCompleteIndexSet`; maintenance calls
the epoch manager's compaction and cleanup on one client at a time, and its blob GC
reads session markers that write managers leave in storage. All of that goes
through blobs: there are no locks between clients.

What makes each part correct: an acknowledged index write is never lost and always
read (epoch manager); an index never refers to a pack that is not there, accepted
contents are not forgotten when uploads fail, the newest entry decides, a flush
commits, the session marker covers unindexed packs, every call returns (write
manager); maintenance never deletes what a live session or a reachable snapshot
needs; manifests compact atomically.

The hazards, each at its line, are listed in `PROJECT.json`.

## 2. Plan

Done, in the order of importance for what a backup keeps:

1. `EpochManager` and `WriteManager`, with proofs: the two components through which
   every byte of a backup becomes durable;
2. `Maintenance`: snapshot GC, rewrite, deletion watermark and blob GC against uploads;
   the part that deletes;
3. `ManifestManager` and the abstract `ManifestStore` it implements;
4. `IndexBlobV0`: compaction logs and delayed cleanup under late listings.

How the modules compose: each takes from its neighbours what its own code relies on.
`EpochManager` and `IndexBlobV0` are the two index formats below `WriteManager`, whose
index blobs become visible as a whole with one flush; `ManifestManager` and `Maintenance`
work on that promise (an index that changes by merging one blob) and on the session
markers that `SessionCoversPacks` of `WriteManager` is about.

Next: `FormatManager` with the upgrade lock; `ParallelWork`, `WorkShare` and `Scheduler`
(small liveness models); pure algorithms against reference definitions (epoch ranges,
object indirection, retention, access control); the server's source manager.

Every safety property that a run checks is stated by a theorem of section 8, some of them
under hypotheses that are named there and whose necessity a configuration shows.

## 3. EpochManager

Models `internal/epoch` and the part of `ManagerV1` it calls. A process is a
goroutine inside one exported method; `ManagerOf` says on which `epoch.Manager` it
runs, and so with which cached snapshot and mutex. Writers, readers and the
maintainer share only the four sets of blobs in storage.

| Model | Code |
|---|---|
| `markers`, `uncompacted`, `singles`, `ranges` | blobs with prefixes `xe`, `xn`, `xs`, `xr` |
| `mu`, `known`, `attempt`, `loads`, `listed` | `Manager.mu`, `lastKnownState`, the snapshot `refreshAttemptLocked` is filling and its goroutines still to run |
| `cs` | the `CurrentSnapshot` a call works with |
| `writtenFor`, `written` | `writtenForEpoch`, `written` of `WriteIndex` |
| `maxEpoch`, `toList`, `result` | locals of `GetCompleteIndexSet` |
| `op`, `lo`, `hi`, `blobs`, `content`, `parts`, `doomed`, `doomedMarkers` | locals of the maintenance operations |
| `acked`, `expected`, `seen` | history: which writes returned without error, and what a reader may count on |

Every storage call is a step of its own, so everything can happen between two of
them: between the time check and the end of a `PutBlob`, between the listings of a
refresh, between the parts of a compaction. A refresh that takes too long is begun
again, a read whose snapshot expired goes round again, `WriteIndex` deletes what it
wrote for another epoch and checks the epoch again at the end. A failing call
(`WriteIndexError`, `ReadError`, `MaintenanceError`) leaves what was stored, and a
failed put may have been stored. A crash (`Crash`) loses all memory of a client.

Abstractions: an index blob is the set of entries it holds, one per shard of each
write; all blobs weigh the same, so the size and count criteria of `shouldAdvance`
coincide; blob names keep the fields the code parses. There is one clock for clients
and storage, which is the assumption the code documents. Maintenance operations
may be started in any order and any number of times, which includes the order of
`runTaskEpochMaintenanceFull`; there is one maintainer, because `RunExclusive` lets
only the owner run it. The deletion watermark is part of `Maintenance`.

Bounds. `Times` lists the instants the clock can show; between two of them nothing
changes for any comparison in the code, so a run needs only the instants around an
expiry, an epoch age and a safety margin. `StartTimes` limits when a write may begin.
`Interleaved` names the managers whose refresh goroutines are explored in every
order; `Faulty` and `Crashable` name who may fail. `MaxEpoch` and `MaxSets` bound
epochs and compaction attempts. Runs start in a repository with a short history
(`InitWrites`, `InitEpoch`, `InitMarkers`), with a put under way
(`InFlight`) or a read about to retry (`Retrying`): states earlier steps lead to, and
their assumptions (`RepositoryAssumption`) are checked by TLC.

| Run | Shows |
|---|---|
| `epoch_slow_writer` | `SinglesCoverAcked`: a late shard, two epoch advances, a compaction, crashes; the compaction holds every acknowledged entry |
| `epoch_read_cleanup` | `ReadComplete`, `AckedNeverLost`: a reader with a cached snapshot against compaction and cleanup of the blobs it counts on |
| `epoch_ranges` | `RangesCoverAcked`, `ReadComplete`: single-epoch and range compactions that fail half-way and are repeated |
| `epoch_own_writes` | `TypeOK`, `AckedNeverLost`, `ReadYourWrites`, `WriteEpochNeverBack`: writing and reading on one client while epochs advance and markers are cleaned up |

## 4. WriteManager

Models `content.WriteManager` and its sessions: goroutines of one client around
the mutex `mu` and the condition variable `cond`.

| Model | Code |
|---|---|
| `packBlobs`, `indexed`, `sessionMarkers` | pack blobs, entries of index blobs, session blobs in storage |
| `pendingPacks`, `writingPacks`, `failedPacks`, `packIndexBuilder`, `flushing`, `disableIndexFlushCount` | fields of `WriteManager` |
| `items`, `dataLength`, `sessionOf` | `currentPackItems`, the length of `currentPackData` and the session of a `pendingPackInfo` |
| `committed` | `committedContents` |
| `mu`, `asleep` | the mutex, the goroutines in `cond.Wait` |
| `call`, `pc` | the operation a goroutine is in, its locals and place |
| `accepted`, `undisturbed`, `contended`, `misled`, `owed`, `promised` | history for the properties |

A section under the mutex without a wait or a storage call is one step; a goroutine
that holds the mutex during storage calls holds `mu` over several steps. An upload
runs without the mutex. Any storage call listed in `Fallible` may fail, before or
after its effect, at most `MaxFaults` times in a behaviour. A dying client needs no
action of its own here: what survives it is `packBlobs`, `indexed` and
`sessionMarkers`, and the properties about those hold at every instant.

Abstractions: a content is its ID; a pack is full after `PackCapacity` contents;
time counts seconds, the resolution of index timestamps. Encryption, compression
and offsets are left out, and the deletion watermark filter of the committed index is part of `Maintenance`.
Pack names are random in the code; the model numbers packs in order of creation,
and the tie-break by name in the merge follows that order. The sleep in `cond.Wait`
ends with a broadcast only, as in Go.

Bounds: `MaxCalls` calls in all (a pack and a session cost a call each, so packs and
sessions are bounded by it), two or three goroutines, two contents, up to two faults;
the shortest counterexamples to the mutated models need at most four calls and one
fault. Deadlock is not checked since the calls of a run end: a lasting wait is what
`CallsReturn` excludes. Goroutines, and contents where they are alike, are symmetric in
the safety runs; the liveness run uses no symmetry.

| Run | Shows |
|---|---|
| `content_failures` | `PackBeforeIndex`, `AcceptedNeverForgotten`, `FlushCommitsUnlessFailed` with every kind of storage call failing |
| `content_order` | `AcceptedExists`: deletes and undeletes within a second, uploads finishing out of order, for calls that do not overlap and that were shown the newest entry; `SessionCoversPacks` without storage errors, with automatic flushes and paused index flushes; `TypeOK` |
| `content_progress` | `CallsReturn` under `FairSpec`, with three goroutines: an upload, a flush that waits for it and a writer that waits for the flush |

One run shows where the code departs from its comment: in `content_flush_promise` a pack
fails while `Flush` waits for it, `Flush` succeeds and the content is not committed.

Observed in the model, and not given a run of their own:

- `SessionCoversPacks` holds in `content_order`, where no storage call fails. With a
  failing marker (`Fallible = {"marker"}`) the session goes on without one, because its ID
  is assigned before the marker is written. With a failing pack (`{"pack"}`) a `Flush`
  that waited for that pack commits the session, and the pack is uploaded later under
  the name of a session whose marker is gone. In both cases what protects the pack from
  blob GC is its age only.
- While a pack is being uploaded its entries come before those of the index being built
  (`content_manager.go:878`), also when that index already has newer ones from a pack that was
  uploaded faster. A call that looks then is shown the older entry: a write of a content that
  was deleted since returns without writing, and the content stays deleted (`WrittenExists`,
  section 9, `content_hidden`); a rewrite takes over the older status. The history variable
  `misled` names the contents for which that happened, and `AcceptedExists` leaves them out.
- With two concurrent flushes the first to return resets `flushing`, and uploads start
  while the second waits.
- Deleting a content that was restored and not flushed yet drops the pending entry
  only: the committed, live entry shows again.
- Entries of deletions keep their pack, which the assertion in
  `verifyPackIndexBuilderLocked` excludes.

Fairness: `FairSpec` asks for weak fairness of `Step(g)` of each goroutine. The code
justifies it where storage calls return (with a result or an error; they have
timeouts and retries below this layer) and the Go mutex is granted to a waiter
eventually. New calls are not fair.

## 5. Maintenance

Models a full maintenance run of a repository in the epoch format (`repo/maintenance`,
`snapshot/snapshotgc`), and the uploads that go on beside it (`snapshot/snapshotfs`).
No lock is known to both sides. What keeps the contents of a snapshot are delays, the
`SafetyParameters`, and the argument in the comment of `findSafeDropTime`: a content
that GC deletes while an upload begins to use it is undeleted by the next GC, and only
what was deleted before both may be dropped.

| Model | Code |
|---|---|
| `index` | the merge of all index blobs: the winning entry of each content |
| `watermark` | the deletion watermark blob: deleted entries up to it do not exist (`shouldIgnore`) |
| `packs`, `sessions` | pack blobs and session markers, with the time they were stored |
| `used` | the contents that the snapshot manifests in storage reach |
| `gcRuns`, `rewriteEnd`, `deleteEnd`, `nextFull` | the schedule blob: five records of snapshot GC, the latest successful end of the rewrite and delete tasks |
| `client[u]` | an upload: the contents it refers to, those of the previous snapshots, uncommitted entries, session, and the cached indexes with the time of their load |
| `m` | the maintenance run: its task, its indexes (refreshed once, `RunExclusive` disables further refreshes), the sessions it has listed |

The tasks are taken in the order of the code: snapshot GC with its flush and record,
rewrite when `shouldFullRewriteContents`, drop of deleted contents when
`findSafeDropTime` finds a time, deletion of unreferenced blobs when
`shouldDeleteOrphanedPacks`. A task that fails is recorded as the code records it, a
process that dies (`MaintenanceStops`, `AbandonUpload`) is not. A rewrite may move some
contents and die before its end is recorded; a deletion may stop half-way.

Abstractions: every content has packs of its own, and which packs are short is left
open; a pack is uploaded when its content is written, so that it is in storage as long
as possible without an index entry; snapshots are sets of contents. Time has the unit in
which the safety parameters are given, their order is what matters. The slack
of one second in the blob cutoff, and a schedule blob that cannot be written after a task
(logged, the run goes on), are left out. The epoch tasks at the end of a run are those
of `EpochManager`. Quick maintenance does nothing to contents when the index has epochs
(`maintenance_run.go:255`).

| Run | Shows |
|---|---|
| `maintenance_faults` | `SnapshotReadable`, `RewrittenPacksKept`, `GCRepairs`, `TypeOK`: three maintenance cycles beside an upload that takes no longer than the margin, with one fault anywhere |
| `maintenance_long_upload` | a violation of `SnapshotReadable`: an upload with checkpoints that lasts longer than two cycles and reuses entries of a snapshot that is deleted meanwhile |

Bounds: dropping needs two successful GCs with a margin between them and a content
deleted before the first, so three cycles (`MaxRuns`, `MaxTime`) are the least in which
a content can be deleted, repaired or dropped, and its pack removed. One content
is enough, as contents have separate packs and entries, and every property speaks of
one content. `UploadDuration` is the bound under which the comment's argument is sound:
an upload of one cycle cannot hold a reference from before the first GC to after the
second without a manifest. The clock stops at `MaxTime`, so deadlock is not checked.

`SnapshotReadable` holds because GC looks at all manifests, young contents are left alone,
active sessions and `BlobDeleteMinAge` protect packs without entries, and dropping
waits for a second GC. The long upload violates it because a cached entry is
taken over unverified from a directory that was loaded when the snapshot still
existed (`upload.go:851`); a checkpoint protects only the entries that are already in it.

Observed in the model, and not given a run of their own:

- A chain of short uploads that hand a cached entry on, with the only committed snapshot
  deleted in between, loses contents in the same way; with `ForceHash` (every file is
  hashed, nothing is reused) it does not.
- `UndeleteContent` in snapshot GC moves a content to a new pack, and the same run may
  delete the old pack at once, since only the rewrite tasks count for the delay
  (`maintenance_run.go:575`). Clients with cached indexes still look for the old pack, under an
  entry that these indexes show as deleted; that is why `RewrittenPacksKept` speaks of
  entries not shown as deleted.
- In the same way, with two clients: GC deletes a content, a client writes it again in a new
  pack, and the same run, which reloads its indexes when it drops deleted contents, finds the
  old pack unreferenced and deletes it, while the cached indexes of the other client name that
  pack for a live content. `RewrittenPacksKept` has this exception, and no other.
- Full runs started by hand one after the other do not keep the distance that
  `FullCycleInterval` gives, and then `RewrittenPacksKept` fails too.
- A session that commits between the refresh of the maintainer's indexes and
  `ListActiveSessions` is in neither; what protects its packs is `BlobDeleteMinAge`
  (`blob_gc.go:71`), which has to exceed the length of a session plus that of a run.

## 6. ManifestManager and ManifestStore

`ManifestManager` models `repo/manifest` over the content manager of each client;
`ManifestStore` says what it promises: a set of live manifests and a set of deleted ones
that change in steps, each publishing what one client did; a manifest stays until its
deletion is published and then never returns.

| Model | Code |
|---|---|
| `index` | contents with prefix `m` in storage, live or deleted, with timestamps |
| `mgr[u].pendingEntries`, `committedEntries`, `committedContentIDs` | fields of `Manager` and `committedManifestManager` |
| `mgr[u].upToDate` | `lastRevision = Revision()` |
| `mgr[u].committedIndex`, `uncommitted` | the client's cached index; its entries in pending packs and in the index being built |
| `taken`, `published` | history: IDs given out, manifests whose deletion is in storage |

The refinement is `live <- Found`, the manifests a client would find that opens the repository
now, and `gone <- published`. It says much more than each operation's code does: `Found` is
computed from whatever contents the compactions, flushes and crashes have left.

A content is named by the hash of its bytes: the set of its entries and their order,
which in Go is that of a map. So a compaction may write a content that already exists,
is one of its own inputs, or was deleted by an earlier one; `WriteContent` and
`DeleteContent` treat these cases as `WriteManager` does, including the removal of
a content that is still in a pending pack. Compaction pauses the index flush; so its
changes are one step on storage when it succeeds, and stay uncommitted, for the next
flush to publish, when a delete or the flush fails. Every change has its own `ModTime`.
Loading is one step: the retry after a lost race is left out.

`manifest_store` checks `ImplementsManifestStore` and `TypeOK` with two clients, one of which
compacts, four changes to two manifests, two orders, one failing flush or crash and two
instants of the clock (contents are rewritten within a second and after it). Threshold 2
makes every second content trigger a compaction (16 in the code). Three assumptions
are needed, see section 9: one compactor at a time, deletes that do not fail
in the middle of a compaction, and no second failure while the changes of a failed
compaction are uncommitted. Under these it is proved for every instance (section 8).

## 7. IndexBlobV0

Models `ManagerV0`, the index of repositories in the older format, and how clients load
it (`loadPackIndexesLocked`). A compaction writes a merged index blob, then a compaction
log that names inputs and outputs. Readers leave out the inputs of logs whose outputs are
all listed. After the settle time the inputs are deleted, then a cleanup blob is
written, and after the settle time again the log is deleted.

| Model | Code |
|---|---|
| `indexBlobs`, `compactionLogs`, `cleanupBlobs` | blobs with prefixes `n`, `m`, `l`; `gone` is the time of deletion, while listings may still show the blob |
| `compaction` | the `Compact` under way: inputs, outputs, logs to clean up, blobs still to delete |
| `load` | `ListActiveIndexBlobs`: the two listings made in parallel |
| `LoadedIndexes` | the merged indexes the load may end with: a listed log that is gone may be in the cache or not |
| `written`, `superseded` | history: entries that clients stored, blobs that some log names as input |
| `lapses` | history: two kinds of steps that may uncover entries older than a deletion, see below |

Storage is modelled on the repository's own test storage with eventual consistency
(`internal/blobtesting/eventually_consistent.go`): a listing may miss a blob, or show a
deleted one, for `StorageSettleTime`. The compacting client sees its own changes for
`OwnWritesCacheDuration` (`internal/ownwrites`). Every put and delete of a compaction is a step
and may be the last one (`CompactionStops`). A compaction takes any of the active blobs
(`Inputs`): `getBlobsToCompact` chooses by size unless `AllIndexes` is set, and does not look at
`DropDeletedBefore`. The `DropDeletedContents` task of maintenance sets both, but `index optimize
--drop-deleted-older-than` without `--all` drops deletions from a part of the blobs
(`command_index_optimize.go:39-46`). The option `DropContents` is left out: it removes whatever
contents the user names.

`index_v0` checks, for three compactions, two entries of a content and one fault:

- `LiveContentsFound`: whoever loads the index while compactions go on finds every
  settled content;
- `DeletedNotFoundUnlessLapse`: a content whose deletion was dropped does not return with an older
  index blob, also when compactions die and deletes fail. Two things that compactions may do
  are excepted, and recorded in `lapses` when they happen: `partialDrop`, a deletion is dropped
  while an active blob with an entry of the same content is left out, and `outputFirst`, an
  output of a compaction is deleted while an input of it may still be listed. The code
  prevents neither, and each brings deleted contents back (section 9);
- `OutputsLast`: without a fault, and with runs as far apart as in this instance, `outputFirst`
  does not happen;
- `ReplacedStaysMarked`: an index blob is deleted before the logs that name it.

The assumption of the module is the condition under which that works:
`CompactionDuration + LoadDuration + StorageSettleTime <= MaxEventualConsistencySettleTime`. A
compaction that stores its output, then takes longer to write the log, or a reader that
takes longer between its listings, eats from the same hour (`defaultEventualConsistencySettleTime`).
`OwnWritesCacheDuration` matters as well: the compactor must see its own logs while others may not.
In the code the cache lasts 15 minutes and exists only with a cache directory, the settle
time is an hour. Compactions are at least `CompactionInterval` apart; what happens otherwise
is in section 9. There is one compactor; the tests say that compaction by more than
one actor is unsafe.

Bounds: at times 0, 2 and 4 a log is written, its inputs are deleted and it is deleted
itself; a settle time of two with one unit each for storage and reader is the least that
satisfies the assumption with both. Clients write until time 2 (`MaxWriteTime`), so that what they
wrote is replaced, deleted and forgotten before time 5; without that bound the instance
passes with 9.6 million distinct states, with it the run has 4.9 million. It reaches
partial drops, and deletes the inputs of two logs in one batch after a fault (a run that died
leaves its deletes to a later one). Without a fault such a batch takes compactions that last some
time and start the settle time apart, as hourly maintenance does: `index_v0_hourly` checks
that instance (`CompactionDuration = 1`, `LoadDuration = 0`; 18.7 million states, too many for a
regular run). There `outputFirst` happens, and `LiveContentsFound` and
`DeletedNotFoundUnlessLapse` hold.

## 8. Proofs

`EpochManagerProofs` proves `TypeCorrect`: `Spec => []TypeOK` for any sets of
managers, writers, readers and shards, any epochs and timing parameters that satisfy
the named assumptions of `EpochManager`. `TypeOK` alone is not inductive. A shard is
named after `writtenFor[w]`, which is -1 until an epoch is chosen; a compaction is named
after `lo` and `hi`; a refresh ends in a place that depends on where it was called.
So the induction uses `TypeInv`, which adds that the holder of a mutex is in a
place that waits for a snapshot (`MutexHeld`), that a writer past the choice of an
epoch has one (`EpochChosen`), and that a maintainer past the choice of a target
has one (`TargetChosen`). Each action group has a lemma for the types and one for the
control part; `TypeStep` combines them.

It goes on to what the protocol promises, with `EpochManagerReadProofs`, again for every
instance.

- `EpochNeverBack` (`WriteEpochNeverBack`): cleanup deletes only markers below the write
  epoch of the snapshot it works with, and that epoch was reached, so the greatest
  marker stays.
- `AckedWritesKept` (`AckedNeverLost`), without further hypotheses. The invariant has four
  parts besides the types. `StorageInv`: what a snapshot shows is in storage, and only
  settled epochs are compacted. `MaintInv`: what maintenance is working on is settled, what
  cleanup is about to delete belongs to epochs with a whole compaction, and the maintainer's
  snapshots only get newer. `WriterInv`: the shards a writer counts as written are there
  as long as their epoch is not settled, and a write that was acknowledged deletes nothing. `PromisesKept`: a write whose second
  look at the write epoch is certain to succeed is promised. Its blobs are all in storage, and
  every compaction made or being made of its epoch has its entries (`Untouched`), or a whole
  compaction has them (`Covered`). A write becomes promised while its epoch is unsettled, so
  before any compaction of it can have begun; the first whole compaction
  takes `Untouched` to `Covered`, and since single-epoch compactions are never deleted,
  `Covered` is for ever.
- `SinglesWhole` (`SinglesCoverAcked`) and `RangesWhole` (`RangesCoverAcked`): every compaction,
  also an unfinished or repeated one, has every acknowledged entry of its epochs. The
  invariant replaces `PromisesKept` by `PromisesWhole`, which speaks of all compactions and of the
  work in progress. The hypothesis is that `CompactsUncompactedEpoch` holds throughout: that the
  epoch `MaybeCompactSingleEpoch` takes is none that its snapshot shows as compacted. It is
  a real condition. When a range checkpoint ends beyond the first run of compacted
  epochs (epoch 0 compacted, range 0..1, which is what a client leaves that makes ranges faster
  than single-epoch compactions), `oldestUncompactedEpoch` stays at epoch 2 after
  epoch 2 has been compacted, and it is compacted again from what cleanup has left of it.
- `YoungCompactsUncompacted` (`CompactsUncompactedEpoch`) and its corollary
  `YoungSinglesWhole`: in a repository without range checkpoints, and until the write epoch
  reaches `FullCheckpointFrequency + 2` (`Young`, the first moment at which one can be made),
  the hypothesis holds by itself.
- `ReadsComplete` (`ReadComplete`) and `OwnWritesRead` (`ReadYourWrites`), under the same
  hypothesis, and `YoungReadsComplete`, both for a young repository without it. `ReadInv` is
  added to the invariant of `SinglesWhole`. Cleanup deletes blobs only of epochs with a
  whole compaction that is older than `CleanupSafetyMargin`, and a snapshot in use is no
  older than its expiry allows, which is less (the margin is at least three refresh
  periods): so every snapshot that has not expired shows that compaction (`ViewsOK`,
  `OldShown`, `OldInv`). A reader either uses it, or has listed the blobs of the epoch
  itself, and then in time: a reader that finds its snapshot expired after the listing goes
  round again (`ListingsOK`, `ReadLists`, `ReadShows`). What a snapshot combines are a range
  chain without gaps and the single-epoch compactions after it; that chain is the recursive
  function `startEpochs`, whose values `StartRecursion` and `StartValues` give by a least
  counterexample. For own writes: `WriteIndex` takes the mutex to invalidate the cached
  snapshot after the shards are stored, so the refresh behind any snapshot that a later call
  is given lists the unsettled epochs after that (`ExpectedOK`).

`WriteManagerProofs` proves two theorems for any sets of goroutines, contents and
prefixes, any pack capacity, any number of calls and faults and any choice of the
storage calls that may fail.

- `TypeCorrect`: `Spec => []TypeOK`. The induction uses `TypeInv`, which adds that a
  goroutine in the middle of a write has a content, that a flush was called by a write
  or by a caller, and that an upload has a pack (`CallOK`). `TypeOK` is split into four
  parts that change together (calls, packs, session, the rest).
- `PacksBeforeIndexes`: `Spec => []PackBeforeIndex`. The property is not inductive: an
  upload ends without the mutex, and the entries are taken from the pack afterwards,
  in another step. `PackInv` adds what makes that safe: a live entry in a pack is an
  entry of that pack (`OwnData`), so a pack with a live entry has data of its own and is
  really uploaded; no pending pack is one that is being uploaded, and pending packs of
  two prefixes differ (`Apart`), so nothing is added between the upload and its end; and
  hence what is in the pack at its end was stored (`UploadStored`). A delete that
  happens during the upload goes to a pending pack as a tombstone, which refers to
  no data. TLC has checked `PackInv` on the instances of `content_failures` and
  `content_order`.

The proofs need that the first of the packs being written is one of them, which is the
least-element principle (`LeastNat`), proved from the library's well-foundedness of `<`;
the same lemma gives induction over the naturals in set form.

`WriteManagerFlushProofs` goes on with the mutex, the flush and the session.

- `AcceptedRemembered` (`AcceptedNeverForgotten`) and `FlushKeepsPromise`
  (`FlushCommitsUnlessFailed`), both where nothing is deleted (`NoDeletes`), as in the run
  `content_failures`. `LockInv` says who has the mutex between two steps, that nothing is
  uploaded once a flush writes the remaining packs, and that at its commit nothing is
  pending. `EntriesInv` says that all entries are live, `RememberInv` extends the property to
  the contents that a flush owes and to those being uploaded. `NoDeletes`
  is needed: with a delete that overlaps a write of the same content the deletion may win
  and the write is not to be remembered; what holds then is the next theorem.
- `AcceptedExist` (`AcceptedExists`) and `RewritesPreserve` (`ShownRewritePreservesStatus`), with
  deletes, undeletes and rewrites and any failing calls. The newest entry of a content decides,
  wherever it is, so the proof is about the set of all entries in packs, in the index being built
  and in the index (`Current`). Moving entries from one of these places to the next keeps
  the newest one: the index being built keeps the newer of two entries; a
  new entry is later than all others of its content, since the call that adds it was shown the
  newest and the clock of the manager is moved beyond it (`Bounded`); and between looking and
  adding no other call changes the content, or it is `contended` (`Alone`, `CallShown`).
- `SessionsCoverPacks` (`SessionCoversPacks`) where the uploads of markers and packs do not
  fail (`MarkersWork`; index writes and the cache may). `MarkInv` says that every pack with
  data belongs to the current session and that its marker is in storage from the
  creation of the pack to the end of the commit, which happens only with nothing pending.
  Section 4 says what goes wrong with a failing marker or pack.

`IndexBlobV0Proofs` proves five theorems for any contents, bounds and times that satisfy
`IndexBlobAssumption`.

- `TypeCorrect`, and `ReplacedAlwaysMarked` (`ReplacedStaysMarked`): inputs go before their
  log, because the log of a compaction whose deletes have not all happened is in no
  cleanup blob (`DeletesComplete`, `LogsClean`).
- `LoadFindsLiveContents` (`LiveContentsFound`). The argument: among the listed blobs that
  hold the last live entry of a content, the one stored last survives
  `removeCompactedIndexes`, since a log that names it has a listed output, stored later,
  that holds the entry too (`OutputsReplace`). One such blob is always listed, because a
  blob is deleted only when a later one with the same entry has been stored for the settle
  time (`LaterHolders`, `DeletesSettled`, `LiveHeld`), so a listing that misses the
  first shows the second (`LoadHolds`).
- `DeletedStayDeleted` (`DeletedNotFoundUnlessLapse`), with any number of faults. Deletions are
  harder than live entries: a compaction that drops one leaves no blob that holds it, and then
  nothing of the content may be used, by any load. Hypothesis `ScheduleSuffices`:
  compactions start at least `CompactionDuration + LoadDuration + StorageSettleTime` apart
  (`RunsSettle`), so that the log of one is in the listings of every load that sees the log of
  the next, and what is dropped is older than `StorageSettleTime`. By the assumption of the
  module the first part follows when the interval is the settle time or more, which is what
  hourly quick maintenance gives, counted from the start of a run. It does not follow for an
  `index optimize` started by hand, or a full run that becomes due shortly after a quick one.
  The age of dropped deletions is what `findSafeDropTime` leaves, at least its margins
  (without safety parameters deletions are dropped at once).

  The argument: the logs of earlier runs have settled when a run starts (`RunTimed`), the
  blobs that it finds active are inputs of no log (`ActiveUnmarked`), and as long as no output is
  deleted first a log that names a visible blob exists and has its outputs (`OutputsStored`,
  `LogsStored`, `LoadSees`). A compaction passes a deletion on (`Passed`) or, when it drops it, has
  all that has an entry of the content among its inputs, except what settled logs name
  (`Dropping`); whatever blobs a load lists, it uses the deletion or nothing of the content
  (`DeletionsReplaced`, `DeletionsHeld`, `DeletionsListed`).

  The hypothesis cannot be spared: with compactions one right after the other TLC finds a
  load that sees the log of the second and not yet that of the first (`index_v0_resurrected`).
- `OutputsDeletedLast` (`OutputsLast`): the second exception does not occur without faults, when
  compactions start at least the settle time plus `CompactionDuration` apart (`RunsApart`). Each
  run then deletes the inputs of the run before it (`InputsDeleted`), which is before an output
  of that run is an input of an old log (`Ordered`). Compactions that run with full
  maintenance only are a day apart, with a settle time of an hour. Hourly quick maintenance
  does not satisfy this: an interval equal to the settle time leaves nothing for the
  length of a compaction, and `index_v0_interval` is a counterexample without any fault.

`ManifestManagerProofs` proves `TypeCorrect` without assumptions, and the refinement of
`ManifestStore` in two forms, for any clients, manifests, orders and thresholds, with at most
one compactor and deletes that do not fail. `RefinesUnlessFailedTwice` excludes a compaction
that fails while changes of one that failed before are uncommitted (`FailsFromClean`);
`RefinesManifestStore` has at most one fault instead, as in the run. The last part of the
invariant, `CompactorSafe`, is the point of it: publishing what the compactor has uncommitted,
whatever it is, removes the manifests it deletes and nothing else. It rests on
`CompactorCurrent` (others only add contents to what the compactor has read),
`EntriesOrdered` (a manifest is put once and deleted later), `CompactorCausal` (the compactor
holds no entry of a manifest whose put it has not read) and on the privacy of unpublished
entries.

`MaintenanceProofs` proves `TypeCorrect` and `GCRepairsUsed` (`GCRepairs`), without any
assumption on the delays: from the step of GC to its record every content that the run's
manifests use is undeleted, by GC itself or by a client (`RunSees`, `RunUndeletes`,
`RunRestored`), and clients only restore (`ClientsRestore`).

`MaintenanceReadProofs` proves that the delays of the safety parameters keep every
snapshot readable: `SnapshotsReadable` and `HashedSnapshotsReadable` (`SnapshotReadable`), for
any clients, contents, uploads, runs and faults. Hypotheses:

- `DelaysSuffice`: a maintenance run, the lifetime of cached indexes and an upload together
  (`Span`) take no longer than `MarginBetweenSnapshotGC` plus
  `DropContentFromIndexExtraMargin`, and checkpoints are more frequent than
  `BlobDeleteMinAge`. With the defaults of the code (4 h + 1 h, refresh every 15 min, 45
  min between checkpoints, 24 h) a run and an upload may take 4 h 45 min together. No
  code enforces that bound, and `maintenance_long_upload` shows what happens beyond it.
- `KeepsUnrepaired`, a condition on steps: no snapshot is deleted while a deletion by GC of
  one of its contents is unrepaired. Without it `maintenance_deleted_chain` is a
  counterexample. The second theorem replaces it by `ForceHash`, under which every
  file is read and no cached entry is taken over.

The argument is the one the comment of `findSafeDropTime` sketches, made exact. A deletion
with timestamp D is in storage by the end of its run; cached indexes that miss it expire,
and so an upload that refers to the content without having seen the deletion ends by
D + `Span` (`ViewKnows`, `PrevKnown`, `RefsKnown`). A GC that starts later finds all these
references in manifests, and undeletes (`RunSettles`). The drop time is more than `Span`
before the run that drops, and a successful GC of the same run has come before it
(`RunRecorded`, `HistoryOrdered`), so nothing in use is dropped. Packs: an entry that the
maintainer's indexes miss is in a pack younger than `BlobDeleteMinAge` (`RunView`,
`PendingStored`). TLC has checked the invariant on six instances of `MCMaintenance`,
with `ForceHash` and without, with up to 5.7 million states.

`CachedPacksKept` and `HashedCachedPacksKept` (`RewrittenPacksKept`) are about readers
instead: the packs that a client's cached indexes name are there. They have the same two
pairs of hypotheses and `ViewsExpire`: the refresh interval is shorter than
`MinRewriteToOrphanDeletionDelay`, and a run and a refresh together are shorter than the
time between full runs (with the defaults, 15 minutes against an hour, and a run of almost a
day). The invariant `PacksInv` says that indexes in use when a run starts were loaded after
the previous run ended, so that what that run has moved they know (`LastingKnow`,
`RunScheduled`); that GC keeps the packs of what it deletes (`GCMisses`, `GCSees`,
`GCWrites`); that the end of a rewrite is recorded later than any index in use was loaded
that names the old pack, and the deletion waits longer than such an index is used
(`RunShows`, `ShownStored`); and that a deletion old enough to be dropped is in every index
in use. What remains is a content that a client has written again (`ClientsWrite`), the
exception in the property.

Assumptions on the constants are those named in the modules: besides the ranges of
numbers, that the value `Nil` is no member of the sets it is used beside, and in `IndexBlobV0`
the condition on the settle time that section 7 explains.

Neither checked nor proved: `CompactsUncompactedEpoch` beyond the first range checkpoint. The
theorems about compactions and reads have it as a hypothesis there, `epoch_compaction_gap` shows
a state from which it fails, and in no run does a single-epoch compaction follow a range (on
the instance of `epoch_ranges` only the epochs of the first range settle). Only model-checked:
liveness (`CallsReturn`), which the prover does not cover. The modules with proofs use no RECURSIVE operator.

## 9. Further configurations

These configurations are kept to reproduce behaviour met while modelling. Each one
checks one property and ends in a counterexample, except `content_shown` and `index_v0_hourly`; run them with
`tlc -config <name>.cfg <module>`.

| Configuration | Module | Property | Behaviour |
|---|---|---|---|
| `epoch_read_retry` | `MCEpochManager` | `LatestEpochComplete` | `GetCompleteIndexSet` replaces `LatestEpoch` by an epoch number inside its retry loop (`epoch_manager.go:755`): a read whose first snapshot expires misses later epochs, though "Retrying will re-examine the state of the world" (`:772`) |
| `epoch_partial_write` | `MCEpochManager` | `WholeWritesOnly` | readers get the shards of an incomplete index write (`epoch_manager.go:1006`), which `index_blob_manager_v1.go:119` says they ignore; harmless in itself, the entries refer to packs that are in storage |
| `epoch_compaction_gap` | `MCEpochManager` | `ReadComplete` | with single-epoch compactions of epochs 0 and 2 and a range 0..1, as they are left when range checkpoints overtake single-epoch compactions (section 8), epoch 2 is compacted a second time from what cleanup has left (`epoch_utils.go:199`), and readers may miss entries |
| `content_rewrite` | `MCWriteManager` | `RewritePreservesStatus` | a rewrite takes over a deletion that a pack being uploaded still shows (`content_manager.go:878`), and deletes a content that was restored since; `:699` says the status is preserved |
| `content_hidden` | `MCWriteManager` | `WrittenExists` | a pack that is still being uploaded hides a newer deletion in the index being built, and a write of the deleted content returns as if it existed (`content_manager.go:878`) |
| `content_shown` | `MCWriteManager` | `ShownRewritePreservesStatus` | passes: leaving out contents with such a hidden entry, a rewrite preserves the status (1.3 million states; proved in section 8) |
| `manifest_two_compactors` | `MCManifestManager` | `PublishedFound` | two clients compact: one deletes the content that the other has just written again under the same name, and manifests are lost; the note at `content_manager.go:119` asks that deleted contents can never be re-created |
| `manifest_failed_delete` | `MCManifestManager` | `DeletedStayDeleted` | `DeleteContent` fails half-way through a compaction (`committed_manifest_manager.go:277`), the next flush publishes a part of it, and a deleted manifest returns; `:254` asks for compaction to be atomic |
| `manifest_two_failures` | `MCManifestManager` | `DeletedStayDeleted` | two failed compactions of one client leave a committed content first deleted and then written again among the uncommitted changes; a third deletes it once more, which only removes the pending entry (`content_manager.go:133`), and the flush that follows leaves the committed entry, with a manifest that was deleted, in force |
| `maintenance_deleted_chain` | `MCMaintenance` | `SnapshotReadable` | GC deletes a content, a short upload takes it over from its cached entry, its snapshot is deleted, and a second upload that had loaded that snapshot commits after the next GC has looked: the content is dropped under it, though each upload is shorter than the margin |
| `index_v0_partial_drop` | `MCIndexBlobV0` | `DeletedNotFound` | a compaction drops a deletion from the blobs it takes and leaves out a blob with an older entry of the content (`index_blob_manager_v0.go:442`), as `index optimize --drop-deleted-older-than` without `--all` may do: the content is back |
| `index_v0_interval` | `MCIndexBlobV0` | `DeletedNotFoundUnlessPartial` | compactions start the settle time apart, as quick maintenance does every hour: a log written late in one run is not old yet in the next, and the third run deletes the inputs of both in one batch, in the order of a map. When an intermediate output goes before an earlier input, its log does not count any more (`index_blob_manager_v0.go:594`), and until the batch is done, or for good if it fails, a content returns whose deletion was dropped |
| `index_v0_resurrected` | `MCIndexBlobV0` | `DeletedNotFoundUnlessLapse` | two compactions within the settle time of storage, started by hand: a load sees the log of the second, which has dropped a deletion, and not yet the log of the first, whose input has the older entry |
| `index_v0_hourly` | `MCIndexBlobV0` | `LiveContentsFound`, `DeletedNotFoundUnlessLapse` | passes: compactions that start the settle time apart and last some time, with a fault (18.7 million states, section 7) |

## 10. Not modelled

See the components of `PROJECT.json`. Left out for good: encodings, cryptography,
compression, splitting and error correction (numeric kernels), storage providers,
the command line and generated code. Left to later modules: the list in section 2.
Within the modelled parts: the intermediate flush of snapshot GC after every 100000
deletions (`gc.go:156`), the `DropContents` option of index compaction, removal of old watermark blobs, quick maintenance, extension
of blob retention, change of the maintenance owner, the bound on index load retries, and the
upgrade from the older index format.
