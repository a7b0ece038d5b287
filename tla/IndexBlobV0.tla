---------------------------- MODULE IndexBlobV0 ----------------------------
(***************************************************************************)
(* The index blob manager of the legacy format (repo/content/indexblob,    *)
(* ManagerV0): index blobs `n` are replaced by compacted ones with the     *)
(* help of compaction logs `m` and delayed cleanup blobs `l`, on storage   *)
(* whose listings may lag behind by StorageSettleTime.                     *)
(*                                                                         *)
(* Other clients store index blobs and load the index at any time.  Only   *)
(* one client compacts: maintenance has an owner.                          *)
(*                                                                         *)
(* Abstractions: an index blob is one entry per content; which active      *)
(* blobs a compaction takes depends on their sizes and on its options, so  *)
(* any of them may be chosen; a compaction writes one shard and drops old  *)
(* deletions, not contents that are named to it (DropContents).  Blob      *)
(* names are random or a hash of random names: numbers here.               *)
(***************************************************************************)
EXTENDS Integers, FiniteSets, FiniteSetsExt

CONSTANTS
  Contents,
  Nil,                               \* no entry, no time
  MaxEventualConsistencySettleTime,  \* what compaction and cleanup wait for
  StorageSettleTime,                 \* how long a listing may miss a change
  OwnWritesCacheDuration,            \* how long a client remembers its own changes
  CompactionDuration, LoadDuration,  \* how long one call takes at most
  DropDeletedAge,                    \* DropDeletedBefore is this long ago
  CompactionInterval,                \* between compactions, 0 when they are started by hand
  MaxTime, MaxWrites, MaxWriteTime, MaxCompactions, MaxFaults \* bounds

\* Compaction, storage and a reader together stay within the time that cleanup waits.
ASSUME IndexBlobAssumption ==
  /\ IsFiniteSet(Contents) /\ Nil \notin Int /\ Nil \notin [ts : Nat, deleted : BOOLEAN] /\ StorageSettleTime > 0
  /\ CompactionDuration + LoadDuration + StorageSettleTime <= MaxEventualConsistencySettleTime
  /\ \A d \in {MaxEventualConsistencySettleTime, StorageSettleTime, OwnWritesCacheDuration,
               CompactionDuration, LoadDuration, DropDeletedAge, CompactionInterval, MaxTime, MaxWrites, MaxCompactions, MaxFaults} : d \in Nat

VARIABLES
  now,
  indexBlobs, compactionLogs, cleanupBlobs, \* storage, with what was deleted a short time ago
  nextID,
  compaction,  \* the compaction under way
  nextCompaction, \* when the schedule allows the next one
  load,        \* the load of the index under way
  written,     \* history: all entries that clients have stored, and when
  superseded,  \* history: index blobs that a compaction log names as inputs
  lapses,      \* history: steps of compactions that may uncover entries older than a deletion
  counters     \* how much of the bounds is used

vars == <<now, indexBlobs, compactionLogs, cleanupBlobs, nextID, compaction, nextCompaction, load, written, superseded, lapses, counters>>
storage == <<indexBlobs, compactionLogs, cleanupBlobs>>

Entry == [ts : Nat, deleted : BOOLEAN]
Index == [Contents -> Entry \cup {Nil}]
Time == Nat \cup {Nil}
IndexBlob == [id : Nat, entries : Index, own : BOOLEAN, at : Nat, gone : Time]
CompactionLog == [id : Nat, inputs : SUBSET Nat, outputs : SUBSET Nat, at : Nat, gone : Time]
CleanupBlob == [id : Nat, logs : SUBSET Nat, schedule : Nat, at : Nat, gone : Time]

TypeOK ==
  /\ now \in Nat /\ nextID \in Nat
  /\ \A b \in indexBlobs : b \in IndexBlob /\ b.id < nextID
  /\ \A l \in compactionLogs : l \in CompactionLog /\ \A i \in {l.id} \cup l.inputs \cup l.outputs : i < nextID
  /\ \A b \in cleanupBlobs : b \in CleanupBlob /\ b.schedule <= b.at
  /\ nextCompaction \in Nat
  /\ compaction \in [pc : {"idle", "register", "deleteOld", "deleting", "cleanup"}, start : Nat,
                     inputs : SUBSET Nat, outputs : SUBSET Nat, old : SUBSET Nat, deletes : SUBSET Nat, at : Nat]
  /\ load.start \in Nat /\ load.listed \subseteq {"blobs", "logs"}
  /\ \A b \in load.blobs : b \in IndexBlob
  /\ \A l \in load.logs : l \in CompactionLog
  /\ \A w \in written : w.content \in Contents /\ w.entry \in Entry /\ w.at \in Nat
  /\ superseded \subseteq Nat /\ lapses \subseteq {"partialDrop", "outputFirst"}
  /\ counters \in [writes : Nat, compactions : Nat, faults : Nat]
----------------------------------------------------------------------------
(* Storage *)

Exists(b) == b.gone = Nil
\* A listing has every blob that was stored long enough ago, and may still have a deleted one.
Settled(b) == Exists(b) /\ b.at + StorageSettleTime <= now
Listable(blobs) == {b \in blobs : Exists(b) \/ b.gone + StorageSettleTime > now}
Listings(blobs) ==
  LET settled == {b \in blobs : Settled(b)} IN {settled \cup l : l \in SUBSET (Listable(blobs) \ settled)}

\* ownwrites: the compacting client adds what it has stored lately and leaves out what it has
\* deleted lately.
OwnListings(blobs, own) ==
  {l \in Listings(blobs) :
     /\ {b \in own : Exists(b) /\ b.at + OwnWritesCacheDuration > now} \subseteq l
     /\ \A b \in l : Exists(b) \/ b.gone + OwnWritesCacheDuration <= now}
ListedIndexBlobs == OwnListings(indexBlobs, {b \in indexBlobs : b.own})
ListedLogs == OwnListings(compactionLogs, compactionLogs)

DeleteBlobs(blobs, ids) == {IF b.id \in ids /\ Exists(b) THEN [b EXCEPT !.gone = now] ELSE b : b \in blobs}
ByID(blobs) == {b.id : b \in blobs}
----------------------------------------------------------------------------
(* Index entries *)

NoEntries == [c \in Contents |-> Nil]
Newer(e, f) == e.ts > f.ts \/ (e.ts = f.ts /\ f.deleted /\ ~e.deleted)

\* The merge of index blobs: the newest entry of every content.
Merge(blobs) ==
  [c \in Contents |->
     LET all == {b.entries[c] : b \in blobs} \ {Nil} IN
     IF all = {} THEN Nil ELSE CHOOSE e \in all : \A f \in all : e = f \/ Newer(e, f)]

\* compactIndexBlobs: contents deleted long ago are dropped after all inputs were merged.
Compacted(blobs, dropDeletedBefore) ==
  LET merged == Merge(blobs) IN
  [c \in Contents |-> IF merged[c] # Nil /\ merged[c].deleted /\ merged[c].ts < dropDeletedBefore
                      THEN Nil ELSE merged[c]]

\* removeCompactedIndexes: the inputs of logs whose outputs are all there.
RemoveCompactedIndexes(blobs, logs) ==
  {b \in blobs : \A l \in logs : l.outputs \subseteq ByID(blobs) => b.id \notin l.inputs}

IdleCompaction == [pc |-> "idle", start |-> 0, inputs |-> {}, outputs |-> {}, old |-> {}, deletes |-> {}, at |-> 0]
IdleLoad == [start |-> 0, listed |-> {}, blobs |-> {}, logs |-> {}]

\* The repository is empty.
Init ==
  /\ now = 0 /\ nextID = 0
  /\ indexBlobs = {} /\ compactionLogs = {} /\ cleanupBlobs = {}
  /\ compaction = IdleCompaction /\ nextCompaction = 0 /\ load = IdleLoad /\ written = {} /\ superseded = {} /\ lapses = {}
  /\ counters = [writes |-> 0, compactions |-> 0, faults |-> 0]
----------------------------------------------------------------------------
\* WriteIndexBlobs of a client that has written or deleted a content; its clock gives the
\* entry a time after that of the entry it replaces.
WriteIndexBlobs(c, deleted) ==
  LET before == {w.entry.ts : w \in {v \in written : v.content = c}}
      entry == [ts |-> IF before = {} \/ Max(before) < now THEN now ELSE Max(before) + 1, deleted |-> deleted]
  IN  /\ counters.writes < MaxWrites /\ now <= MaxWriteTime
      /\ deleted => before # {}
      /\ indexBlobs' = indexBlobs \cup {[id |-> nextID, entries |-> [NoEntries EXCEPT ![c] = entry],
                                         own |-> FALSE, at |-> now, gone |-> Nil]}
      /\ nextID' = nextID + 1
      /\ written' = written \cup {[content |-> c, entry |-> entry, at |-> now]}
      /\ counters' = [counters EXCEPT !.writes = @ + 1]
      /\ UNCHANGED <<now, compactionLogs, cleanupBlobs, compaction, nextCompaction, load, superseded, lapses>>
----------------------------------------------------------------------------
(* Compact *)

\* getBlobsToCompact: all active blobs or some of them, by their sizes and the options, whether
\* deletions are dropped or not.  A single blob is compacted only to drop something.
Inputs(active, drop) == {s \in SUBSET active : drop \/ Cardinality(s) > 1}

\* A deletion is dropped while a blob that is left out has an entry of the same content.
LeavesEntry(left, inputs, entries) ==
  \E c \in Contents : entries[c] # Merge(inputs)[c] /\ \E b \in left : b.entries[c] # Nil

\* The active blobs are listed and read, and the compacted blob is stored, if it has entries.
CompactIndexBlobs(drop) ==
  /\ compaction.pc = "idle" /\ now >= nextCompaction /\ counters.compactions < MaxCompactions
  /\ \E blobs \in ListedIndexBlobs, logs \in ListedLogs :
     \E inputs \in Inputs(RemoveCompactedIndexes(blobs, logs), drop) :
       LET entries == Compacted(inputs, IF drop THEN now - DropDeletedAge ELSE 0)
           outputs == IF entries = NoEntries THEN {} ELSE {nextID}
           left == RemoveCompactedIndexes(blobs, logs) \ inputs
       IN  /\ indexBlobs' = indexBlobs \cup
                {[id |-> i, entries |-> entries, own |-> TRUE, at |-> now, gone |-> Nil] : i \in outputs}
           /\ compaction' = [IdleCompaction EXCEPT
                !.pc = "register", !.start = now, !.inputs = ByID(inputs), !.outputs = outputs]
           /\ lapses' = lapses \cup (IF LeavesEntry(left, inputs, entries) THEN {"partialDrop"} ELSE {})
  /\ nextID' = nextID + 1
  /\ nextCompaction' = now + CompactionInterval
  /\ counters' = [counters EXCEPT !.compactions = @ + 1]
  /\ UNCHANGED <<now, compactionLogs, cleanupBlobs, load, written, superseded>>

\* There is nothing to compact: only the cleanup is left to do.
NothingToCompact ==
  /\ compaction.pc = "idle" /\ now >= nextCompaction /\ counters.compactions < MaxCompactions
  /\ compaction' = [IdleCompaction EXCEPT !.pc = "cleanup", !.start = now]
  /\ nextCompaction' = now + CompactionInterval
  /\ counters' = [counters EXCEPT !.compactions = @ + 1]
  /\ UNCHANGED <<now, storage, nextID, load, written, superseded, lapses>>

\* registerCompaction: from here on the inputs are not active.
RegisterCompaction ==
  /\ compaction.pc = "register"
  /\ compactionLogs' = compactionLogs \cup
       {[id |-> nextID, inputs |-> compaction.inputs, outputs |-> compaction.outputs, at |-> now, gone |-> Nil]}
  /\ nextID' = nextID + 1
  /\ superseded' = superseded \cup compaction.inputs
  /\ compaction' = [compaction EXCEPT !.pc = "deleteOld", !.at = now]
  /\ UNCHANGED <<now, indexBlobs, cleanupBlobs, nextCompaction, load, written, lapses, counters>>

\* Mutant: no log is too recent.
AllLogs(logs) == logs

\* Mutant: a log of exactly the settle time ago is too recent.
LogsBefore(logs) == {l \in logs : l.at < compaction.at - MaxEventualConsistencySettleTime}

\* blobsOlderThan, findIndexBlobsToDelete: logs that everyone sees by now.
OldLogs(logs) == {l \in logs : l.at <= compaction.at - MaxEventualConsistencySettleTime}

\* deleteOldBlobs: the inputs of the old compaction logs are to be deleted.
FindIndexBlobsToDelete ==
  /\ compaction.pc = "deleteOld"
  /\ \E logs \in ListedLogs :
       compaction' = [compaction EXCEPT !.pc = "deleting", !.old = ByID(OldLogs(logs)),
                        !.deletes = UNION {l.inputs : l \in {k \in OldLogs(logs) : Exists(k)}}]
  /\ UNCHANGED <<now, storage, nextID, nextCompaction, load, written, superseded, lapses, counters>>

\* Blob i is the output of a compaction of which a listing may still show an input.
InputsSeen(i) == \E l \in compactionLogs, b \in indexBlobs : i \in l.outputs /\ b.id \in l.inputs

\* deleteBlobsFromStorageAndCache: one blob after the other, in the order of a map.
DeleteIndexBlob ==
  /\ compaction.pc = "deleting"
  /\ \E i \in compaction.deletes :
       /\ indexBlobs' = DeleteBlobs(indexBlobs, {i})
       /\ compaction' = [compaction EXCEPT !.deletes = @ \ {i}]
       /\ lapses' = lapses \cup (IF InputsSeen(i) THEN {"outputFirst"} ELSE {})
  /\ UNCHANGED <<now, compactionLogs, cleanupBlobs, nextID, nextCompaction, load, written, superseded, counters>>

\* Mutant: the logs are scheduled first, the index blobs are left for the next compaction.
DelayCleanupFirst ==
  /\ compaction.pc = "deleting"
  /\ IF compaction.old = {} THEN UNCHANGED <<cleanupBlobs, nextID>>
     ELSE /\ cleanupBlobs' = cleanupBlobs \cup
               {[id |-> nextID, logs |-> compaction.old, schedule |-> compaction.at, at |-> now, gone |-> Nil]}
          /\ nextID' = nextID + 1
  /\ compaction' = [compaction EXCEPT !.pc = "cleanup"]
  /\ UNCHANGED <<now, indexBlobs, compactionLogs, nextCompaction, load, written, superseded, lapses, counters>>

\* Mutant: the cleanup blob has the time when the logs may be deleted.
DelayWithDueTime ==
  /\ compaction.pc = "deleting" /\ compaction.deletes = {}
  /\ IF compaction.old = {} THEN UNCHANGED <<cleanupBlobs, nextID>>
     ELSE /\ cleanupBlobs' = cleanupBlobs \cup
               {[id |-> nextID, logs |-> compaction.old, at |-> now, gone |-> Nil,
                 schedule |-> compaction.at + MaxEventualConsistencySettleTime]}
          /\ nextID' = nextID + 1
  /\ compaction' = [compaction EXCEPT !.pc = "cleanup"]
  /\ UNCHANGED <<now, indexBlobs, compactionLogs, nextCompaction, load, written, superseded, lapses, counters>>

\* delayCleanupBlobs: the old logs are to be deleted later.
DelayCleanupBlobs ==
  /\ compaction.pc = "deleting" /\ compaction.deletes = {}
  /\ IF compaction.old = {} THEN UNCHANGED <<cleanupBlobs, nextID>>
     ELSE /\ cleanupBlobs' = cleanupBlobs \cup
               {[id |-> nextID, logs |-> compaction.old, schedule |-> compaction.at, at |-> now, gone |-> Nil]}
          /\ nextID' = nextID + 1
  /\ compaction' = [compaction EXCEPT !.pc = "cleanup"]
  /\ UNCHANGED <<now, indexBlobs, compactionLogs, nextCompaction, load, written, superseded, lapses, counters>>

\* Mutant: logs are deleted as soon as their inputs.
DueAtOnce(blobs) == blobs

\* findBlobsToDelete: the cleanup blobs that are old enough, by the latest one's time.
Due(blobs) ==
  {b \in blobs : \E latest \in blobs : latest.at - b.schedule >= MaxEventualConsistencySettleTime}

\* cleanup: the compaction logs that cleanup blobs name, then those blobs; a part when a
\* delete fails.
Cleanup ==
  /\ compaction.pc = "cleanup"
  /\ \E blobs \in OwnListings(cleanupBlobs, cleanupBlobs) :
       LET due == Due({b \in blobs : Exists(b)})
           logs == UNION {b.logs : b \in due}
       IN  \/ /\ compactionLogs' = DeleteBlobs(compactionLogs, logs)
              /\ cleanupBlobs' = DeleteBlobs(cleanupBlobs, ByID(due))
              /\ UNCHANGED counters
           \/ /\ counters.faults < MaxFaults
              /\ \E some \in SUBSET (logs \cap ByID({l \in compactionLogs : Exists(l)})) \ {{}} :
                   compactionLogs' = DeleteBlobs(compactionLogs, some)
              /\ counters' = [counters EXCEPT !.faults = @ + 1]
              /\ UNCHANGED cleanupBlobs
  /\ compaction' = IdleCompaction
  /\ UNCHANGED <<now, indexBlobs, nextID, nextCompaction, load, written, superseded, lapses>>

\* The process dies or storage returns an error.
CompactionStops ==
  /\ compaction.pc # "idle" /\ counters.faults < MaxFaults
  /\ compaction' = IdleCompaction
  /\ counters' = [counters EXCEPT !.faults = @ + 1]
  /\ UNCHANGED <<now, storage, nextID, nextCompaction, load, written, superseded, lapses>>
----------------------------------------------------------------------------
(* loadPackIndexesLocked of any client, with ListActiveIndexBlobs *)

\* Index blobs and compaction logs are listed in parallel.
ListIndexBlobs ==
  /\ "blobs" \notin load.listed
  /\ \E blobs \in Listings(indexBlobs) :
       load' = [load EXCEPT !.blobs = blobs, !.listed = @ \cup {"blobs"},
                            !.start = IF load.listed = {} THEN now ELSE @]
  /\ UNCHANGED <<now, storage, nextID, compaction, nextCompaction, written, superseded, lapses, counters>>

ListCompactionLogs ==
  /\ "logs" \notin load.listed
  /\ \E logs \in Listings(compactionLogs) :
       load' = [load EXCEPT !.logs = logs, !.listed = @ \cup {"logs"},
                            !.start = IF load.listed = {} THEN now ELSE @]
  /\ UNCHANGED <<now, storage, nextID, compaction, nextCompaction, written, superseded, lapses, counters>>

AllListed == load.listed = {"blobs", "logs"}

\* The indexes a load may end with.  Logs that are gone when they are read do not count,
\* unless they are in the cache.
LoadedIndexes ==
  LET gone == {l \in load.logs : ~\E k \in compactionLogs : k.id = l.id /\ Exists(k)} IN
  {Merge(RemoveCompactedIndexes(load.blobs, load.logs \ missed)) : missed \in SUBSET gone}

\* One of these is used.  An index blob that is gone may be in the cache too; when it is not,
\* the load starts again.
UseIndexBlobs ==
  /\ AllListed
  /\ load' = IdleLoad
  /\ UNCHANGED <<now, storage, nextID, compaction, nextCompaction, written, superseded, lapses, counters>>
----------------------------------------------------------------------------
\* Time passes.  What was deleted long enough ago is forgotten.
Tick ==
  /\ now < MaxTime
  /\ compaction.pc # "idle" => now < compaction.start + CompactionDuration
  /\ load.listed # {} => now < load.start + LoadDuration
  /\ now' = now + 1
  /\ indexBlobs' = {b \in indexBlobs : Exists(b) \/ b.gone + StorageSettleTime > now'}
  /\ compactionLogs' = {b \in compactionLogs : Exists(b) \/ b.gone + StorageSettleTime > now'}
  /\ cleanupBlobs' = {b \in cleanupBlobs : Exists(b) \/ b.gone + StorageSettleTime > now'}
  /\ UNCHANGED <<nextID, compaction, nextCompaction, load, written, superseded, lapses, counters>>

Next ==
  \/ \E c \in Contents, deleted \in BOOLEAN : WriteIndexBlobs(c, deleted)
  \/ \E drop \in BOOLEAN : CompactIndexBlobs(drop)
  \/ NothingToCompact \/ RegisterCompaction \/ FindIndexBlobsToDelete \/ DeleteIndexBlob \/ DelayCleanupBlobs
  \/ Cleanup \/ CompactionStops
  \/ ListIndexBlobs \/ ListCompactionLogs \/ UseIndexBlobs
  \/ Tick

Spec == Init /\ [][Next]_vars
----------------------------------------------------------------------------
(* Properties *)

\* What an entry that had settled when the load began still says, when no later one
\* of the same content was ever written.
Last(w) == \A v \in written : v.content = w.content => v.entry.ts <= w.entry.ts
SettledAtStart(w) == w.at + StorageSettleTime <= load.start

\* A load of the index finds every content that was stored and not deleted since, while index
\* blobs are compacted, compactions die and listings lag behind: no step of the replacement
\* leaves a moment in which neither the inputs nor the output of a compaction count.
LiveContentsFound ==
  AllListed => \A w \in written : SettledAtStart(w) /\ Last(w) /\ ~w.entry.deleted =>
    \A index \in LoadedIndexes : index[w.content] = w.entry

\* A content that was deleted is not found again: no older index blob comes back when the
\* deletion itself was dropped.
DeletedNotFound ==
  AllListed => \A w \in written : SettledAtStart(w) /\ Last(w) /\ w.entry.deleted =>
    \A index \in LoadedIndexes : index[w.content] = Nil \/ index[w.content].deleted

\* The same, with dying compactions and failing deletes, as long as compactions keep two rules
\* that the code does not enforce: a deletion is dropped only together with all active entries of
\* its content, and the output of a compaction is deleted only when its inputs are gone.
DeletedNotFoundUnlessLapse == lapses = {} => DeletedNotFound

\* deleteOldBlobs deletes blobs one by one in any order, and yet the output of a compaction, when
\* it was compacted in turn, only after none of its inputs is listed any more, as long as no
\* compaction has died.  That takes runs further apart than what it waits for.
OutputsLast == counters.faults = 0 => "outputFirst" \notin lapses

\* Index blobs are deleted before the compaction logs that name them as inputs, also when
\* deletes fail half-way and compactions are started again: a blob that was replaced stays
\* marked as long as it exists.
ReplacedStaysMarked ==
  \A b \in indexBlobs : Exists(b) /\ b.id \in superseded =>
    \E l \in compactionLogs : Exists(l) /\ b.id \in l.inputs
=============================================================================
