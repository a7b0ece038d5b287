------------------------ MODULE IndexBlobV0Proofs ------------------------
(***************************************************************************)
(* Proofs about IndexBlobV0, for every set of contents, every settle time, *)
(* duration and bound that IndexBlobAssumption allows: type correctness,   *)
(* that a replaced index blob stays marked, and that a load of the index   *)
(* finds every live content that had settled when it began; and, when      *)
(* compactions are far enough apart and none fails, no deleted one.        *)
(***************************************************************************)
EXTENDS IndexBlobV0, WellFoundedInduction, TLAPS

(* The inductive invariant, in its parts *)

\* The index blobs and the logs that storage has or that the load has listed.
Blobs == indexBlobs \cup load.blobs
Logs == compactionLogs \cup load.logs
\* The last entry of a content, when it is not a deletion, and the blobs that hold it.
LastLive == {w \in written : Last(w) /\ ~w.entry.deleted}
Holds(b, w) == b.entries[w.content] = w.entry

\* The types, with those of the parts of records.
CompactionRecord ==
  [pc : {"idle", "register", "deleteOld", "deleting", "cleanup"}, start : Nat,
   inputs : SUBSET Nat, outputs : SUBSET Nat, old : SUBSET Nat, deletes : SUBSET Nat, at : Nat]
LoadRecord ==
  [start : Nat, listed : SUBSET {"blobs", "logs"}, blobs : SUBSET IndexBlob, logs : SUBSET CompactionLog]
Counters == [writes : Nat, compactions : Nat, faults : Nat]
TypeInv ==
  /\ now \in Nat /\ nextID \in Nat /\ nextCompaction \in Nat
  /\ indexBlobs \subseteq IndexBlob /\ compactionLogs \subseteq CompactionLog
  /\ cleanupBlobs \subseteq CleanupBlob /\ \A b \in cleanupBlobs : b.schedule <= b.at
  /\ compaction \in CompactionRecord /\ load \in LoadRecord /\ counters \in Counters
  /\ written \subseteq [content : Contents, entry : Entry, at : Nat]
  /\ superseded \subseteq Nat /\ lapses \subseteq {"partialDrop", "outputFirst"}

\* No name is used that was not given out.
NamesUsed ==
  /\ \A b \in Blobs : b.id < nextID
  /\ \A l \in Logs : \A i \in {l.id} \cup l.inputs \cup l.outputs : i < nextID
  /\ \A b \in cleanupBlobs : \A i \in b.logs : i < nextID
  /\ \A i \in compaction.inputs \cup compaction.outputs \cup compaction.old \cup superseded : i < nextID

\* A name stands for one blob.
NamesUnique ==
  /\ \A b, d \in Blobs : b.id = d.id => b.entries = d.entries
  /\ \A l, k \in compactionLogs : l.id = k.id => l.inputs = k.inputs

\* Nothing comes from the future.
Clock ==
  /\ compaction.at <= now /\ load.start <= now
  /\ \A b \in indexBlobs : b.at <= now
  /\ \A w \in written : w.entry.ts <= now + counters.writes

\* Entries are ones that clients have written, and a client's clock tells them apart.
EntriesWritten ==
  /\ \A b \in Blobs : \A c \in Contents :
       b.entries[c] # Nil => \E w \in written : w.content = c /\ w.entry = b.entries[c]
  /\ \A v, w \in written : v.content = w.content /\ v.entry.ts = w.entry.ts => v.entry = w.entry

\* The output of a compaction takes the place of its inputs.
Replaces(l) == \A w \in LastLive, b \in Blobs :
  b.id \in l.inputs /\ Holds(b, w) =>
    l.outputs # {} /\ \A o \in Blobs : o.id \in l.outputs => Holds(o, w) /\ o.id > b.id
OutputsReplace == (\A l \in Logs : Replaces(l)) /\ (compaction.pc = "register" => Replaces(compaction))

\* Another blob that holds an entry, stored when the log was or seen by everyone.
LaterHolder(b, w, at) == \E d \in indexBlobs :
  /\ Exists(d) /\ Holds(d, w) /\ d.id > b.id
  /\ d.at <= at \/ d.at + StorageSettleTime <= now
LaterHolders ==
  /\ \A l \in compactionLogs, w \in LastLive, b \in indexBlobs :
       Exists(b) /\ b.id \in l.inputs /\ Holds(b, w) => LaterHolder(b, w, l.at)
  /\ compaction.pc = "register" => \A w \in LastLive, b \in indexBlobs :
       Exists(b) /\ b.id \in compaction.inputs /\ Holds(b, w) => LaterHolder(b, w, now)

\* What is about to be deleted are inputs of logs that have settled.
DeletesSettled == compaction.pc = "deleting" => \A i \in compaction.deletes : \E l \in compactionLogs :
  Exists(l) /\ i \in l.inputs /\ l.at + MaxEventualConsistencySettleTime <= compaction.at

\* A live content is in a blob that was stored with it or that everyone sees.
LiveHeld == \A w \in LastLive : \E b \in indexBlobs :
  Exists(b) /\ Holds(b, w) /\ (b.at <= w.at \/ b.at + StorageSettleTime <= now)

\* A load that has listed the index blobs has one with each content that had settled.
LoadHolds == "blobs" \in load.listed => \A w \in LastLive :
  SettledAtStart(w) => \E b \in load.blobs : Holds(b, w)

\* No index blob is left that a log names as input.
InputsGone(l) == \A b \in indexBlobs : b.id \in l.inputs => ~Exists(b)
\* So it is for the logs that are deleted or about to be, ...
LogsClean == \A l \in compactionLogs :
  ~Exists(l) \/ (\E b \in cleanupBlobs : l.id \in b.logs) => InputsGone(l)
\* ... and, once the deletes are done, for the old logs.
DeletesComplete == compaction.pc = "deleting" => \A l \in compactionLogs, b \in indexBlobs :
  l.id \in compaction.old /\ Exists(b) /\ b.id \in l.inputs => b.id \in compaction.deletes

Inv == /\ TypeInv /\ NamesUsed /\ NamesUnique /\ Clock /\ EntriesWritten /\ OutputsReplace
       /\ LaterHolders /\ DeletesSettled /\ LiveHeld /\ LoadHolds
       /\ LogsClean /\ DeletesComplete /\ ReplacedStaysMarked
----------------------------------------------------------------------------
(* Lemmas about the operators *)

\* A set of natural numbers that is not empty has a least element.
LEMMA LeastNat == ASSUME NEW T \in SUBSET Nat, T # {}
                  PROVE  \E x \in T : \A y \in T : x <= y
<1> DEFINE R == OpToRel(<, Nat)
<1>1. IsWellFoundedOn(R, Nat)
  BY NatLessThanWellFounded
<1>2. \A x, y \in Nat : x < y => <<x, y>> \in R
  BY DEF OpToRel
<1> HIDE DEF R
<1>3. PICK x \in T : \A y \in T : ~(<<y, x>> \in R)
  BY <1>1, WFMin
<1>4. \A y \in T : ~(y < x)
  BY <1>2, <1>3
<1> QED BY <1>4

\* One that is bounded has a greatest element.
LEMMA GreatestNat == ASSUME NEW T \in SUBSET Nat, T # {}, NEW n \in Nat, \A x \in T : x <= n
                     PROVE  \E x \in T : \A y \in T : y <= x
<1> DEFINE U == {k \in Nat : \A x \in T : x <= k}
<1>1. U \in SUBSET Nat /\ U # {}
  OBVIOUS
<1>2. PICK k \in U : \A j \in U : k <= j
  BY <1>1, LeastNat
<1>3. k \in Nat /\ \A x \in T : x <= k
  BY <1>2
<1>4. CASE k \in T
  BY <1>3, <1>4
<1>5. CASE k \notin T
  <2>1. PICK x \in T : TRUE
    OBVIOUS
  <2>2. \A y \in T : y <= k - 1
    BY <1>3, <1>5
  <2>3. k - 1 \in U
    BY <1>3, <2>1, <2>2
  <2> QED BY <1>2, <1>3, <2>3
<1> QED BY <1>4, <1>5

\* Max of such a set is its greatest element.
LEMMA MaxNat == ASSUME NEW T \in SUBSET Nat, T # {}, NEW n \in Nat, \A x \in T : x <= n
                PROVE  Max(T) \in T /\ \A y \in T : y <= Max(T)
<1>1. PICK x \in T : \A y \in T : y <= x
  BY GreatestNat
<1>2. \A y \in T : x >= y
  BY <1>1
<1>3. Max(T) \in T /\ \A y \in T : Max(T) >= y
  BY <1>2 DEF Max
<1> QED BY <1>3

\* Among entries whose times are bounded one is the newest.
LEMMA NewestEntry == ASSUME NEW E \in SUBSET Entry, E # {}, NEW n \in Nat, \A e \in E : e.ts <= n
                     PROVE  \E e \in E : \A f \in E : e = f \/ Newer(e, f)
<1> DEFINE T == {e.ts : e \in E}
<1>1. \A e \in E : e.ts \in Nat /\ e.deleted \in BOOLEAN /\ e = [ts |-> e.ts, deleted |-> e.deleted]
  BY DEF Entry
<1>2. T \in SUBSET Nat /\ T # {} /\ \A x \in T : x <= n
  BY <1>1
<1>3. PICK x \in T : \A y \in T : y <= x
  BY <1>2, GreatestNat
<1>4. PICK e \in E : e.ts = x
  OBVIOUS
<1>5. \A f \in E : f.ts <= e.ts
  BY <1>3, <1>4
<1>6. CASE \E d \in E : d.ts = e.ts /\ ~d.deleted
  <2>1. PICK d \in E : d.ts = e.ts /\ ~d.deleted
    BY <1>6
  <2>2. \A f \in E : d = f \/ Newer(d, f)
    <3> TAKE f \in E
    <3>1. CASE f.ts = d.ts /\ ~f.deleted
      BY <1>1, <2>1, <3>1
    <3>2. CASE f.ts = d.ts /\ f.deleted
      BY <2>1, <3>2 DEF Newer
    <3>3. CASE f.ts # d.ts
      BY <1>1, <1>5, <2>1, <3>3 DEF Newer
    <3> QED BY <3>1, <3>2, <3>3
  <2> QED BY <2>2
<1>7. CASE \A d \in E : d.ts = e.ts => d.deleted
  <2>1. \A f \in E : e = f \/ Newer(e, f)
    <3> TAKE f \in E
    <3>1. CASE f.ts = e.ts
      BY <1>1, <1>7, <3>1
    <3>2. CASE f.ts # e.ts
      BY <1>1, <1>5, <3>2 DEF Newer
    <3> QED BY <3>1, <3>2
  <2> QED BY <2>1
<1> QED BY <1>6, <1>7

\* A merge gives every content the newest of its entries, if it has any.
LEMMA MergeNewest == ASSUME NEW B \in SUBSET IndexBlob, NEW n \in Nat,
                            \A b \in B, c \in Contents : b.entries[c] # Nil => b.entries[c].ts <= n
                     PROVE  /\ Merge(B) \in Index
                            /\ \A c \in Contents :
                                 /\ Merge(B)[c] = Nil => \A b \in B : b.entries[c] = Nil
                                 /\ Merge(B)[c] # Nil => \E b \in B : b.entries[c] = Merge(B)[c]
                                 /\ \A b \in B : b.entries[c] # Nil =>
                                      Merge(B)[c] = b.entries[c] \/ Newer(Merge(B)[c], b.entries[c])
<1> DEFINE all(c) == {b.entries[c] : b \in B} \ {Nil}
           pick(c) == CHOOSE e \in all(c) : \A f \in all(c) : e = f \/ Newer(e, f)
<1>1. \A c \in Contents : Merge(B)[c] = IF all(c) = {} THEN Nil ELSE pick(c)
  BY DEF Merge
<1>2. \A c \in Contents : all(c) \in SUBSET Entry /\ \A e \in all(c) : e.ts <= n
  BY DEF IndexBlob, Index
<1>3. \A c \in Contents : all(c) # {} => pick(c) \in all(c) /\ \A f \in all(c) : pick(c) = f \/ Newer(pick(c), f)
  BY <1>2, NewestEntry
<1>4. Merge(B) \in Index
  <2>1. \A c \in Contents : Merge(B)[c] \in Entry \cup {Nil}
    BY <1>1, <1>2, <1>3
  <2>2. Merge(B) = [c \in Contents |-> Merge(B)[c]]
    BY DEF Merge
  <2> QED BY <2>1, <2>2 DEF Index
<1>5. ASSUME NEW c \in Contents
      PROVE  /\ Merge(B)[c] = Nil => \A b \in B : b.entries[c] = Nil
             /\ Merge(B)[c] # Nil => \E b \in B : b.entries[c] = Merge(B)[c]
             /\ \A b \in B : b.entries[c] # Nil =>
                  Merge(B)[c] = b.entries[c] \/ Newer(Merge(B)[c], b.entries[c])
  <2>1. \A b \in B : b.entries[c] # Nil => b.entries[c] \in all(c)
    OBVIOUS
  <2>2. all(c) # {} => Merge(B)[c] \in all(c) /\ \A f \in all(c) : Merge(B)[c] = f \/ Newer(Merge(B)[c], f)
    BY <1>1, <1>3
  <2>3. all(c) = {} => Merge(B)[c] = Nil
    BY <1>1
  <2>4. \A e \in all(c) : e # Nil /\ \E b \in B : b.entries[c] = e
    OBVIOUS
  <2> HIDE DEF all
  <2> QED BY <2>1, <2>2, <2>3, <2>4
<1> QED BY <1>4, <1>5

\* Deleting index blobs marks some as gone and changes nothing else of them.
LEMMA DeleteIndexBlobsFacts ==
  ASSUME NEW B \in SUBSET IndexBlob, NEW ids, now \in Nat
  PROVE  /\ \A d \in DeleteBlobs(B, ids) : d \in IndexBlob /\ \E b \in B :
              /\ b.id = d.id /\ b.entries = d.entries /\ b.at = d.at
              /\ Exists(d) => d = b /\ d.id \notin ids
         /\ \A b \in B : Exists(b) /\ b.id \notin ids => b \in DeleteBlobs(B, ids)
  BY IndexBlobAssumption DEF DeleteBlobs, Exists, IndexBlob, Time

\* The same for logs ...
LEMMA DeleteLogsFacts ==
  ASSUME NEW B \in SUBSET CompactionLog, NEW ids, now \in Nat
  PROVE  /\ \A d \in DeleteBlobs(B, ids) : d \in CompactionLog /\ \E b \in B :
              /\ b.id = d.id /\ b.inputs = d.inputs /\ b.outputs = d.outputs /\ b.at = d.at
              /\ Exists(d) => d = b /\ d.id \notin ids
              /\ ~Exists(d) => ~Exists(b) \/ d.id \in ids
         /\ \A b \in B : Exists(b) /\ b.id \notin ids => b \in DeleteBlobs(B, ids)
  BY IndexBlobAssumption DEF DeleteBlobs, Exists, CompactionLog, Time

\* ... and for cleanup blobs.
LEMMA DeleteCleanupFacts ==
  ASSUME NEW B \in SUBSET CleanupBlob, NEW ids, now \in Nat
  PROVE  \A d \in DeleteBlobs(B, ids) : d \in CleanupBlob /\ \E b \in B :
           b.logs = d.logs /\ b.schedule = d.schedule /\ b.at = d.at
  BY IndexBlobAssumption DEF DeleteBlobs, Exists, CleanupBlob, Time
----------------------------------------------------------------------------
(* Every step keeps the invariant *)

\* What is assumed of the constants, in the form the proofs use it.
LEMMA Constants == /\ Nil \notin Int /\ Nil \notin Entry
                   /\ StorageSettleTime \in Nat /\ StorageSettleTime > 0
                   /\ MaxEventualConsistencySettleTime \in Nat
                   /\ StorageSettleTime <= MaxEventualConsistencySettleTime
                   /\ CompactionInterval \in Nat
<1>1. \A d \in {MaxEventualConsistencySettleTime, StorageSettleTime, OwnWritesCacheDuration,
                CompactionDuration, LoadDuration, DropDeletedAge, CompactionInterval, MaxTime, MaxWrites,
                MaxCompactions, MaxFaults} : d \in Nat
  BY IndexBlobAssumption
<1>2. /\ MaxEventualConsistencySettleTime \in Nat /\ StorageSettleTime \in Nat
      /\ CompactionDuration \in Nat /\ LoadDuration \in Nat /\ CompactionInterval \in Nat
  BY <1>1
<1> QED BY <1>2, IndexBlobAssumption DEF Entry

\* The fields of a compaction, of a load and of the counters.
LEMMA RecordFields == /\ IdleCompaction \in CompactionRecord /\ IdleLoad \in LoadRecord
                      /\ \A r \in CompactionRecord :
                           /\ r.inputs \subseteq Nat /\ r.outputs \subseteq Nat /\ r.old \subseteq Nat
                           /\ r.deletes \subseteq Nat /\ r.at \in Nat /\ r.start \in Nat
                      /\ \A r \in LoadRecord : r.start \in Nat /\ r.blobs \subseteq IndexBlob /\ r.logs \subseteq CompactionLog
                      /\ \A r \in Counters : r.writes \in Nat /\ r.compactions \in Nat /\ r.faults \in Nat
  BY DEF IdleCompaction, IdleLoad, CompactionRecord, LoadRecord, Counters

\* Nothing to compact: storage is left alone.
LEMMA NothingToCompactStep == ASSUME Inv, NothingToCompact
                              PROVE  Inv'
<1> USE DEF Inv
<1>1. TypeInv'
  <2>0. compaction' = [pc |-> "cleanup", start |-> now, inputs |-> {}, outputs |-> {}, old |-> {}, deletes |-> {}, at |-> 0]
    BY DEF NothingToCompact, IdleCompaction
  <2>1. compaction' \in CompactionRecord /\ counters' \in Counters
    BY <2>0 DEF NothingToCompact, TypeInv, CompactionRecord, Counters
  <2>2. nextCompaction' \in Nat
    BY Constants DEF NothingToCompact, TypeInv
  <2> QED BY <2>1, <2>2 DEF NothingToCompact, TypeInv, storage
<1>2. NamesUsed'
  BY DEF NothingToCompact, NamesUsed, Blobs, Logs, storage, IdleCompaction
<1>3. NamesUnique'
  BY DEF NothingToCompact, NamesUnique, Blobs, storage, IdleCompaction
<1>4. Clock'
  BY DEF NothingToCompact, TypeInv, Clock, storage, IdleCompaction
<1>5. EntriesWritten'
  BY DEF NothingToCompact, EntriesWritten, Blobs, storage, IdleCompaction
<1>6. OutputsReplace'
  BY DEF NothingToCompact, OutputsReplace, Replaces, Blobs, Logs, LastLive, Last, Holds, storage, IdleCompaction
<1>7. LaterHolders'
  BY DEF NothingToCompact, LaterHolders, LaterHolder, LastLive, Last, Holds, storage, IdleCompaction
<1>8. DeletesSettled'
  BY DEF NothingToCompact, DeletesSettled, storage, IdleCompaction
<1>9. LiveHeld'
  BY DEF NothingToCompact, LiveHeld, LastLive, Last, Holds, storage, IdleCompaction
<1>10. LoadHolds'
  BY DEF NothingToCompact, LoadHolds, LastLive, Last, Holds, SettledAtStart, storage, IdleCompaction
<1>11. LogsClean'
  BY DEF NothingToCompact, LogsClean, InputsGone, storage, IdleCompaction
<1>12. DeletesComplete'
  BY DEF NothingToCompact, DeletesComplete, storage, IdleCompaction
<1>13. ReplacedStaysMarked'
  BY DEF NothingToCompact, ReplacedStaysMarked, storage, IdleCompaction
<1> QED BY <1>1, <1>2, <1>3, <1>4, <1>5, <1>6, <1>7, <1>8, <1>9, <1>10, <1>11, <1>12, <1>13

\* A log is written: its inputs are marked, and the output holds what they held.
LEMMA RegisterCompactionStep == ASSUME Inv, RegisterCompaction
                                PROVE  Inv'
<1> USE DEF Inv
<1>1. TypeInv'
  <2>1. compaction' \in CompactionRecord
    BY DEF RegisterCompaction, TypeInv, CompactionRecord
  <2>2. compaction.inputs \in SUBSET Nat /\ compaction.outputs \in SUBSET Nat
    BY DEF TypeInv, CompactionRecord
  <2>3. compactionLogs' \subseteq CompactionLog
    BY <2>2 DEF RegisterCompaction, TypeInv, CompactionLog, Time
  <2>4. superseded' \subseteq Nat /\ nextID' \in Nat
    BY <2>2 DEF RegisterCompaction, TypeInv
  <2> QED BY <2>1, <2>3, <2>4 DEF RegisterCompaction, TypeInv
<1>2. NamesUsed'
  <2>1. compaction.inputs \in SUBSET Nat /\ compaction.outputs \in SUBSET Nat /\ compaction.old \in SUBSET Nat
    BY DEF TypeInv, CompactionRecord
  <2>2. \A i \in compaction.inputs \cup compaction.outputs \cup compaction.old \cup superseded : i < nextID'
    BY <2>1 DEF RegisterCompaction, NamesUsed, TypeInv
  <2>3. \A b \in Blobs : b.id < nextID'
    BY DEF RegisterCompaction, NamesUsed, Blobs, TypeInv, IndexBlob, LoadRecord
  <2>4. \A b \in cleanupBlobs : \A i \in b.logs : i < nextID'
    BY DEF RegisterCompaction, NamesUsed, TypeInv, CleanupBlob
  <2>5. \A l \in Logs : \A i \in {l.id} \cup l.inputs \cup l.outputs : i < nextID'
    BY DEF RegisterCompaction, NamesUsed, Logs, TypeInv, CompactionLog, LoadRecord
  <2>6. Logs' = Logs \cup {[id |-> nextID, inputs |-> compaction.inputs, outputs |-> compaction.outputs, at |-> now, gone |-> Nil]}
    BY DEF RegisterCompaction, Logs
  <2>7. \A l \in Logs' : \A i \in {l.id} \cup l.inputs \cup l.outputs : i < nextID'
    BY <2>2, <2>5, <2>6 DEF RegisterCompaction, TypeInv
  <2>8. compaction'.inputs = compaction.inputs /\ compaction'.outputs = compaction.outputs /\ compaction'.old = compaction.old
    BY DEF RegisterCompaction, TypeInv, CompactionRecord
  <2> QED BY <2>2, <2>3, <2>4, <2>7, <2>8 DEF RegisterCompaction, NamesUsed, Blobs
<1>3. NamesUnique'
  <2>1. \A l \in compactionLogs : l.id # nextID
    BY DEF NamesUsed, Logs, TypeInv
  <2> QED BY <2>1 DEF RegisterCompaction, NamesUnique, Blobs
<1>4. Clock'
  BY DEF RegisterCompaction, TypeInv, Clock, CompactionRecord
<1>5. EntriesWritten'
  BY DEF RegisterCompaction, EntriesWritten, Blobs
<1>6. OutputsReplace'
  BY DEF RegisterCompaction, OutputsReplace, Replaces, Blobs, Logs, LastLive, Last, Holds
<1>7. LaterHolders'
  BY DEF RegisterCompaction, LaterHolders, LaterHolder, LastLive, Last, Holds
<1>8. DeletesSettled'
  BY DEF RegisterCompaction, DeletesSettled
<1>9. LiveHeld'
  BY DEF RegisterCompaction, LiveHeld, LastLive, Last, Holds
<1>10. LoadHolds'
  BY DEF RegisterCompaction, LoadHolds, LastLive, Last, Holds, SettledAtStart
<1>11. LogsClean'
  <2>1. \A b \in cleanupBlobs : nextID \notin b.logs
    BY DEF NamesUsed, TypeInv
  <2> QED BY <2>1 DEF RegisterCompaction, LogsClean, InputsGone, Exists
<1>12. DeletesComplete'
  BY DEF RegisterCompaction, DeletesComplete
<1>13. ReplacedStaysMarked'
  <2> DEFINE new == [id |-> nextID, inputs |-> compaction.inputs, outputs |-> compaction.outputs, at |-> now, gone |-> Nil]
  <2>1. compactionLogs' = compactionLogs \cup {new} /\ new.inputs = compaction.inputs /\ Exists(new)
    BY DEF RegisterCompaction, Exists
  <2>2. superseded' = superseded \cup compaction.inputs /\ indexBlobs' = indexBlobs
    BY DEF RegisterCompaction
  <2> QED BY <2>1, <2>2 DEF ReplacedStaysMarked
<1> QED BY <1>1, <1>2, <1>3, <1>4, <1>5, <1>6, <1>7, <1>8, <1>9, <1>10, <1>11, <1>12, <1>13

\* The old logs are found: their inputs are to be deleted.
LEMMA FindIndexBlobsToDeleteStep == ASSUME Inv, FindIndexBlobsToDelete
                                    PROVE  Inv'
<1> USE DEF Inv
<1>a. PICK logs \in ListedLogs :
        compaction' = [compaction EXCEPT !.pc = "deleting", !.old = ByID(OldLogs(logs)),
                         !.deletes = UNION {l.inputs : l \in {k \in OldLogs(logs) : Exists(k)}}]
  BY DEF FindIndexBlobsToDelete
<1>b. logs \subseteq compactionLogs
  BY DEF ListedLogs, OwnListings, Listings, Listable
<1>c. /\ compaction'.pc = "deleting" /\ compaction'.old = ByID(OldLogs(logs))
      /\ compaction'.deletes = UNION {l.inputs : l \in {k \in OldLogs(logs) : Exists(k)}}
      /\ compaction'.start = compaction.start /\ compaction'.inputs = compaction.inputs
      /\ compaction'.outputs = compaction.outputs /\ compaction'.at = compaction.at
      /\ compaction' = [pc |-> compaction'.pc, start |-> compaction.start, inputs |-> compaction.inputs,
                        outputs |-> compaction.outputs, old |-> compaction'.old, deletes |-> compaction'.deletes,
                        at |-> compaction.at]
  BY <1>a DEF TypeInv, CompactionRecord
<1>1. TypeInv'
  <2>1. OldLogs(logs) \subseteq CompactionLog
    BY <1>b DEF OldLogs, TypeInv
  <2>2. compaction'.old \subseteq Nat /\ compaction'.deletes \subseteq Nat
    BY <1>c, <2>1 DEF ByID, CompactionLog
  <2>3. compaction' \in CompactionRecord
    BY <1>c, <2>2 DEF TypeInv, CompactionRecord
  <2> QED BY <2>3 DEF FindIndexBlobsToDelete, TypeInv, storage
<1>2. NamesUsed'
  <2>1. \A i \in compaction'.old : i < nextID
    BY <1>b, <1>c DEF NamesUsed, Logs, ByID, OldLogs
  <2> QED BY <1>c, <2>1 DEF FindIndexBlobsToDelete, NamesUsed, Blobs, Logs, storage
<1>3. NamesUnique'
  BY DEF FindIndexBlobsToDelete, NamesUnique, Blobs, storage
<1>4. Clock'
  BY <1>c DEF FindIndexBlobsToDelete, Clock, storage
<1>5. EntriesWritten'
  BY DEF FindIndexBlobsToDelete, EntriesWritten, Blobs, storage
<1>6. OutputsReplace'
  BY <1>c DEF FindIndexBlobsToDelete, OutputsReplace, Replaces, Blobs, Logs, LastLive, Last, Holds, storage
<1>7. LaterHolders'
  BY <1>c DEF FindIndexBlobsToDelete, LaterHolders, LaterHolder, LastLive, Last, Holds, storage
<1>8. DeletesSettled'
  <2>1. ASSUME NEW i \in compaction'.deletes
        PROVE  \E l \in compactionLogs : Exists(l) /\ i \in l.inputs /\ l.at + MaxEventualConsistencySettleTime <= compaction.at
    <3>1. PICK l \in OldLogs(logs) : Exists(l) /\ i \in l.inputs
      BY <1>c, <2>1
    <3>2. l \in compactionLogs /\ l.at \in Nat /\ compaction.at \in Nat /\ l.at <= compaction.at - MaxEventualConsistencySettleTime
      BY <1>b, <3>1 DEF OldLogs, TypeInv, CompactionLog, CompactionRecord
    <3> QED BY <3>1, <3>2, Constants
  <2> QED BY <1>c, <2>1 DEF DeletesSettled, FindIndexBlobsToDelete, storage
<1>9. LiveHeld'
  BY DEF FindIndexBlobsToDelete, LiveHeld, LastLive, Last, Holds, storage
<1>10. LoadHolds'
  BY DEF FindIndexBlobsToDelete, LoadHolds, LastLive, Last, Holds, SettledAtStart, storage
<1>11. LogsClean'
  BY DEF FindIndexBlobsToDelete, LogsClean, InputsGone, storage
<1>12. DeletesComplete'
  <2>1. ASSUME NEW l \in compactionLogs, NEW b \in indexBlobs, l.id \in compaction'.old, Exists(b), b.id \in l.inputs
        PROVE  b.id \in compaction'.deletes
    <3>1. PICK k \in OldLogs(logs) : k.id = l.id
      BY <1>c, <2>1 DEF ByID
    <3>2. k \in compactionLogs /\ k.inputs = l.inputs
      BY <1>b, <3>1 DEF OldLogs, NamesUnique
    <3>3. Exists(k)
      BY <2>1, <3>2 DEF LogsClean, InputsGone
    <3> QED BY <1>c, <2>1, <3>1, <3>2, <3>3
  <2> QED BY <2>1 DEF DeletesComplete, FindIndexBlobsToDelete, storage
<1>13. ReplacedStaysMarked'
  BY DEF FindIndexBlobsToDelete, ReplacedStaysMarked, storage
<1> QED BY <1>1, <1>2, <1>3, <1>4, <1>5, <1>6, <1>7, <1>8, <1>9, <1>10, <1>11, <1>12, <1>13

\* An index blob is deleted: what it held is in a later one that everyone sees.
LEMMA DeleteIndexBlobStep == ASSUME Inv, DeleteIndexBlob
                             PROVE  Inv'
<1> USE DEF Inv
<1>a. PICK i \in compaction.deletes : /\ indexBlobs' = DeleteBlobs(indexBlobs, {i})
                                      /\ compaction' = [compaction EXCEPT !.deletes = @ \ {i}]
  BY DEF DeleteIndexBlob
<1>b. /\ compaction' = [compaction EXCEPT !.deletes = compaction.deletes \ {i}]
      /\ compaction'.pc = compaction.pc /\ compaction'.deletes = compaction.deletes \ {i}
      /\ compaction'.inputs = compaction.inputs /\ compaction'.outputs = compaction.outputs
      /\ compaction'.old = compaction.old /\ compaction'.at = compaction.at
  BY <1>a DEF TypeInv, CompactionRecord
<1>c. /\ \A d \in indexBlobs' : d \in IndexBlob /\ \E b \in indexBlobs :
           /\ b.id = d.id /\ b.entries = d.entries /\ b.at = d.at
           /\ Exists(d) => d = b /\ d.id # i
      /\ \A b \in indexBlobs : Exists(b) /\ b.id # i => b \in indexBlobs'
  BY <1>a, DeleteIndexBlobsFacts DEF TypeInv
\* The load keeps what it has listed.
<1>d. \A d \in Blobs' : \E b \in Blobs : b.id = d.id /\ b.entries = d.entries
  BY <1>c DEF Blobs, DeleteIndexBlob
<1>e. ASSUME NEW w \in LastLive, NEW b \in indexBlobs, Exists(b), Holds(b, w), b.id = i
      PROVE  \E e \in indexBlobs : Exists(e) /\ Holds(e, w) /\ e.id > i /\ e.at + StorageSettleTime <= now
  <2>1. PICK l \in compactionLogs : i \in l.inputs /\ l.at + MaxEventualConsistencySettleTime <= compaction.at
    BY DEF DeletesSettled, DeleteIndexBlob
  <2>2. PICK e \in indexBlobs : /\ Exists(e) /\ Holds(e, w) /\ e.id > b.id
                                /\ e.at <= l.at \/ e.at + StorageSettleTime <= now
    BY <1>e, <2>1 DEF LaterHolders, LaterHolder
  <2>3. e.at \in Nat /\ l.at \in Nat /\ compaction.at \in Nat /\ now \in Nat
    BY DEF TypeInv, IndexBlob, CompactionLog, CompactionRecord
  <2>4. e.at + StorageSettleTime <= now
    BY <2>1, <2>2, <2>3, Constants DEF Clock
  <2> QED BY <1>e, <2>2, <2>4
<1>f. i \in Nat
  BY DEF TypeInv, CompactionRecord
<1>1. TypeInv'
  <2>1. compaction' \in CompactionRecord
    BY <1>b DEF TypeInv, CompactionRecord
  <2>2. lapses' = lapses \/ lapses' = lapses \cup {"outputFirst"}
    BY DEF DeleteIndexBlob
  <2> QED BY <1>c, <2>1, <2>2 DEF DeleteIndexBlob, TypeInv
<1>2. NamesUsed'
  BY <1>b, <1>c DEF DeleteIndexBlob, NamesUsed, Blobs, Logs
<1>3. NamesUnique'
  BY <1>d DEF DeleteIndexBlob, NamesUnique
<1>4. Clock'
  BY <1>b, <1>c DEF DeleteIndexBlob, Clock
<1>5. EntriesWritten'
  BY <1>d DEF DeleteIndexBlob, EntriesWritten
<1>6. OutputsReplace'
  BY <1>b, <1>d DEF DeleteIndexBlob, OutputsReplace, Replaces, Logs, LastLive, Last, Holds
<1>7. LaterHolders'
  <2>1. ASSUME NEW l \in compactionLogs, NEW w \in LastLive, NEW b \in indexBlobs',
               Exists(b), b.id \in l.inputs, Holds(b, w)
        PROVE  LaterHolder(b, w, l.at)'
    <3>1. b \in indexBlobs
      BY <1>c, <2>1
    <3>2. PICK d \in indexBlobs : /\ Exists(d) /\ Holds(d, w) /\ d.id > b.id
                                  /\ d.at <= l.at \/ d.at + StorageSettleTime <= now
      BY <2>1, <3>1 DEF LaterHolders, LaterHolder
    <3>3. CASE d.id # i
      <4>1. d \in indexBlobs'
        BY <1>c, <3>2, <3>3
      <4> QED BY <3>2, <4>1 DEF LaterHolder, DeleteIndexBlob, Holds
    <3>4. CASE d.id = i
      <4>1. PICK e \in indexBlobs : Exists(e) /\ Holds(e, w) /\ e.id > i /\ e.at + StorageSettleTime <= now
        BY <1>e, <3>2, <3>4
      <4>2. e \in indexBlobs'
        BY <1>c, <1>f, <4>1 DEF TypeInv, IndexBlob
      <4>3. e.id > b.id
        BY <1>f, <3>1, <3>2, <3>4, <4>1 DEF TypeInv, IndexBlob
      <4> QED BY <4>1, <4>2, <4>3 DEF LaterHolder, DeleteIndexBlob, Holds
    <3> QED BY <3>3, <3>4
  <2> QED BY <1>b, <2>1 DEF DeleteIndexBlob, LaterHolders, LastLive, Last, Holds
<1>8. DeletesSettled'
  BY <1>b DEF DeleteIndexBlob, DeletesSettled
<1>9. LiveHeld'
  <2>1. ASSUME NEW w \in LastLive
        PROVE  \E b \in indexBlobs' : Exists(b) /\ Holds(b, w) /\ (b.at <= w.at \/ b.at + StorageSettleTime <= now)
    <3>1. PICK b \in indexBlobs : Exists(b) /\ Holds(b, w) /\ (b.at <= w.at \/ b.at + StorageSettleTime <= now)
      BY DEF LiveHeld
    <3>2. CASE b.id # i
      BY <1>c, <3>1, <3>2
    <3>3. CASE b.id = i
      <4>1. PICK e \in indexBlobs : Exists(e) /\ Holds(e, w) /\ e.id > i /\ e.at + StorageSettleTime <= now
        BY <1>e, <3>1, <3>3
      <4>2. e \in indexBlobs'
        BY <1>c, <1>f, <4>1 DEF TypeInv, IndexBlob
      <4> QED BY <4>1, <4>2
    <3> QED BY <3>2, <3>3
  <2> QED BY <2>1 DEF DeleteIndexBlob, LiveHeld, LastLive, Last, Holds
<1>10. LoadHolds'
  BY DEF DeleteIndexBlob, LoadHolds, LastLive, Last, Holds, SettledAtStart
<1>11. LogsClean'
  BY <1>c DEF DeleteIndexBlob, LogsClean, InputsGone
<1>12. DeletesComplete'
  BY <1>b, <1>c DEF DeleteIndexBlob, DeletesComplete
<1>13. ReplacedStaysMarked'
  BY <1>c DEF DeleteIndexBlob, ReplacedStaysMarked
<1> QED BY <1>1, <1>2, <1>3, <1>4, <1>5, <1>6, <1>7, <1>8, <1>9, <1>10, <1>11, <1>12, <1>13

\* The old logs are scheduled for deletion: their inputs are gone.
LEMMA DelayCleanupBlobsStep == ASSUME Inv, DelayCleanupBlobs
                               PROVE  Inv'
<1> USE DEF Inv
<1> DEFINE new == [id |-> nextID, logs |-> compaction.old, schedule |-> compaction.at, at |-> now, gone |-> Nil]
<1>a. \/ cleanupBlobs' = cleanupBlobs /\ nextID' = nextID
      \/ cleanupBlobs' = cleanupBlobs \cup {new} /\ nextID' = nextID + 1
  BY DEF DelayCleanupBlobs
<1>b. /\ compaction'.pc = "cleanup" /\ compaction'.inputs = compaction.inputs /\ compaction'.outputs = compaction.outputs
      /\ compaction'.old = compaction.old /\ compaction'.at = compaction.at
  BY DEF DelayCleanupBlobs, TypeInv, CompactionRecord
<1>1. TypeInv'
  <2>1. compaction' \in CompactionRecord /\ compaction.old \in SUBSET Nat /\ compaction.at \in Nat
    BY DEF DelayCleanupBlobs, TypeInv, CompactionRecord
  <2>2. new \in CleanupBlob /\ new.schedule <= new.at
    BY <2>1 DEF TypeInv, CleanupBlob, Time, Clock
  <2>3. \A b \in cleanupBlobs' : b \in CleanupBlob /\ b.schedule <= b.at
    BY <1>a, <2>2 DEF TypeInv
  <2>4. nextID' \in Nat
    BY <1>a DEF TypeInv
  <2> QED BY <2>1, <2>3, <2>4 DEF DelayCleanupBlobs, TypeInv
<1>2. NamesUsed'
  <2>1. nextID' \in Nat /\ nextID \in Nat /\ nextID <= nextID'
    BY <1>a DEF TypeInv
  <2>2. \A b \in Blobs : b.id < nextID'
    BY <2>1 DEF NamesUsed, Blobs, TypeInv, IndexBlob, LoadRecord
  <2>3. \A l \in Logs : \A i \in {l.id} \cup l.inputs \cup l.outputs : i < nextID'
    BY <2>1 DEF NamesUsed, Logs, TypeInv, CompactionLog, LoadRecord
  <2>4. \A i \in compaction.inputs \cup compaction.outputs \cup compaction.old \cup superseded : i < nextID'
    BY <2>1 DEF NamesUsed, TypeInv, CompactionRecord
  <2>5. \A b \in cleanupBlobs : \A i \in b.logs : i < nextID'
    BY <2>1 DEF NamesUsed, TypeInv, CleanupBlob
  <2>6. \A b \in cleanupBlobs' : \A i \in b.logs : i < nextID'
    BY <1>a, <2>4, <2>5
  <2>7. Blobs' = Blobs /\ Logs' = Logs /\ superseded' = superseded
    BY DEF DelayCleanupBlobs, Blobs, Logs
  <2> QED BY <1>b, <2>2, <2>3, <2>4, <2>6, <2>7 DEF NamesUsed
<1>3. NamesUnique'
  BY DEF DelayCleanupBlobs, NamesUnique, Blobs
<1>4. Clock'
  BY <1>b DEF DelayCleanupBlobs, Clock
<1>5. EntriesWritten'
  BY DEF DelayCleanupBlobs, EntriesWritten, Blobs
<1>6. OutputsReplace'
  BY DEF DelayCleanupBlobs, OutputsReplace, Replaces, Blobs, Logs, LastLive, Last, Holds
<1>7. LaterHolders'
  BY DEF DelayCleanupBlobs, LaterHolders, LaterHolder, LastLive, Last, Holds
<1>8. DeletesSettled'
  BY DEF DelayCleanupBlobs, DeletesSettled
<1>9. LiveHeld'
  BY DEF DelayCleanupBlobs, LiveHeld, LastLive, Last, Holds
<1>10. LoadHolds'
  BY DEF DelayCleanupBlobs, LoadHolds, LastLive, Last, Holds, SettledAtStart
<1>11. LogsClean'
  <2>1. \A l \in compactionLogs : l.id \in compaction.old => InputsGone(l)
    BY DEF DelayCleanupBlobs, DeletesComplete, InputsGone
  <2>2. \A b \in cleanupBlobs' : b \in cleanupBlobs \/ b.logs = compaction.old
    BY <1>a
  <2> QED BY <2>1, <2>2 DEF DelayCleanupBlobs, LogsClean, InputsGone
<1>12. DeletesComplete'
  BY DEF DelayCleanupBlobs, DeletesComplete
<1>13. ReplacedStaysMarked'
  BY DEF DelayCleanupBlobs, ReplacedStaysMarked
<1> QED BY <1>1, <1>2, <1>3, <1>4, <1>5, <1>6, <1>7, <1>8, <1>9, <1>10, <1>11, <1>12, <1>13

\* Logs are deleted, all that are due or some of them: none still has an input.
LEMMA CleanupStep == ASSUME Inv, Cleanup
                     PROVE  Inv'
<1> USE DEF Inv
<1>0. PICK blobs \in OwnListings(cleanupBlobs, cleanupBlobs) :
        LET due == Due({b \in blobs : Exists(b)})
            logs == UNION {b.logs : b \in due}
        IN  \/ /\ compactionLogs' = DeleteBlobs(compactionLogs, logs)
               /\ cleanupBlobs' = DeleteBlobs(cleanupBlobs, ByID(due))
               /\ UNCHANGED counters
            \/ /\ counters.faults < MaxFaults
               /\ \E some \in SUBSET (logs \cap ByID({l \in compactionLogs : Exists(l)})) \ {{}} :
                    compactionLogs' = DeleteBlobs(compactionLogs, some)
               /\ counters' = [counters EXCEPT !.faults = @ + 1]
               /\ UNCHANGED cleanupBlobs
  BY DEF Cleanup
<1> DEFINE due == Due({b \in blobs : Exists(b)})
           logs == UNION {b.logs : b \in due}
<1>d. due \subseteq cleanupBlobs
  BY DEF Due, OwnListings, Listings, Listable
<1>e. PICK ids : /\ ids \subseteq logs
                 /\ compactionLogs' = DeleteBlobs(compactionLogs, ids)
                 /\ cleanupBlobs' = cleanupBlobs \/ cleanupBlobs' = DeleteBlobs(cleanupBlobs, ByID(due))
  BY <1>0
<1>a. \A l \in compactionLogs : l.id \in ids => InputsGone(l)
  BY <1>d, <1>e DEF LogsClean
<1>b. /\ \A d \in compactionLogs' : d \in CompactionLog /\ \E b \in compactionLogs :
           /\ b.id = d.id /\ b.inputs = d.inputs /\ b.outputs = d.outputs /\ b.at = d.at
           /\ Exists(d) => d = b /\ d.id \notin ids
           /\ ~Exists(d) => ~Exists(b) \/ d.id \in ids
      /\ \A b \in compactionLogs : Exists(b) /\ b.id \notin ids => b \in compactionLogs'
  BY <1>e, DeleteLogsFacts DEF TypeInv
<1>c. \A d \in cleanupBlobs' : d \in CleanupBlob /\ \E b \in cleanupBlobs :
        b.logs = d.logs /\ b.schedule = d.schedule /\ b.at = d.at
  BY <1>e, DeleteCleanupFacts DEF TypeInv
<1>1. TypeInv'
  BY <1>b, <1>c, RecordFields DEF Cleanup, TypeInv, Counters
<1>2. NamesUsed'
  BY <1>b, <1>c DEF Cleanup, NamesUsed, Blobs, Logs, IdleCompaction
<1>3. NamesUnique'
  BY <1>b DEF Cleanup, NamesUnique, Blobs
<1>4. Clock'
  <2>1. counters'.writes = counters.writes
    BY <1>0 DEF TypeInv, Counters
  <2>2. compaction'.at = 0
    BY DEF Cleanup, IdleCompaction
  <2> QED BY <2>1, <2>2 DEF Cleanup, Clock, TypeInv
<1>5. EntriesWritten'
  BY DEF Cleanup, EntriesWritten, Blobs, IdleCompaction
<1>6. OutputsReplace'
  <2>1. \A d \in Logs' : \E l \in Logs : l.inputs = d.inputs /\ l.outputs = d.outputs
    BY <1>b DEF Cleanup, Logs
  <2>2. \A l \in Logs' : Replaces(l)'
    BY <2>1 DEF Cleanup, OutputsReplace, Replaces, Blobs, LastLive, Last, Holds
  <2> QED BY <2>2 DEF Cleanup, OutputsReplace, IdleCompaction
<1>7. LaterHolders'
  BY <1>b DEF Cleanup, LaterHolders, LaterHolder, LastLive, Last, Holds, IdleCompaction
<1>8. DeletesSettled'
  BY DEF Cleanup, DeletesSettled, IdleCompaction
<1>9. LiveHeld'
  BY DEF Cleanup, LiveHeld, LastLive, Last, Holds, IdleCompaction
<1>10. LoadHolds'
  BY DEF Cleanup, LoadHolds, LastLive, Last, Holds, SettledAtStart, IdleCompaction
<1>11. LogsClean'
  BY <1>a, <1>b, <1>c DEF Cleanup, LogsClean, InputsGone
<1>12. DeletesComplete'
  BY DEF Cleanup, DeletesComplete, IdleCompaction
<1>13. ReplacedStaysMarked'
  <2>1. ASSUME NEW b \in indexBlobs, Exists(b), b.id \in superseded
        PROVE  \E l \in compactionLogs' : Exists(l) /\ b.id \in l.inputs
    <3>1. PICK l \in compactionLogs : Exists(l) /\ b.id \in l.inputs
      BY <2>1 DEF ReplacedStaysMarked
    <3>2. l.id \notin ids
      BY <1>a, <2>1, <3>1 DEF InputsGone
    <3> QED BY <1>b, <3>1, <3>2
  <2> QED BY <2>1 DEF Cleanup, ReplacedStaysMarked
<1> QED BY <1>1, <1>2, <1>3, <1>4, <1>5, <1>6, <1>7, <1>8, <1>9, <1>10, <1>11, <1>12, <1>13

\* A compaction that stops leaves storage as it is.
LEMMA CompactionStopsStep == ASSUME Inv, CompactionStops
                             PROVE  Inv'
<1> USE DEF Inv
<1>1. TypeInv'
  BY RecordFields DEF CompactionStops, TypeInv, Counters, storage
<1>2. NamesUsed'
  BY DEF CompactionStops, NamesUsed, Blobs, Logs, storage, IdleCompaction
<1>3. NamesUnique'
  BY DEF CompactionStops, NamesUnique, Blobs, storage, IdleCompaction
<1>4. Clock'
  BY DEF CompactionStops, TypeInv, Clock, storage, IdleCompaction
<1>5. EntriesWritten'
  BY DEF CompactionStops, EntriesWritten, Blobs, storage, IdleCompaction
<1>6. OutputsReplace'
  BY DEF CompactionStops, OutputsReplace, Replaces, Blobs, Logs, LastLive, Last, Holds, storage, IdleCompaction
<1>7. LaterHolders'
  BY DEF CompactionStops, LaterHolders, LaterHolder, LastLive, Last, Holds, storage, IdleCompaction
<1>8. DeletesSettled'
  BY DEF CompactionStops, DeletesSettled, storage, IdleCompaction
<1>9. LiveHeld'
  BY DEF CompactionStops, LiveHeld, LastLive, Last, Holds, storage, IdleCompaction
<1>10. LoadHolds'
  BY DEF CompactionStops, LoadHolds, LastLive, Last, Holds, SettledAtStart, storage, IdleCompaction
<1>11. LogsClean'
  BY DEF CompactionStops, LogsClean, InputsGone, storage, IdleCompaction
<1>12. DeletesComplete'
  BY DEF CompactionStops, DeletesComplete, storage, IdleCompaction
<1>13. ReplacedStaysMarked'
  BY DEF CompactionStops, ReplacedStaysMarked, storage, IdleCompaction
<1> QED BY <1>1, <1>2, <1>3, <1>4, <1>5, <1>6, <1>7, <1>8, <1>9, <1>10, <1>11, <1>12, <1>13

\* A load lists index blobs: all that have settled are among them.
LEMMA ListIndexBlobsStep == ASSUME Inv, ListIndexBlobs
                            PROVE  Inv'
<1> USE DEF Inv
<1>a. PICK blobs \in Listings(indexBlobs) :
        load' = [load EXCEPT !.blobs = blobs, !.listed = @ \cup {"blobs"},
                             !.start = IF load.listed = {} THEN now ELSE @]
  BY DEF ListIndexBlobs
<1>b. blobs \subseteq indexBlobs /\ \A b \in indexBlobs : Settled(b) => b \in blobs
  BY DEF Listings, Listable
<1>c. /\ load' = [start |-> load'.start, listed |-> load.listed \cup {"blobs"}, blobs |-> blobs, logs |-> load.logs]
      /\ load'.start \in {now, load.start} /\ load'.blobs = blobs /\ load'.logs = load.logs
      /\ "blobs" \in load'.listed
  BY <1>a DEF TypeInv, LoadRecord
<1>d. Blobs' \subseteq Blobs
  BY <1>b, <1>c DEF ListIndexBlobs, storage, Blobs
<1>1. TypeInv'
  <2>1. load.listed \cup {"blobs"} \in SUBSET {"blobs", "logs"} /\ blobs \in SUBSET IndexBlob
    BY <1>b DEF TypeInv, LoadRecord
  <2>2. load' \in LoadRecord
    BY <1>c, <2>1 DEF TypeInv, LoadRecord
  <2> QED BY <2>2 DEF ListIndexBlobs, TypeInv, storage
<1>2. NamesUsed'
  BY <1>b, <1>c DEF ListIndexBlobs, NamesUsed, Blobs, Logs, storage
<1>3. NamesUnique'
  BY <1>d DEF ListIndexBlobs, NamesUnique, storage
<1>4. Clock'
  BY <1>c DEF ListIndexBlobs, Clock, storage, TypeInv
<1>5. EntriesWritten'
  BY <1>d DEF ListIndexBlobs, EntriesWritten
<1>6. OutputsReplace'
  BY <1>c, <1>d DEF ListIndexBlobs, OutputsReplace, Replaces, Logs, LastLive, Last, Holds, storage
<1>7. LaterHolders'
  BY DEF ListIndexBlobs, LaterHolders, LaterHolder, LastLive, Last, Holds, storage
<1>8. DeletesSettled'
  BY DEF ListIndexBlobs, DeletesSettled, storage
<1>9. LiveHeld'
  BY DEF ListIndexBlobs, LiveHeld, LastLive, Last, Holds, storage
<1>10. LoadHolds'
  <2>1. ASSUME NEW w \in LastLive, w.at + StorageSettleTime <= load'.start
        PROVE  \E b \in blobs : Holds(b, w)
    <3>1. PICK b \in indexBlobs : Exists(b) /\ Holds(b, w) /\ (b.at <= w.at \/ b.at + StorageSettleTime <= now)
      BY DEF LiveHeld
    <3>2. w.at \in Nat /\ b.at \in Nat /\ load'.start \in Nat /\ load'.start <= now /\ now \in Nat
      BY <1>c DEF TypeInv, IndexBlob, LastLive, Clock, LoadRecord
    <3>3. b.at + StorageSettleTime <= now
      BY <2>1, <3>1, <3>2, Constants
    <3>4. b \in blobs
      BY <1>b, <3>1, <3>3 DEF Settled
    <3> QED BY <3>1, <3>4
  <2> QED BY <1>c, <2>1 DEF ListIndexBlobs, LoadHolds, LastLive, Last, Holds, SettledAtStart
<1>11. LogsClean'
  BY DEF ListIndexBlobs, LogsClean, InputsGone, storage
<1>12. DeletesComplete'
  BY DEF ListIndexBlobs, DeletesComplete, storage
<1>13. ReplacedStaysMarked'
  BY DEF ListIndexBlobs, ReplacedStaysMarked, storage
<1> QED BY <1>1, <1>2, <1>3, <1>4, <1>5, <1>6, <1>7, <1>8, <1>9, <1>10, <1>11, <1>12, <1>13

\* A load lists compaction logs.
LEMMA ListCompactionLogsStep == ASSUME Inv, ListCompactionLogs
                                PROVE  Inv'
<1> USE DEF Inv
<1>a. PICK logs \in Listings(compactionLogs) :
        load' = [load EXCEPT !.logs = logs, !.listed = @ \cup {"logs"},
                             !.start = IF load.listed = {} THEN now ELSE @]
  BY DEF ListCompactionLogs
<1>b. logs \subseteq compactionLogs
  BY DEF Listings, Listable
<1>c. /\ load' = [start |-> load'.start, listed |-> load.listed \cup {"logs"}, blobs |-> load.blobs, logs |-> logs]
      /\ load'.start \in {now, load.start} /\ load'.blobs = load.blobs /\ load'.logs = logs
      /\ load'.listed = load.listed \cup {"logs"}
  BY <1>a DEF TypeInv, LoadRecord
<1>d. Blobs' = Blobs /\ Logs' \subseteq Logs
  BY <1>b, <1>c DEF ListCompactionLogs, storage, Blobs, Logs
<1>1. TypeInv'
  <2>1. load.listed \cup {"logs"} \in SUBSET {"blobs", "logs"} /\ logs \in SUBSET CompactionLog
    BY <1>b DEF TypeInv, LoadRecord
  <2>2. load' \in LoadRecord
    BY <1>c, <2>1 DEF TypeInv, LoadRecord
  <2> QED BY <2>2 DEF ListCompactionLogs, TypeInv, storage
<1>2. NamesUsed'
  BY <1>b, <1>c DEF ListCompactionLogs, NamesUsed, Blobs, Logs, storage
<1>3. NamesUnique'
  BY <1>d DEF ListCompactionLogs, NamesUnique, storage
<1>4. Clock'
  BY <1>c DEF ListCompactionLogs, Clock, storage, TypeInv
<1>5. EntriesWritten'
  BY <1>d DEF ListCompactionLogs, EntriesWritten
<1>6. OutputsReplace'
  BY <1>c, <1>d DEF ListCompactionLogs, OutputsReplace, Replaces, LastLive, Last, Holds, storage
<1>7. LaterHolders'
  BY DEF ListCompactionLogs, LaterHolders, LaterHolder, LastLive, Last, Holds, storage
<1>8. DeletesSettled'
  BY DEF ListCompactionLogs, DeletesSettled, storage
<1>9. LiveHeld'
  BY DEF ListCompactionLogs, LiveHeld, LastLive, Last, Holds, storage
<1>10. LoadHolds'
  <2>1. load.listed # {} => load'.start = load.start
    BY <1>a DEF TypeInv, LoadRecord
  <2> QED BY <1>c, <2>1 DEF ListCompactionLogs, LoadHolds, LastLive, Last, Holds, SettledAtStart
<1>11. LogsClean'
  BY DEF ListCompactionLogs, LogsClean, InputsGone, storage
<1>12. DeletesComplete'
  BY DEF ListCompactionLogs, DeletesComplete, storage
<1>13. ReplacedStaysMarked'
  BY DEF ListCompactionLogs, ReplacedStaysMarked, storage
<1> QED BY <1>1, <1>2, <1>3, <1>4, <1>5, <1>6, <1>7, <1>8, <1>9, <1>10, <1>11, <1>12, <1>13

\* A load ends.
LEMMA UseIndexBlobsStep == ASSUME Inv, UseIndexBlobs
                           PROVE  Inv'
<1> USE DEF Inv
<1>1. TypeInv'
  BY RecordFields DEF UseIndexBlobs, TypeInv, storage
<1>2. NamesUsed'
  BY DEF UseIndexBlobs, NamesUsed, Blobs, Logs, storage, IdleLoad
<1>3. NamesUnique'
  BY DEF UseIndexBlobs, NamesUnique, Blobs, storage, IdleLoad
<1>4. Clock'
  BY DEF UseIndexBlobs, TypeInv, Clock, storage, IdleLoad
<1>5. EntriesWritten'
  BY DEF UseIndexBlobs, EntriesWritten, Blobs, storage, IdleLoad
<1>6. OutputsReplace'
  BY DEF UseIndexBlobs, OutputsReplace, Replaces, Blobs, Logs, LastLive, Last, Holds, storage, IdleLoad
<1>7. LaterHolders'
  BY DEF UseIndexBlobs, LaterHolders, LaterHolder, LastLive, Last, Holds, storage, IdleLoad
<1>8. DeletesSettled'
  BY DEF UseIndexBlobs, DeletesSettled, storage, IdleLoad
<1>9. LiveHeld'
  BY DEF UseIndexBlobs, LiveHeld, LastLive, Last, Holds, storage, IdleLoad
<1>10. LoadHolds'
  BY DEF UseIndexBlobs, LoadHolds, LastLive, Last, Holds, SettledAtStart, storage, IdleLoad
<1>11. LogsClean'
  BY DEF UseIndexBlobs, LogsClean, InputsGone, storage, IdleLoad
<1>12. DeletesComplete'
  BY DEF UseIndexBlobs, DeletesComplete, storage, IdleLoad
<1>13. ReplacedStaysMarked'
  BY DEF UseIndexBlobs, ReplacedStaysMarked, storage, IdleLoad
<1> QED BY <1>1, <1>2, <1>3, <1>4, <1>5, <1>6, <1>7, <1>8, <1>9, <1>10, <1>11, <1>12, <1>13

\* Time passes: blobs that are gone are forgotten.
LEMMA TickStep == ASSUME Inv, Tick
                  PROVE  Inv'
<1> USE DEF Inv
<1>1. TypeInv'
  BY DEF Tick, TypeInv
<1>2. NamesUsed'
  BY DEF Tick, NamesUsed, Blobs, Logs, Exists
<1>3. NamesUnique'
  BY DEF Tick, NamesUnique, Blobs, Exists
<1>4. Clock'
  <2>1. now \in Nat /\ now' = now + 1 /\ \A b \in indexBlobs : b.at \in Nat
    BY DEF Tick, TypeInv, IndexBlob
  <2>2. compaction.at \in Nat /\ load.start \in Nat /\ counters.writes \in Nat
    BY RecordFields DEF TypeInv
  <2>3. \A w \in written : w.entry.ts \in Nat
    BY DEF TypeInv, Entry
  <2> QED BY <2>1, <2>2, <2>3 DEF Tick, Clock
<1>5. EntriesWritten'
  BY DEF Tick, EntriesWritten, Blobs, Exists
<1>6. OutputsReplace'
  BY DEF Tick, OutputsReplace, Replaces, Blobs, Logs, LastLive, Last, Holds, Exists
<1>7. LaterHolders'
  <2>1. ASSUME NEW w, NEW b, NEW at \in Nat, LaterHolder(b, w, at)
        PROVE  LaterHolder(b, w, at)' /\ LaterHolder(b, w, at + 1)'
    <3>1. PICK d \in indexBlobs : /\ Exists(d) /\ Holds(d, w) /\ d.id > b.id
                                  /\ d.at <= at \/ d.at + StorageSettleTime <= now
      BY <2>1 DEF LaterHolder
    <3>2. d.at \in Nat /\ now \in Nat /\ now' = now + 1 /\ d \in indexBlobs'
      BY <3>1 DEF Tick, TypeInv, IndexBlob
    <3>3. /\ d.at <= at \/ d.at + StorageSettleTime <= now'
          /\ d.at <= at + 1 \/ d.at + StorageSettleTime <= now'
      BY <3>1, <3>2, Constants
    <3> QED BY <3>1, <3>2, <3>3 DEF LaterHolder, Holds
  <2>2. \A l \in compactionLogs : l.at \in Nat
    BY DEF TypeInv, CompactionLog
  <2>3. now \in Nat /\ now' = now + 1
    BY DEF Tick, TypeInv
  <2>4. LastLive' = LastLive /\ indexBlobs' \subseteq indexBlobs /\ compactionLogs' \subseteq compactionLogs
    BY DEF Tick, LastLive, Last
  <2> QED BY <2>1, <2>2, <2>3, <2>4 DEF Tick, LaterHolders, Holds
<1>8. DeletesSettled'
  BY DEF Tick, DeletesSettled, Exists
<1>9. LiveHeld'
  <2>1. ASSUME NEW w \in LastLive
        PROVE  \E b \in indexBlobs' : Exists(b) /\ Holds(b, w) /\ (b.at <= w.at \/ b.at + StorageSettleTime <= now')
    <3>1. PICK b \in indexBlobs : Exists(b) /\ Holds(b, w) /\ (b.at <= w.at \/ b.at + StorageSettleTime <= now)
      BY DEF LiveHeld
    <3>2. b.at \in Nat /\ now \in Nat /\ now' = now + 1 /\ b \in indexBlobs'
      BY <3>1 DEF Tick, TypeInv, IndexBlob
    <3> QED BY <3>1, <3>2, Constants
  <2> QED BY <2>1 DEF Tick, LiveHeld, LastLive, Last, Holds
<1>10. LoadHolds'
  BY DEF Tick, LoadHolds, LastLive, Last, Holds, SettledAtStart, Exists
<1>11. LogsClean'
  BY DEF Tick, LogsClean, InputsGone, Exists
<1>12. DeletesComplete'
  BY DEF Tick, DeletesComplete, Exists
<1>13. ReplacedStaysMarked'
  BY DEF Tick, ReplacedStaysMarked, Exists
<1> QED BY <1>1, <1>2, <1>3, <1>4, <1>5, <1>6, <1>7, <1>8, <1>9, <1>10, <1>11, <1>12, <1>13

\* The entry that a client stores is the latest of its content, and in a blob with a new name.
Adds(c, new, put, entry) ==
  /\ indexBlobs' = indexBlobs \cup {new} /\ nextID' = nextID + 1 /\ nextID' \in Nat
  /\ written' = written \cup {put} /\ load' = load
  /\ put.content = c /\ put.entry = entry /\ put.at = now
  /\ put \in [content : Contents, entry : Entry, at : Nat]
  /\ entry \in Entry /\ now <= entry.ts /\ entry.ts <= now + counters.writes + 1
  /\ \A w \in written : w.content = c => w.entry.ts < entry.ts
  /\ new \in IndexBlob /\ new.id = nextID /\ new.at = now /\ Exists(new) /\ new.own = FALSE
  /\ new.entries[c] = entry /\ \A d \in Contents : d # c => new.entries[d] = Nil

\* That is what WriteIndexBlobs does.
LEMMA WriteFacts ==
  ASSUME Inv, NEW c \in Contents, NEW deleted \in BOOLEAN, WriteIndexBlobs(c, deleted)
  PROVE  \E new, put, entry : Adds(c, new, put, entry)
<1> USE DEF Inv
<1> DEFINE before == {w.entry.ts : w \in {v \in written : v.content = c}}
           entry == [ts |-> IF before = {} \/ Max(before) < now THEN now ELSE Max(before) + 1, deleted |-> deleted]
           put == [content |-> c, entry |-> entry, at |-> now]
           new == [id |-> nextID, entries |-> [NoEntries EXCEPT ![c] = entry], own |-> FALSE, at |-> now, gone |-> Nil]
<1>a. now \in Nat /\ counters.writes \in Nat /\ now + counters.writes \in Nat
  BY RecordFields DEF TypeInv
<1>b. before \in SUBSET Nat /\ \A x \in before : x <= now + counters.writes
  BY DEF TypeInv, Entry, Clock
<1>c. /\ entry \in Entry /\ now <= entry.ts /\ entry.ts <= now + counters.writes + 1
      /\ \A w \in written : w.content = c => w.entry.ts < entry.ts
  <2>1. CASE before = {}
    BY <1>a, <2>1 DEF Entry
  <2>2. CASE before # {}
    <3>1. Max(before) \in before /\ \A y \in before : y <= Max(before)
      BY <1>a, <1>b, <2>2, MaxNat
    <3>2. Max(before) \in Nat /\ Max(before) <= now + counters.writes
      BY <1>b, <3>1
    <3>3. \A w \in written : w.content = c => w.entry.ts \in before
      OBVIOUS
    <3>4. \A w \in written : w.content = c => w.entry.ts \in Nat /\ w.entry.ts <= Max(before)
      BY <1>b, <3>1, <3>3
    <3> HIDE DEF before
    <3>5. CASE Max(before) < now
      BY <1>a, <2>2, <3>2, <3>4, <3>5 DEF Entry
    <3>6. CASE ~(Max(before) < now)
      BY <1>a, <2>2, <3>2, <3>4, <3>6 DEF Entry
    <3> QED BY <3>5, <3>6
  <2> QED BY <2>1, <2>2
<1>d. /\ indexBlobs' = indexBlobs \cup {new} /\ nextID' = nextID + 1 /\ nextID' \in Nat
      /\ written' = written \cup {put} /\ load' = load
  BY DEF WriteIndexBlobs, TypeInv
<1>e. put.content = c /\ put.entry = entry /\ put.at = now
  OBVIOUS
<1> HIDE DEF entry
<1>f. /\ new \in IndexBlob /\ new.id = nextID /\ new.at = now /\ Exists(new) /\ new.own = FALSE
      /\ new.entries[c] = entry /\ \A d \in Contents : d # c => new.entries[d] = Nil
  BY <1>a, <1>c DEF NoEntries, IndexBlob, Index, Time, Exists, TypeInv
<1>g. put \in [content : Contents, entry : Entry, at : Nat]
  BY <1>a, <1>c
<1> HIDE DEF new, put, before
<1>h. Adds(c, new, put, entry)
  BY <1>c, <1>d, <1>e, <1>f, <1>g DEF Adds
<1> QED BY <1>h

\* What a compaction reads and stores: the newest entries of its inputs, without some old deletions.
Stores(drop, inputs, out, entries, outputs) ==
  /\ inputs \subseteq indexBlobs /\ inputs \in SUBSET IndexBlob
  /\ \A b \in inputs, c \in Contents : b.entries[c] # Nil =>
       /\ b.entries[c].ts <= now + counters.writes
       /\ \E w \in written : w.content = c /\ w.entry = b.entries[c]
  /\ Merge(inputs) \in Index
  /\ \A c \in Contents :
       /\ Merge(inputs)[c] = Nil => \A b \in inputs : b.entries[c] = Nil
       /\ Merge(inputs)[c] # Nil => \E b \in inputs : b.entries[c] = Merge(inputs)[c]
       /\ \A b \in inputs : b.entries[c] # Nil =>
            Merge(inputs)[c] = b.entries[c] \/ Newer(Merge(inputs)[c], b.entries[c])
  /\ entries \in Index
  /\ \A c \in Contents :
       /\ entries[c] \in {Nil, Merge(inputs)[c]}
       /\ Merge(inputs)[c] # Nil /\ entries[c] # Merge(inputs)[c] =>
            Merge(inputs)[c].deleted /\ drop /\ Merge(inputs)[c].ts < now - DropDeletedAge
  /\ outputs = IF entries = NoEntries THEN {} ELSE {nextID}
  /\ indexBlobs' = indexBlobs \cup (IF outputs = {} THEN {} ELSE {out}) /\ outputs \in {{}, {nextID}}
  /\ compaction' = [pc |-> "register", start |-> now, inputs |-> ByID(inputs), outputs |-> outputs,
                    old |-> {}, deletes |-> {}, at |-> 0]
  /\ out \in IndexBlob /\ out.id = nextID /\ out.entries = entries /\ out.at = now /\ Exists(out) /\ out.own = TRUE

\* What is left out, and whether it matters.
Leaves(left, inputs, entries) ==
  lapses' = lapses \cup (IF LeavesEntry(left, inputs, entries) THEN {"partialDrop"} ELSE {})

\* That is what CompactIndexBlobs does.
LEMMA CompactFacts ==
  ASSUME Inv, NEW drop \in BOOLEAN, CompactIndexBlobs(drop)
  PROVE  \E blobs \in ListedIndexBlobs, logs \in ListedLogs :
         \E inputs \in Inputs(RemoveCompactedIndexes(blobs, logs), drop) :
         \E out, entries, outputs : /\ Stores(drop, inputs, out, entries, outputs)
                                     /\ Leaves(RemoveCompactedIndexes(blobs, logs) \ inputs, inputs, entries)
<1> USE DEF Inv
<1>n. now \in Nat /\ nextID \in Nat /\ now + counters.writes \in Nat /\ \A b \in Blobs : b \in IndexBlob
  BY RecordFields DEF TypeInv, Blobs
<1>a. PICK blobs \in ListedIndexBlobs, logs \in ListedLogs : \E inputs \in Inputs(RemoveCompactedIndexes(blobs, logs), drop) :
        LET entries == Compacted(inputs, IF drop THEN now - DropDeletedAge ELSE 0)
            outputs == IF entries = NoEntries THEN {} ELSE {nextID}
            left == RemoveCompactedIndexes(blobs, logs) \ inputs
        IN  /\ indexBlobs' = indexBlobs \cup
                 {[id |-> i, entries |-> entries, own |-> TRUE, at |-> now, gone |-> Nil] : i \in outputs}
            /\ compaction' = [IdleCompaction EXCEPT
                 !.pc = "register", !.start = now, !.inputs = ByID(inputs), !.outputs = outputs]
            /\ lapses' = lapses \cup (IF LeavesEntry(left, inputs, entries) THEN {"partialDrop"} ELSE {})
  BY DEF CompactIndexBlobs
<1>p. PICK inputs \in Inputs(RemoveCompactedIndexes(blobs, logs), drop) :
        LET entries == Compacted(inputs, IF drop THEN now - DropDeletedAge ELSE 0)
            outputs == IF entries = NoEntries THEN {} ELSE {nextID}
            left == RemoveCompactedIndexes(blobs, logs) \ inputs
        IN  /\ indexBlobs' = indexBlobs \cup
                 {[id |-> i, entries |-> entries, own |-> TRUE, at |-> now, gone |-> Nil] : i \in outputs}
            /\ compaction' = [IdleCompaction EXCEPT
                 !.pc = "register", !.start = now, !.inputs = ByID(inputs), !.outputs = outputs]
            /\ lapses' = lapses \cup (IF LeavesEntry(left, inputs, entries) THEN {"partialDrop"} ELSE {})
  BY <1>a
<1> DEFINE dropBefore == IF drop THEN now - DropDeletedAge ELSE 0
           entries == Compacted(inputs, dropBefore)
           outputs == IF entries = NoEntries THEN {} ELSE {nextID}
           out == [id |-> nextID, entries |-> entries, own |-> TRUE, at |-> now, gone |-> Nil]
<1>b. inputs \subseteq indexBlobs /\ inputs \in SUBSET IndexBlob
  BY DEF Inputs, RemoveCompactedIndexes, ListedIndexBlobs, OwnListings, Listings, Listable, TypeInv
<1>c. \A b \in inputs, c \in Contents : b.entries[c] # Nil =>
        /\ b.entries[c].ts <= now + counters.writes
        /\ \E w \in written : w.content = c /\ w.entry = b.entries[c]
  BY <1>b DEF EntriesWritten, Clock, Blobs
<1>m. /\ Merge(inputs) \in Index
      /\ \A c \in Contents :
           /\ Merge(inputs)[c] = Nil => \A b \in inputs : b.entries[c] = Nil
           /\ Merge(inputs)[c] # Nil => \E b \in inputs : b.entries[c] = Merge(inputs)[c]
           /\ \A b \in inputs : b.entries[c] # Nil =>
                Merge(inputs)[c] = b.entries[c] \/ Newer(Merge(inputs)[c], b.entries[c])
  BY <1>b, <1>c, <1>n, MergeNewest
<1>q. \A c \in Contents : Merge(inputs)[c] # Nil => Merge(inputs)[c].ts \in Nat
  BY <1>m DEF Index, Entry
<1>k. entries \in Index /\ \A c \in Contents :
        /\ entries[c] \in {Nil, Merge(inputs)[c]}
        /\ Merge(inputs)[c] # Nil /\ entries[c] # Merge(inputs)[c] =>
             Merge(inputs)[c].deleted /\ Merge(inputs)[c].ts < dropBefore
  BY <1>m DEF Compacted, Index
<1>r. \A c \in Contents : Merge(inputs)[c] # Nil /\ entries[c] # Merge(inputs)[c] =>
        Merge(inputs)[c].deleted /\ drop /\ Merge(inputs)[c].ts < now - DropDeletedAge
  BY <1>k, <1>q
<1>d. indexBlobs' = indexBlobs \cup (IF outputs = {} THEN {} ELSE {out}) /\ outputs \in {{}, {nextID}}
  BY <1>p
<1>e. compaction' = [pc |-> "register", start |-> now, inputs |-> ByID(inputs), outputs |-> outputs,
                     old |-> {}, deletes |-> {}, at |-> 0]
  BY <1>p DEF IdleCompaction
<1>l. Leaves(RemoveCompactedIndexes(blobs, logs) \ inputs, inputs, entries)
  BY <1>p DEF Leaves
<1> HIDE DEF entries
<1>g. out \in IndexBlob /\ out.id = nextID /\ out.entries = entries /\ out.at = now /\ Exists(out) /\ out.own = TRUE
  BY <1>k, <1>n DEF IndexBlob, Time, Exists
<1>h. outputs = IF entries = NoEntries THEN {} ELSE {nextID}
  OBVIOUS
<1> HIDE DEF out, outputs
<1>s. \A c \in Contents :
        /\ entries[c] \in {Nil, Merge(inputs)[c]}
        /\ Merge(inputs)[c] # Nil /\ entries[c] # Merge(inputs)[c] =>
             Merge(inputs)[c].deleted /\ drop /\ Merge(inputs)[c].ts < now - DropDeletedAge
  BY <1>k, <1>r
<1>u. entries \in Index
  BY <1>k
<1>t. Stores(drop, inputs, out, entries, outputs)
  BY <1>b, <1>c, <1>m, <1>s, <1>u, <1>h, <1>d, <1>e, <1>g DEF Stores
<1> QED BY <1>l, <1>t

\* A client stores an entry that is later than all of its content, in a blob with a new name.
LEMMA WriteIndexBlobsStep == ASSUME Inv, NEW c \in Contents, NEW deleted \in BOOLEAN, WriteIndexBlobs(c, deleted)
                             PROVE  Inv'
<1> USE DEF Inv
<1>a. now \in Nat /\ counters.writes \in Nat /\ now + counters.writes \in Nat
  BY RecordFields DEF TypeInv
<1>z. PICK new, put, entry : Adds(c, new, put, entry)
  BY WriteFacts
<1>c. /\ entry \in Entry /\ entry.ts <= now + counters.writes + 1
      /\ \A w \in written : w.content = c => w.entry.ts < entry.ts
  BY <1>z DEF Adds
<1>e. /\ indexBlobs' = indexBlobs \cup {new} /\ nextID' = nextID + 1 /\ nextID' \in Nat
      /\ written' = written \cup {put} /\ load' = load
  BY <1>z DEF Adds
<1>i. put.content = c /\ put.entry = entry /\ put.at = now
  BY <1>z DEF Adds
<1>d. /\ new \in IndexBlob /\ new.id = nextID /\ new.at = now /\ Exists(new) /\ new.entries[c] = entry
      /\ \A d \in Contents : d # c => new.entries[d] = Nil
  BY <1>z DEF Adds
<1>h. put \in [content : Contents, entry : Entry, at : Nat]
  BY <1>z DEF Adds
<1>f. Blobs' = Blobs \cup {new} /\ \A b \in Blobs : b.id # nextID
  <2>1. \A b \in Blobs : b.id < nextID /\ nextID \in Nat
    BY DEF NamesUsed, TypeInv
  <2> QED BY <1>e, <2>1 DEF Blobs
\* The entry of the new blob is in no other blob, and the last one of its content.
<1>g. ASSUME NEW w \in LastLive'
      PROVE  \/ w \in LastLive
             \/ /\ w.content = c /\ w.entry = entry /\ w.at = now
                /\ \A b \in Blobs : ~Holds(b, w)
  <2>1. CASE w \in written
    BY <1>e, <2>1 DEF LastLive, Last
  <2>2. CASE w \notin written
    <3>1. w.content = c /\ w.entry = entry /\ w.at = now
      BY <1>e, <1>i, <2>2 DEF LastLive
    <3>2. ASSUME NEW b \in Blobs, b.entries[c] = entry PROVE FALSE
      <4>1. PICK v \in written : v.content = c /\ v.entry = entry
        BY <1>c, <3>2, Constants DEF EntriesWritten
      <4> QED BY <1>c, <4>1 DEF Entry
    <3> QED BY <3>1, <3>2 DEF Holds
  <2> QED BY <2>1, <2>2
<1>1. TypeInv'
  <2>1. counters' \in Counters
    BY DEF WriteIndexBlobs, TypeInv, Counters
  <2>2. indexBlobs' \subseteq IndexBlob
    BY <1>d, <1>e DEF TypeInv
  <2>3. written' \subseteq [content : Contents, entry : Entry, at : Nat]
    BY <1>e, <1>h DEF TypeInv
  <2> QED BY <1>e, <2>1, <2>2, <2>3 DEF WriteIndexBlobs, TypeInv
<1>2. NamesUsed'
  <2>1. nextID \in Nat /\ nextID' = nextID + 1
    BY <1>e DEF TypeInv
  <2>0. \A b \in Blobs : b.id \in Nat /\ b.id < nextID
    BY DEF NamesUsed, Blobs, TypeInv, IndexBlob, LoadRecord
  <2>2. \A b \in Blobs' : b.id < nextID'
    BY <1>d, <1>f, <2>0, <2>1
  <2>3. \A l \in Logs : \A i \in {l.id} \cup l.inputs \cup l.outputs : i < nextID'
    BY <2>1 DEF NamesUsed, Logs, TypeInv, CompactionLog, LoadRecord
  <2>4. \A i \in compaction.inputs \cup compaction.outputs \cup compaction.old \cup superseded : i < nextID'
    BY <2>1 DEF NamesUsed, TypeInv, CompactionRecord
  <2>5. \A b \in cleanupBlobs : \A i \in b.logs : i < nextID'
    BY <2>1 DEF NamesUsed, TypeInv, CleanupBlob
  <2> QED BY <2>2, <2>3, <2>4, <2>5 DEF WriteIndexBlobs, NamesUsed, Logs
<1>3. NamesUnique'
  BY <1>d, <1>e, <1>f DEF NamesUnique, WriteIndexBlobs
<1>4. Clock'
  <2>1. \A b \in indexBlobs' : b.at <= now
    BY <1>d, <1>e DEF Clock, TypeInv
  <2>2. counters.writes \in Nat /\ counters'.writes = counters.writes + 1
    BY DEF WriteIndexBlobs, TypeInv, Counters
  <2>3. \A w \in written : w.entry.ts \in Nat
    BY DEF TypeInv, Entry
  <2>4. \A w \in written : w.entry.ts <= now + counters'.writes
    BY <2>2, <2>3 DEF Clock, TypeInv
  <2>5. entry.ts <= now + counters'.writes
    BY <1>c, <2>2 DEF Entry, TypeInv
  <2>6. \A w \in written' : w.entry.ts <= now + counters'.writes
    BY <1>e, <1>i, <2>4, <2>5
  <2> QED BY <2>1, <2>6 DEF WriteIndexBlobs, Clock
<1>5. EntriesWritten'
  <2>1. \A b \in Blobs', d \in Contents :
          b.entries[d] # Nil => \E w \in written' : w.content = d /\ w.entry = b.entries[d]
    <3> SUFFICES ASSUME NEW b \in Blobs', NEW d \in Contents, b.entries[d] # Nil
                 PROVE  \E w \in written' : w.content = d /\ w.entry = b.entries[d]
      OBVIOUS
    <3>1. CASE b \in Blobs
      BY <1>e, <3>1 DEF EntriesWritten
    <3>2. CASE b = new
      BY <1>d, <1>e, <1>i, <3>2
    <3> QED BY <1>f, <3>1, <3>2
  <2>2. \A w \in written : w.content = c => w.entry.ts # entry.ts
    BY <1>c DEF TypeInv, Entry
  <2>3. \A v, w \in written' : v.content = w.content /\ v.entry.ts = w.entry.ts => v.entry = w.entry
    BY <1>e, <1>i, <2>2 DEF EntriesWritten
  <2> QED BY <2>1, <2>3 DEF EntriesWritten
<1>6. OutputsReplace'
  <2>1. ASSUME NEW l, \A i \in l.inputs \cup l.outputs : i < nextID, Replaces(l)
        PROVE  Replaces(l)'
    <3>1. nextID \notin l.inputs /\ nextID \notin l.outputs
      BY <2>1 DEF TypeInv
    <3>2. ASSUME NEW w \in LastLive', NEW b \in Blobs', b.id \in l.inputs, Holds(b, w)
          PROVE  b \in Blobs /\ w \in LastLive
      BY <1>d, <1>f, <1>g, <3>1, <3>2
    <3>3. \A o \in Blobs' : o.id \in l.outputs => o \in Blobs
      BY <1>d, <1>f, <3>1
    <3>4. ASSUME NEW w \in LastLive', NEW b \in Blobs', b.id \in l.inputs, Holds(b, w)
          PROVE  l.outputs # {} /\ \A o \in Blobs' : o.id \in l.outputs => Holds(o, w) /\ o.id > b.id
      BY <2>1, <3>2, <3>3, <3>4 DEF Replaces
    <3> QED BY <3>4 DEF Replaces, Holds
  <2>2. \A l \in Logs : Replaces(l)'
    BY <2>1 DEF OutputsReplace, NamesUsed
  <2>4. compaction' = compaction /\ Logs' = Logs
    BY DEF WriteIndexBlobs, Logs
  <2>5. PICK k : k = compaction
    OBVIOUS
  <2>6. k.pc = "register" => Replaces(k)'
    BY <2>1, <2>5 DEF OutputsReplace, NamesUsed
  <2>3. compaction.pc = "register" => Replaces(compaction)'
    BY <2>4, <2>5, <2>6 DEF Replaces
  <2> QED BY <2>2, <2>3, <2>4 DEF OutputsReplace, Replaces, Holds
<1>7. LaterHolders'
  <2>1. ASSUME NEW ids, nextID \notin ids, NEW at,
               \A w \in LastLive, b \in indexBlobs : Exists(b) /\ b.id \in ids /\ Holds(b, w) => LaterHolder(b, w, at)
        PROVE  \A w \in LastLive', b \in indexBlobs' : Exists(b) /\ b.id \in ids /\ Holds(b, w) => LaterHolder(b, w, at)'
    <3> SUFFICES ASSUME NEW w \in LastLive', NEW b \in indexBlobs', Exists(b), b.id \in ids, Holds(b, w)
                 PROVE  LaterHolder(b, w, at)'
      OBVIOUS
    <3>1. b \in indexBlobs /\ w \in LastLive
      BY <1>d, <1>e, <1>g, <2>1 DEF Blobs
    <3>2. LaterHolder(b, w, at)
      BY <2>1, <3>1
    <3> QED BY <1>e, <3>2 DEF LaterHolder, Holds, WriteIndexBlobs
  <2>2. (\A l \in compactionLogs : nextID \notin l.inputs) /\ nextID \notin compaction.inputs
    BY DEF NamesUsed, Logs, TypeInv
  <2>3. \A l \in compactionLogs : \A w \in LastLive', b \in indexBlobs' :
          Exists(b) /\ b.id \in l.inputs /\ Holds(b, w) => LaterHolder(b, w, l.at)'
    BY <2>1, <2>2 DEF LaterHolders
  <2>5. PICK ids, at : ids = compaction.inputs /\ at = now
    OBVIOUS
  <2>6. compaction.pc = "register" => \A w \in LastLive', b \in indexBlobs' :
          Exists(b) /\ b.id \in ids /\ Holds(b, w) => LaterHolder(b, w, at)'
    BY <2>1, <2>2, <2>5 DEF LaterHolders
  <2>7. now' = now /\ compaction' = compaction /\ compactionLogs' = compactionLogs
    BY DEF WriteIndexBlobs
  <2>4. compaction'.pc = "register" => \A w \in LastLive', b \in indexBlobs' :
          Exists(b) /\ b.id \in compaction'.inputs /\ Holds(b, w) => LaterHolder(b, w, now)'
    BY <2>5, <2>6, <2>7 DEF LaterHolder
  <2> QED BY <2>7,  <2>3, <2>4 DEF LaterHolders, WriteIndexBlobs, LaterHolder, Holds
<1>8. DeletesSettled'
  BY DEF WriteIndexBlobs, DeletesSettled
<1>9. LiveHeld'
  <2>1. ASSUME NEW w \in LastLive'
        PROVE  \E b \in indexBlobs' : Exists(b) /\ Holds(b, w) /\ (b.at <= w.at \/ b.at + StorageSettleTime <= now)
    <3>1. CASE w \in LastLive
      BY <1>e, <3>1 DEF LiveHeld
    <3>2. CASE w \notin LastLive
      <4>1. w.content = c /\ w.entry = entry /\ w.at = now
        BY <1>g, <3>2
      <4> QED BY <1>d, <1>e, <4>1 DEF Holds, TypeInv
    <3> QED BY <3>1, <3>2
  <2> QED BY <2>1 DEF LiveHeld, WriteIndexBlobs, Holds
<1>10. LoadHolds'
  <2>1. ASSUME NEW w \in LastLive', w.at + StorageSettleTime <= load.start
        PROVE  w \in LastLive
    BY <1>g, <2>1, Constants, RecordFields DEF Clock, TypeInv
  <2> QED BY <2>1 DEF LoadHolds, WriteIndexBlobs, SettledAtStart, Holds
<1>11. LogsClean'
  <2>1. \A l \in compactionLogs : nextID \notin l.inputs
    BY DEF NamesUsed, Logs, TypeInv
  <2>2. \A l \in compactionLogs : InputsGone(l) => InputsGone(l)'
    BY <1>d, <1>e, <2>1 DEF InputsGone
  <2> QED BY <2>2 DEF LogsClean, WriteIndexBlobs
<1>12. DeletesComplete'
  <2>1. \A l \in compactionLogs : nextID \notin l.inputs
    BY DEF NamesUsed, Logs, TypeInv
  <2> QED BY <1>d, <1>e, <2>1 DEF DeletesComplete, WriteIndexBlobs
<1>13. ReplacedStaysMarked'
  <2>1. nextID \notin superseded
    BY DEF NamesUsed, TypeInv
  <2> QED BY <1>d, <1>e, <2>1 DEF ReplacedStaysMarked, WriteIndexBlobs
<1> QED BY <1>1, <1>2, <1>3, <1>4, <1>5, <1>6, <1>7, <1>8, <1>9, <1>10, <1>11, <1>12, <1>13

\* The output of a compaction holds, for every content, the newest entry of the inputs.
LEMMA CompactIndexBlobsStep == ASSUME Inv, NEW drop \in BOOLEAN, CompactIndexBlobs(drop)
                               PROVE  Inv'
<1> USE DEF Inv
<1>n. nextID \in Nat /\ nextID' = nextID + 1 /\ nextID' \in Nat /\ now \in Nat /\ \A i : i < nextID => i # nextID
  BY DEF CompactIndexBlobs, TypeInv
<1>a. PICK blobs \in ListedIndexBlobs, logs \in ListedLogs :
        \E inputs \in Inputs(RemoveCompactedIndexes(blobs, logs), drop) :
        \E out, entries, outputs : /\ Stores(drop, inputs, out, entries, outputs)
                                    /\ Leaves(RemoveCompactedIndexes(blobs, logs) \ inputs, inputs, entries)
  BY CompactFacts
<1>p. PICK inputs, out, entries, outputs : Stores(drop, inputs, out, entries, outputs)
  BY <1>a
<1>b. inputs \subseteq indexBlobs /\ inputs \in SUBSET IndexBlob
  BY <1>p DEF Stores
<1>c. \A b \in inputs, c \in Contents : b.entries[c] # Nil =>
        /\ b.entries[c].ts <= now + counters.writes
        /\ \E w \in written : w.content = c /\ w.entry = b.entries[c]
  BY <1>p DEF Stores
<1>m. /\ Merge(inputs) \in Index
      /\ \A c \in Contents :
           /\ Merge(inputs)[c] = Nil => \A b \in inputs : b.entries[c] = Nil
           /\ Merge(inputs)[c] # Nil => \E b \in inputs : b.entries[c] = Merge(inputs)[c]
           /\ \A b \in inputs : b.entries[c] # Nil =>
                Merge(inputs)[c] = b.entries[c] \/ Newer(Merge(inputs)[c], b.entries[c])
  BY <1>p DEF Stores
<1>k. entries \in Index /\ \A c \in Contents : /\ entries[c] \in {Nil, Merge(inputs)[c]}
                                               /\ Merge(inputs)[c] # Nil /\ ~Merge(inputs)[c].deleted => entries[c] = Merge(inputs)[c]
  BY <1>p DEF Stores
<1>d. indexBlobs' = indexBlobs \cup (IF outputs = {} THEN {} ELSE {out}) /\ outputs \in {{}, {nextID}}
  BY <1>p DEF Stores
<1>e. /\ compaction' = [pc |-> "register", start |-> now, inputs |-> ByID(inputs), outputs |-> outputs,
                        old |-> {}, deletes |-> {}, at |-> 0]
      /\ compaction'.pc = "register" /\ compaction'.inputs = ByID(inputs) /\ compaction'.outputs = outputs
      /\ compaction'.old = {} /\ compaction'.at = 0 /\ ByID(inputs) \subseteq Nat
  BY <1>b, <1>p DEF Stores, ByID, IndexBlob
<1>g. out \in IndexBlob /\ out.id = nextID /\ out.entries = entries /\ out.at = now /\ Exists(out)
  BY <1>p DEF Stores
<1>i. \A c \in Contents : entries[c] # Nil => \E b \in inputs : b.entries[c] = entries[c]
  BY <1>k, <1>m
<1>f. /\ Blobs' = Blobs \cup (IF outputs = {} THEN {} ELSE {out}) /\ \A b \in Blobs : b.id # nextID
      /\ Blobs \subseteq Blobs' /\ \A b \in Blobs' : b \in Blobs \/ b = out
  BY <1>d, <1>n DEF Blobs, CompactIndexBlobs, NamesUsed
<1>j. ASSUME NEW w \in LastLive, NEW b \in Blobs, b.id \in ByID(inputs), Holds(b, w)
      PROVE  outputs = {nextID} /\ Holds(out, w)
  <2>1. PICK d \in inputs : d.id = b.id
    BY <1>j DEF ByID
  <2>2. d.entries[w.content] = w.entry
    BY <1>b, <1>j, <2>1 DEF NamesUnique, Blobs, Holds
  <2>3. /\ w \in written /\ w.content \in Contents /\ w.entry \in Entry /\ w.entry # Nil /\ ~w.entry.deleted
        /\ \A v \in written : v.content = w.content => v.entry.ts <= w.entry.ts
    BY Constants DEF LastLive, Last, TypeInv
  <2> DEFINE e == Merge(inputs)[w.content]
  <2>4. e # Nil /\ (e = w.entry \/ Newer(e, w.entry))
    BY <1>m, <2>1, <2>2, <2>3
  <2>5. PICK v \in written : v.content = w.content /\ v.entry = e
    BY <1>c, <1>m, <2>3, <2>4
  <2>6. e = w.entry
    <3>1. e.ts <= w.entry.ts /\ e \in Entry
      BY <2>3, <2>5 DEF TypeInv
    <3>2. Newer(e, w.entry) => e.ts = w.entry.ts
      BY <2>3, <3>1 DEF Newer, Entry
    <3>3. e.ts = w.entry.ts => e = w.entry
      BY <2>3, <2>5 DEF EntriesWritten
    <3> QED BY <2>4, <3>2, <3>3
  <2>7. entries[w.content] = w.entry
    BY <1>k, <2>3, <2>6
  <2>8. entries # NoEntries
    BY <2>3, <2>7 DEF NoEntries
  <2> QED BY <1>g, <1>p, <2>7, <2>8 DEF Holds, Stores
<1>1. TypeInv'
  <2>1. counters' \in Counters
    BY DEF CompactIndexBlobs, TypeInv, Counters
  <2>2. compaction' \in CompactionRecord
    BY <1>d, <1>e, <1>n DEF CompactionRecord, TypeInv
  <2>3. indexBlobs' \subseteq IndexBlob
    BY <1>d, <1>g DEF TypeInv
  <2>4. nextCompaction' \in Nat
    BY Constants DEF CompactIndexBlobs, TypeInv
  <2>5. lapses' = lapses \/ lapses' = lapses \cup {"partialDrop"}
    BY <1>a DEF Leaves
  <2> QED BY <1>n, <2>1, <2>2, <2>3, <2>4, <2>5 DEF CompactIndexBlobs, TypeInv
<1>2. NamesUsed'
  <2>1. nextID \in Nat /\ nextID' = nextID + 1
    BY <1>n
  <2>0. \A b \in Blobs : b.id \in Nat /\ b.id < nextID
    BY DEF NamesUsed, Blobs, TypeInv, IndexBlob, LoadRecord
  <2>2. \A b \in Blobs' : b.id < nextID'
    BY <1>g, <1>f, <2>0, <2>1
  <2>3. \A l \in Logs : \A i \in {l.id} \cup l.inputs \cup l.outputs : i < nextID'
    BY <2>1 DEF NamesUsed, Logs, TypeInv, CompactionLog, LoadRecord
  <2>4. \A i \in superseded : i < nextID'
    BY <2>1 DEF NamesUsed, TypeInv
  <2>5. \A b \in cleanupBlobs : \A i \in b.logs : i < nextID'
    BY <2>1 DEF NamesUsed, TypeInv, CleanupBlob
  <2>6. \A i \in ByID(inputs) : i < nextID'
    BY <1>b, <2>0, <2>1 DEF ByID, Blobs
  <2>7. compaction'.inputs = ByID(inputs) /\ compaction'.outputs \subseteq {nextID} /\ compaction'.old = {}
    BY <1>e, <1>d
  <2>8. \A i \in compaction'.inputs \cup compaction'.outputs \cup compaction'.old \cup superseded : i < nextID'
    BY <2>1, <2>4, <2>6, <2>7
  <2> QED BY <2>2, <2>3, <2>5, <2>8 DEF CompactIndexBlobs, NamesUsed, Logs
<1>3. NamesUnique'
  <2>1. \A b \in Blobs' : b \in Blobs \/ b = out
    BY <1>f
  <2>2. \A b \in Blobs : b.id # out.id
    BY <1>f, <1>g
  <2> QED BY <2>1, <2>2 DEF NamesUnique, CompactIndexBlobs
<1>4. Clock'
  <2>1. counters'.writes = counters.writes /\ compaction'.at = 0
    BY <1>e DEF CompactIndexBlobs, TypeInv, Counters
  <2>2. \A b \in indexBlobs' : b.at <= now
    BY <1>d, <1>g DEF Clock, TypeInv
  <2> QED BY <2>1, <2>2 DEF CompactIndexBlobs, Clock, TypeInv
<1>5. EntriesWritten'
  <2>1. \A c \in Contents : out.entries[c] # Nil => \E w \in written : w.content = c /\ w.entry = out.entries[c]
    <3> SUFFICES ASSUME NEW c \in Contents, out.entries[c] # Nil
                 PROVE  \E w \in written : w.content = c /\ w.entry = out.entries[c]
      OBVIOUS
    <3>1. PICK b \in inputs : b.entries[c] = out.entries[c]
      BY <1>g, <1>i
    <3> QED BY <1>b, <3>1 DEF EntriesWritten, Blobs
  <2>2. \A b \in Blobs' : b \in Blobs \/ b = out
    BY <1>f
  <2>3. written' = written
    BY DEF CompactIndexBlobs
  <2> QED BY <2>1, <2>2, <2>3 DEF EntriesWritten
<1>6. OutputsReplace'
  <2>1. LastLive' = LastLive /\ Logs' = Logs
    BY DEF CompactIndexBlobs, LastLive, Last, Logs
  <2>2. ASSUME NEW l \in Logs PROVE Replaces(l)'
    <3>1. nextID \notin l.inputs /\ nextID \notin l.outputs
      BY <1>n DEF NamesUsed
    <3>2. \A b \in Blobs' : b.id \in l.inputs \/ b.id \in l.outputs => b \in Blobs
      BY <1>f, <1>g, <3>1
    <3>3. Replaces(l)
      BY DEF OutputsReplace
    <3> QED BY <2>1, <3>2, <3>3 DEF Replaces, Holds
  <2>3. Replaces(compaction)'
    <3> SUFFICES ASSUME NEW w \in LastLive, NEW b \in Blobs', b.id \in ByID(inputs), Holds(b, w)
                 PROVE  /\ outputs # {}
                        /\ \A o \in Blobs' : o.id \in outputs => Holds(o, w) /\ o.id > b.id
      BY <1>e, <2>1 DEF Replaces, Holds
    <3>1. b \in Blobs /\ b.id < nextID /\ b.id \in Nat
      <4>1. PICK d \in inputs : d.id = b.id
        BY DEF ByID
      <4>2. d \in Blobs
        BY <1>b, <4>1 DEF Blobs
      <4> QED BY <1>f, <1>g, <4>1, <4>2 DEF NamesUsed, Blobs, TypeInv, IndexBlob, LoadRecord
    <3>2. outputs = {nextID} /\ Holds(out, w)
      BY <1>j, <3>1
    <3>3. \A o \in Blobs' : o.id = nextID => o = out
      BY <1>f
    <3> QED BY <1>n, <3>1, <3>2, <3>3
  <2> QED BY <2>1, <2>2, <2>3 DEF OutputsReplace
<1>7. LaterHolders'
  <2>1. LastLive' = LastLive /\ compactionLogs' = compactionLogs /\ now' = now
    BY DEF CompactIndexBlobs, LastLive, Last
  <2>2. ASSUME NEW l \in compactionLogs, NEW w \in LastLive, NEW b \in indexBlobs',
               Exists(b), b.id \in l.inputs, Holds(b, w)
        PROVE  LaterHolder(b, w, l.at)'
    <3>1. nextID \notin l.inputs
      BY <1>n DEF NamesUsed, Logs
    <3>2. b \in indexBlobs
      BY <1>d, <1>g, <2>2, <3>1
    <3>3. LaterHolder(b, w, l.at)
      BY <2>2, <3>2 DEF LaterHolders
    <3> QED BY <1>d, <2>1, <3>3 DEF LaterHolder, Holds
  <2>3. ASSUME NEW w \in LastLive, NEW b \in indexBlobs', Exists(b), b.id \in ByID(inputs), Holds(b, w)
        PROVE  \E d \in indexBlobs' : Exists(d) /\ Holds(d, w) /\ d.id > b.id /\ d.at <= now
    <3>1. b \in Blobs /\ b.id < nextID /\ b.id \in Nat
      <4>1. PICK d \in inputs : d.id = b.id
        BY <2>3 DEF ByID
      <4>2. d \in Blobs
        BY <1>b, <4>1 DEF Blobs
      <4>3. b \in Blobs'
        BY DEF Blobs
      <4> QED BY <1>f, <1>g, <4>1, <4>2, <4>3 DEF NamesUsed, Blobs, TypeInv, IndexBlob, LoadRecord
    <3>2. outputs = {nextID} /\ Holds(out, w)
      BY <1>j, <2>3, <3>1
    <3>3. out \in indexBlobs' /\ out.at <= now
      BY <1>d, <1>g, <3>2 DEF TypeInv
    <3> QED BY <1>g, <1>n, <3>1, <3>2, <3>3
  <2>4. \A w \in LastLive, b \in indexBlobs' :
          Exists(b) /\ b.id \in ByID(inputs) /\ Holds(b, w) => LaterHolder(b, w, now)'
    BY <2>1, <2>3 DEF LaterHolder, Holds
  <2> QED BY <1>e, <2>1, <2>2, <2>4 DEF LaterHolders, Holds
<1>8. DeletesSettled'
  BY <1>e DEF DeletesSettled
<1>9. LiveHeld'
  BY <1>d DEF CompactIndexBlobs, LiveHeld, LastLive, Last, Holds
<1>10. LoadHolds'
  BY DEF CompactIndexBlobs, LoadHolds, LastLive, Last, Holds, SettledAtStart
<1>11. LogsClean'
  <2>1. \A l \in compactionLogs : nextID \notin l.inputs
    BY <1>n DEF NamesUsed, Logs
  <2>2. \A l \in compactionLogs : InputsGone(l) => InputsGone(l)'
    BY <1>d, <1>g, <2>1 DEF InputsGone
  <2> QED BY <2>2 DEF LogsClean, CompactIndexBlobs
<1>12. DeletesComplete'
  BY <1>e DEF DeletesComplete
<1>13. ReplacedStaysMarked'
  <2>1. nextID \notin superseded
    BY <1>n DEF NamesUsed
  <2> QED BY <1>d, <1>g, <2>1 DEF ReplacedStaysMarked, CompactIndexBlobs
<1> QED BY <1>1, <1>2, <1>3, <1>4, <1>5, <1>6, <1>7, <1>8, <1>9, <1>10, <1>11, <1>12, <1>13

\* The empty repository.
LEMMA InitInv == Init => Inv
<1> SUFFICES ASSUME Init PROVE Inv
  OBVIOUS
<1>1. /\ now = 0 /\ nextID = 0 /\ indexBlobs = {} /\ compactionLogs = {} /\ cleanupBlobs = {} /\ written = {}
      /\ superseded = {} /\ lapses = {} /\ compaction = IdleCompaction /\ nextCompaction = 0 /\ load = IdleLoad
      /\ counters = [writes |-> 0, compactions |-> 0, faults |-> 0]
  BY DEF Init
<1>2. load.blobs = {} /\ load.logs = {} /\ load.start = 0 /\ load.listed = {} /\ compaction.pc = "idle" /\ compaction.at = 0
      /\ compaction.inputs = {} /\ compaction.outputs = {} /\ compaction.old = {}
  BY <1>1 DEF IdleCompaction, IdleLoad
<1>3. TypeInv
  BY <1>1, RecordFields DEF TypeInv, Counters
<1>4. NamesUsed /\ NamesUnique /\ Clock /\ EntriesWritten
  BY <1>1, <1>2 DEF NamesUsed, NamesUnique, Clock, EntriesWritten, Blobs, Logs
<1>5. OutputsReplace /\ LaterHolders /\ DeletesSettled /\ LiveHeld /\ LoadHolds
  BY <1>1, <1>2 DEF OutputsReplace, LaterHolders, DeletesSettled, LiveHeld, LoadHolds, Logs, LastLive
<1>6. LogsClean /\ DeletesComplete /\ ReplacedStaysMarked
  BY <1>1, <1>2 DEF LogsClean, DeletesComplete, ReplacedStaysMarked
<1> QED BY <1>3, <1>4, <1>5, <1>6 DEF Inv

\* Every step keeps the invariant.
LEMMA NextInv == Inv /\ [Next]_vars => Inv'
<1> SUFFICES ASSUME Inv, [Next]_vars PROVE Inv'
  OBVIOUS
<1>1. CASE \E c \in Contents, deleted \in BOOLEAN : WriteIndexBlobs(c, deleted)
  BY <1>1, WriteIndexBlobsStep
<1>2. CASE \E drop \in BOOLEAN : CompactIndexBlobs(drop)
  BY <1>2, CompactIndexBlobsStep
<1>3. CASE NothingToCompact \/ RegisterCompaction \/ FindIndexBlobsToDelete \/ DeleteIndexBlob
           \/ DelayCleanupBlobs \/ Cleanup \/ CompactionStops
  BY <1>3, NothingToCompactStep, RegisterCompactionStep, FindIndexBlobsToDeleteStep, DeleteIndexBlobStep,
     DelayCleanupBlobsStep, CleanupStep, CompactionStopsStep
<1>4. CASE ListIndexBlobs \/ ListCompactionLogs \/ UseIndexBlobs \/ Tick
  BY <1>4, ListIndexBlobsStep, ListCompactionLogsStep, UseIndexBlobsStep, TickStep
<1>5. CASE UNCHANGED vars
  BY <1>5 DEF vars, Inv, TypeInv, NamesUsed, NamesUnique, Clock, EntriesWritten, OutputsReplace, Replaces,
     LaterHolders, LaterHolder, DeletesSettled, LiveHeld, LoadHolds, LogsClean, InputsGone, DeletesComplete,
     ReplacedStaysMarked, Blobs, Logs, LastLive, Last, Holds, SettledAtStart
<1> QED BY <1>1, <1>2, <1>3, <1>4, <1>5 DEF Next
----------------------------------------------------------------------------
(* Theorems *)

\* The invariant holds in every state.
LEMMA Invariance == Spec => []Inv
<1> QED BY InitInv, NextInv, PTL DEF Spec

\* The state is well typed, every blob has a name that was given out, and a cleanup is never
\* scheduled for later than it was stored.
THEOREM TypeCorrect == Spec => []TypeOK
<1>1. Inv => TypeOK
  <2> SUFFICES ASSUME Inv PROVE TypeOK
    OBVIOUS
  <2>1. /\ \A b \in indexBlobs : b.id < nextID
        /\ \A l \in compactionLogs : \A i \in {l.id} \cup l.inputs \cup l.outputs : i < nextID
    BY DEF Inv, NamesUsed, Blobs, Logs
  <2>2. /\ load.start \in Nat /\ load.listed \subseteq {"blobs", "logs"}
        /\ load.blobs \subseteq IndexBlob /\ load.logs \subseteq CompactionLog
    BY DEF Inv, TypeInv, LoadRecord
  <2>3. \A w \in written : w.content \in Contents /\ w.entry \in Entry /\ w.at \in Nat
    BY DEF Inv, TypeInv
  <2> QED BY <2>1, <2>2, <2>3 DEF Inv, TypeInv, TypeOK, CompactionRecord, Counters
<1> QED BY <1>1, Invariance, PTL

\* A replaced index blob stays marked as long as it exists: cleanup never deletes a compaction
\* log before the last of its inputs, whatever fails in between.
THEOREM ReplacedAlwaysMarked == Spec => []ReplacedStaysMarked
<1>1. Inv => ReplacedStaysMarked
  BY DEF Inv
<1> QED BY <1>1, Invariance, PTL

\* A load of the index finds every content that was stored and settled before it began and that
\* was not deleted since, with compactions, cleanups and failures at any moment.
THEOREM LoadFindsLiveContents == Spec => []LiveContentsFound
<1>1. Inv => LiveContentsFound
  <2> SUFFICES ASSUME Inv, AllListed, NEW index \in LoadedIndexes, NEW w \in written,
                      SettledAtStart(w), Last(w), ~w.entry.deleted
               PROVE  index[w.content] = w.entry
    BY DEF LiveContentsFound
  <2> USE DEF Inv
  <2>1. PICK missed \in SUBSET load.logs : index = Merge(RemoveCompactedIndexes(load.blobs, load.logs \ missed))
    BY DEF LoadedIndexes
  <2> DEFINE used == RemoveCompactedIndexes(load.blobs, load.logs \ missed)
             ids == {b.id : b \in {d \in load.blobs : Holds(d, w)}}
  <2>2. w \in LastLive /\ w.content \in Contents /\ w.entry \in Entry /\ w.entry # Nil
    BY Constants DEF LastLive, TypeInv
  <2>3. load.blobs \in SUBSET IndexBlob /\ nextID \in Nat
    BY RecordFields DEF TypeInv
  <2>4. PICK b \in load.blobs : Holds(b, w)
    BY <2>2 DEF LoadHolds, AllListed
  <2>5. ids \in SUBSET Nat /\ ids # {} /\ \A i \in ids : i <= nextID
    BY <2>3, <2>4 DEF IndexBlob, NamesUsed, Blobs
  <2>6. PICK i \in ids : \A j \in ids : j <= i
    BY <2>3, <2>5, GreatestNat
  <2>7. PICK d \in load.blobs : d.id = i /\ Holds(d, w)
    OBVIOUS
  <2>8. d \in used
    <3> SUFFICES ASSUME NEW l \in load.logs, l.outputs \subseteq ByID(load.blobs), d.id \in l.inputs
                 PROVE  FALSE
      BY DEF RemoveCompactedIndexes
    <3>1. Replaces(l)
      BY DEF OutputsReplace, Logs
    <3>2. l.outputs # {} /\ \A o \in Blobs : o.id \in l.outputs => Holds(o, w) /\ o.id > d.id
      BY <2>2, <2>7, <3>1 DEF Replaces, Blobs
    <3>3. PICK o \in load.blobs : o.id \in l.outputs
      BY <3>2 DEF ByID
    <3>4. Holds(o, w) /\ o.id > i /\ o.id \in ids
      BY <2>7, <3>2, <3>3 DEF Blobs
    <3>5. i \in Nat /\ o.id \in Nat /\ o.id <= i
      BY <2>5, <2>6, <3>4
    <3> HIDE DEF ids
    <3> QED BY <3>4, <3>5
  <2>9. used \in SUBSET IndexBlob /\ used \subseteq load.blobs
    BY <2>3 DEF RemoveCompactedIndexes
  <2> HIDE DEF used
  <2>10. \A x \in used, c \in Contents : x.entries[c] # Nil =>
           /\ x.entries[c].ts <= now + counters.writes
           /\ \E v \in written : v.content = c /\ v.entry = x.entries[c]
    BY <2>9 DEF EntriesWritten, Clock, Blobs
  <2>11. now + counters.writes \in Nat
    BY RecordFields DEF TypeInv
  <2> DEFINE e == Merge(used)[w.content]
  <2>12. /\ e # Nil => \E x \in used : x.entries[w.content] = e
         /\ e = Nil => \A x \in used : x.entries[w.content] = Nil
         /\ \A x \in used : x.entries[w.content] # Nil => e = x.entries[w.content] \/ Newer(e, x.entries[w.content])
    BY <2>2, <2>9, <2>10, <2>11, MergeNewest
  <2>13. e # Nil /\ (e = w.entry \/ Newer(e, w.entry))
    BY <2>2, <2>7, <2>8, <2>12 DEF Holds
  <2>14. PICK v \in written : v.content = w.content /\ v.entry = e
    BY <2>2, <2>10, <2>12, <2>13
  <2>15. e = w.entry
    <3>1. e.ts <= w.entry.ts /\ e \in Entry
      BY <2>14 DEF TypeInv, Last
    <3>2. Newer(e, w.entry) => e.ts = w.entry.ts
      BY <2>2, <3>1 DEF Newer, Entry
    <3>3. e.ts = w.entry.ts => e = w.entry
      BY <2>14 DEF EntriesWritten
    <3> QED BY <2>13, <3>2, <3>3
  <2> QED BY <2>1, <2>15 DEF used
<1> QED BY <1>1, Invariance, PTL
----------------------------------------------------------------------------
(* Deleted contents stay deleted: the invariant, as long as nothing was uncovered *)

\* After this time a blob is in the listings of all loads under way.
Gap == LoadDuration + StorageSettleTime

\* Compactions start so far apart that a load which sees the log of one sees those of the earlier
\* ones, and deletions are dropped only when everyone sees the entries they delete.
RunsSettle == CompactionInterval >= CompactionDuration + Gap
ScheduleSuffices == RunsSettle /\ DropDeletedAge >= StorageSettleTime

\* The last entry of a content, when it is a deletion.
LastDeleted == {w \in written : Last(w) /\ w.entry.deleted}

\* When things happen: the logs that there are when a compaction starts are in all listings, and so
\* are its inputs that compactions have stored.
RunTimed ==
  /\ compaction.pc # "idle" =>
       /\ compaction.start <= now /\ now <= compaction.start + CompactionDuration
       /\ nextCompaction = compaction.start + CompactionInterval
  /\ compaction.pc \in {"deleteOld", "deleting"} => compaction.start <= compaction.at
  /\ \A l \in compactionLogs :
       /\ l.at <= now /\ l.at + Gap <= nextCompaction
       /\ compaction.pc = "register" => l.at + Gap <= compaction.start
LoadTimed ==
  /\ load.listed # {} => now <= load.start + LoadDuration
  /\ "blobs" \notin load.listed => load.blobs = {}
  /\ "logs" \notin load.listed => load.logs = {}
  /\ \A l \in load.logs : l.at <= load.start + LoadDuration
BlobsTimed == \A b \in indexBlobs :
  /\ ~Exists(b) => b.gone <= now /\ now < b.gone + StorageSettleTime
  /\ b.own => b.at + Gap <= nextCompaction
  /\ ~b.own => \A c \in Contents : b.entries[c] # Nil => b.at <= b.entries[c].ts

CleanupTimed == \A x \in cleanupBlobs : x.at <= now

\* Outputs are new, and the inputs of logs superseded.
NamesApart ==
  /\ \A l \in Logs : l.inputs \subseteq superseded
  /\ compaction.pc = "register" => \A i \in compaction.outputs : i \notin superseded /\ i \notin compaction.inputs

\* Outputs exist as long as an input is seen.
Stored(i, at) == \E d \in indexBlobs : d.id = i /\ Exists(d) /\ d.at <= at
OutputsStored ==
  /\ compaction.pc = "register" => \A i \in compaction.outputs : Stored(i, now)
  /\ \A l \in compactionLogs, b \in indexBlobs : b.id \in l.inputs => \A i \in l.outputs : Stored(i, l.at)

\* Logs exist as long as an input is seen or listed.
LogsStored == \A l \in compactionLogs, b \in Blobs : b.id \in l.inputs => Exists(l)
CleanupLater == \A x \in cleanupBlobs, l \in compactionLogs : l.id \in x.logs =>
  /\ \A b \in indexBlobs : b.id \in l.inputs => ~Exists(b) /\ b.gone <= x.schedule + CompactionDuration
  /\ \A b \in load.blobs : b.id \in l.inputs => load.start < x.schedule + CompactionDuration + StorageSettleTime
GoneMarked == \A b \in Blobs : (b \in indexBlobs /\ Exists(b)) \/ \E l \in compactionLogs : b.id \in l.inputs

\* A load sees the logs that had settled, and their outputs.
LoadSees ==
  /\ "logs" \in load.listed => \A l \in compactionLogs :
       Exists(l) /\ l.at + StorageSettleTime <= load.start => l \in load.logs
  /\ \A l \in compactionLogs, b \in load.blobs :
       b.id \in l.inputs /\ l.at + StorageSettleTime <= load.start => l.outputs \subseteq ByID(load.blobs)

Tidy == /\ RunTimed /\ LoadTimed /\ BlobsTimed /\ NamesApart /\ OutputsStored
        /\ LogsStored /\ CleanupLater /\ GoneMarked /\ LoadSees /\ CleanupTimed

\* An entry of a deletion is replaced like others, or everything of the content is superseded.
Has(b, w) == b.entries[w.content] # Nil
Marked(b, at) == \E l \in compactionLogs : b.id \in l.inputs /\ l.at <= at
Dropping(x, at, w) == \A b \in Blobs : Has(b, w) => b.id \in x.inputs \/ Marked(b, at - Gap)
Passed(x, w) == \A b \in Blobs : b.id \in x.inputs /\ Holds(b, w) =>
  x.outputs # {} /\ \A o \in Blobs : o.id \in x.outputs => Holds(o, w) /\ o.id > b.id
DeletionsReplaced == \A w \in LastDeleted :
  /\ \A l \in Logs : Passed(l, w) \/ Dropping(l, l.at, w)
  /\ compaction.pc = "register" => Passed(compaction, w) \/ Dropping(compaction, compaction.start, w)

\* A deletion is in a blob that everyone sees, or forgotten with all that it deletes.
Forgotten(w) == \A b \in Blobs : Has(b, w) => Marked(b, now - Gap)
DeletionsHeld == \A w \in LastDeleted :
  \/ \E b \in indexBlobs : Exists(b) /\ Holds(b, w) /\ (b.at <= w.at \/ b.at + StorageSettleTime <= now)
  \/ Forgotten(w)
DeletionsListed == "blobs" \in load.listed => \A w \in LastDeleted : SettledAtStart(w) =>
  \/ \E b \in load.blobs : Holds(b, w)
  \/ \A b \in load.blobs : Has(b, w) => Marked(b, load.start - StorageSettleTime)

Deletions == DeletionsReplaced /\ DeletionsHeld /\ DeletionsListed

----------------------------------------------------------------------------
\* The durations, in the form the proofs use them.
LEMMA Durations == /\ CompactionDuration \in Nat /\ LoadDuration \in Nat /\ DropDeletedAge \in Nat
                   /\ CompactionDuration + LoadDuration + StorageSettleTime <= MaxEventualConsistencySettleTime
                   /\ Gap = LoadDuration + StorageSettleTime /\ Gap \in Nat /\ Gap >= StorageSettleTime
<1>1. \A d \in {MaxEventualConsistencySettleTime, StorageSettleTime, OwnWritesCacheDuration,
                CompactionDuration, LoadDuration, DropDeletedAge, CompactionInterval, MaxTime, MaxWrites,
                MaxCompactions, MaxFaults} : d \in Nat
  BY IndexBlobAssumption
<1> QED BY <1>1, IndexBlobAssumption DEF Gap

\* The times that the invariant compares are numbers.
LEMMA Numbers == ASSUME Inv
                 PROVE  /\ now \in Nat /\ nextCompaction \in Nat /\ compaction.start \in Nat /\ compaction.at \in Nat
                        /\ load.start \in Nat /\ load.start <= now /\ compaction.at <= now /\ nextID \in Nat
                        /\ \A b \in Blobs : b.at \in Nat /\ b.id \in Nat /\ (~Exists(b) => b.gone \in Nat)
                        /\ \A b \in indexBlobs : b \in Blobs /\ b.at <= now
                        /\ \A l \in Logs : l.at \in Nat /\ (~Exists(l) => l.gone \in Nat)
                        /\ \A l \in compactionLogs : l \in Logs
                        /\ \A x \in cleanupBlobs : x.schedule \in Nat /\ x.at \in Nat
                        /\ \A w \in written : w.at \in Nat /\ w.entry.ts \in Nat
<1> USE DEF Inv
<1>1. /\ now \in Nat /\ nextCompaction \in Nat /\ compaction.start \in Nat /\ compaction.at \in Nat
      /\ load.start \in Nat /\ load.start <= now /\ compaction.at <= now /\ nextID \in Nat
  BY RecordFields DEF TypeInv, Clock
<1>2. Blobs \subseteq IndexBlob /\ Logs \subseteq CompactionLog
  BY RecordFields DEF TypeInv, Blobs, Logs
<1>3. \A b \in Blobs : b.at \in Nat /\ b.id \in Nat /\ (~Exists(b) => b.gone \in Nat)
  BY <1>2 DEF IndexBlob, Time, Exists
<1>4. \A l \in Logs : l.at \in Nat /\ (~Exists(l) => l.gone \in Nat)
  BY <1>2 DEF CompactionLog, Time, Exists
<1>5. /\ \A b \in indexBlobs : b \in Blobs /\ b.at <= now
      /\ \A l \in compactionLogs : l \in Logs
  BY DEF Blobs, Logs, Clock
<1>6. \A x \in cleanupBlobs : x.schedule \in Nat /\ x.at \in Nat
  BY DEF TypeInv, CleanupBlob
<1>7. \A w \in written : w.at \in Nat /\ w.entry.ts \in Nat
  BY DEF TypeInv, Entry
<1> QED BY <1>1, <1>3, <1>4, <1>5, <1>6, <1>7

\* A run that only cleans up begins.
LEMMA NothingToCompactTidy == ASSUME Inv, Tidy, RunsSettle, NothingToCompact
                              PROVE  Tidy'
<1> USE DEF Tidy
<1>0. /\ compaction'.pc = "cleanup" /\ compaction'.start = now
      /\ nextCompaction' = now + CompactionInterval /\ nextCompaction <= now
      /\ UNCHANGED <<now, indexBlobs, compactionLogs, cleanupBlobs, load, superseded>> /\ compaction.pc = "idle"
      /\ Blobs' = Blobs /\ Logs' = Logs
  BY Numbers DEF NothingToCompact, storage, IdleCompaction, Blobs, Logs
<1>1. RunTimed'
  BY <1>0, Numbers, Constants, Durations DEF RunTimed
<1>2. LoadTimed'
  BY <1>0 DEF LoadTimed
<1>3. BlobsTimed'
  BY <1>0, Numbers, Constants, Durations DEF BlobsTimed
<1>4. NamesApart'
  BY <1>0 DEF NamesApart
<1>5. OutputsStored'
  BY <1>0 DEF OutputsStored, Stored
<1>7. LogsStored' /\ CleanupLater' /\ GoneMarked' /\ LoadSees' /\ CleanupTimed'
  BY <1>0 DEF LogsStored, CleanupLater, GoneMarked, LoadSees, ByID, CleanupTimed
<1> QED BY <1>1, <1>2, <1>3, <1>4, <1>5, <1>7

\* A compaction is registered: all other logs are older than the settle time.
LEMMA RegisterCompactionTidy == ASSUME Inv, Tidy, RunsSettle, RegisterCompaction
                                PROVE  Tidy'
<1> USE DEF Tidy
<1> DEFINE log == [id |-> nextID, inputs |-> compaction.inputs, outputs |-> compaction.outputs, at |-> now, gone |-> Nil]
<1>a. /\ compactionLogs' = compactionLogs \cup {log} /\ Logs' = Logs \cup {log}
      /\ log.id = nextID /\ log.inputs = compaction.inputs /\ log.outputs = compaction.outputs /\ log.at = now /\ Exists(log)
  BY DEF RegisterCompaction, Logs, Exists
<1>0. /\ compaction'.pc = "deleteOld" /\ compaction'.start = compaction.start /\ compaction'.at = now
      /\ UNCHANGED <<now, indexBlobs, cleanupBlobs, load, nextCompaction>> /\ compaction.pc = "register"
      /\ Blobs' = Blobs /\ superseded' = superseded \cup compaction.inputs
  BY DEF RegisterCompaction, Inv, TypeInv, CompactionRecord, Blobs
<1> HIDE DEF log
<1>1. RunTimed'
  BY <1>a, <1>0, Numbers, Constants, Durations DEF RunTimed, RunsSettle
<1>2. LoadTimed' /\ CleanupTimed'
  BY <1>0 DEF LoadTimed, CleanupTimed
<1>3. BlobsTimed'
  BY <1>0 DEF BlobsTimed
<1>4. NamesApart'
  BY <1>a, <1>0 DEF NamesApart
<1>6. OutputsStored'
  BY <1>a, <1>0 DEF OutputsStored, Stored
<1>8. LogsStored'
  BY <1>a, <1>0 DEF LogsStored
<1>9. CleanupLater'
  <2>1. \A x \in cleanupBlobs : nextID \notin x.logs
    BY Numbers DEF Inv, NamesUsed
  <2> QED BY <1>a, <1>0, <2>1 DEF CleanupLater
<1>10. GoneMarked'
  BY <1>a, <1>0 DEF GoneMarked
<1>11. LoadSees'
  <2>1. ~(log.at + StorageSettleTime <= load.start)
    BY <1>a, Numbers, Constants
  <2> QED BY <1>a, <1>0, <2>1 DEF LoadSees, ByID
<1> QED BY <1>1, <1>2, <1>3, <1>4, <1>6, <1>8, <1>9, <1>10, <1>11

\* The logs of the runs before this one are old.
LEMMA FindIndexBlobsToDeleteTidy == ASSUME Inv, Tidy, RunsSettle, FindIndexBlobsToDelete
                                    PROVE  Tidy'
<1> USE DEF Tidy
<1>a. PICK logs \in ListedLogs :
        compaction' = [compaction EXCEPT !.pc = "deleting", !.old = ByID(OldLogs(logs)),
                         !.deletes = UNION {l.inputs : l \in {k \in OldLogs(logs) : Exists(k)}}]
  BY DEF FindIndexBlobsToDelete
<1>b. \A l \in compactionLogs : Settled(l) => l \in logs
  BY DEF ListedLogs, OwnListings, Listings
<1>0. /\ compaction'.pc = "deleting" /\ compaction'.old = ByID(OldLogs(logs))
      /\ compaction'.start = compaction.start /\ compaction'.at = compaction.at /\ compaction.pc = "deleteOld"
      /\ UNCHANGED <<now, indexBlobs, compactionLogs, cleanupBlobs, load, superseded, nextCompaction>>
      /\ Blobs' = Blobs /\ Logs' = Logs
  BY <1>a DEF FindIndexBlobsToDelete, Inv, TypeInv, CompactionRecord, storage, Blobs, Logs
<1>1. RunTimed'
  BY <1>0 DEF RunTimed
<1>2. LoadTimed' /\ BlobsTimed'
  BY <1>0 DEF LoadTimed, BlobsTimed
<1>4. NamesApart'
  BY <1>0 DEF NamesApart
<1>5. OutputsStored'
  BY <1>0 DEF OutputsStored, Stored
<1>7. LogsStored' /\ CleanupLater' /\ GoneMarked' /\ LoadSees' /\ CleanupTimed'
  BY <1>0 DEF LogsStored, CleanupLater, GoneMarked, LoadSees, ByID, CleanupTimed
<1> QED BY <1>1, <1>2, <1>4, <1>5, <1>7

\* An index blob is deleted: it is no output that an input is still seen of.
LEMMA DeleteIndexBlobTidy == ASSUME Inv, Tidy, DeleteIndexBlob, "outputFirst" \notin lapses'
                             PROVE  Tidy'
<1> USE DEF Tidy
<1>a. PICK i \in compaction.deletes : /\ indexBlobs' = DeleteBlobs(indexBlobs, {i})
                                      /\ compaction' = [compaction EXCEPT !.deletes = @ \ {i}]
                                      /\ lapses' = lapses \cup (IF InputsSeen(i) THEN {"outputFirst"} ELSE {})
  BY DEF DeleteIndexBlob
<1>0. /\ compaction'.pc = "deleting" /\ compaction'.old = compaction.old /\ compaction.pc = "deleting"
      /\ compaction'.start = compaction.start /\ compaction'.at = compaction.at
      /\ UNCHANGED <<now, compactionLogs, cleanupBlobs, load, superseded, nextCompaction>>
      /\ Logs' = Logs
  BY <1>a DEF DeleteIndexBlob, Inv, TypeInv, CompactionRecord, Logs
<1>b. \A d \in indexBlobs' : \E b \in indexBlobs :
        /\ b.id = d.id /\ b.entries = d.entries /\ b.at = d.at /\ b.own = d.own
        /\ d = b \/ (d.id = i /\ Exists(b) /\ ~Exists(d) /\ d.gone = now)
  BY <1>a, IndexBlobAssumption DEF DeleteBlobs, Exists, Inv, TypeInv, IndexBlob
<1>c. \A b \in indexBlobs : b.id # i => b \in indexBlobs'
  BY <1>a DEF DeleteBlobs
<1>d. PICK k \in compactionLogs : i \in k.inputs /\ k.at + MaxEventualConsistencySettleTime <= compaction.at
  BY <1>0 DEF Inv, DeletesSettled
<1>e. \A d \in Blobs' : d \in Blobs \/ (d \in indexBlobs' /\ \E b \in indexBlobs : b.id = d.id /\ b.entries = d.entries)
  BY <1>b, <1>0 DEF Blobs
\* No log that names it as an output has an input left.
<1>f. ASSUME NEW l \in compactionLogs, NEW b \in indexBlobs, b.id \in l.inputs
      PROVE  i \notin l.outputs
  <2>1. ~InputsSeen(i)
    BY <1>a
  <2> QED BY <1>f, <2>1 DEF InputsSeen
<1>1. RunTimed'
  BY <1>0 DEF RunTimed
<1>2. LoadTimed' /\ CleanupTimed'
  BY <1>0 DEF LoadTimed, CleanupTimed
<1>3. BlobsTimed'
  BY <1>b, <1>0, Numbers, Constants DEF BlobsTimed
<1>4. NamesApart'
  BY <1>0 DEF NamesApart
<1>5. OutputsStored'
  <2> SUFFICES ASSUME NEW l \in compactionLogs, NEW d \in indexBlobs', d.id \in l.inputs, NEW o \in l.outputs
               PROVE  \E e \in indexBlobs' : e.id = o /\ Exists(e) /\ e.at <= l.at
    BY <1>0 DEF OutputsStored, Stored
  <2>1. PICK b \in indexBlobs : b.id = d.id
    BY <1>b
  <2>2. PICK e \in indexBlobs : e.id = o /\ Exists(e) /\ e.at <= l.at
    BY <2>1 DEF OutputsStored, Stored
  <2>3. o # i
    BY <1>f, <2>1
  <2> QED BY <1>c, <2>2, <2>3
<1>7. LogsStored'
  BY <1>e, <1>0 DEF LogsStored, Blobs
<1>8. CleanupLater'
  <2> SUFFICES ASSUME NEW x \in cleanupBlobs, NEW l \in compactionLogs, l.id \in x.logs, NEW d \in indexBlobs', d.id \in l.inputs
               PROVE  ~Exists(d) /\ d.gone <= x.schedule + CompactionDuration
    BY <1>0 DEF CleanupLater
  <2>1. PICK b \in indexBlobs : b.id = d.id /\ (d = b \/ Exists(b))
    BY <1>b
  <2> QED BY <2>1 DEF CleanupLater
<1>9. GoneMarked'
  <2> SUFFICES ASSUME NEW d \in Blobs', ~\E l \in compactionLogs : d.id \in l.inputs
               PROVE  d \in indexBlobs' /\ Exists(d)
    BY <1>0 DEF GoneMarked
  <2>1. d.id # i
    BY <1>d
  <2>2. d \in Blobs
    BY <1>b, <1>0, <2>1 DEF Blobs
  <2> QED BY <1>c, <2>1, <2>2 DEF GoneMarked
<1>10. LoadSees'
  BY <1>0 DEF LoadSees, ByID
<1> QED BY <1>1, <1>2, <1>3, <1>4, <1>5, <1>7, <1>8, <1>9, <1>10

\* The old logs are scheduled for deletion, their inputs having been deleted in this run.
LEMMA DelayCleanupBlobsTidy == ASSUME Inv, Tidy, RunsSettle, DelayCleanupBlobs
                               PROVE  Tidy'
<1> USE DEF Tidy
<1>a. \A x \in cleanupBlobs' : x \in cleanupBlobs \/ (x.logs = compaction.old /\ x.schedule = compaction.at)
  BY DEF DelayCleanupBlobs
<1>0. /\ compaction'.pc = "cleanup" /\ compaction.pc = "deleting" /\ compaction'.start = compaction.start
      /\ compaction.deletes = {}
      /\ UNCHANGED <<now, indexBlobs, compactionLogs, load, superseded, nextCompaction>>
      /\ Logs' = Logs /\ Blobs' = Blobs
  BY DEF DelayCleanupBlobs, Inv, TypeInv, CompactionRecord, Logs, Blobs
<1>b. \A l \in compactionLogs, b \in indexBlobs : l.id \in compaction.old /\ b.id \in l.inputs => ~Exists(b)
  BY <1>0 DEF Inv, DeletesComplete
<1>1. RunTimed'
  BY <1>0 DEF RunTimed
<1>2. LoadTimed' /\ BlobsTimed'
  BY <1>0 DEF LoadTimed, BlobsTimed
<1>4. NamesApart'
  BY <1>0 DEF NamesApart
<1>5. OutputsStored'
  BY <1>0 DEF OutputsStored, Stored
<1>7. CleanupLater'
  <2> SUFFICES ASSUME NEW x \in cleanupBlobs', NEW l \in compactionLogs, l.id \in x.logs
               PROVE  /\ \A b \in indexBlobs : b.id \in l.inputs => ~Exists(b) /\ b.gone <= x.schedule + CompactionDuration
                      /\ \A b \in load.blobs : b.id \in l.inputs =>
                           load.start < x.schedule + CompactionDuration + StorageSettleTime
    BY <1>0 DEF CleanupLater
  <2>1. CASE x \in cleanupBlobs
    BY <2>1 DEF CleanupLater
  <2>2. CASE x.logs = compaction.old /\ x.schedule = compaction.at
    <3>1. now <= compaction.at + CompactionDuration
      BY <1>0, Numbers, Durations DEF RunTimed
    <3>2. \A b \in indexBlobs : b.id \in l.inputs => ~Exists(b) /\ b.gone <= now /\ b.gone \in Nat
      BY <1>b, <2>2, Numbers DEF BlobsTimed
    <3> QED BY <2>2, <3>1, <3>2, Numbers, Constants, Durations
  <2> QED BY <1>a, <2>1, <2>2
<1>8. LogsStored' /\ GoneMarked' /\ LoadSees'
  BY <1>0 DEF LogsStored, GoneMarked, LoadSees, ByID
<1>9. CleanupTimed'
  BY <1>0, Numbers DEF CleanupTimed, DelayCleanupBlobs
<1> QED BY <1>1, <1>2, <1>4, <1>5, <1>7, <1>8, <1>9

\* Logs are deleted when no input is seen or listed any more.
LEMMA CleanupTidy == ASSUME Inv, Tidy, RunsSettle, Cleanup
                     PROVE  Tidy'
<1> USE DEF Tidy
<1>z. PICK blobs \in OwnListings(cleanupBlobs, cleanupBlobs) :
        LET due == Due({b \in blobs : Exists(b)})
            logs == UNION {b.logs : b \in due}
        IN  \/ /\ compactionLogs' = DeleteBlobs(compactionLogs, logs)
               /\ cleanupBlobs' = DeleteBlobs(cleanupBlobs, ByID(due))
               /\ UNCHANGED counters
            \/ /\ counters.faults < MaxFaults
               /\ \E some \in SUBSET (logs \cap ByID({l \in compactionLogs : Exists(l)})) \ {{}} :
                    compactionLogs' = DeleteBlobs(compactionLogs, some)
               /\ counters' = [counters EXCEPT !.faults = @ + 1]
               /\ UNCHANGED cleanupBlobs
  BY DEF Cleanup
<1> DEFINE due == Due({b \in blobs : Exists(b)})
           logs == UNION {b.logs : b \in due}
<1>y. /\ due \subseteq cleanupBlobs
      /\ \A x \in due : \E y \in cleanupBlobs : y.at - x.schedule >= MaxEventualConsistencySettleTime
  BY DEF Due, OwnListings, Listings, Listable
<1>x. PICK ids : /\ ids \subseteq logs
                 /\ compactionLogs' = DeleteBlobs(compactionLogs, ids)
                 /\ cleanupBlobs' = cleanupBlobs \/ cleanupBlobs' = DeleteBlobs(cleanupBlobs, ByID(due))
  BY <1>z
<1>0. /\ compaction'.pc = "idle" /\ compaction.pc = "cleanup"
      /\ UNCHANGED <<now, indexBlobs, load, superseded, nextCompaction>> /\ Blobs' = Blobs
  BY DEF Cleanup, Blobs, IdleCompaction
<1>a. \A x \in cleanupBlobs' : \E y \in cleanupBlobs : y.logs = x.logs /\ y.schedule = x.schedule
  BY <1>x, DeleteCleanupFacts, Numbers DEF Inv, TypeInv
<1>b. /\ \A d \in compactionLogs' : \E l \in compactionLogs :
           /\ l.id = d.id /\ l.inputs = d.inputs /\ l.outputs = d.outputs /\ l.at = d.at
           /\ Exists(d) => d = l
           /\ ~Exists(d) => ~Exists(l) \/ d.id \in ids
      /\ \A l \in compactionLogs : Exists(l) /\ l.id \notin ids => l \in compactionLogs'
  BY <1>x, DeleteLogsFacts, Numbers DEF Inv, TypeInv
\* Storage has forgotten the inputs, and no load that has listed one is still under way.
<1>c. ASSUME NEW l \in compactionLogs, l.id \in ids, NEW b \in Blobs, b.id \in l.inputs
      PROVE  FALSE
  <2>1. PICK x \in cleanupBlobs : l.id \in x.logs /\ x.schedule + MaxEventualConsistencySettleTime <= now
    <3>1. PICK x \in due : l.id \in x.logs
      BY <1>c, <1>x
    <3>2. PICK y \in cleanupBlobs : y.at - x.schedule >= MaxEventualConsistencySettleTime
      BY <1>y, <3>1
    <3>3. y.at <= now
      BY DEF CleanupTimed
    <3> QED BY <1>y, <3>1, <3>2, <3>3, Numbers, Constants
  <2>2. CASE b \in indexBlobs
    <3>1. ~Exists(b) /\ b.gone <= x.schedule + CompactionDuration
      BY <1>c, <2>1, <2>2 DEF CleanupLater
    <3>2. now < b.gone + StorageSettleTime /\ b.gone \in Nat /\ x.schedule \in Nat
      BY <2>2, <3>1, Numbers DEF BlobsTimed
    <3> QED BY <2>1, <3>1, <3>2, Numbers, Constants, Durations
  <2>3. CASE b \in load.blobs
    <3>1. load.start < x.schedule + CompactionDuration + StorageSettleTime
      BY <1>c, <2>1, <2>3 DEF CleanupLater
    <3>2. now <= load.start + LoadDuration
      BY <2>3 DEF LoadTimed
    <3> QED BY <2>1, <3>1, <3>2, Numbers, Constants, Durations
  <2> QED BY <2>2, <2>3 DEF Blobs
<1>d. \A l \in compactionLogs, b \in Blobs : b.id \in l.inputs => l \in compactionLogs' /\ Exists(l)
  BY <1>b, <1>c DEF LogsStored
<1>1. RunTimed'
  BY <1>b, <1>0 DEF RunTimed
<1>2. LoadTimed' /\ BlobsTimed'
  BY <1>0 DEF LoadTimed, BlobsTimed
<1>3. NamesApart'
  BY <1>b, <1>0 DEF NamesApart, Logs
<1>5. OutputsStored'
  BY <1>b, <1>0 DEF OutputsStored, Stored
<1>7. LogsStored'
  BY <1>b, <1>c, <1>0 DEF LogsStored
<1>8. CleanupLater'
  BY <1>a, <1>b, <1>0 DEF CleanupLater
<1>9. GoneMarked'
  BY <1>d, <1>0 DEF GoneMarked
<1>10. LoadSees'
  <2>1. \A l \in compactionLogs' : Exists(l) => l \in compactionLogs
    BY <1>b
  <2>2. \A l \in compactionLogs', b \in load.blobs : b.id \in l.inputs => \E k \in compactionLogs :
          b.id \in k.inputs /\ k.outputs = l.outputs /\ k.at = l.at
    BY <1>b
  <2> QED BY <1>0, <2>1, <2>2 DEF LoadSees, ByID
<1>11. CleanupTimed'
  <2>1. \A x \in cleanupBlobs' : \E y \in cleanupBlobs : y.at = x.at
    BY <1>x, DeleteCleanupFacts, Numbers DEF Inv, TypeInv
  <2> QED BY <1>0, <2>1 DEF CleanupTimed
<1> QED BY <1>1, <1>2, <1>3, <1>5, <1>7, <1>8, <1>9, <1>10, <1>11

\* A load lists index blobs: with an input it lists the outputs of every log that had settled.
LEMMA ListIndexBlobsTidy == ASSUME Inv, Tidy, ListIndexBlobs
                            PROVE  Tidy'
<1> USE DEF Tidy
<1>a. PICK blobs \in Listings(indexBlobs) :
        load' = [load EXCEPT !.blobs = blobs, !.listed = @ \cup {"blobs"},
                             !.start = IF load.listed = {} THEN now ELSE @]
  BY DEF ListIndexBlobs
<1>b. blobs \subseteq indexBlobs /\ \A b \in indexBlobs : Settled(b) => b \in blobs
  BY DEF Listings, Listable
<1>c. /\ load'.blobs = blobs /\ load'.logs = load.logs /\ load'.listed = load.listed \cup {"blobs"}
      /\ load'.start = IF load.listed = {} THEN now ELSE load.start
      /\ "blobs" \notin load.listed
  BY <1>a DEF ListIndexBlobs, Inv, TypeInv, LoadRecord
<1>0. /\ UNCHANGED <<now, indexBlobs, compactionLogs, cleanupBlobs, compaction, superseded, nextCompaction>>
      /\ Logs' = Logs /\ Blobs' \subseteq Blobs
  BY <1>b, <1>c DEF ListIndexBlobs, storage, Blobs, Logs
<1>d. load'.start \in Nat /\ load'.start <= now /\ (load.listed # {} => load'.start = load.start)
  BY <1>c, Numbers
<1>e. load.listed = {} => load.logs = {}
  BY DEF LoadTimed
<1>1. RunTimed' /\ BlobsTimed' /\ CleanupTimed'
  BY <1>0 DEF RunTimed, BlobsTimed, CleanupTimed
<1>2. LoadTimed'
  <2>1. now <= load'.start + LoadDuration
    BY <1>c, Numbers, Durations DEF LoadTimed
  <2>2. \A l \in load.logs : l.at <= load'.start + LoadDuration
    BY <1>d, <1>e DEF LoadTimed
  <2> QED BY <1>c, <1>0, <2>1, <2>2 DEF LoadTimed
<1>3. NamesApart'
  BY <1>0 DEF NamesApart
<1>4. OutputsStored'
  BY <1>0 DEF OutputsStored, Stored
<1>6. LogsStored' /\ GoneMarked'
  BY <1>0 DEF LogsStored, GoneMarked
<1>7. CleanupLater'
  <2> SUFFICES ASSUME NEW x \in cleanupBlobs, NEW l \in compactionLogs, l.id \in x.logs, NEW b \in blobs, b.id \in l.inputs
               PROVE  load'.start < x.schedule + CompactionDuration + StorageSettleTime
    BY <1>c, <1>0 DEF CleanupLater
  <2>1. b \in indexBlobs /\ ~Exists(b) /\ b.gone <= x.schedule + CompactionDuration
    BY <1>b DEF CleanupLater
  <2>2. now < b.gone + StorageSettleTime /\ b.gone \in Nat /\ x.schedule \in Nat
    BY <2>1, Numbers DEF BlobsTimed
  <2> QED BY <1>d, <2>1, <2>2, Numbers, Constants, Durations
<1>8. LoadSees'
  <2>1. "logs" \in load'.listed => "logs" \in load.listed /\ load'.start = load.start
    BY <1>c, <1>d
  <2>2. ASSUME NEW l \in compactionLogs, NEW b \in blobs, b.id \in l.inputs,
               l.at + StorageSettleTime <= load'.start, NEW o \in l.outputs
        PROVE  o \in ByID(blobs)
    <3>1. PICK d \in indexBlobs : d.id = o /\ Exists(d) /\ d.at <= l.at
      BY <1>b, <2>2 DEF OutputsStored, Stored
    <3>2. Settled(d)
      BY <1>d, <2>2, <3>1, Numbers, Constants DEF Settled
    <3> QED BY <1>b, <3>1, <3>2 DEF ByID
  <2>3. \A l \in compactionLogs, b \in blobs :
          b.id \in l.inputs /\ l.at + StorageSettleTime <= load'.start => l.outputs \subseteq ByID(blobs)
    BY <2>2
  <2> QED BY <1>c, <1>0, <2>1, <2>3 DEF LoadSees, ByID
<1> QED BY <1>1, <1>2, <1>3, <1>4, <1>6, <1>7, <1>8

\* A load lists compaction logs: all that have settled.
LEMMA ListCompactionLogsTidy == ASSUME Inv, Tidy, ListCompactionLogs
                                PROVE  Tidy'
<1> USE DEF Tidy
<1>a. PICK logs \in Listings(compactionLogs) :
        load' = [load EXCEPT !.logs = logs, !.listed = @ \cup {"logs"},
                             !.start = IF load.listed = {} THEN now ELSE @]
  BY DEF ListCompactionLogs
<1>b. logs \subseteq compactionLogs /\ \A l \in compactionLogs : Settled(l) => l \in logs
  BY DEF Listings, Listable
<1>c. /\ load'.blobs = load.blobs /\ load'.logs = logs /\ load'.listed = load.listed \cup {"logs"}
      /\ load'.start = IF load.listed = {} THEN now ELSE load.start
  BY <1>a DEF ListCompactionLogs, Inv, TypeInv, LoadRecord
<1>0. /\ UNCHANGED <<now, indexBlobs, compactionLogs, cleanupBlobs, compaction, superseded, nextCompaction>>
      /\ Logs' \subseteq Logs /\ Blobs' = Blobs
  BY <1>b, <1>c DEF ListCompactionLogs, storage, Blobs, Logs
<1>d. load'.start \in Nat /\ load'.start <= now /\ (load.listed # {} => load'.start = load.start)
  BY <1>c, Numbers
<1>e. load.listed = {} => load.blobs = {}
  BY DEF LoadTimed
<1>1. RunTimed' /\ BlobsTimed' /\ CleanupTimed'
  BY <1>0 DEF RunTimed, BlobsTimed, CleanupTimed
<1>2. LoadTimed'
  <2>1. now <= load'.start + LoadDuration
    BY <1>c, Numbers, Durations DEF LoadTimed
  <2>2. \A l \in logs : l.at <= load'.start + LoadDuration
    BY <1>b, <1>d, <2>1, Numbers, Durations DEF RunTimed
  <2> QED BY <1>c, <1>0, <2>1, <2>2 DEF LoadTimed
<1>3. NamesApart'
  BY <1>0 DEF NamesApart
<1>4. OutputsStored'
  BY <1>0 DEF OutputsStored, Stored
<1>6. LogsStored' /\ GoneMarked'
  BY <1>0 DEF LogsStored, GoneMarked
<1>7. CleanupLater'
  BY <1>c, <1>d, <1>e, <1>0 DEF CleanupLater
<1>8. LoadSees'
  <2>1. \A l \in compactionLogs : Exists(l) /\ l.at + StorageSettleTime <= load'.start => l \in logs
    BY <1>b, <1>d, Numbers, Constants DEF Settled
  <2>2. \A l \in compactionLogs, b \in load.blobs :
          b.id \in l.inputs /\ l.at + StorageSettleTime <= load'.start => l.outputs \subseteq ByID(load.blobs)
    BY <1>d, <1>e DEF LoadSees
  <2> QED BY <1>c, <1>0, <2>1, <2>2 DEF LoadSees, ByID
<1> QED BY <1>1, <1>2, <1>3, <1>4, <1>6, <1>7, <1>8

\* A load ends.
LEMMA UseIndexBlobsTidy == ASSUME Inv, Tidy, UseIndexBlobs
                           PROVE  Tidy'
<1> USE DEF Tidy
<1>0. /\ UNCHANGED <<now, indexBlobs, compactionLogs, cleanupBlobs, compaction, superseded, nextCompaction>>
      /\ Logs' \subseteq Logs /\ Blobs' \subseteq Blobs
      /\ load'.listed = {} /\ load'.blobs = {} /\ load'.logs = {}
  BY DEF UseIndexBlobs, storage, Blobs, Logs, IdleLoad
<1>1. RunTimed' /\ BlobsTimed' /\ CleanupTimed'
  BY <1>0 DEF RunTimed, BlobsTimed, CleanupTimed
<1>2. LoadTimed'
  BY <1>0 DEF LoadTimed
<1>3. NamesApart'
  BY <1>0 DEF NamesApart
<1>4. OutputsStored'
  BY <1>0 DEF OutputsStored, Stored
<1>6. LogsStored' /\ GoneMarked'
  BY <1>0 DEF LogsStored, GoneMarked
<1>7. CleanupLater' /\ LoadSees'
  BY <1>0 DEF CleanupLater, LoadSees
<1> QED BY <1>1, <1>2, <1>3, <1>4, <1>6, <1>7

\* Time passes, within the durations of a run and of a load.
LEMMA TickTidy == ASSUME Inv, Tidy, Tick
                  PROVE  Tidy'
<1> USE DEF Tidy
<1>0. /\ UNCHANGED <<compaction, load, superseded, nextCompaction>> /\ now' = now + 1 /\ now' \in Nat
      /\ \A b \in indexBlobs' : b \in indexBlobs /\ (Exists(b) \/ b.gone + StorageSettleTime > now')
      /\ \A b \in indexBlobs : Exists(b) => b \in indexBlobs'
      /\ \A l \in compactionLogs' : l \in compactionLogs
      /\ \A l \in compactionLogs : Exists(l) => l \in compactionLogs'
      /\ \A x \in cleanupBlobs' : x \in cleanupBlobs
  BY Numbers DEF Tick
<1>a. Logs' \subseteq Logs /\ Blobs' \subseteq Blobs
  BY <1>0 DEF Logs, Blobs
<1>1. RunTimed'
  <2>1. compaction.pc # "idle" => now' <= compaction.start + CompactionDuration
    BY Numbers, Durations DEF Tick
  <2> QED BY <1>0, <2>1, Numbers DEF RunTimed
<1>2. LoadTimed'
  <2>1. load.listed # {} => now' <= load.start + LoadDuration
    BY Numbers, Durations DEF Tick
  <2> QED BY <1>0, <2>1 DEF LoadTimed
<1>3. BlobsTimed' /\ CleanupTimed'
  BY <1>0, Numbers, Constants DEF BlobsTimed, CleanupTimed
<1>4. NamesApart'
  BY <1>0, <1>a DEF NamesApart
<1>5. OutputsStored'
  <2>1. \A i, at : Stored(i, at) => \E d \in indexBlobs' : d.id = i /\ Exists(d) /\ d.at <= at
    BY <1>0 DEF Stored
  <2>2. \A i : Stored(i, now) => \E d \in indexBlobs' : d.id = i /\ Exists(d) /\ d.at <= now'
    <3> TAKE i
    <3> HAVE Stored(i, now)
    <3>1. PICK d \in indexBlobs : d.id = i /\ Exists(d) /\ d.at <= now
      BY DEF Stored
    <3>2. d.at \in Nat /\ d.at <= now'
      BY <1>0, <3>1, Numbers
    <3> QED BY <1>0, <3>1, <3>2
  <2> QED BY <1>0, <2>1, <2>2 DEF OutputsStored, Stored
<1>7. LogsStored'
  BY <1>0, <1>a DEF LogsStored
<1>8. CleanupLater'
  BY <1>0 DEF CleanupLater
<1>9. GoneMarked'
  <2>1. \A l \in compactionLogs, b \in Blobs : b.id \in l.inputs => l \in compactionLogs'
    BY <1>0 DEF LogsStored
  <2> QED BY <1>0, <1>a, <2>1 DEF GoneMarked
<1>10. LoadSees'
  BY <1>0 DEF LoadSees, ByID
<1> QED BY <1>1, <1>2, <1>3, <1>4, <1>5, <1>7, <1>8, <1>9, <1>10

\* A client stores a blob that no log names.
LEMMA WriteIndexBlobsTidy == ASSUME Inv, Tidy, NEW c \in Contents, NEW deleted \in BOOLEAN, WriteIndexBlobs(c, deleted)
                             PROVE  Tidy'
<1> USE DEF Tidy
<1>z. PICK new, put, entry : Adds(c, new, put, entry)
  BY WriteFacts
<1>a. /\ indexBlobs' = indexBlobs \cup {new} /\ new.id = nextID /\ new.at = now /\ Exists(new) /\ new.own = FALSE
      /\ new.entries[c] = entry /\ now <= entry.ts /\ \A d \in Contents : d # c => new.entries[d] = Nil
  BY <1>z DEF Adds
<1>0. /\ UNCHANGED <<now, compactionLogs, cleanupBlobs, compaction, load, superseded, nextCompaction>>
      /\ Logs' = Logs /\ Blobs' = Blobs \cup {new}
  BY <1>a DEF WriteIndexBlobs, Blobs, Logs
<1>b. /\ \A l \in compactionLogs : new.id \notin l.inputs /\ new.id \notin l.outputs
      /\ new.id \notin compaction.outputs
  BY <1>a, Numbers DEF Inv, NamesUsed, Logs
<1>1. RunTimed' /\ LoadTimed' /\ CleanupTimed'
  BY <1>0 DEF RunTimed, LoadTimed, CleanupTimed
<1>2. BlobsTimed'
  <2>1. ~new.own /\ \A d \in Contents : new.entries[d] # Nil => new.at <= new.entries[d].ts
    BY <1>a
  <2> QED BY <1>a, <1>0, <2>1 DEF BlobsTimed
<1>3. NamesApart'
  BY <1>0 DEF NamesApart
<1>4. OutputsStored'
  BY <1>a, <1>b, <1>0 DEF OutputsStored, Stored
<1>6. LogsStored' /\ CleanupLater'
  BY <1>a, <1>b, <1>0 DEF LogsStored, CleanupLater
<1>7. GoneMarked'
  BY <1>a, <1>0 DEF GoneMarked
<1>8. LoadSees'
  BY <1>0 DEF LoadSees, ByID
<1> QED BY <1>1, <1>2, <1>3, <1>4, <1>6, <1>7, <1>8

\* A compaction starts when the logs of the one before it are old, and stores a new blob.
LEMMA CompactIndexBlobsTidy == ASSUME Inv, Tidy, RunsSettle, NEW drop \in BOOLEAN, CompactIndexBlobs(drop)
                               PROVE  Tidy'
<1> USE DEF Tidy
<1>p. PICK inputs, out, entries, outputs : Stores(drop, inputs, out, entries, outputs)
  BY CompactFacts
<1>a. /\ indexBlobs' = indexBlobs \cup (IF outputs = {} THEN {} ELSE {out}) /\ outputs \in {{}, {nextID}}
      /\ out.id = nextID /\ out.at = now /\ Exists(out) /\ out.own = TRUE /\ inputs \subseteq indexBlobs
  BY <1>p DEF Stores
<1>0. /\ UNCHANGED <<now, compactionLogs, cleanupBlobs, load, superseded>> /\ Logs' = Logs
      /\ compaction'.pc = "register" /\ compaction'.start = now /\ compaction'.inputs = ByID(inputs)
      /\ compaction'.outputs = outputs /\ compaction.pc = "idle"
      /\ nextCompaction' = now + CompactionInterval /\ nextCompaction <= now
  BY <1>p, Numbers DEF CompactIndexBlobs, Stores, Logs
<1>b. /\ \A l \in compactionLogs : nextID \notin l.inputs /\ nextID \notin l.outputs
      /\ nextID \notin superseded /\ nextID \notin ByID(inputs)
  BY <1>a, Numbers DEF Inv, NamesUsed, Logs, Blobs, ByID
<1>c. /\ \A b \in indexBlobs' : b \in indexBlobs \/ (b = out /\ outputs = {nextID})
      /\ indexBlobs \subseteq indexBlobs' /\ (outputs # {} => out \in indexBlobs')
      /\ \A b \in Blobs' : b \in Blobs \/ (b = out /\ out \in indexBlobs')
  BY <1>a, <1>0 DEF Blobs
<1>1. RunTimed'
  BY <1>0, Numbers, Constants, Durations DEF RunTimed
<1>2. LoadTimed' /\ CleanupTimed'
  BY <1>0 DEF LoadTimed, CleanupTimed
<1>3. BlobsTimed'
  <2> SUFFICES ASSUME NEW b \in indexBlobs'
               PROVE  /\ ~Exists(b) => b.gone <= now /\ now < b.gone + StorageSettleTime
                      /\ b.own => b.at + Gap <= nextCompaction'
                      /\ ~b.own => \A c \in Contents : b.entries[c] # Nil => b.at <= b.entries[c].ts
    BY <1>0 DEF BlobsTimed
  <2>1. CASE b \in indexBlobs
    BY <1>0, <2>1, Numbers, Constants, Durations DEF BlobsTimed
  <2>2. CASE b = out
    BY <1>a, <1>0, <2>2, Numbers, Constants, Durations DEF RunsSettle
  <2> QED BY <1>c, <2>1, <2>2
<1>4. NamesApart'
  BY <1>a, <1>b, <1>0 DEF NamesApart
<1>5. OutputsStored'
  <2>1. \A i \in outputs : \E d \in indexBlobs' : d.id = i /\ Exists(d) /\ d.at <= now
    BY <1>a, <1>c, Numbers
  <2>2. \A l \in compactionLogs, b \in indexBlobs' : b.id \in l.inputs => b \in indexBlobs
    BY <1>a, <1>b, <1>c
  <2> QED BY <1>c, <1>0, <2>1, <2>2 DEF OutputsStored, Stored
<1>7. LogsStored'
  BY <1>a, <1>b, <1>c, <1>0 DEF LogsStored
<1>8. CleanupLater'
  BY <1>a, <1>b, <1>c, <1>0 DEF CleanupLater
<1>9. GoneMarked'
  BY <1>a, <1>c, <1>0 DEF GoneMarked
<1>10. LoadSees'
  BY <1>0 DEF LoadSees, ByID
<1> QED BY <1>1, <1>2, <1>3, <1>4, <1>5, <1>7, <1>8, <1>9, <1>10

\* The empty repository is tidy.
LEMMA InitTidy == Init => Tidy
<1> SUFFICES ASSUME Init PROVE Tidy
  OBVIOUS
<1>1. /\ now = 0 /\ indexBlobs = {} /\ compactionLogs = {} /\ cleanupBlobs = {} /\ superseded = {}
      /\ compaction.pc = "idle" /\ load.listed = {} /\ load.blobs = {} /\ load.logs = {}
  BY DEF Init, IdleCompaction, IdleLoad
<1>2. Blobs = {} /\ Logs = {}
  BY <1>1 DEF Blobs, Logs
<1>3. RunTimed /\ LoadTimed /\ BlobsTimed /\ CleanupTimed /\ NamesApart
  BY <1>1, <1>2 DEF RunTimed, LoadTimed, BlobsTimed, CleanupTimed, NamesApart
<1>4. OutputsStored /\ LogsStored /\ CleanupLater /\ GoneMarked /\ LoadSees
  BY <1>1, <1>2 DEF OutputsStored, LogsStored, CleanupLater, GoneMarked, LoadSees
<1> QED BY <1>3, <1>4 DEF Tidy
----------------------------------------------------------------------------
(* Deletions *)

\* Steps after which no content has an entry in another place and every mark still counts.
Keeps ==
  /\ LastDeleted' = LastDeleted /\ now <= now' /\ now' \in Nat
  /\ \A d \in Blobs' : \E b \in Blobs : b.id = d.id /\ b.entries = d.entries
  /\ \A d \in Blobs', l \in compactionLogs : d.id \in l.inputs =>
       \E k \in compactionLogs' : d.id \in k.inputs /\ k.at = l.at

\* A mark stays, and counts as one of a later time.
LEMMA MarksKept == ASSUME Inv, Keeps, NEW d \in Blobs', NEW b \in Blobs, b.id = d.id,
                          NEW at \in Int, NEW later \in Int, at <= later, Marked(b, at)
                   PROVE  Marked(d, later)'
<1>1. PICK l \in compactionLogs : b.id \in l.inputs /\ l.at <= at
  BY DEF Marked
<1>2. PICK k \in compactionLogs' : d.id \in k.inputs /\ k.at = l.at
  BY <1>1 DEF Keeps
<1>3. k.at <= later
  BY <1>1, <1>2, Numbers
<1> QED BY <1>2, <1>3 DEF Marked

\* So a compaction that passed a deletion on, or dropped it, still did.
LEMMA ReplacedKept == ASSUME Inv, Keeps, NEW w \in LastDeleted, NEW x, NEW at \in Nat
                      PROVE  /\ Passed(x, w) => Passed(x, w)'
                             /\ Dropping(x, at, w) => Dropping(x, at, w)'
                             /\ Forgotten(w) => Forgotten(w)'
<1>0. \A d \in Blobs' : \E b \in Blobs : b.id = d.id /\ b.entries = d.entries
  BY DEF Keeps
<1>1. Passed(x, w) => Passed(x, w)'
  BY <1>0 DEF Passed, Holds
<1>2. ASSUME Dropping(x, at, w) PROVE Dropping(x, at, w)'
  <2> SUFFICES ASSUME NEW d \in Blobs', Has(d, w), d.id \notin x.inputs
               PROVE  Marked(d, at - Gap)'
    BY DEF Dropping, Has
  <2>1. PICK b \in Blobs : b.id = d.id /\ b.entries = d.entries
    BY <1>0
  <2>2. Marked(b, at - Gap)
    BY <1>2, <2>1 DEF Dropping, Has
  <2>3. PICK t \in Int : t = at - Gap
    BY Durations
  <2>4. Marked(d, t)'
    BY <2>1, <2>2, <2>3, MarksKept
  <2> QED BY <2>3, <2>4
<1>3. ASSUME Forgotten(w) PROVE Forgotten(w)'
  <2> SUFFICES ASSUME NEW d \in Blobs', Has(d, w)
               PROVE  \E l \in compactionLogs' : d.id \in l.inputs /\ l.at <= now' - Gap
    BY DEF Forgotten, Has, Marked
  <2>1. PICK b \in Blobs : b.id = d.id /\ b.entries = d.entries
    BY <1>0
  <2>2. PICK l \in compactionLogs : b.id \in l.inputs /\ l.at <= now - Gap
    BY <1>3, <2>1 DEF Forgotten, Has, Marked
  <2>3. PICK k \in compactionLogs' : d.id \in k.inputs /\ k.at = l.at
    BY <2>1, <2>2 DEF Keeps
  <2>4. k.at <= now' - Gap
    BY <2>2, <2>3, Numbers, Constants, Durations DEF Keeps
  <2> QED BY <2>3, <2>4
<1> QED BY <1>1, <1>2, <1>3

\* The steps of a compaction that adds no log, of a load and of time.
LEMMA DeletionsReplacedKept ==
  ASSUME Inv, DeletionsReplaced, Keeps,
         \A d \in Logs' : \E l \in Logs : l.inputs = d.inputs /\ l.outputs = d.outputs /\ l.at = d.at,
         compaction'.pc = "register" => compaction' = compaction
  PROVE  DeletionsReplaced'
<1> SUFFICES ASSUME NEW w \in LastDeleted
             PROVE  /\ \A d \in Logs' : Passed(d, w)' \/ Dropping(d, d.at, w)'
                    /\ compaction'.pc = "register" => Passed(compaction, w)' \/ Dropping(compaction, compaction.start, w)'
  BY DEF DeletionsReplaced, Keeps
<1>1. ASSUME NEW d \in Logs' PROVE Passed(d, w)' \/ Dropping(d, d.at, w)'
  <2>1. PICK l \in Logs : l.inputs = d.inputs /\ l.outputs = d.outputs /\ l.at = d.at
    OBVIOUS
  <2>2. Passed(l, w) \/ Dropping(l, l.at, w)
    BY DEF DeletionsReplaced
  <2>3. Passed(l, w)' \/ Dropping(l, l.at, w)'
    BY <2>2, Numbers, ReplacedKept
  <2> QED BY <2>1, <2>3 DEF Passed, Dropping
<1>2. ASSUME compaction'.pc = "register"
      PROVE  Passed(compaction, w)' \/ Dropping(compaction, compaction.start, w)'
  <2>1. PICK x : x = compaction
    OBVIOUS
  <2>2. x.start \in Nat /\ compaction' = x /\ x.pc = "register"
    BY <1>2, <2>1, Numbers
  <2>3. Passed(x, w) \/ Dropping(x, x.start, w)
    BY <2>1, <2>2 DEF DeletionsReplaced
  <2>4. Passed(x, w)' \/ Dropping(x, x.start, w)'
    BY <2>2, <2>3, ReplacedKept
  <2> QED BY <2>2, <2>4 DEF Passed, Dropping
<1> QED BY <1>1, <1>2

\* A deletion that is held stays held when nothing is deleted.
LEMMA DeletionsHeldKept ==
  ASSUME Inv, DeletionsHeld, Keeps, \A b \in indexBlobs : Exists(b) => b \in indexBlobs'
  PROVE  DeletionsHeld'
<1> SUFFICES ASSUME NEW w \in LastDeleted
             PROVE  \/ \E b \in indexBlobs' : Exists(b) /\ Holds(b, w) /\ (b.at <= w.at \/ b.at + StorageSettleTime <= now')
                    \/ Forgotten(w)'
  BY DEF DeletionsHeld, Keeps, Holds
<1>1. CASE Forgotten(w)
  BY <1>1, ReplacedKept
<1>2. CASE \E b \in indexBlobs : Exists(b) /\ Holds(b, w) /\ (b.at <= w.at \/ b.at + StorageSettleTime <= now)
  <2>1. PICK b \in indexBlobs : Exists(b) /\ Holds(b, w) /\ (b.at <= w.at \/ b.at + StorageSettleTime <= now)
    BY <1>2
  <2>2. b.at <= w.at \/ b.at + StorageSettleTime <= now'
    BY <2>1, Numbers, Constants DEF Keeps
  <2> QED BY <2>1, <2>2
<1> QED BY <1>1, <1>2 DEF DeletionsHeld

\* A load keeps what it has.
LEMMA DeletionsListedKept == ASSUME Inv, DeletionsListed, Keeps, load' = load
                             PROVE  DeletionsListed'
<1> SUFFICES ASSUME NEW w \in LastDeleted, "blobs" \in load.listed, w.at + StorageSettleTime <= load.start,
                    ~\E b \in load.blobs : Holds(b, w), NEW d \in load.blobs, Has(d, w)
             PROVE  Marked(d, load.start - StorageSettleTime)'
  BY DEF DeletionsListed, Keeps, Holds, Has, SettledAtStart
<1>1. Marked(d, load.start - StorageSettleTime)
  BY DEF DeletionsListed, SettledAtStart
<1>2. PICK t \in Int : t = load.start - StorageSettleTime
  BY Numbers, Constants
<1>3. d \in Blobs /\ d \in Blobs'
  BY DEF Blobs
<1>4. Marked(d, t) /\ t <= t
  BY <1>1, <1>2
<1>5. Marked(d, t)'
  BY <1>3, <1>4, MarksKept
<1> QED BY <1>2, <1>5 DEF Marked

\* The steps that leave the blobs and logs alone.
LEMMA QuietDeletions == ASSUME Inv, Deletions, NothingToCompact \/ FindIndexBlobsToDelete \/ DelayCleanupBlobs \/ CompactionStops
                        PROVE  Deletions'
<1>1. /\ UNCHANGED <<now, indexBlobs, compactionLogs, load, written>> /\ compaction'.pc # "register"
      /\ Blobs' = Blobs /\ Logs' = Logs
  <2>1. CASE CompactionStops
    BY <2>1 DEF CompactionStops, storage, IdleCompaction, Blobs, Logs
  <2>2. CASE NothingToCompact \/ FindIndexBlobsToDelete \/ DelayCleanupBlobs
    BY <2>2 DEF NothingToCompact, FindIndexBlobsToDelete, DelayCleanupBlobs, storage, IdleCompaction, Blobs, Logs,
       Inv, TypeInv, CompactionRecord
  <2> QED BY <2>1, <2>2
<1>2. Keeps
  BY <1>1, Numbers DEF Keeps, LastDeleted, Last
<1> QED BY <1>1, <1>2, DeletionsReplacedKept, DeletionsHeldKept, DeletionsListedKept DEF Deletions

\* Logs that are deleted have no input any more.
LEMMA CleanupDeletions == ASSUME Inv, Tidy, Tidy', Deletions, Cleanup
                          PROVE  Deletions'
<1>1. /\ UNCHANGED <<now, indexBlobs, load, written>> /\ compaction'.pc = "idle" /\ Blobs' = Blobs
  BY DEF Cleanup, Blobs, IdleCompaction
<1>2. PICK ids : compactionLogs' = DeleteBlobs(compactionLogs, ids)
  BY DEF Cleanup
<1>3. /\ \A d \in compactionLogs' : \E l \in compactionLogs : l.inputs = d.inputs /\ l.outputs = d.outputs /\ l.at = d.at
      /\ \A l \in compactionLogs : \E d \in compactionLogs' : l.inputs = d.inputs /\ l.at = d.at
  <2>1. \A d \in compactionLogs' : \E l \in compactionLogs : l.inputs = d.inputs /\ l.outputs = d.outputs /\ l.at = d.at
    BY <1>2, Numbers, DeleteLogsFacts DEF Inv, TypeInv
  <2>2. ASSUME NEW l \in compactionLogs PROVE \E d \in compactionLogs' : l.inputs = d.inputs /\ l.at = d.at
    <3>1. CASE l.id \in ids /\ Exists(l)
      <4>1. [l EXCEPT !.gone = now] \in compactionLogs'
        BY <1>2, <3>1 DEF DeleteBlobs
      <4>2. [l EXCEPT !.gone = now].inputs = l.inputs /\ [l EXCEPT !.gone = now].at = l.at
        BY DEF Inv, TypeInv, CompactionLog
      <4> QED BY <4>1, <4>2
    <3>2. CASE ~(l.id \in ids /\ Exists(l))
      BY <1>2, <3>2 DEF DeleteBlobs
    <3> QED BY <3>1, <3>2
  <2> QED BY <2>1, <2>2
<1>4. \A d \in Logs' : \E l \in Logs : l.inputs = d.inputs /\ l.outputs = d.outputs /\ l.at = d.at
  BY <1>1, <1>3 DEF Logs
<1>5. Keeps
  BY <1>1, <1>3, Numbers DEF Keeps, LastDeleted, Last
<1> QED BY <1>1, <1>4, <1>5, DeletionsReplacedKept, DeletionsHeldKept, DeletionsListedKept DEF Deletions

\* Time passes: logs whose inputs are seen are not forgotten.
LEMMA TickDeletions == ASSUME Inv, Tidy, Deletions, Tick
                       PROVE  Deletions'
<1>1. /\ UNCHANGED <<load, written, compaction>> /\ now' = now + 1
      /\ \A b \in indexBlobs' : b \in indexBlobs
      /\ \A b \in indexBlobs : Exists(b) => b \in indexBlobs'
      /\ \A l \in compactionLogs' : l \in compactionLogs
      /\ \A l \in compactionLogs : Exists(l) => l \in compactionLogs'
  BY DEF Tick
<1>2. Blobs' \subseteq Blobs /\ Logs' \subseteq Logs
  BY <1>1 DEF Blobs, Logs
<1>3. \A d \in Blobs', l \in compactionLogs : d.id \in l.inputs => l \in compactionLogs'
  BY <1>1, <1>2 DEF Tidy, LogsStored
<1>4. now <= now' /\ now' \in Nat /\ LastDeleted' = LastDeleted
  BY <1>1, Numbers DEF LastDeleted, Last
<1>5. Keeps
  BY <1>2, <1>3, <1>4 DEF Keeps
<1> QED BY <1>1, <1>2, <1>5, DeletionsReplacedKept, DeletionsHeldKept, DeletionsListedKept DEF Deletions

\* A load that lists logs or ends.
LEMMA LogsDeletions == ASSUME Inv, Tidy, Deletions, ListCompactionLogs \/ UseIndexBlobs
                       PROVE  Deletions'
<1>1. /\ UNCHANGED <<now, indexBlobs, compactionLogs, compaction, written>>
      /\ load'.blobs \subseteq load.blobs /\ load'.logs \subseteq Logs
      /\ "blobs" \in load'.listed => "blobs" \in load.listed /\ load'.blobs = load.blobs /\ load'.start = load.start
  <2>1. CASE UseIndexBlobs
    BY <2>1 DEF UseIndexBlobs, storage, IdleLoad
  <2>2. CASE ListCompactionLogs
    <3>1. PICK logs \in Listings(compactionLogs) :
            load' = [load EXCEPT !.logs = logs, !.listed = @ \cup {"logs"},
                                 !.start = IF load.listed = {} THEN now ELSE @]
      BY <2>2 DEF ListCompactionLogs
    <3>2. /\ load'.blobs = load.blobs /\ load'.logs = logs /\ load'.listed = load.listed \cup {"logs"}
          /\ load'.start = IF load.listed = {} THEN now ELSE load.start
      BY <3>1 DEF Inv, TypeInv, LoadRecord
    <3>3. logs \subseteq Logs
      BY DEF Listings, Listable, Logs
    <3> QED BY <2>2, <3>2, <3>3 DEF ListCompactionLogs, storage
  <2> QED BY <2>1, <2>2
<1>2. Blobs' \subseteq Blobs /\ Logs' \subseteq Logs
  BY <1>1 DEF Blobs, Logs
<1>3. Keeps
  BY <1>1, <1>2, Numbers DEF Keeps, LastDeleted, Last
<1>4. DeletionsListed'
  BY <1>1 DEF Deletions, DeletionsListed, LastDeleted, Last, SettledAtStart, Holds, Has, Marked
<1> QED BY <1>1, <1>2, <1>3, <1>4, DeletionsReplacedKept, DeletionsHeldKept DEF Deletions

\* A load that lists index blobs has the deletion, or everything else of its content is marked.
LEMMA ListDeletions == ASSUME Inv, Tidy, Tidy', Deletions, ListIndexBlobs
                       PROVE  Deletions'
<1>a. PICK blobs \in Listings(indexBlobs) :
        load' = [load EXCEPT !.blobs = blobs, !.listed = @ \cup {"blobs"},
                             !.start = IF load.listed = {} THEN now ELSE @]
  BY DEF ListIndexBlobs
<1>b. blobs \subseteq indexBlobs /\ \A b \in indexBlobs : Settled(b) => b \in blobs
  BY DEF Listings, Listable
<1>c. /\ load'.blobs = blobs /\ load'.logs = load.logs /\ load'.listed # {}
      /\ load'.start \in {now, load.start}
  BY <1>a DEF Inv, TypeInv, LoadRecord
<1>1. UNCHANGED <<now, indexBlobs, compactionLogs, compaction, written>>
  BY DEF ListIndexBlobs, storage
<1>2. Blobs' \subseteq Blobs /\ Logs' = Logs
  BY <1>1, <1>b, <1>c DEF Blobs, Logs
<1>3. Keeps
  BY <1>1, <1>2, Numbers DEF Keeps, LastDeleted, Last
<1>4. load'.start \in Nat /\ load'.start <= now /\ now <= load'.start + LoadDuration
  BY <1>c, <1>1, Numbers DEF Tidy, LoadTimed
<1>5. DeletionsListed'
  <2> SUFFICES ASSUME NEW w \in LastDeleted, w.at + StorageSettleTime <= load'.start
               PROVE  \/ \E b \in blobs : Holds(b, w)
                      \/ \A b \in blobs : Has(b, w) =>
                           \E l \in compactionLogs : b.id \in l.inputs /\ l.at <= load'.start - StorageSettleTime
    BY <1>c, <1>1 DEF DeletionsListed, LastDeleted, Last, SettledAtStart, Holds, Has, Marked
  <2>1. CASE Forgotten(w)
    <3>1. ASSUME NEW b \in blobs, Has(b, w)
          PROVE  \E l \in compactionLogs : b.id \in l.inputs /\ l.at <= load'.start - StorageSettleTime
      <4>1. PICK l \in compactionLogs : b.id \in l.inputs /\ l.at <= now - Gap
        BY <1>b, <2>1, <3>1 DEF Forgotten, Marked, Blobs
      <4>2. l.at <= load'.start - StorageSettleTime
        BY <1>4, <4>1, Numbers, Constants, Durations
      <4> QED BY <4>1, <4>2
    <3> QED BY <3>1
  <2>2. CASE \E b \in indexBlobs : Exists(b) /\ Holds(b, w) /\ (b.at <= w.at \/ b.at + StorageSettleTime <= now)
    <3>1. PICK b \in indexBlobs : Exists(b) /\ Holds(b, w) /\ (b.at <= w.at \/ b.at + StorageSettleTime <= now)
      BY <2>2
    <3>2. w.at \in Nat /\ b.at \in Nat
      BY Numbers DEF LastDeleted
    <3>3. Settled(b)
      BY <1>4, <3>1, <3>2, Numbers, Constants DEF Settled
    <3> QED BY <1>b, <3>1, <3>3
  <2> QED BY <2>1, <2>2 DEF Deletions, DeletionsHeld
<1> QED BY <1>1, <1>2, <1>3, <1>5, DeletionsReplacedKept, DeletionsHeldKept DEF Deletions

\* A compaction is registered as it was prepared.
LEMMA RegisterDeletions == ASSUME Inv, Tidy, Deletions, RegisterCompaction
                           PROVE  Deletions'
<1> DEFINE new == [id |-> nextID, inputs |-> compaction.inputs, outputs |-> compaction.outputs, at |-> now, gone |-> Nil]
<1>a. PICK log : /\ compactionLogs' = compactionLogs \cup {log} /\ Logs' = Logs \cup {log}
                 /\ log.inputs = compaction.inputs /\ log.outputs = compaction.outputs /\ log.at = now
  <2>1. /\ compactionLogs' = compactionLogs \cup {new} /\ Logs' = Logs \cup {new}
        /\ new.inputs = compaction.inputs /\ new.outputs = compaction.outputs /\ new.at = now
    BY DEF RegisterCompaction, Logs
  <2> HIDE DEF new
  <2> QED BY <2>1
<1>1. /\ UNCHANGED <<now, indexBlobs, load, written>> /\ compaction'.pc # "register" /\ compaction.pc = "register"
      /\ Blobs' = Blobs /\ LastDeleted' = LastDeleted
  BY DEF RegisterCompaction, Inv, TypeInv, CompactionRecord, Blobs, LastDeleted, Last
<1>2. Keeps
  BY <1>a, <1>1, Numbers DEF Keeps
<1>3. DeletionsReplaced'
  <2> SUFFICES ASSUME NEW w \in LastDeleted, NEW l \in Logs'
               PROVE  Passed(l, w)' \/ Dropping(l, l.at, w)'
    BY <1>1 DEF DeletionsReplaced
  <2>1. CASE l \in Logs
    <3>1. Passed(l, w) \/ Dropping(l, l.at, w)
      BY <2>1 DEF Deletions, DeletionsReplaced
    <3> QED BY <1>2, <2>1, <3>1, Numbers, ReplacedKept
  <2>2. CASE l = log
    <3>1. CASE Passed(compaction, w)
      BY <1>a, <1>1, <2>2, <3>1 DEF Passed, Holds
    <3>2. CASE Dropping(compaction, compaction.start, w)
      <4> SUFFICES ASSUME NEW b \in Blobs, Has(b, w), b.id \notin compaction.inputs
                   PROVE  \E k \in compactionLogs' : b.id \in k.inputs /\ k.at <= now - Gap
        BY <1>a, <1>1, <2>2 DEF Dropping, Has, Marked
      <4>1. PICK k \in compactionLogs : b.id \in k.inputs /\ k.at <= compaction.start - Gap
        BY <3>2 DEF Dropping, Marked
      <4>2. k.at <= now - Gap
        BY <1>1, <4>1, Numbers, Constants, Durations DEF Tidy, RunTimed
      <4> QED BY <1>a, <4>1, <4>2
    <3> QED BY <1>1, <3>1, <3>2 DEF Deletions, DeletionsReplaced
  <2> QED BY <1>a, <2>1, <2>2
<1> QED BY <1>1, <1>2, <1>3, DeletionsHeldKept, DeletionsListedKept DEF Deletions

\* A blob with a deletion is deleted: its replacement is seen by everyone, or all is marked.
LEMMA DeleteDeletions == ASSUME Inv, Tidy, Deletions, DeleteIndexBlob
                         PROVE  Deletions'
<1>a. PICK i \in compaction.deletes : /\ indexBlobs' = DeleteBlobs(indexBlobs, {i})
                                      /\ compaction' = [compaction EXCEPT !.deletes = @ \ {i}]
  BY DEF DeleteIndexBlob
<1>0. /\ compaction'.pc # "register" /\ compaction.pc = "deleting" /\ i \in Nat
      /\ UNCHANGED <<now, compactionLogs, load, written>> /\ Logs' = Logs
  BY <1>a DEF DeleteIndexBlob, Inv, TypeInv, CompactionRecord, Logs
<1>b. /\ \A d \in indexBlobs' : \E b \in indexBlobs : b.id = d.id /\ b.entries = d.entries
      /\ \A b \in indexBlobs : Exists(b) /\ b.id # i => b \in indexBlobs'
  BY <1>a, Numbers, DeleteIndexBlobsFacts DEF Inv, TypeInv
<1>c. \A d \in Blobs' : \E b \in Blobs : b.id = d.id /\ b.entries = d.entries
  BY <1>b, <1>0 DEF Blobs
<1>1. Keeps
  <2>1. LastDeleted' = LastDeleted
    BY <1>0 DEF LastDeleted, Last
  <2> QED BY <1>c, <1>0, <2>1, Numbers DEF Keeps
<1>d. PICK l \in compactionLogs : i \in l.inputs /\ l.at + MaxEventualConsistencySettleTime <= compaction.at
  BY <1>0 DEF Inv, DeletesSettled
<1>2. DeletionsHeld'
  <2> SUFFICES ASSUME NEW w \in LastDeleted
               PROVE  \/ \E b \in indexBlobs' : Exists(b) /\ Holds(b, w) /\ (b.at <= w.at \/ b.at + StorageSettleTime <= now)
                      \/ Forgotten(w)'
    BY <1>0, <1>1 DEF DeletionsHeld, Keeps, Holds
  <2>1. CASE Forgotten(w)
    BY <1>1, <2>1, ReplacedKept
  <2>2. CASE \E b \in indexBlobs : Exists(b) /\ Holds(b, w) /\ (b.at <= w.at \/ b.at + StorageSettleTime <= now)
    <3>1. PICK b \in indexBlobs : Exists(b) /\ Holds(b, w) /\ (b.at <= w.at \/ b.at + StorageSettleTime <= now)
      BY <2>2
    <3>2. CASE b.id # i
      BY <1>b, <3>1, <3>2
    <3>3. CASE b.id = i /\ Passed(l, w)
      <4>1. l.outputs # {} /\ \A o \in Blobs : o.id \in l.outputs => Holds(o, w) /\ o.id > b.id
        BY <1>d, <3>1, <3>3 DEF Passed, Blobs
      <4>2. PICK o \in l.outputs : TRUE
        BY <4>1
      <4>3. PICK d \in indexBlobs : d.id = o /\ Exists(d) /\ d.at <= l.at
        BY <1>d, <3>1, <3>3 DEF Tidy, OutputsStored, Stored
      <4>4. Holds(d, w) /\ d.id > i
        BY <3>3, <4>1, <4>3 DEF Blobs
      <4>5. d \in indexBlobs'
        BY <1>b, <1>0, <4>3, <4>4, Numbers
      <4>6. d.at + StorageSettleTime <= now
        BY <1>d, <4>3, Numbers, Constants
      <4> QED BY <4>3, <4>4, <4>5, <4>6
    <3>4. CASE Dropping(l, l.at, w)
      <4>1. ASSUME NEW d \in Blobs, Has(d, w)
            PROVE  \E k \in compactionLogs : d.id \in k.inputs /\ k.at <= now - Gap
        <5>1. CASE d.id \in l.inputs
          BY <1>d, <5>1, Numbers, Constants, Durations
        <5>2. CASE Marked(d, l.at - Gap)
          <6>1. PICK k \in compactionLogs : d.id \in k.inputs /\ k.at <= l.at - Gap
            BY <5>2 DEF Marked
          <6>2. k.at <= now - Gap
            BY <1>d, <6>1, Numbers, Constants, Durations
          <6> QED BY <6>1, <6>2
        <5> QED BY <3>4, <4>1, <5>1, <5>2 DEF Dropping
      <4>2. Forgotten(w)
        BY <4>1 DEF Forgotten, Marked
      <4> QED BY <1>1, <4>2, ReplacedKept
    <3>5. Passed(l, w) \/ Dropping(l, l.at, w)
      BY DEF Deletions, DeletionsReplaced, Logs
    <3> QED BY <3>2, <3>3, <3>4, <3>5
  <2> QED BY <2>1, <2>2 DEF Deletions, DeletionsHeld
<1> QED BY <1>0, <1>1, <1>2, DeletionsReplacedKept, DeletionsListedKept DEF Deletions

\* A client stores an entry: a deletion of it is new, and those of other contents are not touched.
LEMMA WriteDeletions == ASSUME Inv, Tidy, Deletions, NEW c \in Contents, NEW deleted \in BOOLEAN, WriteIndexBlobs(c, deleted)
                        PROVE  Deletions'
<1>z. PICK new, put, entry : Adds(c, new, put, entry)
  BY WriteFacts
<1>a. /\ indexBlobs' = indexBlobs \cup {new} /\ new.id = nextID /\ new.at = now /\ Exists(new)
      /\ new.entries[c] = entry /\ \A d \in Contents : d # c => new.entries[d] = Nil
      /\ written' = written \cup {put} /\ put.content = c /\ put.entry = entry /\ put.at = now
      /\ entry \in Entry /\ \A w \in written : w.content = c => w.entry.ts < entry.ts
  BY <1>z DEF Adds
<1>0. /\ UNCHANGED <<now, compactionLogs, compaction, load>> /\ Logs' = Logs /\ Blobs' = Blobs \cup {new}
  BY <1>a DEF WriteIndexBlobs, Blobs, Logs
<1>b. /\ \A l \in Logs : nextID \notin l.inputs /\ nextID \notin l.outputs
      /\ nextID \notin compaction.inputs /\ nextID \notin compaction.outputs
  BY Numbers DEF Inv, NamesUsed
<1>c. ASSUME NEW w \in LastDeleted'
      PROVE  \/ w \in LastDeleted /\ ~Has(new, w) /\ ~Holds(new, w)
             \/ w.content = c /\ w.entry = entry /\ w.at = now /\ \A b \in Blobs : ~Holds(b, w)
  <2>1. CASE w \in written
    <3>1. w \in LastDeleted /\ w.content \in Contents /\ w.entry \in Entry /\ put.entry.ts \in Nat /\ w.entry.ts \in Nat
      BY <1>a, <2>1 DEF LastDeleted, Last, Inv, TypeInv, Entry
    <3>2. w.content # c
      BY <1>a, <2>1, <3>1 DEF LastDeleted, Last
    <3> QED BY <1>a, <3>1, <3>2, Constants DEF Has, Holds
  <2>2. CASE w \notin written
    <3>1. w.content = c /\ w.entry = entry /\ w.at = now
      BY <1>a, <2>2 DEF LastDeleted
    <3>2. ASSUME NEW b \in Blobs, b.entries[c] = entry PROVE FALSE
      <4>1. PICK v \in written : v.content = c /\ v.entry = entry
        BY <1>a, <3>2, Constants DEF Inv, EntriesWritten
      <4> QED BY <1>a, <4>1 DEF Entry
    <3> QED BY <3>1, <3>2 DEF Holds
  <2> QED BY <2>1, <2>2
<1>d. ASSUME NEW w \in LastDeleted', NEW x, nextID \notin x.inputs, nextID \notin x.outputs, NEW at,
             w \in LastDeleted => Passed(x, w) \/ Dropping(x, at, w)
      PROVE  Passed(x, w)' \/ Dropping(x, at, w)'
  <2>1. CASE w \notin LastDeleted
    <3>1. \A b \in Blobs' : b.id \in x.inputs => ~Holds(b, w)
      BY <1>a, <1>0, <1>c, <1>d, <2>1
    <3> QED BY <3>1 DEF Passed, Holds
  <2>2. CASE w \in LastDeleted /\ ~Has(new, w) /\ ~Holds(new, w) /\ Passed(x, w)
    BY <1>a, <1>0, <1>d, <2>2 DEF Passed, Holds
  <2>3. CASE w \in LastDeleted /\ ~Has(new, w) /\ Dropping(x, at, w)
    BY <1>0, <2>3 DEF Dropping, Has, Marked
  <2>4. w \in LastDeleted => ~Has(new, w) /\ ~Holds(new, w)
    <3>1. ASSUME w \in LastDeleted, w.content = c, w.entry = entry PROVE FALSE
      BY <1>a, <3>1 DEF LastDeleted, Entry
    <3> QED BY <1>c, <3>1
  <2> QED BY <1>d, <2>1, <2>2, <2>3, <2>4
<1>1. DeletionsReplaced'
  <2> SUFFICES ASSUME NEW w \in LastDeleted'
               PROVE  /\ \A l \in Logs : Passed(l, w)' \/ Dropping(l, l.at, w)'
                      /\ compaction'.pc = "register" => Passed(compaction, w)' \/ Dropping(compaction, compaction.start, w)'
    BY <1>0 DEF DeletionsReplaced
  <2>1. \A l \in Logs : w \in LastDeleted => Passed(l, w) \/ Dropping(l, l.at, w)
    BY DEF Deletions, DeletionsReplaced
  <2>2. \A l \in Logs : Passed(l, w)' \/ Dropping(l, l.at, w)'
    BY <1>b, <1>d, <2>1
  <2>3. PICK x : x = compaction
    OBVIOUS
  <2>4. x.pc = "register" /\ w \in LastDeleted => Passed(x, w) \/ Dropping(x, x.start, w)
    BY <2>3 DEF Deletions, DeletionsReplaced
  <2>5. x.pc = "register" => Passed(x, w)' \/ Dropping(x, x.start, w)'
    BY <1>b, <1>d, <2>3, <2>4
  <2>6. compaction' = x
    BY <1>0, <2>3
  <2> QED BY <2>2, <2>5, <2>6 DEF Passed, Dropping
<1>2. DeletionsHeld'
  <2> SUFFICES ASSUME NEW w \in LastDeleted'
               PROVE  \/ \E b \in indexBlobs' : Exists(b) /\ Holds(b, w) /\ (b.at <= w.at \/ b.at + StorageSettleTime <= now)
                      \/ Forgotten(w)'
    BY <1>0 DEF DeletionsHeld, Holds
  <2>1. CASE w \in LastDeleted /\ ~Has(new, w)
    <3>1. Forgotten(w) => Forgotten(w)'
      BY <1>0, <2>1 DEF Forgotten, Has, Marked
    <3> QED BY <1>a, <2>1, <3>1 DEF Deletions, DeletionsHeld
  <2>2. CASE w.content = c /\ w.entry = entry /\ w.at = now
    BY <1>a, <2>2, Numbers DEF Holds
  <2> QED BY <1>c, <2>1, <2>2
<1>3. DeletionsListed'
  <2> SUFFICES ASSUME NEW w \in LastDeleted', "blobs" \in load.listed, w.at + StorageSettleTime <= load.start
               PROVE  \/ \E b \in load.blobs : Holds(b, w)
                      \/ \A b \in load.blobs : Has(b, w) => Marked(b, load.start - StorageSettleTime)
    BY <1>0 DEF DeletionsListed, SettledAtStart, Holds, Has, Marked
  <2>1. w \in LastDeleted
    BY <1>c, Numbers, Constants
  <2> QED BY <2>1 DEF Deletions, DeletionsListed, SettledAtStart
<1> QED BY <1>1, <1>2, <1>3 DEF Deletions

\* When a compaction may start, no blob that it finds active is marked.
LEMMA ActiveUnmarked ==
  ASSUME Inv, Tidy, nextCompaction <= now, NEW blobs \in ListedIndexBlobs, NEW logs \in ListedLogs,
         NEW b \in RemoveCompactedIndexes(blobs, logs), NEW l \in compactionLogs
  PROVE  b.id \notin l.inputs
<1> SUFFICES ASSUME b.id \in l.inputs PROVE FALSE
  OBVIOUS
<1>1. /\ blobs \subseteq indexBlobs /\ \A d \in indexBlobs : Settled(d) => d \in blobs
      /\ \A k \in compactionLogs : Settled(k) => k \in logs
  BY DEF ListedIndexBlobs, ListedLogs, OwnListings, Listings, Listable
<1>2. b \in indexBlobs /\ \A k \in logs : k.outputs \subseteq ByID(blobs) => b.id \notin k.inputs
  BY <1>1 DEF RemoveCompactedIndexes
<1>3. Exists(l)
  BY <1>2 DEF Tidy, LogsStored, Blobs
<1>4. l.at \in Nat /\ l.at + Gap <= now
  BY Numbers, Constants, Durations DEF Tidy, RunTimed
<1>5. Settled(l)
  BY <1>3, <1>4, Numbers, Constants, Durations DEF Settled
<1>6. ASSUME NEW i \in l.outputs PROVE i \in ByID(blobs)
  <2>1. PICK d \in indexBlobs : d.id = i /\ Exists(d) /\ d.at <= l.at
    BY <1>2 DEF Tidy, OutputsStored, Stored
  <2>2. Settled(d)
    BY <1>4, <2>1, Numbers, Constants, Durations DEF Settled
  <2> QED BY <1>1, <2>1, <2>2 DEF ByID
<1> QED BY <1>1, <1>2, <1>5, <1>6

\* A compaction passes a deletion on, or takes all that has an entry of its content.
LEMMA CompactDeletions == ASSUME Inv, Tidy, Deletions, ScheduleSuffices, NEW drop \in BOOLEAN, CompactIndexBlobs(drop), lapses' = {}
                          PROVE  Deletions'
<1>y. PICK blobs \in ListedIndexBlobs, logs \in ListedLogs :
        \E inputs \in Inputs(RemoveCompactedIndexes(blobs, logs), drop) :
        \E out, entries, outputs : /\ Stores(drop, inputs, out, entries, outputs)
                                    /\ Leaves(RemoveCompactedIndexes(blobs, logs) \ inputs, inputs, entries)
  BY CompactFacts
<1>z. PICK inputs \in Inputs(RemoveCompactedIndexes(blobs, logs), drop) :
        \E out, entries, outputs : /\ Stores(drop, inputs, out, entries, outputs)
                                    /\ Leaves(RemoveCompactedIndexes(blobs, logs) \ inputs, inputs, entries)
  BY <1>y
<1>p. PICK out, entries, outputs : /\ Stores(drop, inputs, out, entries, outputs)
                                   /\ Leaves(RemoveCompactedIndexes(blobs, logs) \ inputs, inputs, entries)
  BY <1>z
<1>a. /\ indexBlobs' = indexBlobs \cup (IF outputs = {} THEN {} ELSE {out}) /\ outputs \in {{}, {nextID}}
      /\ out.id = nextID /\ out.at = now /\ Exists(out) /\ out.entries = entries
      /\ inputs \subseteq indexBlobs /\ inputs \in SUBSET IndexBlob
  BY <1>p DEF Stores
<1>0. /\ UNCHANGED <<now, compactionLogs, load, written>> /\ Logs' = Logs
      /\ compaction'.pc = "register" /\ compaction'.start = now /\ compaction'.inputs = ByID(inputs)
      /\ compaction'.outputs = outputs
      /\ nextCompaction <= now /\ LastDeleted' = LastDeleted
  BY <1>p, Numbers DEF CompactIndexBlobs, Stores, Logs, LastDeleted, Last
<1>b. /\ \A l \in Logs : nextID \notin l.inputs /\ nextID \notin l.outputs
      /\ nextID \notin superseded /\ nextID \notin ByID(inputs)
  BY <1>a, Numbers DEF Inv, NamesUsed, Logs, Blobs, ByID
<1>c. /\ \A b \in Blobs' : b \in Blobs \/ (b = out /\ outputs = {nextID})
      /\ Blobs \subseteq Blobs' /\ indexBlobs \subseteq indexBlobs' /\ inputs \subseteq Blobs
      /\ \A b \in Blobs : b.id < nextID /\ b.id \in Nat /\ b.id # nextID
  BY <1>a, <1>0, Numbers DEF Blobs, Inv, NamesUsed
<1>d. inputs \subseteq RemoveCompactedIndexes(blobs, logs)
  BY DEF Inputs
<1>l. \A c \in Contents : entries[c] # Merge(inputs)[c] =>
        \A b \in RemoveCompactedIndexes(blobs, logs) \ inputs : b.entries[c] = Nil
  BY <1>p DEF Leaves, LeavesEntry
<1>e. \A b \in inputs, l \in compactionLogs : b.id \notin l.inputs
  BY <1>d, <1>0, ActiveUnmarked
<1>f. ASSUME NEW b \in inputs PROVE b.id \notin superseded /\ \A at : ~Marked(b, at)
  <2>1. b \in indexBlobs /\ Exists(b)
    BY <1>a, <1>c, <1>e DEF Tidy, GoneMarked
  <2> QED BY <1>e, <2>1 DEF Inv, ReplacedStaysMarked, Marked
<1>g. \A w \in LastDeleted : Has(out, w) => \E b \in inputs : Has(b, w)
  <2> SUFFICES ASSUME NEW w \in LastDeleted, entries[w.content] # Nil
               PROVE  \E b \in inputs : b.entries[w.content] # Nil
    BY <1>a DEF Has
  <2>1. w.content \in Contents
    BY DEF LastDeleted, Inv, TypeInv
  <2>2. entries[w.content] \in {Nil, Merge(inputs)[w.content]}
    BY <1>p, <2>1 DEF Stores
  <2>3. \E b \in inputs : b.entries[w.content] = Merge(inputs)[w.content]
    BY <1>p, <2>1, <2>2 DEF Stores
  <2> QED BY <2>2, <2>3
<1>1. ASSUME NEW w \in LastDeleted, NEW l \in Logs PROVE Passed(l, w)' \/ Dropping(l, l.at, w)'
  <2>1. CASE Passed(l, w)
    BY <1>a, <1>b, <1>c, <2>1 DEF Passed, Holds
  <2>2. CASE Dropping(l, l.at, w)
    <3>1. \A b \in inputs : ~Has(b, w)
      BY <1>c, <1>f, <2>2 DEF Dropping, Tidy, NamesApart
    <3>2. ~Has(out, w)
      BY <1>g, <3>1
    <3> QED BY <1>c, <1>0, <2>2, <3>2 DEF Dropping, Has, Marked
  <2> QED BY <2>1, <2>2 DEF Deletions, DeletionsReplaced
<1>2. ASSUME NEW w \in LastDeleted
      PROVE  \/ \A b \in Blobs' : b.id \in ByID(inputs) /\ Holds(b, w) =>
                  outputs # {} /\ \A o \in Blobs' : o.id \in outputs => Holds(o, w) /\ o.id > b.id
             \/ \A b \in Blobs' : Has(b, w) => b.id \in ByID(inputs) \/ Marked(b, now - Gap)
  <2>1. /\ w \in written /\ w.content \in Contents /\ w.entry \in Entry /\ w.entry # Nil
        /\ \A v \in written : v.content = w.content => v.entry.ts <= w.entry.ts
    BY Constants DEF LastDeleted, Last, Inv, TypeInv
  <2> SUFFICES ASSUME NEW b \in Blobs', b.id \in ByID(inputs), Holds(b, w)
               PROVE  \/ outputs = {nextID} /\ Holds(out, w)
                      \/ \A x \in Blobs' : Has(x, w) => x.id \in ByID(inputs) \/ Marked(x, now - Gap)
    <3>1. \A x \in Blobs' : x.id \in ByID(inputs) => x \in Blobs
      BY <1>a, <1>b, <1>c
    <3>2. \A x \in Blobs' : x.id = nextID => x = out
      BY <1>c
    <3> QED BY <1>c, <3>1, <3>2, Numbers
  <2>2. PICK d \in inputs : d.id = b.id
    BY DEF ByID
  <2>3. d.entries[w.content] = w.entry
    BY <1>a, <1>b, <1>c, <2>2 DEF Inv, NamesUnique, Holds
  <2> DEFINE e == Merge(inputs)[w.content]
  <2>4. e # Nil /\ (e = w.entry \/ Newer(e, w.entry))
    BY <1>p, <2>1, <2>2, <2>3 DEF Stores
  <2>5. PICK x \in inputs : x.entries[w.content] = e
    BY <1>p, <2>1, <2>4 DEF Stores
  <2>6. PICK v \in written : v.content = w.content /\ v.entry = e
    BY <1>p, <2>1, <2>4, <2>5 DEF Stores
  <2>7. e = w.entry
    <3>1. e.ts <= w.entry.ts /\ e \in Entry
      BY <2>1, <2>6 DEF Inv, TypeInv
    <3>2. Newer(e, w.entry) => e.ts = w.entry.ts
      BY <2>1, <3>1 DEF Newer, Entry
    <3>3. e.ts = w.entry.ts => e = w.entry
      BY <2>1, <2>6 DEF Inv, EntriesWritten
    <3> QED BY <2>4, <3>2, <3>3
  <2>8. /\ entries[w.content] \in {Nil, w.entry}
        /\ entries[w.content] # w.entry => drop /\ w.entry.ts < now - DropDeletedAge
    BY <1>p, <2>1, <2>4, <2>7 DEF Stores
  <2>9. CASE entries[w.content] = w.entry
    <3>1. entries # NoEntries
      BY <2>1, <2>9 DEF NoEntries
    <3> QED BY <1>a, <1>p, <2>9, <3>1 DEF Holds, Stores
  <2>10. CASE entries[w.content] # w.entry
    <3> SUFFICES ASSUME NEW y \in Blobs', Has(y, w), ~Marked(y, now - Gap)
                 PROVE  y.id \in ByID(inputs)
      OBVIOUS
    <3>1. y \in Blobs
      BY <1>a, <1>c, <2>8, <2>10 DEF Has
    <3>2. \A l \in compactionLogs : y.id \notin l.inputs
      <4> SUFFICES ASSUME NEW l \in compactionLogs, y.id \in l.inputs PROVE FALSE
        OBVIOUS
      <4>1. l.at <= now - Gap
        BY <1>0, Numbers, Constants, Durations DEF Tidy, RunTimed
      <4> QED BY <4>1 DEF Marked
    <3>3. y \in indexBlobs /\ Exists(y)
      BY <3>1, <3>2 DEF Tidy, GoneMarked
    <3>4. y.at + StorageSettleTime <= now
      <4>1. CASE y.own
        BY <1>0, <3>3, <4>1, Numbers, Constants, Durations DEF Tidy, BlobsTimed
      <4>2. CASE ~y.own
        <5>1. y.at <= y.entries[w.content].ts
          BY <2>1, <3>3, <4>2 DEF Tidy, BlobsTimed, Has
        <5>2. PICK u \in written : u.content = w.content /\ u.entry = y.entries[w.content]
          BY <2>1, <3>1 DEF Inv, EntriesWritten, Has
        <5>3. u.entry.ts <= w.entry.ts /\ u.entry.ts \in Nat /\ w.entry.ts \in Nat
          BY <2>1, <5>2, Numbers
        <5> QED BY <2>8, <2>10, <3>3, <5>1, <5>2, <5>3, Numbers, Constants, Durations DEF ScheduleSuffices
      <4> QED BY <4>1, <4>2
    <3>5. y \in blobs
      BY <3>3, <3>4 DEF Settled, ListedIndexBlobs, OwnListings, Listings
    <3>6. logs \subseteq compactionLogs
      BY DEF ListedLogs, OwnListings, Listings, Listable
    <3>7. y \in RemoveCompactedIndexes(blobs, logs)
      BY <3>2, <3>5, <3>6 DEF RemoveCompactedIndexes
    <3>8. y \in inputs
      BY <1>l, <2>1, <2>7, <2>10, <3>7 DEF Has
    <3> QED BY <3>8 DEF ByID
  <2> QED BY <2>9, <2>10
<1>3. DeletionsReplaced'
  <2> SUFFICES ASSUME NEW w \in LastDeleted
               PROVE  Passed(compaction, w)' \/ Dropping(compaction, compaction.start, w)'
    BY <1>1, <1>0 DEF DeletionsReplaced
  <2> QED BY <1>2, <1>0 DEF Passed, Dropping, Has, Holds, Marked
<1>4. DeletionsHeld'
  <2> SUFFICES ASSUME NEW w \in LastDeleted
               PROVE  \/ \E b \in indexBlobs' : Exists(b) /\ Holds(b, w) /\ (b.at <= w.at \/ b.at + StorageSettleTime <= now)
                      \/ Forgotten(w)'
    BY <1>0 DEF DeletionsHeld, Holds
  <2>1. CASE Forgotten(w)
    <3>1. \A b \in inputs : ~Has(b, w)
      BY <1>c, <1>f, <2>1 DEF Forgotten
    <3>2. ~Has(out, w)
      BY <1>g, <3>1
    <3> QED BY <1>c, <1>0, <2>1, <3>2 DEF Forgotten, Has, Marked
  <2> QED BY <1>c, <2>1 DEF Deletions, DeletionsHeld
<1>5. DeletionsListed'
  BY <1>0 DEF Deletions, DeletionsListed, SettledAtStart, Holds, Has, Marked
<1> QED BY <1>3, <1>4, <1>5 DEF Deletions

\* The empty repository has no deletions.
LEMMA InitDeletions == Init => Deletions
  BY DEF Init, IdleCompaction, IdleLoad, Deletions, DeletionsReplaced, DeletionsHeld, DeletionsListed, LastDeleted

\* A compaction dies.
LEMMA CompactionStopsTidy == ASSUME Inv, Tidy, CompactionStops
                             PROVE  Tidy'
<1> USE DEF Tidy
<1>0. /\ compaction'.pc = "idle"
      /\ UNCHANGED <<now, indexBlobs, compactionLogs, cleanupBlobs, load, superseded, nextCompaction>>
      /\ Blobs' = Blobs /\ Logs' = Logs
  BY DEF CompactionStops, storage, IdleCompaction, Blobs, Logs
<1>1. RunTimed' /\ LoadTimed' /\ BlobsTimed' /\ CleanupTimed'
  BY <1>0 DEF RunTimed, LoadTimed, BlobsTimed, CleanupTimed
<1>2. NamesApart' /\ OutputsStored'
  BY <1>0 DEF NamesApart, OutputsStored, Stored
<1>3. LogsStored' /\ CleanupLater' /\ GoneMarked' /\ LoadSees'
  BY <1>0 DEF LogsStored, CleanupLater, GoneMarked, LoadSees, ByID
<1> QED BY <1>1, <1>2, <1>3

\* Nothing happens.
LEMMA StutterTidy == ASSUME Tidy, UNCHANGED vars
                     PROVE  Tidy'
<1>1. /\ UNCHANGED <<now, indexBlobs, compactionLogs, cleanupBlobs, compaction, nextCompaction, load, superseded>>
      /\ Blobs' = Blobs /\ Logs' = Logs
  BY DEF vars, Blobs, Logs
<1> QED BY <1>1 DEF Tidy, RunTimed, LoadTimed, BlobsTimed, NamesApart, OutputsStored, Stored,
     LogsStored, CleanupLater, GoneMarked, LoadSees, CleanupTimed, ByID

\* As long as nothing was uncovered, all of this holds.
UnlessLapse == lapses = {} => Tidy /\ Deletions

\* Every step keeps it, or uncovers something.
LEMMA NextUnlessLapse == ASSUME Inv, UnlessLapse, ScheduleSuffices, [Next]_vars
                         PROVE  UnlessLapse'
<1> SUFFICES ASSUME lapses' = {} PROVE Tidy' /\ Deletions'
  BY DEF UnlessLapse
<1>2. lapses = {}
  <2>1. ASSUME NEW c \in Contents, NEW deleted \in BOOLEAN, WriteIndexBlobs(c, deleted) PROVE lapses = {}
    BY <2>1 DEF WriteIndexBlobs
  <2>2. ASSUME NEW drop \in BOOLEAN, CompactIndexBlobs(drop) PROVE lapses = {}
    BY <2>2, CompactFacts DEF Leaves
  <2>3. CASE DeleteIndexBlob
    BY <2>3 DEF DeleteIndexBlob
  <2>4. CASE NothingToCompact \/ RegisterCompaction \/ FindIndexBlobsToDelete \/ DelayCleanupBlobs \/ Cleanup
    BY <2>4 DEF NothingToCompact, RegisterCompaction, FindIndexBlobsToDelete, DelayCleanupBlobs, Cleanup
  <2>5. CASE CompactionStops \/ ListIndexBlobs \/ ListCompactionLogs \/ UseIndexBlobs \/ Tick \/ UNCHANGED vars
    BY <2>5 DEF CompactionStops, ListIndexBlobs, ListCompactionLogs, UseIndexBlobs, Tick, vars
  <2> QED BY <2>1, <2>2, <2>3, <2>4, <2>5 DEF Next
<1>3. Tidy /\ Deletions /\ RunsSettle /\ "outputFirst" \notin lapses'
  BY <1>2 DEF UnlessLapse, ScheduleSuffices
<1>4. ASSUME NEW c \in Contents, NEW deleted \in BOOLEAN, WriteIndexBlobs(c, deleted) PROVE Tidy' /\ Deletions'
  BY <1>3, <1>4, WriteIndexBlobsTidy, WriteDeletions
<1>5. ASSUME NEW drop \in BOOLEAN, CompactIndexBlobs(drop) PROVE Tidy' /\ Deletions'
  BY <1>3, <1>5, CompactIndexBlobsTidy, CompactDeletions
<1>6. CASE NothingToCompact \/ FindIndexBlobsToDelete \/ DelayCleanupBlobs \/ CompactionStops
  BY <1>3, <1>6, NothingToCompactTidy, FindIndexBlobsToDeleteTidy, DelayCleanupBlobsTidy, CompactionStopsTidy,
     QuietDeletions
<1>7. CASE RegisterCompaction
  BY <1>3, <1>7, RegisterCompactionTidy, RegisterDeletions
<1>8. CASE DeleteIndexBlob
  BY <1>3, <1>8, DeleteIndexBlobTidy, DeleteDeletions
<1>9. CASE Cleanup
  BY <1>3, <1>9, CleanupTidy, CleanupDeletions
<1>10. CASE ListIndexBlobs
  BY <1>3, <1>10, ListIndexBlobsTidy, ListDeletions
<1>11. CASE ListCompactionLogs \/ UseIndexBlobs
  BY <1>3, <1>11, ListCompactionLogsTidy, UseIndexBlobsTidy, LogsDeletions
<1>12. CASE Tick
  BY <1>3, <1>12, TickTidy, TickDeletions
<1>13. CASE UNCHANGED vars
  <2>1. UNCHANGED <<now, indexBlobs, compactionLogs, cleanupBlobs, compaction, nextCompaction, load, written, superseded>>
    BY <1>13 DEF vars
  <2>2. Blobs' = Blobs /\ Logs' = Logs /\ LastDeleted' = LastDeleted
    BY <2>1 DEF Blobs, Logs, LastDeleted, Last
  <2>3. Tidy'
    BY <1>3, <1>13, StutterTidy
  <2>4. Deletions'
    BY <1>3, <2>1, <2>2 DEF Deletions, DeletionsReplaced, DeletionsHeld, DeletionsListed, Passed, Dropping, Forgotten,
       Marked, Has, Holds, SettledAtStart
  <2> QED BY <2>3, <2>4
<1> QED BY <1>4, <1>5, <1>6, <1>7, <1>8, <1>9, <1>10, <1>11, <1>12, <1>13 DEF Next

\* A load leaves out every blob whose mark had settled when it began.
LEMMA SettledMarks ==
  ASSUME Inv, Tidy, AllListed, NEW missed, missed \subseteq {l \in load.logs : ~\E k \in compactionLogs : k.id = l.id /\ Exists(k)},
         NEW b \in load.blobs, Marked(b, load.start - StorageSettleTime)
  PROVE  b \notin RemoveCompactedIndexes(load.blobs, load.logs \ missed)
<1>1. PICK k \in compactionLogs : b.id \in k.inputs /\ k.at <= load.start - StorageSettleTime
  BY DEF Marked
<1>2. Exists(k)
  BY <1>1 DEF Tidy, LogsStored, Blobs
<1>3. k.at + StorageSettleTime <= load.start
  BY <1>1, Numbers, Constants
<1>4. k \in load.logs \ missed
  BY <1>2, <1>3 DEF Tidy, LoadSees, AllListed
<1>5. k.outputs \subseteq ByID(load.blobs)
  BY <1>1, <1>3 DEF Tidy, LoadSees
<1> QED BY <1>1, <1>4, <1>5 DEF RemoveCompactedIndexes

\* What a load uses has no entry of the content, or the deletion.
LEMMA DeletionsUsed ==
  ASSUME Inv, Tidy, Deletions, AllListed, NEW w \in LastDeleted, SettledAtStart(w), NEW missed,
         missed \subseteq {l \in load.logs : ~\E k \in compactionLogs : k.id = l.id /\ Exists(k)}
  PROVE  LET used == RemoveCompactedIndexes(load.blobs, load.logs \ missed)
         IN  (\A b \in used : ~Has(b, w)) \/ \E b \in used : Holds(b, w)
<1> DEFINE used == RemoveCompactedIndexes(load.blobs, load.logs \ missed)
           ids == {b.id : b \in {d \in load.blobs : Holds(d, w)}}
<1>0. used \subseteq load.blobs
  BY DEF RemoveCompactedIndexes
<1>1. \A b \in load.blobs : Marked(b, load.start - StorageSettleTime) => b \notin used
  BY SettledMarks
<1>2. CASE \A b \in load.blobs : Has(b, w) => Marked(b, load.start - StorageSettleTime)
  <2> HIDE DEF used
  <2> QED BY <1>0, <1>1, <1>2 DEF used
<1>3. CASE \E b \in load.blobs : Holds(b, w)
  <2>1. PICK b \in load.blobs : Holds(b, w)
    BY <1>3
  <2>2. ids \in SUBSET Nat /\ ids # {} /\ \A i \in ids : i <= nextID
    BY <2>1, Numbers DEF Inv, NamesUsed, Blobs
  <2>3. PICK i \in ids : \A j \in ids : j <= i
    BY <2>2, Numbers, GreatestNat
  <2>4. PICK d \in load.blobs : d.id = i /\ Holds(d, w)
    OBVIOUS
  <2>5. CASE d \in used
    BY <2>4, <2>5
  <2>6. CASE d \notin used
    <3>1. PICK l \in load.logs \ missed : l.outputs \subseteq ByID(load.blobs) /\ d.id \in l.inputs
      BY <2>6 DEF RemoveCompactedIndexes
    <3>2. ~Passed(l, w)
      <4> SUFFICES ASSUME Passed(l, w) PROVE FALSE
        OBVIOUS
      <4>1. l.outputs # {} /\ \A o \in Blobs : o.id \in l.outputs => Holds(o, w) /\ o.id > d.id
        BY <2>4, <3>1 DEF Passed, Blobs
      <4>2. PICK o \in load.blobs : o.id \in l.outputs
        BY <3>1, <4>1 DEF ByID
      <4>3. Holds(o, w) /\ o.id > i /\ o.id \in ids
        BY <2>4, <4>1, <4>2 DEF Blobs
      <4>4. i \in Nat /\ o.id \in Nat /\ o.id <= i
        BY <2>2, <2>3, <4>3
      <4> HIDE DEF ids
      <4> QED BY <4>3, <4>4
    <3>3. Dropping(l, l.at, w)
      BY <3>2 DEF Deletions, DeletionsReplaced, Logs
    <3>4. ASSUME NEW x \in used, Has(x, w) PROVE FALSE
      <4>1. x \in load.blobs /\ x.id \notin l.inputs
        BY <3>1 DEF RemoveCompactedIndexes
      <4>2. PICK k \in compactionLogs : x.id \in k.inputs /\ k.at <= l.at - Gap
        BY <3>3, <3>4, <4>1 DEF Dropping, Marked, Blobs
      <4>3. l.at <= load.start + LoadDuration /\ l.at \in Nat /\ k.at \in Nat
        BY <3>1, Numbers DEF Tidy, LoadTimed, Logs
      <4>4. k.at <= load.start - StorageSettleTime
        BY <4>2, <4>3, Numbers, Constants, Durations
      <4>5. Marked(x, load.start - StorageSettleTime)
        BY <4>2, <4>4 DEF Marked
      <4> HIDE DEF used
      <4> QED BY <1>1, <4>1, <4>5
    <3> QED BY <3>4
  <2> QED BY <2>5, <2>6
<1> QED BY <1>2, <1>3 DEF Deletions, DeletionsListed, AllListed

\* A content that was deleted is not found by a load that began when the deletion had settled: no
\* older index blob comes back after the deletion was dropped, whatever compactions die and deletes
\* fail, unless a compaction (compactIndexBlobs) dropped it from a part of the blobs that had
\* entries of the content, or deleteOldBlobs deleted an output before the inputs it replaced.
\* Compactions start no sooner than the time after which a log is in all listings.
THEOREM DeletedStayDeleted == ASSUME ScheduleSuffices
                              PROVE  Spec => []DeletedNotFoundUnlessLapse
<1>1. Init => UnlessLapse
  BY InitTidy, InitDeletions DEF UnlessLapse
<1>2. Inv /\ UnlessLapse /\ [Next]_vars => UnlessLapse'
  BY NextUnlessLapse
<1>3. Inv /\ UnlessLapse => DeletedNotFoundUnlessLapse
  <2> SUFFICES ASSUME Inv, Tidy, Deletions, AllListed, NEW index \in LoadedIndexes, NEW w \in written,
                      SettledAtStart(w), Last(w), w.entry.deleted
               PROVE  index[w.content] = Nil \/ index[w.content].deleted
    BY DEF UnlessLapse, DeletedNotFoundUnlessLapse, DeletedNotFound
  <2> USE DEF Inv
  <2>1. PICK missed \in SUBSET {l \in load.logs : ~\E k \in compactionLogs : k.id = l.id /\ Exists(k)} :
          index = Merge(RemoveCompactedIndexes(load.blobs, load.logs \ missed))
    BY DEF LoadedIndexes
  <2> DEFINE used == RemoveCompactedIndexes(load.blobs, load.logs \ missed)
             e == Merge(used)[w.content]
  <2>2. w \in LastDeleted /\ w.content \in Contents /\ w.entry \in Entry /\ w.entry # Nil
    BY Constants DEF LastDeleted, TypeInv
  <2>3. used \in SUBSET IndexBlob /\ used \subseteq load.blobs
    BY RecordFields DEF TypeInv, RemoveCompactedIndexes
  <2>4. (\A b \in used : ~Has(b, w)) \/ \E b \in used : Holds(b, w)
    BY <2>2, DeletionsUsed
  <2> HIDE DEF used
  <2>5. \A x \in used, c \in Contents : x.entries[c] # Nil =>
          /\ x.entries[c].ts <= now + counters.writes
          /\ \E v \in written : v.content = c /\ v.entry = x.entries[c]
    BY <2>3 DEF EntriesWritten, Clock, Blobs
  <2>6. now + counters.writes \in Nat
    BY RecordFields DEF TypeInv
  <2>7. /\ e # Nil => \E x \in used : x.entries[w.content] = e
        /\ e = Nil => \A x \in used : x.entries[w.content] = Nil
        /\ \A x \in used : x.entries[w.content] # Nil => e = x.entries[w.content] \/ Newer(e, x.entries[w.content])
    BY <2>2, <2>3, <2>5, <2>6, MergeNewest
  <2>8. CASE \A b \in used : ~Has(b, w)
    BY <2>1, <2>7, <2>8 DEF Has, used
  <2>9. CASE \E b \in used : Holds(b, w)
    <3>1. e # Nil /\ (e = w.entry \/ Newer(e, w.entry))
      BY <2>2, <2>7, <2>9 DEF Holds
    <3>2. PICK v \in written : v.content = w.content /\ v.entry = e
      BY <2>2, <2>5, <2>7, <3>1
    <3>3. e.ts <= w.entry.ts /\ e \in Entry
      BY <3>2 DEF TypeInv, Last
    <3>4. Newer(e, w.entry) => e.ts = w.entry.ts
      BY <2>2, <3>3 DEF Newer, Entry
    <3>5. e.ts = w.entry.ts => e = w.entry
      BY <3>2 DEF EntriesWritten
    <3>6. e = w.entry
      BY <3>1, <3>4, <3>5
    <3> QED BY <2>1, <3>6 DEF used
  <2> QED BY <2>4, <2>8, <2>9
<1> QED BY <1>1, <1>2, <1>3, Invariance, PTL DEF Spec
----------------------------------------------------------------------------
(* Outputs are deleted last, when runs are further apart and nothing fails *)

\* A compaction starts when the logs of the last one are old.
RunsApart == CompactionInterval >= MaxEventualConsistencySettleTime + CompactionDuration

\* The logs that there are when a compaction starts are old when it is registered; a log whose
\* output is an input of another is older than that by the settle time.
LogsOld == \A l \in compactionLogs :
  /\ l.at + MaxEventualConsistencySettleTime <= nextCompaction
  /\ compaction.pc = "register" => l.at + MaxEventualConsistencySettleTime <= compaction.start
Ordered == \A l, k \in compactionLogs :
  l.outputs \cap k.inputs # {} => l.at + MaxEventualConsistencySettleTime <= k.at

\* The inputs of a log are deleted in the run of the next.
InputsDeleted == \A l, k \in compactionLogs, b \in indexBlobs :
  b.id \in l.inputs /\ l.at + MaxEventualConsistencySettleTime <= k.at =>
    IF Exists(b)
    THEN /\ compaction.pc \in {"deleteOld", "deleting"} /\ compaction.at = k.at
         /\ compaction.pc = "deleting" => l.id \in compaction.old
    ELSE b.gone <= k.at + CompactionDuration
Sequenced == LogsOld /\ Ordered /\ InputsDeleted

\* The steps that add no log and delete no blob.
LEMMA SequencedKept ==
  ASSUME Inv, Sequenced, nextCompaction' \in Nat, nextCompaction <= nextCompaction', compaction'.start \in Nat,
         \A d \in compactionLogs' : \E l \in compactionLogs :
           l.id = d.id /\ l.inputs = d.inputs /\ l.outputs = d.outputs /\ l.at = d.at,
         \A b \in indexBlobs', l \in compactionLogs : b.id \in l.inputs => b \in indexBlobs,
         compaction'.pc = "register" => compaction' = compaction \/ nextCompaction <= compaction'.start,
         compaction.pc \in {"deleteOld", "deleting"} => compaction' = compaction
  PROVE  Sequenced'
<1> USE DEF Sequenced
<1>1. LogsOld'
  <2> SUFFICES ASSUME NEW d \in compactionLogs'
               PROVE  /\ d.at + MaxEventualConsistencySettleTime <= nextCompaction'
                      /\ compaction'.pc = "register" => d.at + MaxEventualConsistencySettleTime <= compaction'.start
    BY DEF LogsOld
  <2>1. PICK l \in compactionLogs : l.at = d.at
    OBVIOUS
  <2>2. d.at \in Nat /\ d.at + MaxEventualConsistencySettleTime <= nextCompaction /\ nextCompaction \in Nat
    BY <2>1, Numbers DEF LogsOld
  <2>3. compaction' = compaction /\ compaction'.pc = "register" => d.at + MaxEventualConsistencySettleTime <= compaction'.start
    BY <2>1 DEF LogsOld
  <2> QED BY <2>2, <2>3, Constants
<1>2. Ordered'
  <2> SUFFICES ASSUME NEW l \in compactionLogs', NEW k \in compactionLogs', l.outputs \cap k.inputs # {}
               PROVE  l.at + MaxEventualConsistencySettleTime <= k.at
    BY DEF Ordered
  <2>1. PICK m \in compactionLogs : m.outputs = l.outputs /\ m.at = l.at
    OBVIOUS
  <2>2. PICK n \in compactionLogs : n.inputs = k.inputs /\ n.at = k.at
    OBVIOUS
  <2> QED BY <2>1, <2>2 DEF Ordered
<1>3. InputsDeleted'
  <2> SUFFICES ASSUME NEW l \in compactionLogs', NEW k \in compactionLogs', NEW b \in indexBlobs',
                      b.id \in l.inputs, l.at + MaxEventualConsistencySettleTime <= k.at
               PROVE  IF Exists(b)
                      THEN /\ compaction'.pc \in {"deleteOld", "deleting"} /\ compaction'.at = k.at
                           /\ compaction'.pc = "deleting" => l.id \in compaction'.old
                      ELSE b.gone <= k.at + CompactionDuration
    BY DEF InputsDeleted
  <2>1. PICK m \in compactionLogs : m.id = l.id /\ m.inputs = l.inputs /\ m.at = l.at
    OBVIOUS
  <2>2. PICK n \in compactionLogs : n.at = k.at
    OBVIOUS
  <2>3. b \in indexBlobs
    BY <2>1
  <2> QED BY <2>1, <2>2, <2>3 DEF InputsDeleted
<1> QED BY <1>1, <1>2, <1>3

\* The log of a compaction is added when those before it are old.
LEMMA RegisterSequenced == ASSUME Inv, Tidy, Sequenced, RunsApart, RegisterCompaction
                           PROVE  Sequenced'
<1> USE DEF Tidy, Sequenced
<1> DEFINE log == [id |-> nextID, inputs |-> compaction.inputs, outputs |-> compaction.outputs, at |-> now, gone |-> Nil]
<1>a. /\ compactionLogs' = compactionLogs \cup {log}
      /\ log.id = nextID /\ log.inputs = compaction.inputs /\ log.outputs = compaction.outputs /\ log.at = now
  BY DEF RegisterCompaction
<1>0. /\ compaction'.pc = "deleteOld" /\ compaction'.start = compaction.start /\ compaction'.at = now
      /\ UNCHANGED <<now, indexBlobs, nextCompaction>> /\ compaction.pc = "register"
  BY DEF RegisterCompaction, Inv, TypeInv, CompactionRecord
<1> HIDE DEF log
<1>b. \A l \in compactionLogs : l.at + MaxEventualConsistencySettleTime <= now
  BY <1>0, Numbers, Constants DEF RunTimed, LogsOld
<1>1. LogsOld'
  BY <1>a, <1>0, Numbers, Constants, Durations DEF LogsOld, RunTimed, RunsApart
<1>2. Ordered'
  <2> SUFFICES ASSUME NEW l \in compactionLogs', NEW k \in compactionLogs', l.outputs \cap k.inputs # {}
               PROVE  l.at + MaxEventualConsistencySettleTime <= k.at
    BY DEF Ordered
  <2>1. CASE l \in compactionLogs /\ k \in compactionLogs
    BY <2>1 DEF Ordered
  <2>2. CASE l \in compactionLogs /\ k = log
    BY <1>a, <1>b, <2>2
  <2>3. CASE l = log
    BY <1>a, <1>0, <2>3, Numbers DEF NamesApart
  <2> QED BY <1>a, <2>1, <2>2, <2>3
<1>3. InputsDeleted'
  <2> SUFFICES ASSUME NEW l \in compactionLogs', NEW k \in compactionLogs', NEW b \in indexBlobs,
                      b.id \in l.inputs, l.at + MaxEventualConsistencySettleTime <= k.at
               PROVE  IF Exists(b) THEN k.at = now ELSE b.gone <= k.at + CompactionDuration
    BY <1>0 DEF InputsDeleted
  <2>1. CASE l \in compactionLogs /\ k \in compactionLogs
    BY <1>0, <2>1 DEF InputsDeleted
  <2>2. CASE k = log
    BY <1>a, <2>2, Numbers, Durations DEF BlobsTimed
  <2>3. CASE l = log
    BY <1>a, <1>b, <2>3, Numbers, Constants DEF RunTimed
  <2> QED BY <1>a, <2>1, <2>2, <2>3
<1> QED BY <1>1, <1>2, <1>3

\* All old logs are found: they are in all listings.
LEMMA FindSequenced == ASSUME Inv, Tidy, Sequenced, FindIndexBlobsToDelete
                       PROVE  Sequenced'
<1> USE DEF Tidy, Sequenced
<1>a. PICK logs \in ListedLogs :
        compaction' = [compaction EXCEPT !.pc = "deleting", !.old = ByID(OldLogs(logs)),
                         !.deletes = UNION {l.inputs : l \in {k \in OldLogs(logs) : Exists(k)}}]
  BY DEF FindIndexBlobsToDelete
<1>b. \A l \in compactionLogs : Settled(l) => l \in logs
  BY DEF ListedLogs, OwnListings, Listings
<1>0. /\ compaction'.pc = "deleting" /\ compaction'.old = ByID(OldLogs(logs))
      /\ compaction'.at = compaction.at /\ compaction.pc = "deleteOld"
      /\ UNCHANGED <<now, indexBlobs, compactionLogs, nextCompaction>>
  BY <1>a DEF FindIndexBlobsToDelete, Inv, TypeInv, CompactionRecord, storage
<1>1. LogsOld' /\ Ordered'
  BY <1>0 DEF LogsOld, Ordered
<1>2. InputsDeleted'
  <2> SUFFICES ASSUME NEW l \in compactionLogs, NEW k \in compactionLogs, NEW b \in indexBlobs,
                      b.id \in l.inputs, l.at + MaxEventualConsistencySettleTime <= k.at, Exists(b)
               PROVE  compaction.at = k.at /\ l.id \in compaction'.old
    BY <1>0 DEF InputsDeleted
  <2>1. compaction.at = k.at
    BY DEF InputsDeleted
  <2>2. Exists(l)
    BY DEF LogsStored, Blobs
  <2>3. Settled(l) /\ l.at <= compaction.at - MaxEventualConsistencySettleTime
    BY <2>1, <2>2, Numbers, Constants, Durations DEF Settled
  <2>4. l \in OldLogs(logs)
    BY <1>b, <2>3 DEF OldLogs
  <2> QED BY <1>0, <2>1, <2>4 DEF ByID
<1> QED BY <1>1, <1>2

\* An index blob is deleted: it is no output of a compaction of which an input is still seen.
LEMMA DeleteSequenced == ASSUME Inv, Tidy, Sequenced, DeleteIndexBlob
                         PROVE  Sequenced' /\ lapses' = lapses
<1> USE DEF Tidy, Sequenced
<1>a. PICK i \in compaction.deletes : /\ indexBlobs' = DeleteBlobs(indexBlobs, {i})
                                      /\ compaction' = [compaction EXCEPT !.deletes = @ \ {i}]
                                      /\ lapses' = lapses \cup (IF InputsSeen(i) THEN {"outputFirst"} ELSE {})
  BY DEF DeleteIndexBlob
<1>0. /\ compaction'.pc = "deleting" /\ compaction'.old = compaction.old /\ compaction.pc = "deleting"
      /\ compaction'.start = compaction.start /\ compaction'.at = compaction.at
      /\ UNCHANGED <<now, compactionLogs, nextCompaction>>
  BY <1>a DEF DeleteIndexBlob, Inv, TypeInv, CompactionRecord
<1>b. \A d \in indexBlobs' : \E b \in indexBlobs :
        /\ b.id = d.id
        /\ d = b \/ (d.id = i /\ Exists(b) /\ ~Exists(d) /\ d.gone = now)
  BY <1>a, IndexBlobAssumption DEF DeleteBlobs, Exists, Inv, TypeInv, IndexBlob
<1>d. PICK k \in compactionLogs : i \in k.inputs /\ k.at + MaxEventualConsistencySettleTime <= compaction.at
  BY <1>0 DEF Inv, DeletesSettled
<1>f. ASSUME NEW l \in compactionLogs, NEW b \in indexBlobs, b.id \in l.inputs
      PROVE  i \notin l.outputs
  <2> SUFFICES ASSUME i \in l.outputs PROVE FALSE
    OBVIOUS
  <2>1. l.at + MaxEventualConsistencySettleTime <= k.at
    BY <1>d DEF Ordered
  <2>2. CASE Exists(b)
    <3>1. compaction.at = k.at
      BY <1>f, <2>1, <2>2 DEF InputsDeleted
    <3> QED BY <1>d, <3>1, Numbers, Constants
  <2>3. CASE ~Exists(b)
    <3>1. b.gone <= k.at + CompactionDuration
      BY <1>f, <2>1, <2>3 DEF InputsDeleted
    <3>2. now < b.gone + StorageSettleTime
      BY <2>3 DEF BlobsTimed
    <3>3. b.gone \in Nat /\ k.at \in Nat
      BY <2>3, Numbers
    <3> QED BY <1>d, <3>1, <3>2, <3>3, Numbers, Constants, Durations
  <2> QED BY <2>2, <2>3
<1>1. lapses' = lapses
  BY <1>a, <1>f DEF InputsSeen
<1>2. LogsOld' /\ Ordered'
  BY <1>0 DEF LogsOld, Ordered
<1>3. InputsDeleted'
  <2> SUFFICES ASSUME NEW l \in compactionLogs, NEW m \in compactionLogs, NEW d \in indexBlobs',
                      d.id \in l.inputs, l.at + MaxEventualConsistencySettleTime <= m.at
               PROVE  IF Exists(d) THEN compaction.at = m.at /\ l.id \in compaction.old
                      ELSE d.gone <= m.at + CompactionDuration
    BY <1>0 DEF InputsDeleted
  <2>1. PICK b \in indexBlobs : /\ b.id = d.id
                                /\ d = b \/ (d.id = i /\ Exists(b) /\ ~Exists(d) /\ d.gone = now)
    BY <1>b
  <2>2. CASE d = b
    BY <1>0, <2>2 DEF InputsDeleted
  <2>3. CASE Exists(b) /\ ~Exists(d) /\ d.gone = now
    <3>1. compaction.at = m.at
      BY <2>1, <2>3 DEF InputsDeleted
    <3>2. now <= compaction.at + CompactionDuration
      BY <1>0, Numbers, Durations DEF RunTimed
    <3> QED BY <2>3, <3>1, <3>2
  <2> QED BY <2>1, <2>2, <2>3
<1> QED BY <1>1, <1>2, <1>3

\* The old logs are scheduled for deletion when all their inputs have been deleted.
LEMMA DelaySequenced == ASSUME Inv, Tidy, Sequenced, DelayCleanupBlobs
                        PROVE  Sequenced'
<1> USE DEF Sequenced
<1>0. /\ compaction'.pc = "cleanup" /\ compaction.pc = "deleting" /\ compaction.deletes = {}
      /\ UNCHANGED <<now, indexBlobs, compactionLogs, nextCompaction>>
  BY DEF DelayCleanupBlobs, Inv, TypeInv, CompactionRecord
<1>b. \A l \in compactionLogs, b \in indexBlobs : l.id \in compaction.old /\ b.id \in l.inputs => ~Exists(b)
  BY <1>0 DEF Inv, DeletesComplete
<1>1. LogsOld' /\ Ordered'
  BY <1>0 DEF LogsOld, Ordered
<1>2. InputsDeleted'
  BY <1>b, <1>0 DEF InputsDeleted
<1> QED BY <1>1, <1>2

\* A blob is stored or a compaction begins: the names of new blobs are not those of inputs.
LEMMA StoreSequenced ==
  ASSUME Inv, Sequenced, NothingToCompact \/ (\E c \in Contents, deleted \in BOOLEAN : WriteIndexBlobs(c, deleted))
                         \/ \E drop \in BOOLEAN : CompactIndexBlobs(drop)
  PROVE  Sequenced'
<1>n. /\ \A l \in compactionLogs : nextID \notin l.inputs
      /\ nextCompaction \in Nat /\ now \in Nat /\ CompactionInterval \in Nat /\ compaction.start \in Nat
  BY Numbers, IndexBlobAssumption DEF Inv, NamesUsed, Logs
<1>1. CASE NothingToCompact
  <2>1. /\ compactionLogs' = compactionLogs /\ indexBlobs' = indexBlobs /\ nextCompaction <= now
        /\ nextCompaction' = now + CompactionInterval /\ compaction.pc = "idle"
        /\ compaction'.pc = "cleanup" /\ compaction'.start = now
    BY <1>1 DEF NothingToCompact, IdleCompaction, storage
  <2> QED BY <1>n, <2>1, SequencedKept
<1>2. ASSUME NEW c \in Contents, NEW deleted \in BOOLEAN, WriteIndexBlobs(c, deleted) PROVE Sequenced'
  <2>1. /\ compactionLogs' = compactionLogs /\ compaction' = compaction /\ nextCompaction' = nextCompaction
        /\ \A b \in indexBlobs' : b \in indexBlobs \/ b.id = nextID
    BY <1>2 DEF WriteIndexBlobs
  <2> QED BY <1>n, <2>1, SequencedKept
<1>3. ASSUME NEW drop \in BOOLEAN, CompactIndexBlobs(drop) PROVE Sequenced'
  <2>1. PICK inputs, out, entries, outputs : Stores(drop, inputs, out, entries, outputs)
    BY <1>3, CompactFacts
  <2>2. /\ indexBlobs' = indexBlobs \cup (IF outputs = {} THEN {} ELSE {out}) /\ out.id = nextID
        /\ compaction'.start = now
    BY <2>1 DEF Stores
  <2>3. /\ compactionLogs' = compactionLogs /\ nextCompaction' = now + CompactionInterval /\ nextCompaction <= now
        /\ compaction.pc = "idle"
    BY <1>3, <1>n DEF CompactIndexBlobs
  <2>4. \A b \in indexBlobs' : b \in indexBlobs \/ b.id = nextID
    BY <2>2
  <2> QED BY <1>n, <2>2, <2>3, <2>4, SequencedKept
<1> QED BY <1>1, <1>2, <1>3

\* Logs are deleted or forgotten, and loads do not matter.
LEMMA QuietSequenced ==
  ASSUME Inv, Sequenced, Cleanup \/ ListIndexBlobs \/ ListCompactionLogs \/ UseIndexBlobs \/ Tick \/ UNCHANGED vars
  PROVE  Sequenced'
<1>n. nextCompaction \in Nat /\ compaction.start \in Nat /\ nextCompaction <= nextCompaction
  BY Numbers
<1>1. CASE Cleanup
  <2>1. /\ indexBlobs' = indexBlobs /\ nextCompaction' = nextCompaction /\ compaction.pc = "cleanup"
        /\ compaction'.pc = "idle" /\ compaction'.start = 0
    BY <1>1 DEF Cleanup, IdleCompaction
  <2>2. \A d \in compactionLogs' : \E l \in compactionLogs :
          l.id = d.id /\ l.inputs = d.inputs /\ l.outputs = d.outputs /\ l.at = d.at
    <3>1. PICK ids : compactionLogs' = DeleteBlobs(compactionLogs, ids)
      BY <1>1 DEF Cleanup
    <3> QED BY <3>1 DEF DeleteBlobs, Inv, TypeInv, CompactionLog
  <2> QED BY <1>n, <2>1, <2>2, SequencedKept
<1>2. CASE ListIndexBlobs \/ ListCompactionLogs \/ UseIndexBlobs \/ UNCHANGED vars
  <2>1. UNCHANGED <<compactionLogs, indexBlobs, compaction, nextCompaction>>
    BY <1>2 DEF ListIndexBlobs, ListCompactionLogs, UseIndexBlobs, storage, vars
  <2> QED BY <1>n, <2>1, SequencedKept
<1>3. CASE Tick
  <2>1. /\ UNCHANGED <<compaction, nextCompaction>>
        /\ compactionLogs' \subseteq compactionLogs /\ indexBlobs' \subseteq indexBlobs
    BY <1>3 DEF Tick
  <2> QED BY <1>n, <2>1, SequencedKept
<1> QED BY <1>1, <1>2, <1>3

\* As long as no compaction has died and no delete has failed, all of this holds.
UnlessFault == counters.faults = 0 => Tidy /\ Sequenced /\ "outputFirst" \notin lapses

\* Every step keeps it, or is a fault.
LEMMA NextUnlessFault == ASSUME Inv, UnlessFault, RunsApart, [Next]_vars
                         PROVE  UnlessFault'
<1> SUFFICES ASSUME counters'.faults = 0 PROVE Tidy' /\ Sequenced' /\ "outputFirst" \notin lapses'
  BY DEF UnlessFault
<1>t. counters.faults \in Nat /\ counters \in Counters
  BY RecordFields DEF Inv, TypeInv
<1>1. CASE CompactionStops
  <2>1. counters'.faults = counters.faults + 1
    BY <1>1, <1>t DEF CompactionStops, Counters
  <2> QED BY <1>t, <2>1
<1> SUFFICES ASSUME ~CompactionStops PROVE Tidy' /\ Sequenced' /\ "outputFirst" \notin lapses'
  BY <1>1
<1>2. counters.faults = 0
  <2>1. CASE Cleanup
    <3>1. \/ UNCHANGED counters
          \/ counters' = [counters EXCEPT !.faults = @ + 1]
      BY <2>1 DEF Cleanup
    <3>2. counters' = [counters EXCEPT !.faults = @ + 1] => counters'.faults = counters.faults + 1
      BY <1>t DEF Counters
    <3> QED BY <1>t, <3>1, <3>2
  <2>2. ASSUME NEW c \in Contents, NEW deleted \in BOOLEAN, WriteIndexBlobs(c, deleted) PROVE counters.faults = 0
    BY <1>t, <2>2 DEF WriteIndexBlobs, Counters
  <2>3. ASSUME NEW drop \in BOOLEAN, CompactIndexBlobs(drop) PROVE counters.faults = 0
    BY <1>t, <2>3 DEF CompactIndexBlobs, Counters
  <2>4. CASE NothingToCompact
    BY <1>t, <2>4 DEF NothingToCompact, Counters
  <2>5. CASE RegisterCompaction \/ FindIndexBlobsToDelete \/ DeleteIndexBlob \/ DelayCleanupBlobs
    BY <2>5 DEF RegisterCompaction, FindIndexBlobsToDelete, DeleteIndexBlob, DelayCleanupBlobs
  <2>6. CASE ListIndexBlobs \/ ListCompactionLogs \/ UseIndexBlobs \/ Tick \/ UNCHANGED vars
    BY <2>6 DEF ListIndexBlobs, ListCompactionLogs, UseIndexBlobs, Tick, vars
  <2> QED BY <2>1, <2>2, <2>3, <2>4, <2>5, <2>6 DEF Next
<1>3. Tidy /\ Sequenced /\ "outputFirst" \notin lapses
  BY <1>2 DEF UnlessFault
<1>r. RunsSettle
  BY Durations, Constants, IndexBlobAssumption DEF RunsApart, RunsSettle
<1>4. ASSUME NEW c \in Contents, NEW deleted \in BOOLEAN, WriteIndexBlobs(c, deleted)
      PROVE  Tidy' /\ Sequenced' /\ "outputFirst" \notin lapses'
  <2>1. lapses' = lapses
    BY <1>4 DEF WriteIndexBlobs
  <2> QED BY <1>3, <1>4, <2>1, WriteIndexBlobsTidy, StoreSequenced
<1>5. ASSUME NEW drop \in BOOLEAN, CompactIndexBlobs(drop)
      PROVE  Tidy' /\ Sequenced' /\ "outputFirst" \notin lapses'
  <2>1. "outputFirst" \notin lapses'
    BY <1>3, <1>5, CompactFacts DEF Leaves
  <2> QED BY <1>3, <1>r, <1>5, <2>1, CompactIndexBlobsTidy, StoreSequenced
<1>6. CASE NothingToCompact
  <2>1. lapses' = lapses
    BY <1>6 DEF NothingToCompact
  <2> QED BY <1>3, <1>r, <1>6, <2>1, NothingToCompactTidy, StoreSequenced
<1>7. CASE RegisterCompaction
  <2>1. lapses' = lapses
    BY <1>7 DEF RegisterCompaction
  <2> QED BY <1>3, <1>r, <1>7, <2>1, RegisterCompactionTidy, RegisterSequenced
<1>8. CASE FindIndexBlobsToDelete
  <2>1. lapses' = lapses
    BY <1>8 DEF FindIndexBlobsToDelete
  <2> QED BY <1>3, <1>r, <1>8, <2>1, FindIndexBlobsToDeleteTidy, FindSequenced
<1>9. CASE DeleteIndexBlob
  BY <1>3, <1>9, DeleteIndexBlobTidy, DeleteSequenced
<1>10. CASE DelayCleanupBlobs
  <2>1. lapses' = lapses
    BY <1>10 DEF DelayCleanupBlobs
  <2> QED BY <1>3, <1>r, <1>10, <2>1, DelayCleanupBlobsTidy, DelaySequenced
<1>11. CASE Cleanup
  <2>1. lapses' = lapses
    BY <1>11 DEF Cleanup
  <2> QED BY <1>3, <1>r, <1>11, <2>1, CleanupTidy, QuietSequenced
<1>12. CASE ListIndexBlobs \/ ListCompactionLogs \/ UseIndexBlobs \/ Tick \/ UNCHANGED vars
  <2>1. lapses' = lapses
    BY <1>12 DEF ListIndexBlobs, ListCompactionLogs, UseIndexBlobs, Tick, vars
  <2>2. Tidy'
    BY <1>3, <1>12, ListIndexBlobsTidy, ListCompactionLogsTidy, UseIndexBlobsTidy, TickTidy, StutterTidy
  <2> QED BY <1>3, <1>12, <2>1, <2>2, QuietSequenced
<1> QED BY <1>4, <1>5, <1>6, <1>7, <1>8, <1>9, <1>10, <1>11, <1>12 DEF Next

\* deleteOldBlobs deletes the output of a compaction only when none of its inputs is listed any
\* more, although it deletes blobs one by one in any order, as long as runs are apart by more than
\* the time after which it deletes (MaxEventualConsistencySettleTime) and none fails: then each run
\* deletes what the run before it has replaced.
THEOREM OutputsDeletedLast == ASSUME RunsApart
                              PROVE  Spec => []OutputsLast
<1>1. Init => UnlessFault
  <2> SUFFICES ASSUME Init PROVE Sequenced /\ Tidy /\ "outputFirst" \notin lapses
    BY DEF UnlessFault
  <2>1. compactionLogs = {} /\ lapses = {}
    BY DEF Init
  <2> QED BY <2>1, InitTidy DEF Sequenced, LogsOld, Ordered, InputsDeleted
<1>2. Inv /\ UnlessFault /\ [Next]_vars => UnlessFault'
  BY NextUnlessFault
<1>3. UnlessFault => OutputsLast
  BY DEF UnlessFault, OutputsLast
<1> QED BY <1>1, <1>2, <1>3, Invariance, PTL DEF Spec
=============================================================================
