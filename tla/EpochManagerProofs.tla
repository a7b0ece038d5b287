------------------------ MODULE EpochManagerProofs ------------------------
(***************************************************************************)
(* Proofs about EpochManager, for every number of clients, writes, shards  *)
(* and epochs and every value of the timing parameters: its types, the     *)
(* write epoch never goes back, and an acknowledged index write is never   *)
(* lost.                                                                   *)
(***************************************************************************)
EXTENDS EpochManager, SequenceTheorems, TLAPS

\* The empty snapshot is a snapshot.
LEMMA ZeroSnapshotType == ASSUME MaxEpoch \in Nat PROVE ZeroSnapshot \in Snapshot
<1>1. << >> \in RangeChain
  BY DEF RangeChain
<1> QED BY <1>1 DEF ZeroSnapshot, Snapshot, Epochs

\* A snapshot with one field assigned is a snapshot.
LEMMA SetValidUntil == ASSUME NEW x \in Snapshot, NEW v \in Int
                       PROVE [x EXCEPT !.ValidUntil = v] \in Snapshot
  BY DEF Snapshot
\* What a refresh has seen acknowledged can be assigned.
LEMMA SetSeen == ASSUME NEW x \in Snapshot, NEW v \in SUBSET Ack
                 PROVE [x EXCEPT !.seen = v] \in Snapshot
  BY DEF Snapshot
\* The write epoch can be assigned.
LEMMA SetWriteEpoch == ASSUME NEW x \in Snapshot, NEW v \in Epochs
                       PROVE [x EXCEPT !.WriteEpoch = v] \in Snapshot
  BY DEF Snapshot
\* The epoch markers a refresh listed can be assigned.
LEMMA SetMarkers == ASSUME NEW x \in Snapshot, NEW v \in SUBSET Epochs
                    PROVE [x EXCEPT !.EpochMarkerBlobs = v] \in Snapshot
  BY DEF Snapshot
\* The uncompacted index blobs of another epoch can be added.
LEMMA SetUncompacted == ASSUME NEW x \in Snapshot, NEW v \in SUBSET IndexBlob
                        PROVE [x EXCEPT !.UncompactedEpochSets = x.UncompactedEpochSets \cup v] \in Snapshot
<1>1. x.UncompactedEpochSets \cup v \in SUBSET IndexBlob BY DEF Snapshot
<1> QED BY <1>1 DEF Snapshot
\* The single-epoch compactions a refresh listed can be assigned.
LEMMA SetSingles == ASSUME NEW x \in Snapshot, NEW v \in SUBSET IndexBlob
                    PROVE [x EXCEPT !.SingleEpochCompactionSets = v] \in Snapshot
  BY DEF Snapshot
\* The chain of range checkpoints can be assigned.
LEMMA SetRanges == ASSUME NEW x \in Snapshot, NEW v \in RangeChain
                   PROVE [x EXCEPT !.LongestRangeCheckpointSets = v] \in Snapshot
  BY DEF Snapshot

\* The chain of checkpoints a refresh picks is a sequence of the checkpoints it listed.
LEMMA ChainType == ASSUME NEW S, NEW rs \in SUBSET S, NEW c \in findLongestRangeCheckpoint(rs),
                          MaxEpoch \in Nat
                   PROVE  c \in Seq(S)
<1>1. PICK n \in 0..MaxEpoch + 1 : c \in [1..n -> rs]
  BY DEF findLongestRangeCheckpoint, RangeChains
<1>2. n \in Nat
  BY <1>1
<1>3. c \in [1..n -> S]
  BY <1>1
<1> QED BY <1>2, <1>3, SeqDef
---------------------------------------------------------------------------
(* Type correctness *)

\* The initial repository and the idle processes are well typed.
LEMMA InitType == Init => TypeOK
<1> SUFFICES ASSUME Init PROVE TypeOK OBVIOUS
<1> USE ProcessAssumption, ParametersAssumption, RepositoryAssumption
<1>0. ZeroSnapshot \in Snapshot BY ZeroSnapshotType
<1>1. StorageOK
  <2>1. InitBlobs \subseteq IndexBlob
    BY DEF InitBlobs, Blob, IndexBlob, Writes, Entries, Epochs
  <2>2. InFlightBlobs \subseteq IndexBlob
    BY DEF InFlightBlobs, Blob, IndexBlob, Writes, Entries, Epochs
  <2>3. \A es, s : s \in Shards => InitContent(es, s) \subseteq Entries
    BY DEF InitContent, Entries, Writes
  <2>4. singles \subseteq IndexBlob
    <3> SUFFICES ASSUME NEW b \in singles PROVE b \in IndexBlob OBVIOUS
    <3>1. PICK x \in InitSingles \X Shards :
            b = [epoch |-> x[1], set |-> 0, shard |-> x[2],
                 content |-> InitContent({x[1]}, x[2]), ts |-> 0]
      BY DEF Init, InitSingleBlobs
    <3>2. InitContent({x[1]}, x[2]) \in SUBSET Entries BY <2>3
    <3>3. 0 \in Writes \cup 0..MaxSets OBVIOUS
    <3>4. x[1] \in Epochs OBVIOUS
    <3> QED BY <3>1, <3>2, <3>3, <3>4 DEF IndexBlob
  <2>5. ranges \subseteq RangeBlob
    <3> SUFFICES ASSUME NEW b \in ranges PROVE b \in RangeBlob OBVIOUS
    <3>1. InitRange # -1 /\ InitRange \in Epochs BY DEF Init, InitRangeBlobs
    <3>2. PICK s \in Shards :
            b = [min |-> 0, max |-> InitRange, set |-> 0, shard |-> s,
                 content |-> InitContent(0..InitRange, s)]
      BY <3>1 DEF Init, InitRangeBlobs
    <3>3. InitContent(0..InitRange, s) \in SUBSET Entries BY <2>3
    <3>4. 0 \in 0..MaxSets /\ 0 \in Epochs BY DEF Epochs
    <3> QED BY <3>1, <3>2, <3>3, <3>4 DEF RangeBlob
  <2> QED BY <2>1, <2>2, <2>4, <2>5 DEF Init, StorageOK
<1>2. ManagerOK
  BY <1>0 DEF Init, ManagerOK
<1>3. ProcsOK
  <2>1. [ZeroSnapshot EXCEPT !.WriteEpoch = InFlightEpoch] \in Snapshot
    BY <1>0 DEF Snapshot, ZeroSnapshot
  <2>2. cs \in [Procs -> Snapshot]
    BY <1>0, <2>1 DEF Init
  <2>3. pc \in [Procs -> Places]
    BY DEF Init, Places
  <2>4. toList \in [Procs -> SUBSET Int]
    BY DEF Init
  <2> QED BY <2>2, <2>3, <2>4 DEF ProcsOK
<1>4. WritersOK
  BY DEF Init, WritersOK, Ack, Writes
<1>5. ReadersOK
  BY DEF Init, ReadersOK, Epochs
<1>6. MaintenanceOK
  BY DEF Init, MaintenanceOK
<1> QED BY <1>1, <1>2, <1>3, <1>4, <1>5, <1>6 DEF TypeOK

\* Operators on snapshots and blobs stay within the types.
LEMMA ContentType == ASSUME NEW bs \in SUBSET IndexBlob PROVE ContentOf(bs) \in SUBSET Entries
  BY DEF ContentOf, IndexBlob

\* The blobs a snapshot holds for some epochs are index blobs.
LEMMA SnapshotBlobsType == ASSUME NEW x \in Snapshot, NEW es PROVE SnapshotBlobs(x, es) \in SUBSET IndexBlob
  BY DEF SnapshotBlobs, Snapshot

\* What the range checkpoints of a snapshot contain are entries.
LEMMA RangeContentType == ASSUME NEW x \in Snapshot, NEW min PROVE RangeContent(x, min) \in SUBSET Entries
<1> DEFINE c == x.LongestRangeCheckpointSets
<1>1. c \in Seq(RangeCheckpoint)
  BY DEF Snapshot, RangeChain
<1>2. \A i \in 1..Len(c) : c[i] \in RangeCheckpoint
  BY <1>1, ElementOfSeq
<1>3. \A i \in 1..Len(c) : c[i].content \in SUBSET Entries
  BY <1>2 DEF RangeCheckpoint
<1> QED BY <1>3 DEF RangeContent

\* The blob of a shard, in an epoch that exists, is an index blob.
LEMMA BlobType == ASSUME NEW w \in Writes, NEW s \in Shards, NEW e \in Epochs, NEW t \in Nat
                  PROVE Blob(w, s, e, t) \in IndexBlob
  BY DEF Blob, IndexBlob, Entries

\* The last epoch that the range checkpoints cover exists, or is -1 when there are none.
LEMMA ChainEndType == ASSUME NEW x \in Snapshot, MaxEpoch \in Nat
                      PROVE ChainEnd(x.LongestRangeCheckpointSets) \in Epochs \cup {-1}
<1> DEFINE c == x.LongestRangeCheckpointSets
<1>1. c \in Seq(RangeCheckpoint)
  BY DEF Snapshot, RangeChain
<1>2. c # << >> => Len(c) \in 1..Len(c)
  BY <1>1, EmptySeq, LenProperties
<1>3. c # << >> => c[Len(c)] \in RangeCheckpoint
  BY <1>1, <1>2, ElementOfSeq
<1>4. c # << >> => c[Len(c)].max \in Epochs
  BY <1>3 DEF RangeCheckpoint
<1> QED BY <1>4 DEF ChainEnd, Epochs

\* The types are inductive only together with a little control state: who holds a mutex is
\* in committedState, and the epochs that later name blobs have been chosen.
MutexHeld == \A p \in Procs : mu[Mgr(p)] = p => pc[p] \in WaitsForState
EpochChosen == \A w \in Writers :
  pc[w] \in {"writeShard", "writePut", "writeRecheck", "writeVerify"} => writtenFor[w] \in Epochs
TargetChosen ==
  /\ pc[M] \in {"compactList", "compactRead", "compactWrite", "rangeList"} =>
       lo \in Epochs /\ hi \in Epochs
  /\ pc[M] = "advancePut" => cs[M].WriteEpoch < MaxEpoch
TypeInv == TypeOK /\ MutexHeld /\ EpochChosen /\ TargetChosen

\* committedState: a refresh assembles a well-typed snapshot.
LEMMA RefreshType == ASSUME TypeInv, NEW p \in Procs, Refresh(p) PROVE TypeOK'
<1> USE ProcessAssumption, ParametersAssumption, RepositoryAssumption
<1> USE DEF storage, writing, reading, maint, TypeOK, TypeInv
<1> DEFINE m == Mgr(p)
<1>m. m \in Managers BY DEF Mgr
<1>z. ZeroSnapshot \in Snapshot BY ZeroSnapshotType
<1>c. Continue(p) \in Places
  BY DEF Continue, Places, MaintenanceOK
<1>b. ASSUME BeginAttempt(m)
      PROVE  attempt' \in [Managers -> Snapshot]
             /\ loads' \in [Managers -> SUBSET {"writeEpoch", "single", "range"}]
             /\ listed' \in [Managers -> SUBSET Int]
  <2>1. [ZeroSnapshot EXCEPT !.ValidUntil = now + EpochRefreshFrequency, !.seen = acked] \in Snapshot
    <3>1. now + EpochRefreshFrequency \in Int BY DEF StorageOK
    <3>2. [ZeroSnapshot EXCEPT !.ValidUntil = now + EpochRefreshFrequency] \in Snapshot
      BY <1>z, <3>1, SetValidUntil
    <3>3. acked \in SUBSET Ack BY DEF WritersOK
    <3> QED BY <3>2, <3>3, SetSeen
  <2> QED BY <1>b, <1>m, <2>1 DEF BeginAttempt, ManagerOK
<1>l. ASSUME NEW what, Loading(p, what)
      PROVE  loads' \in [Managers -> SUBSET {"writeEpoch", "single", "range"}]
  BY <1>l, <1>m DEF Loading, ManagerOK
<1>1. CASE UseKnownState(p)
  BY <1>1, <1>m, <1>c DEF UseKnownState, manager, StorageOK, ManagerOK, ProcsOK, WritersOK, ReadersOK, MaintenanceOK
<1>2. CASE StartRefresh(p)
  BY <1>2, <1>m, <1>b DEF StartRefresh, StorageOK, ManagerOK, ProcsOK, WritersOK, ReadersOK, MaintenanceOK
<1>3. CASE loadWriteEpoch(p)
  <2>1. PICK w \in markers \cup {0} :
          attempt' = [attempt EXCEPT ![m].WriteEpoch = w, ![m].EpochMarkerBlobs = markers]
    BY <1>3 DEF loadWriteEpoch
  <2>2. w \in Epochs BY DEF StorageOK, Epochs
  <2>3. attempt' \in [Managers -> Snapshot]
    <3>1. attempt[m] \in Snapshot BY <1>m DEF ManagerOK
    <3>2. [[attempt[m] EXCEPT !.WriteEpoch = w] EXCEPT !.EpochMarkerBlobs = markers] \in Snapshot
      BY <2>2, <3>1, SetWriteEpoch, SetMarkers DEF StorageOK
    <3> QED BY <2>1, <1>m, <3>2 DEF ManagerOK
  <2> QED BY <1>3, <1>l, <2>3 DEF loadWriteEpoch, StorageOK, ManagerOK, ProcsOK, WritersOK, ReadersOK, MaintenanceOK
<1>4. CASE loadSingleEpochCompactions(p)
  <2>1. PICK bs \in SUBSET singles : attempt' = [attempt EXCEPT ![m].SingleEpochCompactionSets = bs]
    BY <1>4 DEF loadSingleEpochCompactions
  <2>2. attempt' \in [Managers -> Snapshot]
    <3>1. attempt[m] \in Snapshot BY <1>m DEF ManagerOK
    <3>2. [attempt[m] EXCEPT !.SingleEpochCompactionSets = bs] \in Snapshot
      BY <3>1, SetSingles DEF StorageOK
    <3> QED BY <2>1, <1>m, <3>2 DEF ManagerOK
  <2> QED BY <1>4, <1>l, <2>2 DEF loadSingleEpochCompactions, StorageOK, ManagerOK, ProcsOK, WritersOK, ReadersOK, MaintenanceOK
<1>5. CASE loadRangeCheckpoints(p)
  <2> DEFINE checkpoint(lh, pick) ==
               [min |-> lh[1], max |-> lh[2],
                content |-> ContentOf({b \in RangeBlobs(lh) : b.set = pick[lh]})]
             lhs == {lh \in {<<b.min, b.max>> : b \in ranges} : CompleteSets(RangeBlobs(lh)) # {}}
  <2>1. PICK c \in RangeChain : attempt' = [attempt EXCEPT ![m].LongestRangeCheckpointSets = c]
    <3>1. PICK pick \in [lhs -> 0..MaxSets] :
            \E c \in findLongestRangeCheckpoint({checkpoint(lh, pick) : lh \in lhs}) :
               attempt' = [attempt EXCEPT ![m].LongestRangeCheckpointSets = c]
      BY <1>5, Zenon DEF loadRangeCheckpoints
    <3> DEFINE rs == {checkpoint(lh, pick) : lh \in lhs}
    <3>2. rs \in SUBSET RangeCheckpoint
      <4> SUFFICES ASSUME NEW lh \in lhs PROVE checkpoint(lh, pick) \in RangeCheckpoint
        OBVIOUS
      <4>1. lh[1] \in Epochs /\ lh[2] \in Epochs
        BY DEF StorageOK, RangeBlob
      <4>2. ContentOf({b \in RangeBlobs(lh) : b.set = pick[lh]}) \in SUBSET Entries
        BY DEF ContentOf, RangeBlobs, StorageOK, RangeBlob
      <4> QED BY <4>1, <4>2 DEF RangeCheckpoint
    <3> HIDE DEF rs
    <3>3. PICK c \in findLongestRangeCheckpoint(rs) :
            attempt' = [attempt EXCEPT ![m].LongestRangeCheckpointSets = c]
      BY <3>1 DEF rs
    <3>4. c \in RangeChain BY <3>2, <3>3, ChainType DEF RangeChain
    <3> QED BY <3>3, <3>4
  <2>2. attempt' \in [Managers -> Snapshot]
    <3>1. attempt[m] \in Snapshot BY <1>m DEF ManagerOK
    <3>2. [attempt[m] EXCEPT !.LongestRangeCheckpointSets = c] \in Snapshot
      BY <3>1, <2>1, SetRanges
    <3> QED BY <2>1, <1>m, <3>2 DEF ManagerOK
  <2> QED BY <1>5, <1>l, <2>2 DEF loadRangeCheckpoints, StorageOK, ManagerOK, ProcsOK, WritersOK, ReadersOK, MaintenanceOK
<1>6. CASE \E e \in 0..MaxEpoch + 1 : loadUncompactedEpoch(p, e)
  <2>1. PICK e \in 0..MaxEpoch + 1 : loadUncompactedEpoch(p, e) BY <1>6
  <2>2. attempt' \in [Managers -> Snapshot]
    <3>1. attempt[m] \in Snapshot BY <1>m DEF ManagerOK
    <3>2. OfEpoch(uncompacted, e) \in SUBSET IndexBlob BY DEF StorageOK, OfEpoch
    <3>3. [attempt[m] EXCEPT !.UncompactedEpochSets = attempt[m].UncompactedEpochSets \cup OfEpoch(uncompacted, e)]
            \in Snapshot
      BY <3>1, <3>2, SetUncompacted
    <3> QED BY <2>1, <1>m, <3>3 DEF loadUncompactedEpoch, ManagerOK
  <2>3. listed' \in [Managers -> SUBSET Int]
    BY <2>1, <1>m DEF loadUncompactedEpoch, ManagerOK
  <2> QED BY <2>1, <2>2, <2>3 DEF loadUncompactedEpoch, StorageOK, ManagerOK, ProcsOK, WritersOK, ReadersOK, MaintenanceOK
<1>7. CASE FinishRefresh(p)
  <2>1. CASE BeginAttempt(m) /\ UNCHANGED <<mu, known, pc, cs>>
    BY <1>7, <2>1, <1>b DEF FinishRefresh, StorageOK, ManagerOK, ProcsOK, WritersOK, ReadersOK, MaintenanceOK
  <2>2. CASE /\ known' = [known EXCEPT ![m] = attempt[m]] /\ cs' = [cs EXCEPT ![p] = attempt[m]]
             /\ pc' = [pc EXCEPT ![p] = Continue(p)] /\ mu' = [mu EXCEPT ![m] = NoProc]
             /\ attempt' = [attempt EXCEPT ![m] = ZeroSnapshot]
             /\ listed' = [listed EXCEPT ![m] = {}] /\ UNCHANGED loads
    BY <1>7, <2>2, <1>m, <1>z, <1>c DEF FinishRefresh, StorageOK, ManagerOK, ProcsOK, WritersOK, ReadersOK, MaintenanceOK
  <2> QED BY <1>7, <2>1, <2>2 DEF FinishRefresh
<1> QED BY <1>1, <1>2, <1>3, <1>4, <1>5, <1>6, <1>7 DEF Refresh

\* A refresh takes the mutex of its own process only and leaves the epochs others have chosen.
LEMMA RefreshControl == ASSUME TypeInv, NEW p \in Procs, Refresh(p)
                        PROVE MutexHeld' /\ EpochChosen' /\ TargetChosen'
<1> USE ProcessAssumption
<1> USE DEF TypeInv, TypeOK, storage, manager, writing, maint, M
<1>1. /\ UNCHANGED <<writtenFor, lo, hi>>
      /\ \A q \in Procs \ {p} : pc'[q] = pc[q] /\ cs'[q] = cs[q]
  BY DEF Refresh, UseKnownState, StartRefresh, loadWriteEpoch, loadSingleEpochCompactions,
         loadRangeCheckpoints, loadUncompactedEpoch, FinishRefresh, ProcsOK
<1>2. /\ pc[p] \in WaitsForState
      /\ (pc'[p] = pc[p] /\ cs'[p] = cs[p]) \/ pc'[p] = Continue(p)
  BY DEF MutexHeld, Refresh, UseKnownState, StartRefresh, Loading, loadWriteEpoch,
         loadSingleEpochCompactions, loadRangeCheckpoints, loadUncompactedEpoch, FinishRefresh, ProcsOK
<1>3. pc'[p] = Continue(p) => mu'[Mgr(p)] # p
  BY <1>2 DEF Refresh, UseKnownState, StartRefresh, FinishRefresh, loadWriteEpoch,
         loadSingleEpochCompactions, loadRangeCheckpoints, loadUncompactedEpoch, ManagerOK, Mgr,
         ProcsOK, Continue, WaitsForState, MaintenanceOK, AllOps
<1>4. \A q \in Procs \ {p} : mu'[Mgr(q)] = q => mu[Mgr(q)] = q
  BY DEF Refresh, UseKnownState, StartRefresh, FinishRefresh, loadWriteEpoch,
         loadSingleEpochCompactions, loadRangeCheckpoints, loadUncompactedEpoch, ManagerOK, Mgr
<1>5. MutexHeld'
  BY <1>1, <1>2, <1>3, <1>4 DEF MutexHeld
<1>6. Continue(p) \in {"writeEpoch", "writeVerify", "readRange", "idle"} \cup AllOps
      /\ (Continue(p) = "writeVerify" => pc[p] = "writeRecheck")
  BY <1>2 DEF Continue, WaitsForState, MaintenanceOK, AllOps
<1>7. EpochChosen'
  BY <1>1, <1>2, <1>6 DEF EpochChosen, AllOps, Procs
<1>8. TargetChosen'
  BY <1>1, <1>2, <1>6 DEF TargetChosen, AllOps, Procs, WaitsForState
<1> QED BY <1>5, <1>7, <1>8

\* WriteIndex: blobs and acknowledgements are named after an epoch it has chosen.
LEMMA WriteType == ASSUME TypeInv, NEW w \in Writers, Write(w) PROVE TypeOK'
<1> USE ProcessAssumption, RepositoryAssumption
<1> USE DEF TypeInv, TypeOK, storage, manager, writing, reading, maint, notWriting
<1>p. w \in Procs /\ w \in Writes /\ Mgr(w) \in Managers
  BY DEF Procs, Writes, Mgr
<1>z. ZeroSnapshot \in Snapshot BY ZeroSnapshotType
<1>d. ASSUME NEW s \in Shards, DeleteShard(w, s)
      PROVE uncompacted' \subseteq IndexBlob /\ written' \in [Writers -> SUBSET Shards]
  BY <1>d DEF DeleteShard, StorageOK, WritersOK
<1>b. ASSUME writtenFor[w] \in Epochs, NEW s \in Shards
      PROVE Blob(w, s, writtenFor[w], now) \in IndexBlob
  BY <1>b, <1>p, BlobType DEF StorageOK
<1>1. CASE WriteIndex(w)
  BY <1>1, <1>p DEF WriteIndex, Goto, Places, StorageOK, ManagerOK, ProcsOK, WritersOK, ReadersOK, MaintenanceOK
<1>2. CASE ChooseWriteEpoch(w)
  <2>1. cs[w].WriteEpoch \in Epochs BY <1>p DEF ProcsOK, Snapshot
  <2> QED BY <1>2, <1>p, <2>1 DEF ChooseWriteEpoch, Goto, Places, StorageOK, ManagerOK, ProcsOK, WritersOK, ReadersOK, MaintenanceOK
<1>3. CASE CheckShardTime(w)
  BY <1>3, <1>p, <1>z DEF CheckShardTime, Goto, Leave, Places, StorageOK, ManagerOK, ProcsOK, WritersOK, ReadersOK, MaintenanceOK
<1>4. ASSUME NEW s \in Shards, DropPartialShard(w, s) PROVE TypeOK'
  BY <1>4, <1>d DEF DropPartialShard, StorageOK, ManagerOK, ProcsOK, WritersOK, ReadersOK, MaintenanceOK
<1>5. ASSUME NEW s \in Shards, PutShard(w, s) PROVE TypeOK'
  <2>1. uncompacted' \subseteq IndexBlob
    BY <1>5, <1>b DEF PutShard, EpochChosen, StorageOK
  <2>2. written' \in [Writers -> SUBSET Shards]
    BY <1>5 DEF PutShard, WritersOK
  <2> QED BY <1>5, <1>p, <2>1, <2>2 DEF PutShard, Goto, Places, StorageOK, ManagerOK, ProcsOK, WritersOK, ReadersOK, MaintenanceOK
<1>6. ASSUME NEW s \in Shards, UndoShard(w, s) PROVE TypeOK'
  BY <1>6, <1>d, <1>p DEF UndoShard, Goto, Places, StorageOK, ManagerOK, ProcsOK, WritersOK, ReadersOK, MaintenanceOK
<1>7. CASE InvalidateAfterWrite(w)
  BY <1>7, <1>p, <1>z DEF InvalidateAfterWrite, Goto, Leave, Places, StorageOK, ManagerOK, ProcsOK, WritersOK, ReadersOK, MaintenanceOK
<1>8. CASE VerifyWriteEpoch(w)
  <2>1. [write |-> w, epoch |-> writtenFor[w]] \in Ack
    BY <1>8, <1>p DEF VerifyWriteEpoch, EpochChosen, Ack
  <2>2. acked' \subseteq Ack
    BY <1>8, <2>1 DEF VerifyWriteEpoch, WritersOK
  <2> QED BY <1>8, <1>p, <1>z, <2>2 DEF VerifyWriteEpoch, Goto, Leave, Places, StorageOK, ManagerOK, ProcsOK, WritersOK, ReadersOK, MaintenanceOK
<1>9. CASE WriteIndexError(w)
  <2>1. uncompacted' \subseteq IndexBlob
    BY <1>9, <1>b DEF WriteIndexError, EpochChosen, StorageOK
  <2> QED BY <1>9, <1>p, <1>z, <2>1 DEF WriteIndexError, Goto, Leave, Places, StorageOK, ManagerOK, ProcsOK, WritersOK, ReadersOK, MaintenanceOK
<1> QED BY <1>1, <1>2, <1>3, <1>4, <1>5, <1>6, <1>7, <1>8, <1>9 DEF Write

\* WriteIndex chooses an epoch before it writes, and disturbs no other process.
LEMMA WriteControl == ASSUME TypeInv, NEW w \in Writers, Write(w)
                      PROVE MutexHeld' /\ EpochChosen' /\ TargetChosen'
<1> USE ProcessAssumption
<1> USE DEF TypeInv, TypeOK, storage, manager, writing, maint, notWriting, Goto, Leave, DeleteShard
<1>p. w \in Procs /\ w # M BY DEF Procs, M
<1>1. /\ UNCHANGED <<mu, lo, hi>>
      /\ \A q \in Procs \ {w} : pc'[q] = pc[q] /\ cs'[q] = cs[q]
      /\ \A v \in Writers \ {w} : writtenFor'[v] = writtenFor[v]
  BY <1>p DEF Write, WriteIndex, ChooseWriteEpoch, CheckShardTime, DropPartialShard, PutShard, UndoShard,
         InvalidateAfterWrite, VerifyWriteEpoch, WriteIndexError, ProcsOK, WritersOK
<1>2. /\ pc[w] \notin WaitsForState
      /\ pc'[w] \in {"writeShard", "writePut", "writeRecheck", "writeVerify"} => writtenFor'[w] \in Epochs
  BY <1>p DEF Write, WriteIndex, ChooseWriteEpoch, CheckShardTime, DropPartialShard, PutShard, UndoShard,
         InvalidateAfterWrite, VerifyWriteEpoch, WriteIndexError, ProcsOK, WritersOK, EpochChosen,
         WaitsForState, Snapshot
<1>3. MutexHeld' BY <1>1, <1>2 DEF MutexHeld
<1>4. EpochChosen' BY <1>1, <1>2 DEF EpochChosen, Procs
<1>5. TargetChosen' BY <1>1, <1>p DEF TargetChosen, M, Procs
<1> QED BY <1>3, <1>4, <1>5

\* GetCompleteIndexSet
LEMMA ReadType == ASSUME TypeInv, NEW r \in Readers, Read(r) PROVE TypeOK'
<1> USE ProcessAssumption, RepositoryAssumption
<1> USE DEF TypeInv, TypeOK, storage, manager, writing, reading, maint, notReading
<1>p. r \in Procs BY DEF Procs
<1>z. ZeroSnapshot \in Snapshot BY ZeroSnapshotType
<1>c. cs[r] \in Snapshot BY <1>p DEF ProcsOK
<1>e. ASSUME EndRead(r) PROVE TypeOK'
  BY <1>e, <1>p, <1>z DEF EndRead, Goto, Leave, Places, StorageOK, ManagerOK, ProcsOK, WritersOK, ReadersOK, MaintenanceOK
<1>1. CASE GetCompleteIndexSet(r)
  BY <1>1, <1>p DEF GetCompleteIndexSet, Goto, Places, StorageOK, ManagerOK, ProcsOK, WritersOK, ReadersOK, MaintenanceOK
<1>2. CASE ReadSnapshot(r)
  <2> DEFINE last == IF maxEpoch[r] = -1 THEN cs[r].WriteEpoch + 1 ELSE maxEpoch[r]
             es == startEpoch(cs[r], 0) .. last
  <2>1. last \in Int BY <1>c DEF ReadersOK, Snapshot, Epochs
  <2>2. RangeContent(cs[r], 0) \cup ContentOf(SnapshotBlobs(cs[r], es)) \in SUBSET Entries
    BY <1>c, RangeContentType, SnapshotBlobsType, ContentType
  <2>3. {e \in es : MustList(cs[r], e)} \in SUBSET Int
    OBVIOUS
  <2>4. maxEpoch' \in [Readers -> Int] BY <1>2, <2>1 DEF ReadSnapshot, ReadersOK
  <2>5. result' \in [Readers -> SUBSET Entries] BY <1>2, <2>2 DEF ReadSnapshot, ReadersOK
  <2>6. toList' \in [Procs -> SUBSET Int] BY <1>2, <2>3, <1>p DEF ReadSnapshot, ProcsOK
  <2>7. pc' \in [Procs -> Places] BY <1>2, <1>p DEF ReadSnapshot, Goto, ProcsOK, Places
  <2> QED BY <1>2, <2>4, <2>5, <2>6, <2>7 DEF ReadSnapshot, StorageOK, ManagerOK, ProcsOK, WritersOK, ReadersOK, MaintenanceOK
<1>3. CASE ReadReturn(r)
  BY <1>3, <1>p, <1>z DEF ReadReturn, Goto, Leave, Places, StorageOK, ManagerOK, ProcsOK, WritersOK, ReadersOK, MaintenanceOK
<1>4. ASSUME NEW e \in toList[r], ReadEpoch(r, e) PROVE TypeOK'
  <2>1. ContentOf(OfEpoch(uncompacted, e)) \in SUBSET Entries
    BY ContentType DEF OfEpoch, StorageOK
  <2> QED BY <1>4, <1>p, <2>1 DEF ReadEpoch, StorageOK, ManagerOK, ProcsOK, WritersOK, ReadersOK, MaintenanceOK
<1>5. CASE ReadError(r) BY <1>5, <1>e DEF ReadError
<1> QED BY <1>1, <1>2, <1>3, <1>4, <1>5, <1>e DEF Read

\* GetCompleteIndexSet disturbs no other process.
LEMMA ReadControl == ASSUME TypeInv, NEW r \in Readers, Read(r)
                     PROVE MutexHeld' /\ EpochChosen' /\ TargetChosen'
<1> USE ProcessAssumption
<1> USE DEF TypeInv, TypeOK, storage, manager, writing, maint, notReading, Goto, Leave
<1>p. r \in Procs /\ r # M /\ r \notin Writers BY DEF Procs, M
<1>1. /\ UNCHANGED <<mu, lo, hi, writtenFor>>
      /\ \A q \in Procs \ {r} : pc'[q] = pc[q] /\ cs'[q] = cs[q]
      /\ pc[r] \notin WaitsForState
  BY <1>p DEF Read, GetCompleteIndexSet, ReadSnapshot, ReadReturn, ReadEpoch, ReadError, EndRead,
         ProcsOK, WaitsForState
<1>2. MutexHeld' BY <1>1 DEF MutexHeld
<1>3. EpochChosen' BY <1>1, <1>p DEF EpochChosen, Procs
<1>4. TargetChosen' BY <1>1, <1>p DEF TargetChosen, M, Procs
<1> QED BY <1>2, <1>3, <1>4

\* Maintenance: compactions are named after epochs that exist.
LEMMA MaintainType == ASSUME TypeInv, Maintain PROVE TypeOK' /\ TargetChosen'
<1> USE ProcessAssumption, ParametersAssumption, RepositoryAssumption
<1> USE DEF TypeInv, TypeOK, storage, manager, writing, reading, maint, notMaint
<1>p. M \in Procs /\ Mgr(M) \in Managers BY DEF Procs, M, Mgr
<1>z. ZeroSnapshot \in Snapshot BY ZeroSnapshotType
<1>c. cs[M] \in Snapshot BY <1>p DEF ProcsOK
<1>w. cs[M].WriteEpoch \in Epochs BY <1>c DEF Snapshot
<1>e. ASSUME EndMaintenance PROVE ProcsOK' /\ TargetChosen' /\ (UNCHANGED sets => MaintenanceOK')
  BY <1>e, <1>p, <1>z DEF EndMaintenance, Goto, Leave, Places, ProcsOK, MaintenanceOK, TargetChosen
<1>1. ASSUME NEW o \in MaintenanceOps, StartMaintenance(o) PROVE TypeOK' /\ TargetChosen'
  BY <1>1, <1>p DEF StartMaintenance, Goto, Places, AllOps, TargetChosen, StorageOK, ManagerOK, ProcsOK, WritersOK, ReadersOK, MaintenanceOK
<1>2. CASE MaybeAdvanceWriteEpoch
  <2>1. CASE EndMaintenance
    BY <1>2, <2>1, <1>e DEF MaybeAdvanceWriteEpoch, StorageOK, ManagerOK, ProcsOK, WritersOK, ReadersOK, MaintenanceOK
  <2>2. CASE ~EndMaintenance
    <3>1. /\ known[Mgr(M)].WriteEpoch < MaxEpoch
          /\ cs' = [cs EXCEPT ![M] = known[Mgr(M)]] /\ Goto(M, "advancePut")
          /\ UNCHANGED <<maint, toList>>
      BY <1>2, <2>2 DEF MaybeAdvanceWriteEpoch
    <3>2. known[Mgr(M)] \in Snapshot BY <1>p DEF ManagerOK
    <3> QED BY <1>2, <1>p, <3>1, <3>2 DEF MaybeAdvanceWriteEpoch, Goto, Places, TargetChosen, StorageOK, ManagerOK, ProcsOK, WritersOK, ReadersOK, MaintenanceOK
  <2> QED BY <2>1, <2>2
<1>3. CASE advanceEpochMarker
  <2>1. cs[M].WriteEpoch + 1 \in Epochs
    BY <1>3, <1>w DEF advanceEpochMarker, TargetChosen, Epochs
  <2> QED BY <1>3, <2>1, <1>e DEF advanceEpochMarker, StorageOK, ManagerOK, ProcsOK, WritersOK, ReadersOK, MaintenanceOK
<1>4. CASE MaybeCompactSingleEpoch
  <2>1. CASE EndMaintenance
    BY <1>4, <2>1, <1>e DEF MaybeCompactSingleEpoch, StorageOK, ManagerOK, ProcsOK, WritersOK, ReadersOK, MaintenanceOK
  <2>2. CASE ~EndMaintenance
    <3>1. PICK e \in 0..MaxEpoch + 1 : /\ isSettledEpochNumber(cs[M], e)
            /\ lo' = e /\ hi' = e /\ Goto(M, "compactList")
            /\ UNCHANGED <<op, blobs, content, parts, doomed, doomedMarkers, cs, toList>>
      BY <1>4, <2>2 DEF MaybeCompactSingleEpoch
    <3>2. e \in Epochs
      BY <3>1, <1>w DEF isSettledEpochNumber, numUnsettledEpochs, Epochs
    <3> QED BY <1>4, <1>p, <3>1, <3>2 DEF MaybeCompactSingleEpoch, Goto, Places, TargetChosen, Epochs, StorageOK, ManagerOK, ProcsOK, WritersOK, ReadersOK, MaintenanceOK
  <2> QED BY <2>1, <2>2
<1>5. CASE ListEpochToCompact
  BY <1>5, <1>p DEF ListEpochToCompact, OfEpoch, Goto, Places, TargetChosen, StorageOK, ManagerOK, ProcsOK, WritersOK, ReadersOK, MaintenanceOK
<1>6. CASE MaybeGenerateRangeCheckpoint
  <2> DEFINE first == ChainEnd(cs[M].LongestRangeCheckpointSets) + 1
             last == cs[M].WriteEpoch - numUnsettledEpochs
             es == first..last
  <2>1. CASE EndMaintenance
    BY <1>6, <2>1, <1>e DEF MaybeGenerateRangeCheckpoint, StorageOK, ManagerOK, ProcsOK, WritersOK, ReadersOK, MaintenanceOK
  <2>2. CASE ~EndMaintenance
    <3>1. /\ last >= 0 /\ last - first >= FullCheckpointFrequency
          /\ lo' = first /\ hi' = last /\ Goto(M, "rangeList")
          /\ blobs' = SnapshotBlobs(cs[M], es)
          /\ toList' = [toList EXCEPT ![M] = {e \in es : MustList(cs[M], e)}]
          /\ UNCHANGED <<op, content, parts, doomed, doomedMarkers, cs>>
      BY <1>6, <2>2 DEF MaybeGenerateRangeCheckpoint
    <3>2. ChainEnd(cs[M].LongestRangeCheckpointSets) \in Epochs \cup {-1}
      BY <1>c, ChainEndType
    <3>3. first \in Epochs /\ last \in Epochs
      <4>1. first \in Int /\ first >= 0 BY <3>2 DEF Epochs
      <4>2. last \in Int /\ last <= MaxEpoch BY <1>w DEF numUnsettledEpochs, Epochs
      <4>3. first <= last
        <5> HIDE DEF first, last
        <5> QED BY <3>1, <4>1, <4>2
      <4> HIDE DEF first, last
      <4> QED BY <4>1, <4>2, <4>3 DEF Epochs
    <3>4. SnapshotBlobs(cs[M], es) \in SUBSET IndexBlob BY <1>c, SnapshotBlobsType
    <3>5. {e \in es : MustList(cs[M], e)} \in SUBSET Int OBVIOUS
    <3> HIDE DEF first, last, es
    <3>6. toList' \in [Procs -> SUBSET Int] BY <3>1, <3>5, <1>p DEF ProcsOK
    <3>7. pc' \in [Procs -> Places] BY <3>1, <1>p DEF Goto, Places, ProcsOK
    <3>8. pc'[M] = "rangeList" BY <3>1, <1>p DEF Goto, ProcsOK
    <3>9. first \in Int /\ last \in Int BY <3>3 DEF Epochs
    <3> QED BY <1>6, <3>1, <3>3, <3>4, <3>6, <3>7, <3>8, <3>9 DEF MaybeGenerateRangeCheckpoint, TargetChosen, StorageOK, ManagerOK, ProcsOK, WritersOK, ReadersOK, MaintenanceOK
  <2> QED BY <2>1, <2>2
<1>7. ASSUME NEW e \in toList[M], ListRangeEpoch(e) PROVE TypeOK' /\ TargetChosen'
  BY <1>7, <1>p DEF ListRangeEpoch, OfEpoch, TargetChosen, StorageOK, ManagerOK, ProcsOK, WritersOK, ReadersOK, MaintenanceOK
<1>8. CASE CheckRangeTime
  <2>1. CASE EndMaintenance
    BY <1>8, <2>1, <1>e DEF CheckRangeTime, StorageOK, ManagerOK, ProcsOK, WritersOK, ReadersOK, MaintenanceOK
  <2>2. CASE Goto(M, "compactRead") /\ UNCHANGED <<maint, cs, toList>>
    BY <1>8, <2>2, <1>p DEF CheckRangeTime, Goto, Places, TargetChosen, StorageOK, ManagerOK, ProcsOK, WritersOK, ReadersOK, MaintenanceOK
  <2> QED BY <1>8, <2>1, <2>2 DEF CheckRangeTime
<1>9. CASE CompactEpoch
  <2>1. CASE EndMaintenance /\ UNCHANGED sets
    BY <1>9, <2>1, <1>e DEF CompactEpoch, StorageOK, ManagerOK, ProcsOK, WritersOK, ReadersOK, MaintenanceOK
  <2>2. CASE /\ sets < MaxSets /\ content' = ContentOf(blobs) /\ parts' = Shards /\ sets' = sets + 1
             /\ blobs' = {} /\ Goto(M, "compactWrite")
             /\ UNCHANGED <<op, lo, hi, doomed, doomedMarkers, cs, toList>>
    <3>1. ContentOf(blobs) \in SUBSET Entries BY ContentType DEF MaintenanceOK
    <3> QED BY <1>9, <2>2, <1>p, <3>1 DEF CompactEpoch, Goto, Places, TargetChosen, StorageOK, ManagerOK, ProcsOK, WritersOK, ReadersOK, MaintenanceOK
  <2> QED BY <1>9, <2>1, <2>2 DEF CompactEpoch
<1>10. ASSUME NEW s \in Shards, WritePart(s) PROVE TypeOK' /\ TargetChosen'
  <2> DEFINE c == {x \in content : x[2] = s}
  <2>1. c \in SUBSET Entries /\ lo \in Epochs /\ hi \in Epochs /\ now \in Nat /\ sets \in 0..MaxSets
    BY <1>10 DEF WritePart, MaintenanceOK, StorageOK, TargetChosen
  <2>2. [epoch |-> lo, set |-> sets, shard |-> s, content |-> c, ts |-> now] \in IndexBlob
    BY <2>1 DEF IndexBlob
  <2>3. [min |-> lo, max |-> hi, set |-> sets, shard |-> s, content |-> c] \in RangeBlob
    BY <2>1 DEF RangeBlob
  <2>4. StorageOK'
    BY <1>10, <2>2, <2>3 DEF WritePart, StorageOK
  <2>5. CASE EndMaintenance
    BY <1>10, <2>4, <2>5, <1>e DEF WritePart, StorageOK, ManagerOK, ProcsOK, WritersOK, ReadersOK, MaintenanceOK
  <2>6. CASE parts' = parts \ {s} /\ UNCHANGED <<op, lo, hi, blobs, content, doomed, doomedMarkers, cs, toList, pc>>
    BY <1>10, <2>4, <2>6 DEF WritePart, TargetChosen, ManagerOK, ProcsOK, WritersOK, ReadersOK, MaintenanceOK
  <2> QED BY <1>10, <2>5, <2>6 DEF WritePart
<1>11. CASE CleanupMarkers
  <2>1. CASE EndMaintenance
    BY <1>11, <2>1, <1>e DEF CleanupMarkers, StorageOK, ManagerOK, ProcsOK, WritersOK, ReadersOK, MaintenanceOK
  <2>2. CASE ~EndMaintenance
    <3>1. /\ doomedMarkers' \subseteq cs[M].EpochMarkerBlobs /\ Goto(M, "deleteMarkers")
          /\ UNCHANGED <<op, lo, hi, blobs, content, parts, doomed, cs, toList>>
          /\ UNCHANGED <<notMaint, storage, sets>>
      BY <1>11, <2>2 DEF CleanupMarkers
    <3>2. doomedMarkers' \subseteq Epochs BY <3>1, <1>c DEF Snapshot
    <3>3. pc' \in [Procs -> Places] /\ pc'[M] = "deleteMarkers" BY <3>1, <1>p DEF Goto, Places, ProcsOK
    <3> QED BY <3>1, <3>2, <3>3 DEF TargetChosen, StorageOK, ManagerOK, ProcsOK, WritersOK, ReadersOK, MaintenanceOK
  <2> QED BY <2>1, <2>2
<1>12. ASSUME NEW n \in doomedMarkers, DeleteMarker(n) PROVE TypeOK' /\ TargetChosen'
  <2>1. CASE EndMaintenance
    BY <1>12, <2>1, <1>e DEF DeleteMarker, StorageOK, ManagerOK, ProcsOK, WritersOK, ReadersOK, MaintenanceOK
  <2>2. CASE ~EndMaintenance
    BY <1>12, <2>2 DEF DeleteMarker, TargetChosen, StorageOK, ManagerOK, ProcsOK, WritersOK, ReadersOK, MaintenanceOK
  <2> QED BY <2>1, <2>2
<1>13. CASE CleanupSupersededIndexes
  <2>1. CASE EndMaintenance
    BY <1>13, <2>1, <1>e DEF CleanupSupersededIndexes, StorageOK, ManagerOK, ProcsOK, WritersOK, ReadersOK, MaintenanceOK
  <2>2. CASE ~EndMaintenance
    BY <1>13, <2>2, <1>p DEF CleanupSupersededIndexes, Goto, Places, TargetChosen, StorageOK, ManagerOK, ProcsOK, WritersOK, ReadersOK, MaintenanceOK
  <2> QED BY <2>1, <2>2
<1>14. ASSUME NEW b \in doomed, DeleteIndex(b) PROVE TypeOK' /\ TargetChosen'
  <2>1. CASE EndMaintenance
    BY <1>14, <2>1, <1>e DEF DeleteIndex, StorageOK, ManagerOK, ProcsOK, WritersOK, ReadersOK, MaintenanceOK
  <2>2. CASE ~EndMaintenance
    BY <1>14, <2>2 DEF DeleteIndex, TargetChosen, StorageOK, ManagerOK, ProcsOK, WritersOK, ReadersOK, MaintenanceOK
  <2> QED BY <2>1, <2>2
<1>15. CASE MaintenanceError
  BY <1>15, <1>e DEF MaintenanceError, StorageOK, ManagerOK, ProcsOK, WritersOK, ReadersOK, MaintenanceOK
<1> QED BY <1>1, <1>2, <1>3, <1>4, <1>5, <1>6, <1>7, <1>8, <1>9, <1>10, <1>11, <1>12, <1>13, <1>14, <1>15
        DEF Maintain

\* Maintenance takes no mutex that it keeps and leaves the writers' epochs alone.
LEMMA MaintainControl == ASSUME TypeInv, Maintain PROVE MutexHeld' /\ EpochChosen'
<1> USE ProcessAssumption
<1> USE DEF TypeInv, TypeOK, storage, manager, writing, maint, notMaint
<1>p. M \in Procs /\ M \notin Writers BY DEF Procs, M
<1>e. ASSUME EndMaintenance PROVE \A q \in Procs \ {M} : pc'[q] = pc[q]
  BY <1>e, <1>p DEF EndMaintenance, Leave, Goto, ProcsOK
<1>g. ASSUME NEW l, Goto(M, l) PROVE \A q \in Procs \ {M} : pc'[q] = pc[q]
  BY <1>g, <1>p DEF Goto, ProcsOK
<1>1. /\ UNCHANGED <<mu, writtenFor>> /\ pc[M] \notin WaitsForState
      /\ \A q \in Procs \ {M} : pc'[q] = pc[q]
  BY <1>p, <1>e, <1>g DEF Maintain, StartMaintenance, MaybeAdvanceWriteEpoch, advanceEpochMarker,
     MaybeCompactSingleEpoch, ListEpochToCompact, MaybeGenerateRangeCheckpoint, ListRangeEpoch,
     CheckRangeTime, CompactEpoch, WritePart, CleanupMarkers, DeleteMarker,
     CleanupSupersededIndexes, DeleteIndex, MaintenanceError, WaitsForState
<1>2. MutexHeld' BY <1>1 DEF MutexHeld
<1>3. EpochChosen' BY <1>1, <1>p DEF EpochChosen, Procs
<1> QED BY <1>2, <1>3

\* A crash resets what the process had in memory to its initial value.
LEMMA CrashType == ASSUME TypeInv, NEW m \in Crashable, Crash(m) PROVE TypeInv'
<1> USE ProcessAssumption, RepositoryAssumption
<1> USE DEF TypeInv, TypeOK, storage, writing, maint
<1>p. M \in Procs /\ m \in Managers BY DEF Procs, M
<1>z. ZeroSnapshot \in Snapshot BY ZeroSnapshotType
<1> DEFINE dead == {p \in Procs : Mgr(p) = m /\ Active(p)}
<1>1. /\ pc' = [p \in Procs |-> IF p \notin dead THEN pc[p]
                              ELSE IF p \in Writers THEN "failed" ELSE "idle"]
      /\ cs' = [p \in Procs |-> IF p \in dead THEN ZeroSnapshot ELSE cs[p]]
      /\ toList' = [p \in Procs |-> IF p \in dead THEN {} ELSE toList[p]]
      /\ maxEpoch' = [r \in Readers |-> IF r \in dead THEN -1 ELSE maxEpoch[r]]
      /\ result' = [r \in Readers |-> IF r \in dead THEN {} ELSE result[r]]
      /\ expected' = [r \in Readers |-> IF r \in dead THEN {} ELSE expected[r]]
      /\ UNCHANGED <<now, storage, writing, sets, acked>>
  BY DEF Crash
<1>2. \/ UNCHANGED maint
      \/ M \in dead /\ op' = "idle" /\ lo' = 0 /\ hi' = 0 /\ blobs' = {} /\ content' = {}
         /\ parts' = {} /\ doomed' = {} /\ doomedMarkers' = {}
  BY DEF Crash
<1>3. StorageOK' BY <1>1 DEF StorageOK
<1>4. ManagerOK' BY <1>p, <1>z DEF Crash, ManagerOK
<1> HIDE DEF dead
<1>5. ProcsOK' BY <1>1, <1>z DEF ProcsOK, Places
<1>6. WritersOK' BY <1>1 DEF WritersOK
<1>7. ReadersOK' BY <1>1 DEF ReadersOK
<1>8. MaintenanceOK' BY <1>1, <1>2 DEF MaintenanceOK
<1>9. MutexHeld'
  <2> SUFFICES ASSUME NEW p \in Procs, mu'[Mgr(p)] = p PROVE pc'[p] \in WaitsForState
    BY DEF MutexHeld
  <2>1. mu' = [mu EXCEPT ![m] = NoProc] BY DEF Crash
  <2>2. Mgr(p) \in Managers BY DEF Mgr
  <2>3. Mgr(p) # m BY <2>1, <2>2, <1>p DEF ManagerOK
  <2>4. p \notin dead BY <2>3 DEF dead
  <2>5. mu[Mgr(p)] = p BY <2>1, <2>2, <2>3 DEF ManagerOK
  <2> QED BY <2>4, <2>5, <1>1 DEF MutexHeld
<1>10. EpochChosen'
  BY <1>1 DEF EpochChosen, Procs
<1>11. TargetChosen'
  BY <1>1, <1>2, <1>p DEF TargetChosen
<1> QED BY <1>3, <1>4, <1>5, <1>6, <1>7, <1>8, <1>9, <1>10, <1>11

\* TypeInv is inductive.
LEMMA TypeStep == TypeInv /\ [Next]_vars => TypeInv'
<1> SUFFICES ASSUME TypeInv, [Next]_vars PROVE TypeInv' OBVIOUS
<1> USE ProcessAssumption, RepositoryAssumption
<1>1. CASE Tick
  BY <1>1 DEF Tick, TypeInv, TypeOK, MutexHeld, EpochChosen, TargetChosen, StorageOK, ManagerOK,
     ProcsOK, WritersOK, ReadersOK, MaintenanceOK, storage, manager, writing, reading, maint
<1>2. ASSUME NEW p \in Procs, Refresh(p) PROVE TypeInv'
  BY <1>2, RefreshType, RefreshControl DEF TypeInv
<1>3. ASSUME NEW w \in Writers, Write(w) PROVE TypeInv'
  BY <1>3, WriteType, WriteControl DEF TypeInv
<1>4. ASSUME NEW r \in Readers, Read(r) PROVE TypeInv'
  BY <1>4, ReadType, ReadControl DEF TypeInv
<1>5. CASE Maintain
  BY <1>5, MaintainType, MaintainControl DEF TypeInv
<1>6. ASSUME NEW m \in Crashable, Crash(m) PROVE TypeInv'
  BY <1>6, CrashType
<1>7. CASE UNCHANGED vars
  BY <1>7 DEF vars, TypeInv, TypeOK, MutexHeld, EpochChosen, TargetChosen, StorageOK, ManagerOK,
     ProcsOK, WritersOK, ReadersOK, MaintenanceOK, storage, manager, writing, reading, maint, WaitsForState
<1> QED BY <1>1, <1>2, <1>3, <1>4, <1>5, <1>6, <1>7 DEF Next

\* The control part of TypeInv holds initially.
LEMMA InitControl == Init => MutexHeld /\ EpochChosen /\ TargetChosen
<1> USE ProcessAssumption, RepositoryAssumption
<1> SUFFICES ASSUME Init PROVE MutexHeld /\ EpochChosen /\ TargetChosen OBVIOUS
<1>1. MutexHeld BY DEF Init, MutexHeld, Mgr
<1>2. EpochChosen BY DEF Init, EpochChosen, Procs
<1>3. TargetChosen BY DEF Init, TargetChosen, Procs, M
<1> QED BY <1>1, <1>2, <1>3

\* Every state of every behaviour is well typed: whatever refreshes, writes, reads,
\* maintenance, storage errors and crashes do, blobs and acknowledgements are named after an
\* epoch that WriteIndex or maintenance has chosen, and a Manager publishes whole snapshots.
THEOREM TypeCorrect == Spec => []TypeOK
<1>1. Init => TypeInv BY InitType, InitControl DEF TypeInv
<1>2. TypeInv => TypeOK BY DEF TypeInv
<1> QED BY <1>1, <1>2, TypeStep, PTL DEF Spec
----------------------------------------------------------------------------
(* The inductive invariant, in its parts *)

\* The write epoch has been advanced to e or beyond.
Reached(e) == e <= 0 \/ \E k \in markers : k >= e
\* The epochs of which storage has a complete single-epoch compaction.
CompleteEpochs == {e \in Epochs : CompleteSets(OfEpoch(singles, e)) # {}}

\* What a snapshot shows is in storage: the write epoch was reached, and the compactions are there
\* in whole sets.
SnapshotOK(s) ==
  /\ Reached(s.WriteEpoch)
  /\ s.SingleEpochCompactionSets \subseteq singles
  /\ CompactedEpochs(s) \subseteq CompleteEpochs
  /\ \A e \in CompactedEpochs(s), h \in Shards :
       \E b \in s.SingleEpochCompactionSets : b.epoch = e /\ b.shard = h
\* So it is for all the snapshots in memory.
Snapshots == {ZeroSnapshot} \cup {known[m] : m \in Managers} \cup {attempt[m] : m \in Managers}
               \cup {cs[p] : p \in Procs}
SnapshotsOK == \A s \in Snapshots : SnapshotOK(s)

\* An uncompacted blob holds the entries of one shard of one write.
BlobsNamed == \A b \in uncompacted : b.content = {<<b.set, b.shard>>}
\* Only settled epochs have been compacted.
CompactionsSettled == /\ \A b \in singles : Reached(b.epoch + 2)
                      /\ \A b \in ranges : Reached(b.max + 2)

\* The snapshot is not an empty one.
Loaded(s) == s.ValidUntil >= 0
\* The refresh under way has listed the single-epoch compactions.
Listed(m) == mu[m] # NoProc /\ "single" \notin loads[m]

\* Maintenance works with a snapshot it has got from committedState.
UsesState == {"compactSingle", "range", "cleanupMarkers", "cleanupIndexes", "compactList", "rangeList",
              "compactRead", "compactWrite", "deleteMarkers", "deleteIndexes"}
MaintLoaded == pc[M] \in UsesState => Loaded(cs[M])
\* It compacts a settled epoch, or a range of them.
Compacting == {"compactList", "compactRead", "compactWrite", "rangeList"}
WorkSettled ==
  /\ pc[M] \notin {"writeState", "writeRecheck", "readState"}
  /\ pc[M] \in {"compactSingle", "compactList"} => op = "compactSingle"
  /\ pc[M] \in {"range", "rangeList"} => op = "range"
  /\ pc[M] \in Compacting => Reached(hi + 2) /\ (op = "compactSingle" => lo = hi)
\* It deletes blobs of compacted epochs, and markers of epochs long past.
DoomedOK == /\ pc[M] = "deleteIndexes" => \A b \in doomed : b.epoch \in CompactedEpochs(cs[M])
            /\ pc[M] = "deleteMarkers" => \A n \in doomedMarkers : n < cs[M].WriteEpoch - 1
\* For a range checkpoint it lists the epochs that have no compaction.
RangeLists == pc[M] = "rangeList" => \A e \in toList[M] : e \notin CompactedEpochs(cs[M])
\* Later snapshots of the maintaining client show at least the compactions of its earlier ones.
Newer == \A e \in CompactedEpochs(cs[M]) :
  /\ Loaded(known[Mgr(M)]) => e \in CompactedEpochs(known[Mgr(M)])
  /\ Listed(Mgr(M)) => e \in CompactedEpochs(attempt[Mgr(M)])

StorageInv == SnapshotsOK /\ BlobsNamed /\ CompactionsSettled
MaintInv == MaintLoaded /\ WorkSettled /\ DoomedOK /\ RangeLists /\ Newer
----------------------------------------------------------------------------
(* Nothing that a snapshot relies on goes away *)

\* Storage has all the compactions it had, and no epoch becomes unreached.
Grows == singles \subseteq singles' /\ \A e \in Int : Reached(e) => Reached(e)'

\* A set that is complete stays so.
LEMMA CompleteGrows == ASSUME singles \subseteq singles' PROVE CompleteEpochs \subseteq CompleteEpochs'
<1> SUFFICES ASSUME NEW e \in CompleteEpochs PROVE e \in CompleteEpochs'
  OBVIOUS
<1>1. PICK n : n \in CompleteSets(OfEpoch(singles, e))
  BY DEF CompleteEpochs
<1>2. n \in CompleteSets(OfEpoch(singles, e))'
  BY <1>1 DEF CompleteSets, OfEpoch
<1> QED BY <1>2 DEF CompleteEpochs

\* Hence a snapshot that was right is right.
LEMMA SnapshotStays == ASSUME NEW s \in Snapshot, SnapshotOK(s), Grows PROVE SnapshotOK(s)'
<1>1. s.WriteEpoch \in Int
  BY RepositoryAssumption DEF Snapshot, Epochs
<1>2. Reached(s.WriteEpoch)'
  BY <1>1 DEF SnapshotOK, Grows
<1>3. CompactedEpochs(s) \subseteq CompleteEpochs'
  BY CompleteGrows DEF SnapshotOK, Grows
<1> QED BY <1>2, <1>3 DEF SnapshotOK, Grows, CompactedEpochs

\* Every snapshot in memory has the type of one.
LEMMA SnapshotTypes == ASSUME TypeInv PROVE Snapshots \subseteq Snapshot
  BY ZeroSnapshotType, RepositoryAssumption DEF Snapshots, TypeInv, TypeOK, ManagerOK, ProcsOK

\* So it is enough to look at the snapshots that are new.
LEMMA SnapshotsStep ==
  ASSUME TypeInv, SnapshotsOK, Grows, NEW new, SnapshotOK(new)', Snapshots' \subseteq Snapshots \cup {new}
  PROVE  SnapshotsOK'
<1> SUFFICES ASSUME NEW s \in Snapshots' PROVE SnapshotOK(s)'
  BY DEF SnapshotsOK
<1>1. CASE s = new
  BY <1>1
<1>2. CASE s \in Snapshots
  <2>1. s \in Snapshot /\ SnapshotOK(s)
    BY <1>2, SnapshotTypes DEF SnapshotsOK
  <2> QED BY <2>1, SnapshotStays
<1> QED BY <1>1, <1>2

\* The empty snapshot shows nothing.
LEMMA ZeroOK == SnapshotOK(ZeroSnapshot) /\ SnapshotOK(ZeroSnapshot)'
  BY DEF SnapshotOK, ZeroSnapshot, Reached, CompactedEpochs

\* When there are no new ones, nothing is to be shown.
LEMMA NoNewSnapshots ==
  ASSUME TypeInv, SnapshotsOK, Grows,
         \A m \in Managers : known'[m] \in Snapshots /\ attempt'[m] \in Snapshots,
         \A p \in Procs : cs'[p] \in Snapshots
  PROVE  SnapshotsOK'
<1>1. Snapshots' \subseteq Snapshots \cup {ZeroSnapshot}
  BY DEF Snapshots
<1> QED BY <1>1, ZeroOK, SnapshotsStep

\* The steps of clients leave markers and compactions alone.
ClientStep == \/ Tick \/ (\E p \in Procs : Refresh(p)) \/ (\E w \in Writers : Write(w))
              \/ (\E r \in Readers : Read(r)) \/ (\E m \in Crashable : Crash(m)) \/ UNCHANGED vars
\* Clients and crashes touch neither the markers nor the compactions.
LEMMA ClientStorage == ASSUME ClientStep PROVE UNCHANGED <<markers, singles, ranges>>
<1>1. CASE Tick
  BY <1>1 DEF Tick, storage
<1>2. ASSUME NEW p \in Procs, Refresh(p) PROVE UNCHANGED <<markers, singles, ranges>>
  BY <1>2 DEF Refresh, UseKnownState, StartRefresh, loadWriteEpoch, loadSingleEpochCompactions,
     loadRangeCheckpoints, loadUncompactedEpoch, FinishRefresh, storage
<1>3. ASSUME NEW w \in Writers, Write(w) PROVE UNCHANGED <<markers, singles, ranges>>
  BY <1>3 DEF Write, WriteIndex, ChooseWriteEpoch, CheckShardTime, DropPartialShard, PutShard, UndoShard,
     InvalidateAfterWrite, VerifyWriteEpoch, WriteIndexError, notWriting
<1>4. ASSUME NEW r \in Readers, Read(r) PROVE UNCHANGED <<markers, singles, ranges>>
  BY <1>4 DEF Read, GetCompleteIndexSet, ReadSnapshot, ReadReturn, ReadEpoch, ReadError, EndRead,
     notReading, storage
<1>5. ASSUME NEW m \in Crashable, Crash(m) PROVE UNCHANGED <<markers, singles, ranges>>
  BY <1>5 DEF Crash, storage
<1>6. CASE UNCHANGED vars
  BY <1>6 DEF vars, storage
<1> QED BY <1>1, <1>2, <1>3, <1>4, <1>5, <1>6 DEF ClientStep

\* Markers are added, and deleted when there is a later one.
LEMMA MarkersKept == ASSUME TypeInv, StorageInv, MaintInv, Maintain PROVE \A n \in markers : \E k \in markers' : k >= n
<1>i. markers \subseteq Int
  BY RepositoryAssumption DEF Epochs, TypeInv, TypeOK, StorageOK
<1>1. CASE markers \subseteq markers'
  BY <1>1, <1>i
<1>2. ASSUME NEW n \in doomedMarkers, DeleteMarker(n) PROVE \A j \in markers : \E k \in markers' : k >= j
  <2>1. pc[M] = "deleteMarkers" /\ markers' = markers \ {n}
    BY <1>2 DEF DeleteMarker
  <2>2. n < cs[M].WriteEpoch - 1
    BY <2>1 DEF MaintInv, DoomedOK
  <2>3. cs[M] \in Snapshots /\ cs[M] \in Snapshot
    BY SnapshotTypes, ProcessAssumption DEF Snapshots, Procs, M
  <2>4. Reached(cs[M].WriteEpoch)
    BY <2>3 DEF StorageInv, SnapshotsOK, SnapshotOK
  <2>5. cs[M].WriteEpoch \in Int /\ n \in Nat /\ markers \subseteq Int
    <3>1. cs[M].WriteEpoch \in Epochs /\ n \in Epochs
      BY <2>3 DEF Snapshot, TypeInv, TypeOK, MaintenanceOK
    <3> QED BY <1>i, <3>1, RepositoryAssumption DEF Epochs
  <2>6. PICK k \in markers : k >= cs[M].WriteEpoch
    BY <2>2, <2>4, <2>5 DEF Reached
  <2>7. k \in markers' /\ k > n
    BY <2>1, <2>2, <2>5, <2>6
  <2> QED BY <2>1, <2>5, <2>7
<1>3. markers \subseteq markers' \/ \E n \in doomedMarkers : DeleteMarker(n)
  BY DEF Maintain, StartMaintenance, MaybeAdvanceWriteEpoch, advanceEpochMarker, MaybeCompactSingleEpoch,
     ListEpochToCompact, MaybeGenerateRangeCheckpoint, ListRangeEpoch, CheckRangeTime, CompactEpoch,
     WritePart, CleanupMarkers, CleanupSupersededIndexes, DeleteIndex, MaintenanceError, storage
<1> QED BY <1>1, <1>2, <1>3

\* So what was reached stays so.
LEMMA MarkersGrow == ASSUME TypeInv, StorageInv, MaintInv, Maintain PROVE \A e \in Int : Reached(e) => Reached(e)'
<1>1. markers \subseteq Int /\ markers' \subseteq Int
  BY MaintainType, RepositoryAssumption DEF Epochs, TypeInv, TypeOK, StorageOK
<1> QED BY <1>1, MarkersKept DEF Reached

\* Compactions are only added.
LEMMA SinglesGrow == ASSUME Maintain PROVE singles \subseteq singles'
<1>1. ASSUME NEW s \in Shards, WritePart(s) PROVE singles \subseteq singles'
  BY <1>1 DEF WritePart
<1>2. UNCHANGED singles \/ \E s \in Shards : WritePart(s)
  BY DEF Maintain, StartMaintenance, MaybeAdvanceWriteEpoch, advanceEpochMarker, MaybeCompactSingleEpoch,
     ListEpochToCompact, MaybeGenerateRangeCheckpoint, ListRangeEpoch, CheckRangeTime, CompactEpoch,
     CleanupMarkers, DeleteMarker, CleanupSupersededIndexes, DeleteIndex, MaintenanceError, storage
<1> QED BY <1>1, <1>2

\* A step is one of a client or of maintenance.
LEMMA StepSplit == [Next]_vars => ClientStep \/ Maintain
  BY DEF Next, ClientStep

\* No step takes a compaction away or makes an epoch unreached.
LEMMA GrowsStep == ASSUME TypeInv, StorageInv, MaintInv, [Next]_vars PROVE Grows
<1>1. CASE ClientStep
  BY <1>1, ClientStorage DEF Grows, Reached
<1>2. CASE Maintain
  BY <1>2, MarkersGrow, SinglesGrow DEF Grows
<1> QED BY <1>1, <1>2, StepSplit
----------------------------------------------------------------------------
(* The snapshots *)

\* Reading the cached snapshot or giving up a refresh makes no new snapshot; a refresh fills one with
\* what storage has at that moment.
LEMMA LoadWriteEpochOK ==
  ASSUME TypeInv, StorageInv, Grows, NEW p \in Procs, loadWriteEpoch(p) PROVE SnapshotsOK'
<1> DEFINE m == Mgr(p)
<1>m. m \in Managers
  BY ProcessAssumption DEF Mgr
<1>1. PICK w \in markers \cup {0} : attempt' = [attempt EXCEPT ![m].WriteEpoch = w, ![m].EpochMarkerBlobs = markers]
  BY DEF loadWriteEpoch
<1>2. attempt[m] \in Snapshot /\ attempt[m] \in Snapshots /\ attempt \in [Managers -> Snapshot]
  BY <1>m DEF TypeInv, TypeOK, ManagerOK, Snapshots
<1>3. /\ UNCHANGED <<known, cs, markers, singles>>
      /\ \A n \in Managers : attempt'[n] = attempt[n] \/ n = m
  BY <1>1, <1>2, <1>m DEF loadWriteEpoch, storage
<1>4. /\ attempt'[m].WriteEpoch = w
      /\ attempt'[m].SingleEpochCompactionSets = attempt[m].SingleEpochCompactionSets
  BY <1>1, <1>2, <1>m DEF Snapshot
<1>5. SnapshotOK(attempt[m])
  BY <1>2 DEF StorageInv, SnapshotsOK
<1>6. Reached(w)'
  BY <1>3, RepositoryAssumption DEF Reached, TypeInv, TypeOK, StorageOK, Epochs
<1>n. PICK new : new = attempt'[m]
  OBVIOUS
<1>7. SnapshotOK(new)'
  BY <1>n, <1>3, <1>4, <1>5, <1>6 DEF SnapshotOK, CompactedEpochs, CompleteEpochs
<1>8. Snapshots' \subseteq Snapshots \cup {new}
  BY <1>n, <1>3 DEF Snapshots
<1> QED BY <1>7, <1>8, SnapshotsStep DEF StorageInv

\* Other fields than the write epoch and the single-epoch compactions do not matter.
LEMMA AttemptFilled ==
  ASSUME TypeInv, StorageInv, UNCHANGED <<markers, singles, known, cs>>, NEW m \in Managers,
         \A n \in Managers \ {m} : attempt'[n] = attempt[n],
         attempt'[m].WriteEpoch = attempt[m].WriteEpoch,
         attempt'[m].SingleEpochCompactionSets = attempt[m].SingleEpochCompactionSets
  PROVE  SnapshotsOK'
<1>n. PICK new : new = attempt'[m]
  OBVIOUS
<1>1. SnapshotOK(attempt[m])
  BY DEF StorageInv, SnapshotsOK, Snapshots
<1>2. SnapshotOK(new)'
  BY <1>n, <1>1 DEF SnapshotOK, CompactedEpochs, CompleteEpochs, Reached
<1>3. Snapshots' \subseteq Snapshots \cup {new}
  BY <1>n DEF Snapshots
<1>4. Grows
  BY DEF Grows, Reached
<1> QED BY <1>2, <1>3, <1>4, SnapshotsStep DEF StorageInv

\* A listing of the single-epoch compactions picks a whole set of every epoch that has one.
LEMMA SinglesListed ==
  ASSUME TypeInv, NEW p \in Procs, loadSingleEpochCompactions(p)
  PROVE  LET s == attempt'[Mgr(p)] IN
         /\ s.WriteEpoch = attempt[Mgr(p)].WriteEpoch /\ s.ValidUntil = attempt[Mgr(p)].ValidUntil
         /\ s.SingleEpochCompactionSets \subseteq singles
         /\ CompactedEpochs(s) = CompleteEpochs
         /\ \A e \in CompactedEpochs(s), h \in Shards :
              \E b \in s.SingleEpochCompactionSets : b.epoch = e /\ b.shard = h
<1> DEFINE m == Mgr(p)
           es == {e \in Epochs : CompleteSets(OfEpoch(singles, e)) # {}}
<1>m. m \in Managers /\ attempt \in [Managers -> Snapshot]
  BY ProcessAssumption DEF Mgr, TypeInv, TypeOK, ManagerOK
<1>1. PICK pick \in [es -> 0..MaxSets] :
        /\ \A e \in es : pick[e] \in CompleteSets(OfEpoch(singles, e))
        /\ attempt' = [attempt EXCEPT ![m].SingleEpochCompactionSets =
                         {b \in singles : b.epoch \in es /\ b.set = pick[b.epoch]}]
  BY DEF loadSingleEpochCompactions
<1>n. PICK s : s = attempt'[m]
  OBVIOUS
<1>2. /\ s.WriteEpoch = attempt[m].WriteEpoch /\ s.ValidUntil = attempt[m].ValidUntil
      /\ s.SingleEpochCompactionSets = {b \in singles : b.epoch \in es /\ b.set = pick[b.epoch]}
  BY <1>1, <1>m, <1>n DEF Snapshot
<1>3. \A e \in es, h \in Shards : \E b \in s.SingleEpochCompactionSets : b.epoch = e /\ b.shard = h
  <2> SUFFICES ASSUME NEW e \in es, NEW h \in Shards
               PROVE  \E b \in s.SingleEpochCompactionSets : b.epoch = e /\ b.shard = h
    OBVIOUS
  <2>1. PICK b \in OfEpoch(singles, e) : b.set = pick[e] /\ b.shard = h
    BY <1>1 DEF CompleteSets
  <2> QED BY <2>1, <1>2 DEF OfEpoch
<1>4. PICK h \in Shards : TRUE
  BY RepositoryAssumption
<1>5. CompactedEpochs(s) = es
  <2>1. CompactedEpochs(s) \subseteq es
    BY <1>2 DEF CompactedEpochs
  <2>2. es \subseteq CompactedEpochs(s)
    BY <1>3, <1>4 DEF CompactedEpochs
  <2> QED BY <2>1, <2>2
<1>6. CompactedEpochs(s) = CompleteEpochs
  BY <1>5 DEF CompleteEpochs
<1>7. \A e \in CompactedEpochs(s), k \in Shards : \E b \in s.SingleEpochCompactionSets : b.epoch = e /\ b.shard = k
  BY <1>3, <1>5
<1>8. s.SingleEpochCompactionSets \subseteq singles
  BY <1>2
<1> QED BY <1>2, <1>6, <1>7, <1>8, <1>n

\* loadSingleEpochCompactions takes whole sets that are in storage.
LEMMA LoadSinglesOK ==
  ASSUME TypeInv, StorageInv, NEW p \in Procs, loadSingleEpochCompactions(p) PROVE SnapshotsOK'
<1>m. Mgr(p) \in Managers /\ attempt \in [Managers -> Snapshot]
  BY ProcessAssumption DEF Mgr, TypeInv, TypeOK, ManagerOK
<1>n. PICK new : new = attempt'[Mgr(p)]
  OBVIOUS
<1>0. PICK v : attempt' = [attempt EXCEPT ![Mgr(p)].SingleEpochCompactionSets = v]
  BY DEF loadSingleEpochCompactions
<1>1. /\ UNCHANGED <<known, cs, markers, singles>>
      /\ \A n \in Managers : attempt'[n] = attempt[n] \/ n = Mgr(p)
  BY <1>0, <1>m DEF loadSingleEpochCompactions, storage
<1>2. Grows
  BY <1>1 DEF Grows, Reached
<1>3. Reached(attempt[Mgr(p)].WriteEpoch)
  BY <1>m DEF StorageInv, SnapshotsOK, Snapshots, SnapshotOK
<1>4. SnapshotOK(new)'
  <2>1. /\ new.WriteEpoch = attempt[Mgr(p)].WriteEpoch /\ new.SingleEpochCompactionSets \subseteq singles
        /\ CompactedEpochs(new) = CompleteEpochs
        /\ \A e \in CompactedEpochs(new), h \in Shards :
             \E b \in new.SingleEpochCompactionSets : b.epoch = e /\ b.shard = h
    BY <1>n, SinglesListed
  <2>2. CompleteEpochs' = CompleteEpochs
    BY <1>1 DEF CompleteEpochs
  <2> QED BY <2>1, <2>2, <1>1, <1>3 DEF SnapshotOK, Reached, CompactedEpochs
<1>5. Snapshots' \subseteq Snapshots \cup {new}
  BY <1>1, <1>n DEF Snapshots
<1> QED BY <1>2, <1>4, <1>5, SnapshotsStep DEF StorageInv

\* A refresh begins with a snapshot that shows nothing.
LEMMA BeginOK ==
  ASSUME TypeInv, NEW m \in Managers, BeginAttempt(m)
  PROVE  /\ \A n \in Managers \ {m} : attempt'[n] = attempt[n]
         /\ attempt'[m].WriteEpoch = 0 /\ attempt'[m].SingleEpochCompactionSets = {}
         /\ loads'[m] = {"writeEpoch", "single", "range"} /\ \A n \in Managers \ {m} : loads'[n] = loads[n]
<1>1. attempt \in [Managers -> Snapshot] /\ loads \in [Managers -> SUBSET {"writeEpoch", "single", "range"}]
  BY DEF TypeInv, TypeOK, ManagerOK
<1> QED BY <1>1 DEF BeginAttempt, ZeroSnapshot

\* Starting an attempt keeps what snapshots show in storage.
LEMMA BeginSnapshots ==
  ASSUME TypeInv, StorageInv, NEW m \in Managers, BeginAttempt(m), UNCHANGED <<markers, singles, known, cs>>
  PROVE  SnapshotsOK'
<1>n. PICK new : new = attempt'[m]
  OBVIOUS
<1>1. SnapshotOK(new)'
  BY <1>n, BeginOK DEF SnapshotOK, Reached, CompactedEpochs
<1>2. Snapshots' \subseteq Snapshots \cup {new}
  BY <1>n, BeginOK DEF Snapshots
<1>3. Grows
  BY DEF Grows, Reached
<1> QED BY <1>1, <1>2, <1>3, SnapshotsStep DEF StorageInv

\* A refresh only fills snapshots with what is in storage.
LEMMA RefreshSnapshots == ASSUME TypeInv, StorageInv, NEW p \in Procs, Refresh(p) PROVE SnapshotsOK'
<1>m. /\ Mgr(p) \in Managers /\ attempt \in [Managers -> Snapshot] /\ known \in [Managers -> Snapshot]
      /\ cs \in [Procs -> Snapshot]
  BY ProcessAssumption DEF Mgr, TypeInv, TypeOK, ManagerOK, ProcsOK
<1>g. Grows
  BY ClientStorage DEF ClientStep, Grows, Reached
<1>s. SnapshotsOK
  BY DEF StorageInv
<1>1. CASE UseKnownState(p)
  <2>1. UNCHANGED <<known, attempt>> /\ \A q \in Procs : cs'[q] = cs[q] \/ cs'[q] = known[Mgr(p)]
    BY <1>1, <1>m DEF UseKnownState, manager
  <2> QED BY <2>1, <1>m, <1>g, <1>s, NoNewSnapshots DEF Snapshots
<1>2. CASE StartRefresh(p)
  <2>1. BeginAttempt(Mgr(p)) /\ UNCHANGED <<markers, singles, known, cs>>
    BY <1>2 DEF StartRefresh, storage
  <2> QED BY <2>1, <1>m, BeginSnapshots
<1>3. CASE loadWriteEpoch(p)
  BY <1>3, <1>g, LoadWriteEpochOK
<1>4. CASE loadSingleEpochCompactions(p)
  BY <1>4, LoadSinglesOK
<1>5. CASE loadRangeCheckpoints(p)
  <2>1. PICK c : attempt' = [attempt EXCEPT ![Mgr(p)].LongestRangeCheckpointSets = c]
    BY <1>5 DEF loadRangeCheckpoints
  <2>2. /\ \A n \in Managers \ {Mgr(p)} : attempt'[n] = attempt[n]
        /\ attempt'[Mgr(p)].WriteEpoch = attempt[Mgr(p)].WriteEpoch
        /\ attempt'[Mgr(p)].SingleEpochCompactionSets = attempt[Mgr(p)].SingleEpochCompactionSets
    BY <2>1, <1>m DEF Snapshot
  <2>3. UNCHANGED <<markers, singles, known, cs>>
    BY <1>5 DEF loadRangeCheckpoints, storage
  <2> QED BY <2>2, <2>3, <1>m, AttemptFilled
<1>6. ASSUME NEW e \in 0..MaxEpoch + 1, loadUncompactedEpoch(p, e) PROVE SnapshotsOK'
  <2>1. PICK c : attempt' = [attempt EXCEPT ![Mgr(p)].UncompactedEpochSets = c]
    BY <1>6 DEF loadUncompactedEpoch
  <2>2. /\ \A n \in Managers \ {Mgr(p)} : attempt'[n] = attempt[n]
        /\ attempt'[Mgr(p)].WriteEpoch = attempt[Mgr(p)].WriteEpoch
        /\ attempt'[Mgr(p)].SingleEpochCompactionSets = attempt[Mgr(p)].SingleEpochCompactionSets
    BY <2>1, <1>m DEF Snapshot
  <2>3. UNCHANGED <<markers, singles, known, cs>>
    BY <1>6 DEF loadUncompactedEpoch, storage
  <2> QED BY <2>2, <2>3, <1>m, AttemptFilled
<1>7. CASE FinishRefresh(p)
  <2>1. CASE BeginAttempt(Mgr(p)) /\ UNCHANGED <<mu, known, pc, cs>>
    <3>1. UNCHANGED <<markers, singles, known, cs>>
      BY <1>7, <2>1 DEF FinishRefresh, storage
    <3> QED BY <2>1, <3>1, <1>m, BeginSnapshots
  <2>2. CASE /\ known' = [known EXCEPT ![Mgr(p)] = attempt[Mgr(p)]]
             /\ cs' = [cs EXCEPT ![p] = attempt[Mgr(p)]]
             /\ attempt' = [attempt EXCEPT ![Mgr(p)] = ZeroSnapshot]
    <3>1. /\ \A n \in Managers : known'[n] = known[n] \/ known'[n] = attempt[Mgr(p)]
          /\ \A n \in Managers : attempt'[n] = attempt[n] \/ attempt'[n] = ZeroSnapshot
          /\ \A q \in Procs : cs'[q] = cs[q] \/ cs'[q] = attempt[Mgr(p)]
      BY <2>2, <1>m
    <3> QED BY <3>1, <1>m, <1>g, <1>s, NoNewSnapshots DEF Snapshots
  <2> QED BY <1>7, <2>1, <2>2 DEF FinishRefresh
<1> QED BY <1>1, <1>2, <1>3, <1>4, <1>5, <1>6, <1>7 DEF Refresh
----------------------------------------------------------------------------
(* What the steps of others leave to maintenance *)

\* The maintainer is where it was.
MaintainerRests == /\ UNCHANGED <<op, lo, hi, blobs, content, doomed, doomedMarkers>>
                   /\ pc'[M] = pc[M] /\ cs'[M] = cs[M] /\ toList'[M] = toList[M]
\* Its client's snapshots stay, or are emptied.
KnownRests == known'[Mgr(M)] = known[Mgr(M)] \/ known'[Mgr(M)] = ZeroSnapshot
AttemptRests == Listed(Mgr(M))' => /\ Listed(Mgr(M))
                                   /\ attempt'[Mgr(M)].SingleEpochCompactionSets = attempt[Mgr(M)].SingleEpochCompactionSets

\* The snapshot of a Manager that has not loaded anything.
LEMMA ZeroNotLoaded == ~Loaded(ZeroSnapshot) /\ CompactedEpochs(ZeroSnapshot) = {}
  BY DEF Loaded, ZeroSnapshot, CompactedEpochs

\* What maintenance relies on holds as long as nothing of it changes and storage grows.
LEMMA MaintRests ==
  ASSUME TypeInv, MaintInv, Grows, MaintainerRests, KnownRests, AttemptRests PROVE MaintInv'
<1>1. MaintLoaded' /\ DoomedOK' /\ RangeLists'
  BY DEF MaintInv, MaintLoaded, DoomedOK, RangeLists, MaintainerRests, Loaded, CompactedEpochs
<1>2. WorkSettled'
  <2>1. hi + 2 \in Int
    BY DEF TypeInv, TypeOK, MaintenanceOK
  <2> QED BY <2>1 DEF MaintInv, WorkSettled, MaintainerRests, Grows, Reached
<1>3. Newer'
  <2> SUFFICES ASSUME NEW e \in CompactedEpochs(cs[M])
               PROVE  /\ Loaded(known'[Mgr(M)]) => e \in CompactedEpochs(known'[Mgr(M)])
                      /\ Listed(Mgr(M))' => e \in CompactedEpochs(attempt'[Mgr(M)])
    BY DEF Newer, MaintainerRests, Loaded, CompactedEpochs, Mgr
  <2>1. /\ Loaded(known[Mgr(M)]) => e \in CompactedEpochs(known[Mgr(M)])
        /\ Listed(Mgr(M)) => e \in CompactedEpochs(attempt[Mgr(M)])
    BY DEF MaintInv, Newer
  <2>2. Listed(Mgr(M))' => e \in CompactedEpochs(attempt'[Mgr(M)])
    BY <2>1 DEF AttemptRests, CompactedEpochs
  <2>3. Loaded(known'[Mgr(M)]) => e \in CompactedEpochs(known'[Mgr(M)])
    BY <2>1, ZeroNotLoaded DEF KnownRests
  <2> QED BY <2>2, <2>3
<1> QED BY <1>1, <1>2, <1>3 DEF MaintInv

\* WriteIndex works on its own locals, and puts and deletes its own blobs.
LEMMA WriteFrame ==
  ASSUME TypeInv, NEW w \in Writers, Write(w)
  PROVE  /\ MaintainerRests /\ UNCHANGED <<markers, singles, ranges, mu, attempt, loads, listed>>
         /\ \A n \in Managers : known'[n] = known[n] \/ known'[n] = ZeroSnapshot
         /\ \A q \in Procs \ {w} : pc'[q] = pc[q] /\ cs'[q] = cs[q]
         /\ cs'[w] = cs[w] \/ cs'[w] = ZeroSnapshot
         /\ \A b \in uncompacted' : b \in uncompacted \/ \E h \in Shards : b = Blob(w, h, writtenFor[w], now)
         /\ \A b \in uncompacted : b \in uncompacted' \/ b.set = w
<1>m. M \in Procs \ {w} /\ w \in Procs /\ Mgr(w) \in Managers
  BY ProcessAssumption DEF Procs, M, Mgr
<1>t. pc \in [Procs -> Places] /\ cs \in [Procs -> Snapshot] /\ known \in [Managers -> Snapshot]
  BY DEF TypeInv, TypeOK, ProcsOK, ManagerOK
<1>1. UNCHANGED <<op, lo, hi, blobs, content, doomed, doomedMarkers, toList, markers, singles, ranges, mu, attempt, loads, listed>>
  BY DEF Write, WriteIndex, ChooseWriteEpoch, CheckShardTime, DropPartialShard, PutShard, UndoShard,
     InvalidateAfterWrite, VerifyWriteEpoch, WriteIndexError, notWriting, maint, reading, manager
<1>2. known' = known \/ known' = [known EXCEPT ![Mgr(w)] = ZeroSnapshot]
  BY DEF Write, WriteIndex, ChooseWriteEpoch, CheckShardTime, DropPartialShard, PutShard, UndoShard,
     InvalidateAfterWrite, VerifyWriteEpoch, WriteIndexError, manager
<1>3. pc' = pc \/ \E l : pc' = [pc EXCEPT ![w] = l]
  BY DEF Write, WriteIndex, ChooseWriteEpoch, CheckShardTime, DropPartialShard, PutShard, UndoShard,
     InvalidateAfterWrite, VerifyWriteEpoch, WriteIndexError, Goto, Leave
<1>4. cs' = cs \/ cs' = [cs EXCEPT ![w] = ZeroSnapshot]
  BY DEF Write, WriteIndex, ChooseWriteEpoch, CheckShardTime, DropPartialShard, PutShard, UndoShard,
     InvalidateAfterWrite, VerifyWriteEpoch, WriteIndexError, Leave
<1>5. \A b \in uncompacted' : b \in uncompacted \/ \E h \in Shards : b = Blob(w, h, writtenFor[w], now)
  BY DEF Write, WriteIndex, ChooseWriteEpoch, CheckShardTime, DropPartialShard, PutShard, UndoShard,
     InvalidateAfterWrite, VerifyWriteEpoch, WriteIndexError, DeleteShard
<1>6. \A b \in uncompacted : b \in uncompacted' \/ b.set = w
  BY DEF Write, WriteIndex, ChooseWriteEpoch, CheckShardTime, DropPartialShard, PutShard, UndoShard,
     InvalidateAfterWrite, VerifyWriteEpoch, WriteIndexError, DeleteShard
<1>7. \A q \in Procs \ {w} : pc'[q] = pc[q] /\ cs'[q] = cs[q]
  BY <1>3, <1>4, <1>t
<1>8. (\A n \in Managers : known'[n] = known[n] \/ known'[n] = ZeroSnapshot) /\ (cs'[w] = cs[w] \/ cs'[w] = ZeroSnapshot)
  BY <1>2, <1>4, <1>t, <1>m
<1> QED BY <1>1, <1>5, <1>6, <1>7, <1>8, <1>m DEF MaintainerRests

\* GetCompleteIndexSet works on its own locals.
LEMMA ReadFrame ==
  ASSUME TypeInv, NEW r \in Readers, Read(r)
  PROVE  /\ MaintainerRests /\ UNCHANGED <<storage, manager, writing, acked>>
         /\ \A q \in Procs \ {r} : pc'[q] = pc[q] /\ cs'[q] = cs[q]
         /\ cs'[r] = cs[r] \/ cs'[r] = ZeroSnapshot
<1>m. M \in Procs \ {r} /\ r \in Procs
  BY ProcessAssumption DEF Procs, M
<1>t. pc \in [Procs -> Places] /\ cs \in [Procs -> Snapshot] /\ toList \in [Procs -> SUBSET Int]
  BY DEF TypeInv, TypeOK, ProcsOK
<1>1. UNCHANGED <<storage, manager, writing, acked, maint>>
  BY DEF Read, GetCompleteIndexSet, ReadSnapshot, ReadReturn, ReadEpoch, ReadError, EndRead, notReading
<1>2. pc' = pc \/ \E l : pc' = [pc EXCEPT ![r] = l]
  BY DEF Read, GetCompleteIndexSet, ReadSnapshot, ReadReturn, ReadEpoch, ReadError, EndRead, Goto, Leave
<1>3. cs' = cs \/ cs' = [cs EXCEPT ![r] = ZeroSnapshot]
  BY DEF Read, GetCompleteIndexSet, ReadSnapshot, ReadReturn, ReadEpoch, ReadError, EndRead, Leave
<1>4. toList' = toList \/ \E l : toList' = [toList EXCEPT ![r] = l]
  BY DEF Read, GetCompleteIndexSet, ReadSnapshot, ReadReturn, ReadEpoch, ReadError, EndRead
<1>5. \A q \in Procs \ {r} : pc'[q] = pc[q] /\ cs'[q] = cs[q] /\ toList'[q] = toList[q]
  BY <1>2, <1>3, <1>4, <1>t
<1>6. cs'[r] = cs[r] \/ cs'[r] = ZeroSnapshot
  BY <1>3, <1>t, <1>m
<1> QED BY <1>1, <1>5, <1>6, <1>m DEF MaintainerRests, maint

\* A crash empties the snapshots of a client and ends its calls; storage stays.
LEMMA CrashFrame ==
  ASSUME TypeInv, NEW m \in Crashable, Crash(m)
  PROVE  /\ UNCHANGED <<storage, writing, acked>>
         /\ \A n \in Managers \ {m} : known'[n] = known[n] /\ attempt'[n] = attempt[n] /\ mu'[n] = mu[n] /\ loads'[n] = loads[n]
         /\ known'[m] = ZeroSnapshot /\ attempt'[m] = ZeroSnapshot /\ mu'[m] = NoProc
         /\ \A q \in Procs : \/ pc'[q] = pc[q] /\ cs'[q] = cs[q] /\ toList'[q] = toList[q]
                             \/ pc'[q] = (IF q \in Writers THEN "failed" ELSE "idle") /\ cs'[q] = ZeroSnapshot /\ Active(q)
         /\ MaintainerRests \/ (pc'[M] = "idle" /\ cs'[M] = ZeroSnapshot)
<1> DEFINE dead == {p \in Procs : Mgr(p) = m /\ Active(p)}
<1>m. m \in Managers /\ M \in Procs /\ M \notin Writers
  BY ProcessAssumption DEF Procs, M
<1>t. /\ known \in [Managers -> Snapshot] /\ attempt \in [Managers -> Snapshot]
      /\ mu \in [Managers -> Procs \cup {NoProc}] /\ loads \in [Managers -> SUBSET {"writeEpoch", "single", "range"}]
  BY DEF TypeInv, TypeOK, ManagerOK
<1>1. /\ UNCHANGED <<storage, writing, acked>>
      /\ known' = [known EXCEPT ![m] = ZeroSnapshot] /\ attempt' = [attempt EXCEPT ![m] = ZeroSnapshot]
      /\ mu' = [mu EXCEPT ![m] = NoProc] /\ loads' = [loads EXCEPT ![m] = {}]
      /\ pc' = [p \in Procs |-> IF p \notin dead THEN pc[p] ELSE IF p \in Writers THEN "failed" ELSE "idle"]
      /\ cs' = [p \in Procs |-> IF p \in dead THEN ZeroSnapshot ELSE cs[p]]
      /\ toList' = [p \in Procs |-> IF p \in dead THEN {} ELSE toList[p]]
      /\ M \in dead \/ UNCHANGED maint
  BY DEF Crash
<1>2. \A q \in dead : Active(q)
  OBVIOUS
<1> HIDE DEF dead
<1>3. \A q \in Procs : \/ pc'[q] = pc[q] /\ cs'[q] = cs[q] /\ toList'[q] = toList[q]
                       \/ pc'[q] = (IF q \in Writers THEN "failed" ELSE "idle") /\ cs'[q] = ZeroSnapshot /\ Active(q)
  BY <1>1, <1>2
<1>4. MaintainerRests \/ (pc'[M] = "idle" /\ cs'[M] = ZeroSnapshot)
  BY <1>1, <1>m DEF MaintainerRests, maint
<1>5. /\ \A n \in Managers \ {m} : known'[n] = known[n] /\ attempt'[n] = attempt[n] /\ mu'[n] = mu[n] /\ loads'[n] = loads[n]
      /\ known'[m] = ZeroSnapshot /\ attempt'[m] = ZeroSnapshot /\ mu'[m] = NoProc
  BY <1>1, <1>t, <1>m
<1> QED BY <1>1, <1>3, <1>4, <1>5

\* committedState works on the Manager's snapshots and on the one of its caller.
LEMMA RefreshFrame ==
  ASSUME TypeInv, NEW p \in Procs, Refresh(p)
  PROVE  /\ UNCHANGED <<storage, writing, acked, maint, toList>>
         /\ \A q \in Procs \ {p} : pc'[q] = pc[q] /\ cs'[q] = cs[q]
         /\ \/ pc'[p] = pc[p] /\ cs'[p] = cs[p]
            \/ pc[p] \in WaitsForState /\ pc'[p] = Continue(p) /\ Loaded(cs'[p])
<1>t. /\ pc \in [Procs -> Places] /\ cs \in [Procs -> Snapshot] /\ now \in Nat
      /\ known \in [Managers -> Snapshot] /\ attempt \in [Managers -> Snapshot] /\ Mgr(p) \in Managers
  BY ProcessAssumption DEF TypeInv, TypeOK, ProcsOK, StorageOK, ManagerOK, Mgr
<1>1. UNCHANGED <<storage, writing, acked, maint, toList>>
  BY DEF Refresh, UseKnownState, StartRefresh, loadWriteEpoch, loadSingleEpochCompactions,
     loadRangeCheckpoints, loadUncompactedEpoch, FinishRefresh, reading
<1>2. CASE UseKnownState(p)
  <2>1. /\ cs' = [cs EXCEPT ![p] = known[Mgr(p)]] /\ pc' = [pc EXCEPT ![p] = Continue(p)]
        /\ pc[p] \in WaitsForState /\ ~Stale(p)
    BY <1>2 DEF UseKnownState
  <2>2. ensureMinTime(p) \in Nat
    BY ParametersAssumption DEF ensureMinTime
  <2>3. known[Mgr(p)].ValidUntil \in Int
    BY <1>t DEF Snapshot
  <2>4. Loaded(known[Mgr(p)])
    BY <2>1, <2>2, <2>3, <1>t DEF Stale, Loaded
  <2> QED BY <1>1, <2>1, <2>4, <1>t
<1>3. CASE FinishRefresh(p) /\ pc' # pc
  <2>1. /\ cs' = [cs EXCEPT ![p] = attempt[Mgr(p)]] /\ pc' = [pc EXCEPT ![p] = Continue(p)]
        /\ now <= attempt[Mgr(p)].ValidUntil /\ mu[Mgr(p)] = p
    BY <1>3 DEF FinishRefresh
  <2>2. attempt[Mgr(p)].ValidUntil \in Int
    BY <1>t DEF Snapshot
  <2>3. Loaded(attempt[Mgr(p)])
    BY <2>1, <2>2, <1>t DEF Loaded
  <2>4. pc[p] \in WaitsForState
    BY <2>1 DEF TypeInv, MutexHeld
  <2> QED BY <1>1, <2>1, <2>3, <2>4, <1>t
<1>4. CASE FinishRefresh(p) /\ pc' = pc
  <2>1. UNCHANGED <<pc, cs>> \/ (/\ cs' = [cs EXCEPT ![p] = attempt[Mgr(p)]] /\ pc' = [pc EXCEPT ![p] = Continue(p)]
                                /\ now <= attempt[Mgr(p)].ValidUntil /\ mu[Mgr(p)] = p)
    BY <1>4 DEF FinishRefresh
  <2>2. attempt[Mgr(p)].ValidUntil \in Int
    BY <1>t DEF Snapshot
  <2>3. mu[Mgr(p)] = p => pc[p] \in WaitsForState
    BY DEF TypeInv, MutexHeld
  <2> QED BY <1>1, <2>1, <2>2, <2>3, <1>t DEF Loaded
<1>5. CASE UNCHANGED <<pc, cs>>
  BY <1>1, <1>5
<1> QED BY <1>2, <1>3, <1>4, <1>5 DEF Refresh, StartRefresh, loadWriteEpoch, loadSingleEpochCompactions,
     loadRangeCheckpoints, loadUncompactedEpoch

\* How a refresh changes what a Manager knows of the compactions: its cached snapshot becomes the
\* one that was assembled, and that one gets the compactions it had, or all that are complete.
RefreshEffect(m) ==
  /\ known'[m] = known[m] \/ (Listed(m) /\ known'[m] = attempt[m] /\ ~Listed(m)')
  /\ Listed(m)' => \/ /\ Listed(m)
                      /\ attempt'[m].SingleEpochCompactionSets = attempt[m].SingleEpochCompactionSets
                   \/ CompactedEpochs(attempt'[m]) = CompleteEpochs
\* Every step of a refresh has this effect.
LEMMA RefreshEffects ==
  ASSUME TypeInv, NEW p \in Procs, Refresh(p), NEW m \in Managers PROVE RefreshEffect(m)
<1>t. /\ known \in [Managers -> Snapshot] /\ attempt \in [Managers -> Snapshot] /\ Mgr(p) \in Managers
      /\ mu \in [Managers -> Procs \cup {NoProc}] /\ loads \in [Managers -> SUBSET {"writeEpoch", "single", "range"}]
      /\ p # NoProc
  BY ProcessAssumption DEF TypeInv, TypeOK, ManagerOK, Mgr
<1>1. CASE UseKnownState(p)
  BY <1>1 DEF UseKnownState, manager, RefreshEffect, Listed
<1>2. CASE StartRefresh(p)
  <2>1. BeginAttempt(Mgr(p)) /\ known' = known /\ mu' = [mu EXCEPT ![Mgr(p)] = p]
    BY <1>2 DEF StartRefresh
  <2>2. m # Mgr(p) => loads'[m] = loads[m] /\ attempt'[m] = attempt[m] /\ mu'[m] = mu[m]
    BY <2>1, <1>t, BeginOK
  <2>3. m = Mgr(p) => "single" \in loads'[m]
    BY <2>1, <1>t, BeginOK
  <2> QED BY <2>1, <2>2, <2>3 DEF RefreshEffect, Listed
<1>3. CASE loadWriteEpoch(p)
  <2>1. PICK w : attempt' = [attempt EXCEPT ![Mgr(p)].WriteEpoch = w, ![Mgr(p)].EpochMarkerBlobs = markers]
    BY <1>3 DEF loadWriteEpoch
  <2>2. loads' = [loads EXCEPT ![Mgr(p)] = @ \ {"writeEpoch"}] /\ UNCHANGED <<known, mu>>
    BY <1>3 DEF loadWriteEpoch, Loading
  <2>3. attempt'[m].SingleEpochCompactionSets = attempt[m].SingleEpochCompactionSets
    BY <2>1, <1>t DEF Snapshot
  <2>4. "single" \notin loads'[m] => "single" \notin loads[m]
    BY <2>2, <1>t
  <2> QED BY <2>2, <2>3, <2>4 DEF RefreshEffect, Listed
<1>4. CASE loadSingleEpochCompactions(p)
  <2>1. PICK v : attempt' = [attempt EXCEPT ![Mgr(p)].SingleEpochCompactionSets = v]
    BY <1>4 DEF loadSingleEpochCompactions
  <2>2. loads' = [loads EXCEPT ![Mgr(p)] = @ \ {"single"}] /\ UNCHANGED <<known, mu>>
    BY <1>4 DEF loadSingleEpochCompactions, Loading
  <2>3. m # Mgr(p) => attempt'[m] = attempt[m] /\ loads'[m] = loads[m]
    BY <2>1, <2>2, <1>t
  <2>4. m = Mgr(p) => CompactedEpochs(attempt'[m]) = CompleteEpochs
    BY <1>4, SinglesListed
  <2> QED BY <2>2, <2>3, <2>4 DEF RefreshEffect, Listed
<1>5. CASE loadRangeCheckpoints(p)
  <2>1. PICK c : attempt' = [attempt EXCEPT ![Mgr(p)].LongestRangeCheckpointSets = c]
    BY <1>5 DEF loadRangeCheckpoints
  <2>2. loads' = [loads EXCEPT ![Mgr(p)] = @ \ {"range"}] /\ UNCHANGED <<known, mu>>
    BY <1>5 DEF loadRangeCheckpoints, Loading
  <2>3. attempt'[m].SingleEpochCompactionSets = attempt[m].SingleEpochCompactionSets
    BY <2>1, <1>t DEF Snapshot
  <2>4. "single" \notin loads'[m] => "single" \notin loads[m]
    BY <2>2, <1>t
  <2> QED BY <2>2, <2>3, <2>4 DEF RefreshEffect, Listed
<1>6. ASSUME NEW e \in 0..MaxEpoch + 1, loadUncompactedEpoch(p, e) PROVE RefreshEffect(m)
  <2>1. PICK c : attempt' = [attempt EXCEPT ![Mgr(p)].UncompactedEpochSets = c]
    BY <1>6 DEF loadUncompactedEpoch
  <2>2. UNCHANGED <<known, mu, loads>>
    BY <1>6 DEF loadUncompactedEpoch
  <2>3. attempt'[m].SingleEpochCompactionSets = attempt[m].SingleEpochCompactionSets
    BY <2>1, <1>t DEF Snapshot
  <2> QED BY <2>2, <2>3 DEF RefreshEffect, Listed
<1>7. CASE FinishRefresh(p)
  <2>1. CASE BeginAttempt(Mgr(p)) /\ UNCHANGED <<mu, known, pc, cs>>
    <3>1. m # Mgr(p) => loads'[m] = loads[m] /\ attempt'[m] = attempt[m]
      BY <2>1, <1>t, BeginOK
    <3>2. m = Mgr(p) => "single" \in loads'[m]
      BY <2>1, <1>t, BeginOK
    <3> QED BY <2>1, <3>1, <3>2 DEF RefreshEffect, Listed
  <2>2. CASE /\ known' = [known EXCEPT ![Mgr(p)] = attempt[Mgr(p)]]
             /\ mu' = [mu EXCEPT ![Mgr(p)] = NoProc]
             /\ attempt' = [attempt EXCEPT ![Mgr(p)] = ZeroSnapshot]
             /\ UNCHANGED loads
    <3>1. mu[Mgr(p)] = p /\ loads[Mgr(p)] = {}
      BY <1>7 DEF FinishRefresh
    <3>2. CASE m = Mgr(p)
      BY <2>2, <3>1, <3>2, <1>t DEF RefreshEffect, Listed
    <3>3. CASE m # Mgr(p)
      BY <2>2, <3>3, <1>t DEF RefreshEffect, Listed
    <3> QED BY <3>2, <3>3
  <2> QED BY <1>7, <2>1, <2>2 DEF FinishRefresh
<1> QED BY <1>1, <1>2, <1>3, <1>4, <1>5, <1>6, <1>7 DEF Refresh

\* The maintainer's own refresh gives it what its Manager knows then.
LEMMA MaintRefreshed ==
  ASSUME TypeInv, Refresh(M), cs'[M] # cs[M] PROVE cs'[M] = known'[Mgr(M)] /\ ~Listed(Mgr(M))'
<1>t. /\ cs \in [Procs -> Snapshot] /\ M \in Procs /\ known \in [Managers -> Snapshot] /\ Mgr(M) \in Managers
      /\ mu \in [Managers -> Procs \cup {NoProc}]
  BY ProcessAssumption DEF TypeInv, TypeOK, ProcsOK, ManagerOK, Procs, M, Mgr
<1>1. CASE UseKnownState(M)
  BY <1>1, <1>t DEF UseKnownState, manager, Listed
<1>2. CASE FinishRefresh(M)
  BY <1>2, <1>t DEF FinishRefresh, Listed
<1> QED BY <1>1, <1>2 DEF Refresh, StartRefresh, loadWriteEpoch, loadSingleEpochCompactions,
     loadRangeCheckpoints, loadUncompactedEpoch

\* A refresh leaves what maintenance relies on.
LEMMA RefreshMaint == ASSUME TypeInv, StorageInv, MaintInv, NEW p \in Procs, Refresh(p) PROVE MaintInv'
<1>m. M \in Procs /\ Mgr(M) \in Managers
  BY ProcessAssumption DEF Procs, M, Mgr
<1>f. /\ UNCHANGED <<markers, singles, ranges, op, lo, hi, blobs, content, doomed, doomedMarkers, toList>>
      /\ M # p => pc'[M] = pc[M] /\ cs'[M] = cs[M]
      /\ M = p => \/ pc'[M] = pc[M] /\ cs'[M] = cs[M]
                  \/ pc[M] \in WaitsForState /\ pc'[M] = Continue(M) /\ Loaded(cs'[M])
  BY <1>m, RefreshFrame DEF storage, maint
<1>g. Grows
  BY <1>f DEF Grows, Reached
<1>e. RefreshEffect(Mgr(M))
  BY <1>m, RefreshEffects
<1>s. CompactedEpochs(cs[M]) \subseteq CompleteEpochs
  BY <1>m DEF StorageInv, SnapshotsOK, Snapshots, SnapshotOK
<1>1. Newer'
  <2>1. CASE cs'[M] = cs[M]
    <3> SUFFICES ASSUME NEW e \in CompactedEpochs(cs[M])
                 PROVE  /\ Loaded(known'[Mgr(M)]) => e \in CompactedEpochs(known'[Mgr(M)])
                        /\ Listed(Mgr(M))' => e \in CompactedEpochs(attempt'[Mgr(M)])
      BY <2>1 DEF Newer, Loaded, CompactedEpochs, Mgr
    <3>1. /\ Loaded(known[Mgr(M)]) => e \in CompactedEpochs(known[Mgr(M)])
          /\ Listed(Mgr(M)) => e \in CompactedEpochs(attempt[Mgr(M)])
      BY DEF MaintInv, Newer
    <3>2. Listed(Mgr(M))' => e \in CompactedEpochs(attempt'[Mgr(M)])
      BY <3>1, <1>e, <1>s DEF RefreshEffect, CompactedEpochs
    <3>3. Loaded(known'[Mgr(M)]) => e \in CompactedEpochs(known'[Mgr(M)])
      BY <3>1, <1>e DEF RefreshEffect
    <3> QED BY <3>2, <3>3
  <2>2. CASE cs'[M] # cs[M]
    <3>1. cs'[M] = known'[Mgr(M)] /\ ~Listed(Mgr(M))'
      BY <2>2, <1>f, MaintRefreshed
    <3> QED BY <3>1 DEF Newer, CompactedEpochs, Mgr
  <2> QED BY <2>1, <2>2
<1>2. CASE pc'[M] = pc[M] /\ cs'[M] = cs[M]
  <2>1. MaintLoaded' /\ DoomedOK' /\ RangeLists'
    BY <1>2, <1>f DEF MaintInv, MaintLoaded, DoomedOK, RangeLists, Loaded, CompactedEpochs
  <2>2. WorkSettled'
    BY <1>2, <1>f DEF MaintInv, WorkSettled, Reached
  <2> QED BY <1>1, <2>1, <2>2 DEF MaintInv
<1>3. CASE pc[M] \in WaitsForState /\ pc'[M] = Continue(M) /\ Loaded(cs'[M])
  <2>1. pc'[M] = op /\ op \in AllOps \cup {"idle"}
    BY <1>3 DEF MaintInv, WorkSettled, WaitsForState, Continue, TypeInv, TypeOK, MaintenanceOK
  <2>2. /\ pc'[M] \notin Compacting \cup {"writeState", "writeRecheck", "readState", "deleteIndexes", "deleteMarkers", "rangeList"}
    BY <2>1 DEF AllOps, Compacting
  <2>3. MaintLoaded' /\ DoomedOK' /\ RangeLists'
    BY <1>3, <2>2 DEF MaintLoaded, DoomedOK, RangeLists, Loaded
  <2>4. WorkSettled'
    BY <1>f, <2>1, <2>2 DEF WorkSettled, Compacting
  <2> QED BY <1>1, <2>3, <2>4 DEF MaintInv
<1> QED BY <1>f, <1>2, <1>3

\* The steps of clients keep what maintenance relies on.
LEMMA ClientMaint == ASSUME TypeInv, StorageInv, MaintInv, ClientStep PROVE MaintInv'
<1>m. M \in Procs /\ Mgr(M) \in Managers
  BY ProcessAssumption DEF Procs, M, Mgr
<1>g. Grows
  BY ClientStorage DEF Grows, Reached
<1>1. ASSUME NEW p \in Procs, Refresh(p) PROVE MaintInv'
  BY <1>1, RefreshMaint
<1>2. ASSUME NEW w \in Writers, Write(w) PROVE MaintInv'
  <2>1. MaintainerRests /\ UNCHANGED <<mu, attempt, loads>> /\ KnownRests
    BY <1>2, <1>m, WriteFrame DEF KnownRests
  <2>2. AttemptRests
    BY <2>1 DEF AttemptRests, Listed
  <2> QED BY <2>1, <2>2, <1>g, MaintRests
<1>3. ASSUME NEW r \in Readers, Read(r) PROVE MaintInv'
  <2>1. MaintainerRests /\ UNCHANGED <<mu, attempt, loads, known>>
    BY <1>3, ReadFrame DEF manager
  <2>2. AttemptRests /\ KnownRests
    BY <2>1 DEF AttemptRests, Listed, KnownRests
  <2> QED BY <2>1, <2>2, <1>g, MaintRests
<1>4. CASE Tick \/ UNCHANGED vars
  <2>1. MaintainerRests /\ UNCHANGED <<mu, attempt, loads, known>>
    BY <1>4 DEF Tick, vars, MaintainerRests, manager, maint, reading
  <2>2. AttemptRests /\ KnownRests
    BY <2>1 DEF AttemptRests, Listed, KnownRests
  <2> QED BY <2>1, <2>2, <1>g, MaintRests
<1>5. ASSUME NEW m \in Crashable, Crash(m) PROVE MaintInv'
  <2>0. m \in Managers
    BY ProcessAssumption
  <2>1. /\ Mgr(M) # m => known'[Mgr(M)] = known[Mgr(M)] /\ attempt'[Mgr(M)] = attempt[Mgr(M)] /\ mu'[Mgr(M)] = mu[Mgr(M)]
                         /\ loads'[Mgr(M)] = loads[Mgr(M)]
        /\ known'[m] = ZeroSnapshot /\ mu'[m] = NoProc
    BY <1>5, <1>m, CrashFrame
  <2>2. KnownRests /\ AttemptRests
    BY <2>1 DEF KnownRests, AttemptRests, Listed
  <2>3. CASE MaintainerRests
    BY <2>2, <2>3, <1>g, MaintRests
  <2>4. CASE pc'[M] = "idle" /\ cs'[M] = ZeroSnapshot
    BY <2>4, ZeroNotLoaded DEF MaintInv, MaintLoaded, WorkSettled, DoomedOK, RangeLists, Newer, UsesState, Compacting
  <2> QED BY <1>5, <2>3, <2>4, CrashFrame
<1> QED BY <1>1, <1>2, <1>3, <1>4, <1>5 DEF ClientStep

\* ... and what is in storage stays in order.
LEMMA ClientStorageInv == ASSUME TypeInv, StorageInv, ClientStep PROVE StorageInv'
<1>u. UNCHANGED <<markers, singles, ranges>>
  BY ClientStorage
<1>g. Grows
  BY <1>u DEF Grows, Reached
<1>c. CompactionsSettled'
  BY <1>u DEF StorageInv, CompactionsSettled, Reached
<1>s. SnapshotsOK
  BY DEF StorageInv
<1>1. ASSUME NEW p \in Procs, Refresh(p) PROVE SnapshotsOK' /\ BlobsNamed'
  BY <1>1, RefreshSnapshots, RefreshFrame DEF StorageInv, BlobsNamed, storage
<1>2. ASSUME NEW w \in Writers, Write(w) PROVE SnapshotsOK' /\ BlobsNamed'
  <2>1. /\ \A n \in Managers : (known'[n] = known[n] \/ known'[n] = ZeroSnapshot) /\ attempt'[n] = attempt[n]
        /\ \A q \in Procs : cs'[q] = cs[q] \/ cs'[q] = ZeroSnapshot
    BY <1>2, WriteFrame
  <2>2. SnapshotsOK'
    BY <2>1, <1>g, <1>s, NoNewSnapshots DEF Snapshots
  <2>3. \A b \in uncompacted' : b \in uncompacted \/ \E h \in Shards : b = Blob(w, h, writtenFor[w], now)
    BY <1>2, WriteFrame
  <2>4. BlobsNamed'
    BY <2>3 DEF StorageInv, BlobsNamed, Blob
  <2> QED BY <2>2, <2>4
<1>3. ASSUME NEW r \in Readers, Read(r) PROVE SnapshotsOK' /\ BlobsNamed'
  <2>1. UNCHANGED <<known, attempt, uncompacted>> /\ \A q \in Procs : cs'[q] = cs[q] \/ cs'[q] = ZeroSnapshot
    BY <1>3, ReadFrame DEF manager, storage
  <2>2. SnapshotsOK'
    BY <2>1, <1>g, <1>s, NoNewSnapshots DEF Snapshots
  <2>3. BlobsNamed'
    BY <2>1 DEF StorageInv, BlobsNamed
  <2> QED BY <2>2, <2>3
<1>4. CASE Tick \/ UNCHANGED vars
  <2>1. UNCHANGED <<known, attempt, cs, uncompacted>>
    BY <1>4 DEF Tick, vars, manager, storage
  <2>2. SnapshotsOK'
    BY <2>1, <1>g, <1>s, NoNewSnapshots DEF Snapshots
  <2>3. BlobsNamed'
    BY <2>1 DEF StorageInv, BlobsNamed
  <2> QED BY <1>c, <2>2, <2>3 DEF StorageInv
<1>5. ASSUME NEW m \in Crashable, Crash(m) PROVE SnapshotsOK' /\ BlobsNamed'
  <2>1. /\ \A n \in Managers : n # m => known'[n] = known[n] /\ attempt'[n] = attempt[n]
        /\ known'[m] = ZeroSnapshot /\ attempt'[m] = ZeroSnapshot
        /\ \A q \in Procs : cs'[q] = cs[q] \/ cs'[q] = ZeroSnapshot
        /\ UNCHANGED uncompacted
    BY <1>5, CrashFrame DEF storage
  <2>2. SnapshotsOK'
    BY <2>1, <1>g, <1>s, NoNewSnapshots DEF Snapshots
  <2>3. BlobsNamed'
    BY <2>1 DEF StorageInv, BlobsNamed
  <2> QED BY <2>2, <2>3
<1> QED BY <1>c, <1>1, <1>2, <1>3, <1>4, <1>5 DEF ClientStep, StorageInv
----------------------------------------------------------------------------
(* The steps of maintenance *)

\* Maintenance changes the snapshot of its own process only, and ends with none.
LEMMA MaintainFrame ==
  ASSUME TypeInv, Maintain
  PROVE  /\ UNCHANGED <<manager, writing, acked>>
         /\ \A q \in Procs \ {M} : pc'[q] = pc[q] /\ cs'[q] = cs[q]
         /\ \/ cs'[M] = cs[M]
            \/ cs'[M] = ZeroSnapshot
            \/ cs'[M] = known[Mgr(M)] /\ mu[Mgr(M)] = NoProc /\ pc'[M] = "advancePut"
         /\ uncompacted' \subseteq uncompacted
<1>t. M \in Procs /\ pc \in [Procs -> Places] /\ cs \in [Procs -> Snapshot]
  BY ProcessAssumption DEF Procs, M, TypeInv, TypeOK, ProcsOK
<1>1. UNCHANGED <<manager, writing, acked>>
  BY DEF Maintain, StartMaintenance, MaybeAdvanceWriteEpoch, advanceEpochMarker, MaybeCompactSingleEpoch,
     ListEpochToCompact, MaybeGenerateRangeCheckpoint, ListRangeEpoch, CheckRangeTime, CompactEpoch,
     WritePart, CleanupMarkers, DeleteMarker, CleanupSupersededIndexes, DeleteIndex, MaintenanceError, notMaint
<1>2. pc' = pc \/ \E l : pc' = [pc EXCEPT ![M] = l]
  BY DEF Maintain, StartMaintenance, MaybeAdvanceWriteEpoch, advanceEpochMarker, MaybeCompactSingleEpoch,
     ListEpochToCompact, MaybeGenerateRangeCheckpoint, ListRangeEpoch, CheckRangeTime, CompactEpoch,
     WritePart, CleanupMarkers, DeleteMarker, CleanupSupersededIndexes, DeleteIndex, MaintenanceError,
     EndMaintenance, Goto, Leave
<1>3. \/ cs' = cs \/ cs' = [cs EXCEPT ![M] = ZeroSnapshot]
      \/ cs' = [cs EXCEPT ![M] = known[Mgr(M)]] /\ mu[Mgr(M)] = NoProc /\ pc' = [pc EXCEPT ![M] = "advancePut"]
  BY DEF Maintain, StartMaintenance, MaybeAdvanceWriteEpoch, advanceEpochMarker, MaybeCompactSingleEpoch,
     ListEpochToCompact, MaybeGenerateRangeCheckpoint, ListRangeEpoch, CheckRangeTime, CompactEpoch,
     WritePart, CleanupMarkers, DeleteMarker, CleanupSupersededIndexes, DeleteIndex, MaintenanceError,
     EndMaintenance, Goto, Leave
<1>4. uncompacted' \subseteq uncompacted
  BY DEF Maintain, StartMaintenance, MaybeAdvanceWriteEpoch, advanceEpochMarker, MaybeCompactSingleEpoch,
     ListEpochToCompact, MaybeGenerateRangeCheckpoint, ListRangeEpoch, CheckRangeTime, CompactEpoch,
     WritePart, CleanupMarkers, DeleteMarker, CleanupSupersededIndexes, DeleteIndex, MaintenanceError, storage
<1>5. \A q \in Procs \ {M} : pc'[q] = pc[q] /\ cs'[q] = cs[q]
  BY <1>2, <1>3, <1>t
<1>6. \/ cs'[M] = cs[M] \/ cs'[M] = ZeroSnapshot
      \/ cs'[M] = known[Mgr(M)] /\ mu[Mgr(M)] = NoProc /\ pc'[M] = "advancePut"
  BY <1>3, <1>t
<1> QED BY <1>1, <1>4, <1>5, <1>6

\* Maintenance keeps the storage part of the invariant.
LEMMA MaintainStorage == ASSUME TypeInv, StorageInv, MaintInv, Maintain PROVE StorageInv'
<1>m. M \in Procs /\ Mgr(M) \in Managers
  BY ProcessAssumption DEF Procs, M, Mgr
<1>g. Grows
  BY MarkersGrow, SinglesGrow DEF Grows
<1>1. SnapshotsOK'
  <2>1. UNCHANGED <<known, attempt>> /\ \A q \in Procs : cs'[q] = cs[q] \/ cs'[q] = ZeroSnapshot \/ cs'[q] = known[Mgr(M)]
    BY MaintainFrame DEF manager
  <2>2. SnapshotsOK
    BY DEF StorageInv
  <2> QED BY <2>1, <2>2, <1>m, <1>g, NoNewSnapshots DEF Snapshots
<1>2. BlobsNamed'
  BY MaintainFrame DEF StorageInv, BlobsNamed
<1>3. CompactionsSettled'
  <2>1. \A b \in singles : b.epoch + 2 \in Int /\ Reached(b.epoch + 2)
    BY RepositoryAssumption DEF StorageInv, CompactionsSettled, TypeInv, TypeOK, StorageOK, IndexBlob, Epochs
  <2>2. \A b \in ranges : b.max + 2 \in Int /\ Reached(b.max + 2)
    BY RepositoryAssumption DEF StorageInv, CompactionsSettled, TypeInv, TypeOK, StorageOK, RangeBlob, Epochs
  <2>3. ASSUME NEW s \in Shards, WritePart(s) PROVE CompactionsSettled'
    <3>1. pc[M] = "compactWrite"
      BY <2>3 DEF WritePart
    <3>2. Reached(hi + 2) /\ (op = "compactSingle" => lo = hi) /\ hi + 2 \in Int
      BY <3>1 DEF MaintInv, WorkSettled, Compacting, TypeInv, TypeOK, MaintenanceOK
    <3>3. \A b \in singles' : b \in singles \/ (op = "compactSingle" /\ b.epoch = lo)
      <4>1. CASE op = "compactSingle"
        <5>1. PICK n : n.epoch = lo /\ singles' = singles \cup {n}
          <6> DEFINE new == [epoch |-> lo, set |-> sets, shard |-> s, content |-> {x \in content : x[2] = s}, ts |-> now]
          <6>1. new.epoch = lo /\ singles' = singles \cup {new}
            BY <2>3, <4>1 DEF WritePart
          <6> QED BY <6>1
        <5> QED BY <4>1, <5>1
      <4>2. CASE op # "compactSingle"
        BY <2>3, <4>2 DEF WritePart
      <4> QED BY <4>1, <4>2
    <3>4. \A b \in ranges' : b \in ranges \/ b.max = hi
      <4>1. CASE op # "compactSingle"
        <5>1. PICK n : n.max = hi /\ ranges' = ranges \cup {n}
          <6> DEFINE new == [min |-> lo, max |-> hi, set |-> sets, shard |-> s, content |-> {x \in content : x[2] = s}]
          <6>1. new.max = hi /\ ranges' = ranges \cup {new}
            BY <2>3, <4>1 DEF WritePart
          <6> QED BY <6>1
        <5> QED BY <5>1
      <4>2. CASE op = "compactSingle"
        BY <2>3, <4>2 DEF WritePart
      <4> QED BY <4>1, <4>2
    <3>h. PICK h : h = hi + 2
      OBVIOUS
    <3>5. Reached(h)'
      BY <3>h, <3>2, <1>g DEF Grows
    <3>6. \A b \in singles' : Reached(b.epoch + 2)'
      BY <2>1, <3>h, <3>2, <3>3, <3>5, <1>g DEF Grows
    <3>7. \A b \in ranges' : Reached(b.max + 2)'
      BY <2>2, <3>h, <3>4, <3>5, <1>g DEF Grows
    <3> QED BY <3>6, <3>7 DEF CompactionsSettled
  <2>4. UNCHANGED <<singles, ranges>> \/ \E s \in Shards : WritePart(s)
    BY DEF Maintain, StartMaintenance, MaybeAdvanceWriteEpoch, advanceEpochMarker, MaybeCompactSingleEpoch,
       ListEpochToCompact, MaybeGenerateRangeCheckpoint, ListRangeEpoch, CheckRangeTime, CompactEpoch,
       CleanupMarkers, DeleteMarker, CleanupSupersededIndexes, DeleteIndex, MaintenanceError, storage
  <2>5. CASE UNCHANGED <<singles, ranges>>
    BY <2>1, <2>2, <2>5, <1>g DEF Grows, CompactionsSettled
  <2> QED BY <2>3, <2>4, <2>5
<1> QED BY <1>1, <1>2, <1>3 DEF StorageInv

\* ... and so is what maintenance relies on.
LEMMA MaintainMaint == ASSUME TypeInv, StorageInv, MaintInv, Maintain PROVE MaintInv'
<1>m. M \in Procs /\ Mgr(M) \in Managers
  BY ProcessAssumption DEF Procs, M, Mgr
<1>t. /\ pc \in [Procs -> Places] /\ toList \in [Procs -> SUBSET Int] /\ hi \in Int /\ cs[M].WriteEpoch \in Int
      /\ markers \subseteq Int
  BY <1>m, RepositoryAssumption DEF TypeInv, TypeOK, ProcsOK, MaintenanceOK, StorageOK, Snapshot, Epochs
<1>g. \A e \in Int : Reached(e) => Reached(e)'
  BY MarkersGrow
<1>r. Reached(cs[M].WriteEpoch)
  BY <1>m DEF StorageInv, SnapshotsOK, Snapshots, SnapshotOK
<1>n. Newer'
  <2>1. UNCHANGED <<known, attempt, mu, loads>>
    BY MaintainFrame DEF manager
  <2>2. CASE cs'[M] = cs[M]
    BY <2>1, <2>2 DEF MaintInv, Newer, Listed, Loaded, CompactedEpochs, Mgr
  <2>3. CASE cs'[M] = ZeroSnapshot
    BY <2>3, ZeroNotLoaded DEF Newer, CompactedEpochs
  <2>4. CASE cs'[M] = known[Mgr(M)] /\ mu[Mgr(M)] = NoProc
    BY <2>1, <2>4 DEF Newer, Listed, Loaded, CompactedEpochs, Mgr
  <2> QED BY <2>2, <2>3, <2>4, MaintainFrame
<1>e. ASSUME pc'[M] \in {"idle", "advance", "maintState", "advancePut"} PROVE MaintInv'
  BY <1>e, <1>n DEF MaintInv, MaintLoaded, WorkSettled, DoomedOK, RangeLists, UsesState, Compacting
<1>i. EndMaintenance => MaintInv'
  <2> SUFFICES ASSUME EndMaintenance PROVE MaintInv'
    OBVIOUS
  <2>1. pc'[M] = "idle"
    BY <1>m, <1>t DEF EndMaintenance, Leave, Goto
  <2> QED BY <2>1, <1>e
<1>1. ASSUME NEW o \in MaintenanceOps, StartMaintenance(o) PROVE MaintInv'
  <2>1. pc'[M] \in {"advance", "maintState"}
    BY <1>1, <1>m, <1>t DEF StartMaintenance, Goto
  <2> QED BY <2>1, <1>e
<1>2. CASE MaybeAdvanceWriteEpoch
  <2>1. EndMaintenance \/ pc'[M] = "advancePut"
    BY <1>2, <1>m, <1>t DEF MaybeAdvanceWriteEpoch, Goto
  <2> QED BY <2>1, <1>e, <1>i
<1>3. CASE advanceEpochMarker
  BY <1>3, <1>i DEF advanceEpochMarker
<1>4. CASE MaybeCompactSingleEpoch
  <2>1. PICK e \in 0..MaxEpoch + 1 :
          \/ EndMaintenance
          \/ /\ isSettledEpochNumber(cs[M], e) /\ lo' = e /\ hi' = e /\ pc'[M] = "compactList"
             /\ UNCHANGED <<op, cs, markers>>
    BY <1>4, <1>m, <1>t DEF MaybeCompactSingleEpoch, Goto, storage
  <2>2. CASE ~EndMaintenance
    <3>1. e \in Int /\ e + 2 <= cs[M].WriteEpoch /\ hi' = e /\ lo' = e
      BY <2>1, <2>2, <1>t, RepositoryAssumption DEF isSettledEpochNumber, numUnsettledEpochs
    <3>2. Reached(e + 2)
      BY <3>1, <1>r, <1>t DEF Reached
    <3>3. pc[M] = "compactSingle" /\ op = "compactSingle" /\ Loaded(cs[M])
      BY <1>4 DEF MaybeCompactSingleEpoch, MaintInv, WorkSettled, MaintLoaded, UsesState
    <3>4. MaintLoaded' /\ DoomedOK' /\ RangeLists'
      BY <2>1, <2>2, <3>3 DEF MaintLoaded, DoomedOK, RangeLists, Loaded
    <3>5. WorkSettled'
      BY <2>1, <2>2, <3>1, <3>2, <3>3 DEF WorkSettled, Reached
    <3> QED BY <1>n, <3>4, <3>5 DEF MaintInv
  <2> QED BY <2>2, <1>i
<1>5. CASE ListEpochToCompact
  <2>1. pc[M] = "compactList" /\ pc'[M] = "compactRead" /\ UNCHANGED <<op, lo, hi, cs, markers>>
    BY <1>5, <1>m, <1>t DEF ListEpochToCompact, Goto, storage
  <2>2. MaintLoaded' /\ DoomedOK' /\ RangeLists'
    BY <2>1 DEF MaintInv, MaintLoaded, DoomedOK, RangeLists, Loaded, UsesState
  <2>3. WorkSettled'
    BY <2>1 DEF MaintInv, WorkSettled, Reached, Compacting
  <2> QED BY <1>n, <2>2, <2>3 DEF MaintInv
<1>6. CASE MaybeGenerateRangeCheckpoint
  <2> DEFINE first == ChainEnd(cs[M].LongestRangeCheckpointSets) + 1
             last == cs[M].WriteEpoch - numUnsettledEpochs
  <2>1. \/ EndMaintenance
        \/ /\ hi' = last /\ pc' = [pc EXCEPT ![M] = "rangeList"] /\ UNCHANGED <<op, cs, markers>>
           /\ toList' = [toList EXCEPT ![M] = {e \in first..last : MustList(cs[M], e)}]
    BY <1>6 DEF MaybeGenerateRangeCheckpoint, Goto, storage
  <2> HIDE DEF first
  <2>2. CASE ~EndMaintenance
    <3>1. /\ hi' = last /\ pc'[M] = "rangeList" /\ UNCHANGED <<op, cs, markers>>
          /\ toList'[M] = {e \in first..last : MustList(cs[M], e)}
      BY <2>1, <2>2, <1>m, <1>t
    <3>2. hi' + 2 = cs[M].WriteEpoch
      BY <3>1, <1>t DEF numUnsettledEpochs
    <3>3. Reached(hi + 2)'
      BY <3>1, <3>2, <1>r DEF Reached
    <3>4. pc[M] = "range" /\ op = "range" /\ Loaded(cs[M])
      BY <1>6 DEF MaybeGenerateRangeCheckpoint, MaintInv, WorkSettled, MaintLoaded, UsesState
    <3>5. \A e \in toList'[M] : e \notin CompactedEpochs(cs[M])
      <4> SUFFICES ASSUME NEW e \in first..last, MustList(cs[M], e), e \in CompactedEpochs(cs[M]) PROVE FALSE
        BY <3>1
      <4>1. e <= last
        BY <3>2, <3>1, <1>t DEF numUnsettledEpochs
      <4> QED BY <4>1 DEF MustList, UsesSingle, isSettledEpochNumber
    <3>6. MaintLoaded' /\ DoomedOK' /\ RangeLists'
      BY <3>1, <3>4, <3>5 DEF MaintLoaded, DoomedOK, RangeLists, Loaded, CompactedEpochs
    <3>7. WorkSettled'
      BY <3>1, <3>3, <3>4 DEF WorkSettled
    <3> QED BY <1>n, <3>6, <3>7 DEF MaintInv
  <2> QED BY <2>2, <1>i
<1>7. ASSUME NEW e \in toList[M], ListRangeEpoch(e) PROVE MaintInv'
  <2>1. UNCHANGED <<op, lo, hi, pc, cs, markers>> /\ pc[M] = "rangeList" /\ toList'[M] \subseteq toList[M]
    BY <1>7, <1>m, <1>t DEF ListRangeEpoch, storage
  <2>2. MaintLoaded' /\ DoomedOK' /\ RangeLists'
    BY <2>1 DEF MaintInv, MaintLoaded, DoomedOK, RangeLists, Loaded, CompactedEpochs
  <2>3. WorkSettled'
    BY <2>1 DEF MaintInv, WorkSettled, Reached
  <2> QED BY <1>n, <2>2, <2>3 DEF MaintInv
<1>8. CASE CheckRangeTime
  <2>1. EndMaintenance \/ (pc[M] = "rangeList" /\ pc'[M] = "compactRead" /\ UNCHANGED <<op, lo, hi, cs, markers>>)
    BY <1>8, <1>m, <1>t DEF CheckRangeTime, Goto, storage, maint
  <2>2. CASE ~EndMaintenance
    <3>2. MaintLoaded' /\ DoomedOK' /\ RangeLists'
      BY <2>1, <2>2 DEF MaintInv, MaintLoaded, DoomedOK, RangeLists, Loaded, UsesState
    <3>3. WorkSettled'
      BY <2>1, <2>2 DEF MaintInv, WorkSettled, Reached, Compacting
    <3> QED BY <1>n, <3>2, <3>3 DEF MaintInv
  <2> QED BY <2>2, <1>i
<1>9. CASE CompactEpoch
  <2>1. EndMaintenance \/ (pc[M] = "compactRead" /\ pc'[M] = "compactWrite" /\ UNCHANGED <<op, lo, hi, cs, markers>>)
    BY <1>9, <1>m, <1>t DEF CompactEpoch, Goto, storage
  <2>2. CASE ~EndMaintenance
    <3>2. MaintLoaded' /\ DoomedOK' /\ RangeLists'
      BY <2>1, <2>2 DEF MaintInv, MaintLoaded, DoomedOK, RangeLists, Loaded, UsesState
    <3>3. WorkSettled'
      BY <2>1, <2>2 DEF MaintInv, WorkSettled, Reached, Compacting
    <3> QED BY <1>n, <3>2, <3>3 DEF MaintInv
  <2> QED BY <2>2, <1>i
<1>10. ASSUME NEW s \in Shards, WritePart(s) PROVE MaintInv'
  <2>1. EndMaintenance \/ (pc[M] = "compactWrite" /\ UNCHANGED <<op, lo, hi, cs, markers, pc>>)
    BY <1>10 DEF WritePart
  <2>2. CASE ~EndMaintenance
    <3>2. MaintLoaded' /\ DoomedOK' /\ RangeLists'
      BY <2>1, <2>2 DEF MaintInv, MaintLoaded, DoomedOK, RangeLists, Loaded
    <3>3. WorkSettled'
      BY <2>1, <2>2 DEF MaintInv, WorkSettled, Reached
    <3> QED BY <1>n, <3>2, <3>3 DEF MaintInv
  <2> QED BY <2>2, <1>i
<1>11. CASE CleanupMarkers
  <2>1. \/ EndMaintenance
        \/ /\ pc[M] = "cleanupMarkers" /\ pc'[M] = "deleteMarkers" /\ UNCHANGED cs
           /\ doomedMarkers' = {n \in cs[M].EpochMarkerBlobs : n < cs[M].WriteEpoch - 1}
    BY <1>11, <1>m, <1>t DEF CleanupMarkers, Goto
  <2>2. CASE ~EndMaintenance
    <3>1. MaintLoaded' /\ RangeLists' /\ WorkSettled'
      BY <2>1, <2>2 DEF MaintInv, MaintLoaded, RangeLists, Loaded, UsesState, WorkSettled, Compacting
    <3>2. DoomedOK'
      BY <2>1, <2>2 DEF DoomedOK
    <3> QED BY <1>n, <3>1, <3>2 DEF MaintInv
  <2> QED BY <2>2, <1>i
<1>12. ASSUME NEW n \in doomedMarkers, DeleteMarker(n) PROVE MaintInv'
  <2>1. EndMaintenance \/ (pc[M] = "deleteMarkers" /\ UNCHANGED <<pc, cs>> /\ doomedMarkers' \subseteq doomedMarkers)
    BY <1>12 DEF DeleteMarker
  <2>2. CASE ~EndMaintenance
    <3>1. MaintLoaded' /\ RangeLists' /\ WorkSettled'
      BY <2>1, <2>2 DEF MaintInv, MaintLoaded, RangeLists, Loaded, WorkSettled, Compacting
    <3>2. DoomedOK'
      BY <2>1, <2>2 DEF MaintInv, DoomedOK
    <3> QED BY <1>n, <3>1, <3>2 DEF MaintInv
  <2> QED BY <2>2, <1>i
<1>13. CASE CleanupSupersededIndexes
  <2>1. \/ EndMaintenance
        \/ /\ pc[M] = "cleanupIndexes" /\ pc'[M] = "deleteIndexes" /\ UNCHANGED cs
           /\ doomed' = {b \in uncompacted : WrittenEarlyEnough(cs[M], b.epoch)}
    BY <1>13, <1>m, <1>t DEF CleanupSupersededIndexes, Goto
  <2>2. CASE ~EndMaintenance
    <3>1. MaintLoaded' /\ RangeLists' /\ WorkSettled'
      BY <2>1, <2>2 DEF MaintInv, MaintLoaded, RangeLists, Loaded, UsesState, WorkSettled, Compacting
    <3>2. \A b \in doomed' : b.epoch \in CompactedEpochs(cs[M])
      BY <2>1, <2>2 DEF WrittenEarlyEnough
    <3>3. DoomedOK'
      BY <2>1, <2>2, <3>2 DEF DoomedOK, CompactedEpochs
    <3> QED BY <1>n, <3>1, <3>3 DEF MaintInv
  <2> QED BY <2>2, <1>i
<1>14. ASSUME NEW b \in doomed, DeleteIndex(b) PROVE MaintInv'
  <2>1. EndMaintenance \/ (pc[M] = "deleteIndexes" /\ UNCHANGED <<pc, cs>> /\ doomed' \subseteq doomed)
    BY <1>14 DEF DeleteIndex
  <2>2. CASE ~EndMaintenance
    <3>1. MaintLoaded' /\ RangeLists' /\ WorkSettled'
      BY <2>1, <2>2 DEF MaintInv, MaintLoaded, RangeLists, Loaded, WorkSettled, Compacting
    <3>2. DoomedOK'
      BY <2>1, <2>2 DEF MaintInv, DoomedOK, CompactedEpochs
    <3> QED BY <1>n, <3>1, <3>2 DEF MaintInv
  <2> QED BY <2>2, <1>i
<1>15. CASE MaintenanceError
  BY <1>15, <1>i DEF MaintenanceError
<1> QED BY <1>1, <1>2, <1>3, <1>4, <1>5, <1>6, <1>7, <1>8, <1>9, <1>10, <1>11, <1>12, <1>13, <1>14, <1>15 DEF Maintain
----------------------------------------------------------------------------
(* The write epoch never goes back *)

\* Every step keeps both parts.
LEMMA SafetyStep == ASSUME TypeInv, StorageInv, MaintInv, [Next]_vars PROVE StorageInv' /\ MaintInv'
  BY StepSplit, ClientMaint, ClientStorageInv, MaintainMaint, MaintainStorage

\* The repository at the start is in order, see RepositoryAssumption.
LEMMA SafetyInit == Init => StorageInv /\ MaintInv
<1> SUFFICES ASSUME Init PROVE StorageInv /\ MaintInv
  OBVIOUS
<1>m. M \in Procs /\ M \notin InFlight /\ M \notin Retrying
  BY ProcessAssumption, RepositoryAssumption DEF Procs, M
<1>1. SnapshotsOK
  <2>1. \A s \in Snapshots : s = ZeroSnapshot \/ s = [ZeroSnapshot EXCEPT !.WriteEpoch = InFlightEpoch]
    BY DEF Init, Snapshots
  <2>2. PICK x : x = [ZeroSnapshot EXCEPT !.WriteEpoch = InFlightEpoch]
    OBVIOUS
  <2>3. x.WriteEpoch = InFlightEpoch /\ x.SingleEpochCompactionSets = {}
    BY <2>2 DEF ZeroSnapshot
  <2>4. Reached(InFlightEpoch)
    BY RepositoryAssumption DEF Init, Reached
  <2>5. SnapshotOK(x)
    BY <2>3, <2>4 DEF SnapshotOK, CompactedEpochs
  <2> QED BY <2>1, <2>2, <2>5, ZeroOK DEF SnapshotsOK
<1>2. BlobsNamed
  BY DEF Init, BlobsNamed, InitBlobs, InFlightBlobs, Blob
<1>3. CompactionsSettled
  <2>1. ASSUME NEW b \in singles PROVE Reached(b.epoch + 2)
    <3>1. b.epoch \in InitSingles
      <4>1. b \in InitSingleBlobs
        BY DEF Init
      <4>2. PICK x \in InitSingles \X Shards :
              b = [epoch |-> x[1], set |-> 0, shard |-> x[2], content |-> InitContent({x[1]}, x[2]), ts |-> 0]
        BY <4>1 DEF InitSingleBlobs
      <4> QED BY <4>2
    <3> QED BY <3>1, RepositoryAssumption DEF Init, Reached
  <2>2. ASSUME NEW b \in ranges PROVE Reached(b.max + 2)
    <3>1. InitRange # -1 /\ b.max = InitRange
      BY DEF Init, InitRangeBlobs
    <3> QED BY <3>1, RepositoryAssumption DEF Init, Reached
  <2> QED BY <2>1, <2>2 DEF CompactionsSettled
<1>4. pc[M] = "idle" /\ cs[M] = ZeroSnapshot
  BY <1>m DEF Init
<1>5. MaintInv
  BY <1>4, ZeroNotLoaded DEF MaintInv, MaintLoaded, WorkSettled, DoomedOK, RangeLists, Newer, UsesState, Compacting
<1> QED BY <1>1, <1>2, <1>3, <1>5 DEF StorageInv

\* The write epoch never goes back: maintenance deletes a marker only when it has seen one that is
\* later by two, although its snapshot may have expired meanwhile (CleanupMarkers, advanceEpochMarker).
THEOREM EpochNeverBack == Spec => WriteEpochNeverBack
<1>1. Init => TypeInv /\ StorageInv /\ MaintInv
  BY InitType, InitControl, SafetyInit DEF TypeInv
<1>2. TypeInv /\ StorageInv /\ MaintInv /\ [Next]_vars => TypeInv' /\ StorageInv' /\ MaintInv'
  BY TypeStep, SafetyStep
<1>3. TypeInv /\ StorageInv /\ MaintInv /\ [Next]_vars => [\A n \in markers : \E k \in markers' : k >= n]_vars
  <2> SUFFICES ASSUME TypeInv, StorageInv, MaintInv, [Next]_vars PROVE \A n \in markers : \E k \in markers' : k >= n
    OBVIOUS
  <2>1. markers \subseteq Int
    BY RepositoryAssumption DEF Epochs, TypeInv, TypeOK, StorageOK
  <2>2. CASE ClientStep
    BY <2>1, <2>2, ClientStorage
  <2>3. CASE Maintain
    BY <2>3, MarkersKept
  <2> QED BY <2>2, <2>3, StepSplit
<1> QED BY <1>1, <1>2, <1>3, PTL DEF Spec, WriteEpochNeverBack
----------------------------------------------------------------------------
(* What WriteIndex has promised, or is about to *)

\* Shard h of the write x is stored in epoch e.
Stored(x, e, h) == \E b \in uncompacted : b.epoch = e /\ b.set = x /\ b.shard = h
\* The second look at the write epoch has found it early enough, or will with the snapshot at hand.
Early(w, s) == s.WriteEpoch < writtenFor[w] + 2
Verified(w) ==
  \/ pc[w] = "writeVerify" /\ ~TooSlow(w)
  \/ pc[w] = "writeRecheck" /\ Loaded(known[Mgr(w)]) /\ Early(w, known[Mgr(w)])
  \/ /\ pc[w] = "writeRecheck" /\ mu[Mgr(w)] # NoProc /\ "writeEpoch" \notin loads[Mgr(w)]
     /\ Early(w, attempt[Mgr(w)])
Promised(x, e) == \/ \E a \in acked : a.write = x /\ a.epoch = e
                  \/ x \in Writers /\ e = writtenFor[x] /\ Verified(x)

\* An acknowledged write deletes nothing any more, one that looks at the write epoch again has
\* stored all its shards, and what was stored is there as long as its epoch is not settled.
AckedDone == \A a \in acked : a.write \in Writers => pc[a.write] = "acked"
AllWritten == \A w \in Writers : pc[w] \in {"writeRecheck", "writeVerify"} => written[w] = Shards
WrittenStored == \A w \in Writers : Reached(writtenFor[w] + 2) \/ \A h \in written[w] : Stored(w, writtenFor[w], h)
WriterInv == AckedDone /\ AllWritten /\ WrittenStored

\* The write x is past the places where it deletes its blobs.
Keeps(x) == x \in Writers => pc[x] \in {"writeRecheck", "writeVerify", "acked"}
\* The shards of the write x are stored and its epoch is not settled.
Fresh(x, e) == e \in Epochs /\ ~Reached(e + 2) /\ \A h \in Shards : Stored(x, e, h)

\* Blobs of a write that is past that point are deleted by cleanup only, and when they are compacted.
LEMMA StoredStays ==
  ASSUME TypeInv, NEW x, NEW e, NEW h, Stored(x, e, h), [Next]_vars,
         x \in Writers /\ Write(x) => Keeps(x), \A b \in doomed : DeleteIndex(b) => b.epoch # e
  PROVE  Stored(x, e, h)'
<1>1. PICK b \in uncompacted : b.epoch = e /\ b.set = x /\ b.shard = h
  BY DEF Stored
<1> SUFFICES b \in uncompacted'
  BY <1>1 DEF Stored
<1>2. ASSUME NEW w \in Writers, Write(w) PROVE b \in uncompacted'
  <2>1. CASE w # x
    BY <1>1, <1>2, <2>1, WriteFrame
  <2>2. CASE w = x
    <3>1. pc[w] \in {"writeRecheck", "writeVerify", "acked"}
      BY <1>2, <2>2 DEF Keeps
    <3>2. UNCHANGED uncompacted
      BY <1>2, <3>1 DEF Write, WriteIndex, ChooseWriteEpoch, CheckShardTime, DropPartialShard, PutShard,
         UndoShard, InvalidateAfterWrite, VerifyWriteEpoch, WriteIndexError
    <3> QED BY <3>2
  <2> QED BY <2>1, <2>2
<1>3. ASSUME NEW p \in Procs, Refresh(p) PROVE b \in uncompacted'
  BY <1>3, RefreshFrame DEF storage
<1>4. ASSUME NEW r \in Readers, Read(r) PROVE b \in uncompacted'
  BY <1>4, ReadFrame DEF storage
<1>5. ASSUME NEW m \in Crashable, Crash(m) PROVE b \in uncompacted'
  BY <1>5, CrashFrame DEF storage
<1>6. CASE Tick \/ UNCHANGED vars
  BY <1>6 DEF Tick, vars, storage
<1>7. CASE Maintain
  <2>1. UNCHANGED uncompacted \/ \E d \in doomed : DeleteIndex(d)
    BY <1>7 DEF Maintain, StartMaintenance, MaybeAdvanceWriteEpoch, advanceEpochMarker, MaybeCompactSingleEpoch,
       ListEpochToCompact, MaybeGenerateRangeCheckpoint, ListRangeEpoch, CheckRangeTime, CompactEpoch,
       WritePart, CleanupMarkers, DeleteMarker, CleanupSupersededIndexes, MaintenanceError, storage
  <2>2. ASSUME NEW d \in doomed, DeleteIndex(d) PROVE b \in uncompacted'
    BY <1>1, <2>2 DEF DeleteIndex
  <2> QED BY <2>1, <2>2
<1> QED BY <1>2, <1>3, <1>4, <1>5, <1>6, <1>7 DEF Next

\* What cleanup deletes is compacted, hence its epoch was settled.
LEMMA DeletedSettled ==
  ASSUME TypeInv, StorageInv, MaintInv, NEW b \in doomed, DeleteIndex(b)
  PROVE  b.epoch \in CompleteEpochs /\ Reached(b.epoch + 2)
<1>1. b.epoch \in CompactedEpochs(cs[M])
  BY DEF DeleteIndex, MaintInv, DoomedOK
<1>2. cs[M] \in Snapshots
  BY ProcessAssumption DEF Snapshots, Procs, M
<1>3. SnapshotOK(cs[M])
  BY <1>2 DEF StorageInv, SnapshotsOK
<1>4. PICK c \in singles : c.epoch = b.epoch
  BY <1>1, <1>3 DEF SnapshotOK, CompactedEpochs
<1>5. Reached(c.epoch + 2)
  BY DEF StorageInv, CompactionsSettled
<1>6. b.epoch \in CompleteEpochs
  BY <1>1, <1>3 DEF SnapshotOK
<1> QED BY <1>4, <1>5, <1>6

\* A step of WriteIndex that is not past that point keeps track of the shards it has stored.
LEMMA WriteStored ==
  ASSUME TypeInv, NEW w \in Writers, Write(w),
         Reached(writtenFor[w] + 2) \/ \A h \in written[w] : Stored(w, writtenFor[w], h)
  PROVE  (Reached(writtenFor[w] + 2) \/ \A h \in written[w] : Stored(w, writtenFor[w], h))'
<1>t. writtenFor \in [Writers -> Epochs \cup {-1}] /\ written \in [Writers -> SUBSET Shards]
  BY DEF TypeInv, TypeOK, WritersOK
<1>u. UNCHANGED markers
  BY WriteFrame
<1>1. CASE UNCHANGED writing /\ uncompacted \subseteq uncompacted'
  <2>1. writtenFor' = writtenFor /\ written' = written
    BY <1>1 DEF writing
  <2>2. ASSUME NEW h, Stored(w, writtenFor[w], h) PROVE Stored(w, writtenFor[w], h)'
    BY <1>1, <2>1, <2>2 DEF Stored
  <2> QED BY <2>1, <2>2, <1>u DEF Reached
<1>2. CASE ChooseWriteEpoch(w)
  <2>1. /\ writtenFor' = [writtenFor EXCEPT ![w] = cs[w].WriteEpoch] /\ UNCHANGED <<written, uncompacted>>
        /\ cs[w].WriteEpoch = writtenFor[w] \/ written[w] = {}
    BY <1>2 DEF ChooseWriteEpoch
  <2>2. writtenFor'[w] = cs[w].WriteEpoch
    BY <2>1, <1>t
  <2>3. CASE written[w] = {}
    BY <2>1, <2>3
  <2>4. CASE cs[w].WriteEpoch = writtenFor[w]
    <3>1. writtenFor'[w] = writtenFor[w] /\ written' = written /\ uncompacted' = uncompacted
      BY <2>1, <2>2, <2>4
    <3> QED BY <3>1, <1>u DEF Reached, Stored
  <2> QED BY <2>1, <2>3, <2>4
<1>3. ASSUME NEW s \in Shards, DeleteShard(w, s), UNCHANGED writtenFor
      PROVE  (Reached(writtenFor[w] + 2) \/ \A h \in written[w] : Stored(w, writtenFor[w], h))'
  <2>1. /\ uncompacted' = {b \in uncompacted : ~(b.epoch = writtenFor[w] /\ b.set = w /\ b.shard = s)}
        /\ written' = [written EXCEPT ![w] = @ \ {s}]
    BY <1>3 DEF DeleteShard
  <2>2. written'[w] = written[w] \ {s} /\ writtenFor'[w] = writtenFor[w]
    BY <1>3, <2>1, <1>t
  <2>3. ASSUME NEW h \in written'[w], Stored(w, writtenFor[w], h) PROVE Stored(w, writtenFor[w], h)'
    BY <2>1, <2>2, <2>3 DEF Stored
  <2> QED BY <2>2, <2>3, <1>u DEF Reached
<1>4. ASSUME NEW s \in Shards, PutShard(w, s)
      PROVE  (Reached(writtenFor[w] + 2) \/ \A h \in written[w] : Stored(w, writtenFor[w], h))'
  <2>1. /\ uncompacted' = uncompacted \cup {Blob(w, s, writtenFor[w], now)}
        /\ written' = [written EXCEPT ![w] = @ \cup {s}] /\ UNCHANGED writtenFor
    BY <1>4 DEF PutShard
  <2>2. written'[w] = written[w] \cup {s} /\ writtenFor'[w] = writtenFor[w]
    BY <2>1, <1>t
  <2>3. Stored(w, writtenFor[w], s)'
    <3>1. PICK b : b = Blob(w, s, writtenFor[w], now)
      OBVIOUS
    <3>2. b.epoch = writtenFor[w] /\ b.set = w /\ b.shard = s
      BY <3>1 DEF Blob
    <3> QED BY <2>1, <2>2, <3>1, <3>2 DEF Stored
  <2>4. ASSUME NEW h \in written[w], Stored(w, writtenFor[w], h) PROVE Stored(w, writtenFor[w], h)'
    BY <2>1, <2>2, <2>4 DEF Stored
  <2> QED BY <2>2, <2>3, <2>4, <1>u DEF Reached
<1> QED BY <1>1, <1>2, <1>3, <1>4 DEF Write, WriteIndex, CheckShardTime, DropPartialShard, UndoShard,
     InvalidateAfterWrite, VerifyWriteEpoch, WriteIndexError, writing

\* Who changes a place of WriteIndex: the call itself, committedState and a crash.
LEMMA WriterPlaces ==
  ASSUME TypeInv, [Next]_vars, NEW w \in Writers, ~Write(w)
  PROVE  /\ writtenFor'[w] = writtenFor[w] /\ written'[w] = written[w]
         /\ \/ pc'[w] = pc[w]
            \/ pc[w] \in WaitsForState /\ pc'[w] = Continue(w)
            \/ pc'[w] = "failed" /\ pc[w] # "acked"
<1>w. w \in Procs /\ w # M /\ w \notin Readers
  BY ProcessAssumption DEF Procs, M
<1>t. writtenFor \in [Writers -> Epochs \cup {-1}] /\ written \in [Writers -> SUBSET Shards]
  BY DEF TypeInv, TypeOK, WritersOK
<1>1. ASSUME NEW v \in Writers, Write(v)
      PROVE  pc'[w] = pc[w] /\ writtenFor'[w] = writtenFor[w] /\ written'[w] = written[w]
  <2>1. v # w
    BY <1>1
  <2>2. /\ writtenFor' = writtenFor \/ \E x : writtenFor' = [writtenFor EXCEPT ![v] = x]
        /\ written' = written \/ \E x : written' = [written EXCEPT ![v] = x]
    BY <1>1 DEF Write, WriteIndex, ChooseWriteEpoch, CheckShardTime, DropPartialShard, PutShard, UndoShard,
       InvalidateAfterWrite, VerifyWriteEpoch, WriteIndexError, DeleteShard, writing
  <2>3. writtenFor'[w] = writtenFor[w]
    BY <2>1, <2>2, <1>t
  <2>4. written'[w] = written[w]
    BY <2>1, <2>2, <1>t
  <2> QED BY <1>1, <1>w, <2>1, <2>3, <2>4, WriteFrame
<1>2. ASSUME NEW p \in Procs, Refresh(p)
      PROVE  UNCHANGED writing /\ (pc'[w] = pc[w] \/ (pc[w] \in WaitsForState /\ pc'[w] = Continue(w)))
  BY <1>2, <1>w, RefreshFrame
<1>3. ASSUME NEW r \in Readers, Read(r) PROVE UNCHANGED writing /\ pc'[w] = pc[w]
  BY <1>3, <1>w, ReadFrame
<1>4. ASSUME NEW m \in Crashable, Crash(m)
      PROVE  UNCHANGED writing /\ (pc'[w] = pc[w] \/ (pc'[w] = "failed" /\ pc[w] # "acked"))
  BY <1>4, <1>w, CrashFrame DEF Active
<1>5. CASE Maintain
  BY <1>5, <1>w, MaintainFrame DEF writing
<1>6. CASE Tick \/ UNCHANGED vars
  BY <1>6 DEF Tick, vars, writing
<1> QED BY <1>1, <1>2, <1>3, <1>4, <1>5, <1>6 DEF Next, writing

\* A write is acknowledged where WriteIndex has looked at the write epoch again.
LEMMA AckedBy ==
  ASSUME TypeInv, [Next]_vars, NEW a \in acked', a \notin acked
  PROVE  \E w \in Writers : VerifyWriteEpoch(w) /\ a.write = w /\ ~TooSlow(w) /\ a.epoch = writtenFor[w]
<1>1. ASSUME NEW p \in Procs, Refresh(p) PROVE UNCHANGED acked
  BY <1>1, RefreshFrame
<1>2. ASSUME NEW r \in Readers, Read(r) PROVE UNCHANGED acked
  BY <1>2, ReadFrame
<1>3. ASSUME NEW m \in Crashable, Crash(m) PROVE UNCHANGED acked
  BY <1>3, CrashFrame
<1>4. ASSUME NEW w \in Writers, Write(w) PROVE UNCHANGED acked \/ VerifyWriteEpoch(w)
  BY <1>4 DEF Write, WriteIndex, ChooseWriteEpoch, CheckShardTime, DropPartialShard, PutShard, UndoShard,
     InvalidateAfterWrite, WriteIndexError
<1>5. Maintain => UNCHANGED acked
  BY MaintainFrame
<1>6. Tick \/ UNCHANGED vars => UNCHANGED acked
  BY DEF Tick, vars
<1>7. PICK w \in Writers : VerifyWriteEpoch(w)
  BY <1>1, <1>2, <1>3, <1>4, <1>5, <1>6 DEF Next
<1>8. ~TooSlow(w) /\ a = [write |-> w, epoch |-> writtenFor[w]]
  BY <1>7 DEF VerifyWriteEpoch
<1> QED BY <1>7, <1>8

\* Crashes, errors and other clients do not disturb what a write relies on.
LEMMA WriterStep == ASSUME TypeInv, StorageInv, MaintInv, WriterInv, [Next]_vars PROVE WriterInv'
<1>g. Grows
  BY GrowsStep
<1>o. op \in AllOps \cup {"idle"}
  BY DEF TypeInv, TypeOK, MaintenanceOK
<1>t. writtenFor \in [Writers -> Epochs \cup {-1}] /\ written \in [Writers -> SUBSET Shards] /\ pc \in [Procs -> Places]
      /\ Writers \subseteq Procs
  BY DEF TypeInv, TypeOK, WritersOK, ProcsOK, Procs
<1>1. AckedDone'
  <2> SUFFICES ASSUME NEW a \in acked', a.write \in Writers PROVE pc'[a.write] = "acked"
    BY DEF AckedDone
  <2>1. CASE a \in acked
    <3>1. pc[a.write] = "acked"
      BY <2>1 DEF WriterInv, AckedDone
    <3>2. CASE Write(a.write)
      BY <3>1, <3>2 DEF Write, WriteIndex, ChooseWriteEpoch, CheckShardTime, DropPartialShard, PutShard, UndoShard,
         InvalidateAfterWrite, VerifyWriteEpoch, WriteIndexError
    <3>3. CASE ~Write(a.write)
      BY <3>1, <3>3, WriterPlaces DEF WaitsForState
    <3> QED BY <3>2, <3>3
  <2>2. CASE a \notin acked
    <3>1. PICK w \in Writers : VerifyWriteEpoch(w) /\ a.write = w /\ ~TooSlow(w)
      BY <2>2, AckedBy
    <3>2. a.write = w /\ pc' = [pc EXCEPT ![w] = "acked"]
      BY <3>1 DEF VerifyWriteEpoch, Leave, Goto
    <3> QED BY <3>2, <1>t
  <2> QED BY <2>1, <2>2
<1>2. AllWritten'
  <2> SUFFICES ASSUME NEW w \in Writers, pc'[w] \in {"writeRecheck", "writeVerify"} PROVE written'[w] = Shards
    BY DEF AllWritten
  <2>0. pc[w] \in {"writeRecheck", "writeVerify"} => written[w] = Shards
    BY DEF WriterInv, AllWritten
  <2>1. CASE Write(w)
    <3>1. CASE InvalidateAfterWrite(w)
      BY <3>1 DEF InvalidateAfterWrite, writing
    <3>2. \/ InvalidateAfterWrite(w)
          \/ pc' = pc /\ pc[w] \in {"writeEpoch", "writeUndo"}
          \/ \E l \in {"writeState", "writeShard", "writePut", "writeUndo", "acked", "failed"} : pc' = [pc EXCEPT ![w] = l]
      BY <2>1 DEF Write, WriteIndex, ChooseWriteEpoch, CheckShardTime, DropPartialShard, PutShard, UndoShard,
         VerifyWriteEpoch, WriteIndexError, Goto, Leave
    <3> QED BY <3>1, <3>2, <1>t
  <2>2. CASE ~Write(w)
    <3>1. pc[w] \in {"writeRecheck", "writeVerify"} /\ written'[w] = written[w]
      BY <2>2, <1>o, WriterPlaces DEF WaitsForState, Continue, AllOps
    <3> QED BY <3>1, <2>0
  <2> QED BY <2>1, <2>2
<1>3. WrittenStored'
  <2> SUFFICES ASSUME NEW w \in Writers
               PROVE  (Reached(writtenFor[w] + 2) \/ \A h \in written[w] : Stored(w, writtenFor[w], h))'
    BY DEF WrittenStored
  <2>0. Reached(writtenFor[w] + 2) \/ \A h \in written[w] : Stored(w, writtenFor[w], h)
    BY DEF WriterInv, WrittenStored
  <2>1. CASE Write(w)
    BY <2>0, <2>1, WriteStored
  <2>2. CASE ~Write(w)
    <3>1. PICK e, ss : e = writtenFor[w] /\ ss = written[w] /\ e = writtenFor'[w] /\ ss = written'[w]
      BY <2>2, WriterPlaces
    <3>2. e + 2 \in Int
      <4>1. e \in Epochs \cup {-1}
        BY <3>1, <1>t
      <4>2. Epochs \subseteq Int /\ -1 \in Int
        BY RepositoryAssumption DEF Epochs
      <4> QED BY <4>1, <4>2
    <3>3. CASE Reached(e + 2)
      BY <3>1, <3>2, <3>3, <1>g DEF Grows
    <3>4. CASE ~Reached(e + 2)
      <4>1. \A b \in doomed : DeleteIndex(b) => b.epoch # e
        BY <3>4, DeletedSettled
      <4>2. ASSUME NEW h \in ss PROVE Stored(w, e, h)'
        <5>1. Stored(w, e, h)
          BY <2>0, <3>1, <3>4
        <5> QED BY <2>2, <4>1, <5>1, StoredStays
      <4> QED BY <3>1, <4>2
    <3> QED BY <3>3, <3>4
  <2> QED BY <2>1, <2>2
<1> QED BY <1>1, <1>2, <1>3 DEF WriterInv

\* A Manager's write epoch, as far as it is known, comes from its refresh; loadWriteEpoch reads the
\* markers.
EpochKept(m) ==
  /\ known'[m] = known[m] \/ known'[m] = ZeroSnapshot
     \/ (mu[m] # NoProc /\ loads[m] = {} /\ known'[m] = attempt[m] /\ mu'[m] = NoProc)
  /\ mu'[m] # NoProc /\ "writeEpoch" \notin loads'[m] =>
       mu[m] # NoProc /\ "writeEpoch" \notin loads[m] /\ attempt'[m].WriteEpoch = attempt[m].WriteEpoch
\* Only loadWriteEpoch brings a write epoch that the Manager did not have.
LEMMA RefreshEpoch ==
  ASSUME TypeInv, NEW p \in Procs, Refresh(p), NEW m \in Managers, ~(m = Mgr(p) /\ loadWriteEpoch(p))
  PROVE  EpochKept(m)
<1>t. /\ known \in [Managers -> Snapshot] /\ attempt \in [Managers -> Snapshot] /\ Mgr(p) \in Managers
      /\ mu \in [Managers -> Procs \cup {NoProc}] /\ loads \in [Managers -> SUBSET {"writeEpoch", "single", "range"}]
      /\ p # NoProc
  BY ProcessAssumption DEF TypeInv, TypeOK, ManagerOK, Mgr
<1>1. CASE UseKnownState(p)
  BY <1>1 DEF UseKnownState, manager, EpochKept
<1>2. CASE StartRefresh(p)
  <2>1. BeginAttempt(Mgr(p)) /\ known' = known /\ mu' = [mu EXCEPT ![Mgr(p)] = p]
    BY <1>2 DEF StartRefresh
  <2>2. m # Mgr(p) => loads'[m] = loads[m] /\ attempt'[m] = attempt[m] /\ mu'[m] = mu[m]
    BY <2>1, <1>t, BeginOK
  <2>3. m = Mgr(p) => "writeEpoch" \in loads'[m]
    BY <2>1, <1>t, BeginOK
  <2> QED BY <2>1, <2>2, <2>3 DEF EpochKept
<1>3. CASE loadWriteEpoch(p)
  <2>1. m # Mgr(p)
    BY <1>3
  <2>2. PICK w : attempt' = [attempt EXCEPT ![Mgr(p)].WriteEpoch = w, ![Mgr(p)].EpochMarkerBlobs = markers]
    BY <1>3 DEF loadWriteEpoch
  <2>3. loads' = [loads EXCEPT ![Mgr(p)] = @ \ {"writeEpoch"}] /\ UNCHANGED <<known, mu>>
    BY <1>3 DEF loadWriteEpoch, Loading
  <2>4. attempt'[m] = attempt[m] /\ loads'[m] = loads[m]
    BY <2>1, <2>2, <2>3, <1>t
  <2> QED BY <2>3, <2>4 DEF EpochKept
<1>4. CASE loadSingleEpochCompactions(p)
  <2>1. PICK v : attempt' = [attempt EXCEPT ![Mgr(p)].SingleEpochCompactionSets = v]
    BY <1>4 DEF loadSingleEpochCompactions
  <2>2. loads' = [loads EXCEPT ![Mgr(p)] = @ \ {"single"}] /\ UNCHANGED <<known, mu>>
    BY <1>4 DEF loadSingleEpochCompactions, Loading
  <2>3. attempt'[m].WriteEpoch = attempt[m].WriteEpoch
    BY <2>1, <1>t DEF Snapshot
  <2>4. "writeEpoch" \notin loads'[m] => "writeEpoch" \notin loads[m]
    BY <2>2, <1>t
  <2> QED BY <2>2, <2>3, <2>4 DEF EpochKept
<1>5. CASE loadRangeCheckpoints(p)
  <2>1. PICK c : attempt' = [attempt EXCEPT ![Mgr(p)].LongestRangeCheckpointSets = c]
    BY <1>5 DEF loadRangeCheckpoints
  <2>2. loads' = [loads EXCEPT ![Mgr(p)] = @ \ {"range"}] /\ UNCHANGED <<known, mu>>
    BY <1>5 DEF loadRangeCheckpoints, Loading
  <2>3. attempt'[m].WriteEpoch = attempt[m].WriteEpoch
    BY <2>1, <1>t DEF Snapshot
  <2>4. "writeEpoch" \notin loads'[m] => "writeEpoch" \notin loads[m]
    BY <2>2, <1>t
  <2> QED BY <2>2, <2>3, <2>4 DEF EpochKept
<1>6. ASSUME NEW e \in 0..MaxEpoch + 1, loadUncompactedEpoch(p, e) PROVE EpochKept(m)
  <2>1. PICK c : attempt' = [attempt EXCEPT ![Mgr(p)].UncompactedEpochSets = c]
    BY <1>6 DEF loadUncompactedEpoch
  <2>2. UNCHANGED <<known, mu, loads>>
    BY <1>6 DEF loadUncompactedEpoch
  <2>3. attempt'[m].WriteEpoch = attempt[m].WriteEpoch
    BY <2>1, <1>t DEF Snapshot
  <2> QED BY <2>2, <2>3 DEF EpochKept
<1>7. CASE FinishRefresh(p)
  <2>1. CASE BeginAttempt(Mgr(p)) /\ UNCHANGED <<mu, known, pc, cs>>
    <3>1. m # Mgr(p) => loads'[m] = loads[m] /\ attempt'[m] = attempt[m]
      BY <2>1, <1>t, BeginOK
    <3>2. m = Mgr(p) => "writeEpoch" \in loads'[m]
      BY <2>1, <1>t, BeginOK
    <3> QED BY <2>1, <3>1, <3>2 DEF EpochKept
  <2>2. CASE /\ known' = [known EXCEPT ![Mgr(p)] = attempt[Mgr(p)]]
             /\ mu' = [mu EXCEPT ![Mgr(p)] = NoProc]
             /\ attempt' = [attempt EXCEPT ![Mgr(p)] = ZeroSnapshot]
             /\ UNCHANGED loads
    <3>1. mu[Mgr(p)] = p /\ loads[Mgr(p)] = {}
      BY <1>7 DEF FinishRefresh
    <3>2. CASE m = Mgr(p)
      BY <2>2, <3>1, <3>2, <1>t DEF EpochKept
    <3>3. CASE m # Mgr(p)
      BY <2>2, <3>3, <1>t DEF EpochKept
    <3> QED BY <3>2, <3>3
  <2> QED BY <1>7, <2>1, <2>2 DEF FinishRefresh
<1> QED BY <1>1, <1>2, <1>3, <1>4, <1>5, <1>6, <1>7 DEF Refresh

\* committedState gives its caller what its Manager knows then.
LEMMA StateGiven ==
  ASSUME TypeInv, NEW p \in Procs, Refresh(p), pc'[p] # pc[p] PROVE cs'[p] = known'[Mgr(p)] /\ Loaded(cs'[p])
<1>t. /\ cs \in [Procs -> Snapshot] /\ known \in [Managers -> Snapshot] /\ Mgr(p) \in Managers
  BY ProcessAssumption DEF TypeInv, TypeOK, ProcsOK, ManagerOK, Procs, Mgr
<1>1. UseKnownState(p) => cs'[p] = known'[Mgr(p)]
  BY <1>t DEF UseKnownState, manager
<1>2. FinishRefresh(p) => cs'[p] = known'[Mgr(p)]
  BY <1>t DEF FinishRefresh
<1>3. cs'[p] = known'[Mgr(p)]
  BY <1>1, <1>2 DEF Refresh, StartRefresh, loadWriteEpoch, loadSingleEpochCompactions,
     loadRangeCheckpoints, loadUncompactedEpoch
<1> QED BY <1>3, RefreshFrame

\* No step but a reading of the markers makes a write verified.
LEMMA VerifiedKept ==
  ASSUME NEW x \in Writers, pc'[x] = pc[x], cs'[x] = cs[x], writtenFor'[x] = writtenFor[x],
         EpochKept(Mgr(x)), Verified(x)'
  PROVE  Verified(x)
<1>m. Mgr(x)' = Mgr(x)
  BY DEF Mgr
<1>1. CASE (pc[x] = "writeVerify" /\ ~TooSlow(x))'
  BY <1>1 DEF Verified, TooSlow
<1>2. CASE (pc[x] = "writeRecheck" /\ Loaded(known[Mgr(x)]) /\ Early(x, known[Mgr(x)]))'
  <2>1. pc[x] = "writeRecheck" /\ Loaded(known'[Mgr(x)]) /\ known'[Mgr(x)].WriteEpoch < writtenFor[x] + 2
    BY <1>2, <1>m DEF Loaded, Early
  <2> QED BY <2>1, ZeroNotLoaded DEF EpochKept, Verified, Early
<1>3. CASE (pc[x] = "writeRecheck" /\ mu[Mgr(x)] # NoProc /\ "writeEpoch" \notin loads[Mgr(x)] /\ Early(x, attempt[Mgr(x)]))'
  <2>1. /\ pc[x] = "writeRecheck" /\ mu'[Mgr(x)] # NoProc /\ "writeEpoch" \notin loads'[Mgr(x)]
        /\ attempt'[Mgr(x)].WriteEpoch < writtenFor[x] + 2
    BY <1>3, <1>m DEF Early
  <2> QED BY <2>1 DEF EpochKept, Verified, Early
<1> QED BY <1>1, <1>2, <1>3 DEF Verified

\* Reading the markers does, but only if the epoch of the write is not settled then.
LEMMA MarkersRead ==
  ASSUME TypeInv, WriterInv, NEW p \in Procs, loadWriteEpoch(p), NEW x \in Writers, Mgr(p) = Mgr(x), Verified(x)'
  PROVE  Verified(x) \/ (Fresh(x, writtenFor[x]) /\ pc[x] = "writeRecheck")
<1>m. Mgr(x)' = Mgr(x) /\ Mgr(p) \in Managers /\ attempt \in [Managers -> Snapshot]
  BY ProcessAssumption DEF Mgr, TypeInv, TypeOK, ManagerOK
<1>u. UNCHANGED <<pc, cs, known, writtenFor>>
  BY DEF loadWriteEpoch, writing
<1>1. CASE Verified(x)
  BY <1>1
<1>2. CASE ~Verified(x)
  <2>1. pc[x] = "writeRecheck" /\ attempt'[Mgr(x)].WriteEpoch < writtenFor[x] + 2
    BY <1>2, <1>m, <1>u DEF Verified, TooSlow, Early, Loaded
  <2>2. PICK w \in markers \cup {0} : /\ \A n \in markers : n <= w
          /\ attempt' = [attempt EXCEPT ![Mgr(p)].WriteEpoch = w, ![Mgr(p)].EpochMarkerBlobs = markers]
    BY DEF loadWriteEpoch
  <2>3. attempt'[Mgr(p)].WriteEpoch = w
    BY <2>2, <1>m DEF Snapshot
  <2>4. writtenFor[x] \in Epochs /\ markers \subseteq Epochs
    BY <2>1 DEF TypeInv, TypeOK, StorageOK, EpochChosen
  <2>5. w < writtenFor[x] + 2
    BY <2>1, <2>3
  <2>6. ~Reached(writtenFor[x] + 2)
    BY <2>2, <2>4, <2>5, RepositoryAssumption DEF Reached, Epochs
  <2>7. written[x] = Shards
    BY <2>1 DEF WriterInv, AllWritten
  <2>8. \A h \in Shards : Stored(x, writtenFor[x], h)
    BY <2>6, <2>7 DEF WriterInv, WrittenStored
  <2> QED BY <2>1, <2>4, <2>6, <2>8 DEF Fresh
<1> QED BY <1>1, <1>2

\* A write comes to be promised when its shards are stored in an epoch that is not settled.
LEMMA PromiseStep ==
  ASSUME TypeInv, WriterInv, [Next]_vars, NEW x, NEW e, Promised(x, e)'
  PROVE  Keeps(x) /\ (Promised(x, e) \/ Fresh(x, e))
<1>k. Promised(x, e) => Keeps(x)
  BY DEF Promised, Verified, Keeps, WriterInv, AckedDone
<1> SUFFICES Promised(x, e) \/ (Fresh(x, e) /\ pc[x] = "writeRecheck")
  BY <1>k DEF Keeps
<1>1. ASSUME NEW a \in acked', a.write = x, a.epoch = e PROVE Promised(x, e)
  <2>1. CASE a \in acked
    BY <1>1, <2>1 DEF Promised
  <2>2. CASE a \notin acked
    <3>1. PICK w \in Writers : VerifyWriteEpoch(w) /\ a.write = w /\ ~TooSlow(w) /\ a.epoch = writtenFor[w]
      BY <2>2, AckedBy
    <3> QED BY <1>1, <3>1 DEF VerifyWriteEpoch, Promised, Verified
  <2> QED BY <2>1, <2>2
<1>2. CASE x \in Writers /\ e = writtenFor'[x] /\ Verified(x)'
  <2>w. x \in Procs /\ x # M /\ x \notin Readers /\ Mgr(x) \in Managers /\ Mgr(x)' = Mgr(x)
    BY <1>2, ProcessAssumption DEF Procs, M, Mgr
  <2>t. pc \in [Procs -> Places] /\ known \in [Managers -> Snapshot]
    BY DEF TypeInv, TypeOK, ProcsOK, ManagerOK
  <2>p. pc'[x] \in {"writeVerify", "writeRecheck"}
    BY <1>2 DEF Verified
  <2>1. ~Write(x)
    <3>1. SUFFICES ASSUME Write(x) PROVE FALSE
      OBVIOUS
    <3>2. \/ InvalidateAfterWrite(x)
          \/ pc' = pc /\ pc[x] \in {"writeEpoch", "writeUndo"}
          \/ \E l \in {"writeState", "writeShard", "writePut", "writeUndo", "acked", "failed"} : pc' = [pc EXCEPT ![x] = l]
      BY <3>1 DEF Write, WriteIndex, ChooseWriteEpoch, CheckShardTime, DropPartialShard, PutShard, UndoShard,
         VerifyWriteEpoch, WriteIndexError, Goto, Leave
    <3>3. InvalidateAfterWrite(x)
      BY <3>2, <2>p, <2>w, <2>t
    <3>4. pc'[x] = "writeRecheck" /\ known'[Mgr(x)] = ZeroSnapshot /\ mu'[Mgr(x)] = NoProc
      BY <3>3, <2>w, <2>t DEF InvalidateAfterWrite, Leave, Goto
    <3> QED BY <1>2, <3>4, <2>w, ZeroNotLoaded DEF Verified, Loaded
  <2>f. writtenFor'[x] = writtenFor[x]
    BY <1>2, <2>1, WriterPlaces
  <2>v. SUFFICES Verified(x) \/ (Fresh(x, writtenFor[x]) /\ pc[x] = "writeRecheck")
    BY <1>2, <2>f DEF Promised
  <2>2. CASE UNCHANGED <<mu, attempt, loads, known>> /\ pc'[x] = pc[x] /\ cs'[x] = cs[x]
    <3>1. EpochKept(Mgr(x))
      BY <2>2 DEF EpochKept
    <3> QED BY <1>2, <2>2, <2>f, <3>1, VerifiedKept
  <2>3. ASSUME NEW p \in Procs, Refresh(p) PROVE Verified(x) \/ (Fresh(x, writtenFor[x]) /\ pc[x] = "writeRecheck")
    <3>1. CASE Mgr(x) = Mgr(p) /\ loadWriteEpoch(p)
      BY <1>2, <3>1, MarkersRead
    <3>2. CASE ~(Mgr(x) = Mgr(p) /\ loadWriteEpoch(p))
      <4>1. EpochKept(Mgr(x))
        BY <2>3, <3>2, <2>w, RefreshEpoch
      <4>2. CASE pc'[x] = pc[x] /\ cs'[x] = cs[x]
        BY <1>2, <2>f, <4>1, <4>2, VerifiedKept
      <4>3. CASE pc'[x] # pc[x]
        <5>1. p = x /\ pc[x] \in WaitsForState /\ pc'[x] = Continue(x)
          BY <2>3, <2>w, <4>3, RefreshFrame
        <5>2. op \in AllOps \cup {"idle"}
          BY DEF TypeInv, TypeOK, MaintenanceOK
        <5>3. pc[x] = "writeRecheck" /\ pc'[x] = "writeVerify"
          BY <5>1, <5>2, <2>p DEF WaitsForState, Continue, AllOps
        <5>4. cs'[x] = known'[Mgr(x)] /\ Loaded(known'[Mgr(x)])
          BY <2>3, <4>3, <5>1, StateGiven
        <5>5. ~TooSlow(x)'
          BY <1>2, <5>3 DEF Verified
        <5>6. Early(x, cs'[x])
          <6>1. cs'[x].WriteEpoch \in Int /\ writtenFor[x] \in Int
            BY <1>2, <2>3, <2>w, RefreshType, RepositoryAssumption DEF TypeInv, TypeOK, ProcsOK, WritersOK, Snapshot, Epochs
          <6> QED BY <5>5, <6>1, <2>f DEF TooSlow, Early
        <5> QED BY <5>3, <5>4, <5>6, <4>1, ZeroNotLoaded DEF EpochKept, Verified, Early
      <4>4. pc[x] \in WaitsForState => Continue(x) # pc[x]
        BY DEF WaitsForState, Continue, AllOps, TypeInv, TypeOK, MaintenanceOK
      <4> QED BY <2>3, <2>w, <4>2, <4>3, <4>4, RefreshFrame
    <3> QED BY <3>1, <3>2
  <2>4. ASSUME NEW w \in Writers, Write(w) PROVE Verified(x)
    <3>1. w # x
      BY <2>1, <2>4
    <3>2. pc'[x] = pc[x] /\ cs'[x] = cs[x] /\ EpochKept(Mgr(x))
      BY <2>4, <2>w, <3>1, WriteFrame DEF EpochKept
    <3> QED BY <1>2, <2>f, <3>2, VerifiedKept
  <2>5. ASSUME NEW r \in Readers, Read(r) PROVE Verified(x) \/ (Fresh(x, writtenFor[x]) /\ pc[x] = "writeRecheck")
    BY <2>5, <2>w, <2>2, ReadFrame DEF manager
  <2>6. ASSUME NEW m \in Crashable, Crash(m) PROVE Verified(x)
    <3>1. pc'[x] = pc[x] /\ cs'[x] = cs[x]
      BY <1>2, <2>6, <2>w, <2>p, CrashFrame
    <3>2. /\ Mgr(x) # m => known'[Mgr(x)] = known[Mgr(x)] /\ attempt'[Mgr(x)] = attempt[Mgr(x)] /\ mu'[Mgr(x)] = mu[Mgr(x)]
                           /\ loads'[Mgr(x)] = loads[Mgr(x)]
          /\ known'[m] = ZeroSnapshot /\ mu'[m] = NoProc
      BY <2>6, <2>w, CrashFrame
    <3>3. EpochKept(Mgr(x))
      BY <3>2 DEF EpochKept
    <3> QED BY <1>2, <2>f, <3>1, <3>3, VerifiedKept
  <2>7. CASE Maintain
    BY <2>7, <2>w, <2>2, MaintainFrame DEF manager
  <2>8. CASE Tick \/ UNCHANGED vars
    BY <2>8, <2>2 DEF Tick, vars, manager
  <2> QED BY <2>3, <2>4, <2>5, <2>6, <2>7, <2>8 DEF Next
<1> QED BY <1>1, <1>2 DEF Promised
----------------------------------------------------------------------------
(* An acknowledged write is never lost *)

\* As long as cleanup has not come to a write, its blobs are stored, and everything that was or is
\* being compacted from them has its entries.
Untouched(x, e) ==
  /\ \A h \in Shards : Stored(x, e, h)
  /\ \A b \in singles : b.epoch = e => <<x, b.shard>> \in b.content
  /\ op = "compactSingle" /\ lo = e => \A h \in Shards :
       /\ pc[M] = "compactRead" => <<x, h>> \in ContentOf(blobs)
       /\ pc[M] = "compactWrite" => <<x, h>> \in content
\* After that a whole compaction has them.
Covered(x, e) == \E n : \A h \in Shards : \E b \in singles : b.epoch = e /\ b.set = n /\ b.shard = h /\ <<x, h>> \in b.content
Safe(x, e) == Untouched(x, e) \/ Covered(x, e)
PromisesKept == \A x \in Writes, e \in Epochs : Promised(x, e) => Safe(x, e)

\* What has not been settled has not been touched.
LEMMA FreshSafe == ASSUME TypeInv, StorageInv, MaintInv, NEW x, NEW e, Fresh(x, e) PROVE Untouched(x, e)
<1>1. \A b \in singles : b.epoch # e
  BY DEF Fresh, StorageInv, CompactionsSettled
<1>2. op = "compactSingle" /\ lo = e => pc[M] \notin {"compactRead", "compactWrite"}
  BY DEF Fresh, MaintInv, WorkSettled, Compacting
<1> QED BY <1>1, <1>2 DEF Untouched, Fresh

\* A complete compaction of an untouched epoch covers it.
LEMMA CompleteCovers == ASSUME NEW x, NEW e \in CompleteEpochs, Untouched(x, e) PROVE Covered(x, e)
<1>1. PICK n : n \in CompleteSets(OfEpoch(singles, e))
  BY DEF CompleteEpochs
<1>2. ASSUME NEW h \in Shards PROVE \E b \in singles : b.epoch = e /\ b.set = n /\ b.shard = h /\ <<x, h>> \in b.content
  <2>1. PICK b \in OfEpoch(singles, e) : b.set = n /\ b.shard = h
    BY <1>1 DEF CompleteSets
  <2> QED BY <2>1 DEF OfEpoch, Untouched
<1> QED BY <1>2 DEF Covered

\* The steps of clients, and those of maintenance that compact nothing, add no compaction.
LEMMA UntouchedElse ==
  ASSUME NEW x, NEW e, Untouched(x, e), \A h \in Shards : Stored(x, e, h)', UNCHANGED singles,
         pc'[M] \notin {"compactRead", "compactWrite"} \/ op' # "compactSingle"
           \/ (pc'[M] = pc[M] /\ UNCHANGED <<op, lo, blobs, content>>)
  PROVE  Untouched(x, e)'
  BY DEF Untouched

\* The parts that are written have the entries that were read.
LEMMA UntouchedMaintain ==
  ASSUME TypeInv, StorageInv, MaintInv, NEW x, NEW e, Untouched(x, e), \A h \in Shards : Stored(x, e, h)', Maintain
  PROVE  Untouched(x, e)'
<1>m. M \in Procs /\ pc \in [Procs -> Places]
  BY ProcessAssumption DEF Procs, M, TypeInv, TypeOK, ProcsOK
<1>i. EndMaintenance => pc'[M] = "idle"
  BY <1>m DEF EndMaintenance, Leave, Goto
<1>1. CASE ListEpochToCompact
  <2>1. UNCHANGED <<singles, uncompacted, op, lo>> /\ pc'[M] = "compactRead" /\ blobs' = OfEpoch(uncompacted, lo)
    BY <1>1, <1>m DEF ListEpochToCompact, storage, Goto
  <2>2. ASSUME lo = e, NEW h \in Shards PROVE <<x, h>> \in ContentOf(blobs')
    <3>1. PICK b \in uncompacted : b.epoch = e /\ b.set = x /\ b.shard = h
      BY DEF Untouched, Stored
    <3>2. b.content = {<<x, h>>}
      BY <3>1 DEF StorageInv, BlobsNamed
    <3> QED BY <2>1, <2>2, <3>1, <3>2 DEF ContentOf, OfEpoch
  <2> QED BY <2>1, <2>2 DEF Untouched, ContentOf
<1>2. CASE CompactEpoch
  <2>1. UNCHANGED singles
    BY <1>2 DEF CompactEpoch, storage
  <2>2. CASE EndMaintenance
    BY <1>i, <2>1, <2>2, UntouchedElse
  <2>3. CASE ~EndMaintenance
    <3>1. pc[M] = "compactRead" /\ pc'[M] = "compactWrite" /\ content' = ContentOf(blobs) /\ UNCHANGED <<op, lo>>
      BY <1>2, <2>3, <1>m DEF CompactEpoch, Goto
    <3> QED BY <2>1, <3>1 DEF Untouched
  <2> QED BY <2>2, <2>3
<1>3. ASSUME NEW s \in Shards, WritePart(s) PROVE Untouched(x, e)'
  <2>1. pc[M] = "compactWrite" /\ (EndMaintenance \/ UNCHANGED <<op, lo, content, pc>>)
    BY <1>3 DEF WritePart
  <2>2. \A b \in singles' : b.epoch = e => <<x, b.shard>> \in b.content
    <3>1. CASE op # "compactSingle"
      BY <1>3, <3>1 DEF WritePart, Untouched
    <3>2. CASE op = "compactSingle"
      <4>1. PICK n : /\ n.epoch = lo /\ n.shard = s /\ n.content = {y \in content : y[2] = s}
                     /\ singles' = singles \cup {n}
        <5> DEFINE new == [epoch |-> lo, set |-> sets, shard |-> s, content |-> {y \in content : y[2] = s}, ts |-> now]
        <5>1. new.epoch = lo /\ new.shard = s /\ new.content = {y \in content : y[2] = s} /\ singles' = singles \cup {new}
          BY <1>3, <3>2 DEF WritePart
        <5> QED BY <5>1
      <4>2. lo = e => <<x, s>> \in content
        BY <2>1, <3>2 DEF Untouched
      <4>3. lo = e => <<x, s>> \in n.content
        BY <4>1, <4>2
      <4> QED BY <4>1, <4>3 DEF Untouched
    <3> QED BY <3>1, <3>2
  <2>3. CASE EndMaintenance
    BY <1>i, <2>2, <2>3 DEF Untouched
  <2>4. CASE UNCHANGED <<op, lo, content, pc>>
    BY <2>1, <2>2, <2>4 DEF Untouched
  <2> QED BY <2>1, <2>3, <2>4
<1>4. \/ ListEpochToCompact \/ CompactEpoch \/ \E s \in Shards : WritePart(s)
      \/ UNCHANGED singles /\ (pc'[M] \notin {"compactRead", "compactWrite"} \/ op' # "compactSingle")
  <2>1. \/ ListEpochToCompact \/ CompactEpoch \/ (\E s \in Shards : WritePart(s)) \/ CheckRangeTime
        \/ UNCHANGED singles /\ EndMaintenance
        \/ UNCHANGED <<singles, pc>> /\ pc[M] \in {"rangeList", "deleteMarkers", "deleteIndexes"}
        \/ UNCHANGED singles /\ \E l : l \notin {"compactRead", "compactWrite"} /\ pc' = [pc EXCEPT ![M] = l]
    BY DEF Maintain, StartMaintenance, MaybeAdvanceWriteEpoch, advanceEpochMarker, MaybeCompactSingleEpoch,
       MaybeGenerateRangeCheckpoint, ListRangeEpoch, CleanupMarkers, DeleteMarker, CleanupSupersededIndexes,
       DeleteIndex, MaintenanceError, storage, Goto
  <2>2. CASE CheckRangeTime
    <3>1. pc[M] = "rangeList" /\ UNCHANGED singles /\ (EndMaintenance \/ UNCHANGED op)
      BY <2>2 DEF CheckRangeTime, storage, maint
    <3>2. op = "range"
      BY <3>1 DEF MaintInv, WorkSettled
    <3> QED BY <1>i, <3>1, <3>2
  <2> QED BY <2>1, <2>2, <1>i, <1>m
<1> QED BY <1>1, <1>2, <1>3, <1>4, UntouchedElse

\* Clients do not work on what maintenance compacts, except that a crash of its own ends it.
LEMMA ClientCompacts ==
  ASSUME TypeInv, MaintInv, ClientStep
  PROVE  \/ pc'[M] \notin Compacting
         \/ pc'[M] = pc[M] /\ cs'[M] = cs[M] /\ toList'[M] = toList[M] /\ UNCHANGED <<op, lo, hi, blobs, content>>
<1>m. M \in Procs
  BY ProcessAssumption DEF Procs, M
<1>1. ASSUME NEW p \in Procs, Refresh(p)
      PROVE  \/ pc'[M] \notin Compacting
             \/ pc'[M] = pc[M] /\ cs'[M] = cs[M] /\ toList'[M] = toList[M] /\ UNCHANGED <<op, lo, hi, blobs, content>>
  <2>1. /\ UNCHANGED <<op, lo, hi, blobs, content, toList>>
        /\ \/ pc'[M] = pc[M] /\ cs'[M] = cs[M]
           \/ pc[M] \in WaitsForState /\ pc'[M] = Continue(M)
    BY <1>1, <1>m, RefreshFrame DEF maint
  <2>2. CASE pc[M] \in WaitsForState /\ pc'[M] = Continue(M)
    BY <2>2 DEF MaintInv, WorkSettled, WaitsForState, Continue, TypeInv, TypeOK, MaintenanceOK, AllOps, Compacting
  <2> QED BY <2>1, <2>2
<1>2. ASSUME NEW w \in Writers, Write(w) PROVE MaintainerRests
  BY <1>2, WriteFrame
<1>3. ASSUME NEW r \in Readers, Read(r) PROVE MaintainerRests
  BY <1>3, ReadFrame
<1>4. ASSUME NEW m \in Crashable, Crash(m) PROVE MaintainerRests \/ pc'[M] = "idle"
  BY <1>4, CrashFrame
<1>5. Tick \/ UNCHANGED vars => MaintainerRests
  BY DEF Tick, vars, MaintainerRests, maint, reading
<1> QED BY <1>1, <1>2, <1>3, <1>4, <1>5 DEF ClientStep, MaintainerRests, Compacting

\* What is safe stays safe: only cleanup deletes it, and it has seen a whole compaction of the epoch.
LEMMA SafeStep ==
  ASSUME TypeInv, StorageInv, MaintInv, [Next]_vars, NEW x, NEW e, Keeps(x), Safe(x, e) PROVE Safe(x, e)'
<1>c. Covered(x, e) => Safe(x, e)'
  <2>1. singles \subseteq singles'
    BY GrowsStep DEF Grows
  <2> QED BY <2>1 DEF Covered, Safe
<1>1. CASE Untouched(x, e)
  <2>1. CASE \E b \in doomed : DeleteIndex(b) /\ b.epoch = e
    BY <1>1, <2>1, <1>c, DeletedSettled, CompleteCovers
  <2>2. CASE \A b \in doomed : DeleteIndex(b) => b.epoch # e
    <3>1. \A h \in Shards : Stored(x, e, h)
      BY <1>1 DEF Untouched
    <3>2. \A h \in Shards : Stored(x, e, h)'
      BY <2>2, <3>1, StoredStays
    <3>3. CASE Maintain
      BY <1>1, <3>2, <3>3, UntouchedMaintain DEF Safe
    <3>4. CASE ClientStep
      <4>1. UNCHANGED singles
        BY <3>4, ClientStorage
      <4>2. pc'[M] \notin {"compactRead", "compactWrite"} \/ (pc'[M] = pc[M] /\ UNCHANGED <<op, lo, blobs, content>>)
        BY <3>4, ClientCompacts DEF Compacting
      <4> QED BY <1>1, <3>2, <4>1, <4>2, UntouchedElse DEF Safe
    <3> QED BY <3>3, <3>4, StepSplit
  <2> QED BY <2>1, <2>2
<1> QED BY <1>1, <1>c DEF Safe

\* So promises are kept.
LEMMA PromisesStep ==
  ASSUME TypeInv, StorageInv, MaintInv, WriterInv, PromisesKept, [Next]_vars PROVE PromisesKept'
<1> SUFFICES ASSUME NEW x \in Writes, NEW e \in Epochs, Promised(x, e)' PROVE Safe(x, e)'
  BY DEF PromisesKept
<1>1. Keeps(x) /\ (Promised(x, e) \/ Fresh(x, e))
  BY PromiseStep
<1>2. Safe(x, e)
  BY <1>1, FreshSafe DEF PromisesKept, Safe
<1> QED BY <1>1, <1>2, SafeStep

\* A write is at the start either acknowledged or before its second look.
LEMMA InitPromised ==
  ASSUME Init, NEW x, NEW e, Promised(x, e) PROVE x \in InitWrites /\ e = InitEpoch[x]
<1>1. ASSUME x \in Writers PROVE ~Verified(x)
  <2>1. x \in Procs
    BY <1>1 DEF Procs
  <2> QED BY <2>1 DEF Init, Verified
<1>2. PICK a \in acked : a.write = x /\ a.epoch = e
  BY <1>1 DEF Promised
<1>3. PICK w \in InitWrites : a = [write |-> w, epoch |-> InitEpoch[w]]
  BY DEF Init
<1> QED BY <1>2, <1>3

\* The initial repository has what it acknowledged.
LEMMA InitStored == ASSUME Init, NEW x \in InitWrites, NEW h \in Shards PROVE Stored(x, InitEpoch[x], h)
<1>1. PICK b : b = Blob(x, h, InitEpoch[x], InitTime[x])
  OBVIOUS
<1>2. b \in uncompacted
  BY <1>1 DEF Init, InitBlobs
<1>3. b.epoch = InitEpoch[x] /\ b.set = x /\ b.shard = h
  BY <1>1 DEF Blob
<1> QED BY <1>2, <1>3 DEF Stored

\* The compactions found at the start have the entries of their epochs.
LEMMA InitCovered == ASSUME Init, NEW x \in InitWrites, NEW b \in singles, b.epoch = InitEpoch[x]
                     PROVE  <<x, b.shard>> \in b.content
<1>1. PICK y \in InitSingles \X Shards :
        b = [epoch |-> y[1], set |-> 0, shard |-> y[2], content |-> InitContent({y[1]}, y[2]), ts |-> 0]
  BY DEF Init, InitSingleBlobs
<1>2. b.epoch = y[1] /\ b.shard = y[2] /\ b.content = InitContent({y[1]}, y[2])
  BY <1>1
<1>3. <<x, y[2]>> \in InitContent({InitEpoch[x]}, y[2])
  BY DEF InitContent
<1> QED BY <1>2, <1>3

\* So the writes found at the start are kept.
LEMMA InitPromises == Init => WriterInv /\ PromisesKept
<1> SUFFICES ASSUME Init PROVE WriterInv /\ PromisesKept
  OBVIOUS
<1>m. M \in Procs /\ M \notin InFlight /\ M \notin Retrying
  BY ProcessAssumption, RepositoryAssumption DEF Procs, M
<1>w. Writers \subseteq Procs /\ InFlight \subseteq Writers
  BY RepositoryAssumption DEF Procs
<1>1. AckedDone
  <2> SUFFICES ASSUME NEW a \in acked PROVE a.write \notin Writers
    BY DEF AckedDone
  <2>1. PICK w \in InitWrites : a = [write |-> w, epoch |-> InitEpoch[w]]
    BY DEF Init
  <2> QED BY <2>1, ProcessAssumption
<1>2. AllWritten
  BY <1>w DEF Init, AllWritten
<1>3. WrittenStored
  <2> SUFFICES ASSUME NEW w \in Writers, NEW h \in written[w] PROVE Stored(w, writtenFor[w], h)
    BY DEF WrittenStored
  <2>1. w \in InFlight /\ h \in InFlightShards /\ writtenFor[w] = InFlightEpoch
    BY DEF Init
  <2>2. PICK b : b = Blob(w, h, InFlightEpoch, 0)
    OBVIOUS
  <2>3. b \in uncompacted
    BY <2>1, <2>2 DEF Init, InFlightBlobs
  <2>4. b.epoch = InFlightEpoch /\ b.set = w /\ b.shard = h
    BY <2>2 DEF Blob
  <2> QED BY <2>1, <2>3, <2>4 DEF Stored
<1>4. PromisesKept
  <2> SUFFICES ASSUME NEW x \in Writes, NEW e \in Epochs, Promised(x, e) PROVE Untouched(x, e)
    BY DEF PromisesKept, Safe
  <2>1. x \in InitWrites /\ e = InitEpoch[x]
    BY InitPromised
  <2>2. pc[M] = "idle"
    BY <1>m DEF Init
  <2>3. \A h \in Shards : Stored(x, e, h)
    BY <2>1, InitStored
  <2>4. \A b \in singles : b.epoch = e => <<x, b.shard>> \in b.content
    BY <2>1, InitCovered
  <2> QED BY <2>2, <2>3, <2>4 DEF Untouched
<1> QED BY <1>1, <1>2, <1>3, <1>4 DEF WriterInv

\* The inductive invariant.
SafetyInv == TypeInv /\ StorageInv /\ MaintInv /\ WriterInv /\ PromisesKept

\* It says of an acknowledged write that its entries are there.
LEMMA SafetyKept == ASSUME SafetyInv PROVE AckedNeverLost
<1> SUFFICES ASSUME NEW a \in acked, NEW s \in Shards PROVE InStorage(a, s) \/ InCompaction(a, s)
  BY DEF AckedNeverLost
<1>1. a.write \in Writes /\ a.epoch \in Epochs
  BY DEF SafetyInv, TypeInv, TypeOK, WritersOK, Ack
<1>2. Safe(a.write, a.epoch)
  BY <1>1 DEF SafetyInv, PromisesKept, Promised
<1>3. CASE Untouched(a.write, a.epoch)
  BY <1>3 DEF Untouched, Stored, InStorage
<1>4. CASE Covered(a.write, a.epoch)
  <2>1. PICK n : \A h \in Shards : \E b \in singles :
                   b.epoch = a.epoch /\ b.set = n /\ b.shard = h /\ <<a.write, h>> \in b.content
    BY <1>4 DEF Covered
  <2>2. n \in CompleteSets(OfEpoch(singles, a.epoch))
    BY <2>1 DEF CompleteSets, OfEpoch
  <2> QED BY <2>1, <2>2 DEF InCompaction, OfEpoch
<1> QED BY <1>2, <1>3, <1>4 DEF Safe

\* Once WriteIndex has returned without an error, the entries of the write stay in storage, whatever
\* compaction, cleanup, crashes and storage errors do: cleanup deletes the blobs of an epoch only when
\* it has seen a whole compaction of it, the first one was made before anything was deleted, and the
\* second look at the write epoch makes sure that the write was there by then.
THEOREM AckedWritesKept == Spec => []AckedNeverLost
<1>1. Init => SafetyInv
  BY InitType, InitControl, SafetyInit, InitPromises DEF SafetyInv, TypeInv
<1>2. SafetyInv /\ [Next]_vars => SafetyInv'
  BY TypeStep, SafetyStep, WriterStep, PromisesStep DEF SafetyInv
<1>3. SafetyInv => AckedNeverLost
  BY SafetyKept
<1> QED BY <1>1, <1>2, <1>3, PTL DEF Spec
===========================================================================
