----------------------- MODULE EpochManagerReadProofs -----------------------
(***************************************************************************)
(* What readers of the epoch protocol get, for every number of clients,    *)
(* writes, shards and epochs: every compaction holds every acknowledged    *)
(* entry, and GetCompleteIndexSet returns every entry acknowledged before  *)
(* the refresh behind its snapshot and all those of its own client,        *)
(* provided that compaction takes an epoch that its snapshot does not show *)
(* as compacted.                                                           *)
(***************************************************************************)
EXTENDS EpochManagerProofs, WellFoundedInduction

(* Every compaction holds every acknowledged entry of its epochs *)

\* Maintenance knows, in each snapshot it has or will get, that the epoch has been compacted.
Gone(e) == /\ e \in CompleteEpochs
           /\ Loaded(cs[M]) => e \in CompactedEpochs(cs[M])
           /\ Loaded(known[Mgr(M)]) => e \in CompactedEpochs(known[Mgr(M)])
           /\ Listed(Mgr(M)) => e \in CompactedEpochs(attempt[Mgr(M)])
\* Then its blobs may be gone; all the compactions have its entries, and those being made have them or
\* will list them.
InWork(x, e) ==
  lo <= e /\ e <= hi => \A h \in Shards :
    /\ pc[M] = "rangeList" => e \in toList[M] \/ <<x, h>> \in ContentOf(blobs)
    /\ pc[M] = "compactRead" => <<x, h>> \in ContentOf(blobs)
    /\ pc[M] = "compactWrite" => <<x, h>> \in content
Whole(x, e) ==
  /\ Gone(e) \/ \A h \in Shards : Stored(x, e, h)
  /\ \A b \in singles : b.epoch = e => <<x, b.shard>> \in b.content
  /\ \A b \in ranges : b.min <= e /\ e <= b.max => <<x, b.shard>> \in b.content
  /\ InWork(x, e)
PromisesWhole == \A x \in Writes, e \in Epochs : Promised(x, e) => Whole(x, e)

\* What has not been settled is in no compaction.
LEMMA FreshWhole == ASSUME TypeInv, StorageInv, MaintInv, NEW x, NEW e, Fresh(x, e) PROVE Whole(x, e)
<1>e. e \in Int /\ markers \subseteq Int
  BY RepositoryAssumption DEF Fresh, Epochs, TypeInv, TypeOK, StorageOK
<1>0. \A k \in Int : Reached(k + 2) => ~(e <= k)
  BY <1>e DEF Fresh, Reached
<1>1. \A b \in singles : b.epoch # e
  BY DEF Fresh, StorageInv, CompactionsSettled
<1>2. ASSUME NEW b \in ranges PROVE ~(e <= b.max)
  <2>1. b.max \in Int
    BY RepositoryAssumption DEF TypeInv, TypeOK, StorageOK, RangeBlob, Epochs
  <2> QED BY <1>0, <2>1 DEF StorageInv, CompactionsSettled
<1>3. pc[M] \in Compacting => ~(e <= hi)
  BY <1>0 DEF MaintInv, WorkSettled, TypeInv, TypeOK, MaintenanceOK
<1>4. InWork(x, e)
  BY <1>3 DEF InWork, Compacting
<1> QED BY <1>1, <1>2, <1>4 DEF Whole, Fresh

\* What cleanup deletes, maintenance will not forget.
LEMMA DeletedGone ==
  ASSUME TypeInv, StorageInv, MaintInv, NEW b \in doomed, DeleteIndex(b) PROVE Gone(b.epoch)
<1>1. b.epoch \in CompactedEpochs(cs[M])
  BY DEF DeleteIndex, MaintInv, DoomedOK
<1> QED BY <1>1, DeletedSettled DEF Gone, MaintInv, Newer

\* Every later snapshot shows it.
LEMMA GoneStays == ASSUME TypeInv, StorageInv, MaintInv, [Next]_vars, NEW e, Gone(e) PROVE Gone(e)'
<1>m. M \in Procs /\ Mgr(M) \in Managers /\ M \notin Writers /\ M \notin Readers
  BY ProcessAssumption DEF Procs, M, Mgr
<1>c. e \in CompleteEpochs /\ e \in CompleteEpochs'
  BY GrowsStep, CompleteGrows DEF Gone, Grows
<1>g. /\ Loaded(cs[M]) => e \in CompactedEpochs(cs[M])
      /\ Loaded(known[Mgr(M)]) => e \in CompactedEpochs(known[Mgr(M)])
      /\ Listed(Mgr(M)) => e \in CompactedEpochs(attempt[Mgr(M)])
  BY DEF Gone
<1>s. SUFFICES /\ Loaded(cs'[M]) => e \in CompactedEpochs(cs'[M])
               /\ Loaded(known'[Mgr(M)]) => e \in CompactedEpochs(known'[Mgr(M)])
               /\ Listed(Mgr(M))' => e \in CompactedEpochs(attempt'[Mgr(M)])
  BY <1>c DEF Gone, Loaded, CompactedEpochs, Mgr
<1>1. CASE /\ cs'[M] = cs[M] \/ cs'[M] = ZeroSnapshot \/ cs'[M] = known[Mgr(M)]
           /\ KnownRests /\ AttemptRests
  <2>1. Loaded(cs'[M]) => e \in CompactedEpochs(cs'[M])
    BY <1>1, <1>g, ZeroNotLoaded
  <2>2. Loaded(known'[Mgr(M)]) => e \in CompactedEpochs(known'[Mgr(M)])
    BY <1>1, <1>g, ZeroNotLoaded DEF KnownRests
  <2>3. Listed(Mgr(M))' => e \in CompactedEpochs(attempt'[Mgr(M)])
    BY <1>1, <1>g DEF AttemptRests, CompactedEpochs
  <2> QED BY <2>1, <2>2, <2>3
<1>2. ASSUME NEW p \in Procs, Refresh(p)
      PROVE  /\ Loaded(cs'[M]) => e \in CompactedEpochs(cs'[M])
             /\ Loaded(known'[Mgr(M)]) => e \in CompactedEpochs(known'[Mgr(M)])
             /\ Listed(Mgr(M))' => e \in CompactedEpochs(attempt'[Mgr(M)])
  <2>e. RefreshEffect(Mgr(M))
    BY <1>2, <1>m, RefreshEffects
  <2>1. Listed(Mgr(M))' => e \in CompactedEpochs(attempt'[Mgr(M)])
    BY <1>g, <1>c, <2>e DEF RefreshEffect, CompactedEpochs
  <2>2. Loaded(known'[Mgr(M)]) => e \in CompactedEpochs(known'[Mgr(M)])
    BY <1>g, <2>e DEF RefreshEffect
  <2>3. cs'[M] = cs[M] \/ cs'[M] = known'[Mgr(M)]
    BY <1>2, <1>m, RefreshFrame, MaintRefreshed
  <2> QED BY <1>g, <2>1, <2>2, <2>3
<1>3. ASSUME NEW w \in Writers, Write(w)
      PROVE  (cs'[M] = cs[M] \/ cs'[M] = ZeroSnapshot \/ cs'[M] = known[Mgr(M)]) /\ KnownRests /\ AttemptRests
  <2>1. MaintainerRests /\ UNCHANGED <<mu, attempt, loads>> /\ KnownRests
    BY <1>3, <1>m, WriteFrame DEF KnownRests
  <2> QED BY <2>1 DEF AttemptRests, Listed, MaintainerRests
<1>4. ASSUME NEW r \in Readers, Read(r)
      PROVE  (cs'[M] = cs[M] \/ cs'[M] = ZeroSnapshot \/ cs'[M] = known[Mgr(M)]) /\ KnownRests /\ AttemptRests
  <2>1. MaintainerRests /\ UNCHANGED <<mu, attempt, loads, known>>
    BY <1>4, ReadFrame DEF manager
  <2> QED BY <2>1 DEF AttemptRests, Listed, KnownRests, MaintainerRests
<1>5. ASSUME NEW m \in Crashable, Crash(m)
      PROVE  (cs'[M] = cs[M] \/ cs'[M] = ZeroSnapshot \/ cs'[M] = known[Mgr(M)]) /\ KnownRests /\ AttemptRests
  <2>1. /\ Mgr(M) # m => known'[Mgr(M)] = known[Mgr(M)] /\ attempt'[Mgr(M)] = attempt[Mgr(M)] /\ mu'[Mgr(M)] = mu[Mgr(M)]
                         /\ loads'[Mgr(M)] = loads[Mgr(M)]
        /\ known'[m] = ZeroSnapshot /\ mu'[m] = NoProc
        /\ cs'[M] = cs[M] \/ cs'[M] = ZeroSnapshot
    BY <1>5, <1>m, CrashFrame
  <2> QED BY <2>1 DEF KnownRests, AttemptRests, Listed
<1>6. CASE Maintain
  <2>1. UNCHANGED <<mu, attempt, loads, known>> /\ (cs'[M] = cs[M] \/ cs'[M] = ZeroSnapshot \/ cs'[M] = known[Mgr(M)])
    BY <1>6, MaintainFrame DEF manager
  <2> QED BY <1>1, <2>1 DEF AttemptRests, Listed, KnownRests
<1>7. CASE Tick \/ UNCHANGED vars
  <2>1. UNCHANGED <<mu, attempt, loads, known, cs>>
    BY <1>7 DEF Tick, vars, manager
  <2> QED BY <1>1, <2>1 DEF AttemptRests, Listed, KnownRests
<1> QED BY <1>1, <1>2, <1>3, <1>4, <1>5, <1>6, <1>7 DEF Next

\* A listing of the epoch finds the entries that are stored.
LEMMA ListingFinds ==
  ASSUME StorageInv, NEW x, NEW e, NEW h, Stored(x, e, h) PROVE <<x, h>> \in ContentOf(OfEpoch(uncompacted, e))
<1>1. PICK b \in uncompacted : b.epoch = e /\ b.set = x /\ b.shard = h
  BY DEF Stored
<1>2. b.content = {<<x, h>>}
  BY <1>1 DEF StorageInv, BlobsNamed
<1> QED BY <1>1, <1>2 DEF ContentOf, OfEpoch

\* A range checkpoint takes each of its epochs from a compaction, which has the entries, or lists it.
LEMMA RangeFinds ==
  ASSUME TypeInv, StorageInv, NEW x, NEW e \in Epochs, Whole(x, e), NEW es, e \in es,
         e <= cs[M].WriteEpoch - 2, ~MustList(cs[M], e), NEW h \in Shards
  PROVE  <<x, h>> \in ContentOf(SnapshotBlobs(cs[M], es))
<1>m. M \in Procs /\ cs[M].WriteEpoch \in Int /\ e \in Int
  BY ProcessAssumption, RepositoryAssumption DEF Procs, M, TypeInv, TypeOK, ProcsOK, Snapshot, Epochs
<1>1. e \notin UnsettledEpochs(cs[M])
  BY <1>m DEF UnsettledEpochs
<1>2. UsesSingle(cs[M], e) /\ e \in CompactedEpochs(cs[M])
  BY <1>1 DEF MustList, UsesSingle
<1>3. SnapshotOK(cs[M])
  BY <1>m DEF StorageInv, SnapshotsOK, Snapshots
<1>4. PICK b \in cs[M].SingleEpochCompactionSets : b.epoch = e /\ b.shard = h /\ b \in singles
  BY <1>2, <1>3 DEF SnapshotOK
<1>5. <<x, h>> \in b.content
  BY <1>4 DEF Whole
<1>6. b \in SnapshotBlobs(cs[M], es)
  BY <1>2, <1>4 DEF SnapshotBlobs
<1> QED BY <1>5, <1>6 DEF ContentOf

\* The epoch that is compacted, and those of a range that are listed, are not gone.
LEMMA WorkMaintain ==
  ASSUME TypeInv, StorageInv, MaintInv, CompactsUncompactedEpoch, Maintain, NEW x, NEW e \in Epochs, Whole(x, e)
  PROVE  InWork(x, e)'
<1>m. M \in Procs /\ pc \in [Procs -> Places] /\ toList \in [Procs -> SUBSET Int]
  BY ProcessAssumption DEF Procs, M, TypeInv, TypeOK, ProcsOK
<1>e. e \in Int
  BY RepositoryAssumption DEF Epochs
<1>w. InWork(x, e)
  BY DEF Whole
<1>i. EndMaintenance => pc'[M] = "idle"
  BY <1>m DEF EndMaintenance, Leave, Goto
<1>q. pc'[M] \notin {"rangeList", "compactRead", "compactWrite"} => InWork(x, e)'
  BY DEF InWork
<1>l. ASSUME Loaded(cs[M]), e \notin CompactedEpochs(cs[M]), NEW h \in Shards
      PROVE  <<x, h>> \in ContentOf(OfEpoch(uncompacted, e))
  <2>1. ~Gone(e)
    BY <1>l DEF Gone
  <2>2. Stored(x, e, h)
    BY <2>1 DEF Whole
  <2> QED BY <2>2, ListingFinds
<1>1. CASE ListEpochToCompact
  <2>1. pc[M] = "compactList" /\ pc'[M] = "compactRead" /\ UNCHANGED <<lo, hi>> /\ blobs' = OfEpoch(uncompacted, lo)
    BY <1>1, <1>m DEF ListEpochToCompact, Goto
  <2>2. op = "compactSingle" /\ lo = hi /\ Loaded(cs[M]) /\ lo \in Int
    BY <2>1 DEF MaintInv, WorkSettled, MaintLoaded, UsesState, Compacting, TypeInv, TypeOK, MaintenanceOK
  <2>3. lo \notin CompactedEpochs(cs[M])
    BY <2>1, <2>2 DEF CompactsUncompactedEpoch
  <2>4. ASSUME lo <= e, e <= hi, NEW h \in Shards PROVE <<x, h>> \in ContentOf(blobs')
    <3>1. lo = e
      BY <1>e, <2>2, <2>4
    <3> QED BY <1>l, <2>1, <2>2, <2>3, <3>1
  <2> QED BY <2>1, <2>4 DEF InWork, ContentOf
<1>2. CASE MaybeGenerateRangeCheckpoint
  <2> DEFINE first == ChainEnd(cs[M].LongestRangeCheckpointSets) + 1
             last == cs[M].WriteEpoch - numUnsettledEpochs
  <2>1. \/ EndMaintenance
        \/ /\ lo' = first /\ hi' = last /\ pc' = [pc EXCEPT ![M] = "rangeList"]
           /\ blobs' = SnapshotBlobs(cs[M], first..last)
           /\ toList' = [toList EXCEPT ![M] = {k \in first..last : MustList(cs[M], k)}]
    BY <1>2 DEF MaybeGenerateRangeCheckpoint, Goto
  <2>2. first \in Int /\ last \in Int
    <3>1. cs[M] \in Snapshot /\ MaxEpoch \in Nat
      BY <1>m, RepositoryAssumption DEF TypeInv, TypeOK, ProcsOK
    <3>2. ChainEnd(cs[M].LongestRangeCheckpointSets) \in Int
      <4>1. ChainEnd(cs[M].LongestRangeCheckpointSets) \in Epochs \cup {-1}
        BY <3>1, ChainEndType
      <4>2. Epochs \subseteq Int /\ -1 \in Int
        BY <3>1 DEF Epochs
      <4> QED BY <4>1, <4>2
    <3> QED BY <3>1, <3>2 DEF Snapshot, Epochs, numUnsettledEpochs
  <2>l. last = cs[M].WriteEpoch - 2
    BY DEF numUnsettledEpochs
  <2> HIDE DEF first, last
  <2>3. CASE ~EndMaintenance
    <3>1. pc'[M] = "rangeList" /\ toList'[M] = {k \in first..last : MustList(cs[M], k)}
      BY <2>1, <2>3, <1>m
    <3>2. ASSUME first <= e, e <= last, NEW h \in Shards PROVE e \in toList'[M] \/ <<x, h>> \in ContentOf(blobs')
      <4>1. e \in first..last
        BY <1>e, <2>2, <3>2
      <4>2. CASE MustList(cs[M], e)
        BY <3>1, <4>1, <4>2
      <4>3. CASE ~MustList(cs[M], e)
        <5>1. <<x, h>> \in ContentOf(SnapshotBlobs(cs[M], first..last))
          BY <2>l, <3>2, <4>1, <4>3, RangeFinds
        <5> QED BY <2>1, <2>3, <5>1
      <4> QED BY <4>2, <4>3
    <3> QED BY <2>1, <2>3, <3>1, <3>2 DEF InWork, ContentOf
  <2> QED BY <2>3, <1>i, <1>q
<1>3. ASSUME NEW k \in toList[M], ListRangeEpoch(k) PROVE InWork(x, e)'
  <2>1. /\ pc[M] = "rangeList" /\ UNCHANGED <<pc, lo, hi>> /\ toList'[M] = toList[M] \ {k}
        /\ blobs' = blobs \cup OfEpoch(uncompacted, k)
    BY <1>3, <1>m DEF ListRangeEpoch
  <2>2. k \notin CompactedEpochs(cs[M]) /\ Loaded(cs[M])
    BY <2>1 DEF MaintInv, RangeLists, MaintLoaded, UsesState
  <2>3. ASSUME lo <= e, e <= hi, NEW h \in Shards PROVE e \in toList'[M] \/ <<x, h>> \in ContentOf(blobs')
    <3>1. e \in toList[M] \/ <<x, h>> \in ContentOf(blobs)
      BY <1>w, <2>1, <2>3 DEF InWork
    <3>2. CASE <<x, h>> \in ContentOf(blobs)
      BY <2>1, <3>2 DEF ContentOf
    <3>3. CASE e = k
      <4>1. <<x, h>> \in ContentOf(OfEpoch(uncompacted, k))
        BY <1>l, <2>2, <3>3
      <4> QED BY <2>1, <4>1 DEF ContentOf
    <3>4. CASE e \in toList[M] /\ e # k
      BY <2>1, <3>4
    <3> QED BY <3>1, <3>2, <3>3, <3>4
  <2> QED BY <2>1, <2>3 DEF InWork, ContentOf
<1>4. CASE CheckRangeTime
  <2>1. EndMaintenance \/ (pc[M] = "rangeList" /\ toList[M] = {} /\ pc'[M] = "compactRead" /\ UNCHANGED <<lo, hi, blobs>>)
    BY <1>4, <1>m DEF CheckRangeTime, Goto, maint
  <2>2. CASE ~EndMaintenance
    BY <1>w, <2>1, <2>2 DEF InWork
  <2> QED BY <2>2, <1>i, <1>q
<1>5. CASE CompactEpoch
  <2>1. EndMaintenance \/ (pc[M] = "compactRead" /\ pc'[M] = "compactWrite" /\ content' = ContentOf(blobs) /\ UNCHANGED <<lo, hi>>)
    BY <1>5, <1>m DEF CompactEpoch, Goto
  <2>2. CASE ~EndMaintenance
    BY <1>w, <2>1, <2>2 DEF InWork
  <2> QED BY <2>2, <1>i, <1>q
<1>6. ASSUME NEW s \in Shards, WritePart(s) PROVE InWork(x, e)'
  <2>1. EndMaintenance \/ (pc[M] = "compactWrite" /\ UNCHANGED <<lo, hi, content, pc>>)
    BY <1>6 DEF WritePart
  <2>2. CASE ~EndMaintenance
    BY <1>w, <2>1, <2>2 DEF InWork
  <2> QED BY <2>2, <1>i, <1>q
<1>7. \/ ListEpochToCompact \/ MaybeGenerateRangeCheckpoint \/ (\E k \in toList[M] : ListRangeEpoch(k)) \/ CheckRangeTime
      \/ CompactEpoch \/ (\E s \in Shards : WritePart(s)) \/ pc'[M] \notin {"rangeList", "compactRead", "compactWrite"}
  <2>1. \/ ListEpochToCompact \/ MaybeGenerateRangeCheckpoint \/ (\E k \in toList[M] : ListRangeEpoch(k)) \/ CheckRangeTime
        \/ CompactEpoch \/ (\E s \in Shards : WritePart(s)) \/ EndMaintenance
        \/ UNCHANGED pc /\ pc[M] \in {"deleteMarkers", "deleteIndexes"}
        \/ \E l : l \notin {"rangeList", "compactRead", "compactWrite"} /\ pc' = [pc EXCEPT ![M] = l]
    BY DEF Maintain, StartMaintenance, MaybeAdvanceWriteEpoch, advanceEpochMarker, MaybeCompactSingleEpoch,
       CleanupMarkers, DeleteMarker, CleanupSupersededIndexes, DeleteIndex, MaintenanceError, Goto
  <2> QED BY <2>1, <1>i, <1>m
<1> QED BY <1>1, <1>2, <1>3, <1>4, <1>5, <1>6, <1>7, <1>q

\* A part that is written has the entries of its shard.
LEMMA PartsWhole ==
  ASSUME TypeInv, MaintInv, Maintain, NEW x, NEW e \in Epochs, Whole(x, e)
  PROVE  /\ \A b \in singles' : b.epoch = e => <<x, b.shard>> \in b.content
         /\ \A b \in ranges' : b.min <= e /\ e <= b.max => <<x, b.shard>> \in b.content
<1>e. e \in Int /\ lo \in Int
  BY RepositoryAssumption DEF Epochs, TypeInv, TypeOK, MaintenanceOK
<1>0. /\ \A b \in singles : b.epoch = e => <<x, b.shard>> \in b.content
      /\ \A b \in ranges : b.min <= e /\ e <= b.max => <<x, b.shard>> \in b.content
  BY DEF Whole
<1>1. ASSUME NEW s \in Shards, WritePart(s)
      PROVE  /\ \A b \in singles' : b.epoch = e => <<x, b.shard>> \in b.content
             /\ \A b \in ranges' : b.min <= e /\ e <= b.max => <<x, b.shard>> \in b.content
  <2>1. pc[M] = "compactWrite"
    BY <1>1 DEF WritePart
  <2>2. lo <= e /\ e <= hi => <<x, s>> \in content
    BY <2>1 DEF Whole, InWork
  <2>3. CASE op = "compactSingle"
    <3>1. PICK n : /\ n.epoch = lo /\ n.shard = s /\ n.content = {y \in content : y[2] = s}
                   /\ singles' = singles \cup {n} /\ ranges' = ranges
      <4> DEFINE new == [epoch |-> lo, set |-> sets, shard |-> s, content |-> {y \in content : y[2] = s}, ts |-> now]
      <4>1. /\ new.epoch = lo /\ new.shard = s /\ new.content = {y \in content : y[2] = s}
            /\ singles' = singles \cup {new} /\ ranges' = ranges
        BY <1>1, <2>3 DEF WritePart
      <4> QED BY <4>1
    <3>2. lo = hi
      BY <2>1, <2>3 DEF MaintInv, WorkSettled, Compacting
    <3>3. lo = e => <<x, s>> \in content
      BY <1>e, <2>2, <3>2
    <3>4. lo = e => <<x, s>> \in n.content
      BY <3>1, <3>3
    <3> QED BY <1>0, <3>1, <3>4
  <2>4. CASE op # "compactSingle"
    <3>1. PICK n : /\ n.min = lo /\ n.max = hi /\ n.shard = s /\ n.content = {y \in content : y[2] = s}
                   /\ ranges' = ranges \cup {n} /\ singles' = singles
      <4> DEFINE new == [min |-> lo, max |-> hi, set |-> sets, shard |-> s, content |-> {y \in content : y[2] = s}]
      <4>1. /\ new.min = lo /\ new.max = hi /\ new.shard = s /\ new.content = {y \in content : y[2] = s}
            /\ ranges' = ranges \cup {new} /\ singles' = singles
        BY <1>1, <2>4 DEF WritePart
      <4> QED BY <4>1
    <3>2. lo <= e /\ e <= hi => <<x, s>> \in n.content
      BY <2>2, <3>1
    <3> QED BY <1>0, <3>1, <3>2
  <2> QED BY <2>3, <2>4
<1>2. UNCHANGED <<singles, ranges>> \/ \E s \in Shards : WritePart(s)
  BY DEF Maintain, StartMaintenance, MaybeAdvanceWriteEpoch, advanceEpochMarker, MaybeCompactSingleEpoch,
     ListEpochToCompact, MaybeGenerateRangeCheckpoint, ListRangeEpoch, CheckRangeTime, CompactEpoch,
     CleanupMarkers, DeleteMarker, CleanupSupersededIndexes, DeleteIndex, MaintenanceError, storage
<1> QED BY <1>0, <1>1, <1>2

\* What is whole stays whole.
LEMMA WholeStep ==
  ASSUME TypeInv, StorageInv, MaintInv, CompactsUncompactedEpoch, [Next]_vars, NEW x, NEW e \in Epochs, Keeps(x), Whole(x, e)
  PROVE  Whole(x, e)'
<1>1. (Gone(e) \/ \A h \in Shards : Stored(x, e, h))'
  <2>1. CASE Gone(e) \/ \E b \in doomed : DeleteIndex(b) /\ b.epoch = e
    BY <2>1, DeletedGone, GoneStays
  <2>2. CASE (\A h \in Shards : Stored(x, e, h)) /\ \A b \in doomed : DeleteIndex(b) => b.epoch # e
    BY <2>2, StoredStays
  <2> QED BY <2>1, <2>2 DEF Whole
<1>2. CASE Maintain
  BY <1>1, <1>2, WorkMaintain, PartsWhole DEF Whole
<1>3. CASE ClientStep
  <2>1. UNCHANGED <<singles, ranges>>
    BY <1>3, ClientStorage
  <2>2. InWork(x, e)'
    BY <1>3, ClientCompacts DEF Whole, InWork, Compacting
  <2>3. /\ \A b \in singles' : b.epoch = e => <<x, b.shard>> \in b.content
        /\ \A b \in ranges' : b.min <= e /\ e <= b.max => <<x, b.shard>> \in b.content
    BY <2>1 DEF Whole
  <2> QED BY <1>1, <2>2, <2>3 DEF Whole
<1> QED BY <1>2, <1>3, StepSplit

\* So what is promised is whole.
LEMMA PromisesWholeStep ==
  ASSUME TypeInv, StorageInv, MaintInv, WriterInv, PromisesWhole, CompactsUncompactedEpoch, [Next]_vars
  PROVE  PromisesWhole'
<1> SUFFICES ASSUME NEW x \in Writes, NEW e \in Epochs, Promised(x, e)' PROVE Whole(x, e)'
  BY DEF PromisesWhole
<1>1. Keeps(x) /\ (Promised(x, e) \/ Fresh(x, e))
  BY PromiseStep
<1>2. Whole(x, e)
  BY <1>1, FreshWhole DEF PromisesWhole
<1> QED BY <1>1, <1>2, WholeStep

\* The range checkpoint of the initial repository has what was acknowledged.
LEMMA InitRanges == ASSUME Init, NEW x \in InitWrites, NEW b \in ranges, b.min <= InitEpoch[x], InitEpoch[x] <= b.max
                    PROVE  <<x, b.shard>> \in b.content
<1>1. PICK s \in Shards : b = [min |-> 0, max |-> InitRange, set |-> 0, shard |-> s, content |-> InitContent(0..InitRange, s)]
  <2>1. b \in InitRangeBlobs
    BY DEF Init
  <2> QED BY <2>1 DEF InitRangeBlobs
<1>2. b.max = InitRange /\ b.shard = s /\ b.content = InitContent(0..InitRange, s)
  BY <1>1
<1>3. InitRange \in Epochs \cup {-1} /\ Epochs \subseteq Nat /\ -1 \in Int
  BY RepositoryAssumption DEF Epochs
<1>4. InitEpoch[x] \in Epochs
  BY RepositoryAssumption
<1>5. InitEpoch[x] \in 0..InitRange
  <2>1. InitEpoch[x] <= InitRange
    BY <1>2
  <2>2. InitEpoch[x] \in Nat
    BY <1>3, <1>4
  <2>3. CASE InitRange = -1
    BY <2>1, <2>2, <2>3
  <2>4. CASE InitRange \in Epochs
    BY <2>1, <2>2, <2>4, <1>3
  <2> QED BY <1>3, <2>3, <2>4
<1>6. <<x, s>> \in InitContent(0..InitRange, s)
  BY <1>5 DEF InitContent
<1> QED BY <1>2, <1>6

\* Every compaction found at the start is whole.
LEMMA InitWhole == Init => PromisesWhole
<1> SUFFICES ASSUME Init, NEW x \in Writes, NEW e \in Epochs, Promised(x, e) PROVE Whole(x, e)
  BY DEF PromisesWhole
<1>m. M \in Procs /\ M \notin InFlight /\ M \notin Retrying
  BY ProcessAssumption, RepositoryAssumption DEF Procs, M
<1>1. x \in InitWrites /\ e = InitEpoch[x]
  BY InitPromised
<1>2. pc[M] = "idle"
  BY <1>m DEF Init
<1>3. \A h \in Shards : Stored(x, e, h)
  BY <1>1, InitStored
<1>4. \A b \in singles : b.epoch = e => <<x, b.shard>> \in b.content
  BY <1>1, InitCovered
<1>5. \A b \in ranges : b.min <= e /\ e <= b.max => <<x, b.shard>> \in b.content
  BY <1>1, InitRanges
<1>6. InWork(x, e)
  BY <1>2 DEF InWork
<1> QED BY <1>3, <1>4, <1>5, <1>6 DEF Whole

\* The stronger invariant.
WholeInv == TypeInv /\ StorageInv /\ MaintInv /\ WriterInv /\ PromisesWhole

\* It holds at the start.
LEMMA WholeInit == Init => WholeInv
  BY InitType, InitControl, SafetyInit, InitPromises, InitWhole DEF WholeInv, TypeInv

\* Every step keeps it under the condition.
LEMMA WholeNext == WholeInv /\ CompactsUncompactedEpoch /\ [Next]_vars => WholeInv'
  BY TypeStep, SafetyStep, WriterStep, PromisesWholeStep DEF WholeInv

\* It says of every acknowledged write that compactions hold its entries.
LEMMA AckedWhole == ASSUME WholeInv, NEW a \in acked PROVE Whole(a.write, a.epoch)
<1>1. a.write \in Writes /\ a.epoch \in Epochs
  BY DEF WholeInv, TypeInv, TypeOK, WritersOK, Ack
<1> QED BY <1>1 DEF WholeInv, PromisesWhole, Promised

\* Every single-epoch compaction, finished or not, has every acknowledged entry of its epoch, as long
\* as MaybeCompactSingleEpoch takes epochs that its snapshot does not show as compacted: a second
\* compaction of an epoch would be made from what cleanup has left of it.
THEOREM SinglesWhole == Spec /\ []CompactsUncompactedEpoch => []SinglesCoverAcked
<1>1. WholeInv => SinglesCoverAcked
  BY AckedWhole DEF SinglesCoverAcked, Whole
<1> QED BY <1>1, WholeInit, WholeNext, PTL DEF Spec

\* Under the same condition so has every range checkpoint, whether it was made from compactions, from
\* listed blobs or from both, and whatever was deleted while it was being made.
THEOREM RangesWhole == Spec /\ []CompactsUncompactedEpoch => []RangesCoverAcked
<1>1. WholeInv => RangesCoverAcked
  BY AckedWhole DEF RangesCoverAcked, Whole
<1> QED BY <1>1, WholeInit, WholeNext, PTL DEF Spec
----------------------------------------------------------------------------
(* Which epoch is compacted, as long as there is no range checkpoint *)

\* A set of natural numbers that is not empty has a least element.
LEMMA LeastEpoch == ASSUME NEW T \in SUBSET Nat, T # {} PROVE \E x \in T : \A y \in T : x <= y
<1> DEFINE R == OpToRel(<, Nat)
<1>1. IsWellFoundedOn(R, Nat)
  BY NatLessThanWellFounded
<1>2. \A x, y \in Nat : x < y => <<x, y>> \in R
  BY DEF OpToRel
<1> HIDE DEF R
<1>3. PICK x \in T : \A y \in T : ~(<<y, x>> \in R)
  BY <1>1, WFMin
<1>4. \A y \in T : ~(y < x)
  BY <1>2, <1>3
<1> QED BY <1>4

\* getFirstContiguousKeyRange finds the end of the run of epochs that starts at low.
LEMMA ContiguousEnd ==
  ASSUME NEW keys \in SUBSET Epochs, NEW low \in keys
  PROVE  LET h == FirstContiguousHi(keys, low) IN h \in keys /\ h + 1 \notin keys /\ h >= low
<1>n. MaxEpoch \in Nat /\ keys \subseteq Nat /\ low \in Nat /\ \A k \in keys : k <= MaxEpoch
  BY RepositoryAssumption DEF Epochs
<1> DEFINE T == {k \in Nat : k > low /\ k \notin keys}
<1>1. MaxEpoch + 1 \in T
  BY <1>n
<1>2. PICK x \in T : \A y \in T : x <= y
  BY <1>1, LeastEpoch
<1>3. x - 1 \in Nat /\ x - 1 >= low /\ (x - 1) + 1 \notin keys
  BY <1>2, <1>n
<1>4. \A k \in low .. x - 1 : k \in keys
  <2> SUFFICES ASSUME NEW k \in low .. x - 1, k \notin keys PROVE FALSE
    OBVIOUS
  <2>1. k \in Nat /\ k > low /\ k < x
    BY <1>n, <1>3
  <2> QED BY <2>1, <1>2
<1>5. x - 1 \in keys
  BY <1>3, <1>4, <1>n
<1> DEFINE P(h) == (\A k \in low..h : k \in keys) /\ h + 1 \notin keys /\ h >= low
<1>6. P(x - 1)
  BY <1>3, <1>4
<1> HIDE DEF P
<1>7. LET h == CHOOSE h \in keys : P(h) IN h \in keys /\ P(h)
  BY <1>5, <1>6
<1>8. FirstContiguousHi(keys, low) = CHOOSE h \in keys : P(h)
  BY DEF FirstContiguousHi, P
<1> QED BY <1>7, <1>8 DEF P

\* Hence oldestUncompactedEpoch is one that has no compaction.
LEMMA OldestNotCompacted ==
  ASSUME NEW s \in Snapshot, s.LongestRangeCheckpointSets = << >> PROVE oldestUncompactedEpoch(s) \notin CompactedEpochs(s)
<1> DEFINE single == CompactedEpochs(s)
           low == CHOOSE k \in single : \A j \in single : k <= j
           high == FirstContiguousHi(single, low)
<1>1. single \in SUBSET Epochs /\ Epochs \subseteq Nat
  BY RepositoryAssumption DEF CompactedEpochs, Snapshot, IndexBlob, Epochs
<1>2. ChainEnd(s.LongestRangeCheckpointSets) + 1 = 0
  BY DEF ChainEnd
<1>3. oldestUncompactedEpoch(s) = IF single = {} \/ 0 < low \/ 0 > high THEN 0 ELSE high + 1
  BY <1>2 DEF oldestUncompactedEpoch
<1> HIDE DEF single
<1>4. CASE single = {}
  BY <1>4 DEF single
<1>5. CASE single # {}
  <2>1. low \in single /\ \A j \in single : low <= j
    BY <1>1, <1>5, LeastEpoch
  <2> HIDE DEF low
  <2>2. high \in single /\ high + 1 \notin single
    BY <1>1, <2>1, ContiguousEnd
  <2> HIDE DEF high
  <2>3. low \in Nat /\ high \in Nat
    BY <1>1, <2>1, <2>2
  <2>4. CASE 0 < low
    BY <1>3, <2>1, <2>3, <2>4 DEF single
  <2>5. CASE ~(0 < low)
    <3>1. oldestUncompactedEpoch(s) = high + 1
      BY <1>3, <1>5, <2>3, <2>5
    <3> QED BY <2>2, <3>1 DEF single
  <2> QED BY <2>4, <2>5
<1> QED BY <1>4, <1>5

\* There are no range checkpoints, and none is being made.
NoRangeYet ==
  /\ ranges = {}
  /\ \A s \in Snapshots : s.LongestRangeCheckpointSets = << >>
  /\ pc[M] \in Compacting => op = "compactSingle"

\* The first range checkpoint is made at write epoch FullCheckpointFrequency + 2.
Young == \A k \in markers : k < FullCheckpointFrequency + 2

\* Without range checkpoints the longest chain is the empty one.
LEMMA NoChain == ASSUME NEW c \in findLongestRangeCheckpoint({}) PROVE c = << >>
<1>1. PICK n \in 0..MaxEpoch + 1 : c \in [1..n -> {}]
  BY DEF findLongestRangeCheckpoint, RangeChains
<1>2. n \in Nat
  BY <1>1, RepositoryAssumption
<1>3. n = 0
  <2> SUFFICES ASSUME n # 0 PROVE FALSE
    OBVIOUS
  <2>1. 1 \in 1..n
    BY <1>2
  <2>2. c[1] \in {}
    BY <1>1, <2>1
  <2> QED BY <2>2
<1>4. c \in Seq({}) /\ Len(c) = 0
  <2>1. c \in Seq({})
    BY <1>1, <1>2, SeqDef
  <2>2. DOMAIN c = 1..0
    BY <1>1, <1>3
  <2> QED BY <2>1, <2>2, LenProperties
<1> QED BY <1>4, EmptySeq

\* A refresh finds none either.
LEMMA RefreshNoChain ==
  ASSUME TypeInv, NoRangeYet, NEW p \in Procs, Refresh(p), NEW m \in Managers
  PROVE  attempt'[m].LongestRangeCheckpointSets = << >>
<1>t. attempt \in [Managers -> Snapshot] /\ Mgr(p) \in Managers
  BY ProcessAssumption DEF TypeInv, TypeOK, ManagerOK, Mgr
<1>0. attempt[m].LongestRangeCheckpointSets = << >>
  BY DEF NoRangeYet, Snapshots
<1>1. CASE attempt' = attempt
  BY <1>0, <1>1
<1>2. ASSUME NEW w, attempt' = [attempt EXCEPT ![Mgr(p)].WriteEpoch = w, ![Mgr(p)].EpochMarkerBlobs = markers]
      PROVE  attempt'[m].LongestRangeCheckpointSets = << >>
  BY <1>0, <1>2, <1>t DEF Snapshot
<1>3. ASSUME NEW v, attempt' = [attempt EXCEPT ![Mgr(p)].SingleEpochCompactionSets = v]
      PROVE  attempt'[m].LongestRangeCheckpointSets = << >>
  BY <1>0, <1>3, <1>t DEF Snapshot
<1>4. ASSUME NEW v, attempt' = [attempt EXCEPT ![Mgr(p)].UncompactedEpochSets = v]
      PROVE  attempt'[m].LongestRangeCheckpointSets = << >>
  BY <1>0, <1>4, <1>t DEF Snapshot
<1>5. ASSUME BeginAttempt(Mgr(p)) PROVE attempt'[m].LongestRangeCheckpointSets = << >>
  BY <1>0, <1>5, <1>t DEF BeginAttempt, ZeroSnapshot
<1>6. ASSUME attempt' = [attempt EXCEPT ![Mgr(p)] = ZeroSnapshot] PROVE attempt'[m].LongestRangeCheckpointSets = << >>
  BY <1>0, <1>6, <1>t DEF ZeroSnapshot
<1>7. CASE loadRangeCheckpoints(p)
  <2>1. ranges = {}
    BY DEF NoRangeYet
  <2>2. PICK c \in findLongestRangeCheckpoint({}) : attempt' = [attempt EXCEPT ![Mgr(p)].LongestRangeCheckpointSets = c]
    <3> DEFINE lhs == {lh \in {<<b.min, b.max>> : b \in ranges} : CompleteSets(RangeBlobs(lh)) # {}}
               checkpoint(lh, pick) == [min |-> lh[1], max |-> lh[2],
                                        content |-> ContentOf({b \in RangeBlobs(lh) : b.set = pick[lh]})]
    <3>1. PICK pick \in [lhs -> 0..MaxSets] : \E c \in findLongestRangeCheckpoint({checkpoint(lh, pick) : lh \in lhs}) :
                                                attempt' = [attempt EXCEPT ![Mgr(p)].LongestRangeCheckpointSets = c]
      BY <1>7, Zenon DEF loadRangeCheckpoints
    <3>2. lhs = {}
      BY <2>1
    <3> HIDE DEF lhs
    <3>3. {checkpoint(lh, pick) : lh \in lhs} = {}
      BY <3>2
    <3> QED BY <3>1, <3>3
  <2>3. c = << >>
    BY NoChain
  <2> QED BY <1>0, <2>2, <2>3, <1>t DEF Snapshot
<1>8. CASE UseKnownState(p)
  BY <1>8, <1>1 DEF UseKnownState, manager
<1>9. CASE StartRefresh(p)
  BY <1>9, <1>5 DEF StartRefresh
<1>10. CASE loadWriteEpoch(p)
  BY <1>10, <1>2 DEF loadWriteEpoch
<1>11. CASE loadSingleEpochCompactions(p)
  BY <1>11, <1>3 DEF loadSingleEpochCompactions
<1>12. ASSUME NEW e \in 0..MaxEpoch + 1, loadUncompactedEpoch(p, e) PROVE attempt'[m].LongestRangeCheckpointSets = << >>
  BY <1>12, <1>4 DEF loadUncompactedEpoch
<1>13. CASE FinishRefresh(p)
  BY <1>13, <1>5, <1>6 DEF FinishRefresh
<1> QED BY <1>7, <1>8, <1>9, <1>10, <1>11, <1>12, <1>13 DEF Refresh

\* The other snapshots come from there.
LEMMA SnapshotSources ==
  ASSUME TypeInv, [Next]_vars, ~\E p \in Procs : Refresh(p) PROVE Snapshots' \subseteq Snapshots
<1>m. Mgr(M) \in Managers
  BY ProcessAssumption DEF Procs, M, Mgr
<1>s. SUFFICES /\ \A n \in Managers : known'[n] \in Snapshots /\ attempt'[n] \in Snapshots
               /\ \A q \in Procs : cs'[q] \in Snapshots
  BY DEF Snapshots
<1>1. ASSUME NEW w \in Writers, Write(w)
      PROVE  /\ \A n \in Managers : known'[n] \in Snapshots /\ attempt'[n] \in Snapshots
             /\ \A q \in Procs : cs'[q] \in Snapshots
  <2>1. /\ \A n \in Managers : (known'[n] = known[n] \/ known'[n] = ZeroSnapshot) /\ attempt'[n] = attempt[n]
        /\ \A q \in Procs : cs'[q] = cs[q] \/ cs'[q] = ZeroSnapshot
    BY <1>1, WriteFrame
  <2> QED BY <2>1 DEF Snapshots
<1>2. ASSUME NEW r \in Readers, Read(r)
      PROVE  /\ \A n \in Managers : known'[n] \in Snapshots /\ attempt'[n] \in Snapshots
             /\ \A q \in Procs : cs'[q] \in Snapshots
  <2>1. UNCHANGED <<known, attempt>> /\ \A q \in Procs : cs'[q] = cs[q] \/ cs'[q] = ZeroSnapshot
    BY <1>2, ReadFrame DEF manager
  <2> QED BY <2>1 DEF Snapshots
<1>3. ASSUME NEW m \in Crashable, Crash(m)
      PROVE  /\ \A n \in Managers : known'[n] \in Snapshots /\ attempt'[n] \in Snapshots
             /\ \A q \in Procs : cs'[q] \in Snapshots
  <2>1. /\ \A n \in Managers : n # m => known'[n] = known[n] /\ attempt'[n] = attempt[n]
        /\ known'[m] = ZeroSnapshot /\ attempt'[m] = ZeroSnapshot
        /\ \A q \in Procs : cs'[q] = cs[q] \/ cs'[q] = ZeroSnapshot
    BY <1>3, CrashFrame
  <2> QED BY <2>1 DEF Snapshots
<1>4. CASE Maintain
  <2>1. UNCHANGED <<known, attempt>> /\ \A q \in Procs : cs'[q] = cs[q] \/ cs'[q] = ZeroSnapshot \/ cs'[q] = known[Mgr(M)]
    BY <1>4, MaintainFrame DEF manager
  <2> QED BY <2>1, <1>m DEF Snapshots
<1>5. CASE Tick \/ UNCHANGED vars
  <2>1. UNCHANGED <<known, attempt, cs>>
    BY <1>5 DEF Tick, vars, manager
  <2> QED BY <2>1 DEF Snapshots
<1> QED BY <1>1, <1>2, <1>3, <1>4, <1>5 DEF Next

\* So no snapshot ever shows a range checkpoint.
LEMMA ChainsStep ==
  ASSUME TypeInv, NoRangeYet, [Next]_vars PROVE \A s \in Snapshots' : s.LongestRangeCheckpointSets = << >>
<1>1. ASSUME NEW p \in Procs, Refresh(p) PROVE \A s \in Snapshots' : s.LongestRangeCheckpointSets = << >>
  <2>m. /\ Mgr(p) \in Managers /\ known \in [Managers -> Snapshot] /\ cs \in [Procs -> Snapshot]
    BY ProcessAssumption DEF Mgr, TypeInv, TypeOK, ManagerOK, ProcsOK
  <2>1. /\ known' = known \/ known' = [known EXCEPT ![Mgr(p)] = attempt[Mgr(p)]]
        /\ cs' = cs \/ cs' = [cs EXCEPT ![p] = attempt[Mgr(p)]] \/ cs' = [cs EXCEPT ![p] = known[Mgr(p)]]
    BY <1>1 DEF Refresh, UseKnownState, StartRefresh, loadWriteEpoch, loadSingleEpochCompactions,
       loadRangeCheckpoints, loadUncompactedEpoch, FinishRefresh, manager
  <2>2. /\ \A n \in Managers : known'[n] = known[n] \/ known'[n] = attempt[Mgr(p)]
        /\ \A q \in Procs : cs'[q] = cs[q] \/ cs'[q] = attempt[Mgr(p)] \/ cs'[q] = known[Mgr(p)]
    BY <2>1, <2>m
  <2>3. \A s \in Snapshots' : s \in Snapshots \/ \E n \in Managers : s = attempt'[n]
    BY <2>2, <2>m DEF Snapshots
  <2>4. \A n \in Managers : attempt'[n].LongestRangeCheckpointSets = << >>
    BY <1>1, RefreshNoChain
  <2> QED BY <2>3, <2>4 DEF NoRangeYet
<1>2. CASE ~\E p \in Procs : Refresh(p)
  BY <1>2, SnapshotSources DEF NoRangeYet
<1> QED BY <1>1, <1>2

\* Without range checkpoints MaybeCompactSingleEpoch takes an epoch that has no compaction, and no
\* range checkpoint is made before the write epoch reaches FullCheckpointFrequency + 2.
LEMMA NoRangeStep ==
  ASSUME Young, TypeInv, StorageInv, MaintInv, NoRangeYet, CompactsUncompactedEpoch, [Next]_vars
  PROVE  NoRangeYet' /\ CompactsUncompactedEpoch'
<1>m. M \in Procs /\ pc \in [Procs -> Places] /\ cs[M] \in Snapshot
  BY ProcessAssumption DEF Procs, M, TypeInv, TypeOK, ProcsOK
<1>c. \A s \in Snapshots' : s.LongestRangeCheckpointSets = << >>
  BY ChainsStep
<1>l. cs[M].LongestRangeCheckpointSets = << >>
  BY <1>m DEF NoRangeYet, Snapshots
<1>r. pc[M] # "rangeList"
  BY DEF NoRangeYet, MaintInv, WorkSettled, Compacting
<1> DEFINE Goal == /\ ranges' = {}
                   /\ pc'[M] \in Compacting => op' = "compactSingle"
                   /\ CompactsUncompactedEpoch'
<1>1. ASSUME ranges' = {}, pc'[M] \notin Compacting PROVE Goal
  BY <1>1 DEF CompactsUncompactedEpoch, Compacting
<1>2. ASSUME ranges' = {}, pc[M] \in Compacting \ {"compactWrite"} => pc'[M] \in Compacting, pc[M] \in Compacting,
             pc'[M] = "compactWrite" \/ pc[M] # "compactWrite", UNCHANGED <<op, lo>>, cs'[M] = cs[M] PROVE Goal
  <2>1. op = "compactSingle" /\ pc[M] \in {"compactList", "compactRead", "compactWrite"}
    BY <1>2, <1>r DEF NoRangeYet, Compacting
  <2>2. pc[M] # "compactWrite" => lo \notin CompactedEpochs(cs[M])
    BY <2>1 DEF CompactsUncompactedEpoch
  <2> QED BY <1>2, <2>1, <2>2 DEF CompactsUncompactedEpoch, CompactedEpochs
<1>3. CASE ClientStep
  <2>1. ranges' = {}
    BY <1>3, ClientStorage DEF NoRangeYet
  <2>2. CASE pc'[M] \notin Compacting
    BY <1>1, <1>c, <2>1, <2>2 DEF NoRangeYet
  <2>3. CASE pc'[M] \in Compacting
    <3>1. pc'[M] = pc[M] /\ cs'[M] = cs[M] /\ UNCHANGED <<op, lo>>
      BY <1>3, <2>3, ClientCompacts
    <3>2. Goal
      BY <1>2, <2>1, <2>3, <3>1
    <3> QED BY <1>c, <3>2 DEF NoRangeYet
  <2> QED BY <2>2, <2>3
<1>4. CASE Maintain
  <2>i. EndMaintenance => pc'[M] = "idle"
    BY <1>m DEF EndMaintenance, Leave, Goto
  <2>r. ranges' = {}
    <3>1. ASSUME NEW s \in Shards, WritePart(s) PROVE ranges' = {}
      <4>1. op = "compactSingle"
        BY <3>1 DEF WritePart, NoRangeYet, Compacting
      <4> QED BY <3>1, <4>1 DEF WritePart, NoRangeYet
    <3>2. UNCHANGED ranges \/ \E s \in Shards : WritePart(s)
      BY <1>4 DEF Maintain, StartMaintenance, MaybeAdvanceWriteEpoch, advanceEpochMarker, MaybeCompactSingleEpoch,
         ListEpochToCompact, MaybeGenerateRangeCheckpoint, ListRangeEpoch, CheckRangeTime, CompactEpoch,
         CleanupMarkers, DeleteMarker, CleanupSupersededIndexes, DeleteIndex, MaintenanceError, storage
    <3> QED BY <3>1, <3>2 DEF NoRangeYet
  <2>e. EndMaintenance => Goal
    BY <2>i, <2>r, <1>1 DEF Compacting
  <2>1. ASSUME MaybeCompactSingleEpoch PROVE Goal
    <3>1. EndMaintenance \/ (/\ lo' = oldestUncompactedEpoch(cs[M]) /\ pc'[M] = "compactList" /\ UNCHANGED <<op, cs>>
                            /\ pc[M] = "compactSingle")
      BY <2>1, <1>m DEF MaybeCompactSingleEpoch, Goto
    <3>2. CASE ~EndMaintenance
      <4>1. op = "compactSingle"
        BY <3>1, <3>2 DEF MaintInv, WorkSettled
      <4>2. oldestUncompactedEpoch(cs[M]) \notin CompactedEpochs(cs[M])
        BY <1>m, <1>l, OldestNotCompacted
      <4> QED BY <2>r, <3>1, <3>2, <4>1, <4>2 DEF CompactsUncompactedEpoch, CompactedEpochs
    <3> QED BY <3>2, <2>e
  <2>2. ASSUME MaybeGenerateRangeCheckpoint PROVE Goal
    <3>1. ChainEnd(cs[M].LongestRangeCheckpointSets) + 1 = 0
      BY <1>l DEF ChainEnd
    <3>2. /\ cs[M].WriteEpoch \in Nat /\ FullCheckpointFrequency \in Nat /\ markers \subseteq Nat
          /\ cs[M].WriteEpoch <= 0 \/ \E k \in markers : k >= cs[M].WriteEpoch
      <4>1. SnapshotOK(cs[M])
        BY <1>m DEF StorageInv, SnapshotsOK, Snapshots
      <4>2. markers \subseteq Nat
        BY RepositoryAssumption DEF TypeInv, TypeOK, StorageOK, Epochs
      <4>3. cs[M].WriteEpoch \in Nat /\ FullCheckpointFrequency \in Nat
        BY <1>m, RepositoryAssumption, ParametersAssumption DEF Snapshot, Epochs
      <4> QED BY <4>1, <4>2, <4>3 DEF SnapshotOK, Reached
    <3>3. ~(cs[M].WriteEpoch - 2 - 0 >= FullCheckpointFrequency)
      BY <3>2 DEF Young
    <3>4. EndMaintenance
      BY <2>2, <3>1, <3>3 DEF MaybeGenerateRangeCheckpoint, numUnsettledEpochs
    <3> QED BY <3>4, <2>e
  <2>3. ASSUME ListEpochToCompact PROVE Goal
    <3>1. pc[M] = "compactList" /\ pc'[M] = "compactRead" /\ UNCHANGED <<op, lo, cs>>
      BY <2>3, <1>m DEF ListEpochToCompact, Goto
    <3> QED BY <1>2, <2>r, <3>1 DEF Compacting
  <2>4. ASSUME CompactEpoch PROVE Goal
    <3>1. EndMaintenance \/ (pc[M] = "compactRead" /\ pc'[M] = "compactWrite" /\ UNCHANGED <<op, lo, cs>>)
      BY <2>4, <1>m DEF CompactEpoch, Goto
    <3>2. CASE ~EndMaintenance
      BY <1>2, <2>r, <3>1, <3>2 DEF Compacting
    <3> QED BY <3>2, <2>e
  <2>5. ASSUME NEW s \in Shards, WritePart(s) PROVE Goal
    <3>1. EndMaintenance \/ (pc[M] = "compactWrite" /\ UNCHANGED <<op, lo, cs, pc>>)
      BY <2>5 DEF WritePart
    <3>2. CASE ~EndMaintenance
      BY <1>2, <2>r, <3>1, <3>2 DEF Compacting
    <3> QED BY <3>2, <2>e
  <2>6. \/ MaybeCompactSingleEpoch \/ MaybeGenerateRangeCheckpoint \/ ListEpochToCompact \/ CompactEpoch
        \/ (\E s \in Shards : WritePart(s)) \/ pc'[M] \notin Compacting
    <3>1. \/ MaybeCompactSingleEpoch \/ MaybeGenerateRangeCheckpoint \/ ListEpochToCompact \/ CompactEpoch
          \/ (\E s \in Shards : WritePart(s)) \/ EndMaintenance
          \/ pc[M] = "rangeList"
          \/ UNCHANGED pc /\ pc[M] \in {"deleteMarkers", "deleteIndexes"}
          \/ \E k : k \notin Compacting /\ pc' = [pc EXCEPT ![M] = k]
      BY <1>4 DEF Maintain, StartMaintenance, MaybeAdvanceWriteEpoch, advanceEpochMarker, ListRangeEpoch, CheckRangeTime,
         CleanupMarkers, DeleteMarker, CleanupSupersededIndexes, DeleteIndex, MaintenanceError, Goto, Compacting
    <3> QED BY <3>1, <2>i, <1>m, <1>r DEF Compacting
  <2>7. Goal
    BY <1>1, <2>r, <2>1, <2>2, <2>3, <2>4, <2>5, <2>6
  <2> QED BY <1>c, <2>7 DEF NoRangeYet
<1> QED BY <1>3, <1>4, StepSplit

\* A repository that was found without range checkpoints has none.
LEMMA YoungInit == ASSUME InitRange = -1, Init PROVE NoRangeYet /\ CompactsUncompactedEpoch
<1>m. M \in Procs /\ M \notin InFlight /\ M \notin Retrying
  BY ProcessAssumption, RepositoryAssumption DEF Procs, M
<1>1. pc[M] = "idle"
  BY <1>m DEF Init
<1>2. ranges = {}
  BY DEF Init, InitRangeBlobs
<1>3. \A s \in Snapshots : s.LongestRangeCheckpointSets = << >>
  <2>1. ZeroSnapshot.LongestRangeCheckpointSets = << >>
    BY DEF ZeroSnapshot
  <2>2. \A p \in Procs : cs[p].LongestRangeCheckpointSets = << >>
    BY DEF Init, ZeroSnapshot
  <2>3. \A m \in Managers : known[m] = ZeroSnapshot /\ attempt[m] = ZeroSnapshot
    BY DEF Init
  <2> QED BY <2>1, <2>2, <2>3 DEF Snapshots
<1> QED BY <1>1, <1>2, <1>3 DEF NoRangeYet, CompactsUncompactedEpoch, Compacting

\* In a repository that started without range checkpoints, and until its write epoch is large enough for
\* the first one, MaybeCompactSingleEpoch only takes epochs that have no compaction yet: oldestUncompactedEpoch
\* follows the run of compacted epochs that starts at 0. Afterwards it is not so: when a range checkpoint
\* ends beyond that run, the compaction of the epoch that follows the checkpoint leaves
\* oldestUncompactedEpoch where it was (epoch_utils.go, singleCompacted.hi is the end of the first run).
THEOREM YoungCompactsUncompacted ==
  ASSUME InitRange = -1 PROVE Spec /\ []Young => []CompactsUncompactedEpoch
<1> DEFINE Inv == TypeInv /\ StorageInv /\ MaintInv /\ NoRangeYet /\ CompactsUncompactedEpoch
<1>1. Init => Inv
  BY InitType, InitControl, SafetyInit, YoungInit DEF TypeInv
<1>2. Inv /\ Young /\ [Next]_vars => Inv'
  BY TypeStep, SafetyStep, NoRangeStep
<1>3. Inv => CompactsUncompactedEpoch
  OBVIOUS
<1> HIDE DEF Inv
<1> QED BY <1>1, <1>2, <1>3, PTL DEF Spec

\* So until then every compaction has every acknowledged entry of its epoch, without further conditions.
COROLLARY YoungSinglesWhole ==
  ASSUME InitRange = -1 PROVE Spec /\ []Young => []SinglesCoverAcked
<1> QED BY YoungCompactsUncompacted, SinglesWhole, PTL
----------------------------------------------------------------------------
(* A reader gets every acknowledged entry: the inductive invariant, in its parts *)

\* A whole compaction of epoch e was stored before time t.
Old(e, t) == \E n : \A h \in Shards : \E b \in singles : b.epoch = e /\ b.set = n /\ b.shard = h /\ b.ts < t
\* When the refresh behind a snapshot began.
Began(s) == s.ValidUntil - EpochRefreshFrequency

\* Nothing is dated in the future.
BlobTimes == (\A b \in uncompacted : b.ts <= now) /\ (\A b \in singles : b.ts <= now)
SnapshotTimes(s) == Began(s) <= now /\ \A b \in s.UncompactedEpochSets : b.ts <= now
\* The compactions in a snapshot are whole sets.
WholeSets(s) == \A e \in CompactedEpochs(s) : \E n : \A h \in Shards :
  \E b \in s.SingleEpochCompactionSets : b.epoch = e /\ b.set = n /\ b.shard = h
\* Its range checkpoints follow each other from epoch 0, each has more than one epoch, and their
\* blobs are in storage.
ChainOK(s) == LET c == s.LongestRangeCheckpointSets IN
  \A i \in 1..Len(c) :
    /\ c[i].min = (IF i = 1 THEN 0 ELSE c[i-1].max + 1) /\ c[i].min < c[i].max
    /\ \A h \in Shards : \E b \in ranges :
         b.min = c[i].min /\ b.max = c[i].max /\ b.shard = h /\ b.content \subseteq c[i].content
\* What it was to show had been acknowledged.
SeenAcked(s) == s.seen \subseteq acked
ViewOK(s) == SnapshotTimes(s) /\ WholeSets(s) /\ ChainOK(s) /\ SeenAcked(s)
ViewsOK == \A s \in Snapshots : ViewOK(s)

\* A compaction that was whole before the refresh began is in the snapshot, and its epoch is settled there.
ShowsOld(s) == \A e \in Epochs : Old(e, Began(s)) => e \in CompactedEpochs(s)
SettlesOld(s) == \A e \in Epochs : Old(e, Began(s)) => e <= s.WriteEpoch - 2
OldShown == /\ \A m \in Managers : ShowsOld(known[m]) /\ SettlesOld(known[m])
            /\ \A p \in Procs : ShowsOld(cs[p]) /\ SettlesOld(cs[p])
            /\ \A m \in Managers : /\ "single" \notin loads[m] => ShowsOld(attempt[m])
                                   /\ "writeEpoch" \notin loads[m] => SettlesOld(attempt[m])

\* A range has more than one epoch.
WideRanges == /\ \A b \in ranges : b.min < b.max
              /\ pc[M] \in Compacting => op = "compactSingle" \/ lo < hi

\* What cleanup deletes has been in a whole compaction for CleanupSafetyMargin.
DoomedOld == pc[M] = "deleteIndexes" => \A b \in doomed : Old(b.epoch, now - CleanupSafetyMargin)
Lasts(x, e, h) == Stored(x, e, h) \/ Old(e, now - CleanupSafetyMargin)
WrittenLasts == /\ \A w \in Writers : \A h \in written[w] : Lasts(w, writtenFor[w], h)
                /\ \A x \in InitWrites : \A h \in Shards : Lasts(x, InitEpoch[x], h)
\* The call of the client m has stored the write x in epoch e, and has told its Manager so.
Own(m, x, e) == /\ x \in Writers /\ Mgr(x) = m /\ e = writtenFor[x]
                /\ pc[x] \in {"writeRecheck", "writeVerify", "acked"}
AckedWritten == \A a \in acked : \/ a.write \in Writers /\ a.epoch = writtenFor[a.write] /\ written[a.write] = Shards
                                 \/ a.write \in InitWrites /\ a.epoch = InitEpoch[a.write]
AckedAll == \A w \in Writers : pc[w] = "acked" => written[w] = Shards
OldInv == BlobTimes /\ WideRanges /\ DoomedOld /\ WrittenLasts /\ AckedWritten /\ AckedAll

\* The write x is to be found in what the client m reads from s.
Seen(s, x, e) == \E a \in s.seen : a.write = x /\ a.epoch = e
Due(m, s, x, e) == Seen(s, x, e) \/ Own(m, x, e)
\* The snapshot has listed it, if its epoch is one of those that are listed.
Lists(s, x, e) == \A h \in Shards : \E b \in s.UncompactedEpochSets : b.epoch = e /\ b.set = x /\ b.shard = h /\ <<x, h>> \in b.content
ListingsOK == /\ \A m \in Managers : listed[m] # {} => mu[m] # NoProc /\ loads[m] = {}
              /\ \A m \in Managers : \A x \in Writes, e \in listed[m] :
                   Due(m, attempt[m], x, e) /\ e \in UnsettledEpochs(attempt[m])
                     => Lists(attempt[m], x, e) \/ now > attempt[m].ValidUntil
              /\ \A m \in Managers : Loaded(known[m]) => \A x \in Writes, e \in UnsettledEpochs(known[m]) :
                   Due(m, known[m], x, e) => Lists(known[m], x, e)

\* What a read is to return.
Wanted(r) == cs[r].seen \cup expected[r]
InRead == {"readRange", "readList", "readDone"}
ExpectedOK == \A r \in Readers : \A a \in expected[r] : a \in acked /\ a.write \in Writers /\ Mgr(a.write) = Mgr(r)
ReadLists == \A r \in Readers : pc[r] \in InRead =>
  \A a \in Wanted(r) : a.epoch \in UnsettledEpochs(cs[r]) => Lists(cs[r], a.write, a.epoch)
ReadShows == \A r \in Readers : pc[r] \in {"readList", "readDone"} =>
  /\ \A e \in toList[r] : MustList(cs[r], e)
  /\ \A a \in Wanted(r) : a.epoch <= maxEpoch[r] =>
       \/ AckEntries(a) \subseteq result[r]
       \/ pc[r] = "readList" /\ (a.epoch \in toList[r] \/ now > cs[r].ValidUntil)
ReadInv == ViewsOK /\ OldShown /\ OldInv /\ ListingsOK /\ ExpectedOK /\ ReadLists /\ ReadShows
----------------------------------------------------------------------------
(* Time and the age of compactions *)

\* The parameters are numbers, and there is a shard.
LEMMA Numbers == /\ EpochRefreshFrequency \in Nat /\ CleanupSafetyMargin \in Nat /\ EpochRefreshFrequency > 0
                 /\ CleanupSafetyMargin >= 3 * EpochRefreshFrequency
                 /\ Epochs \subseteq Nat /\ \E h : h \in Shards
<1>1. \E h : h \in Shards
  BY RepositoryAssumption
<1>2. Epochs \subseteq Nat
  BY RepositoryAssumption DEF Epochs
<1> QED BY <1>1, <1>2, ParametersAssumption

\* The clock does not go back.
LEMMA NowGrows == ASSUME TypeInv, [Next]_vars PROVE now \in Nat /\ now' \in Nat /\ now <= now'
<1>t. now \in Nat
  BY DEF TypeInv, TypeOK, StorageOK
<1>1. CASE Tick
  <2>1. PICK t \in Times : t > now /\ now' = t
    BY <1>1 DEF Tick
  <2>2. t \in Nat
    BY RepositoryAssumption
  <2> QED BY <1>t, <2>1, <2>2
<1>2. ASSUME NEW p \in Procs, Refresh(p) PROVE now' = now
  BY <1>2 DEF Refresh, UseKnownState, StartRefresh, loadWriteEpoch, loadSingleEpochCompactions,
     loadRangeCheckpoints, loadUncompactedEpoch, FinishRefresh
<1>3. ASSUME NEW w \in Writers, Write(w) PROVE now' = now
  BY <1>3 DEF Write, WriteIndex, ChooseWriteEpoch, CheckShardTime, DropPartialShard, PutShard, UndoShard,
     InvalidateAfterWrite, VerifyWriteEpoch, WriteIndexError, notWriting
<1>4. ASSUME NEW r \in Readers, Read(r) PROVE now' = now
  BY <1>4 DEF Read, GetCompleteIndexSet, ReadSnapshot, ReadReturn, ReadEpoch, ReadError, EndRead, notReading
<1>5. ASSUME NEW m \in Crashable, Crash(m) PROVE now' = now
  BY <1>5 DEF Crash
<1>6. CASE Maintain
  BY <1>t, <1>6 DEF Maintain, StartMaintenance, MaybeAdvanceWriteEpoch, advanceEpochMarker, MaybeCompactSingleEpoch,
     ListEpochToCompact, MaybeGenerateRangeCheckpoint, ListRangeEpoch, CheckRangeTime, CompactEpoch,
     WritePart, CleanupMarkers, DeleteMarker, CleanupSupersededIndexes, DeleteIndex, MaintenanceError, notMaint
<1>7. CASE UNCHANGED vars
  BY <1>t, <1>7 DEF vars
<1> QED BY <1>t, <1>1, <1>2, <1>3, <1>4, <1>5, <1>6, <1>7 DEF Next

\* What is written now is dated now.
LEMMA NewBlobs == ASSUME TypeInv, [Next]_vars PROVE \A b \in uncompacted' : b \in uncompacted \/ b.ts = now
<1>1. CASE uncompacted' \subseteq uncompacted
  BY <1>1
<1>2. ASSUME NEW w \in Writers, Write(w) PROVE \A b \in uncompacted' : b \in uncompacted \/ b.ts = now
  BY <1>2, WriteFrame DEF Blob
<1>3. ASSUME NEW p \in Procs, Refresh(p) PROVE uncompacted' \subseteq uncompacted
  BY <1>3, RefreshFrame DEF storage
<1>4. ASSUME NEW r \in Readers, Read(r) PROVE uncompacted' \subseteq uncompacted
  BY <1>4, ReadFrame DEF storage
<1>5. ASSUME NEW m \in Crashable, Crash(m) PROVE uncompacted' \subseteq uncompacted
  BY <1>5, CrashFrame DEF storage
<1>6. Maintain => uncompacted' \subseteq uncompacted
  BY MaintainFrame
<1>7. Tick \/ UNCHANGED vars => uncompacted' \subseteq uncompacted
  BY DEF Tick, vars, storage
<1> QED BY <1>1, <1>2, <1>3, <1>4, <1>5, <1>6, <1>7 DEF Next

\* ... and compactions are only added, by maintenance.
LEMMA NewParts ==
  ASSUME TypeInv, [Next]_vars
  PROVE  /\ singles \subseteq singles' /\ \A b \in singles' : b \in singles \/ b.ts = now
         /\ ranges \subseteq ranges'
         /\ \A b \in ranges' : b \in ranges \/ (b.min = lo /\ b.max = hi /\ pc[M] = "compactWrite" /\ op # "compactSingle")
<1>1. CASE UNCHANGED <<singles, ranges>>
  BY <1>1
<1>2. ASSUME NEW s \in Shards, WritePart(s)
      PROVE  /\ singles \subseteq singles' /\ \A b \in singles' : b \in singles \/ b.ts = now
             /\ ranges \subseteq ranges'
             /\ \A b \in ranges' : b \in ranges \/ (b.min = lo /\ b.max = hi /\ pc[M] = "compactWrite" /\ op # "compactSingle")
  <2>1. CASE op = "compactSingle"
    <3>1. PICK n : n.ts = now /\ singles' = singles \cup {n} /\ ranges' = ranges
      <4> DEFINE new == [epoch |-> lo, set |-> sets, shard |-> s, content |-> {x \in content : x[2] = s}, ts |-> now]
      <4>1. new.ts = now /\ singles' = singles \cup {new} /\ ranges' = ranges
        BY <1>2, <2>1 DEF WritePart
      <4> QED BY <4>1
    <3> QED BY <3>1
  <2>2. CASE op # "compactSingle"
    <3>1. PICK n : n.min = lo /\ n.max = hi /\ ranges' = ranges \cup {n} /\ singles' = singles
      <4> DEFINE new == [min |-> lo, max |-> hi, set |-> sets, shard |-> s, content |-> {x \in content : x[2] = s}]
      <4>1. new.min = lo /\ new.max = hi /\ ranges' = ranges \cup {new} /\ singles' = singles
        BY <1>2, <2>2 DEF WritePart
      <4> QED BY <4>1
    <3>2. pc[M] = "compactWrite"
      BY <1>2 DEF WritePart
    <3> QED BY <2>2, <3>1, <3>2
  <2> QED BY <2>1, <2>2
<1>3. Maintain => UNCHANGED <<singles, ranges>> \/ \E s \in Shards : WritePart(s)
  BY DEF Maintain, StartMaintenance, MaybeAdvanceWriteEpoch, advanceEpochMarker, MaybeCompactSingleEpoch,
     ListEpochToCompact, MaybeGenerateRangeCheckpoint, ListRangeEpoch, CheckRangeTime, CompactEpoch,
     CleanupMarkers, DeleteMarker, CleanupSupersededIndexes, DeleteIndex, MaintenanceError, storage
<1>4. ClientStep => UNCHANGED <<singles, ranges>>
  BY ClientStorage
<1> QED BY <1>1, <1>2, <1>3, <1>4, StepSplit

\* A compaction is dated with a natural number.
LEMMA PartTimes == ASSUME TypeInv PROVE \A b \in singles : b.ts \in Nat /\ b.epoch \in Epochs
  BY DEF TypeInv, TypeOK, StorageOK, IndexBlob

\* A compaction that is old gets older.
LEMMA OldGrows == ASSUME TypeInv, [Next]_vars, NEW e, NEW t \in Int, NEW u \in Int, t <= u, Old(e, t) PROVE Old(e, u)'
<1>1. PICK n : \A h \in Shards : \E b \in singles : b.epoch = e /\ b.set = n /\ b.shard = h /\ b.ts < t
  BY DEF Old
<1>2. ASSUME NEW h \in Shards PROVE \E b \in singles' : b.epoch = e /\ b.set = n /\ b.shard = h /\ b.ts < u
  <2>1. PICK b \in singles : b.epoch = e /\ b.set = n /\ b.shard = h /\ b.ts < t
    BY <1>1
  <2>2. b.ts \in Nat /\ b \in singles'
    BY NewParts, PartTimes
  <2>3. b.ts < u
    BY <2>1, <2>2
  <2> QED BY <2>1, <2>2, <2>3
<1> QED BY <1>2 DEF Old

\* None becomes older than it is.
LEMMA OldBack == ASSUME TypeInv, [Next]_vars, NEW e, NEW t \in Int, t <= now, Old(e, t)' PROVE Old(e, t)
<1>1. PICK n : \A h \in Shards : \E b \in singles' : b.epoch = e /\ b.set = n /\ b.shard = h /\ b.ts < t
  BY DEF Old
<1>2. ASSUME NEW h \in Shards PROVE \E b \in singles : b.epoch = e /\ b.set = n /\ b.shard = h /\ b.ts < t
  <2>1. PICK b \in singles' : b.epoch = e /\ b.set = n /\ b.shard = h /\ b.ts < t
    BY <1>1
  <2>2. b.ts # now
    BY <2>1, NowGrows
  <2>3. b \in singles
    BY <2>2, NewParts
  <2> QED BY <2>1, <2>3
<1> QED BY <1>2 DEF Old

\* An old compaction is complete, and its date is not before time 0.
LEMMA OldComplete == ASSUME TypeInv, NEW e, NEW t \in Int, Old(e, t) PROVE e \in CompleteEpochs /\ t > 0 /\ \E b \in singles : b.epoch = e
<1>1. PICK n : \A h \in Shards : \E b \in singles : b.epoch = e /\ b.set = n /\ b.shard = h /\ b.ts < t
  BY DEF Old
<1>2. PICK h \in Shards : TRUE
  BY Numbers
<1>3. PICK b \in singles : b.epoch = e /\ b.set = n /\ b.ts < t
  BY <1>1, <1>2
<1>4. b.ts \in Nat /\ e \in Epochs
  BY <1>3, PartTimes
<1>5. n \in CompleteSets(OfEpoch(singles, e))
  BY <1>1, <1>3 DEF CompleteSets, OfEpoch
<1> QED BY <1>3, <1>4, <1>5 DEF CompleteEpochs

\* A compaction that was old enough to clean up after was there when a snapshot that is still valid was begun.
LEMMA OldBegan ==
  ASSUME TypeInv, NEW s \in Snapshot, now <= s.ValidUntil, NEW e, Old(e, now - CleanupSafetyMargin) PROVE Old(e, Began(s))
<1>1. /\ now \in Nat /\ s.ValidUntil \in Int /\ EpochRefreshFrequency \in Nat /\ CleanupSafetyMargin \in Nat
      /\ CleanupSafetyMargin >= 3 * EpochRefreshFrequency
  BY Numbers DEF Snapshot, TypeInv, TypeOK, StorageOK
<1>2. PICK t, u : t = now - CleanupSafetyMargin /\ u = s.ValidUntil - EpochRefreshFrequency
  OBVIOUS
<1>3. t <= u /\ t \in Int /\ u \in Int
  BY <1>1, <1>2
<1>4. \A k \in Nat : k < t => k < u
  BY <1>3
<1> QED BY <1>2, <1>4, PartTimes DEF Old, Began
----------------------------------------------------------------------------
(* What was written lasts, in its blobs or in an old compaction *)

\* Dates stay in the past.
LEMMA BlobTimesStep == ASSUME TypeInv, BlobTimes, [Next]_vars PROVE BlobTimes'
<1>1. now \in Nat /\ now' \in Nat /\ now <= now'
  BY NowGrows
<1>2. (\A b \in uncompacted : b.ts \in Nat) /\ (\A b \in singles : b.ts \in Nat)
  BY DEF TypeInv, TypeOK, StorageOK, IndexBlob
<1>3. ASSUME NEW b \in uncompacted' PROVE b.ts <= now'
  BY <1>1, <1>2, NewBlobs DEF BlobTimes
<1>4. ASSUME NEW b \in singles' PROVE b.ts <= now'
  BY <1>1, <1>2, NewParts DEF BlobTimes
<1> QED BY <1>3, <1>4 DEF BlobTimes

\* getRangeToCompact gives more than one epoch.
LEMMA WideStep == ASSUME TypeInv, MaintInv, WideRanges, [Next]_vars PROVE WideRanges'
<1>m. M \in Procs /\ pc \in [Procs -> Places] /\ cs[M] \in Snapshot /\ lo \in Int /\ hi \in Int
  BY ProcessAssumption DEF Procs, M, TypeInv, TypeOK, ProcsOK, MaintenanceOK
<1>w. pc[M] \in Compacting => op = "compactSingle" \/ lo < hi
  BY DEF WideRanges
<1>1. \A b \in ranges' : b.min < b.max
  <2>1. pc[M] = "compactWrite" /\ op # "compactSingle" => lo < hi
    BY <1>w DEF Compacting
  <2> QED BY <2>1, NewParts DEF WideRanges
<1>2. pc'[M] \in Compacting => op' = "compactSingle" \/ lo' < hi'
  <2> SUFFICES ASSUME pc'[M] \in Compacting PROVE op' = "compactSingle" \/ lo' < hi'
    OBVIOUS
  <2>1. CASE pc[M] \in Compacting /\ UNCHANGED <<op, lo, hi>>
    BY <1>w, <2>1
  <2>2. CASE ClientStep
    BY <2>1, <2>2, ClientCompacts
  <2>3. CASE Maintain
    <3>i. ~EndMaintenance
      BY <1>m DEF EndMaintenance, Leave, Goto, Compacting
    <3>1. CASE MaybeCompactSingleEpoch
      <4>1. pc[M] = "compactSingle" /\ UNCHANGED op
        BY <3>1, <3>i DEF MaybeCompactSingleEpoch
      <4> QED BY <4>1 DEF MaintInv, WorkSettled
    <3>2. CASE MaybeGenerateRangeCheckpoint
      <4>1. PICK c : c = ChainEnd(cs[M].LongestRangeCheckpointSets)
        OBVIOUS
      <4>2. lo' = c + 1 /\ hi' = cs[M].WriteEpoch - 2 /\ (cs[M].WriteEpoch - 2) - (c + 1) >= FullCheckpointFrequency
        BY <3>2, <3>i, <4>1 DEF MaybeGenerateRangeCheckpoint, numUnsettledEpochs
      <4>3. c \in Epochs \cup {-1} /\ MaxEpoch \in Nat
        BY <4>1, <1>m, ChainEndType, RepositoryAssumption
      <4>4. c \in Int /\ cs[M].WriteEpoch \in Int /\ FullCheckpointFrequency \in Nat \ {0}
        <5>1. Epochs \subseteq Int /\ -1 \in Int
          BY Numbers
        <5> QED BY <5>1, <4>3, <1>m, ParametersAssumption DEF Snapshot
      <4> QED BY <4>2, <4>4
    <3>3. CASE \/ ListEpochToCompact \/ (\E e \in toList[M] : ListRangeEpoch(e)) \/ CheckRangeTime \/ CompactEpoch
               \/ \E s \in Shards : WritePart(s)
      <4>1. pc[M] \in Compacting /\ UNCHANGED <<op, lo, hi>>
        BY <3>3, <3>i DEF ListEpochToCompact, ListRangeEpoch, CheckRangeTime, CompactEpoch, WritePart, Compacting, maint
      <4> QED BY <2>1, <4>1
    <3>4. \/ MaybeCompactSingleEpoch \/ MaybeGenerateRangeCheckpoint
          \/ ListEpochToCompact \/ (\E e \in toList[M] : ListRangeEpoch(e)) \/ CheckRangeTime \/ CompactEpoch
          \/ (\E s \in Shards : WritePart(s))
          \/ UNCHANGED pc /\ pc[M] \in {"deleteMarkers", "deleteIndexes"}
          \/ \E k : k \notin Compacting /\ pc' = [pc EXCEPT ![M] = k]
      BY <2>3, <3>i DEF Maintain, StartMaintenance, MaybeAdvanceWriteEpoch, advanceEpochMarker,
         CleanupMarkers, DeleteMarker, CleanupSupersededIndexes, DeleteIndex, MaintenanceError, Goto, Compacting
    <3> QED BY <3>1, <3>2, <3>3, <3>4, <1>m DEF Compacting
  <2> QED BY <2>2, <2>3, StepSplit
<1> QED BY <1>1, <1>2 DEF WideRanges

\* Clients leave alone what cleanup is deleting.
LEMMA ClientDeletes ==
  ASSUME TypeInv, MaintInv, ClientStep, pc'[M] = "deleteIndexes" PROVE pc[M] = "deleteIndexes" /\ doomed' = doomed
<1>m. M \in Procs /\ M \notin Writers
  BY ProcessAssumption DEF Procs, M
<1>1. ASSUME NEW p \in Procs, Refresh(p) PROVE pc[M] = "deleteIndexes" /\ doomed' = doomed
  <2>1. /\ UNCHANGED doomed
        /\ pc'[M] = pc[M] \/ (pc[M] \in WaitsForState /\ pc'[M] = Continue(M))
    BY <1>1, <1>m, RefreshFrame DEF maint
  <2>2. CASE pc[M] \in WaitsForState /\ pc'[M] = Continue(M)
    BY <2>2 DEF MaintInv, WorkSettled, WaitsForState, Continue, TypeInv, TypeOK, MaintenanceOK, AllOps
  <2> QED BY <2>1, <2>2
<1>2. MaintainerRests => pc[M] = "deleteIndexes" /\ doomed' = doomed
  BY DEF MaintainerRests
<1>3. ASSUME NEW w \in Writers, Write(w) PROVE MaintainerRests
  BY <1>3, WriteFrame
<1>4. ASSUME NEW r \in Readers, Read(r) PROVE MaintainerRests
  BY <1>4, ReadFrame
<1>5. ASSUME NEW m \in Crashable, Crash(m) PROVE MaintainerRests
  BY <1>5, CrashFrame
<1>6. Tick \/ UNCHANGED vars => MaintainerRests
  BY DEF Tick, vars, MaintainerRests, maint, reading
<1> QED BY <1>1, <1>2, <1>3, <1>4, <1>5, <1>6 DEF ClientStep

\* CleanupSupersededIndexes deletes the blobs of epochs that were compacted more than
\* CleanupSafetyMargin ago.
LEMMA DoomedStep ==
  ASSUME TypeInv, StorageInv, MaintInv, BlobTimes, ViewsOK, DoomedOld, [Next]_vars PROVE DoomedOld'
<1>m. M \in Procs /\ pc \in [Procs -> Places] /\ cs[M] \in Snapshots /\ cs[M] \in Snapshot
  BY ProcessAssumption DEF Procs, M, TypeInv, TypeOK, ProcsOK, Snapshots
<1>n. PICK t, u : t = now - CleanupSafetyMargin /\ u = now' - CleanupSafetyMargin
  OBVIOUS
<1>t. t \in Int /\ u \in Int /\ t <= u
  BY <1>n, NowGrows, Numbers
<1> SUFFICES ASSUME pc'[M] = "deleteIndexes", NEW b \in doomed' PROVE Old(b.epoch, u)'
  BY <1>n DEF DoomedOld, Old
<1>o. ASSUME Old(b.epoch, t) PROVE Old(b.epoch, u)'
  BY <1>o, <1>t, OldGrows
<1>1. ASSUME pc[M] = "deleteIndexes", b \in doomed PROVE Old(b.epoch, u)'
  <2>1. Old(b.epoch, t)
    BY <1>1, <1>n DEF DoomedOld, Old
  <2> QED BY <2>1, <1>o
<1>2. CASE ClientStep
  BY <1>1, <1>2, ClientDeletes
<1>3. CASE Maintain
  <2>i. ~EndMaintenance
    BY <1>m DEF EndMaintenance, Leave, Goto
  <2>1. CASE CleanupSupersededIndexes
    <3>1. WrittenEarlyEnough(cs[M], b.epoch)
      BY <2>1, <2>i DEF CleanupSupersededIndexes
    <3>2. ViewOK(cs[M]) /\ SnapshotOK(cs[M])
      BY <1>m DEF ViewsOK, StorageInv, SnapshotsOK
    <3>3. PICK e : e = b.epoch
      OBVIOUS
    <3>4. PICK n : \A h \in Shards : \E c \in cs[M].SingleEpochCompactionSets : c.epoch = e /\ c.set = n /\ c.shard = h
      BY <3>1, <3>2, <3>3 DEF ViewOK, WholeSets, WrittenEarlyEnough
    <3>5. ASSUME NEW h \in Shards PROVE \E c \in singles : c.epoch = e /\ c.set = n /\ c.shard = h /\ c.ts < t
      <4>1. PICK c \in cs[M].SingleEpochCompactionSets : c.epoch = e /\ c.set = n /\ c.shard = h
        BY <3>4
      <4>2. c \in singles
        BY <3>2 DEF SnapshotOK
      <4>3. PICK v \in cs[M].UncompactedEpochSets : c.ts < v.ts - CleanupSafetyMargin
        BY <3>1, <3>3, <4>1 DEF WrittenEarlyEnough, OfEpoch
      <4>4. v.ts <= now
        BY <3>2 DEF ViewOK, SnapshotTimes
      <4>5. v.ts \in Nat /\ c.ts \in Nat /\ now \in Nat /\ CleanupSafetyMargin \in Nat
        BY <1>m, <4>2, PartTimes, Numbers, NowGrows DEF Snapshot, IndexBlob
      <4>6. c.ts < t
        BY <1>n, <4>3, <4>4, <4>5
      <4> QED BY <4>1, <4>2, <4>6
    <3>6. Old(e, t)
      BY <3>5 DEF Old
    <3> QED BY <1>o, <3>3, <3>6
  <2>2. ASSUME NEW d \in doomed, DeleteIndex(d) PROVE Old(b.epoch, u)'
    <3>1. pc[M] = "deleteIndexes" /\ doomed' = doomed \ {d}
      BY <2>2, <2>i DEF DeleteIndex
    <3> QED BY <1>1, <3>1
  <2>3. \/ CleanupSupersededIndexes \/ (\E d \in doomed : DeleteIndex(d))
        \/ UNCHANGED pc /\ pc[M] \in Compacting \cup {"deleteMarkers"}
        \/ \E k : k # "deleteIndexes" /\ pc' = [pc EXCEPT ![M] = k]
    BY <1>3, <2>i DEF Maintain, StartMaintenance, MaybeAdvanceWriteEpoch, advanceEpochMarker, MaybeCompactSingleEpoch,
       ListEpochToCompact, MaybeGenerateRangeCheckpoint, ListRangeEpoch, CheckRangeTime, CompactEpoch,
       WritePart, CleanupMarkers, DeleteMarker, MaintenanceError, Goto, Compacting
  <2> QED BY <1>m, <2>1, <2>2, <2>3 DEF Compacting
<1> QED BY <1>2, <1>3, StepSplit

\* So a blob of a write that does not delete its own is there, or an old compaction is.
LEMMA LastsStays ==
  ASSUME TypeInv, DoomedOld, [Next]_vars, NEW x, NEW e, NEW h, Lasts(x, e, h), x \in Writers /\ Write(x) => Keeps(x)
  PROVE  Lasts(x, e, h)'
<1>n. PICK t, u : t = now - CleanupSafetyMargin /\ u = now' - CleanupSafetyMargin
  OBVIOUS
<1>t. t \in Int /\ u \in Int /\ t <= u
  BY <1>n, NowGrows, Numbers
<1>1. CASE Old(e, t)
  <2>1. Old(e, u)'
    BY <1>1, <1>t, OldGrows
  <2> QED BY <2>1, <1>n DEF Lasts, Old
<1>2. CASE Stored(x, e, h) /\ \E b \in doomed : DeleteIndex(b) /\ b.epoch = e
  <2>1. Old(e, t)
    BY <1>2, <1>n DEF DoomedOld, DeleteIndex, Old
  <2> QED BY <1>1, <2>1
<1>3. CASE Stored(x, e, h) /\ \A b \in doomed : DeleteIndex(b) => b.epoch # e
  <2>1. Stored(x, e, h)'
    BY <1>3, StoredStays
  <2> QED BY <2>1 DEF Lasts
<1> QED BY <1>1, <1>2, <1>3, <1>n DEF Lasts, Old

\* WriteIndex deletes a shard when it forgets it.
LEMMA WriteLasts ==
  ASSUME TypeInv, [Next]_vars, NEW w \in Writers, Write(w), \A h \in written[w] : Lasts(w, writtenFor[w], h)
  PROVE  \A h \in written'[w] : Lasts(w, writtenFor[w], h)'
<1>t. writtenFor \in [Writers -> Epochs \cup {-1}] /\ written \in [Writers -> SUBSET Shards]
  BY DEF TypeInv, TypeOK, WritersOK
<1>n. PICK t, u : t = now - CleanupSafetyMargin /\ u = now' - CleanupSafetyMargin
  OBVIOUS
<1>i. t \in Int /\ u \in Int /\ t <= u
  BY <1>n, NowGrows, Numbers
<1>o. ASSUME NEW e, NEW h, Lasts(w, e, h), Stored(w, e, h) => Stored(w, e, h)' PROVE Lasts(w, e, h)'
  <2>1. CASE Old(e, t)
    <3>1. Old(e, u)'
      BY <2>1, <1>i, OldGrows
    <3> QED BY <3>1, <1>n DEF Lasts, Old
  <2> QED BY <1>o, <2>1, <1>n DEF Lasts, Old
<1>e. PICK e : e = writtenFor[w]
  OBVIOUS
<1>l. \A h \in written[w] : Lasts(w, e, h)
  BY <1>e
<1>1. CASE UNCHANGED writing /\ uncompacted \subseteq uncompacted'
  <2>1. writtenFor' = writtenFor /\ written' = written
    BY <1>1 DEF writing
  <2>2. ASSUME NEW h \in written[w] PROVE Lasts(w, e, h)'
    BY <1>1, <1>l, <1>o DEF Stored
  <2> QED BY <2>1, <2>2, <1>e DEF Lasts, Stored, Old
<1>2. CASE ChooseWriteEpoch(w)
  <2>1. /\ writtenFor' = [writtenFor EXCEPT ![w] = cs[w].WriteEpoch] /\ UNCHANGED <<written, uncompacted>>
        /\ cs[w].WriteEpoch = writtenFor[w] \/ written[w] = {}
    BY <1>2 DEF ChooseWriteEpoch
  <2>2. writtenFor'[w] = cs[w].WriteEpoch
    BY <2>1, <1>t
  <2>3. CASE written[w] = {}
    BY <2>1, <2>3
  <2>4. CASE cs[w].WriteEpoch = writtenFor[w]
    <3>1. writtenFor'[w] = e /\ written' = written
      BY <1>e, <2>1, <2>2, <2>4
    <3>2. ASSUME NEW h \in written[w] PROVE Lasts(w, e, h)'
      BY <1>l, <1>o, <2>1 DEF Stored
    <3> QED BY <3>1, <3>2 DEF Lasts, Stored, Old
  <2> QED BY <2>1, <2>3, <2>4
<1>3. ASSUME NEW s \in Shards, DeleteShard(w, s), UNCHANGED writtenFor
      PROVE  \A h \in written'[w] : Lasts(w, writtenFor[w], h)'
  <2>1. /\ uncompacted' = {b \in uncompacted : ~(b.epoch = writtenFor[w] /\ b.set = w /\ b.shard = s)}
        /\ written' = [written EXCEPT ![w] = @ \ {s}]
    BY <1>3 DEF DeleteShard
  <2>2. written'[w] = written[w] \ {s} /\ writtenFor'[w] = e
    BY <1>3, <1>e, <2>1, <1>t
  <2>3. ASSUME NEW h \in written'[w] PROVE Lasts(w, e, h)'
    <3>1. Stored(w, e, h) => Stored(w, e, h)'
      BY <2>1, <2>2 DEF Stored
    <3> QED BY <1>l, <1>o, <2>2, <3>1
  <2> QED BY <2>2, <2>3 DEF Lasts, Stored, Old
<1>4. ASSUME NEW s \in Shards, PutShard(w, s) PROVE \A h \in written'[w] : Lasts(w, writtenFor[w], h)'
  <2>1. /\ uncompacted' = uncompacted \cup {Blob(w, s, writtenFor[w], now)}
        /\ written' = [written EXCEPT ![w] = @ \cup {s}] /\ UNCHANGED writtenFor
    BY <1>4 DEF PutShard
  <2>2. written'[w] = written[w] \cup {s} /\ writtenFor'[w] = e
    BY <1>e, <2>1, <1>t
  <2>3. Stored(w, e, s)'
    <3>1. PICK b : b = Blob(w, s, writtenFor[w], now)
      OBVIOUS
    <3>2. b.epoch = e /\ b.set = w /\ b.shard = s
      BY <1>e, <3>1 DEF Blob
    <3> QED BY <2>1, <3>1, <3>2 DEF Stored
  <2>4. ASSUME NEW h \in written[w] PROVE Lasts(w, e, h)'
    BY <1>l, <1>o, <2>1 DEF Stored
  <2>5. \A h \in written'[w] : Lasts(w, e, h)'
    BY <2>2, <2>3, <2>4 DEF Lasts
  <2> QED BY <2>2, <2>5 DEF Lasts, Stored, Old
<1> QED BY <1>1, <1>2, <1>3, <1>4 DEF Write, WriteIndex, CheckShardTime, DropPartialShard, UndoShard,
     InvalidateAfterWrite, VerifyWriteEpoch, WriteIndexError, writing

\* Whatever happens, what was written lasts.
LEMMA WrittenLastsStep == ASSUME TypeInv, DoomedOld, WrittenLasts, [Next]_vars PROVE WrittenLasts'
<1>1. ASSUME NEW w \in Writers PROVE \A h \in written'[w] : Lasts(w, writtenFor[w], h)'
  <2>1. CASE Write(w)
    BY <2>1, WriteLasts DEF WrittenLasts
  <2>2. CASE ~Write(w)
    <3>1. PICK e, ss : e = writtenFor[w] /\ ss = written[w] /\ e = writtenFor'[w] /\ ss = written'[w]
      BY <2>2, WriterPlaces
    <3>2. ASSUME NEW h \in ss PROVE Lasts(w, e, h)'
      <4>1. Lasts(w, e, h)
        BY <3>1 DEF WrittenLasts
      <4> QED BY <2>2, <4>1, LastsStays
    <3> QED BY <3>1, <3>2 DEF Lasts, Stored, Old
  <2> QED BY <2>1, <2>2
<1>2. ASSUME NEW x \in InitWrites, NEW h \in Shards PROVE Lasts(x, InitEpoch[x], h)'
  <2>1. PICK e : e = InitEpoch[x]
    OBVIOUS
  <2>2. Lasts(x, e, h) /\ x \notin Writers
    BY <2>1, ProcessAssumption DEF WrittenLasts
  <2>3. Lasts(x, e, h)'
    BY <2>2, LastsStays
  <2> QED BY <2>1, <2>3 DEF Lasts, Stored, Old
<1> QED BY <1>1, <1>2 DEF WrittenLasts

\* A write is acknowledged for the epoch it was written to, and stays so.
LEMMA AckedWrittenStep == ASSUME TypeInv, WriterInv, AckedWritten, [Next]_vars PROVE AckedWritten'
<1> SUFFICES ASSUME NEW a \in acked'
             PROVE  \/ a.write \in Writers /\ a.epoch = writtenFor'[a.write] /\ written'[a.write] = Shards
                    \/ a.write \in InitWrites /\ a.epoch = InitEpoch[a.write]
  BY DEF AckedWritten
<1>1. CASE a \in acked
  <2>1. CASE a.write \in Writers
    <3>1. pc[a.write] = "acked"
      BY <1>1, <2>1 DEF WriterInv, AckedDone
    <3>2. ~Write(a.write)
      BY <3>1 DEF Write, WriteIndex, ChooseWriteEpoch, CheckShardTime, DropPartialShard, PutShard, UndoShard,
         InvalidateAfterWrite, VerifyWriteEpoch, WriteIndexError
    <3>3. writtenFor'[a.write] = writtenFor[a.write] /\ written'[a.write] = written[a.write]
      BY <2>1, <3>2, WriterPlaces
    <3> QED BY <1>1, <3>3 DEF AckedWritten
  <2>2. CASE a.write \notin Writers
    BY <1>1, <2>2 DEF AckedWritten
  <2> QED BY <2>1, <2>2
<1>2. CASE a \notin acked
  <2>1. PICK w \in Writers : VerifyWriteEpoch(w) /\ a.write = w /\ a.epoch = writtenFor[w]
    BY <1>2, AckedBy
  <2>2. pc[w] = "writeVerify" /\ UNCHANGED <<writtenFor, written>>
    BY <2>1 DEF VerifyWriteEpoch, writing
  <2>3. written[w] = Shards
    BY <2>2 DEF WriterInv, AllWritten
  <2> QED BY <2>1, <2>2, <2>3
<1> QED BY <1>1, <1>2

\* It has stored all its shards.
LEMMA AckedAllStep == ASSUME TypeInv, WriterInv, AckedAll, [Next]_vars PROVE AckedAll'
<1> SUFFICES ASSUME NEW w \in Writers, pc'[w] = "acked" PROVE written'[w] = Shards
  BY DEF AckedAll
<1>t. pc \in [Procs -> Places] /\ w \in Procs /\ op \in AllOps \cup {"idle"}
  BY DEF TypeInv, TypeOK, ProcsOK, MaintenanceOK, Procs
<1>1. CASE Write(w)
  <2>1. \/ VerifyWriteEpoch(w)
        \/ pc' = pc /\ pc[w] \in {"writeEpoch", "writeUndo"}
        \/ \E l \in {"writeState", "writeShard", "writePut", "writeRecheck", "writeUndo", "failed"} : pc' = [pc EXCEPT ![w] = l]
    BY <1>1 DEF Write, WriteIndex, ChooseWriteEpoch, CheckShardTime, DropPartialShard, PutShard, UndoShard,
       InvalidateAfterWrite, WriteIndexError, Goto, Leave
  <2>2. VerifyWriteEpoch(w)
    BY <2>1, <1>t
  <2>3. pc[w] = "writeVerify" /\ written' = written
    BY <2>2 DEF VerifyWriteEpoch, writing
  <2> QED BY <2>3 DEF WriterInv, AllWritten
<1>2. CASE ~Write(w)
  <2>1. pc[w] = "acked" /\ written'[w] = written[w]
    BY <1>2, <1>t, WriterPlaces DEF WaitsForState, Continue, AllOps
  <2> QED BY <2>1 DEF AckedAll
<1> QED BY <1>1, <1>2

\* All together:
LEMMA OldStep == ASSUME TypeInv, StorageInv, MaintInv, WriterInv, ViewsOK, OldInv, [Next]_vars PROVE OldInv'
  BY BlobTimesStep, WideStep, DoomedStep, WrittenLastsStep, AckedWrittenStep, AckedAllStep DEF OldInv

\* So the entries of an acknowledged write are where it was written, or in an old compaction.
LEMMA AckedLasts == ASSUME OldInv, NEW a \in acked, NEW h \in Shards PROVE Lasts(a.write, a.epoch, h)
  BY DEF OldInv, AckedWritten, WrittenLasts
\* Those of a write that is about to be acknowledged too.
LEMMA OwnLasts == ASSUME WriterInv, OldInv, NEW m, NEW x, NEW e, Own(m, x, e), NEW h \in Shards PROVE Lasts(x, e, h)
<1>1. x \in Writers /\ written[x] = Shards /\ e = writtenFor[x]
  BY DEF Own, WriterInv, AllWritten, OldInv, AckedAll
<1> QED BY <1>1 DEF OldInv, WrittenLasts
----------------------------------------------------------------------------
(* What the snapshots show *)

\* No acknowledgement is taken back.
LEMMA AckedGrows == ASSUME TypeInv, [Next]_vars PROVE acked \subseteq acked'
<1>1. ASSUME NEW p \in Procs, Refresh(p) PROVE acked \subseteq acked'
  BY <1>1, RefreshFrame
<1>2. ASSUME NEW r \in Readers, Read(r) PROVE acked \subseteq acked'
  BY <1>2, ReadFrame
<1>3. ASSUME NEW m \in Crashable, Crash(m) PROVE acked \subseteq acked'
  BY <1>3, CrashFrame
<1>4. ASSUME NEW w \in Writers, Write(w) PROVE acked \subseteq acked'
  BY <1>4 DEF Write, WriteIndex, ChooseWriteEpoch, CheckShardTime, DropPartialShard, PutShard, UndoShard,
     InvalidateAfterWrite, VerifyWriteEpoch, WriteIndexError
<1>5. Maintain => acked \subseteq acked'
  BY MaintainFrame
<1>6. Tick \/ UNCHANGED vars => acked \subseteq acked'
  BY DEF Tick, vars
<1> QED BY <1>1, <1>2, <1>3, <1>4, <1>5, <1>6 DEF Next

\* A snapshot that was right stays right.
LEMMA ViewStays == ASSUME TypeInv, [Next]_vars, NEW s \in Snapshot, ViewOK(s) PROVE ViewOK(s)'
<1>1. SnapshotTimes(s)'
  <2>1. now \in Nat /\ now' \in Nat /\ now <= now'
    BY NowGrows
  <2>2. Began(s) \in Int /\ Began(s) <= now
    BY Numbers DEF Began, Snapshot, ViewOK, SnapshotTimes
  <2>3. \A b \in s.UncompactedEpochSets : b.ts \in Nat /\ b.ts <= now
    BY DEF Snapshot, IndexBlob, ViewOK, SnapshotTimes
  <2>4. Began(s) <= now'
    BY <2>1, <2>2
  <2>5. \A b \in s.UncompactedEpochSets : b.ts <= now'
    BY <2>1, <2>3
  <2> QED BY <2>4, <2>5 DEF SnapshotTimes, Began
<1>2. WholeSets(s)'
  BY DEF ViewOK, WholeSets, CompactedEpochs
<1>3. ChainOK(s)'
  BY NewParts DEF ViewOK, ChainOK
<1>4. SeenAcked(s)'
  BY AckedGrows DEF ViewOK, SeenAcked
<1> QED BY <1>1, <1>2, <1>3, <1>4 DEF ViewOK

\* The empty snapshot shows nothing.
LEMMA ZeroView == ASSUME now \in Nat PROVE ViewOK(ZeroSnapshot)
<1>1. /\ ZeroSnapshot.ValidUntil = -1 /\ ZeroSnapshot.UncompactedEpochSets = {}
      /\ ZeroSnapshot.SingleEpochCompactionSets = {} /\ ZeroSnapshot.LongestRangeCheckpointSets = << >>
      /\ ZeroSnapshot.seen = {}
  BY DEF ZeroSnapshot
<1>2. SnapshotTimes(ZeroSnapshot)
  BY <1>1, Numbers DEF SnapshotTimes, Began
<1>3. ChainOK(ZeroSnapshot)
  <2>1. 1..Len(ZeroSnapshot.LongestRangeCheckpointSets) = {}
    BY <1>1
  <2> QED BY <2>1 DEF ChainOK
<1>4. WholeSets(ZeroSnapshot) /\ SeenAcked(ZeroSnapshot)
  BY <1>1 DEF WholeSets, CompactedEpochs, SeenAcked
<1> QED BY <1>2, <1>3, <1>4 DEF ViewOK

\* loadSingleEpochCompactions takes whole sets.
LEMMA ListedWhole == ASSUME TypeInv, NEW p \in Procs, loadSingleEpochCompactions(p) PROVE WholeSets(attempt'[Mgr(p)])
<1> DEFINE m == Mgr(p)
           es == {e \in Epochs : CompleteSets(OfEpoch(singles, e)) # {}}
<1>m. m \in Managers /\ attempt \in [Managers -> Snapshot]
  BY ProcessAssumption DEF Mgr, TypeInv, TypeOK, ManagerOK
<1>1. PICK pick \in [es -> 0..MaxSets] :
        /\ \A e \in es : pick[e] \in CompleteSets(OfEpoch(singles, e))
        /\ attempt' = [attempt EXCEPT ![m].SingleEpochCompactionSets =
                         {b \in singles : b.epoch \in es /\ b.set = pick[b.epoch]}]
  BY DEF loadSingleEpochCompactions
<1>n. PICK s : s = attempt'[m]
  OBVIOUS
<1>2. s.SingleEpochCompactionSets = {b \in singles : b.epoch \in es /\ b.set = pick[b.epoch]}
  BY <1>1, <1>m, <1>n DEF Snapshot
<1>3. ASSUME NEW e \in CompactedEpochs(s), NEW h \in Shards
      PROVE  \E b \in s.SingleEpochCompactionSets : b.epoch = e /\ b.set = pick[e] /\ b.shard = h
  <2>1. e \in es
    BY <1>2 DEF CompactedEpochs
  <2>2. PICK b \in OfEpoch(singles, e) : b.set = pick[e] /\ b.shard = h
    BY <1>1, <2>1 DEF CompleteSets
  <2> QED BY <1>2, <2>1, <2>2 DEF OfEpoch
<1>4. WholeSets(s)
  BY <1>3 DEF WholeSets
<1> QED BY <1>4, <1>n

\* loadRangeCheckpoints takes a chain of checkpoints that are in storage.
LEMMA ListedChain ==
  ASSUME TypeInv, WideRanges, NEW p \in Procs, loadRangeCheckpoints(p) PROVE ChainOK(attempt'[Mgr(p)])
<1> DEFINE m == Mgr(p)
           lhs == {lh \in {<<b.min, b.max>> : b \in ranges} : CompleteSets(RangeBlobs(lh)) # {}}
           checkpoint(lh, pick) == [min |-> lh[1], max |-> lh[2],
                                    content |-> ContentOf({b \in RangeBlobs(lh) : b.set = pick[lh]})]
<1>m. m \in Managers /\ attempt \in [Managers -> Snapshot]
  BY ProcessAssumption DEF Mgr, TypeInv, TypeOK, ManagerOK
<1>1. PICK pick \in [lhs -> 0..MaxSets] :
        /\ \A lh \in lhs : pick[lh] \in CompleteSets(RangeBlobs(lh))
        /\ \E c \in findLongestRangeCheckpoint({checkpoint(lh, pick) : lh \in lhs}) :
             attempt' = [attempt EXCEPT ![m].LongestRangeCheckpointSets = c]
  BY Zenon DEF loadRangeCheckpoints
<1>2. PICK c \in findLongestRangeCheckpoint({checkpoint(lh, pick) : lh \in lhs}) :
        attempt' = [attempt EXCEPT ![m].LongestRangeCheckpointSets = c]
  BY <1>1
<1> HIDE DEF lhs
<1>n. PICK s : s = attempt'[m]
  OBVIOUS
<1>3. s.LongestRangeCheckpointSets = c
  BY <1>2, <1>m, <1>n DEF Snapshot
<1>4. PICK n \in 0..MaxEpoch + 1 : /\ c \in [1..n -> {checkpoint(lh, pick) : lh \in lhs}]
                                   /\ \A i \in 1..n : c[i].min = IF i = 1 THEN 0 ELSE c[i-1].max + 1
  BY <1>2 DEF findLongestRangeCheckpoint, RangeChains
<1>5. Len(c) = n
  <2>1. n \in Nat
    BY <1>4, RepositoryAssumption
  <2>2. c \in Seq({checkpoint(lh, pick) : lh \in lhs})
    BY <1>4, <2>1, SeqDef
  <2>3. DOMAIN c = 1..n
    BY <1>4
  <2> QED BY <2>1, <2>2, <2>3, LenProperties
<1>6. ASSUME NEW i \in 1..n
      PROVE  /\ c[i].min < c[i].max
             /\ \A h \in Shards : \E b \in ranges :
                  b.min = c[i].min /\ b.max = c[i].max /\ b.shard = h /\ b.content \subseteq c[i].content
  <2>1. PICK lh \in lhs : c[i] = checkpoint(lh, pick)
    BY <1>4
  <2>2. /\ c[i].min = lh[1] /\ c[i].max = lh[2]
        /\ c[i].content = ContentOf({b \in RangeBlobs(lh) : b.set = pick[lh]})
    BY <2>1
  <2>3. ASSUME NEW h \in Shards
        PROVE  \E b \in ranges : b.min = c[i].min /\ b.max = c[i].max /\ b.shard = h /\ b.content \subseteq c[i].content
    <3>1. PICK b \in RangeBlobs(lh) : b.set = pick[lh] /\ b.shard = h
      BY <1>1 DEF CompleteSets
    <3>2. b \in ranges /\ b.min = lh[1] /\ b.max = lh[2]
      BY DEF RangeBlobs
    <3>3. b.content \subseteq ContentOf({d \in RangeBlobs(lh) : d.set = pick[lh]})
      BY <3>1 DEF ContentOf
    <3> QED BY <2>2, <3>1, <3>2, <3>3
  <2>4. PICK h \in Shards : TRUE
    BY Numbers
  <2>5. c[i].min < c[i].max
    BY <2>3, <2>4 DEF WideRanges
  <2> QED BY <2>3, <2>5
<1>7. ChainOK(s)
  BY <1>3, <1>4, <1>5, <1>6 DEF ChainOK
<1> QED BY <1>7, <1>n

\* A refresh leaves all but these parts of the snapshot it fills.
LEMMA RefreshViews ==
  ASSUME TypeInv, BlobTimes, WideRanges, ViewsOK, NEW p \in Procs, Refresh(p), NEW m \in Managers, NEW s, s = attempt'[m]
  PROVE  ViewOK(s)
<1>t. /\ attempt \in [Managers -> Snapshot] /\ Mgr(p) \in Managers /\ now \in Nat
      /\ attempt[m] \in Snapshot /\ attempt[m] \in Snapshots
  BY ProcessAssumption DEF TypeInv, TypeOK, ManagerOK, StorageOK, Mgr, Snapshots
<1>o. PICK o : o = attempt[m]
  OBVIOUS
<1>0. ViewOK(o)
  BY <1>o, <1>t DEF ViewsOK
<1>v. SnapshotTimes(o) /\ WholeSets(o) /\ ChainOK(o) /\ SeenAcked(o)
  BY <1>0 DEF ViewOK
<1>1. CASE attempt'[m] = attempt[m]
  BY <1>0, <1>1, <1>o
<1>2. CASE loadWriteEpoch(p) /\ m = Mgr(p)
  <2>1. PICK w : attempt' = [attempt EXCEPT ![Mgr(p)].WriteEpoch = w, ![Mgr(p)].EpochMarkerBlobs = markers]
    BY <1>2 DEF loadWriteEpoch
  <2>2. /\ s.ValidUntil = o.ValidUntil /\ s.UncompactedEpochSets = o.UncompactedEpochSets /\ s.seen = o.seen
        /\ s.SingleEpochCompactionSets = o.SingleEpochCompactionSets
        /\ s.LongestRangeCheckpointSets = o.LongestRangeCheckpointSets
    BY <1>2, <2>1, <1>t, <1>o DEF Snapshot
  <2> QED BY <1>v, <2>2 DEF ViewOK, SnapshotTimes, Began, WholeSets, CompactedEpochs, ChainOK, SeenAcked
<1>3. CASE loadSingleEpochCompactions(p) /\ m = Mgr(p)
  <2>1. PICK v : attempt' = [attempt EXCEPT ![Mgr(p)].SingleEpochCompactionSets = v]
    BY <1>3 DEF loadSingleEpochCompactions
  <2>2. /\ s.ValidUntil = o.ValidUntil /\ s.UncompactedEpochSets = o.UncompactedEpochSets /\ s.seen = o.seen
        /\ s.LongestRangeCheckpointSets = o.LongestRangeCheckpointSets
    BY <1>3, <2>1, <1>t, <1>o DEF Snapshot
  <2>3. WholeSets(s)
    BY <1>3, ListedWhole
  <2> QED BY <1>v, <2>2, <2>3 DEF ViewOK, SnapshotTimes, Began, ChainOK, SeenAcked
<1>4. CASE loadRangeCheckpoints(p) /\ m = Mgr(p)
  <2>1. PICK v : attempt' = [attempt EXCEPT ![Mgr(p)].LongestRangeCheckpointSets = v]
    BY <1>4 DEF loadRangeCheckpoints
  <2>2. /\ s.ValidUntil = o.ValidUntil /\ s.UncompactedEpochSets = o.UncompactedEpochSets /\ s.seen = o.seen
        /\ s.SingleEpochCompactionSets = o.SingleEpochCompactionSets
    BY <1>4, <2>1, <1>t, <1>o DEF Snapshot
  <2>3. ChainOK(s)
    BY <1>4, ListedChain
  <2> QED BY <1>v, <2>2, <2>3 DEF ViewOK, SnapshotTimes, Began, WholeSets, CompactedEpochs, SeenAcked
<1>5. ASSUME NEW e, loadUncompactedEpoch(p, e), m = Mgr(p) PROVE ViewOK(s)
  <2>1. attempt' = [attempt EXCEPT ![m].UncompactedEpochSets = @ \cup OfEpoch(uncompacted, e)]
    BY <1>5 DEF loadUncompactedEpoch
  <2>2. /\ s.ValidUntil = o.ValidUntil /\ s.seen = o.seen
        /\ s.UncompactedEpochSets = o.UncompactedEpochSets \cup OfEpoch(uncompacted, e)
        /\ s.SingleEpochCompactionSets = o.SingleEpochCompactionSets
        /\ s.LongestRangeCheckpointSets = o.LongestRangeCheckpointSets
    BY <2>1, <1>t, <1>o DEF Snapshot
  <2>3. \A b \in OfEpoch(uncompacted, e) : b.ts <= now
    BY DEF OfEpoch, BlobTimes
  <2> QED BY <1>v, <2>2, <2>3 DEF ViewOK, SnapshotTimes, Began, WholeSets, CompactedEpochs, ChainOK, SeenAcked
<1>6. CASE BeginAttempt(Mgr(p)) /\ m = Mgr(p)
  <2>1. /\ s.ValidUntil = now + EpochRefreshFrequency /\ s.UncompactedEpochSets = {} /\ s.seen = acked
        /\ s.SingleEpochCompactionSets = {} /\ s.LongestRangeCheckpointSets = << >>
    BY <1>6, <1>t DEF BeginAttempt, ZeroSnapshot
  <2>2. SnapshotTimes(s)
    BY <2>1, <1>t, Numbers DEF SnapshotTimes, Began
  <2>3. ChainOK(s)
    <3>1. 1..Len(s.LongestRangeCheckpointSets) = {}
      BY <2>1
    <3> QED BY <3>1 DEF ChainOK
  <2> QED BY <2>1, <2>2, <2>3 DEF ViewOK, WholeSets, CompactedEpochs, SeenAcked
<1>7. CASE attempt' = [attempt EXCEPT ![Mgr(p)] = ZeroSnapshot] /\ m = Mgr(p)
  <2>1. s = ZeroSnapshot
    BY <1>7, <1>t
  <2> QED BY <2>1, <1>t, ZeroView
<1>8. CASE m = Mgr(p)
  <2>1. UseKnownState(p) => attempt'[m] = attempt[m]
    BY DEF UseKnownState, manager
  <2>2. StartRefresh(p) => BeginAttempt(Mgr(p))
    BY DEF StartRefresh
  <2>3. FinishRefresh(p) => BeginAttempt(Mgr(p)) \/ attempt' = [attempt EXCEPT ![Mgr(p)] = ZeroSnapshot]
    BY DEF FinishRefresh
  <2> QED BY <1>1, <1>2, <1>3, <1>4, <1>5, <1>6, <1>7, <1>8, <2>1, <2>2, <2>3 DEF Refresh
<1>9. CASE m # Mgr(p)
  <2>1. attempt' = attempt \/ \E x : attempt' = [attempt EXCEPT ![Mgr(p)] = x]
    BY DEF Refresh, UseKnownState, StartRefresh, BeginAttempt, loadWriteEpoch, loadSingleEpochCompactions,
       loadRangeCheckpoints, loadUncompactedEpoch, FinishRefresh, manager
  <2>2. attempt'[m] = attempt[m]
    BY <2>1, <1>9, <1>t
  <2> QED BY <1>1, <2>2
<1> QED BY <1>8, <1>9

\* committedState keeps and hands out snapshots that were assembled in this way.
LEMMA RefreshSources ==
  ASSUME TypeInv, NEW p \in Procs, Refresh(p)
  PROVE  \A s \in Snapshots' : s \in Snapshots \/ \E n \in Managers : s = attempt'[n]
<1>m. /\ Mgr(p) \in Managers /\ known \in [Managers -> Snapshot] /\ cs \in [Procs -> Snapshot]
  BY ProcessAssumption DEF Mgr, TypeInv, TypeOK, ManagerOK, ProcsOK
<1>1. /\ known' = known \/ known' = [known EXCEPT ![Mgr(p)] = attempt[Mgr(p)]]
      /\ cs' = cs \/ cs' = [cs EXCEPT ![p] = attempt[Mgr(p)]] \/ cs' = [cs EXCEPT ![p] = known[Mgr(p)]]
  BY DEF Refresh, UseKnownState, StartRefresh, loadWriteEpoch, loadSingleEpochCompactions,
     loadRangeCheckpoints, loadUncompactedEpoch, FinishRefresh, manager
<1>2. /\ \A n \in Managers : known'[n] = known[n] \/ known'[n] = attempt[Mgr(p)]
      /\ \A q \in Procs : cs'[q] = cs[q] \/ cs'[q] = attempt[Mgr(p)] \/ cs'[q] = known[Mgr(p)]
  BY <1>1, <1>m
<1> QED BY <1>2, <1>m DEF Snapshots

\* So every snapshot in memory is right.
LEMMA ViewsStep == ASSUME TypeInv, OldInv, ViewsOK, [Next]_vars PROVE ViewsOK'
<1> SUFFICES ASSUME NEW s \in Snapshots' PROVE ViewOK(s)'
  BY DEF ViewsOK
<1>s. s \in Snapshot
  <2>1. Snapshots' \subseteq Snapshot
    BY TypeStep, ZeroSnapshotType, RepositoryAssumption DEF Snapshots, TypeInv, TypeOK, ManagerOK, ProcsOK
  <2> QED BY <2>1
<1>1. CASE s \in Snapshots
  BY <1>1, <1>s, ViewStays DEF ViewsOK
<1>2. ASSUME NEW p \in Procs, Refresh(p), s \notin Snapshots PROVE ViewOK(s)'
  <2>1. PICK n \in Managers : s = attempt'[n]
    BY <1>2, RefreshSources
  <2>2. ViewOK(s)
    BY <1>2, <2>1, RefreshViews DEF OldInv
  <2> QED BY <1>s, <2>2, ViewStays
<1>3. CASE ~\E p \in Procs : Refresh(p)
  BY <1>1, <1>3, SnapshotSources
<1> QED BY <1>1, <1>2, <1>3
----------------------------------------------------------------------------
(* An old compaction is in every snapshot *)

\* Where a Manager's snapshot comes from: a refresh that ended in time and has listed the unsettled epochs.
Published(m) == /\ mu[m] # NoProc /\ loads[m] = {} /\ known'[m] = attempt[m] /\ now <= attempt[m].ValidUntil
                /\ UnsettledEpochs(attempt[m]) \subseteq listed[m]
\* No step but that of its own refresh or a crash touches a Manager's attempt.
AttemptKept(m) == attempt'[m] = attempt[m] /\ loads'[m] = loads[m] /\ listed'[m] = listed[m] /\ mu'[m] = mu[m]
AttemptDropped(m) == attempt'[m] = ZeroSnapshot /\ listed'[m] = {} /\ mu'[m] = NoProc
\* A refresh of another Manager does not touch it.
LEMMA OtherManagers ==
  ASSUME TypeInv, NEW p \in Procs, Refresh(p), NEW m \in Managers, m # Mgr(p) PROVE AttemptKept(m) /\ known'[m] = known[m]
<1>t. /\ known \in [Managers -> Snapshot] /\ attempt \in [Managers -> Snapshot] /\ Mgr(p) \in Managers
      /\ mu \in [Managers -> Procs \cup {NoProc}] /\ loads \in [Managers -> SUBSET {"writeEpoch", "single", "range"}]
      /\ listed \in [Managers -> SUBSET Int]
  BY ProcessAssumption DEF TypeInv, TypeOK, ManagerOK, Mgr
<1>1. /\ attempt' = attempt \/ \E x : attempt' = [attempt EXCEPT ![Mgr(p)] = x]
      /\ known' = known \/ \E x : known' = [known EXCEPT ![Mgr(p)] = x]
      /\ mu' = mu \/ \E x : mu' = [mu EXCEPT ![Mgr(p)] = x]
  BY DEF Refresh, UseKnownState, StartRefresh, BeginAttempt, loadWriteEpoch, loadSingleEpochCompactions,
     loadRangeCheckpoints, loadUncompactedEpoch, FinishRefresh, manager
<1>2. /\ loads' = loads \/ \E x : loads' = [loads EXCEPT ![Mgr(p)] = x]
      /\ listed' = listed \/ \E x : listed' = [listed EXCEPT ![Mgr(p)] = x]
  BY DEF Refresh, UseKnownState, StartRefresh, BeginAttempt, Loading, loadWriteEpoch, loadSingleEpochCompactions,
     loadRangeCheckpoints, loadUncompactedEpoch, FinishRefresh, manager
<1>3. attempt'[m] = attempt[m] /\ known'[m] = known[m] /\ mu'[m] = mu[m]
  BY <1>1, <1>t
<1>4. loads'[m] = loads[m] /\ listed'[m] = listed[m]
  BY <1>2, <1>t
<1> QED BY <1>3, <1>4 DEF AttemptKept

\* Where the attempts come from.
LEMMA AttemptSources ==
  ASSUME TypeInv, [Next]_vars, NEW m \in Managers, ~\E p \in Procs : Mgr(p) = m /\ Refresh(p)
  PROVE  /\ AttemptKept(m) \/ AttemptDropped(m)
         /\ known'[m] = known[m] \/ known'[m] = ZeroSnapshot
<1>t. known \in [Managers -> Snapshot] /\ attempt \in [Managers -> Snapshot] /\ m \in Managers
      /\ mu \in [Managers -> Procs \cup {NoProc}] /\ listed \in [Managers -> SUBSET Int]
      /\ loads \in [Managers -> SUBSET {"writeEpoch", "single", "range"}]
  BY DEF TypeInv, TypeOK, ManagerOK
<1>1. ASSUME NEW p \in Procs, Refresh(p) PROVE AttemptKept(m) /\ known'[m] = known[m]
  BY <1>1, OtherManagers
<1>2. ASSUME NEW w \in Writers, Write(w) PROVE AttemptKept(m) /\ (known'[m] = known[m] \/ known'[m] = ZeroSnapshot)
  BY <1>2, WriteFrame DEF AttemptKept
<1>3. ASSUME NEW r \in Readers, Read(r) PROVE AttemptKept(m) /\ known'[m] = known[m]
  BY <1>3, ReadFrame DEF AttemptKept, manager
<1>4. ASSUME NEW n \in Crashable, Crash(n)
      PROVE  (AttemptKept(m) /\ known'[m] = known[m]) \/ (AttemptDropped(m) /\ known'[m] = ZeroSnapshot)
  <2>1. /\ known' = [known EXCEPT ![n] = ZeroSnapshot] /\ attempt' = [attempt EXCEPT ![n] = ZeroSnapshot]
        /\ mu' = [mu EXCEPT ![n] = NoProc] /\ loads' = [loads EXCEPT ![n] = {}] /\ listed' = [listed EXCEPT ![n] = {}]
    BY <1>4 DEF Crash
  <2>2. CASE m = n
    BY <2>1, <2>2, <1>t DEF AttemptDropped
  <2>3. CASE m # n
    BY <2>1, <2>3, <1>t DEF AttemptKept
  <2> QED BY <2>2, <2>3
<1>5. Maintain => AttemptKept(m) /\ known'[m] = known[m]
  BY MaintainFrame DEF AttemptKept, manager
<1>6. Tick \/ UNCHANGED vars => AttemptKept(m) /\ known'[m] = known[m]
  BY DEF Tick, vars, AttemptKept, manager
<1> QED BY <1>1, <1>2, <1>3, <1>4, <1>5, <1>6 DEF Next

\* Where the cached snapshots come from.
LEMMA KnownSources ==
  ASSUME TypeInv, [Next]_vars, NEW m \in Managers
  PROVE  known'[m] = known[m] \/ known'[m] = ZeroSnapshot
         \/ (Published(m) /\ \E p \in Procs : Mgr(p) = m /\ FinishRefresh(p))
<1>1. ASSUME NEW p \in Procs, Refresh(p), Mgr(p) = m
      PROVE  known'[m] = known[m] \/ (Published(m) /\ FinishRefresh(p))
  <2>t. known \in [Managers -> Snapshot] /\ p # NoProc
    BY ProcessAssumption DEF TypeInv, TypeOK, ManagerOK
  <2>1. known' = known \/ FinishRefresh(p)
    BY <1>1 DEF Refresh, UseKnownState, StartRefresh, loadWriteEpoch, loadSingleEpochCompactions,
       loadRangeCheckpoints, loadUncompactedEpoch, manager
  <2>2. CASE FinishRefresh(p) /\ known' # known
    <3>1. /\ mu[m] = p /\ loads[m] = {} /\ UnsettledEpochs(attempt[m]) \subseteq listed[m] /\ now <= attempt[m].ValidUntil
          /\ known' = [known EXCEPT ![m] = attempt[m]]
      BY <1>1, <2>2 DEF FinishRefresh
    <3>2. known'[m] = attempt[m]
      BY <3>1, <2>t
    <3> QED BY <2>2, <2>t, <3>1, <3>2 DEF Published
  <2> QED BY <2>1, <2>2
<1>2. CASE ~\E p \in Procs : Mgr(p) = m /\ Refresh(p)
  BY <1>2, AttemptSources
<1> QED BY <1>1, <1>2

\* Where a call gets its snapshot from.
LEMMA StateSources ==
  ASSUME TypeInv, [Next]_vars, NEW q \in Procs PROVE cs'[q] = cs[q] \/ cs'[q] = ZeroSnapshot \/ cs'[q] = known'[Mgr(q)]
<1>t. cs \in [Procs -> Snapshot] /\ known \in [Managers -> Snapshot]
  BY DEF TypeInv, TypeOK, ProcsOK, ManagerOK
<1>1. ASSUME NEW p \in Procs, Refresh(p) PROVE cs'[q] = cs[q] \/ cs'[q] = known'[Mgr(q)]
  <2>m. Mgr(p) \in Managers
    BY ProcessAssumption DEF Mgr
  <2>1. \/ cs' = cs
        \/ cs' = [cs EXCEPT ![p] = known[Mgr(p)]] /\ known' = known
        \/ cs' = [cs EXCEPT ![p] = attempt[Mgr(p)]] /\ known' = [known EXCEPT ![Mgr(p)] = attempt[Mgr(p)]]
    BY <1>1 DEF Refresh, UseKnownState, StartRefresh, loadWriteEpoch, loadSingleEpochCompactions,
       loadRangeCheckpoints, loadUncompactedEpoch, FinishRefresh, manager
  <2>2. CASE cs' = [cs EXCEPT ![p] = known[Mgr(p)]] /\ known' = known
    BY <2>2, <1>t
  <2>3. CASE cs' = [cs EXCEPT ![p] = attempt[Mgr(p)]] /\ known' = [known EXCEPT ![Mgr(p)] = attempt[Mgr(p)]]
    <3>1. known'[Mgr(p)] = attempt[Mgr(p)]
      BY <2>3, <2>m, <1>t
    <3>2. cs'[q] = cs[q] \/ (q = p /\ cs'[q] = attempt[Mgr(p)])
      BY <2>3, <1>t
    <3> QED BY <3>1, <3>2
  <2> QED BY <2>1, <2>2, <2>3
<1>2. ASSUME NEW w \in Writers, Write(w) PROVE cs'[q] = cs[q] \/ cs'[q] = ZeroSnapshot
  BY <1>2, WriteFrame
<1>3. ASSUME NEW r \in Readers, Read(r) PROVE cs'[q] = cs[q] \/ cs'[q] = ZeroSnapshot
  BY <1>3, ReadFrame
<1>4. ASSUME NEW m \in Crashable, Crash(m) PROVE cs'[q] = cs[q] \/ cs'[q] = ZeroSnapshot
  BY <1>4, CrashFrame
<1>5. CASE Maintain
  <2>1. /\ known' = known
        /\ cs'[q] = cs[q] \/ cs'[q] = ZeroSnapshot \/ (q = M /\ cs'[q] = known[Mgr(M)])
    BY <1>5, MaintainFrame DEF manager
  <2> QED BY <2>1
<1>6. Tick \/ UNCHANGED vars => cs'[q] = cs[q]
  BY DEF Tick, vars
<1> QED BY <1>1, <1>2, <1>3, <1>4, <1>5, <1>6 DEF Next

\* What a snapshot shows of the old compactions does not change: none becomes older than it is.
LEMMA ShowsStays ==
  ASSUME TypeInv, [Next]_vars, NEW s \in Snapshot, Began(s) <= now
  PROVE  (ShowsOld(s) => ShowsOld(s)') /\ (SettlesOld(s) => SettlesOld(s)')
<1>1. PICK t : t = Began(s)
  OBVIOUS
<1>2. t \in Int /\ t <= now
  BY <1>1, Numbers DEF Began, Snapshot
<1>3. \A e : Old(e, t)' => Old(e, t)
  BY <1>2, OldBack
<1>4. ASSUME NEW e, Old(e, Began(s))' PROVE Old(e, Began(s))
  <2>1. t = s.ValidUntil - EpochRefreshFrequency
    BY <1>1 DEF Began
  <2>2. PICK n : \A h \in Shards : \E b \in singles' :
          b.epoch = e /\ b.set = n /\ b.shard = h /\ b.ts < s.ValidUntil - EpochRefreshFrequency
    BY <1>4, Zenon DEF Old, Began
  <2>3. \A h \in Shards : \E b \in singles' : b.epoch = e /\ b.set = n /\ b.shard = h /\ b.ts < t
    BY <2>1, <2>2
  <2>4. Old(e, t)'
    BY <2>3 DEF Old
  <2> QED BY <2>4, <1>1, <1>3
<1>5. ShowsOld(s) => ShowsOld(s)'
  BY <1>4 DEF ShowsOld, CompactedEpochs
<1>6. SettlesOld(s) => SettlesOld(s)'
  BY <1>4 DEF SettlesOld
<1> QED BY <1>5, <1>6

\* Nothing was there before time 0.
LEMMA ZeroShows == ASSUME TypeInv PROVE ShowsOld(ZeroSnapshot) /\ SettlesOld(ZeroSnapshot)
<1>1. Began(ZeroSnapshot) \in Int /\ ~(Began(ZeroSnapshot) > 0)
  BY Numbers DEF Began, ZeroSnapshot
<1>2. \A e : ~Old(e, Began(ZeroSnapshot))
  BY <1>1, OldComplete
<1> QED BY <1>2 DEF ShowsOld, SettlesOld

\* A refresh lists the compactions and the markers after it has begun.
LEMMA RefreshShows ==
  ASSUME TypeInv, StorageInv, OldShown, NEW p \in Procs, Refresh(p), NEW m \in Managers, NEW s, s = attempt'[m]
  PROVE  ("single" \notin loads'[m] => ShowsOld(s)) /\ ("writeEpoch" \notin loads'[m] => SettlesOld(s))
<1>t. /\ attempt \in [Managers -> Snapshot] /\ Mgr(p) \in Managers /\ attempt[m] \in Snapshot
      /\ loads \in [Managers -> SUBSET {"writeEpoch", "single", "range"}]
  BY ProcessAssumption DEF TypeInv, TypeOK, ManagerOK, Mgr
<1>o. PICK o : o = attempt[m]
  OBVIOUS
<1>b. o.ValidUntil \in Int /\ Began(o) \in Int
  BY <1>o, <1>t, Numbers DEF Began, Snapshot
<1>0. ("single" \notin loads[m] => ShowsOld(o)) /\ ("writeEpoch" \notin loads[m] => SettlesOld(o))
  BY <1>o DEF OldShown
<1>1. CASE attempt'[m] = attempt[m] /\ loads'[m] = loads[m]
  BY <1>0, <1>1, <1>o
<1>2. CASE loadWriteEpoch(p) /\ m = Mgr(p)
  <2>1. PICK w \in markers \cup {0} : /\ \A n \in markers : n <= w
          /\ attempt' = [attempt EXCEPT ![m].WriteEpoch = w, ![m].EpochMarkerBlobs = markers]
    BY <1>2 DEF loadWriteEpoch
  <2>2. loads' = [loads EXCEPT ![m] = @ \ {"writeEpoch"}]
    BY <1>2 DEF loadWriteEpoch, Loading
  <2>3. /\ s.ValidUntil = o.ValidUntil /\ s.SingleEpochCompactionSets = o.SingleEpochCompactionSets /\ s.WriteEpoch = w
    BY <2>1, <1>t, <1>o DEF Snapshot
  <2>4. "single" \notin loads'[m] => "single" \notin loads[m]
    BY <2>2, <1>t
  <2>5. "single" \notin loads'[m] => ShowsOld(s)
    BY <1>0, <2>3, <2>4 DEF ShowsOld, Began, CompactedEpochs
  <2>6. ASSUME NEW e \in Epochs, Old(e, Began(s)) PROVE e <= w - 2
    <3>1. Began(s) \in Int
      BY <2>3, <1>b DEF Began
    <3>2. PICK b \in singles : b.epoch = e
      BY <2>6, <3>1, OldComplete
    <3>3. Reached(e + 2)
      BY <3>2 DEF StorageInv, CompactionsSettled
    <3>4. e \in Nat /\ markers \subseteq Nat
      BY Numbers DEF TypeInv, TypeOK, StorageOK
    <3>5. PICK k \in markers : k >= e + 2
      BY <3>3, <3>4 DEF Reached
    <3>6. k <= w /\ k \in Nat /\ w \in Nat
      BY <2>1, <3>4
    <3> QED BY <3>4, <3>5, <3>6
  <2>7. SettlesOld(s)
    BY <2>3, <2>6 DEF SettlesOld
  <2> QED BY <2>5, <2>7
<1>3. CASE loadSingleEpochCompactions(p) /\ m = Mgr(p)
  <2>1. s.WriteEpoch = o.WriteEpoch /\ s.ValidUntil = o.ValidUntil /\ CompactedEpochs(s) = CompleteEpochs
    BY <1>3, <1>o, SinglesListed
  <2>2. loads' = [loads EXCEPT ![m] = @ \ {"single"}]
    BY <1>3 DEF loadSingleEpochCompactions, Loading
  <2>3. "writeEpoch" \notin loads'[m] => "writeEpoch" \notin loads[m]
    BY <2>2, <1>t
  <2>4. "writeEpoch" \notin loads'[m] => SettlesOld(s)
    BY <1>0, <2>1, <2>3 DEF SettlesOld, Began
  <2>5. ShowsOld(s)
    <3>1. Began(s) \in Int
      BY <2>1, <1>b DEF Began
    <3> QED BY <2>1, <3>1, OldComplete DEF ShowsOld
  <2> QED BY <2>4, <2>5
<1>4. ASSUME s.ValidUntil = o.ValidUntil, s.SingleEpochCompactionSets = o.SingleEpochCompactionSets,
             s.WriteEpoch = o.WriteEpoch, loads'[m] = loads[m] \/ loads'[m] = loads[m] \ {"range"}
      PROVE  ("single" \notin loads'[m] => ShowsOld(s)) /\ ("writeEpoch" \notin loads'[m] => SettlesOld(s))
  BY <1>0, <1>4 DEF ShowsOld, SettlesOld, Began, CompactedEpochs
<1>5. CASE loadRangeCheckpoints(p) /\ m = Mgr(p)
  <2>1. PICK v : attempt' = [attempt EXCEPT ![Mgr(p)].LongestRangeCheckpointSets = v]
    BY <1>5 DEF loadRangeCheckpoints
  <2>2. loads' = [loads EXCEPT ![m] = @ \ {"range"}]
    BY <1>5 DEF loadRangeCheckpoints, Loading
  <2>3. s.ValidUntil = o.ValidUntil /\ s.SingleEpochCompactionSets = o.SingleEpochCompactionSets /\ s.WriteEpoch = o.WriteEpoch
    BY <1>5, <2>1, <1>t, <1>o DEF Snapshot
  <2>4. loads'[m] = loads[m] \ {"range"}
    BY <2>2, <1>t
  <2> QED BY <1>4, <2>3, <2>4
<1>6. ASSUME NEW e, loadUncompactedEpoch(p, e), m = Mgr(p)
      PROVE  ("single" \notin loads'[m] => ShowsOld(s)) /\ ("writeEpoch" \notin loads'[m] => SettlesOld(s))
  <2>1. PICK v : attempt' = [attempt EXCEPT ![m].UncompactedEpochSets = v]
    BY <1>6 DEF loadUncompactedEpoch
  <2>2. s.ValidUntil = o.ValidUntil /\ s.SingleEpochCompactionSets = o.SingleEpochCompactionSets /\ s.WriteEpoch = o.WriteEpoch
    BY <2>1, <1>t, <1>o DEF Snapshot
  <2>3. loads' = loads
    BY <1>6 DEF loadUncompactedEpoch
  <2> QED BY <1>4, <2>2, <2>3
<1>7. CASE BeginAttempt(Mgr(p)) /\ m = Mgr(p)
  <2>1. loads'[m] = {"writeEpoch", "single", "range"}
    BY <1>7, BeginOK
  <2> QED BY <2>1
<1>8. CASE attempt' = [attempt EXCEPT ![Mgr(p)] = ZeroSnapshot] /\ m = Mgr(p)
  <2>1. s = ZeroSnapshot
    BY <1>8, <1>t
  <2> QED BY <2>1, ZeroShows
<1>9. CASE m = Mgr(p)
  <2>1. UseKnownState(p) => attempt'[m] = attempt[m] /\ loads'[m] = loads[m]
    BY DEF UseKnownState, manager
  <2>2. StartRefresh(p) => BeginAttempt(Mgr(p))
    BY DEF StartRefresh
  <2>3. FinishRefresh(p) => BeginAttempt(Mgr(p)) \/ attempt' = [attempt EXCEPT ![Mgr(p)] = ZeroSnapshot]
    BY DEF FinishRefresh
  <2> QED BY <1>1, <1>2, <1>3, <1>5, <1>6, <1>7, <1>8, <1>9, <2>1, <2>2, <2>3 DEF Refresh
<1>10. CASE m # Mgr(p)
  BY <1>1, <1>10, OtherManagers DEF AttemptKept
<1> QED BY <1>9, <1>10

\* Hence a compaction that was whole before a refresh began is in every snapshot it gives.
LEMMA OldShownStep == ASSUME TypeInv, StorageInv, OldInv, ViewsOK, OldShown, [Next]_vars PROVE OldShown'
<1>v. TypeInv' /\ ViewsOK'
  BY TypeStep, ViewsStep
<1>s. ASSUME NEW s \in Snapshots PROVE (ShowsOld(s) => ShowsOld(s)') /\ (SettlesOld(s) => SettlesOld(s)')
  <2>1. s \in Snapshot /\ Began(s) <= now
    BY SnapshotTypes DEF ViewsOK, ViewOK, SnapshotTimes
  <2> QED BY <2>1, ShowsStays
<1>z. ShowsOld(ZeroSnapshot)' /\ SettlesOld(ZeroSnapshot)'
  BY <1>s, ZeroShows DEF Snapshots
<1>1. ASSUME NEW m \in Managers PROVE (ShowsOld(known[m]) /\ SettlesOld(known[m]))'
  <2>n. PICK s : s = known'[m]
    OBVIOUS
  <2> SUFFICES ShowsOld(s)' /\ SettlesOld(s)'
    BY <2>n DEF ShowsOld, SettlesOld, Old, Began, CompactedEpochs
  <2>1. CASE s = known[m]
    BY <2>1, <1>s DEF Snapshots, OldShown
  <2>2. CASE s = ZeroSnapshot
    BY <2>2, <1>z
  <2>3. CASE Published(m)
    <3>1. s = attempt[m] /\ loads[m] = {}
      BY <2>3, <2>n DEF Published
    <3>2. ShowsOld(s) /\ SettlesOld(s) /\ s \in Snapshots
      BY <3>1 DEF OldShown, Snapshots
    <3> QED BY <3>2, <1>s
  <2> QED BY <2>n, <2>1, <2>2, <2>3, KnownSources
<1>2. ASSUME NEW q \in Procs PROVE (ShowsOld(cs[q]) /\ SettlesOld(cs[q]))'
  <2>n. PICK s : s = cs'[q]
    OBVIOUS
  <2> SUFFICES ShowsOld(s)' /\ SettlesOld(s)'
    BY <2>n DEF ShowsOld, SettlesOld, Old, Began, CompactedEpochs
  <2>1. CASE s = cs[q]
    BY <2>1, <1>s DEF Snapshots, OldShown
  <2>2. CASE s = ZeroSnapshot
    BY <2>2, <1>z
  <2>3. CASE s = known'[Mgr(q)]
    <3>1. PICK m \in Managers : m = Mgr(q)
      BY ProcessAssumption DEF Mgr
    <3> QED BY <1>1, <2>3, <3>1 DEF ShowsOld, SettlesOld, Old, Began, CompactedEpochs
  <2> QED BY <2>n, <2>1, <2>2, <2>3, StateSources
<1>3. ASSUME NEW m \in Managers
      PROVE  (("single" \notin loads[m] => ShowsOld(attempt[m])) /\ ("writeEpoch" \notin loads[m] => SettlesOld(attempt[m])))'
  <2>n. PICK s : s = attempt'[m]
    OBVIOUS
  <2> SUFFICES ("single" \notin loads'[m] => ShowsOld(s)') /\ ("writeEpoch" \notin loads'[m] => SettlesOld(s)')
    BY <2>n DEF ShowsOld, SettlesOld, Old, Began, CompactedEpochs
  <2>1. ASSUME NEW p \in Procs, Refresh(p)
        PROVE  ("single" \notin loads'[m] => ShowsOld(s)') /\ ("writeEpoch" \notin loads'[m] => SettlesOld(s)')
    <3>1. ("single" \notin loads'[m] => ShowsOld(s)) /\ ("writeEpoch" \notin loads'[m] => SettlesOld(s))
      BY <2>1, <2>n, RefreshShows
    <3>2. ViewOK(s)
      BY <2>1, <2>n, RefreshViews DEF OldInv
    <3>3. s \in Snapshot
      BY <1>v, <2>n DEF TypeInv, TypeOK, ManagerOK
    <3>4. (ShowsOld(s) => ShowsOld(s)') /\ (SettlesOld(s) => SettlesOld(s)')
      BY <3>2, <3>3, ShowsStays DEF ViewOK, SnapshotTimes
    <3> QED BY <3>1, <3>4
  <2>2. CASE ~\E p \in Procs : Mgr(p) = m /\ Refresh(p)
    <3>1. AttemptKept(m) \/ AttemptDropped(m)
      BY <2>2, AttemptSources
    <3>2. CASE AttemptKept(m)
      <4>1. s = attempt[m] /\ s \in Snapshots /\ loads'[m] = loads[m]
        BY <3>2, <2>n DEF AttemptKept, Snapshots
      <4>2. ("single" \notin loads[m] => ShowsOld(s)) /\ ("writeEpoch" \notin loads[m] => SettlesOld(s))
        BY <4>1 DEF OldShown
      <4> QED BY <4>1, <4>2, <1>s
    <3>3. CASE AttemptDropped(m)
      BY <3>3, <2>n, <1>z DEF AttemptDropped
    <3> QED BY <3>1, <3>2, <3>3
  <2> QED BY <2>1, <2>2
<1> QED BY <1>1, <1>2, <1>3 DEF OldShown
----------------------------------------------------------------------------
(* A snapshot lists the writes of the unsettled epochs *)

\* A write of this client becomes due when WriteIndex invalidates the cached snapshot, at no other time.
LEMMA OwnBack ==
  ASSUME TypeInv, [Next]_vars, NEW m, NEW x, NEW e, Own(m, x, e)' PROVE Own(m, x, e) \/ InvalidateAfterWrite(x)
<1>x. /\ x \in Writers /\ Mgr(x) = m /\ e = writtenFor'[x] /\ pc'[x] \in {"writeRecheck", "writeVerify", "acked"}
  BY DEF Own, Mgr
<1>t. x \in Procs /\ pc \in [Procs -> Places] /\ op \in AllOps \cup {"idle"}
  BY <1>x DEF Procs, TypeInv, TypeOK, ProcsOK, MaintenanceOK
<1>1. CASE Write(x)
  <2>1. \/ InvalidateAfterWrite(x)
        \/ pc' = pc /\ pc[x] \in {"writeEpoch", "writeUndo"}
        \/ VerifyWriteEpoch(x)
        \/ \E l \in {"writeState", "writeShard", "writePut", "failed"} : pc' = [pc EXCEPT ![x] = l]
    BY <1>1 DEF Write, WriteIndex, ChooseWriteEpoch, CheckShardTime, DropPartialShard, PutShard, UndoShard,
       WriteIndexError, Goto, Leave
  <2>2. InvalidateAfterWrite(x) \/ VerifyWriteEpoch(x)
    BY <2>1, <1>x, <1>t
  <2>3. VerifyWriteEpoch(x) => pc[x] = "writeVerify" /\ writtenFor' = writtenFor
    BY DEF VerifyWriteEpoch, writing
  <2> QED BY <1>x, <2>2, <2>3 DEF Own
<1>2. CASE ~Write(x)
  <2>1. /\ writtenFor'[x] = writtenFor[x]
        /\ pc'[x] = pc[x] \/ (pc[x] \in WaitsForState /\ pc'[x] = Continue(x)) \/ pc'[x] = "failed"
    BY <1>2, <1>x, WriterPlaces
  <2>2. CASE pc[x] \in WaitsForState /\ pc'[x] = Continue(x)
    <3>1. pc[x] = "writeRecheck"
      BY <2>2, <1>x, <1>t DEF WaitsForState, Continue, AllOps
    <3> QED BY <3>1, <2>1, <1>x DEF Own
  <2> QED BY <2>1, <2>2, <1>x DEF Own
<1> QED BY <1>1, <1>2

\* No refresh is under way then, and afterwards there is no cached snapshot.
LEMMA Invalidated ==
  ASSUME TypeInv, NEW x \in Writers, InvalidateAfterWrite(x)
  PROVE  mu[Mgr(x)] = NoProc /\ mu' = mu /\ ~Loaded(known'[Mgr(x)])
<1>1. known \in [Managers -> Snapshot] /\ Mgr(x) \in Managers
  BY ProcessAssumption DEF Procs, TypeInv, TypeOK, ManagerOK, Mgr
<1>2. known'[Mgr(x)] = ZeroSnapshot
  BY <1>1 DEF InvalidateAfterWrite
<1> QED BY <1>2, ZeroNotLoaded DEF InvalidateAfterWrite

\* What is due in a snapshot has been due there before, while a refresh is under way or a cached snapshot is kept.
LEMMA DueBack ==
  ASSUME TypeInv, [Next]_vars, NEW m, NEW s, NEW x, NEW e, Due(m, s, x, e)', mu[m] # NoProc \/ Loaded(known'[m])
  PROVE  Due(m, s, x, e)
<1>1. CASE Seen(s, x, e)'
  BY <1>1 DEF Seen, Due
<1>2. CASE Own(m, x, e)'
  <2>1. x \in Writers /\ Mgr(x) = m
    BY <1>2 DEF Own, Mgr
  <2> QED BY <1>2, <2>1, OwnBack, Invalidated DEF Due
<1> QED BY <1>1, <1>2 DEF Due

\* A refresh lists the epochs after the other loads, and publishes or forgets what it has listed.
LEMMA ListingSteps ==
  ASSUME TypeInv, ListingsOK, NEW p \in Procs, Refresh(p), NEW m \in Managers, m = Mgr(p)
  PROVE  \/ listed'[m] = {}
         \/ AttemptKept(m)
         \/ \E e \in 0..MaxEpoch + 1 : loadUncompactedEpoch(p, e)
<1>t. listed \in [Managers -> SUBSET Int]
  BY DEF TypeInv, TypeOK, ManagerOK
<1>1. UseKnownState(p) => AttemptKept(m)
  BY DEF UseKnownState, manager, AttemptKept
<1>2. StartRefresh(p) => listed'[m] = {}
  BY <1>t DEF StartRefresh, BeginAttempt
<1>3. loadWriteEpoch(p) \/ loadSingleEpochCompactions(p) \/ loadRangeCheckpoints(p) => listed' = listed /\ loads[m] # {}
  BY DEF loadWriteEpoch, loadSingleEpochCompactions, loadRangeCheckpoints, Loading
<1>4. FinishRefresh(p) => listed'[m] = {}
  BY <1>t DEF FinishRefresh, BeginAttempt
<1>5. loads[m] # {} => listed[m] = {}
  BY DEF ListingsOK
<1> QED BY <1>1, <1>2, <1>3, <1>4, <1>5 DEF Refresh

\* The listing of an epoch finds the writes that are due: their blobs are there, unless the epoch has a
\* compaction so old that it is settled in the snapshot, or the snapshot has expired.
LEMMA ListingLists ==
  ASSUME TypeInv, StorageInv, WriterInv, OldInv, NEW m \in Managers, NEW s \in Snapshot, SeenAcked(s), SettlesOld(s),
         NEW x, NEW e \in UnsettledEpochs(s), Due(m, s, x, e), now <= s.ValidUntil, NEW h \in Shards
  PROVE  \E b \in OfEpoch(uncompacted, e) : b.epoch = e /\ b.set = x /\ b.shard = h /\ <<x, h>> \in b.content
<1>1. Lasts(x, e, h)
  <2>1. CASE Seen(s, x, e)
    <3>1. PICK a \in acked : a.write = x /\ a.epoch = e
      BY <2>1 DEF Seen, SeenAcked
    <3> QED BY <3>1, AckedLasts
  <2>2. CASE Own(m, x, e)
    BY <2>2, OwnLasts
  <2> QED BY <2>1, <2>2 DEF Due
<1>2. ~Old(e, now - CleanupSafetyMargin)
  <2>1. SUFFICES ASSUME Old(e, now - CleanupSafetyMargin) PROVE FALSE
    OBVIOUS
  <2>2. Old(e, Began(s))
    BY <2>1, OldBegan
  <2>3. Began(s) \in Int /\ s.WriteEpoch \in Int
    BY Numbers, RepositoryAssumption DEF Began, Snapshot, Epochs
  <2>4. e \in Epochs
    BY <2>2, <2>3, OldComplete DEF CompleteEpochs
  <2>5. e <= s.WriteEpoch - 2
    BY <2>2, <2>4 DEF SettlesOld
  <2>6. e >= s.WriteEpoch - 1 /\ e \in Int
    BY <2>3 DEF UnsettledEpochs
  <2> QED BY <2>3, <2>5, <2>6
<1>3. PICK b \in uncompacted : b.epoch = e /\ b.set = x /\ b.shard = h
  BY <1>1, <1>2 DEF Lasts, Stored
<1>4. <<x, h>> \in b.content
  BY <1>3 DEF StorageInv, BlobsNamed
<1> QED BY <1>3, <1>4 DEF OfEpoch

\* The first part: listing comes last.
LEMMA ListedStep ==
  ASSUME TypeInv, ListingsOK, [Next]_vars, NEW m \in Managers, listed'[m] # {} PROVE mu'[m] # NoProc /\ loads'[m] = {}
<1>0. listed[m] # {} => mu[m] # NoProc /\ loads[m] = {}
  BY DEF ListingsOK
<1>k. AttemptKept(m) => mu'[m] # NoProc /\ loads'[m] = {}
  BY <1>0 DEF AttemptKept
<1>1. ASSUME NEW p \in Procs, Refresh(p), m = Mgr(p) PROVE mu'[m] # NoProc /\ loads'[m] = {}
  <2>1. ASSUME NEW e, loadUncompactedEpoch(p, e) PROVE mu'[m] # NoProc /\ loads'[m] = {}
    BY <1>1, <2>1, ProcessAssumption DEF loadUncompactedEpoch
  <2> QED BY <1>1, <1>k, <2>1, ListingSteps
<1>2. CASE ~\E p \in Procs : Mgr(p) = m /\ Refresh(p)
  BY <1>2, <1>k, AttemptSources DEF AttemptDropped
<1> QED BY <1>1, <1>2

\* The second: what a refresh has listed so far.
LEMMA AttemptStep ==
  ASSUME TypeInv, StorageInv, WriterInv, OldInv, ViewsOK, OldShown, ListingsOK, [Next]_vars,
         NEW m \in Managers, NEW s, s = attempt'[m], NEW x \in Writes, NEW e \in listed'[m],
         Due(m, s, x, e)', e \in UnsettledEpochs(s)
  PROVE  Lists(s, x, e) \/ now' > s.ValidUntil
<1>t. /\ attempt \in [Managers -> Snapshot] /\ listed \in [Managers -> SUBSET Int] /\ now \in Nat
      /\ attempt[m] \in Snapshot
  BY DEF TypeInv, TypeOK, ManagerOK, StorageOK
<1>n. now <= now' /\ now' \in Nat
  BY NowGrows
<1>o. PICK o : o = attempt[m]
  OBVIOUS
<1>v. o \in Snapshot /\ o.ValidUntil \in Int /\ SeenAcked(o)
  BY <1>o, <1>t DEF ViewsOK, ViewOK, Snapshots, Snapshot
<1>0. e \in listed[m] /\ Due(m, o, x, e) /\ e \in UnsettledEpochs(o) => Lists(o, x, e) \/ now > o.ValidUntil
  BY <1>o DEF ListingsOK
<1>m. listed[m] # {} => mu[m] # NoProc
  BY DEF ListingsOK
<1>k. CASE AttemptKept(m)
  <2>1. s = o /\ e \in listed[m]
    BY <1>k, <1>o DEF AttemptKept
  <2>2. Due(m, o, x, e)
    BY <2>1, <1>m, DueBack
  <2>3. Lists(o, x, e) \/ now > o.ValidUntil
    BY <1>0, <2>1, <2>2
  <2> QED BY <2>1, <2>3, <1>n, <1>t, <1>v
<1>1. ASSUME NEW p \in Procs, m = Mgr(p), NEW k, loadUncompactedEpoch(p, k) PROVE Lists(s, x, e) \/ now' > s.ValidUntil
  <2>1. /\ mu[m] = p /\ loads[m] = {} /\ listed' = [listed EXCEPT ![m] = @ \cup {k}] /\ now' = now
        /\ attempt' = [attempt EXCEPT ![m].UncompactedEpochSets = @ \cup OfEpoch(uncompacted, k)]
    BY <1>1 DEF loadUncompactedEpoch
  <2>2. /\ s.WriteEpoch = o.WriteEpoch /\ s.ValidUntil = o.ValidUntil /\ s.seen = o.seen
        /\ s.UncompactedEpochSets = o.UncompactedEpochSets \cup OfEpoch(uncompacted, k)
    BY <2>1, <1>t, <1>o DEF Snapshot
  <2>3. e \in listed[m] \/ e = k
    BY <2>1, <1>t
  <2>4. Due(m, s, x, e)
    BY <2>1, ProcessAssumption, DueBack
  <2>5. Due(m, o, x, e) /\ e \in UnsettledEpochs(o)
    BY <2>2, <2>4 DEF Due, Seen, UnsettledEpochs
  <2>6. CASE e \in listed[m]
    <3>1. Lists(o, x, e) \/ now > o.ValidUntil
      BY <1>0, <2>5, <2>6
    <3>2. Lists(o, x, e) => Lists(s, x, e)
      BY <2>2 DEF Lists
    <3> QED BY <3>1, <3>2, <2>1, <2>2
  <2>7. CASE e = k /\ now <= o.ValidUntil
    <3>1. SettlesOld(o)
      BY <2>1, <1>o DEF OldShown
    <3>2. \A h \in Shards : \E b \in OfEpoch(uncompacted, e) : b.epoch = e /\ b.set = x /\ b.shard = h /\ <<x, h>> \in b.content
      BY <1>v, <2>5, <2>7, <3>1, ListingLists
    <3>3. OfEpoch(uncompacted, e) \subseteq s.UncompactedEpochSets
      BY <2>2, <2>7
    <3> QED BY <3>2, <3>3 DEF Lists
  <2>8. now <= o.ValidUntil \/ now > o.ValidUntil
    BY <1>t, <1>v
  <2> QED BY <2>1, <2>2, <2>3, <2>6, <2>7, <2>8
<1>2. ASSUME NEW p \in Procs, Refresh(p), m = Mgr(p) PROVE Lists(s, x, e) \/ now' > s.ValidUntil
  BY <1>2, <1>1, <1>k, ListingSteps
<1>3. CASE ~\E p \in Procs : Mgr(p) = m /\ Refresh(p)
  BY <1>3, <1>k, AttemptSources DEF AttemptDropped
<1> QED BY <1>2, <1>3

\* The third: what a cached snapshot lists.
LEMMA KnownStep ==
  ASSUME TypeInv, ListingsOK, [Next]_vars, NEW m \in Managers, NEW s, s = known'[m], Loaded(s),
         NEW x \in Writes, NEW e \in UnsettledEpochs(s), Due(m, s, x, e)'
  PROVE  Lists(s, x, e)
<1>1. Due(m, s, x, e)
  BY DueBack
<1>2. CASE s = known[m]
  BY <1>1, <1>2 DEF ListingsOK
<1>3. CASE Published(m)
  <2>1. s = attempt[m] /\ e \in listed[m] /\ now <= attempt[m].ValidUntil
    BY <1>3 DEF Published
  <2>2. Lists(s, x, e) \/ now > attempt[m].ValidUntil
    BY <1>1, <2>1 DEF ListingsOK
  <2>3. now \in Nat /\ attempt[m].ValidUntil \in Int
    BY DEF TypeInv, TypeOK, StorageOK, ManagerOK, Snapshot
  <2> QED BY <2>1, <2>2, <2>3
<1>4. s # ZeroSnapshot
  BY ZeroNotLoaded
<1> QED BY <1>2, <1>3, <1>4, KnownSources

\* All together:
LEMMA ListingsStep ==
  ASSUME TypeInv, StorageInv, WriterInv, OldInv, ViewsOK, OldShown, ListingsOK, [Next]_vars PROVE ListingsOK'
<1>1. \A m \in Managers : listed'[m] # {} => mu'[m] # NoProc /\ loads'[m] = {}
  BY ListedStep
<1>2. ASSUME NEW m \in Managers, NEW x \in Writes, NEW e \in listed'[m],
             Due(m, attempt[m], x, e)', e \in UnsettledEpochs(attempt[m])'
      PROVE  Lists(attempt[m], x, e)' \/ now' > attempt'[m].ValidUntil
  <2>1. PICK s : s = attempt'[m]
    OBVIOUS
  <2>2. Due(m, s, x, e)' /\ e \in UnsettledEpochs(s)
    BY <1>2, <2>1 DEF Due, Seen, Own, UnsettledEpochs
  <2>3. Lists(s, x, e) \/ now' > s.ValidUntil
    BY <1>2, <2>1, <2>2, AttemptStep
  <2> QED BY <2>1, <2>3 DEF Lists
<1>3. ASSUME NEW m \in Managers, Loaded(known[m])', NEW x \in Writes, NEW e \in UnsettledEpochs(known[m])',
             Due(m, known[m], x, e)'
      PROVE  Lists(known[m], x, e)'
  <2>1. PICK s : s = known'[m]
    OBVIOUS
  <2>2. Due(m, s, x, e)' /\ e \in UnsettledEpochs(s) /\ Loaded(s)
    BY <1>3, <2>1 DEF Due, Seen, Own, UnsettledEpochs, Loaded
  <2>3. Lists(s, x, e)
    BY <1>3, <2>1, <2>2, KnownStep
  <2> QED BY <2>1, <2>3 DEF Lists
<1> QED BY <1>1, <1>2, <1>3 DEF ListingsOK
----------------------------------------------------------------------------
(* A read uses a snapshot that lists what it is to return *)

\* Nothing of the read r changes.
ReaderKept(r) == /\ pc'[r] = pc[r] /\ cs'[r] = cs[r] /\ maxEpoch'[r] = maxEpoch[r] /\ toList'[r] = toList[r]
                 /\ result'[r] = result[r] /\ expected'[r] = expected[r]
\* committedState has given it a snapshot, or it has crashed.
ReaderGiven(r) == /\ pc'[r] \notin {"readList", "readDone"} /\ cs'[r] = known'[Mgr(r)] /\ Loaded(cs'[r])
                  /\ expected'[r] = expected[r]
ReaderDead(r) == pc'[r] = "idle" /\ expected'[r] = {}

\* Who changes a read: the call itself, committedState and a crash.
LEMMA ReaderPlaces ==
  ASSUME TypeInv, [Next]_vars, NEW r \in Readers, ~Read(r) PROVE ReaderKept(r) \/ ReaderGiven(r) \/ ReaderDead(r)
<1>r. r \in Procs /\ r # M /\ r \notin Writers
  BY ProcessAssumption DEF Procs, M
<1>t. /\ pc \in [Procs -> Places] /\ toList \in [Procs -> SUBSET Int] /\ maxEpoch \in [Readers -> Int]
      /\ result \in [Readers -> SUBSET Entries] /\ expected \in [Readers -> SUBSET Ack] /\ op \in AllOps \cup {"idle"}
  BY DEF TypeInv, TypeOK, ProcsOK, ReadersOK, MaintenanceOK
<1>1. ASSUME NEW p \in Procs, Refresh(p) PROVE ReaderKept(r) \/ ReaderGiven(r)
  <2>1. UNCHANGED reading
    BY <1>1 DEF Refresh, UseKnownState, StartRefresh, loadWriteEpoch, loadSingleEpochCompactions,
       loadRangeCheckpoints, loadUncompactedEpoch, FinishRefresh
  <2>2. CASE pc'[r] = pc[r] /\ cs'[r] = cs[r]
    BY <2>1, <2>2 DEF ReaderKept, reading
  <2>3. CASE p = r /\ pc[r] \in WaitsForState /\ pc'[r] = Continue(r)
    <3>1. pc'[r] \notin {"readList", "readDone"} /\ pc'[r] # pc[r]
      BY <2>3, <1>t DEF WaitsForState, Continue, AllOps
    <3>2. cs'[r] = known'[Mgr(r)] /\ Loaded(cs'[r])
      BY <1>1, <2>3, <3>1, StateGiven
    <3> QED BY <2>1, <3>1, <3>2 DEF ReaderGiven, reading
  <2> QED BY <1>1, <1>r, <2>2, <2>3, RefreshFrame
<1>2. ASSUME NEW w \in Writers, Write(w) PROVE ReaderKept(r)
  <2>1. UNCHANGED reading
    BY <1>2 DEF Write, WriteIndex, ChooseWriteEpoch, CheckShardTime, DropPartialShard, PutShard, UndoShard,
       InvalidateAfterWrite, VerifyWriteEpoch, WriteIndexError, notWriting
  <2>2. pc'[r] = pc[r] /\ cs'[r] = cs[r]
    BY <1>2, <1>r, WriteFrame
  <2> QED BY <2>1, <2>2 DEF ReaderKept, reading
<1>3. ASSUME NEW q \in Readers, Read(q) PROVE ReaderKept(r)
  <2>1. q # r
    BY <1>3
  <2>2. pc'[r] = pc[r] /\ cs'[r] = cs[r]
    BY <1>3, <1>r, <2>1, ReadFrame
  <2>3. /\ maxEpoch' = maxEpoch \/ \E x : maxEpoch' = [maxEpoch EXCEPT ![q] = x]
        /\ toList' = toList \/ \E x : toList' = [toList EXCEPT ![q] = x]
        /\ result' = result \/ \E x : result' = [result EXCEPT ![q] = x]
        /\ expected' = expected \/ \E x : expected' = [expected EXCEPT ![q] = x]
    BY <1>3 DEF Read, GetCompleteIndexSet, ReadSnapshot, ReadEpoch, ReadReturn, ReadError, EndRead
  <2>4. maxEpoch'[r] = maxEpoch[r] /\ result'[r] = result[r] /\ expected'[r] = expected[r]
    BY <2>1, <2>3, <1>t
  <2>5. toList'[r] = toList[r]
    BY <2>1, <2>3, <1>t, <1>r
  <2> QED BY <2>2, <2>4, <2>5 DEF ReaderKept
<1>4. ASSUME NEW m \in Crashable, Crash(m) PROVE ReaderKept(r) \/ ReaderDead(r)
  <2> DEFINE dead == {p \in Procs : Mgr(p) = m /\ Active(p)}
  <2>1. /\ pc' = [p \in Procs |-> IF p \notin dead THEN pc[p] ELSE IF p \in Writers THEN "failed" ELSE "idle"]
        /\ cs' = [p \in Procs |-> IF p \in dead THEN ZeroSnapshot ELSE cs[p]]
        /\ toList' = [p \in Procs |-> IF p \in dead THEN {} ELSE toList[p]]
        /\ maxEpoch' = [p \in Readers |-> IF p \in dead THEN -1 ELSE maxEpoch[p]]
        /\ result' = [p \in Readers |-> IF p \in dead THEN {} ELSE result[p]]
        /\ expected' = [p \in Readers |-> IF p \in dead THEN {} ELSE expected[p]]
    BY <1>4 DEF Crash
  <2> HIDE DEF dead
  <2>2. CASE r \in dead
    BY <2>1, <2>2, <1>r DEF ReaderDead
  <2>3. CASE r \notin dead
    BY <2>1, <2>3, <1>r DEF ReaderKept
  <2> QED BY <2>2, <2>3
<1>5. CASE Maintain
  <2>1. UNCHANGED <<maxEpoch, result, expected>>
    BY <1>5 DEF Maintain, StartMaintenance, MaybeAdvanceWriteEpoch, advanceEpochMarker, MaybeCompactSingleEpoch,
       ListEpochToCompact, MaybeGenerateRangeCheckpoint, ListRangeEpoch, CheckRangeTime, CompactEpoch, WritePart,
       CleanupMarkers, DeleteMarker, CleanupSupersededIndexes, DeleteIndex, MaintenanceError, notMaint
  <2>2. toList' = toList \/ \E x : toList' = [toList EXCEPT ![M] = x]
    BY <1>5 DEF Maintain, StartMaintenance, MaybeAdvanceWriteEpoch, advanceEpochMarker, MaybeCompactSingleEpoch,
       ListEpochToCompact, MaybeGenerateRangeCheckpoint, ListRangeEpoch, CheckRangeTime, CompactEpoch, WritePart,
       CleanupMarkers, DeleteMarker, CleanupSupersededIndexes, DeleteIndex, MaintenanceError, EndMaintenance
  <2>3. toList'[r] = toList[r]
    BY <2>2, <1>t, <1>r
  <2>4. pc'[r] = pc[r] /\ cs'[r] = cs[r]
    BY <1>5, <1>r, MaintainFrame
  <2> QED BY <2>1, <2>3, <2>4 DEF ReaderKept
<1>6. CASE Tick \/ UNCHANGED vars
  BY <1>6 DEF Tick, vars, reading, ReaderKept
<1> QED BY <1>1, <1>2, <1>3, <1>4, <1>5, <1>6 DEF Next

\* The steps of a read, by the place they come from.
LEMMA ReadSteps ==
  ASSUME TypeInv, NEW r \in Readers, Read(r)
  PROVE  \/ GetCompleteIndexSet(r) /\ pc'[r] = "readState"
         \/ ReadSnapshot(r) /\ pc'[r] \in {"readList", "panicked"} /\ cs'[r] = cs[r] /\ expected'[r] = expected[r]
         \/ /\ \E e \in toList[r] : ReadEpoch(r, e)
            /\ pc'[r] = "readList" /\ cs'[r] = cs[r] /\ expected'[r] = expected[r]
         \/ /\ ReadReturn(r) /\ pc'[r] = "readDone" /\ cs'[r] = cs[r] /\ expected'[r] = expected[r]
            /\ result'[r] = result[r] /\ now < cs[r].ValidUntil
         \/ pc'[r] \notin InRead /\ (expected'[r] = expected[r] \/ expected'[r] = {})
<1>t. /\ r \in Procs /\ pc \in [Procs -> Places] /\ expected \in [Readers -> SUBSET Ack]
  BY DEF Procs, TypeInv, TypeOK, ProcsOK, ReadersOK
<1>1. GetCompleteIndexSet(r) => pc'[r] = "readState"
  BY <1>t DEF GetCompleteIndexSet, Goto
<1>2. ReadSnapshot(r) => pc'[r] \in {"readList", "panicked"} /\ cs'[r] = cs[r] /\ expected'[r] = expected[r]
  BY <1>t DEF ReadSnapshot, Goto
<1>3. \A e : ReadEpoch(r, e) => pc'[r] = "readList" /\ cs'[r] = cs[r] /\ expected'[r] = expected[r]
  BY <1>t DEF ReadEpoch
<1>4. ReadReturn(r) => \/ /\ pc'[r] = "readDone" /\ cs'[r] = cs[r] /\ expected'[r] = expected[r]
                          /\ result'[r] = result[r] /\ now < cs[r].ValidUntil
                       \/ pc'[r] = "readState" /\ expected'[r] = expected[r]
  BY <1>t DEF ReadReturn, Goto, Leave
<1>5. EndRead(r) => pc'[r] = "idle" /\ expected'[r] = {}
  BY <1>t DEF EndRead, Goto, Leave
<1> QED BY <1>1, <1>2, <1>3, <1>4, <1>5 DEF Read, ReadError, InRead

\* A read expects what its client has committed.
LEMMA ExpectedStep == ASSUME TypeInv, ExpectedOK, [Next]_vars PROVE ExpectedOK'
<1> SUFFICES ASSUME NEW r \in Readers, NEW a \in expected'[r] PROVE a \in acked' /\ a.write \in Writers /\ Mgr(a.write) = Mgr(r)
  BY DEF ExpectedOK, Mgr
<1>1. CASE a \in expected[r]
  BY <1>1, AckedGrows DEF ExpectedOK
<1>2. CASE GetCompleteIndexSet(r)
  <2>1. expected' = [expected EXCEPT ![r] = {c \in acked : c.write \in Writers /\ Mgr(c.write) = Mgr(r)}]
    BY <1>2 DEF GetCompleteIndexSet
  <2>2. expected'[r] = {c \in acked : c.write \in Writers /\ Mgr(c.write) = Mgr(r)}
    BY <2>1 DEF TypeInv, TypeOK, ReadersOK
  <2> QED BY <2>2, AckedGrows
<1>3. CASE Read(r)
  BY <1>1, <1>2, <1>3, ReadSteps
<1>4. CASE ~Read(r)
  BY <1>1, <1>4, ReaderPlaces DEF ReaderKept, ReaderGiven, ReaderDead
<1> QED BY <1>3, <1>4

\* What a read is to return has been acknowledged.
LEMMA WantedAcked == ASSUME ViewsOK, ExpectedOK, NEW r \in Readers, NEW a \in Wanted(r) PROVE a \in acked
<1>1. cs[r] \in Snapshots
  BY DEF Snapshots, Procs
<1> QED BY <1>1 DEF Wanted, ExpectedOK, ViewsOK, ViewOK, SeenAcked

\* A snapshot that committedState gives lists all of it.
GivenListed == \A r \in Readers : cs[r] = known[Mgr(r)] /\ Loaded(cs[r]) =>
  \A a \in Wanted(r) : a.epoch \in UnsettledEpochs(cs[r]) => Lists(cs[r], a.write, a.epoch)

\* That follows from what is known of listings and of what a reader may count on.
LEMMA GivenLists == TypeInv /\ WriterInv /\ OldInv /\ ViewsOK /\ ListingsOK /\ ExpectedOK => GivenListed
<1> SUFFICES ASSUME TypeInv, WriterInv, OldInv, ViewsOK, ListingsOK, ExpectedOK, NEW r \in Readers,
                    cs[r] = known[Mgr(r)], Loaded(cs[r]), NEW a \in Wanted(r), a.epoch \in UnsettledEpochs(cs[r])
             PROVE  Lists(cs[r], a.write, a.epoch)
  BY DEF GivenListed
<1>1. PICK m \in Managers : m = Mgr(r)
  BY ProcessAssumption DEF Mgr, Procs
<1>2. a \in acked
  BY WantedAcked
<1>3. a.write \in Writes
  BY <1>2 DEF TypeInv, TypeOK, WritersOK, Ack
<1>4. Due(m, known[m], a.write, a.epoch)
  <2>1. CASE a \in cs[r].seen
    BY <1>1, <2>1 DEF Due, Seen
  <2>2. CASE a \in expected[r]
    <3>1. a.write \in Writers /\ Mgr(a.write) = m
      BY <2>2, <1>1 DEF ExpectedOK
    <3>2. pc[a.write] = "acked"
      BY <1>2, <3>1 DEF WriterInv, AckedDone
    <3>3. a.epoch = writtenFor[a.write]
      BY <1>2, <3>1, ProcessAssumption DEF OldInv, AckedWritten
    <3> QED BY <3>1, <3>2, <3>3 DEF Due, Own
  <2> QED BY <2>1, <2>2 DEF Wanted
<1> QED BY <1>1, <1>3, <1>4 DEF ListingsOK

\* So it is for every read.
LEMMA ReadListsStep ==
  ASSUME TypeInv, StorageInv, MaintInv, WriterInv, OldInv, ViewsOK, OldShown, ListingsOK, ExpectedOK, ReadLists, [Next]_vars
  PROVE  ReadLists'
<1>n. TypeInv' /\ WriterInv' /\ OldInv' /\ ViewsOK' /\ ListingsOK' /\ ExpectedOK'
  BY TypeStep, WriterStep, OldStep, ViewsStep, ListingsStep, ExpectedStep
<1> SUFFICES ASSUME NEW r \in Readers, pc'[r] \in InRead, NEW a \in Wanted(r)', a.epoch \in UnsettledEpochs(cs[r])'
             PROVE  Lists(cs[r], a.write, a.epoch)'
  BY DEF ReadLists, InRead
<1>1. CASE pc[r] \in InRead /\ cs'[r] = cs[r] /\ expected'[r] = expected[r]
  <2>1. a \in Wanted(r) /\ a.epoch \in UnsettledEpochs(cs[r])
    BY <1>1 DEF Wanted, UnsettledEpochs
  <2>2. Lists(cs[r], a.write, a.epoch)
    BY <2>1, <1>1 DEF ReadLists
  <2> QED BY <2>2, <1>1 DEF Lists
<1>2. CASE ReaderGiven(r)
  <2>1. (cs[r] = known[Mgr(r)])' /\ Loaded(cs[r])'
    BY <1>2 DEF ReaderGiven, Loaded, Mgr
  <2>2. GivenListed'
    BY <1>n, GivenLists, PTL
  <2> QED BY <2>1, <2>2 DEF GivenListed
<1>3. CASE Read(r)
  <2>1. ReadSnapshot(r) \/ (\E e \in toList[r] : ReadEpoch(r, e)) \/ ReadReturn(r) => pc[r] \in InRead
    BY DEF ReadSnapshot, ReadEpoch, ReadReturn, InRead
  <2> QED BY <1>1, <1>3, <2>1, ReadSteps DEF InRead
<1>4. CASE ~Read(r)
  BY <1>1, <1>2, <1>4, ReaderPlaces DEF ReaderKept, ReaderDead, InRead
<1> QED BY <1>3, <1>4
----------------------------------------------------------------------------
(* The chain of range checkpoints holds every epoch before startEpoch *)

\* The i-th value of startEpoch, see StartEpochs.
AfterRange(c, i) == IF i = 0 THEN 0 ELSE c[i].max + 1
\* A checkpoint begins and ends at an epoch.
LEMMA ChainNumbers ==
  ASSUME NEW c \in RangeChain PROVE Len(c) \in Nat /\ \A i \in 1..Len(c) : c[i].max \in Nat /\ c[i].min \in Nat
<1>1. \A i \in 1..Len(c) : c[i] \in RangeCheckpoint
  BY DEF RangeChain
<1>2. Epochs \subseteq Nat
  BY RepositoryAssumption DEF Epochs
<1>3. \A k \in RangeCheckpoint : k.max \in Epochs /\ k.min \in Epochs
  BY DEF RangeCheckpoint
<1>4. Len(c) \in Nat
  BY DEF RangeChain
<1> QED BY <1>1, <1>2, <1>3, <1>4

\* startEpochs is defined by recursion over the chain.
LEMMA StartRecursion ==
  ASSUME NEW c \in RangeChain, \A i \in 1..Len(c) : AfterRange(c, i - 1) < c[i].max, NEW f, f = startEpochs(c, 0)
  PROVE  \A i \in 0..Len(c) : f[i] = IF i = 0 THEN 0 ELSE IF c[i].max > f[i-1] THEN c[i].max + 1 ELSE f[i-1]
<1> DEFINE g == [i \in 0..Len(c) |-> AfterRange(c, i)]
           Rec(k) == [i \in 0..Len(c) |-> IF i = 0 THEN 0 ELSE IF c[i].max > k[i-1] THEN c[i].max + 1 ELSE k[i-1]]
<1>n. Len(c) \in Nat
  BY ChainNumbers
<1>1. ASSUME NEW i \in 0..Len(c) PROVE g[i] = IF i = 0 THEN 0 ELSE IF c[i].max > g[i-1] THEN c[i].max + 1 ELSE g[i-1]
  <2>1. CASE i = 0
    BY <2>1 DEF AfterRange
  <2>2. CASE i # 0
    <3>1. i \in 1..Len(c) /\ i - 1 \in 0..Len(c)
      BY <2>2, <1>n
    <3>2. g[i-1] = AfterRange(c, i - 1) /\ g[i] = c[i].max + 1
      BY <2>2, <3>1 DEF AfterRange
    <3>3. AfterRange(c, i - 1) < c[i].max
      BY <3>1
    <3>4. c[i].max \in Int /\ AfterRange(c, i - 1) \in Int
      <4>1. \A j \in 1..Len(c) : c[j].max \in Int
        BY ChainNumbers
      <4>2. i - 1 = 0 \/ i - 1 \in 1..Len(c)
        BY <3>1, <1>n
      <4> QED BY <3>1, <4>1, <4>2 DEF AfterRange
    <3>5. c[i].max > g[i-1]
      BY <3>2, <3>3, <3>4
    <3> QED BY <2>2, <3>2, <3>5
  <2> QED BY <2>1, <2>2
<1>2. g = Rec(g)
  BY <1>1
<1>3. f = CHOOSE k : k = Rec(k)
  BY DEF startEpochs
<1> HIDE DEF g
<1>4. f = Rec(f)
  BY <1>2, <1>3
<1> QED BY <1>4

\* On a chain without holes, each of more than one epoch, it moves to the end of each checkpoint.
LEMMA StartValues ==
  ASSUME NEW c \in RangeChain, \A i \in 1..Len(c) : AfterRange(c, i - 1) < c[i].max, NEW f, f = startEpochs(c, 0),
         NEW i \in 0..Len(c)
  PROVE  f[i] = AfterRange(c, i)
<1>n. Len(c) \in Nat
  BY ChainNumbers
<1>0. \A j \in 0..Len(c) : f[j] = IF j = 0 THEN 0 ELSE IF c[j].max > f[j-1] THEN c[j].max + 1 ELSE f[j-1]
  BY StartRecursion
<1> SUFFICES ASSUME f[i] # AfterRange(c, i) PROVE FALSE
  OBVIOUS
<1> DEFINE T == {j \in 0..Len(c) : f[j] # AfterRange(c, j)}
<1>1. T \in SUBSET Nat /\ T # {}
  BY <1>n
<1> HIDE DEF T
<1>2. PICK j \in T : \A k \in T : j <= k
  BY <1>1, LeastEpoch
<1>3. j \in 0..Len(c) /\ f[j] # AfterRange(c, j)
  BY <1>2 DEF T
<1>4. CASE j = 0
  BY <1>0, <1>3, <1>4 DEF AfterRange
<1>5. CASE j # 0
  <2>1. j \in 1..Len(c) /\ j - 1 \in 0..Len(c) /\ ~(j <= j - 1)
    BY <1>3, <1>5, <1>n
  <2>2. f[j-1] = AfterRange(c, j - 1)
    BY <1>2, <2>1 DEF T
  <2>3. AfterRange(c, j - 1) < c[j].max
    BY <2>1
  <2>4. c[j].max \in Int /\ AfterRange(c, j - 1) \in Int
    <3>1. \A k \in 1..Len(c) : c[k].max \in Int
      BY ChainNumbers
    <3>2. j - 1 = 0 \/ j - 1 \in 1..Len(c)
      BY <2>1, <1>n
    <3> QED BY <2>1, <3>1, <3>2 DEF AfterRange
  <2>5. c[j].max > f[j-1]
    BY <2>2, <2>3, <2>4
  <2>6. f[j] = c[j].max + 1
    BY <1>0, <1>3, <1>5, <2>5
  <2> QED BY <1>3, <1>5, <2>6 DEF AfterRange
<1> QED BY <1>4, <1>5

\* So the checkpoints hold the acknowledged entries of all the epochs before startEpoch.
LEMMA ChainHolds ==
  ASSUME NEW s \in Snapshot, ChainOK(s), NEW e \in Epochs, e < startEpoch(s, 0), NEW x, NEW h \in Shards,
         \A b \in ranges : b.min <= e /\ e <= b.max => <<x, b.shard>> \in b.content
  PROVE  <<x, h>> \in RangeContent(s, 0)
<1>c. PICK c : c = s.LongestRangeCheckpointSets
  OBVIOUS
<1>t. c \in RangeChain /\ Len(c) \in Nat /\ e \in Nat
  BY <1>c, Numbers, RepositoryAssumption DEF Snapshot, RangeChain, Epochs
<1>i. \A i \in 1..Len(c) : c[i].max \in Nat /\ c[i].min \in Nat
  BY <1>t, ChainNumbers
<1>1. \A i \in 1..Len(c) :
        /\ c[i].min = (IF i = 1 THEN 0 ELSE c[i-1].max + 1) /\ c[i].min < c[i].max
        /\ \A k \in Shards : \E b \in ranges :
             b.min = c[i].min /\ b.max = c[i].max /\ b.shard = k /\ b.content \subseteq c[i].content
  BY <1>c DEF ChainOK
<1>2. \A i \in 1..Len(c) : AfterRange(c, i - 1) = c[i].min
  BY <1>1, <1>t DEF AfterRange
<1>3. \A i \in 1..Len(c) : AfterRange(c, i - 1) < c[i].max
  BY <1>1, <1>2
<1>f. PICK f : f = startEpochs(c, 0)
  OBVIOUS
<1>4. \A i \in 0..Len(c) : f[i] = AfterRange(c, i)
  BY <1>t, <1>3, <1>f, StartValues
<1>5. e < AfterRange(c, Len(c))
  <2>1. startEpoch(s, 0) = f[Len(c)]
    BY <1>c, <1>f DEF startEpoch
  <2>2. Len(c) \in 0..Len(c)
    BY <1>t
  <2> QED BY <2>1, <2>2, <1>4
<1>6. Len(c) \in 1..Len(c) /\ e <= c[Len(c)].max
  <2>1. Len(c) # 0
    BY <1>5, <1>t DEF AfterRange
  <2>2. Len(c) \in 1..Len(c)
    BY <2>1, <1>t
  <2>3. e < c[Len(c)].max + 1
    BY <1>5, <2>1 DEF AfterRange
  <2> QED BY <2>2, <2>3, <1>i, <1>t
<1> DEFINE T == {i \in 1..Len(c) : e <= c[i].max}
<1>7. T \in SUBSET Nat /\ T # {}
  BY <1>6, <1>t
<1> HIDE DEF T
<1>8. PICK i \in T : \A k \in T : i <= k
  BY <1>7, LeastEpoch
<1>9. i \in 1..Len(c) /\ e <= c[i].max
  BY <1>8 DEF T
<1>10. c[i].min <= e
  <2>1. CASE i = 1
    BY <1>1, <1>9, <1>t, <2>1
  <2>2. CASE i # 1
    <3>1. i - 1 \in 1..Len(c) /\ ~(i <= i - 1)
      BY <2>2, <1>9, <1>t
    <3>2. ~(e <= c[i-1].max)
      BY <1>8, <3>1 DEF T
    <3>3. c[i].min = c[i-1].max + 1
      BY <1>1, <1>9, <2>2
    <3> QED BY <3>1, <3>2, <3>3, <1>i, <1>t
  <2> QED BY <2>1, <2>2
<1>11. PICK b \in ranges : b.min = c[i].min /\ b.max = c[i].max /\ b.shard = h /\ b.content \subseteq c[i].content
  BY <1>1, <1>9
<1>12. <<x, h>> \in c[i].content
  BY <1>9, <1>10, <1>11
<1>13. c[i].max > f[i-1]
  <2>1. i - 1 \in 0..Len(c)
    BY <1>9, <1>t
  <2>2. f[i-1] = c[i].min
    BY <1>2, <1>4, <1>9, <2>1
  <2> QED BY <2>2, <1>1, <1>9, <1>i
<1>14. RangeContent(s, 0) = UNION {c[j].content : j \in {k \in 1..Len(c) : c[k].max > f[k-1]}}
  BY <1>c, <1>f DEF RangeContent
<1> QED BY <1>9, <1>12, <1>13, <1>14

\* startEpoch is a number.
LEMMA StartNumber == ASSUME NEW s \in Snapshot, ChainOK(s) PROVE startEpoch(s, 0) \in Int
<1>c. PICK c : c = s.LongestRangeCheckpointSets
  OBVIOUS
<1>t. c \in RangeChain /\ Len(c) \in Nat
  BY <1>c DEF Snapshot, RangeChain
<1>i. \A i \in 1..Len(c) : c[i].max \in Nat /\ c[i].min \in Nat
  BY <1>t, ChainNumbers
<1>1. \A i \in 1..Len(c) : c[i].min = (IF i = 1 THEN 0 ELSE c[i-1].max + 1) /\ c[i].min < c[i].max
  BY <1>c DEF ChainOK
<1>2. \A i \in 1..Len(c) : AfterRange(c, i - 1) = c[i].min
  BY <1>1, <1>t DEF AfterRange
<1>3. \A i \in 1..Len(c) : AfterRange(c, i - 1) < c[i].max
  BY <1>1, <1>2
<1>4. Len(c) \in 0..Len(c) /\ (Len(c) = 0 \/ Len(c) \in 1..Len(c))
  BY <1>t
<1>f. PICK f : f = startEpochs(c, 0)
  OBVIOUS
<1>5. f[Len(c)] = AfterRange(c, Len(c))
  BY <1>t, <1>3, <1>4, <1>f, StartValues
<1>6. startEpoch(s, 0) = f[Len(c)]
  BY <1>c, <1>f DEF startEpoch
<1>7. AfterRange(c, Len(c)) \in Int
  BY <1>4, <1>i DEF AfterRange
<1> QED BY <1>5, <1>6, <1>7
----------------------------------------------------------------------------
(* A read returns every acknowledged entry *)

\* What the snapshot has of an epoch that is not listed.
LEMMA SnapshotFinds ==
  ASSUME TypeInv, StorageInv, NEW s \in Snapshots, NEW x, NEW e, Whole(x, e), NEW es, e \in es, ~MustList(s, e),
         e \in UnsettledEpochs(s) => Lists(s, x, e), NEW h \in Shards
  PROVE  <<x, h>> \in ContentOf(SnapshotBlobs(s, es))
<1>1. CASE UsesSingle(s, e)
  <2>1. PICK b \in s.SingleEpochCompactionSets : b.epoch = e /\ b.shard = h
    BY <1>1 DEF StorageInv, SnapshotsOK, SnapshotOK, UsesSingle
  <2>2. b \in singles
    BY <2>1 DEF StorageInv, SnapshotsOK, SnapshotOK
  <2>3. <<x, h>> \in b.content
    BY <2>1, <2>2 DEF Whole
  <2>4. b \in SnapshotBlobs(s, es)
    BY <1>1, <2>1 DEF SnapshotBlobs
  <2> QED BY <2>3, <2>4 DEF ContentOf
<1>2. CASE ~UsesSingle(s, e)
  <2>1. e \in UnsettledEpochs(s)
    BY <1>2 DEF MustList
  <2>2. PICK b \in s.UncompactedEpochSets : b.epoch = e /\ <<x, h>> \in b.content
    BY <2>1 DEF Lists
  <2>3. b \in SnapshotBlobs(s, es)
    BY <1>2, <2>2 DEF SnapshotBlobs
  <2> QED BY <2>2, <2>3 DEF ContentOf
<1> QED BY <1>1, <1>2

\* What is to be found for the entries of a, in the result of the read r or later.
Shown(r, a) == \/ AckEntries(a) \subseteq result[r]
               \/ pc[r] = "readList" /\ (a.epoch \in toList[r] \/ now > cs[r].ValidUntil)

\* The snapshot: the checkpoints, the compactions and the listings in it.
LEMMA SnapshotShows ==
  ASSUME WholeInv, ViewsOK, ExpectedOK, ReadLists, NEW r \in Readers, ReadSnapshot(r), pc'[r] = "readList"
  PROVE  /\ \A e \in toList'[r] : MustList(cs[r], e)
         /\ \A a \in Wanted(r) : a.epoch <= maxEpoch'[r] => AckEntries(a) \subseteq result'[r] \/ a.epoch \in toList'[r]
<1> DEFINE last == IF maxEpoch[r] = -1 THEN cs[r].WriteEpoch + 1 ELSE maxEpoch[r]
           es == startEpoch(cs[r], 0) .. last
<1>t. /\ r \in Procs /\ maxEpoch \in [Readers -> Int] /\ result \in [Readers -> SUBSET Entries] /\ cs[r] \in Snapshot
      /\ toList \in [Procs -> SUBSET Int] /\ TypeInv /\ StorageInv /\ cs[r] \in Snapshots
  BY DEF Procs, WholeInv, TypeInv, TypeOK, ProcsOK, ReadersOK, Snapshots
<1>1. /\ maxEpoch' = [maxEpoch EXCEPT ![r] = last]
      /\ result' = [result EXCEPT ![r] = RangeContent(cs[r], 0) \cup ContentOf(SnapshotBlobs(cs[r], es))]
      /\ toList' = [toList EXCEPT ![r] = {e \in es : MustList(cs[r], e)}] /\ pc[r] = "readRange"
  BY DEF ReadSnapshot
<1>l. last \in Int
  BY <1>t, RepositoryAssumption DEF Snapshot, Epochs
<1> HIDE DEF last, es
<1>2. maxEpoch'[r] = last /\ result'[r] = RangeContent(cs[r], 0) \cup ContentOf(SnapshotBlobs(cs[r], es))
  BY <1>1, <1>t
<1>3. toList'[r] = {e \in es : MustList(cs[r], e)}
  BY <1>1, <1>t
<1>4. ASSUME NEW a \in Wanted(r), a.epoch <= last, a.epoch \notin toList'[r], NEW h \in Shards PROVE <<a.write, h>> \in result'[r]
  <2>1. a \in acked
    BY WantedAcked
  <2>2. Whole(a.write, a.epoch)
    BY <2>1, AckedWhole
  <2>3. a.epoch \in Epochs /\ a.epoch \in Int
    BY <2>1, <1>t, RepositoryAssumption DEF TypeInv, TypeOK, WritersOK, Ack, Epochs
  <2>v. ChainOK(cs[r])
    BY <1>t DEF ViewsOK, ViewOK
  <2>4. CASE a.epoch < startEpoch(cs[r], 0)
    <3>1. \A b \in ranges : b.min <= a.epoch /\ a.epoch <= b.max => <<a.write, b.shard>> \in b.content
      BY <2>2 DEF Whole
    <3>2. <<a.write, h>> \in RangeContent(cs[r], 0)
      BY <1>t, <2>3, <2>4, <2>v, <3>1, ChainHolds
    <3> QED BY <3>2, <1>2
  <2>5. CASE ~(a.epoch < startEpoch(cs[r], 0))
    <3>0. startEpoch(cs[r], 0) \in Int
      BY <1>t, <2>v, StartNumber
    <3>1. a.epoch \in es
      BY <1>4, <2>3, <2>5, <3>0, <1>l DEF es
    <3>2. ~MustList(cs[r], a.epoch)
      BY <1>3, <1>4, <3>1
    <3>3. a.epoch \in UnsettledEpochs(cs[r]) => Lists(cs[r], a.write, a.epoch)
      BY <1>1 DEF ReadLists, InRead
    <3>4. <<a.write, h>> \in ContentOf(SnapshotBlobs(cs[r], es))
      BY <1>t, <2>2, <3>1, <3>2, <3>3, SnapshotFinds
    <3> QED BY <3>4, <1>2
  <2> QED BY <2>4, <2>5
<1>5. ASSUME NEW a \in Wanted(r), a.epoch <= maxEpoch'[r], a.epoch \notin toList'[r] PROVE AckEntries(a) \subseteq result'[r]
  BY <1>2, <1>4, <1>5 DEF AckEntries
<1> QED BY <1>3, <1>5

\* An epoch that is listed has no compaction so old that its blobs could be gone, as long as the snapshot is valid.
LEMMA ListedShows ==
  ASSUME TypeInv, StorageInv, OldInv, OldShown, NEW r \in Readers, NEW a \in acked, MustList(cs[r], a.epoch),
         now <= cs[r].ValidUntil
  PROVE  AckEntries(a) \subseteq ContentOf(OfEpoch(uncompacted, a.epoch))
<1> SUFFICES ASSUME NEW h \in Shards PROVE <<a.write, h>> \in ContentOf(OfEpoch(uncompacted, a.epoch))
  BY DEF AckEntries
<1>s. PICK s \in Snapshot : s = cs[r]
  BY DEF Procs, TypeInv, TypeOK, ProcsOK
<1>1. Lasts(a.write, a.epoch, h)
  BY AckedLasts
<1>2. ~Old(a.epoch, now - CleanupSafetyMargin)
  <2>1. SUFFICES ASSUME Old(a.epoch, now - CleanupSafetyMargin) PROVE FALSE
    OBVIOUS
  <2>e. PICK e : e = a.epoch
    OBVIOUS
  <2>2. Old(e, Began(s))
    BY <2>1, <2>e, <1>s, OldBegan
  <2>3. Began(s) \in Int
    BY Numbers DEF Began, Snapshot
  <2>4. e \in Epochs
    BY <2>2, <2>3, OldComplete DEF CompleteEpochs
  <2>5. ShowsOld(s) /\ SettlesOld(s)
    BY <1>s DEF OldShown, Procs
  <2>6. e <= s.WriteEpoch - 2 /\ e \in CompactedEpochs(s)
    BY <2>2, <2>4, <2>5 DEF ShowsOld, SettlesOld
  <2>7. UsesSingle(s, e)
    BY <2>6 DEF UsesSingle, isSettledEpochNumber, numUnsettledEpochs
  <2> QED BY <2>7, <2>e, <1>s DEF MustList
<1> QED BY <1>1, <1>2, ListingFinds DEF Lasts

\* All the steps of a read:
LEMMA ReadShowsStep ==
  ASSUME WholeInv, ViewsOK, OldShown, OldInv, ExpectedOK, ReadLists, ReadShows, [Next]_vars PROVE ReadShows'
<1>t. /\ TypeInv /\ StorageInv /\ now \in Nat /\ toList \in [Procs -> SUBSET Int] /\ result \in [Readers -> SUBSET Entries]
      /\ maxEpoch \in [Readers -> Int] /\ cs \in [Procs -> Snapshot]
  BY DEF WholeInv, TypeInv, TypeOK, StorageOK, ProcsOK, ReadersOK
<1>n. now <= now' /\ now' \in Nat
  BY <1>t, NowGrows
<1> SUFFICES ASSUME NEW r \in Readers, pc'[r] \in {"readList", "readDone"}
             PROVE  /\ \A e \in toList'[r] : MustList(cs[r], e)'
                    /\ \A a \in Wanted(r)' : a.epoch <= maxEpoch'[r] => Shown(r, a)'
  BY DEF ReadShows, Shown
<1>r. r \in Procs /\ cs[r].ValidUntil \in Int
  BY <1>t DEF Procs, Snapshot
<1>0. pc[r] \in {"readList", "readDone"} =>
        /\ \A e \in toList[r] : MustList(cs[r], e)
        /\ \A a \in Wanted(r) : a.epoch <= maxEpoch[r] => Shown(r, a)
  BY DEF ReadShows, Shown
<1>w. cs'[r] = cs[r] /\ expected'[r] = expected[r] => Wanted(r)' = Wanted(r) /\ \A e : MustList(cs[r], e)' <=> MustList(cs[r], e)
  BY DEF Wanted, MustList, UsesSingle, isSettledEpochNumber, CompactedEpochs, UnsettledEpochs
<1>1. CASE ReaderKept(r)
  <2>1. pc[r] \in {"readList", "readDone"} /\ cs'[r] = cs[r] /\ expected'[r] = expected[r]
        /\ toList'[r] = toList[r] /\ maxEpoch'[r] = maxEpoch[r]
    BY <1>1 DEF ReaderKept
  <2>2. ASSUME NEW a, Shown(r, a) PROVE Shown(r, a)'
    BY <1>1, <1>n, <1>r, <1>t, <2>2 DEF ReaderKept, Shown, AckEntries
  <2> QED BY <1>0, <1>w, <2>1, <2>2
<1>2. CASE ReadSnapshot(r) /\ pc'[r] = "readList" /\ cs'[r] = cs[r] /\ expected'[r] = expected[r]
  <2>1. /\ \A e \in toList'[r] : MustList(cs[r], e)
        /\ \A a \in Wanted(r) : a.epoch <= maxEpoch'[r] => AckEntries(a) \subseteq result'[r] \/ a.epoch \in toList'[r]
    BY <1>2, SnapshotShows
  <2>2. \A a \in Wanted(r) : a.epoch <= maxEpoch'[r] => Shown(r, a)'
    BY <1>2, <2>1 DEF Shown, AckEntries
  <2> QED BY <1>2, <1>w, <2>1, <2>2
<1>3. ASSUME NEW k \in toList[r], ReadEpoch(r, k), pc'[r] = "readList", cs'[r] = cs[r], expected'[r] = expected[r]
      PROVE  /\ \A e \in toList'[r] : MustList(cs[r], e)'
             /\ \A a \in Wanted(r)' : a.epoch <= maxEpoch'[r] => Shown(r, a)'
  <2>1. /\ toList' = [toList EXCEPT ![r] = @ \ {k}] /\ pc[r] = "readList" /\ maxEpoch' = maxEpoch /\ now' = now
        /\ result' = [result EXCEPT ![r] = @ \cup ContentOf(OfEpoch(uncompacted, k))]
    BY <1>3 DEF ReadEpoch, notReading
  <2>2. toList'[r] = toList[r] \ {k}
    BY <2>1, <1>t, <1>r
  <2>3. result'[r] = result[r] \cup ContentOf(OfEpoch(uncompacted, k))
    BY <2>1, <1>t
  <2>4. ASSUME NEW a \in Wanted(r), a.epoch <= maxEpoch[r] PROVE Shown(r, a)'
    <3>1. Shown(r, a)
      BY <1>0, <2>1, <2>4
    <3>2. CASE AckEntries(a) \subseteq result[r]
      BY <3>2, <2>3 DEF Shown, AckEntries
    <3>3. CASE now > cs[r].ValidUntil
      BY <3>3, <2>1, <1>3 DEF Shown
    <3>4. CASE a.epoch \in toList[r] /\ a.epoch # k
      BY <3>4, <2>2, <1>3 DEF Shown
    <3>5. CASE a.epoch = k /\ now <= cs[r].ValidUntil
      <4>1. a \in acked
        BY WantedAcked
      <4>2. MustList(cs[r], a.epoch)
        BY <1>0, <2>1, <3>5
      <4>3. AckEntries(a) \subseteq ContentOf(OfEpoch(uncompacted, a.epoch))
        BY <1>t, <3>5, <4>1, <4>2, ListedShows
      <4> QED BY <3>5, <4>3, <2>3 DEF Shown, AckEntries
    <3>6. now > cs[r].ValidUntil \/ now <= cs[r].ValidUntil
      BY <1>t, <1>r
    <3> QED BY <3>1, <3>2, <3>3, <3>4, <3>5, <3>6 DEF Shown
  <2>5. \A e \in toList'[r] : MustList(cs[r], e)
    BY <1>0, <2>1, <2>2
  <2> QED BY <1>3, <1>w, <2>1, <2>4, <2>5
<1>4. CASE ReadReturn(r) /\ pc'[r] = "readDone" /\ cs'[r] = cs[r] /\ expected'[r] = expected[r]
           /\ result'[r] = result[r] /\ now < cs[r].ValidUntil
  <2>1. pc[r] = "readList" /\ toList[r] = {} /\ toList' = toList /\ maxEpoch' = maxEpoch
    BY <1>4 DEF ReadReturn
  <2>2. ~(now > cs[r].ValidUntil)
    BY <1>4, <1>t, <1>r
  <2>3. \A a \in Wanted(r) : a.epoch <= maxEpoch[r] => AckEntries(a) \subseteq result[r]
    BY <1>0, <2>1, <2>2 DEF Shown
  <2>4. \A a \in Wanted(r) : a.epoch <= maxEpoch[r] => Shown(r, a)'
    BY <1>4, <2>3 DEF Shown, AckEntries
  <2> QED BY <1>4, <1>w, <2>1, <2>4
<1>5. CASE Read(r)
  BY <1>2, <1>3, <1>4, <1>5, <1>t, ReadSteps DEF InRead
<1>6. CASE ~Read(r)
  BY <1>1, <1>6, <1>t, ReaderPlaces DEF ReaderGiven, ReaderDead
<1> QED BY <1>5, <1>6

\* The invariant is inductive, under the condition.
LEMMA ReadNext == WholeInv /\ ReadInv /\ CompactsUncompactedEpoch /\ [Next]_vars => WholeInv' /\ ReadInv'
<1> SUFFICES ASSUME WholeInv, ReadInv, CompactsUncompactedEpoch, [Next]_vars PROVE WholeInv' /\ ReadInv'
  OBVIOUS
<1>1. TypeInv /\ StorageInv /\ MaintInv /\ WriterInv
  BY DEF WholeInv
<1>2. ViewsOK /\ OldShown /\ OldInv /\ ListingsOK /\ ExpectedOK /\ ReadLists /\ ReadShows
  BY DEF ReadInv
<1>3. ViewsOK' /\ OldShown' /\ OldInv'
  BY <1>1, <1>2, ViewsStep, OldShownStep, OldStep
<1>4. ListingsOK' /\ ExpectedOK' /\ ReadLists' /\ ReadShows'
  BY <1>1, <1>2, ListingsStep, ExpectedStep, ReadListsStep, ReadShowsStep
<1>5. WholeInv'
  BY WholeNext
<1> QED BY <1>3, <1>4, <1>5 DEF ReadInv


\* The repository at the start: nothing is dated in the future, and what was written is there.
LEMMA OldInit == ASSUME Init PROVE OldInv
<1>p. /\ M \in Procs /\ M \notin InFlight /\ M \notin Retrying /\ Writers \subseteq Procs
  BY ProcessAssumption, RepositoryAssumption DEF Procs, M
<1>m. pc[M] = "idle"
  BY <1>p DEF Init
<1>1. BlobTimes
  <2>n. now = InitNow /\ InitNow \in Nat /\ InitTime \in [InitWrites -> 0..InitNow]
    BY RepositoryAssumption DEF Init
  <2>1. ASSUME NEW b \in InitBlobs PROVE b.ts <= now
    <3>1. PICK w \in InitWrites, h \in Shards : b = Blob(w, h, InitEpoch[w], InitTime[w])
      BY <2>1 DEF InitBlobs
    <3>2. b.ts = InitTime[w] /\ InitTime[w] \in 0..InitNow
      BY <3>1, <2>n DEF Blob
    <3> QED BY <3>2, <2>n
  <2>2. ASSUME NEW b \in InFlightBlobs PROVE b.ts <= now
    <3>1. PICK w \in InFlight, h \in InFlightShards : b = Blob(w, h, InFlightEpoch, 0)
      BY <2>2 DEF InFlightBlobs
    <3>2. b.ts = 0
      BY <3>1 DEF Blob
    <3> QED BY <3>2, <2>n
  <2>3. ASSUME NEW b \in InitSingleBlobs PROVE b.ts <= now
    <3>1. PICK x \in InitSingles \X Shards :
            b = [epoch |-> x[1], set |-> 0, shard |-> x[2], content |-> InitContent({x[1]}, x[2]), ts |-> 0]
      BY <2>3 DEF InitSingleBlobs
    <3>2. b.ts = 0
      BY <3>1
    <3> QED BY <3>2, <2>n
  <2>4. uncompacted = InitBlobs \cup InFlightBlobs /\ singles = InitSingleBlobs
    BY DEF Init
  <2> QED BY <2>1, <2>2, <2>3, <2>4 DEF BlobTimes
<1>2. WideRanges
  <2>1. ASSUME NEW b \in ranges PROVE b.min < b.max
    <3>1. InitRange # -1 /\ b.max = InitRange /\ b.min = 0
      BY DEF Init, InitRangeBlobs
    <3>2. InitRange > 0 /\ InitRange \in Int
      BY <3>1, RepositoryAssumption DEF Epochs
    <3> QED BY <3>1, <3>2
  <2> QED BY <2>1, <1>m DEF WideRanges, Compacting
<1>3. WrittenLasts
  <2>1. ASSUME NEW w \in Writers, NEW h \in written[w] PROVE Stored(w, writtenFor[w], h)
    <3>1. w \in InFlight /\ h \in InFlightShards /\ writtenFor[w] = InFlightEpoch
      BY <2>1 DEF Init
    <3>2. PICK b : b = Blob(w, h, InFlightEpoch, 0)
      OBVIOUS
    <3>3. b \in uncompacted
      BY <3>1, <3>2 DEF Init, InFlightBlobs
    <3>4. b.epoch = InFlightEpoch /\ b.set = w /\ b.shard = h
      BY <3>2 DEF Blob
    <3> QED BY <3>1, <3>3, <3>4 DEF Stored
  <2> QED BY <2>1, InitStored DEF WrittenLasts, Lasts
<1>4. AckedWritten
  <2> SUFFICES ASSUME NEW a \in acked PROVE a.write \in InitWrites /\ a.epoch = InitEpoch[a.write]
    BY DEF AckedWritten
  <2>1. PICK w \in InitWrites : a = [write |-> w, epoch |-> InitEpoch[w]]
    BY DEF Init
  <2> QED BY <2>1
<1>5. \A p \in Procs : pc[p] \in {"writePut", "readState", "idle"}
  BY DEF Init
<1> QED BY <1>1, <1>2, <1>3, <1>4, <1>5, <1>m, <1>p DEF OldInv, DoomedOld, AckedAll

\* No snapshot has been loaded, and no read is past its first snapshot.
LEMMA ReadInit == Init => ReadInv
<1> SUFFICES ASSUME Init PROVE ReadInv
  OBVIOUS
<1>t. TypeInv /\ now \in Nat
  BY WholeInit DEF WholeInv, TypeInv, TypeOK, StorageOK
<1>x. PICK x : x = [ZeroSnapshot EXCEPT !.WriteEpoch = InFlightEpoch]
  OBVIOUS
<1>s. \A s \in Snapshots : s = ZeroSnapshot \/ s = x
  BY <1>x DEF Init, Snapshots
<1>f. /\ x.ValidUntil = ZeroSnapshot.ValidUntil /\ x.UncompactedEpochSets = ZeroSnapshot.UncompactedEpochSets
      /\ x.SingleEpochCompactionSets = ZeroSnapshot.SingleEpochCompactionSets
      /\ x.LongestRangeCheckpointSets = ZeroSnapshot.LongestRangeCheckpointSets /\ x.seen = ZeroSnapshot.seen
  BY <1>x DEF ZeroSnapshot
<1>1. ViewsOK
  <2>1. ViewOK(ZeroSnapshot)
    BY <1>t, ZeroView
  <2>2. ViewOK(x)
    BY <1>f, <2>1 DEF ViewOK, SnapshotTimes, Began, WholeSets, CompactedEpochs, ChainOK, SeenAcked
  <2> QED BY <1>s, <2>1, <2>2 DEF ViewsOK
<1>2. OldShown
  <2>1. Began(x) = Began(ZeroSnapshot)
    BY <1>f DEF Began
  <2>2. Began(ZeroSnapshot) \in Int /\ ~(Began(ZeroSnapshot) > 0)
    BY Numbers DEF Began, ZeroSnapshot
  <2>3. \A e : ~Old(e, Began(ZeroSnapshot))
    BY <1>t, <2>2, OldComplete
  <2>4. \A s \in Snapshots : ShowsOld(s) /\ SettlesOld(s)
    BY <1>s, <2>1, <2>3 DEF ShowsOld, SettlesOld
  <2> QED BY <2>4 DEF OldShown, Snapshots
<1>3. \A p \in Procs : pc[p] \in {"writePut", "readState", "idle"}
  BY DEF Init
<1>4. \A m \in Managers : listed[m] = {} /\ ~Loaded(known[m])
  BY ZeroNotLoaded DEF Init
<1>5. ListingsOK
  BY <1>4 DEF ListingsOK
<1>6. ExpectedOK
  BY DEF Init, ExpectedOK
<1>7. ReadLists /\ ReadShows
  BY <1>3 DEF ReadLists, ReadShows, InRead, Procs
<1> QED BY <1>1, <1>2, <1>5, <1>6, <1>7, OldInit DEF ReadInv

\* GetCompleteIndexSet returns every entry that was acknowledged before the refresh behind its snapshot,
\* up to the epoch it looks at, whatever compaction and cleanup do meanwhile: a blob may only be deleted
\* when a compaction has been there for CleanupSafetyMargin, so every snapshot that has not expired shows
\* that compaction, and a read that has listed later than that goes round again. The condition is that of
\* SinglesWhole: MaybeCompactSingleEpoch does not take an epoch again that it has compacted.
THEOREM ReadsComplete == Spec /\ []CompactsUncompactedEpoch => []ReadComplete
<1> DEFINE Inv == WholeInv /\ ReadInv
<1>1. Init => Inv
  BY WholeInit, ReadInit
<1>2. Inv /\ CompactsUncompactedEpoch /\ [Next]_vars => Inv'
  BY ReadNext
<1>3. Inv => ReadComplete
  BY DEF ReadInv, ReadShows, ReadComplete, Wanted
<1> HIDE DEF Inv
<1> QED BY <1>1, <1>2, <1>3, PTL DEF Spec

\* Under the same condition a client finds its own completed index writes, although it reads from a cached
\* snapshot: WriteIndex invalidates the snapshot after it has stored the shards and before it returns, so
\* each refresh whose snapshot a later read can be given began to list when the shards were there.
THEOREM OwnWritesRead == Spec /\ []CompactsUncompactedEpoch => []ReadYourWrites
<1> DEFINE Inv == WholeInv /\ ReadInv
<1>1. Init => Inv
  BY WholeInit, ReadInit
<1>2. Inv /\ CompactsUncompactedEpoch /\ [Next]_vars => Inv'
  BY ReadNext
<1>3. Inv => ReadYourWrites
  BY DEF ReadInv, ReadShows, ReadYourWrites, Wanted
<1> HIDE DEF Inv
<1> QED BY <1>1, <1>2, <1>3, PTL DEF Spec

\* So until the first range checkpoint both hold without further conditions.
COROLLARY YoungReadsComplete ==
  ASSUME InitRange = -1 PROVE Spec /\ []Young => []ReadComplete /\ []ReadYourWrites
<1> QED BY YoungCompactsUncompacted, ReadsComplete, OwnWritesRead, PTL
=============================================================================
