---------------------------- MODULE EpochManager ----------------------------
(***************************************************************************)
(* The index epoch protocol of internal/epoch: clients that share nothing  *)
(* but a blob store write index blobs into a numbered write epoch, one     *)
(* client advances the epoch and compacts old ones, readers assemble the   *)
(* complete set of index blobs from range checkpoints, single-epoch        *)
(* compactions and uncompacted blobs.                                      *)
(*                                                                         *)
(* A process is one goroutine inside an exported method of epoch.Manager;  *)
(* ManagerOf says which Manager (mutex, lastKnownState) it runs on.  Time  *)
(* is one clock for all clients and the store (the code assumes that       *)
(* "storage clock moves forward somewhat reasonably").  Epoch maintenance  *)
(* is exclusive to one process, see maintenance.RunExclusive.              *)
(*                                                                         *)
(* An index blob is abstracted to the set of index entries it holds; the   *)
(* entry <<w, s>> is what shard s of the WriteIndex call w put into the    *)
(* index.  A blob name keeps what the code parses out of it: the epoch     *)
(* numbers, the set it belongs to and its place in the set.                *)
(***************************************************************************)
EXTENDS Integers, FiniteSets, Sequences

CONSTANTS
  Managers,       \* instances of epoch.Manager (one per client process)
  Writers,        \* WriteIndex calls; a call happens at most once
  Readers,        \* goroutines calling GetCompleteIndexSet
  Maintainer,     \* the goroutine that runs epoch maintenance
  ManagerOf,      \* the Manager of each process
  NoProc,         \* "the mutex is free"
  Shards,         \* shards of a write and parts of a compaction
  EpochRefreshFrequency, MinEpochDuration, CleanupSafetyMargin,
  FullCheckpointFrequency, EpochAdvanceOnCountThreshold,
  MaintenanceOps, \* the maintenance operations the run exercises
  Crashable,      \* the Managers whose client process may crash
  Faulty,         \* the processes whose storage calls may fail
  Interleaved,    \* the Managers whose concurrent listings are explored in every order
  StartTimes,     \* the times at which each WriteIndex may be called
  InFlight,       \* writers whose PutBlob, issued in an earlier epoch, is under way,
  InFlightEpoch, InFlightShards, \* that epoch, and the shards they have stored before
  Retrying, RetryingFor, \* readers whose first snapshot has expired, the maxEpoch it gave
  InitWrites, InitEpoch, InitTime, \* acknowledged writes of the repository
  InitMarkers,    \* epoch markers the repository has
  InitSingles,    \* epochs that have a single-epoch compaction
  InitRange,      \* last epoch of its range checkpoint, or -1
  Times,          \* the instants of the clock the run distinguishes
  InitNow, MaxEpoch, MaxSets \* bounds

Procs == Writers \cup Readers \cup {Maintainer}
Epochs == 0..MaxEpoch
Writes == Writers \cup InitWrites
Entries == Writes \X Shards
AllOps == {"advance", "compactSingle", "range", "cleanupMarkers", "cleanupIndexes"}

ASSUME ProcessAssumption ==
  /\ ManagerOf \in [Procs -> Managers]
  /\ Writers \cap Readers = {} /\ Maintainer \notin Writers \cup Readers
  /\ InitWrites \cap Writers = {}
  /\ NoProc \notin Procs /\ Crashable \subseteq Managers /\ Interleaved \subseteq Managers /\ Faulty \subseteq Procs
  /\ MaintenanceOps \subseteq AllOps
  /\ StartTimes \in [Writers -> SUBSET Nat]

\* Parameters.Validate; the lower limits on durations and counts only set a scale.
ASSUME ParametersAssumption ==
  /\ EpochRefreshFrequency \in Nat \ {0} /\ MinEpochDuration \in Nat
  /\ CleanupSafetyMargin \in Nat
  /\ FullCheckpointFrequency \in Nat \ {0}
  /\ EpochAdvanceOnCountThreshold \in Nat \ {0}
  /\ 3 * EpochRefreshFrequency <= MinEpochDuration
  /\ CleanupSafetyMargin >= 3 * EpochRefreshFrequency

\* The repository found at the start is one the protocol leaves behind: its
\* blobs are in reached epochs and only settled epochs are compacted.
ASSUME RepositoryAssumption ==
  /\ MaxEpoch \in Nat /\ Times \subseteq Nat /\ MaxSets \in Nat /\ InitNow \in Nat
  /\ InitMarkers \subseteq Epochs
  /\ InitEpoch \in [InitWrites -> Epochs] /\ InitTime \in [InitWrites -> 0..InitNow]
  /\ \A w \in InitWrites : InitEpoch[w] = 0 \/ \E m \in InitMarkers : m >= InitEpoch[w]
  /\ InFlight \subseteq Writers /\ InFlightEpoch \in Epochs
  /\ InFlightShards \subseteq Shards /\ InFlightShards # Shards
  /\ InFlightEpoch = 0 \/ \E m \in InitMarkers : m >= InFlightEpoch
  /\ Retrying \subseteq Readers /\ RetryingFor \in Epochs \ {0}
  /\ RetryingFor = 1 \/ \E m \in InitMarkers : m >= RetryingFor - 1
  /\ InitSingles \subseteq Epochs
  /\ \A e \in InitSingles : \E m \in InitMarkers : m >= e + 2
  /\ InitRange \in Epochs \cup {-1}
  /\ InitRange # -1 => InitRange > 0 /\ \E m \in InitMarkers : m >= InitRange + 2

VARIABLES
  now,
  markers, uncompacted, singles, ranges,   \* the blobs in storage
  mu, known, attempt, loads, listed,       \* per Manager
  pc, cs,                                  \* per process: place, its CurrentSnapshot
  writtenFor, written,                     \* WriteIndex locals
  maxEpoch, toList, result,                \* GetCompleteIndexSet locals
  op, lo, hi, blobs, content, parts, sets, \* maintenance locals
  doomed, doomedMarkers,
  acked, expected                          \* history: what callers were promised

storage == <<markers, uncompacted, singles, ranges>>
manager == <<mu, known, attempt, loads, listed>>
writing == <<writtenFor, written>>
reading == <<maxEpoch, toList, result, expected>>
maint == <<op, lo, hi, blobs, content, parts, doomed, doomedMarkers>>
vars == <<now, storage, manager, pc, cs, writing, reading, maint, sets, acked>>
----------------------------------------------------------------------------
(* Data. *)
IndexBlob == [epoch : Epochs, set : Writes \cup 0..MaxSets, shard : Shards,
              content : SUBSET Entries, ts : Nat]
RangeBlob == [min : Epochs, max : Epochs, set : 0..MaxSets, shard : Shards,
              content : SUBSET Entries]
Ack == [write : Writes, epoch : Epochs]
AckEntries(a) == {<<a.write, s>> : s \in Shards}

RangeCheckpoint == [min : Epochs, max : Epochs, content : SUBSET Entries]
RangeChain == Seq(RangeCheckpoint)

\* CurrentSnapshot; `seen` is history: the writes acknowledged when the refresh began.
Snapshot ==
  [ValidUntil : Int, WriteEpoch : Epochs, EpochMarkerBlobs : SUBSET Epochs,
   UncompactedEpochSets : SUBSET IndexBlob,
   SingleEpochCompactionSets : SUBSET IndexBlob,
   LongestRangeCheckpointSets : RangeChain,
   seen : SUBSET Ack]

\* CurrentSnapshot{}: its ValidUntil lies before every time.
ZeroSnapshot ==
  [ValidUntil |-> -1, WriteEpoch |-> 0, EpochMarkerBlobs |-> {},
   UncompactedEpochSets |-> {}, SingleEpochCompactionSets |-> {},
   LongestRangeCheckpointSets |-> << >>, seen |-> {}]

Mgr(p) == ManagerOf[p]
ContentOf(bs) == UNION {b.content : b \in bs}
OfEpoch(bs, e) == {b \in bs : b.epoch = e}
CompactedEpochs(s) == {b.epoch : b \in s.SingleEpochCompactionSets}

numUnsettledEpochs == 2
isSettledEpochNumber(s, e) == e <= s.WriteEpoch - numUnsettledEpochs

\* Mutant: any set counts, also one of which parts are missing.
AnySets(bs) == {b.set : b \in bs}

\* completeset.FindAll on the blobs of one epoch or range: the sets of which every
\* part has been listed.  FindFirst returns one of them, which one depends on the listing.
CompleteSets(bs) == {n \in {b.set : b \in bs} :
                       \A s \in Shards : \E b \in bs : b.set = n /\ b.shard = s}

\* The chains of range checkpoints that start at epoch 0 and have no holes.
RangeChains(rs) ==
  UNION {{c \in [1..n -> rs] : \A i \in 1..n :
            c[i].min = IF i = 1 THEN 0 ELSE c[i-1].max + 1} : n \in 0..MaxEpoch + 1}
ChainEnd(c) == IF c = << >> THEN -1 ELSE c[Len(c)].max

\* findLongestRangeCheckpoint: the chain reaching furthest, then the shortest one.
\* A chain that ends at epoch 0 loses to the empty one (`longest` starts at 0).
findLongestRangeCheckpoint(rs) ==
  LET chains == {c \in RangeChains(rs) : ChainEnd(c) # 0}
  IN  {c \in chains : \A d \in chains :
         \/ ChainEnd(d) < ChainEnd(c)
         \/ ChainEnd(d) = ChainEnd(c) /\ Len(d) >= Len(c)}

\* getFirstContiguousKeyRange: its upper end, for a non-empty set of keys.
FirstContiguousHi(keys, low) ==
  CHOOSE h \in keys : (\A k \in low..h : k \in keys) /\ h + 1 \notin keys /\ h >= low

\* oldestUncompactedEpoch
oldestUncompactedEpoch(s) ==
  LET oldest == ChainEnd(s.LongestRangeCheckpointSets) + 1
      single == CompactedEpochs(s)
      low    == CHOOSE k \in single : \A j \in single : k <= j
      high   == FirstContiguousHi(single, low)
  IN  IF single = {} \/ oldest < low \/ oldest > high THEN oldest ELSE high + 1

\* shouldAdvance; every blob weighs the same, so the size criterion is the count.
shouldAdvance(bs) ==
  /\ \E a, b \in bs : b.ts - a.ts >= MinEpochDuration
  /\ Cardinality(bs) >= EpochAdvanceOnCountThreshold
----------------------------------------------------------------------------
(* The initial repository. *)
Blob(w, s, e, t) == [epoch |-> e, set |-> w, shard |-> s, content |-> {<<w, s>>}, ts |-> t]
InitBlobs == {Blob(w, s, InitEpoch[w], InitTime[w]) : w \in InitWrites, s \in Shards}
InFlightBlobs == {Blob(w, s, InFlightEpoch, 0) : w \in InFlight, s \in InFlightShards}
InitContent(es, s) == {x \in InitWrites \X {s} : InitEpoch[x[1]] \in es}
InitSingleBlobs == {[epoch |-> x[1], set |-> 0, shard |-> x[2],
                     content |-> InitContent({x[1]}, x[2]), ts |-> 0] : x \in InitSingles \X Shards}
InitRangeBlobs == {[min |-> 0, max |-> InitRange, set |-> 0, shard |-> s,
                    content |-> InitContent(0..InitRange, s)] :
                     s \in IF InitRange = -1 THEN {} ELSE Shards}

Init ==
  /\ now = InitNow
  /\ markers = InitMarkers /\ uncompacted = InitBlobs \cup InFlightBlobs
  /\ singles = InitSingleBlobs /\ ranges = InitRangeBlobs
  /\ mu = [m \in Managers |-> NoProc]
  /\ known = [m \in Managers |-> ZeroSnapshot]
  /\ attempt = [m \in Managers |-> ZeroSnapshot]
  /\ loads = [m \in Managers |-> {}] /\ listed = [m \in Managers |-> {}]
  /\ pc = [p \in Procs |-> IF p \in InFlight THEN "writePut"
                          ELSE IF p \in Retrying THEN "readState" ELSE "idle"]
  /\ cs = [p \in Procs |-> IF p \in InFlight
            THEN [ZeroSnapshot EXCEPT !.WriteEpoch = InFlightEpoch] ELSE ZeroSnapshot]
  /\ writtenFor = [w \in Writers |-> IF w \in InFlight THEN InFlightEpoch ELSE -1]
  /\ written = [w \in Writers |-> IF w \in InFlight THEN InFlightShards ELSE {}]
  /\ maxEpoch = [r \in Readers |-> IF r \in Retrying THEN RetryingFor ELSE -1]
  /\ toList = [p \in Procs |-> {}]
  /\ result = [r \in Readers |-> {}] /\ expected = [r \in Readers |-> {}]
  /\ op = "idle" /\ lo = 0 /\ hi = 0 /\ blobs = {} /\ content = {} /\ parts = {}
  /\ sets = 0 /\ doomed = {} /\ doomedMarkers = {}
  /\ acked = {[write |-> w, epoch |-> InitEpoch[w]] : w \in InitWrites}
----------------------------------------------------------------------------
(* Time, and the operations on one Manager's cached snapshot. *)
Tick == /\ \E t \in Times : /\ t > now /\ \A u \in Times : u > now => t <= u
                          /\ now' = t
        /\ UNCHANGED <<storage, manager, pc, cs, writing, reading, maint, sets, acked>>

\* committedState is waited for in these places and continues in those.
WaitsForState == {"writeState", "writeRecheck", "readState", "maintState"}
Continue(p) == CASE pc[p] = "writeState"   -> "writeEpoch"
                 [] pc[p] = "writeRecheck" -> "writeVerify"
                 [] pc[p] = "readState"    -> "readRange"
                 [] OTHER                  -> op   \* "maintState"

\* WriteIndex asks for 75% of the validity period (rounded up on the scaled clock).
ensureMinTime(p) == IF pc[p] = "writeState" THEN (3 * EpochRefreshFrequency + 3) \div 4 ELSE 0
Stale(p) == now + ensureMinTime(p) > known[Mgr(p)].ValidUntil

\* committedState when lastKnownState is still good
UseKnownState(p) ==
  /\ pc[p] \in WaitsForState /\ mu[Mgr(p)] = NoProc /\ ~Stale(p)
  /\ cs' = [cs EXCEPT ![p] = known[Mgr(p)]]
  /\ pc' = [pc EXCEPT ![p] = Continue(p)]
  /\ UNCHANGED <<now, storage, manager, writing, reading, maint, sets, acked>>

BeginAttempt(m) ==
  /\ attempt' = [attempt EXCEPT ![m] =
       [ZeroSnapshot EXCEPT !.ValidUntil = now + EpochRefreshFrequency, !.seen = acked]]
  /\ loads' = [loads EXCEPT ![m] = {"writeEpoch", "single", "range"}]
  /\ listed' = [listed EXCEPT ![m] = {}]

\* committedState when it has to refresh: the mutex is held until it is done
StartRefresh(p) ==
  /\ pc[p] \in WaitsForState /\ mu[Mgr(p)] = NoProc /\ Stale(p)
  /\ mu' = [mu EXCEPT ![Mgr(p)] = p]
  /\ BeginAttempt(Mgr(p))
  /\ UNCHANGED <<now, storage, known, pc, cs, writing, reading, maint, sets, acked>>

\* The loads are concurrent goroutines; a Manager outside Interleaved (a bound) runs
\* them in the order in which they are started.
InOrder(what, todo) == \/ what = "writeEpoch"
                       \/ what = "single" /\ "writeEpoch" \notin todo
                       \/ todo = {what}
Loading(p, what) ==
  /\ mu[Mgr(p)] = p /\ what \in loads[Mgr(p)]
  /\ Mgr(p) \in Interleaved \/ InOrder(what, loads[Mgr(p)])
  /\ loads' = [loads EXCEPT ![Mgr(p)] = @ \ {what}]

loadWriteEpoch(p) ==
  /\ Loading(p, "writeEpoch")
  /\ \E w \in markers \cup {0} :
       /\ \A n \in markers : n <= w
       /\ attempt' = [attempt EXCEPT ![Mgr(p)].WriteEpoch = w,
                                     ![Mgr(p)].EpochMarkerBlobs = markers]
  /\ UNCHANGED <<now, storage, mu, known, listed, pc, cs, writing, reading, maint, sets, acked>>

loadSingleEpochCompactions(p) ==
  /\ Loading(p, "single")
  /\ LET es == {e \in Epochs : CompleteSets(OfEpoch(singles, e)) # {}}
     IN  \E pick \in [es -> 0..MaxSets] :
           /\ \A e \in es : pick[e] \in CompleteSets(OfEpoch(singles, e))
           /\ attempt' = [attempt EXCEPT ![Mgr(p)].SingleEpochCompactionSets =
                            {b \in singles : b.epoch \in es /\ b.set = pick[b.epoch]}]
  /\ UNCHANGED <<now, storage, mu, known, listed, pc, cs, writing, reading, maint, sets, acked>>

RangeBlobs(lh) == {b \in ranges : b.min = lh[1] /\ b.max = lh[2]}
loadRangeCheckpoints(p) ==
  /\ Loading(p, "range")
  /\ LET lhs == {lh \in {<<b.min, b.max>> : b \in ranges} : CompleteSets(RangeBlobs(lh)) # {}}
     IN  \E pick \in [lhs -> 0..MaxSets] :
           /\ \A lh \in lhs : pick[lh] \in CompleteSets(RangeBlobs(lh))
           /\ \E c \in findLongestRangeCheckpoint(
                     {[min |-> lh[1], max |-> lh[2],
                       content |-> ContentOf({b \in RangeBlobs(lh) : b.set = pick[lh]})] : lh \in lhs}) :
                attempt' = [attempt EXCEPT ![Mgr(p)].LongestRangeCheckpointSets = c]
  /\ UNCHANGED <<now, storage, mu, known, listed, pc, cs, writing, reading, maint, sets, acked>>

\* The keys of UncompactedEpochSets: loadUncompactedEpochs(WriteEpoch-1, WriteEpoch+1).
UnsettledEpochs(s) == {e \in s.WriteEpoch - 1 .. s.WriteEpoch + 1 : e >= 0}

\* One of the concurrent listings; they start when the other loads are done.
loadUncompactedEpoch(p, e) ==
  LET m == Mgr(p) IN
  /\ mu[m] = p /\ loads[m] = {} /\ e \in UnsettledEpochs(attempt[m]) \ listed[m]
  /\ m \in Interleaved \/ \A k \in UnsettledEpochs(attempt[m]) \ listed[m] : e <= k
  /\ listed' = [listed EXCEPT ![m] = @ \cup {e}]
  /\ attempt' = [attempt EXCEPT ![m].UncompactedEpochSets = @ \cup OfEpoch(uncompacted, e)]
  /\ UNCHANGED <<now, storage, mu, known, loads, pc, cs, writing, reading, maint, sets, acked>>

\* The end of refreshAttemptLocked: too late, try again; else publish and return.
FinishRefresh(p) ==
  LET m == Mgr(p) IN
  /\ mu[m] = p /\ loads[m] = {} /\ UnsettledEpochs(attempt[m]) \subseteq listed[m]
  /\ \/ /\ now > attempt[m].ValidUntil
        /\ BeginAttempt(m)
        /\ UNCHANGED <<mu, known, pc, cs>>
     \/ /\ now <= attempt[m].ValidUntil
        /\ known' = [known EXCEPT ![m] = attempt[m]]
        /\ cs' = [cs EXCEPT ![p] = attempt[m]]
        /\ pc' = [pc EXCEPT ![p] = Continue(p)]
        /\ mu' = [mu EXCEPT ![m] = NoProc]
        /\ attempt' = [attempt EXCEPT ![m] = ZeroSnapshot]
        /\ listed' = [listed EXCEPT ![m] = {}]
        /\ UNCHANGED loads
  /\ UNCHANGED <<now, storage, writing, reading, maint, sets, acked>>

Refresh(p) == \/ UseKnownState(p) \/ StartRefresh(p)
              \/ loadWriteEpoch(p) \/ loadSingleEpochCompactions(p) \/ loadRangeCheckpoints(p)
              \/ \E e \in 0..MaxEpoch + 1 : loadUncompactedEpoch(p, e)
              \/ FinishRefresh(p)
----------------------------------------------------------------------------
(* WriteIndex *)
Goto(p, l) == pc' = [pc EXCEPT ![p] = l]
notWriting == <<now, markers, singles, ranges, reading, maint, sets>>
\* A process that has returned: its locals are dead.
Leave(p, l) == Goto(p, l) /\ cs' = [cs EXCEPT ![p] = ZeroSnapshot]

WriteIndex(w) ==
  /\ pc[w] = "idle" /\ now \in StartTimes[w]
  /\ Goto(w, "writeState")
  /\ UNCHANGED <<notWriting, uncompacted, manager, cs, writing, acked>>

\* Mutant: the shards written for another epoch are not forgotten.
ChooseEpochKeepingShards(w) ==
  /\ pc[w] = "writeEpoch"
  /\ writtenFor' = [writtenFor EXCEPT ![w] = cs[w].WriteEpoch]
  /\ Goto(w, "writeShard")
  /\ UNCHANGED <<notWriting, uncompacted, manager, cs, written, acked>>
\* Mutant: writtenForEpoch is not assigned.
ChooseNoEpoch(w) ==
  /\ pc[w] = "writeEpoch"
  /\ cs[w].WriteEpoch = writtenFor[w] \/ written[w] = {}
  /\ Goto(w, "writeShard")
  /\ UNCHANGED <<notWriting, uncompacted, manager, cs, writing, acked>>

\* The shards already written stay when the epoch is the one they were written for;
\* otherwise deletePartiallyWrittenShards removes them first, one by one.
ChooseWriteEpoch(w) ==
  /\ pc[w] = "writeEpoch"
  /\ cs[w].WriteEpoch = writtenFor[w] \/ written[w] = {}
  /\ writtenFor' = [writtenFor EXCEPT ![w] = cs[w].WriteEpoch]
  /\ Goto(w, "writeShard")
  /\ UNCHANGED <<notWriting, uncompacted, manager, cs, written, acked>>

DeleteShard(w, s) ==
  /\ s \in written[w]
  /\ uncompacted' = {b \in uncompacted :
                       ~(b.epoch = writtenFor[w] /\ b.set = w /\ b.shard = s)}
  /\ written' = [written EXCEPT ![w] = @ \ {s}]

DropPartialShard(w, s) ==
  /\ pc[w] = "writeEpoch" /\ cs[w].WriteEpoch # writtenFor[w]
  /\ DeleteShard(w, s)
  /\ UNCHANGED <<notWriting, manager, pc, cs, writtenFor, acked>>

\* writeIndexShards: the time check before each shard ...
CheckShardTime(w) ==
  /\ pc[w] = "writeShard" /\ written[w] # Shards
  /\ IF now < cs[w].ValidUntil THEN Goto(w, "writePut") /\ UNCHANGED cs
                               ELSE Leave(w, "writeState")
  /\ UNCHANGED <<notWriting, uncompacted, manager, writing, acked>>

\* ... and the PutBlob, which may take any time.
PutShard(w, s) ==
  /\ pc[w] = "writePut" /\ s \notin written[w]
  /\ uncompacted' = uncompacted \cup {Blob(w, s, writtenFor[w], now)}
  /\ written' = [written EXCEPT ![w] = @ \cup {s}]
  /\ Goto(w, "writeShard")
  /\ UNCHANGED <<notWriting, manager, cs, writtenFor, acked>>

\* Mutant: lastKnownState is not invalidated.
NoInvalidateAfterWrite(w) ==
  /\ pc[w] = "writeShard" /\ written[w] = Shards /\ mu[Mgr(w)] = NoProc
  /\ Leave(w, "writeRecheck")
  /\ UNCHANGED <<notWriting, uncompacted, manager, writing, acked>>

\* All shards are stored: Invalidate, then look at the write epoch again.
InvalidateAfterWrite(w) ==
  /\ pc[w] = "writeShard" /\ written[w] = Shards /\ mu[Mgr(w)] = NoProc
  /\ known' = [known EXCEPT ![Mgr(w)] = ZeroSnapshot]
  /\ Leave(w, "writeRecheck")
  /\ UNCHANGED <<notWriting, uncompacted, mu, attempt, loads, listed, writing, acked>>

\* Mutant: off by one.
TooSlowLater(w) == cs[w].WriteEpoch > writtenFor[w] + 2
TooSlow(w) == cs[w].WriteEpoch >= writtenFor[w] + 2

VerifyWriteEpoch(w) ==
  /\ pc[w] = "writeVerify"
  /\ IF TooSlow(w) THEN Leave(w, "writeUndo") /\ UNCHANGED acked
     ELSE Leave(w, "acked") /\ acked' = acked \cup {[write |-> w, epoch |-> writtenFor[w]]}
  /\ UNCHANGED <<notWriting, uncompacted, manager, writing>>

\* ErrVerySlowIndexWrite, after deletePartiallyWrittenShards
UndoShard(w, s) ==
  /\ pc[w] = "writeUndo" /\ DeleteShard(w, s)
  /\ IF written'[w] = {} THEN Goto(w, "failed") ELSE UNCHANGED pc
  /\ UNCHANGED <<notWriting, manager, cs, writtenFor, acked>>

\* PutBlob or DeleteBlob fails: WriteIndex returns and leaves the shards where they are;
\* a PutBlob that reports an error may still have stored the blob.
WriteIndexError(w) ==
  /\ w \in Faulty
  /\ \/ /\ pc[w] = "writePut"
        /\ \E late \in SUBSET (Shards \ written[w]) :
             /\ Cardinality(late) <= 1
             /\ uncompacted' = uncompacted \cup {Blob(w, s, writtenFor[w], now) : s \in late}
     \/ /\ pc[w] \in {"writeEpoch", "writeUndo"} /\ written[w] # {}
        /\ pc[w] = "writeEpoch" => cs[w].WriteEpoch # writtenFor[w]
        /\ UNCHANGED uncompacted
  /\ Leave(w, "failed")
  /\ UNCHANGED <<notWriting, manager, writing, acked>>

Write(w) == \/ WriteIndex(w) \/ ChooseWriteEpoch(w) \/ CheckShardTime(w)
            \/ \E s \in Shards : DropPartialShard(w, s) \/ PutShard(w, s) \/ UndoShard(w, s)
            \/ InvalidateAfterWrite(w) \/ VerifyWriteEpoch(w) \/ WriteIndexError(w)
----------------------------------------------------------------------------
(* GetCompleteIndexSet *)

\* getCompleteIndexSetForCommittedState: where the range checkpoints leave off. Entry i
\* is startEpoch after the first i checkpoints.
startEpochs(chain, min) ==
  LET f[i \in 0..Len(chain)] ==
        IF i = 0 THEN min
        ELSE IF chain[i].max > f[i-1] THEN chain[i].max + 1 ELSE f[i-1]
  IN  f
startEpoch(s, min) ==
  startEpochs(s.LongestRangeCheckpointSets, min)[Len(s.LongestRangeCheckpointSets)]
RangeContent(s, min) ==
  LET c == s.LongestRangeCheckpointSets
  IN  UNION {c[i].content : i \in {j \in 1..Len(c) : c[j].max > startEpochs(c, min)[j-1]}}

\* getIndexesFromEpochInternal: the blobs the snapshot has for an epoch, and
\* whether the epoch has to be listed instead.
UsesSingle(s, e) == isSettledEpochNumber(s, e) /\ e \in CompactedEpochs(s)
MustList(s, e) == ~UsesSingle(s, e) /\ e \notin UnsettledEpochs(s)
SnapshotBlobs(s, es) ==
  {b \in s.SingleEpochCompactionSets : b.epoch \in es /\ UsesSingle(s, b.epoch)} \cup
  {b \in s.UncompactedEpochSets : b.epoch \in es /\ ~UsesSingle(s, b.epoch)}

notReading == <<now, storage, manager, writing, maint, sets, acked>>

\* `expected` is history: what this client itself had committed when the call began.
GetCompleteIndexSet(r) ==
  /\ pc[r] = "idle"
  /\ expected' = [expected EXCEPT ![r] =
       {a \in acked : a.write \in Writers /\ Mgr(a.write) = Mgr(r)}]
  /\ Goto(r, "readState")
  /\ UNCHANGED <<notReading, cs, maxEpoch, toList, result>>

\* LatestEpoch is replaced once, in the first round.  A slice of negative length panics.
ReadSnapshot(r) ==
  LET last == IF maxEpoch[r] = -1 THEN cs[r].WriteEpoch + 1 ELSE maxEpoch[r]
      es   == startEpoch(cs[r], 0) .. last
  IN
  /\ pc[r] = "readRange"
  /\ maxEpoch' = [maxEpoch EXCEPT ![r] = last]
  /\ result' = [result EXCEPT ![r] = RangeContent(cs[r], 0) \cup ContentOf(SnapshotBlobs(cs[r], es))]
  /\ toList' = [toList EXCEPT ![r] = {e \in es : MustList(cs[r], e)}]
  /\ Goto(r, IF startEpoch(cs[r], 0) > last + 1 THEN "panicked" ELSE "readList")
  /\ UNCHANGED <<notReading, cs, expected>>

ReadEpoch(r, e) ==
  /\ pc[r] = "readList" /\ e \in toList[r]
  /\ toList' = [toList EXCEPT ![r] = @ \ {e}]
  /\ result' = [result EXCEPT ![r] = @ \cup ContentOf(OfEpoch(uncompacted, e))]
  /\ UNCHANGED <<notReading, pc, cs, maxEpoch, expected>>

\* Return if the snapshot is still valid, else go round again.
ReadReturn(r) ==
  /\ pc[r] = "readList" /\ toList[r] = {}
  /\ IF now < cs[r].ValidUntil THEN Goto(r, "readDone") /\ UNCHANGED <<cs, result>>
     ELSE Leave(r, "readState") /\ result' = [result EXCEPT ![r] = {}]
  /\ UNCHANGED <<notReading, maxEpoch, toList, expected>>

EndRead(r) ==
  /\ Leave(r, "idle")
  /\ maxEpoch' = [maxEpoch EXCEPT ![r] = -1] /\ toList' = [toList EXCEPT ![r] = {}]
  /\ result' = [result EXCEPT ![r] = {}] /\ expected' = [expected EXCEPT ![r] = {}]
  /\ UNCHANGED notReading

\* A listing fails: the error is returned while the snapshot is valid.
ReadError(r) ==
  /\ r \in Faulty /\ pc[r] = "readList" /\ toList[r] # {} /\ now < cs[r].ValidUntil
  /\ EndRead(r)

Read(r) == \/ GetCompleteIndexSet(r) \/ ReadSnapshot(r) \/ ReadReturn(r)
           \/ \E e \in toList[r] : ReadEpoch(r, e)
           \/ ReadError(r) \/ (pc[r] = "readDone" /\ EndRead(r))
----------------------------------------------------------------------------
(* Epoch maintenance *)
M == Maintainer
notMaint == <<now, manager, writing, maxEpoch, result, expected, acked>>

EndMaintenance ==
  /\ Leave(M, "idle")
  /\ op' = "idle" /\ lo' = 0 /\ hi' = 0 /\ blobs' = {} /\ content' = {} /\ parts' = {}
  /\ doomed' = {} /\ doomedMarkers' = {} /\ toList' = [toList EXCEPT ![M] = {}]

\* Every operation but the epoch advance starts with committedState.
StartMaintenance(o) ==
  /\ pc[M] = "idle"
  /\ op' = o
  /\ Goto(M, IF o = "advance" THEN "advance" ELSE "maintState")
  /\ UNCHANGED <<notMaint, storage, cs, toList, lo, hi, blobs, content, parts, sets, doomed, doomedMarkers>>

\* MaybeAdvanceWriteEpoch decides on lastKnownState as it is, ...
MaybeAdvanceWriteEpoch ==
  LET s == known[Mgr(M)] IN
  /\ pc[M] = "advance" /\ mu[Mgr(M)] = NoProc
  /\ IF shouldAdvance(OfEpoch(s.UncompactedEpochSets, s.WriteEpoch)) /\ s.WriteEpoch < MaxEpoch
     THEN /\ cs' = [cs EXCEPT ![M] = s] /\ Goto(M, "advancePut")
          /\ UNCHANGED <<maint, toList>>
     ELSE EndMaintenance
  /\ UNCHANGED <<notMaint, storage, sets>>

\* ... advanceEpochMarker writes the marker.
advanceEpochMarker ==
  /\ pc[M] = "advancePut"
  /\ markers' = markers \cup {cs[M].WriteEpoch + 1}
  /\ EndMaintenance
  /\ UNCHANGED <<notMaint, uncompacted, singles, ranges, sets>>

MaybeCompactSingleEpoch ==
  /\ pc[M] = "compactSingle"
  /\ \E e \in 0..MaxEpoch + 1 :
       /\ e = oldestUncompactedEpoch(cs[M])
       /\ IF isSettledEpochNumber(cs[M], e)
          THEN /\ lo' = e /\ hi' = e /\ Goto(M, "compactList")
               /\ UNCHANGED <<op, blobs, content, parts, doomed, doomedMarkers, cs, toList>>
          ELSE EndMaintenance
  /\ UNCHANGED <<notMaint, storage, sets>>

\* The settled epoch is never in UncompactedEpochSets, so it is listed now.
ListEpochToCompact ==
  /\ pc[M] = "compactList"
  /\ blobs' = OfEpoch(uncompacted, lo)
  /\ Goto(M, "compactRead")
  /\ UNCHANGED <<notMaint, storage, op, lo, hi, content, parts, sets, doomed, doomedMarkers, cs, toList>>

\* Mutant: the epochs that have no single-epoch compaction are taken to be empty.
RangeOfCompactedOnly ==
  LET first == ChainEnd(cs[M].LongestRangeCheckpointSets) + 1
      last  == cs[M].WriteEpoch - numUnsettledEpochs
  IN
  /\ pc[M] = "range"
  /\ IF last >= 0 /\ last - first >= FullCheckpointFrequency
     THEN /\ lo' = first /\ hi' = last /\ Goto(M, "rangeList")
          /\ blobs' = SnapshotBlobs(cs[M], first..last)
          /\ UNCHANGED <<op, content, parts, doomed, doomedMarkers, cs, toList>>
     ELSE EndMaintenance
  /\ UNCHANGED <<notMaint, storage, sets>>

\* MaybeGenerateRangeCheckpoint: getRangeToCompact, then the complete set for the range
MaybeGenerateRangeCheckpoint ==
  LET first == ChainEnd(cs[M].LongestRangeCheckpointSets) + 1
      last  == cs[M].WriteEpoch - numUnsettledEpochs
      es    == first..last
  IN
  /\ pc[M] = "range"
  /\ IF last >= 0 /\ last - first >= FullCheckpointFrequency
     THEN /\ lo' = first /\ hi' = last /\ Goto(M, "rangeList")
          /\ blobs' = SnapshotBlobs(cs[M], es)
          /\ toList' = [toList EXCEPT ![M] = {e \in es : MustList(cs[M], e)}]
          /\ UNCHANGED <<op, content, parts, doomed, doomedMarkers, cs>>
     ELSE EndMaintenance
  /\ UNCHANGED <<notMaint, storage, sets>>

ListRangeEpoch(e) ==
  /\ pc[M] = "rangeList" /\ e \in toList[M]
  /\ toList' = [toList EXCEPT ![M] = @ \ {e}]
  /\ blobs' = blobs \cup OfEpoch(uncompacted, e)
  /\ UNCHANGED <<notMaint, storage, op, lo, hi, content, parts, sets, doomed, doomedMarkers, cs, pc>>

\* generateRangeCheckpointFromCommittedState gives up when the snapshot has expired.
CheckRangeTime ==
  /\ pc[M] = "rangeList" /\ toList[M] = {}
  /\ IF now > cs[M].ValidUntil THEN EndMaintenance
     ELSE Goto(M, "compactRead") /\ UNCHANGED <<maint, cs, toList>>
  /\ UNCHANGED <<notMaint, storage, sets>>

\* CompactEpoch merges the blobs (an error if one is gone) and builds the parts; no
\* entries, no parts.  The random set id is a number not used before.
CompactEpoch ==
  /\ pc[M] = "compactRead"
  /\ IF blobs \subseteq uncompacted \cup singles /\ ContentOf(blobs) # {} /\ sets < MaxSets
     THEN /\ content' = ContentOf(blobs) /\ parts' = Shards /\ sets' = sets + 1
          /\ blobs' = {} /\ Goto(M, "compactWrite")
          /\ UNCHANGED <<op, lo, hi, doomed, doomedMarkers, cs, toList>>
     ELSE EndMaintenance /\ UNCHANGED sets
  /\ UNCHANGED <<notMaint, storage>>

\* The parts of a compaction are stored one by one.
WritePart(s) ==
  /\ pc[M] = "compactWrite" /\ s \in parts
  /\ LET c == {x \in content : x[2] = s} IN
       IF op = "compactSingle"
       THEN /\ singles' = singles \cup
                 {[epoch |-> lo, set |-> sets, shard |-> s, content |-> c, ts |-> now]}
            /\ UNCHANGED ranges
       ELSE /\ ranges' = ranges \cup
                 {[min |-> lo, max |-> hi, set |-> sets, shard |-> s, content |-> c]}
            /\ UNCHANGED singles
  /\ IF parts = {s} THEN EndMaintenance
     ELSE /\ parts' = parts \ {s}
          /\ UNCHANGED <<op, lo, hi, blobs, content, doomed, doomedMarkers, cs, toList, pc>>
  /\ UNCHANGED <<notMaint, markers, uncompacted, sets>>

\* Mutant: the current marker is deleted too.
CleanupAllMarkers ==
  /\ pc[M] = "cleanupMarkers"
  /\ LET old == {n \in cs[M].EpochMarkerBlobs : n <= cs[M].WriteEpoch} IN
       IF cs[M].UncompactedEpochSets # {} /\ old # {}
       THEN /\ doomedMarkers' = old /\ Goto(M, "deleteMarkers")
            /\ UNCHANGED <<op, lo, hi, blobs, content, parts, doomed, cs, toList>>
       ELSE EndMaintenance
  /\ UNCHANGED <<notMaint, storage, sets>>

\* CleanupMarkers: without uncompacted blobs there is no storage clock and nothing happens.
CleanupMarkers ==
  /\ pc[M] = "cleanupMarkers"
  /\ LET old == {n \in cs[M].EpochMarkerBlobs : n < cs[M].WriteEpoch - 1} IN
       IF cs[M].UncompactedEpochSets # {} /\ old # {}
       THEN /\ doomedMarkers' = old /\ Goto(M, "deleteMarkers")
            /\ UNCHANGED <<op, lo, hi, blobs, content, parts, doomed, cs, toList>>
       ELSE EndMaintenance
  /\ UNCHANGED <<notMaint, storage, sets>>

DeleteMarker(n) ==
  /\ pc[M] = "deleteMarkers" /\ n \in doomedMarkers
  /\ markers' = markers \ {n}
  /\ IF doomedMarkers = {n} THEN EndMaintenance
     ELSE /\ doomedMarkers' = doomedMarkers \ {n}
          /\ UNCHANGED <<op, lo, hi, blobs, content, parts, doomed, cs, toList, pc>>
  /\ UNCHANGED <<notMaint, uncompacted, singles, ranges, sets>>

\* Mutant: no safety margin.
WrittenEarlier(s, e) ==
  /\ e \in CompactedEpochs(s)
  /\ \A b \in OfEpoch(s.SingleEpochCompactionSets, e) :
       \E u \in s.UncompactedEpochSets : b.ts <= u.ts
\* Mutant: an epoch without a compaction passes (maxTime.IsZero is not looked at).
WrittenEarlyOrNever(s, e) ==
  \A b \in OfEpoch(s.SingleEpochCompactionSets, e) :
    \E u \in s.UncompactedEpochSets : b.ts < u.ts - CleanupSafetyMargin

\* blobSetWrittenEarlyEnough against maxCleanupTime minus the safety margin
WrittenEarlyEnough(s, e) ==
  /\ e \in CompactedEpochs(s)
  /\ \A b \in OfEpoch(s.SingleEpochCompactionSets, e) :
       \E u \in s.UncompactedEpochSets : b.ts < u.ts - CleanupSafetyMargin

\* CleanupSupersededIndexes lists all uncompacted blobs after it has got its snapshot.
CleanupSupersededIndexes ==
  /\ pc[M] = "cleanupIndexes"
  /\ LET old == {b \in uncompacted : WrittenEarlyEnough(cs[M], b.epoch)} IN
       IF cs[M].UncompactedEpochSets # {} /\ old # {}
       THEN /\ doomed' = old /\ Goto(M, "deleteIndexes")
            /\ UNCHANGED <<op, lo, hi, blobs, content, parts, doomedMarkers, cs, toList>>
       ELSE EndMaintenance
  /\ UNCHANGED <<notMaint, storage, sets>>

DeleteIndex(b) ==
  /\ pc[M] = "deleteIndexes" /\ b \in doomed
  /\ uncompacted' = uncompacted \ {b}
  /\ IF doomed = {b} THEN EndMaintenance
     ELSE /\ doomed' = doomed \ {b}
          /\ UNCHANGED <<op, lo, hi, blobs, content, parts, doomedMarkers, cs, toList, pc>>
  /\ UNCHANGED <<notMaint, markers, singles, ranges, sets>>

\* A storage call of maintenance fails; what is done stays done.
MaintenanceError ==
  /\ M \in Faulty
  /\ pc[M] \in {"advancePut", "compactList", "rangeList", "compactWrite",
                "deleteMarkers", "deleteIndexes"}
  /\ EndMaintenance
  /\ UNCHANGED <<notMaint, storage, sets>>

Maintain ==
  \/ \E o \in MaintenanceOps : StartMaintenance(o)
  \/ MaybeAdvanceWriteEpoch \/ advanceEpochMarker
  \/ MaybeCompactSingleEpoch \/ ListEpochToCompact
  \/ MaybeGenerateRangeCheckpoint \/ (\E e \in toList[M] : ListRangeEpoch(e)) \/ CheckRangeTime
  \/ CompactEpoch \/ (\E s \in Shards : WritePart(s))
  \/ CleanupMarkers \/ (\E n \in doomedMarkers : DeleteMarker(n))
  \/ CleanupSupersededIndexes \/ (\E b \in doomed : DeleteIndex(b))
  \/ MaintenanceError
----------------------------------------------------------------------------
(* The client process dies and is started again; only the blobs survive. *)
Active(p) == pc[p] \notin {"idle", "acked", "failed", "panicked"}
Crash(m) ==
  /\ \E p \in Procs : Mgr(p) = m /\ Active(p)
  /\ known' = [known EXCEPT ![m] = ZeroSnapshot]
  /\ attempt' = [attempt EXCEPT ![m] = ZeroSnapshot]
  /\ mu' = [mu EXCEPT ![m] = NoProc]
  /\ loads' = [loads EXCEPT ![m] = {}] /\ listed' = [listed EXCEPT ![m] = {}]
  /\ LET dead == {p \in Procs : Mgr(p) = m /\ Active(p)} IN
     /\ pc' = [p \in Procs |-> IF p \notin dead THEN pc[p]
                              ELSE IF p \in Writers THEN "failed" ELSE "idle"]
     /\ cs' = [p \in Procs |-> IF p \in dead THEN ZeroSnapshot ELSE cs[p]]
     /\ toList' = [p \in Procs |-> IF p \in dead THEN {} ELSE toList[p]]
     /\ maxEpoch' = [r \in Readers |-> IF r \in dead THEN -1 ELSE maxEpoch[r]]
     /\ result' = [r \in Readers |-> IF r \in dead THEN {} ELSE result[r]]
     /\ expected' = [r \in Readers |-> IF r \in dead THEN {} ELSE expected[r]]
     /\ IF M \in dead
        THEN /\ op' = "idle" /\ lo' = 0 /\ hi' = 0 /\ blobs' = {} /\ content' = {}
             /\ parts' = {} /\ doomed' = {} /\ doomedMarkers' = {}
        ELSE UNCHANGED maint
  /\ UNCHANGED <<now, storage, writing, sets, acked>>

Next ==
  \/ Tick
  \/ \E p \in Procs : Refresh(p)
  \/ \E w \in Writers : Write(w)
  \/ \E r \in Readers : Read(r)
  \/ Maintain
  \/ \E m \in Crashable : Crash(m)

Spec == Init /\ [][Next]_vars
----------------------------------------------------------------------------
(* Properties *)
Places == {"idle", "writeState", "writeEpoch", "writeShard", "writePut", "writeRecheck",
           "writeVerify", "writeUndo", "acked", "failed",
           "readState", "readRange", "readList", "readDone", "panicked",
           "maintState", "advancePut", "compactList", "compactRead", "compactWrite",
           "rangeList", "deleteMarkers", "deleteIndexes"} \cup AllOps
StorageOK ==
  /\ now \in Nat /\ markers \subseteq Epochs /\ uncompacted \subseteq IndexBlob
  /\ singles \subseteq IndexBlob /\ ranges \subseteq RangeBlob
ManagerOK ==
  /\ mu \in [Managers -> Procs \cup {NoProc}]
  /\ known \in [Managers -> Snapshot] /\ attempt \in [Managers -> Snapshot]
  /\ loads \in [Managers -> SUBSET {"writeEpoch", "single", "range"}]
  /\ listed \in [Managers -> SUBSET Int]
ProcsOK == pc \in [Procs -> Places] /\ cs \in [Procs -> Snapshot] /\ toList \in [Procs -> SUBSET Int]
WritersOK == /\ writtenFor \in [Writers -> Epochs \cup {-1}]
             /\ written \in [Writers -> SUBSET Shards] /\ acked \subseteq Ack
ReadersOK == /\ maxEpoch \in [Readers -> Int] /\ result \in [Readers -> SUBSET Entries]
             /\ expected \in [Readers -> SUBSET Ack]
MaintenanceOK ==
  /\ op \in AllOps \cup {"idle"} /\ lo \in Int /\ hi \in Int
  /\ blobs \subseteq IndexBlob /\ content \subseteq Entries /\ parts \subseteq Shards
  /\ sets \in 0..MaxSets /\ doomed \subseteq IndexBlob /\ doomedMarkers \subseteq Epochs

\* The state, the snapshots and the locals of every call stay within their types; in
\* particular blobs are only ever named after an epoch that WriteIndex has chosen.
TypeOK == StorageOK /\ ManagerOK /\ ProcsOK /\ WritersOK /\ ReadersOK /\ MaintenanceOK

InStorage(a, s) == \E b \in uncompacted : b.epoch = a.epoch /\ b.set = a.write /\ b.shard = s
InCompaction(a, s) ==
  \E n \in CompleteSets(OfEpoch(singles, a.epoch)) :
    \E b \in OfEpoch(singles, a.epoch) : b.set = n /\ b.shard = s /\ <<a.write, s>> \in b.content

\* Once WriteIndex has returned without an error, every index entry of the write stays in
\* storage: in its uncompacted blob or in a complete single-epoch compaction.  It is what the
\* second look at the write epoch in WriteIndex and the two unsettled epochs are for.
AckedNeverLost == \A a \in acked : \A s \in Shards : InStorage(a, s) \/ InCompaction(a, s)

\* Every single-epoch compaction of an epoch, the parts of unfinished ones included, holds
\* every acknowledged entry of that epoch: readers take any complete one instead of the
\* uncompacted blobs, and cleanup deletes those on the strength of it.
SinglesCoverAcked ==
  \A a \in acked : \A s \in Shards : \A b \in singles :
    b.epoch = a.epoch /\ b.shard = s => <<a.write, s>> \in b.content

\* Every range checkpoint holds every acknowledged entry of its epochs, whether it was made
\* from single-epoch compactions, from uncompacted blobs or from both.
RangesCoverAcked ==
  \A a \in acked : \A s \in Shards : \A b \in ranges :
    b.min <= a.epoch /\ a.epoch <= b.max /\ b.shard = s => <<a.write, s>> \in b.content

\* GetCompleteIndexSet returns every entry acknowledged before the refresh behind its
\* snapshot, up to the epoch it looks at, whatever compaction and cleanup do meanwhile.
ReadComplete ==
  \A r \in Readers : pc[r] = "readDone" =>
    \A a \in cs[r].seen : a.epoch <= maxEpoch[r] => AckEntries(a) \subseteq result[r]

\* A client finds its own completed index writes, although it reads from a cached snapshot:
\* WriteIndex invalidates the snapshot before it returns.
ReadYourWrites ==
  \A r \in Readers : pc[r] = "readDone" =>
    \A a \in expected[r] : a.epoch <= maxEpoch[r] => AckEntries(a) \subseteq result[r]

\* WriteIndexBlobs is "atomic in the sense that if any of them fails, the reader will ignore
\* all of the indexes that share the same suffix": a reader gets all shards of a write or none.
WholeWritesOnly ==
  \A r \in Readers : pc[r] = "readDone" =>
    \A w \in Writes : LET e == {<<w, s>> : s \in Shards} IN e \subseteq result[r] \/ e \cap result[r] = {}

\* "LatestEpoch represents the current epoch number in GetCompleteIndexSet": a call for the
\* latest epoch returns every entry acknowledged before the refresh behind its snapshot.
LatestEpochComplete ==
  \A r \in Readers : pc[r] = "readDone" =>
    \A a \in cs[r].seen : AckEntries(a) \subseteq result[r]

\* The write epoch never goes back, although old markers are deleted and a maintainer
\* acting on an expired snapshot may write one again.
WriteEpochNeverBack == [][\A n \in markers : \E k \in markers' : k >= n]_vars

\* MaybeCompactSingleEpoch "compacts the oldest epoch that is eligible for compaction":
\* not one that its own snapshot shows as compacted.  It does, where a range checkpoint ends
\* beyond the first contiguous run of compacted epochs; elsewhere the theorems assume this.
CompactsUncompactedEpoch == pc[M] \in {"compactList", "compactRead"} /\ op = "compactSingle"
                              => lo \notin CompactedEpochs(cs[M])
============================================================================
