------------------------- MODULE MaintenanceProofs -------------------------
(***************************************************************************)
(* Proofs about Maintenance, for every number of clients and contents and  *)
(* every choice of the safety parameters.                                  *)
(***************************************************************************)
EXTENDS Maintenance, SequenceTheorems, WellFoundedInduction, TLAPS

\* A set of natural numbers that is not empty has a least element, which Min chooses.
LEMMA MinNat == ASSUME NEW T \in SUBSET Nat, T # {}
                PROVE  Min(T) \in T /\ \A y \in T : Min(T) <= y
<1> DEFINE R == OpToRel(<, Nat)
<1>1. IsWellFoundedOn(R, Nat)
  BY NatLessThanWellFounded
<1>2. \A x, y \in Nat : x < y => <<x, y>> \in R
  BY DEF OpToRel
<1> HIDE DEF R
<1>3. PICK x \in T : \A y \in T : ~(<<y, x>> \in R)
  BY <1>1, WFMin
<1>4. \A y \in T : ~(y < x)
  BY <1>2, <1>3
<1>5. \A y \in T : x <= y
  BY <1>4
<1> QED BY <1>5 DEF Min
----------------------------------------------------------------------------
(* Type correctness *)

ClientState == [uploading : BOOLEAN, started : Nat, checkpoint : Nat,
                prev : SUBSET Contents, refs : SUBSET Contents, pending : Index,
                session : Session \cup {Nil}, view : View \cup {Nil}, loaded : Nat]
RunState == [pc : Phases, start : Nat, view : View \cup {Nil}, pending : Index,
             session : Session \cup {Nil}, sessions : SUBSET Session]

\* A maintenance run has indexes.
RunHasView == m.pc # "idle" => m.view \in View
TypeInv == TypeOK /\ RunHasView

\* The parts of the types that change together.
StorageOK == /\ index \in Index /\ packs \subseteq Pack /\ sessions \subseteq Session /\ used \subseteq Contents
             /\ watermark \in Int
ScheduleOK == /\ gcRuns \in Seq(RunInfo) /\ Len(gcRuns) <= MaxRetainedRunInfo
              /\ rewriteEnd \in Nat \cup {Nil} /\ deleteEnd \in Nat \cup {Nil} /\ nextFull \in Nat
ClientsOK == client \in [Clients -> ClientState]
RunOK == m \in RunState /\ RunHasView
CountersOK == now \in Nat /\ faults \in Nat /\ uploads \in Nat /\ runs \in Nat
\* TypeInv is their conjunction.
LEMMA TypeParts == TypeInv <=> StorageOK /\ ScheduleOK /\ ClientsOK /\ RunOK /\ CountersOK
  BY DEF TypeInv, TypeOK, StorageOK, ScheduleOK, ClientsOK, RunOK, CountersOK, ClientState, RunState
\* The same in the next state.
LEMMA TypePartsNext == StorageOK' /\ ScheduleOK' /\ ClientsOK' /\ RunOK' /\ CountersOK' => TypeInv'
  BY DEF TypeInv, TypeOK, StorageOK, ScheduleOK, ClientsOK, RunOK, CountersOK, ClientState, RunState

\* What is left alone keeps its type.
LEMMA Unchanged == /\ StorageOK /\ UNCHANGED storage => StorageOK'
                   /\ ScheduleOK /\ UNCHANGED schedule => ScheduleOK'
                   /\ ClientsOK /\ UNCHANGED client => ClientsOK'
                   /\ RunOK /\ UNCHANGED m => RunOK'
                   /\ CountersOK /\ UNCHANGED <<now, counters>> => CountersOK'
  BY DEF StorageOK, ScheduleOK, ClientsOK, RunOK, RunHasView, CountersOK, storage, schedule, counters

\* The merge of two indexes has one of their entries for each content: the new one when there is no
\* old one or when it wins.
LEMMA MergeFacts ==
  ASSUME NEW old \in Index, NEW new \in Index, NEW tie
  PROVE  /\ Merge(old, new, tie) \in Index
         /\ \A c \in Contents : /\ Merge(old, new, tie)[c] \in {old[c], new[c]}
                                /\ new[c] = Nil => Merge(old, new, tie)[c] = old[c]
                                /\ old[c] # Nil \/ new[c] # Nil => Merge(old, new, tie)[c] # Nil
                                /\ old[c] # Nil /\ new[c] # Nil =>
                                     Merge(old, new, tie)[c] = IF GreaterThan(new[c], old[c], tie) THEN new[c] ELSE old[c]
  BY DEF Merge, Index

\* An entry that is written has a timestamp after the one before.
LEMMA WrittenFacts ==
  ASSUME now \in Nat, NEW c \in Contents, NEW s \in Session, NEW t \in Int, NEW d \in BOOLEAN
  PROVE  /\ WrittenEntry(c, s, t, d) \in Entry /\ WrittenEntry(c, s, t, d).ts > t /\ WrittenEntry(c, s, t, d).deleted = d
         /\ WrittenEntry(c, s, t, d).pack = [content |-> c, at |-> now, session |-> s]
<1>1. ContentWriteTime(t) \in Nat /\ ContentWriteTime(t) > t
  BY DEF ContentWriteTime
<1>2. [content |-> c, at |-> now, session |-> s] \in Pack
  BY DEF Pack
<1> QED BY <1>1, <1>2 DEF WrittenEntry, Entry

\* The packs of an index are packs.
LEMMA PacksOfType == ASSUME NEW ndx \in Index PROVE PacksOf(ndx) \subseteq Pack
  BY DEF PacksOf, Index, Entry

\* What a writer sees of a content is the entry in its indexes.
LEMMA InViewFacts == ASSUME NEW v \in View, NEW c \in Contents
                     PROVE  /\ InView(v, c) \in Entry \cup {Nil}
                            /\ InView(v, c) # Nil => InView(v, c) = v.index[c] /\ v.index[c] \in Entry /\ v.index[c] # Nil
  BY DEF InView, GetContent, View, Index

\* The indexes in storage, as a writer loads them.
LEMMA CurrentType == StorageOK => Current \in View
  BY DEF StorageOK, Current, View

\* An index without entries.
LEMMA NoEntriesType == NoEntries \in Index
  BY DEF NoEntries, Index

\* A client that uploads nothing.
LEMMA IdleClientType == ASSUME NEW v \in View \cup {Nil}, NEW t \in Nat PROVE IdleClient(v, t) \in ClientState
  BY NoEntriesType DEF IdleClient, ClientState

\* No run.
LEMMA IdleRunType == IdleRun \in RunState /\ IdleRun.pc = "idle"
  BY NoEntriesType DEF IdleRun, RunState, Phases

\* Storing entries adds them to the cached indexes.
LEMMA WithEntriesType == ASSUME NEW v \in View \cup {Nil}, NEW new \in Index, NEW tie
                         PROVE  /\ WithEntries(v, new, tie) \in View \cup {Nil}
                                /\ v \in View => WithEntries(v, new, tie) \in View
                                /\ v # Nil => WithEntries(v, new, tie).index = Merge(v.index, new, tie)
                                /\ v # Nil => WithEntries(v, new, tie).used = v.used
<1>1. v \in View => v.index \in Index /\ Merge(v.index, new, tie) \in Index
  BY MergeFacts DEF View
<1> HIDE DEF Merge
<1> QED BY <1>1 DEF WithEntries, View

\* The initial state is well typed.
LEMMA InitType == Init => TypeInv
<1> SUFFICES ASSUME Init PROVE TypeInv
  OBVIOUS
<1>1. now = 0 /\ FirstSession \in Session
  BY DEF Init, FirstSession, Session, Writers
<1>2. \A c \in Contents : WrittenEntry(c, FirstSession, -1, FALSE) \in Entry
  <2>1. now \in Nat /\ -1 \in Int /\ FALSE \in BOOLEAN
    BY <1>1
  <2> QED BY <1>1, <2>1, WrittenFacts
<1>3. index \in Index
  BY <1>2 DEF Init, Index
<1>4. StorageOK
  <2>1. packs = PacksOf(index) /\ sessions = {} /\ used = Initial /\ watermark = -1
    BY DEF Init
  <2>2. packs \subseteq Pack
    BY <1>3, <2>1, PacksOfType
  <2> QED BY <1>3, <2>1, <2>2, MaintenanceAssumption DEF StorageOK
<1>5. ClientsOK
  <2>1. IdleClient(Current, 0) \in ClientState
    BY <1>4, CurrentType, IdleClientType
  <2> QED BY <2>1 DEF Init, ClientsOK
<1>6. RunOK
  BY IdleRunType DEF Init, RunOK, RunHasView
<1>7. ScheduleOK /\ CountersOK
  BY DEF Init, ScheduleOK, CountersOK, MaxRetainedRunInfo
<1> QED BY <1>4, <1>5, <1>6, <1>7, TypeParts

\* A client's state is replaced.
LEMMA ClientType == ASSUME ClientsOK, NEW u \in Clients, NEW r \in ClientState, client' = [client EXCEPT ![u] = r]
                    PROVE  ClientsOK'
  BY DEF ClientsOK

\* Loading indexes, starting an upload, taking over an entry, and an upload that dies.
LEMMA ClientReadType ==
  ASSUME TypeInv, NEW u \in Clients,
         Refresh(u) \/ StartUpload(u) \/ AbandonUpload(u) \/ \E c \in Contents : ReuseCachedEntry(u, c)
  PROVE  TypeInv'
<1>0. StorageOK /\ ScheduleOK /\ ClientsOK /\ RunOK /\ CountersOK
  BY TypeParts
<1>1. client[u] \in ClientState /\ Current \in View
  BY <1>0, CurrentType DEF ClientsOK
<1>2. StorageOK' /\ ScheduleOK' /\ RunOK'
  BY <1>0, Unchanged DEF Refresh, StartUpload, AbandonUpload, ReuseCachedEntry
<1>3. CountersOK'
  <2>1. /\ now' = now /\ runs' = runs
        /\ uploads' = uploads \/ uploads' = uploads + 1
        /\ faults' = faults \/ faults' = faults + 1
    BY DEF Refresh, StartUpload, AbandonUpload, ReuseCachedEntry, counters
  <2> QED BY <1>0, <2>1 DEF CountersOK
<1>4. ClientsOK'
  <2>1. CASE Refresh(u)
    <3>1. [client[u] EXCEPT !.view = Current, !.loaded = now] \in ClientState
      BY <1>0, <1>1 DEF ClientState, CountersOK
    <3>2. client' = [client EXCEPT ![u] = [client[u] EXCEPT !.view = Current, !.loaded = now]]
      BY <2>1 DEF Refresh, ClientsOK
    <3> QED BY <1>0, <3>1, <3>2, ClientType
  <2>2. CASE StartUpload(u)
    <3>1. PICK reopened \in BOOLEAN : client' = [client EXCEPT ![u] =
            [client[u] EXCEPT !.uploading = TRUE, !.started = now, !.checkpoint = now,
               !.prev = IF ForceHash THEN {} ELSE (IF reopened THEN Current ELSE client[u].view).used,
               !.view = IF reopened THEN Current ELSE client[u].view,
               !.loaded = IF reopened THEN now ELSE client[u].loaded]]
      BY <2>2 DEF StartUpload
    <3>2. client[u].view \in View
      BY <1>1, <2>2 DEF StartUpload, ClientState
    <3> DEFINE v == IF reopened THEN Current ELSE client[u].view
               r == [client[u] EXCEPT !.uploading = TRUE, !.started = now, !.checkpoint = now,
                       !.prev = IF ForceHash THEN {} ELSE v.used, !.view = v,
                       !.loaded = IF reopened THEN now ELSE client[u].loaded]
    <3>3. v \in View /\ v.used \subseteq Contents
      BY <1>1, <3>2 DEF View
    <3>4. client' = [client EXCEPT ![u] = r]
      BY <3>1
    <3> HIDE DEF v
    <3>5. r \in ClientState
      BY <1>0, <1>1, <3>3 DEF ClientState, CountersOK
    <3> HIDE DEF r
    <3> QED BY <1>0, <3>4, <3>5, ClientType
  <2>3. CASE AbandonUpload(u)
    <3>1. IdleClient(client[u].view, client[u].loaded) \in ClientState
      BY <1>1, IdleClientType DEF ClientState
    <3> QED BY <1>0, <2>3, <3>1, ClientType DEF AbandonUpload
  <2>4. ASSUME NEW c \in Contents, ReuseCachedEntry(u, c) PROVE ClientsOK'
    <3>1. [client[u] EXCEPT !.refs = client[u].refs \cup {c}] \in ClientState
      BY <1>1 DEF ClientState
    <3>2. client' = [client EXCEPT ![u] = [client[u] EXCEPT !.refs = client[u].refs \cup {c}]]
      BY <2>4 DEF ReuseCachedEntry
    <3> QED BY <1>0, <3>1, <3>2, ClientType
  <2> QED BY <2>1, <2>2, <2>3, <2>4
<1> QED BY <1>2, <1>3, <1>4, TypePartsNext

\* Writing a content.
LEMMA WriteType == ASSUME TypeInv, NEW u \in Clients, NEW c \in Contents, WriteContent(u, c) PROVE TypeInv'
<1> DEFINE known == IF client[u].pending[c] # Nil THEN client[u].pending[c] ELSE InView(client[u].view, c)
           session == IF client[u].session # Nil THEN client[u].session ELSE [by |-> u, start |-> now]
           entry == WrittenEntry(c, session, IF known = Nil THEN -1 ELSE known.ts, FALSE)
<1>0. StorageOK /\ ScheduleOK /\ ClientsOK /\ RunOK /\ CountersOK
  BY TypeParts
<1>1. client[u] \in ClientState /\ client[u].view \in View /\ client[u].pending \in Index
  BY <1>0 DEF ClientsOK, ClientState, WriteContent
<1>2. known \in Entry \cup {Nil} /\ (known # Nil => known.ts \in Int)
  <2>1. InView(client[u].view, c) \in Entry \cup {Nil}
    BY <1>1, InViewFacts
  <2>2. known \in Entry \cup {Nil}
    BY <1>1, <2>1 DEF Index
  <2> QED BY <2>2 DEF Entry
<1>3. session \in Session
  <2>1. client[u].session \in Session \cup {Nil}
    BY <1>1 DEF ClientState
  <2>2. [by |-> u, start |-> now] \in Session
    BY <1>0 DEF Session, Writers, CountersOK
  <2> QED BY <2>1, <2>2
<1>4. \/ client' = [client EXCEPT ![u] = [client[u] EXCEPT !.refs = client[u].refs \cup {c}]] /\ UNCHANGED <<packs, sessions>>
      \/ /\ client' = [client EXCEPT ![u] = [client[u] EXCEPT
               !.refs = client[u].refs \cup {c}, !.pending = [client[u].pending EXCEPT ![c] = entry], !.session = session]]
         /\ packs' = packs \cup {entry.pack} /\ sessions' = sessions \cup {session}
  BY DEF WriteContent
<1>5. UNCHANGED <<now, index, watermark, used, schedule, m, counters>>
  BY DEF WriteContent
<1> HIDE DEF session, known
<1>6. entry \in Entry /\ entry.pack \in Pack
  <2>1. (IF known = Nil THEN -1 ELSE known.ts) \in Int /\ now \in Nat
    BY <1>0, <1>2 DEF CountersOK
  <2>2. WrittenEntry(c, session, IF known = Nil THEN -1 ELSE known.ts, FALSE) \in Entry
    BY <1>3, <2>1, WrittenFacts
  <2> HIDE DEF entry
  <2>3. entry \in Entry
    BY <2>2 DEF entry
  <2> QED BY <2>3 DEF Entry
<1> HIDE DEF entry
<1>7. StorageOK'
  BY <1>0, <1>3, <1>4, <1>5, <1>6 DEF StorageOK
<1>8. ClientsOK'
  <2>1. [client[u] EXCEPT !.refs = client[u].refs \cup {c}] \in ClientState
    BY <1>1 DEF ClientState
  <2>2. [client[u].pending EXCEPT ![c] = entry] \in Index
    BY <1>1, <1>6 DEF Index
  <2>3. [client[u] EXCEPT !.refs = client[u].refs \cup {c}, !.pending = [client[u].pending EXCEPT ![c] = entry],
                          !.session = session] \in ClientState
    BY <1>1, <1>3, <2>2 DEF ClientState
  <2> QED BY <1>0, <1>4, <2>1, <2>3, ClientType
<1>9. ScheduleOK' /\ RunOK' /\ CountersOK'
  BY <1>0, <1>5, Unchanged
<1> QED BY <1>7, <1>8, <1>9, TypePartsNext

\* Storing what a client has pending.
LEMMA CommitFacts ==
  ASSUME StorageOK, ClientsOK, NEW u \in Clients, NEW tie \in BOOLEAN, NEW r \in ClientState, CommitPending(u, tie, r)
  PROVE  index' \in Index /\ sessions' \subseteq Session /\ ClientsOK'
<1>1. client[u].pending \in Index
  BY DEF ClientsOK, ClientState
<1>2. index' \in Index /\ sessions' \subseteq Session
  BY <1>1, MergeFacts DEF CommitPending, StorageOK
<1>3. WithEntries(r.view, client[u].pending, tie) \in View \cup {Nil}
  BY <1>1, WithEntriesType DEF ClientState
<1>4. [r EXCEPT !.pending = NoEntries, !.session = Nil, !.view = WithEntries(r.view, client[u].pending, tie)] \in ClientState
  BY <1>3, NoEntriesType DEF ClientState
<1> QED BY <1>2, <1>4, ClientType DEF CommitPending

\* Index flushes, checkpoints and the end of an upload, and deleting snapshots.
LEMMA CommitType ==
  ASSUME TypeInv,
         \/ DeleteSnapshots
         \/ \E u \in Clients, tie \in BOOLEAN : FlushIndex(u, tie) \/ CheckpointRoot(u, tie) \/ FinishUpload(u, tie)
  PROVE  TypeInv'
<1>0. StorageOK /\ ScheduleOK /\ ClientsOK /\ RunOK /\ CountersOK
  BY TypeParts
<1>1. ScheduleOK' /\ RunOK' /\ CountersOK'
  BY <1>0, Unchanged DEF DeleteSnapshots, FlushIndex, CheckpointRoot, FinishUpload
<1>2. CASE DeleteSnapshots
  <2>1. used' \subseteq used /\ UNCHANGED <<index, watermark, packs, sessions, client>>
    BY <1>2 DEF DeleteSnapshots
  <2> QED BY <1>0, <1>1, <2>1, TypePartsNext, Unchanged DEF StorageOK
<1>3. ASSUME NEW u \in Clients, NEW tie \in BOOLEAN, FlushIndex(u, tie) \/ CheckpointRoot(u, tie) \/ FinishUpload(u, tie)
      PROVE  TypeInv'
  <2>1. client[u] \in ClientState
    BY <1>0 DEF ClientsOK
  <2>2. PICK r \in ClientState : CommitPending(u, tie, r)
    <3>1. CASE FlushIndex(u, tie)
      BY <2>1, <3>1 DEF FlushIndex
    <3>2. CASE CheckpointRoot(u, tie)
      <4>1. [client[u] EXCEPT !.checkpoint = now] \in ClientState
        BY <1>0, <2>1 DEF ClientState, CountersOK
      <4> QED BY <3>2, <4>1 DEF CheckpointRoot
    <3>3. CASE FinishUpload(u, tie)
      <4>1. IdleClient(client[u].view, client[u].loaded) \in ClientState
        BY <2>1, IdleClientType DEF ClientState
      <4> QED BY <3>3, <4>1 DEF FinishUpload
    <3> QED BY <1>3, <3>1, <3>2, <3>3
  <2>3. index' \in Index /\ sessions' \subseteq Session /\ ClientsOK'
    BY <1>0, <2>2, CommitFacts
  <2>4. UNCHANGED <<packs, watermark>> /\ used' \subseteq used \cup client[u].refs
    BY <1>3 DEF FlushIndex, CheckpointRoot, FinishUpload
  <2>5. used' \subseteq Contents
    BY <1>0, <2>1, <2>4 DEF StorageOK, ClientState
  <2> QED BY <1>0, <1>1, <2>3, <2>4, <2>5, TypePartsNext DEF StorageOK
<1> QED BY <1>2, <1>3

\* The record of a run is added, and no more than five are kept.
LEMMA WithRunType == ASSUME ScheduleOK, CountersOK, m.start \in Nat, NEW ok \in BOOLEAN
                     PROVE  WithRun(gcRuns, ok) \in Seq(RunInfo) /\ Len(WithRun(gcRuns, ok)) <= MaxRetainedRunInfo
<1> DEFINE all == <<[start |-> m.start, end |-> now, success |-> ok]>> \o gcRuns
           k == Min({Len(all), MaxRetainedRunInfo})
<1>1. [start |-> m.start, end |-> now, success |-> ok] \in RunInfo
  BY DEF RunInfo, CountersOK
<1>2. all \in Seq(RunInfo)
  <2>1. <<[start |-> m.start, end |-> now, success |-> ok]>> \in Seq(RunInfo)
    BY <1>1
  <2> QED BY <2>1, ConcatProperties DEF ScheduleOK
<1>3. WithRun(gcRuns, ok) = SubSeq(all, 1, k)
  BY DEF WithRun
<1> HIDE DEF all
<1>4. Len(all) \in Nat /\ {Len(all), MaxRetainedRunInfo} \in SUBSET Nat
  BY <1>2 DEF MaxRetainedRunInfo
<1>5. k \in Nat /\ k <= Len(all) /\ k <= MaxRetainedRunInfo
  BY <1>4, MinNat
<1> HIDE DEF k
<1>6. SubSeq(all, 1, k) \in Seq(RunInfo) /\ Len(SubSeq(all, 1, k)) = k
  BY <1>2, <1>4, <1>5
<1> QED BY <1>3, <1>5, <1>6

\* A time until which deleted contents may be dropped is the start of a recorded run, less the margin.
LEMMA SafeTimeType == ASSUME ScheduleOK PROVE FindSafeDropTime(gcRuns) \in Int \cup {Nil}
<1> DEFINE ok == {i \in DOMAIN gcRuns : gcRuns[i].success}
           latest == Min(ok)
           earlier == {i \in ok \ {latest} : gcRuns[latest].start - gcRuns[i].end > MarginBetweenSnapshotGC}
<1>1. DOMAIN gcRuns = 1..Len(gcRuns) /\ DOMAIN gcRuns \subseteq Nat
  BY DEF ScheduleOK
<1>2. FindSafeDropTime(gcRuns) = IF ok = {} \/ earlier = {} THEN Nil
                                 ELSE gcRuns[Min(earlier)].start - DropContentFromIndexExtraMargin
  BY DEF FindSafeDropTime
<1>3. earlier \in SUBSET Nat /\ earlier \subseteq DOMAIN gcRuns
  BY <1>1
<1> HIDE DEF earlier
<1>4. earlier # {} => Min(earlier) \in 1..Len(gcRuns)
  BY <1>1, <1>3, MinNat
<1>5. earlier # {} => gcRuns[Min(earlier)] \in RunInfo
  BY <1>4, ElementOfSeq DEF ScheduleOK
<1>6. earlier # {} => gcRuns[Min(earlier)].start - DropContentFromIndexExtraMargin \in Int
  BY <1>5, MaintenanceAssumption DEF RunInfo
<1> QED BY <1>2, <1>6

\* The run goes on with its state replaced.
LEMMA RunType == ASSUME NEW r \in RunState, m' = r, r.pc = "idle" \/ r.view \in View PROVE RunOK'
  BY DEF RunOK, RunHasView

\* What snapshot GC decides about a content.
LEMMA CollectedFacts ==
  ASSUME TypeInv, m.pc = "gc", NEW c \in Contents
  PROVE  LET e == CollectedEntry(c) IN
         /\ e \in Entry \cup {Nil}
         /\ c \in m.view.used => e = Nil \/ ~e.deleted
         /\ c \in m.view.used /\ InView(m.view, c) # Nil /\ m.view.index[c].deleted =>
              e # Nil /\ ~e.deleted /\ e.ts > m.view.index[c].ts
<1> DEFINE entry == InView(m.view, c)
<1>0. now \in Nat /\ m.view \in View /\ MaintenanceSession \in Session
  BY DEF TypeInv, TypeOK, RunHasView, MaintenanceSession, Session, Writers
<1>1. entry \in Entry \cup {Nil} /\ (entry # Nil => entry = m.view.index[c] /\ entry \in Entry /\ entry.ts \in Int)
  <2>1. entry \in Entry \cup {Nil} /\ (entry # Nil => entry = m.view.index[c])
    BY <1>0, InViewFacts
  <2> HIDE DEF entry
  <2> QED BY <2>1 DEF Entry
<1>2. entry # Nil => /\ WrittenEntry(c, MaintenanceSession, entry.ts, FALSE) \in Entry
                     /\ WrittenEntry(c, MaintenanceSession, entry.ts, FALSE).ts > entry.ts
                     /\ ~WrittenEntry(c, MaintenanceSession, entry.ts, FALSE).deleted
  <2> HIDE DEF entry
  <2> QED BY <1>0, <1>1, WrittenFacts
<1>3. entry # Nil => [entry EXCEPT !.deleted = TRUE, !.ts = ContentWriteTime(entry.ts)] \in Entry
  <2> HIDE DEF entry
  <2>1. entry # Nil => ContentWriteTime(entry.ts) \in Nat
    BY <1>0, <1>1 DEF ContentWriteTime
  <2> QED BY <1>1, <2>1 DEF Entry
<1>4. CollectedEntry(c) =
        IF entry = Nil THEN Nil
        ELSE IF c \in m.view.used
             THEN IF entry.deleted THEN WrittenEntry(c, MaintenanceSession, entry.ts, FALSE) ELSE Nil
        ELSE IF m.start - entry.ts < MinContentAgeSubjectToGC \/ entry.deleted THEN Nil
        ELSE [entry EXCEPT !.deleted = TRUE, !.ts = ContentWriteTime(entry.ts)]
  BY DEF CollectedEntry
<1> HIDE DEF entry
<1>5. CollectedEntry(c) \in Entry \cup {Nil}
  BY <1>2, <1>3, <1>4
<1>6. c \in m.view.used => CollectedEntry(c) = Nil \/ ~CollectedEntry(c).deleted
  BY <1>2, <1>4
<1>7. c \in m.view.used /\ entry # Nil /\ m.view.index[c].deleted =>
        CollectedEntry(c) # Nil /\ ~CollectedEntry(c).deleted /\ CollectedEntry(c).ts > m.view.index[c].ts
  BY <1>1, <1>2, <1>4, NilAssumption
<1> QED BY <1>5, <1>6, <1>7 DEF entry

\* Starting a run, and snapshot GC.
LEMMA CollectType == ASSUME TypeInv, RunExclusive \/ SnapshotGC \/ \E tie \in BOOLEAN : SnapshotGCFlush(tie) PROVE TypeInv'
<1>0. StorageOK /\ ScheduleOK /\ ClientsOK /\ RunOK /\ CountersOK
  BY TypeParts
<1>1. m \in RunState /\ Current \in View /\ (m.pc # "idle" => m.view \in View) /\ now \in Nat
  BY <1>0, CurrentType DEF RunOK, RunHasView, CountersOK
<1>2. ClientsOK'
  BY <1>0, Unchanged DEF RunExclusive, SnapshotGC, SnapshotGCFlush
<1>3. CASE RunExclusive
  <2> DEFINE r == [IdleRun EXCEPT !.pc = "gc", !.start = now, !.view = Current]
  <2>1. r \in RunState /\ r.view \in View
    BY <1>1, IdleRunType DEF RunState, Phases
  <2>2. m' = r
    BY <1>3 DEF RunExclusive
  <2> HIDE DEF r
  <2>3. RunOK'
    BY <2>1, <2>2, RunType
  <2>4. StorageOK'
    BY <1>0, <1>3, Unchanged DEF RunExclusive
  <2>5. nextFull' \in Nat
    <3>1. nextFull' = now + FullCycleInterval /\ FullCycleInterval \in Nat
      BY <1>3, MaintenanceAssumption DEF RunExclusive
    <3> QED BY <1>1, <3>1
  <2>6. ScheduleOK'
    BY <1>0, <1>3, <2>5 DEF RunExclusive, ScheduleOK
  <2>7. CountersOK'
    <3>1. now' = now /\ runs' = runs + 1 /\ faults' = faults /\ uploads' = uploads
      BY <1>3 DEF RunExclusive
    <3> QED BY <1>0, <3>1 DEF CountersOK
  <2> QED BY <1>2, <2>3, <2>4, <2>6, <2>7, TypePartsNext
<1>4. CASE SnapshotGC
  <2> DEFINE collected == [c \in Contents |-> CollectedEntry(c)]
             r == [m EXCEPT !.pc = "gcFlush", !.pending = collected, !.session = MaintenanceSession]
  <2>1. m.pc = "gc" /\ m' = r /\ packs' = packs \cup {p \in PacksOf(collected) : p.session = MaintenanceSession}
        /\ (sessions' = sessions \/ sessions' = sessions \cup {MaintenanceSession})
        /\ UNCHANGED <<now, index, watermark, used, schedule, client, counters>>
    BY <1>4 DEF SnapshotGC
  <2>2. MaintenanceSession \in Session
    BY <1>1 DEF MaintenanceSession, Session, Writers
  <2>3. \A c \in Contents : CollectedEntry(c) \in Entry \cup {Nil}
    BY <2>1, CollectedFacts
  <2>4. collected \in Index
    BY <2>3 DEF Index
  <2> HIDE DEF collected
  <2>5. r \in RunState /\ r.view \in View
    BY <1>1, <2>1, <2>2, <2>4 DEF RunState, Phases
  <2> HIDE DEF r
  <2>6. RunOK'
    BY <2>1, <2>5, RunType
  <2>7. StorageOK'
    BY <1>0, <2>1, <2>2, <2>4, PacksOfType DEF StorageOK
  <2> QED BY <1>0, <1>2, <2>1, <2>6, <2>7, TypePartsNext, Unchanged
<1>5. ASSUME NEW tie \in BOOLEAN, SnapshotGCFlush(tie) PROVE TypeInv'
  <2> DEFINE r == [m EXCEPT !.pc = "gcReport", !.pending = NoEntries, !.session = Nil, !.view = WithEntries(m.view, m.pending, tie)]
  <2>1. m.pc = "gcFlush" /\ m' = r /\ index' = Merge(index, m.pending, tie) /\ sessions' \subseteq sessions
        /\ UNCHANGED <<now, watermark, packs, used, schedule, client, counters>>
    BY <1>5 DEF SnapshotGCFlush
  <2>2. m.pending \in Index /\ WithEntries(m.view, m.pending, tie) \in View
    BY <1>1, <2>1, WithEntriesType DEF RunState
  <2>3. r \in RunState /\ r.view \in View
    BY <1>1, <2>2, NoEntriesType DEF RunState, Phases
  <2> HIDE DEF r
  <2>4. index' \in Index
    BY <1>0, <2>1, <2>2, MergeFacts DEF StorageOK
  <2>5. StorageOK'
    BY <1>0, <2>1, <2>4 DEF StorageOK
  <2> QED BY <1>0, <1>2, <2>1, <2>3, <2>5, RunType, TypePartsNext, Unchanged
<1> QED BY <1>3, <1>4, <1>5

\* The record of snapshot GC, and the rewrite of contents.
LEMMA RewriteType == ASSUME TypeInv, \/ SnapshotGCFails \/ ReportSnapshotGC \/ ReportRewrite
                                     \/ \E tie \in BOOLEAN : RewriteContents(tie)
                     PROVE  TypeInv'
<1>0. StorageOK /\ ScheduleOK /\ ClientsOK /\ RunOK /\ CountersOK
  BY TypeParts
<1>1. m \in RunState /\ (m.pc # "idle" => m.view \in View) /\ now \in Nat /\ m.start \in Nat
  BY <1>0 DEF RunOK, RunHasView, RunState, CountersOK
<1>2. ClientsOK'
  BY <1>0, Unchanged DEF SnapshotGCFails, ReportSnapshotGC, ReportRewrite, RewriteContents
<1>3. CASE SnapshotGCFails
  <2>1. m' = IdleRun /\ gcRuns' = WithRun(gcRuns, FALSE) /\ (faults' = faults \/ faults' = faults + 1)
        /\ UNCHANGED <<now, storage, rewriteEnd, deleteEnd, nextFull, uploads, runs>>
    BY <1>3 DEF SnapshotGCFails
  <2>2. RunOK'
    BY <2>1, IdleRunType, RunType
  <2>3. ScheduleOK'
    BY <1>0, <1>1, <2>1, WithRunType DEF ScheduleOK
  <2>4. CountersOK'
    BY <1>0, <2>1 DEF CountersOK
  <2> QED BY <1>0, <1>2, <2>1, <2>2, <2>3, <2>4, Unchanged, TypePartsNext
<1>4. CASE ReportSnapshotGC
  <2>1. PICK l \in {"rewriting", "drop"} : m' = [m EXCEPT !.pc = l]
    BY <1>4 DEF ReportSnapshotGC
  <2>2. m.pc = "gcReport" /\ gcRuns' = WithRun(gcRuns, TRUE) /\ UNCHANGED <<now, storage, rewriteEnd, deleteEnd, nextFull, client, counters>>
    BY <1>4 DEF ReportSnapshotGC
  <2>3. [m EXCEPT !.pc = l] \in RunState /\ [m EXCEPT !.pc = l].view \in View
    BY <1>1, <2>2 DEF RunState, Phases
  <2>4. RunOK'
    BY <2>1, <2>3, RunType
  <2>5. ScheduleOK'
    BY <1>0, <1>1, <2>2, WithRunType DEF ScheduleOK
  <2> QED BY <1>0, <1>2, <2>2, <2>4, <2>5, Unchanged, TypePartsNext
<1>5. CASE ReportRewrite
  <2>1. m' = [m EXCEPT !.pc = "drop"] /\ m.pc = "rewriting" /\ rewriteEnd' = now /\ UNCHANGED <<now, storage, gcRuns, deleteEnd, nextFull, client, counters>>
    BY <1>5 DEF ReportRewrite
  <2>2. [m EXCEPT !.pc = "drop"] \in RunState /\ [m EXCEPT !.pc = "drop"].view \in View
    BY <1>1, <2>1 DEF RunState, Phases
  <2>3. RunOK'
    BY <2>1, <2>2, RunType
  <2>4. ScheduleOK'
    BY <1>0, <1>1, <2>1 DEF ScheduleOK
  <2> QED BY <1>0, <1>2, <2>1, <2>3, <2>4, Unchanged, TypePartsNext
<1>6. ASSUME NEW tie \in BOOLEAN, RewriteContents(tie) PROVE TypeInv'
  <2>1. m.pc = "rewriting" /\ UNCHANGED <<now, watermark, sessions, used, schedule, client, counters>>
    BY <1>6 DEF RewriteContents
  <2>2. PICK batch \in SUBSET {c \in Contents : InView(m.view, c) # Nil} :
          LET rewritten == [c \in Contents |->
                IF c \notin batch THEN Nil
                ELSE WrittenEntry(c, MaintenanceSession, m.view.index[c].ts, m.view.index[c].deleted)]
          IN  /\ packs' = packs \cup PacksOf(rewritten)
              /\ index' = Merge(index, rewritten, tie)
              /\ m' = [m EXCEPT !.view = WithEntries(m.view, rewritten, tie)]
    BY <1>6 DEF RewriteContents
  <2> DEFINE rewritten == [c \in Contents |->
                IF c \notin batch THEN Nil
                ELSE WrittenEntry(c, MaintenanceSession, m.view.index[c].ts, m.view.index[c].deleted)]
  <2>3. MaintenanceSession \in Session /\ m.view \in View
    BY <1>1, <2>1 DEF MaintenanceSession, Session, Writers
  <2>4. \A c \in batch : m.view.index[c] \in Entry /\ m.view.index[c].ts \in Int /\ m.view.index[c].deleted \in BOOLEAN
    <3>1. \A c \in batch : c \in Contents /\ m.view.index[c] \in Entry
      BY <2>3, InViewFacts
    <3> QED BY <3>1 DEF Entry
  <2>5. \A c \in batch : WrittenEntry(c, MaintenanceSession, m.view.index[c].ts, m.view.index[c].deleted) \in Entry
    BY <1>1, <2>3, <2>4, WrittenFacts
  <2>6. rewritten \in Index
    BY <2>5 DEF Index
  <2>7. packs' = packs \cup PacksOf(rewritten) /\ index' = Merge(index, rewritten, tie)
        /\ m' = [m EXCEPT !.view = WithEntries(m.view, rewritten, tie)]
    BY <2>2
  <2> HIDE DEF rewritten
  <2>8. WithEntries(m.view, rewritten, tie) \in View
    BY <2>3, <2>6, WithEntriesType
  <2>9. [m EXCEPT !.view = WithEntries(m.view, rewritten, tie)] \in RunState
        /\ [m EXCEPT !.view = WithEntries(m.view, rewritten, tie)].view \in View
    BY <1>1, <2>8 DEF RunState
  <2>10. RunOK'
    BY <2>7, <2>9, RunType
  <2>11. index' \in Index /\ packs' \subseteq Pack
    BY <1>0, <2>6, <2>7, MergeFacts, PacksOfType DEF StorageOK
  <2>12. StorageOK'
    BY <1>0, <2>1, <2>11 DEF StorageOK
  <2> QED BY <1>0, <1>2, <2>1, <2>10, <2>12, Unchanged, TypePartsNext
<1> QED BY <1>3, <1>4, <1>5, <1>6

\* Dropping and deleting, and a run that dies.
LEMMA DeleteType == ASSUME TypeInv, \/ DropDeletedContents \/ ListActiveSessions \/ DeleteUnreferencedBlobs
                                    \/ DeleteUnreferencedBlobsFails \/ MaintenanceStops
                    PROVE  TypeInv'
<1>0. StorageOK /\ ScheduleOK /\ ClientsOK /\ RunOK /\ CountersOK
  BY TypeParts
<1>1. m \in RunState /\ (m.pc # "idle" => m.view \in View) /\ now \in Nat
  BY <1>0 DEF RunOK, RunHasView, CountersOK
<1>2. ClientsOK'
  BY <1>0, Unchanged DEF DropDeletedContents, ListActiveSessions, DeleteUnreferencedBlobs, DeleteUnreferencedBlobsFails, MaintenanceStops
<1>3. CountersOK'
  <2>1. now' = now /\ uploads' = uploads /\ runs' = runs /\ (faults' = faults \/ faults' = faults + 1)
    BY DEF DropDeletedContents, ListActiveSessions, DeleteUnreferencedBlobs, DeleteUnreferencedBlobsFails, MaintenanceStops, counters
  <2> QED BY <1>0, <2>1 DEF CountersOK
<1>4. ScheduleOK'
  <2>1. UNCHANGED <<gcRuns, rewriteEnd, nextFull>> /\ (deleteEnd' = deleteEnd \/ deleteEnd' = now)
    BY DEF DropDeletedContents, ListActiveSessions, DeleteUnreferencedBlobs, DeleteUnreferencedBlobsFails, MaintenanceStops, schedule
  <2> QED BY <1>0, <1>1, <2>1 DEF ScheduleOK
<1>5. StorageOK'
  <2>1. UNCHANGED <<index, used>> /\ packs' \subseteq packs /\ sessions' \subseteq sessions
    BY DEF DropDeletedContents, ListActiveSessions, DeleteUnreferencedBlobs, DeleteUnreferencedBlobsFails, MaintenanceStops, storage
  <2>2. watermark' = watermark \/ (FindSafeDropTime(gcRuns) # Nil /\ watermark' = FindSafeDropTime(gcRuns))
    BY DEF DropDeletedContents, ListActiveSessions, DeleteUnreferencedBlobs, DeleteUnreferencedBlobsFails, MaintenanceStops, storage,
           AdvanceDeletionWatermark
  <2>3. watermark' \in Int
    BY <1>0, <2>2, SafeTimeType DEF StorageOK
  <2> QED BY <1>0, <2>1, <2>3 DEF StorageOK
<1>6. RunOK'
  <2>1. CASE m' = IdleRun
    BY <2>1, IdleRunType, RunType
  <2>2. CASE DropDeletedContents
    <3>1. m.pc = "drop"
      BY <2>2 DEF DropDeletedContents
    <3>2. CASE m' = [m EXCEPT !.pc = "orphans"]
      <4>1. [m EXCEPT !.pc = "orphans"] \in RunState /\ [m EXCEPT !.pc = "orphans"].view \in View
        BY <1>1, <3>1 DEF RunState, Phases
      <4> QED BY <3>2, <4>1, RunType
    <3>3. CASE m' = [m EXCEPT !.pc = "orphans", !.view = [Current EXCEPT !.watermark = watermark']]
      <4>1. [Current EXCEPT !.watermark = watermark'] \in View
        BY <1>0, <1>5, CurrentType DEF StorageOK, View
      <4>2. /\ [m EXCEPT !.pc = "orphans", !.view = [Current EXCEPT !.watermark = watermark']] \in RunState
            /\ [m EXCEPT !.pc = "orphans", !.view = [Current EXCEPT !.watermark = watermark']].view \in View
        BY <1>1, <4>1 DEF RunState, Phases
      <4> QED BY <3>3, <4>2, RunType
    <3> QED BY <2>2, <3>2, <3>3 DEF DropDeletedContents
  <2>3. CASE ListActiveSessions /\ m' = [m EXCEPT !.pc = "delete", !.sessions = sessions]
    <3>1. /\ [m EXCEPT !.pc = "delete", !.sessions = sessions] \in RunState
          /\ [m EXCEPT !.pc = "delete", !.sessions = sessions].view \in View
      BY <1>0, <1>1, <2>3 DEF RunState, Phases, StorageOK, ListActiveSessions
    <3> QED BY <2>3, <3>1, RunType
  <2> QED BY <2>1, <2>2, <2>3 DEF ListActiveSessions, DeleteUnreferencedBlobs, DeleteUnreferencedBlobsFails, MaintenanceStops
<1> QED BY <1>2, <1>3, <1>4, <1>5, <1>6, TypePartsNext

\* Time passes.
LEMMA TickType == ASSUME TypeInv, Tick PROVE TypeInv'
<1>0. StorageOK /\ ScheduleOK /\ ClientsOK /\ RunOK /\ CountersOK
  BY TypeParts
<1>1. StorageOK' /\ ScheduleOK' /\ RunOK'
  BY <1>0, Unchanged DEF Tick
<1>2. CountersOK'
  <2>1. now' = now + 1 /\ UNCHANGED <<faults, uploads, runs>>
    BY DEF Tick, counters
  <2> QED BY <1>0, <2>1 DEF CountersOK
<1>3. ClientsOK'
  <2>1. \A u \in Clients : client[u] \in ClientState /\ [client[u] EXCEPT !.view = Nil, !.loaded = 0] \in ClientState
    BY <1>0 DEF ClientsOK, ClientState
  <2>2. client' = [u \in Clients |-> IF now' > client[u].loaded + IndexRefreshFrequency
                                     THEN [client[u] EXCEPT !.view = Nil, !.loaded = 0] ELSE client[u]]
    BY DEF Tick
  <2> QED BY <2>1, <2>2 DEF ClientsOK
<1> QED BY <1>1, <1>2, <1>3, TypePartsNext

\* Every step keeps the types.
LEMMA NextType == TypeInv /\ [Next]_vars => TypeInv'
<1> SUFFICES ASSUME TypeInv, [Next]_vars PROVE TypeInv'
  OBVIOUS
<1>1. CASE UNCHANGED vars
  BY <1>1 DEF vars, storage, schedule, counters, TypeInv, TypeOK, RunHasView
<1>2. ASSUME NEW u \in Clients, ClientNext(u) PROVE TypeInv'
  BY <1>2, ClientReadType, WriteType, CommitType DEF ClientNext
<1>3. CASE MaintenanceNext
  BY <1>3, CollectType, RewriteType, DeleteType DEF MaintenanceNext
<1> QED BY <1>1, <1>2, <1>3, CommitType, TickType DEF Next

\* The types hold in every reachable state.
THEOREM TypeCorrect == Spec => []TypeOK
<1>1. TypeInv => TypeOK
  BY DEF TypeInv
<1> QED BY <1>1, InitType, NextType, PTL DEF Spec
----------------------------------------------------------------------------
(* Snapshot GC undeletes what is in use *)

\* No client deletes a content.
ClientsRestore == \A u \in Clients : \A c \in Contents : client[u].pending[c] = Nil \/ ~client[u].pending[c].deleted
\* What clients store while snapshot GC looks at the indexes it has loaded adds entries and replaces
\* deletions, so that every deletion there is, is one it sees.
RunSees == m.pc \in {"gc", "gcFlush"} => \A c \in Contents :
  /\ index[c] # Nil /\ index[c].deleted => index[c] = m.view.index[c]
  /\ m.view.index[c] # Nil => index[c] # Nil
\* It has decided to undelete the contents in use that it sees as deleted, with later timestamps.
RunUndeletes == m.pc = "gcFlush" => \A c \in m.view.used :
  /\ m.view.index[c] # Nil /\ (m.pending[c] = Nil \/ ~m.pending[c].deleted)
  /\ m.view.index[c].deleted => m.pending[c] # Nil /\ m.pending[c].ts > m.view.index[c].ts
\* When that is stored, the contents in use are not deleted, and stay so until the run is recorded.
RunRestored == m.pc = "gcReport" => \A c \in m.view.used : index[c] # Nil /\ ~index[c].deleted
GCInv == ClientsRestore /\ RunSees /\ RunUndeletes /\ RunRestored

\* Nothing is deleted initially.
LEMMA InitGC == Init => GCInv
<1> SUFFICES ASSUME Init PROVE GCInv
  OBVIOUS
<1>1. m.pc = "idle"
  BY DEF Init, IdleRun
<1>2. \A u \in Clients : \A c \in Contents : client[u].pending[c] = Nil
  BY DEF Init, IdleClient, NoEntries
<1> QED BY <1>1, <1>2 DEF GCInv, ClientsRestore, RunSees, RunUndeletes, RunRestored

\* The entry of a content in the merge with what a client has pending is the old one or not deleted.
LEMMA ClientMerge == ASSUME TypeInv, GCInv, NEW u \in Clients, NEW tie, NEW c \in Contents
                     PROVE  LET e == Merge(index, client[u].pending, tie)[c] IN
                            /\ e = index[c] \/ ~e.deleted
                            /\ index[c] # Nil => e # Nil
<1>1. index \in Index /\ client[u].pending \in Index
  BY DEF TypeInv, TypeOK
<1>2. client[u].pending[c] = Nil \/ ~client[u].pending[c].deleted
  BY DEF GCInv, ClientsRestore
<1> QED BY <1>1, <1>2, MergeFacts

\* A step of the clients: the run stays where it is, and entries only get restored.
ClientStep ==
  /\ UNCHANGED m /\ ClientsRestore'
  /\ \A c \in Contents : /\ index'[c] = index[c] \/ ~index'[c].deleted
                         /\ index[c] # Nil => index'[c] # Nil
\* Such a step keeps the invariant.
LEMMA ClientStepGC == ASSUME TypeInv, GCInv, ClientStep PROVE GCInv'
<1>1. (m.view \in View /\ m.view.used \subseteq Contents) \/ m.pc = "idle"
  BY DEF TypeInv, RunHasView, View
<1>2. RunSees'
  BY DEF ClientStep, GCInv, RunSees
<1>3. RunUndeletes'
  BY DEF ClientStep, GCInv, RunUndeletes
<1>4. RunRestored'
  BY <1>1 DEF ClientStep, GCInv, RunRestored
<1> QED BY <1>2, <1>3, <1>4 DEF ClientStep, GCInv

\* The clients' steps, deleting snapshots and the clock are such steps.
LEMMA ClientsStep == ASSUME TypeInv, GCInv, (\E u \in Clients : ClientNext(u)) \/ DeleteSnapshots \/ Tick \/ UNCHANGED vars PROVE ClientStep
<1>1. UNCHANGED m
  BY DEF ClientNext, Refresh, StartUpload, AbandonUpload, ReuseCachedEntry, WriteContent, FlushIndex, CheckpointRoot,
         FinishUpload, DeleteSnapshots, Tick, vars
<1>2. CASE DeleteSnapshots \/ UNCHANGED vars
  BY <1>1, <1>2 DEF DeleteSnapshots, ClientStep, GCInv, ClientsRestore, vars, storage
<1>3. CASE Tick
  <2>1. \A u \in Clients : client'[u].pending = client[u].pending
    <3>1. \A u \in Clients : client[u] \in ClientState
      BY DEF TypeInv, TypeOK, ClientState
    <3>2. \A u \in Clients : client'[u] \in {client[u], [client[u] EXCEPT !.view = Nil, !.loaded = 0]}
      BY <1>3 DEF Tick
    <3> QED BY <3>1, <3>2 DEF ClientState
  <2> QED BY <1>1, <1>3, <2>1 DEF Tick, ClientStep, GCInv, ClientsRestore, storage
<1>4. ASSUME NEW u \in Clients, Refresh(u) \/ StartUpload(u) \/ AbandonUpload(u) \/ \E c \in Contents : ReuseCachedEntry(u, c)
      PROVE  ClientStep
  <2>1. \A w \in Clients : client[w] \in ClientState
    BY DEF TypeInv, TypeOK, ClientState
  <2>2. index' = index
    BY <1>4 DEF Refresh, StartUpload, AbandonUpload, ReuseCachedEntry, storage
  <2>3. \A w \in Clients \ {u} : client'[w] = client[w]
    BY <1>4 DEF Refresh, StartUpload, AbandonUpload, ReuseCachedEntry, TypeInv, TypeOK
  <2>4. client'[u].pending = client[u].pending \/ client'[u].pending = NoEntries
    <3>0. CASE Refresh(u)
      BY <2>1, <3>0 DEF Refresh, TypeInv, TypeOK, ClientState
    <3>1. CASE StartUpload(u)
      <4>1. PICK v, l, p : client' = [client EXCEPT ![u] = [client[u] EXCEPT !.uploading = TRUE, !.started = now,
                             !.checkpoint = now, !.prev = p, !.view = v, !.loaded = l]]
        BY <3>1 DEF StartUpload
      <4>2. client'[u] = [client[u] EXCEPT !.uploading = TRUE, !.started = now, !.checkpoint = now, !.prev = p,
                                           !.view = v, !.loaded = l]
        BY <4>1 DEF TypeInv, TypeOK
      <4> QED BY <2>1, <4>2 DEF ClientState
    <3>2. CASE AbandonUpload(u)
      BY <3>2 DEF AbandonUpload, IdleClient, TypeInv, TypeOK
    <3>3. CASE \E c \in Contents : ReuseCachedEntry(u, c)
      BY <2>1, <3>3 DEF ReuseCachedEntry, TypeInv, TypeOK, ClientState
    <3> QED BY <1>4, <3>0, <3>1, <3>2, <3>3
  <2>5. ClientsRestore'
    <3>1. \A c \in Contents : NoEntries[c] = Nil
      BY DEF NoEntries
    <3> QED BY <2>3, <2>4, <3>1 DEF GCInv, ClientsRestore
  <2> QED BY <1>1, <2>2, <2>5 DEF ClientStep
<1>5. ASSUME NEW u \in Clients, NEW c \in Contents, WriteContent(u, c) PROVE ClientStep
  <2>1. client[u] \in ClientState /\ client[u].pending \in Index
    BY DEF TypeInv, TypeOK, ClientState
  <2>2. index' = index
    BY <1>5 DEF WriteContent
  <2>3. \A w \in Clients \ {u} : client'[w] = client[w]
    BY <1>5 DEF WriteContent, TypeInv, TypeOK
  <2>4. \/ client'[u].pending = client[u].pending
        \/ \E s, t : client'[u].pending = [client[u].pending EXCEPT ![c] = WrittenEntry(c, s, t, FALSE)]
    <3>1. \/ client' = [client EXCEPT ![u] = [client[u] EXCEPT !.refs = client[u].refs \cup {c}]]
          \/ \E s, t : client' = [client EXCEPT ![u] = [client[u] EXCEPT
               !.refs = client[u].refs \cup {c},
               !.pending = [client[u].pending EXCEPT ![c] = WrittenEntry(c, s, t, FALSE)], !.session = s]]
      BY <1>5 DEF WriteContent
    <3>2. CASE client' = [client EXCEPT ![u] = [client[u] EXCEPT !.refs = client[u].refs \cup {c}]]
      <4>1. client'[u] = [client[u] EXCEPT !.refs = client[u].refs \cup {c}]
        BY <3>2 DEF TypeInv, TypeOK
      <4> QED BY <2>1, <4>1 DEF ClientState
    <3>3. ASSUME NEW s, NEW t, NEW e, client' = [client EXCEPT ![u] = [client[u] EXCEPT
               !.refs = client[u].refs \cup {c}, !.pending = e, !.session = s]]
          PROVE  client'[u].pending = e
      <4>1. client'[u] = [client[u] EXCEPT !.refs = client[u].refs \cup {c}, !.pending = e, !.session = s]
        BY <3>3 DEF TypeInv, TypeOK
      <4> QED BY <2>1, <4>1 DEF ClientState
    <3> QED BY <3>1, <3>2, <3>3
  <2>5. \A s, t : ~WrittenEntry(c, s, t, FALSE).deleted
    BY DEF WrittenEntry
  <2>6. \A d \in Contents : client'[u].pending[d] = Nil \/ ~client'[u].pending[d].deleted
    <3>1. CASE client'[u].pending = client[u].pending
      BY <3>1 DEF GCInv, ClientsRestore
    <3>2. ASSUME NEW s, NEW t, client'[u].pending = [client[u].pending EXCEPT ![c] = WrittenEntry(c, s, t, FALSE)],
                 NEW d \in Contents
          PROVE  client'[u].pending[d] = Nil \/ ~client'[u].pending[d].deleted
      <4>1. client'[u].pending[d] = IF d = c THEN WrittenEntry(c, s, t, FALSE) ELSE client[u].pending[d]
        BY <2>1, <3>2 DEF Index
      <4> QED BY <2>5, <4>1 DEF GCInv, ClientsRestore
    <3> QED BY <2>4, <3>1, <3>2
  <2>7. ClientsRestore'
    BY <2>3, <2>6 DEF GCInv, ClientsRestore
  <2> QED BY <1>1, <2>2, <2>7 DEF ClientStep
<1>6. ASSUME NEW u \in Clients, NEW tie \in BOOLEAN, FlushIndex(u, tie) \/ CheckpointRoot(u, tie) \/ FinishUpload(u, tie)
      PROVE  ClientStep
  <2>1. client[u] \in ClientState
    BY DEF TypeInv, TypeOK, ClientState
  <2>2. PICK r \in ClientState : CommitPending(u, tie, r)
    <3>1. CASE FlushIndex(u, tie)
      BY <2>1, <3>1 DEF FlushIndex
    <3>2. CASE CheckpointRoot(u, tie)
      <4>1. [client[u] EXCEPT !.checkpoint = now] \in ClientState
        BY <2>1 DEF ClientState, TypeInv, TypeOK
      <4> QED BY <3>2, <4>1 DEF CheckpointRoot
    <3>3. CASE FinishUpload(u, tie)
      <4>1. IdleClient(client[u].view, client[u].loaded) \in ClientState
        BY <2>1, IdleClientType DEF ClientState
      <4> QED BY <3>3, <4>1 DEF FinishUpload
    <3> QED BY <1>6, <3>1, <3>2, <3>3
  <2>3. index' = Merge(index, client[u].pending, tie)
    BY <2>2 DEF CommitPending
  <2>4. \A w \in Clients \ {u} : client'[w] = client[w]
    BY <2>2 DEF CommitPending, TypeInv, TypeOK
  <2>5. client'[u].pending = NoEntries
    <3>1. client' = [client EXCEPT ![u] = [r EXCEPT
             !.pending = NoEntries, !.session = Nil, !.view = WithEntries(r.view, client[u].pending, tie)]]
      BY <2>2 DEF CommitPending
    <3> QED BY <3>1 DEF TypeInv, TypeOK, ClientState
  <2>6. ClientsRestore'
    <3>1. \A c \in Contents : NoEntries[c] = Nil
      BY DEF NoEntries
    <3> QED BY <2>4, <2>5, <3>1 DEF GCInv, ClientsRestore
  <2>7. \A c \in Contents : /\ index'[c] = index[c] \/ ~index'[c].deleted
                            /\ index[c] # Nil => index'[c] # Nil
    BY <2>3, ClientMerge
  <2> QED BY <1>1, <2>6, <2>7 DEF ClientStep
<1> QED BY <1>2, <1>3, <1>4, <1>5, <1>6 DEF ClientNext

\* A run that starts, and snapshot GC.
LEMMA RunStartGC == ASSUME TypeInv, GCInv, RunExclusive PROVE GCInv'
<1>1. m' = [IdleRun EXCEPT !.pc = "gc", !.start = now, !.view = Current] /\ UNCHANGED <<index, client>>
  BY DEF RunExclusive, storage
<1>2. m'.pc = "gc" /\ m'.view.index = index
  BY <1>1 DEF IdleRun, Current
<1> QED BY <1>1, <1>2 DEF GCInv, ClientsRestore, RunSees, RunUndeletes, RunRestored

\* It undeletes what is in use.
LEMMA CollectGC == ASSUME TypeInv, GCInv, SnapshotGC PROVE GCInv'
<1> DEFINE collected == [c \in Contents |-> CollectedEntry(c)]
<1>1. /\ m.pc = "gc" /\ GCPossible /\ UNCHANGED <<index, client>>
      /\ m' = [m EXCEPT !.pc = "gcFlush", !.pending = collected, !.session = MaintenanceSession]
  BY DEF SnapshotGC
<1>2. m \in RunState /\ m.view \in View /\ m.view.used \subseteq Contents
  BY <1>1 DEF TypeInv, TypeOK, RunHasView, RunState, View
<1> HIDE DEF collected
<1>3. m'.pc = "gcFlush" /\ m'.view = m.view /\ m'.pending = collected
  BY <1>1, <1>2 DEF RunState
<1>4. RunSees'
  BY <1>1, <1>3 DEF GCInv, RunSees
<1>5. RunUndeletes'
  <2> SUFFICES ASSUME NEW c \in m.view.used
               PROVE  /\ m.view.index[c] # Nil /\ (collected[c] = Nil \/ ~collected[c].deleted)
                      /\ m.view.index[c].deleted => collected[c] # Nil /\ collected[c].ts > m.view.index[c].ts
    BY <1>3 DEF RunUndeletes
  <2>1. c \in Contents /\ collected[c] = CollectedEntry(c)
    BY <1>2 DEF collected
  <2>2. InView(m.view, c) # Nil
    BY <1>1 DEF GCPossible
  <2>3. m.view.index[c] # Nil
    BY <1>2, <2>1, <2>2, InViewFacts
  <2>4. /\ CollectedEntry(c) = Nil \/ ~CollectedEntry(c).deleted
        /\ m.view.index[c].deleted => CollectedEntry(c) # Nil /\ CollectedEntry(c).ts > m.view.index[c].ts
    BY <1>1, <2>1, <2>2, CollectedFacts
  <2> QED BY <2>1, <2>3, <2>4
<1> QED BY <1>1, <1>3, <1>4, <1>5 DEF GCInv, ClientsRestore, RunRestored

\* Storing that restores the contents in use.
LEMMA CollectFlushGC == ASSUME TypeInv, GCInv, NEW tie \in BOOLEAN, SnapshotGCFlush(tie) PROVE GCInv'
<1>1. /\ m.pc = "gcFlush" /\ UNCHANGED client /\ index' = Merge(index, m.pending, tie)
      /\ m' = [m EXCEPT !.pc = "gcReport", !.pending = NoEntries, !.session = Nil, !.view = WithEntries(m.view, m.pending, tie)]
  BY DEF SnapshotGCFlush
<1>2. m \in RunState /\ m.view \in View /\ m.view.used \subseteq Contents /\ m.pending \in Index /\ index \in Index
  BY <1>1 DEF TypeInv, TypeOK, RunHasView, RunState, View
<1>3. m'.pc = "gcReport" /\ m'.view.used = m.view.used
  <2>1. WithEntries(m.view, m.pending, tie).used = m.view.used
    BY <1>2 DEF WithEntries, View
  <2> QED BY <1>1, <1>2, <2>1 DEF RunState
<1>4. RunRestored'
  <2> SUFFICES ASSUME NEW c \in m.view.used PROVE index'[c] # Nil /\ ~index'[c].deleted
    BY <1>3 DEF RunRestored
  <2>1. /\ m.view.index[c] # Nil /\ (m.pending[c] = Nil \/ ~m.pending[c].deleted)
        /\ m.view.index[c].deleted => m.pending[c] # Nil /\ m.pending[c].ts > m.view.index[c].ts
    BY <1>1 DEF GCInv, RunUndeletes
  <2>2. index[c] # Nil /\ (index[c].deleted => index[c] = m.view.index[c])
    BY <1>1, <1>2, <2>1 DEF GCInv, RunSees
  <2>3. /\ index'[c] \in {index[c], m.pending[c]} /\ index'[c] # Nil
        /\ m.pending[c] = Nil => index'[c] = index[c]
        /\ m.pending[c] # Nil => index'[c] = IF GreaterThan(m.pending[c], index[c], tie) THEN m.pending[c] ELSE index[c]
    BY <1>1, <1>2, <2>2, MergeFacts
  <2>4. CASE ~index[c].deleted
    BY <2>1, <2>3, <2>4
  <2>5. CASE index[c].deleted
    <3>1. m.pending[c] # Nil /\ m.pending[c].ts > index[c].ts
      BY <2>1, <2>2, <2>5
    <3>2. m.pending[c].ts \in Nat /\ index[c].ts \in Nat
      BY <1>2, <2>2, <3>1 DEF Index, Entry
    <3>3. GreaterThan(m.pending[c], index[c], tie)
      BY <3>1, <3>2 DEF GreaterThan
    <3> QED BY <2>1, <2>3, <3>1, <3>3
  <2> QED BY <2>4, <2>5
<1> QED BY <1>1, <1>3, <1>4 DEF GCInv, ClientsRestore, RunSees, RunUndeletes

\* The rest of the run does not come back to it.
LEMMA LaterGC ==
  ASSUME TypeInv, GCInv,
         \/ ReportSnapshotGC \/ SnapshotGCFails \/ ReportRewrite \/ DropDeletedContents \/ ListActiveSessions
         \/ DeleteUnreferencedBlobs \/ DeleteUnreferencedBlobsFails \/ MaintenanceStops
         \/ \E tie \in BOOLEAN : RewriteContents(tie)
  PROVE  GCInv'
<1>1. m \in RunState /\ UNCHANGED client
  BY DEF TypeInv, TypeOK, RunState, ReportSnapshotGC, SnapshotGCFails, ReportRewrite, DropDeletedContents,
         ListActiveSessions, DeleteUnreferencedBlobs, DeleteUnreferencedBlobsFails, MaintenanceStops, RewriteContents
<1>2. m'.pc \notin {"gc", "gcFlush", "gcReport"}
  <2>1. CASE m' = IdleRun
    BY <2>1 DEF IdleRun
  <2>2. CASE ReportSnapshotGC
    <3>1. PICK l \in {"rewriting", "drop"} : m' = [m EXCEPT !.pc = l]
      BY <2>2 DEF ReportSnapshotGC
    <3> QED BY <1>1, <3>1 DEF RunState
  <2>3. CASE ReportRewrite \/ DropDeletedContents \/ ListActiveSessions
    BY <1>1, <2>1, <2>3 DEF ReportRewrite, DropDeletedContents, ListActiveSessions, RunState
  <2>4. ASSUME NEW tie \in BOOLEAN, RewriteContents(tie) PROVE m'.pc = "rewriting"
    BY <1>1, <2>4 DEF RewriteContents, RunState
  <2> QED BY <2>1, <2>2, <2>3, <2>4 DEF SnapshotGCFails, DeleteUnreferencedBlobs, DeleteUnreferencedBlobsFails, MaintenanceStops
<1> QED BY <1>1, <1>2 DEF GCInv, ClientsRestore, RunSees, RunUndeletes, RunRestored

\* Every step keeps the invariant.
LEMMA NextGC == TypeInv /\ GCInv /\ [Next]_vars => GCInv'
<1> SUFFICES ASSUME TypeInv, GCInv, [Next]_vars PROVE GCInv'
  OBVIOUS
<1>1. CASE MaintenanceNext
  BY <1>1, RunStartGC, CollectGC, CollectFlushGC, LaterGC DEF MaintenanceNext
<1> QED BY <1>1, ClientsStep, ClientStepGC DEF Next

\* When a snapshot GC is recorded as successful, no content that a snapshot it knew of uses is
\* deleted: it undeletes every one that an earlier GC had deleted while a client was uploading, and
\* nothing a client stores meanwhile gets in between.  No relation between the safety parameters is
\* needed for that.
THEOREM GCRepairsUsed == Spec => GCRepairs
<1>1. TypeInv /\ GCInv /\ [Next]_vars =>
        [ReportSnapshotGC => \A c \in m.view.used \cap used : index[c] # Nil /\ ~index[c].deleted]_vars
  BY DEF GCInv, RunRestored, ReportSnapshotGC
<1> QED BY <1>1, InitType, NextType, InitGC, NextGC, PTL DEF Spec, GCRepairs
============================================================================
