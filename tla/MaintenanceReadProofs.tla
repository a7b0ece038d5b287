----------------------- MODULE MaintenanceReadProofs -----------------------
(***************************************************************************)
(* What keeps snapshots readable while maintenance deletes: for every      *)
(* number of clients, contents, uploads and runs, the delays of the safety *)
(* parameters suffice, provided that an upload and a maintenance run take  *)
(* no longer than the delays allow for, and that no snapshot is deleted    *)
(* while a deletion of one of its contents waits for its repair.  After    *)
(* that, what keeps the packs that cached indexes name.                    *)
(***************************************************************************)
EXTENDS MaintenanceProofs

\* The longest time from a deletion's timestamp to the end of an upload that may not have seen it:
\* the run flushes it, cached indexes without it are used to start an upload, the upload ends.
Span == MaxRunDuration + IndexRefreshFrequency + UploadDuration
\* What the safety parameters have to allow for.
DelaysSuffice == /\ Span <= DropContentFromIndexExtraMargin + MarginBetweenSnapshotGC
                 /\ CheckpointInterval < BlobDeleteMinAge

\* Storage shows the content as deleted.
Deleted(c) == index[c] # Nil /\ index[c].deleted
\* A snapshot that may hand a cached entry on.
Kept(c) == ~ForceHash /\ c \in used
\* No snapshot is deleted that uses a content which GC has deleted and not yet undeleted, unless
\* nothing is taken over from previous snapshots anyway.
KeepsUnrepaired == ForceHash \/ \A c \in used \ used' : ~Deleted(c)

\* An upload ends within UploadDuration and has flushed what it refers to within CheckpointInterval.
UploadTimely(u) ==
  client[u].uploading => /\ client[u].started <= now /\ now <= client[u].started + UploadDuration
                         /\ client[u].checkpoint <= now /\ now <= client[u].checkpoint + CheckpointInterval
\* Cached indexes are used no longer than IndexRefreshFrequency.
ViewTimely(u) ==
  client[u].view # Nil => /\ client[u].loaded <= now /\ now <= client[u].loaded + IndexRefreshFrequency
                          /\ client[u].view.watermark <= watermark
\* Uncommitted entries belong to an upload that refers to them; their packs are in storage, and
\* younger than its last checkpoint.
PendingStored(u) ==
  \A c \in Contents : client[u].pending[c] # Nil =>
    /\ client[u].uploading /\ c \in client[u].refs
    /\ client[u].pending[c].pack \in packs /\ client[u].checkpoint <= client[u].pending[c].pack.at
\* Indexes that do not show a deletion were loaded before it was flushed, and so were those that
\* know a snapshot of a deleted content which is not there any more.
ViewKnows(u) ==
  client[u].view # Nil => \A c \in Contents :
    /\ client[u].view.index[c] # Nil \/ c \in client[u].view.used => index[c] # Nil
    /\ Deleted(c) => /\ client[u].view.index[c] # index[c] => client[u].loaded <= index[c].ts + MaxRunDuration
                     /\ ~ForceHash /\ c \in client[u].view.used =>
                          Kept(c) \/ client[u].loaded <= index[c].ts + MaxRunDuration
\* The upload began early enough not to know of the deletion.
MayMiss(u, c) == client[u].started <= index[c].ts + MaxRunDuration + IndexRefreshFrequency
\* A deleted content of the previous snapshots is in a snapshot still, or the upload is of that kind.
PrevKnown(u) ==
  client[u].uploading /\ ~ForceHash => \A c \in client[u].prev :
    index[c] # Nil /\ (Deleted(c) => Kept(c) \/ MayMiss(u, c))
\* So it is with the contents an upload refers to, unless it has written them again itself.
RefsKnown(u) ==
  \A c \in client[u].refs :
    /\ client[u].uploading /\ (index[c] # Nil \/ client[u].pending[c] # Nil)
    /\ Deleted(c) => \/ client[u].pending[c] # Nil /\ client[u].pending[c].ts >= index[c].ts
                     \/ Kept(c) \/ MayMiss(u, c)
ClientInv(u) == UploadTimely(u) /\ ViewTimely(u) /\ PendingStored(u) /\ ViewKnows(u) /\ PrevKnown(u) /\ RefsKnown(u)

\* A run ends within MaxRunDuration; nobody else moves the watermark.
RunTimely == m.pc # "idle" => m.start <= now /\ now <= m.start + MaxRunDuration /\ m.view.watermark = watermark
\* When contents are dropped, the latest successful GC on record is that of this run.
RunRecorded == m.pc \in {"rewriting", "drop"} => gcRuns # <<>> /\ gcRuns[1].success /\ gcRuns[1].start = m.start
\* What GC is going to store is newer than what it has seen, and the packs are there.
RunPending == m.pc = "gcFlush" => \A c \in Contents : m.pending[c] # Nil =>
  /\ m.view.index[c] # Nil /\ m.pending[c].ts > m.view.index[c].ts
  /\ m.pending[c].ts >= m.start /\ m.pending[c].pack \in packs
\* The entries it looks at have their packs.
RunReads == m.pc = "gc" => \A c \in Contents : InView(m.view, c) # Nil => InView(m.view, c).pack \in packs
\* An entry that the maintainer's indexes do not have is in a young pack.
RunView == m.pc # "idle" => \A c \in Contents :
  index[c] = m.view.index[c] \/ (index[c] # Nil /\ m.start <= index[c].pack.at + CheckpointInterval)
\* A content deleted more than Span before the run is in use only when its GC knows so, and not at
\* all when its GC is done: every upload that could have missed the deletion has ended before.
RunSettles == \A c \in Contents : Deleted(c) /\ index[c].ts + Span < m.start =>
  /\ m.pc \in {"gc", "gcFlush"} => c \notin used \/ c \in m.view.used
  /\ m.pc \in {"gcReport", "rewriting", "drop"} => c \notin used
RunInv == RunTimely /\ RunRecorded /\ RunPending /\ RunReads /\ RunView /\ RunSettles

\* The watermark is so old that no upload can have missed a deletion before it.
WatermarkOld == watermark >= 0 => watermark + Span < now
HistoryOrdered == \A i \in DOMAIN gcRuns : gcRuns[i].start <= gcRuns[i].end
\* Entries that are not dropped have their packs; contents in use have entries that are not dropped.
EntriesStored == \A c \in Contents : index[c] # Nil /\ ~ShouldIgnore(index[c], watermark) => index[c].pack \in packs
UsedIndexed == \A c \in used : index[c] # Nil /\ ~ShouldIgnore(index[c], watermark)
StoreInv == WatermarkOld /\ HistoryOrdered /\ EntriesStored /\ UsedIndexed

Inv == TypeInv /\ GCInv /\ StoreInv /\ RunInv /\ \A u \in Clients : ClientInv(u)
----------------------------------------------------------------------------
\* The delays are natural numbers.
LEMMA Delays == /\ MaxRunDuration \in Nat /\ IndexRefreshFrequency \in Nat /\ UploadDuration \in Nat
                /\ CheckpointInterval \in Nat /\ BlobDeleteMinAge \in Nat
                /\ DropContentFromIndexExtraMargin \in Nat /\ MarginBetweenSnapshotGC \in Nat
                /\ Span = MaxRunDuration + IndexRefreshFrequency + UploadDuration
  BY MaintenanceAssumption DEF Span

\* Types, taken apart.
LEMMA ClientTypes == ASSUME TypeInv, NEW u \in Clients
                     PROVE  /\ client[u] \in ClientState
                            /\ client[u].started \in Nat /\ client[u].checkpoint \in Nat /\ client[u].loaded \in Nat
                            /\ client[u].prev \subseteq Contents /\ client[u].refs \subseteq Contents
                            /\ client[u].pending \in Index /\ client[u].view \in View \cup {Nil}
                            /\ client[u].uploading \in BOOLEAN
  BY DEF TypeInv, TypeOK, ClientState
\* An entry that is there is an entry.
LEMMA EntryTypes == ASSUME NEW ndx \in Index, NEW c \in Contents, ndx[c] # Nil
                    PROVE  /\ ndx[c] \in Entry /\ ndx[c].ts \in Nat /\ ndx[c].deleted \in BOOLEAN
                           /\ ndx[c].pack \in Pack /\ ndx[c].pack.at \in Nat
  BY DEF Index, Entry, Pack
\* The clock and the storage.
LEMMA StoreTypes == ASSUME TypeInv
                    PROVE  now \in Nat /\ watermark \in Int /\ index \in Index /\ used \subseteq Contents /\ packs \subseteq Pack
  BY DEF TypeInv, TypeOK
\* The run.
LEMMA RunTypes == ASSUME TypeInv
                  PROVE  m \in RunState /\ m.start \in Nat /\ m.pending \in Index /\ (m.pc # "idle" => m.view \in View)
  BY DEF TypeInv, TypeOK, RunHasView, RunState

\* A deletion that appears in the index was stamped at most MaxRunDuration ago, and no entry disappears.
IndexStep == \A c \in Contents :
  /\ index[c] # Nil => index'[c] # Nil
  /\ index'[c] = index[c] \/ ~index'[c].deleted \/ now <= index'[c].ts + MaxRunDuration
\* A content that is deleted and in a snapshot stays in one.
KeptStep == \A c \in Contents : Deleted(c) /\ Kept(c) => Kept(c)'

\* Steps of others keep what is said of a client.
LEMMA ClientFrame ==
  ASSUME TypeInv, TypeInv', NEW u \in Clients, ClientInv(u), client'[u] = client[u], now' = now, watermark <= watermark',
         IndexStep, KeptStep, \A c \in Contents : client[u].pending[c] # Nil => client[u].pending[c].pack \in packs'
  PROVE  ClientInv(u)'
<1>0. /\ client[u].started \in Nat /\ client[u].loaded \in Nat /\ now \in Nat
      /\ client[u].prev \subseteq Contents /\ client[u].refs \subseteq Contents
      /\ client[u].view \in View \cup {Nil} /\ watermark \in Int /\ watermark' \in Int
      /\ MaxRunDuration \in Nat /\ IndexRefreshFrequency \in Nat
  BY ClientTypes, StoreTypes, Delays DEF TypeInv, TypeOK
<1>1. /\ \A c \in Contents : index[c] # Nil => index'[c] # Nil
      /\ \A c \in Contents : Deleted(c)' => \/ Deleted(c) /\ index'[c] = index[c]
                                            \/ now <= index'[c].ts + MaxRunDuration /\ index'[c].ts \in Nat
  <2>1. index' \in Index
    BY DEF TypeInv, TypeOK
  <2> QED BY <2>1, EntryTypes DEF IndexStep, Deleted
<1>2. \A c \in Contents : Deleted(c) /\ Kept(c) => Kept(c)'
  BY DEF KeptStep
<1>3. UploadTimely(u)'
  BY DEF ClientInv, UploadTimely
<1>4. ViewTimely(u)'
  <2>1. client[u].view # Nil => client[u].view.watermark \in Int
    BY <1>0 DEF View
  <2> QED BY <1>0, <2>1 DEF ClientInv, ViewTimely
<1>5. PendingStored(u)'
  BY DEF ClientInv, PendingStored
<1>6. ViewKnows(u)'
  <2> SUFFICES ASSUME client[u].view # Nil, NEW c \in Contents
               PROVE  (/\ client[u].view.index[c] # Nil \/ c \in client[u].view.used => index[c] # Nil
                       /\ Deleted(c) => /\ client[u].view.index[c] # index[c] => client[u].loaded <= index[c].ts + MaxRunDuration
                                        /\ ~ForceHash /\ c \in client[u].view.used =>
                                             Kept(c) \/ client[u].loaded <= index[c].ts + MaxRunDuration)'
    BY DEF ViewKnows
  <2>1. /\ client[u].view.index[c] # Nil \/ c \in client[u].view.used => index[c] # Nil
        /\ Deleted(c) => /\ client[u].view.index[c] # index[c] => client[u].loaded <= index[c].ts + MaxRunDuration
                         /\ ~ForceHash /\ c \in client[u].view.used =>
                              Kept(c) \/ client[u].loaded <= index[c].ts + MaxRunDuration
    BY DEF ClientInv, ViewKnows
  <2>2. client[u].loaded <= now
    BY DEF ClientInv, ViewTimely
  <2>3. CASE Deleted(c)' /\ Deleted(c) /\ index'[c] = index[c]
    BY <1>1, <1>2, <2>1, <2>3
  <2>4. CASE now <= index'[c].ts + MaxRunDuration /\ index'[c].ts \in Nat
    <3>1. client[u].loaded <= index'[c].ts + MaxRunDuration
      BY <1>0, <2>2, <2>4
    <3> QED BY <1>1, <2>1, <3>1
  <2>5. CASE ~Deleted(c)'
    BY <1>1, <2>1, <2>5
  <2> QED BY <1>1, <2>3, <2>4, <2>5
<1>7. \A c \in Contents : /\ Deleted(c)' /\ client[u].uploading => (Deleted(c) /\ index'[c] = index[c]) \/ MayMiss(u, c)'
                          /\ Deleted(c)' /\ MayMiss(u, c) /\ index'[c] = index[c] => MayMiss(u, c)'
  <2> SUFFICES ASSUME NEW c \in Contents, Deleted(c)'
               PROVE  /\ client[u].uploading => (Deleted(c) /\ index'[c] = index[c]) \/ MayMiss(u, c)'
                      /\ MayMiss(u, c) /\ index'[c] = index[c] => MayMiss(u, c)'
    OBVIOUS
  <2>1. client[u].uploading => client[u].started <= now
    BY DEF ClientInv, UploadTimely
  <2>2. client[u].uploading /\ now <= index'[c].ts + MaxRunDuration /\ index'[c].ts \in Nat => MayMiss(u, c)'
    BY <1>0, <2>1 DEF MayMiss
  <2> QED BY <1>1, <2>2 DEF MayMiss
<1>8. PrevKnown(u)'
  BY <1>0, <1>1, <1>2, <1>7 DEF ClientInv, PrevKnown
<1>9. RefsKnown(u)'
  <2> SUFFICES ASSUME NEW c \in client[u].refs
               PROVE  /\ client[u].uploading /\ (index'[c] # Nil \/ client[u].pending[c] # Nil)
                      /\ Deleted(c)' => \/ client[u].pending[c] # Nil /\ client[u].pending[c].ts >= index'[c].ts
                                        \/ Kept(c)' \/ MayMiss(u, c)'
    BY DEF RefsKnown
  <2>1. /\ client[u].uploading /\ (index[c] # Nil \/ client[u].pending[c] # Nil)
        /\ Deleted(c) => \/ client[u].pending[c] # Nil /\ client[u].pending[c].ts >= index[c].ts
                         \/ Kept(c) \/ MayMiss(u, c)
    BY DEF ClientInv, RefsKnown
  <2> QED BY <1>0, <1>1, <1>2, <1>7, <2>1
<1> QED BY <1>3, <1>4, <1>5, <1>6, <1>8, <1>9 DEF ClientInv

\* A step of a client that leaves the indexes and snapshots in storage alone.
LEMMA LocalStep ==
  ASSUME Inv, TypeInv', GCInv', NEW u \in Clients, ClientInv(u)', \A w \in Clients \ {u} : client'[w] = client[w],
         UNCHANGED <<now, index, watermark, used, gcRuns, m>>, packs \subseteq packs'
  PROVE  Inv'
<1>1. \A w \in Clients \ {u} : ClientInv(w)'
  <2> SUFFICES ASSUME NEW w \in Clients, w # u PROVE ClientInv(w)'
    OBVIOUS
  <2>1. ClientInv(w) /\ PendingStored(w)
    BY DEF Inv, ClientInv
  <2>2. IndexStep /\ KeptStep /\ watermark <= watermark'
    BY StoreTypes DEF IndexStep, KeptStep, Kept, Inv
  <2>3. \A c \in Contents : client[w].pending[c] # Nil => client[w].pending[c].pack \in packs'
    BY <2>1 DEF PendingStored
  <2> QED BY <2>1, <2>2, <2>3, ClientFrame DEF Inv
<1>2. RunInv'
  BY DEF Inv, RunInv, RunTimely, RunRecorded, RunPending, RunReads, RunView, RunSettles, Deleted
<1>3. StoreInv'
  BY DEF Inv, StoreInv, WatermarkOld, HistoryOrdered, EntriesStored, UsedIndexed
<1> QED BY <1>1, <1>2, <1>3 DEF Inv

\* Reloading the indexes.
LEMMA RefreshRead == ASSUME Inv, TypeInv', GCInv', NEW u \in Clients, Refresh(u) PROVE Inv'
<1>1. /\ client' = [client EXCEPT ![u] = [client[u] EXCEPT !.view = Current, !.loaded = now]]
      /\ UNCHANGED <<now, index, watermark, used, packs, gcRuns, m>>
  BY DEF Refresh, storage, schedule
<1>2. /\ client[u] \in ClientState /\ now \in Nat /\ watermark \in Int /\ index \in Index
      /\ client[u].prev \subseteq Contents /\ client[u].refs \subseteq Contents /\ IndexRefreshFrequency \in Nat
  BY ClientTypes, StoreTypes, Delays DEF Inv
<1>3. \A w \in Clients \ {u} : client'[w] = client[w]
  BY <1>1 DEF Inv, TypeInv, TypeOK
<1>4. client'[u] = [client[u] EXCEPT !.view = Current, !.loaded = now]
  BY <1>1 DEF Inv, TypeInv, TypeOK
<1>5. /\ client'[u].uploading = client[u].uploading /\ client'[u].started = client[u].started
      /\ client'[u].checkpoint = client[u].checkpoint /\ client'[u].prev = client[u].prev
      /\ client'[u].refs = client[u].refs /\ client'[u].pending = client[u].pending
      /\ client'[u].view = Current /\ client'[u].loaded = now
  BY <1>2, <1>4 DEF ClientState
<1>6. Current.index = index /\ Current.watermark = watermark /\ Current.used = used
  BY DEF Current
<1>7. UploadTimely(u) /\ PendingStored(u) /\ PrevKnown(u) /\ RefsKnown(u) /\ UsedIndexed
  BY DEF Inv, ClientInv, StoreInv
<1>8. UploadTimely(u)' /\ PendingStored(u)' /\ PrevKnown(u)' /\ RefsKnown(u)'
  BY <1>1, <1>5, <1>7 DEF UploadTimely, PendingStored, PrevKnown, RefsKnown, Deleted, Kept, MayMiss
<1>9. ViewTimely(u)'
  BY <1>1, <1>2, <1>5, <1>6 DEF ViewTimely
<1>10. ViewKnows(u)'
  BY <1>1, <1>5, <1>6, <1>7 DEF ViewKnows, Deleted, Kept, UsedIndexed
<1> QED BY <1>1, <1>3, <1>8, <1>9, <1>10, LocalStep DEF ClientInv

\* An upload begins with indexes that are no older than IndexRefreshFrequency.
LEMMA StartRead == ASSUME Inv, TypeInv', GCInv', NEW u \in Clients, StartUpload(u) PROVE Inv'
<1>1. PICK reopened \in BOOLEAN : client' = [client EXCEPT ![u] =
        [client[u] EXCEPT !.uploading = TRUE, !.started = now, !.checkpoint = now,
           !.prev = IF ForceHash THEN {} ELSE (IF reopened THEN Current ELSE client[u].view).used,
           !.view = IF reopened THEN Current ELSE client[u].view,
           !.loaded = IF reopened THEN now ELSE client[u].loaded]]
  BY DEF StartUpload
<1>2. /\ UNCHANGED <<now, index, watermark, used, packs, gcRuns, m>>
      /\ ~client[u].uploading /\ client[u].view # Nil
  BY DEF StartUpload, storage, schedule
<1>3. /\ client[u] \in ClientState /\ now \in Nat /\ watermark \in Int /\ index \in Index
      /\ client[u].refs \subseteq Contents /\ client[u].loaded \in Nat /\ client[u].view \in View
      /\ IndexRefreshFrequency \in Nat /\ UploadDuration \in Nat /\ CheckpointInterval \in Nat /\ MaxRunDuration \in Nat
  BY <1>2, ClientTypes, StoreTypes, Delays DEF Inv
<1> DEFINE v == IF reopened THEN Current ELSE client[u].view
           l == IF reopened THEN now ELSE client[u].loaded
           p == IF ForceHash THEN {} ELSE v.used
<1>4. \A w \in Clients \ {u} : client'[w] = client[w]
  BY <1>1 DEF Inv, TypeInv, TypeOK
<1>5. client'[u] = [client[u] EXCEPT !.uploading = TRUE, !.started = now, !.checkpoint = now, !.prev = p, !.view = v, !.loaded = l]
  BY <1>1 DEF Inv, TypeInv, TypeOK
<1>6. /\ l \in Nat /\ l <= now /\ now <= l + IndexRefreshFrequency /\ v.watermark <= watermark
      /\ v.used \subseteq Contents
      /\ \A c \in Contents :
           /\ v.index[c] # Nil \/ c \in v.used => index[c] # Nil
           /\ Deleted(c) => /\ v.index[c] # index[c] => l <= index[c].ts + MaxRunDuration
                            /\ ~ForceHash /\ c \in v.used => Kept(c) \/ l <= index[c].ts + MaxRunDuration
  <2>1. CASE reopened
    <3>1. v.index = index /\ v.watermark = watermark /\ v.used = used /\ l = now
      BY <2>1 DEF Current
    <3>2. used \subseteq Contents /\ \A c \in used : index[c] # Nil
      BY StoreTypes DEF Inv, StoreInv, UsedIndexed
    <3> HIDE DEF v, l
    <3> QED BY <1>3, <3>1, <3>2 DEF Kept
  <2>2. CASE ~reopened
    <3>1. v = client[u].view /\ l = client[u].loaded
      BY <2>2
    <3>2. ViewTimely(u) /\ ViewKnows(u)
      BY DEF Inv, ClientInv
    <3>3. v.used \subseteq Contents
      BY <1>3, <3>1 DEF View
    <3> HIDE DEF v, l
    <3> QED BY <1>2, <1>3, <3>1, <3>2, <3>3 DEF ViewTimely, ViewKnows
  <2> QED BY <2>1, <2>2
<1> HIDE DEF v, l
<1>7. p \subseteq Contents /\ (~ForceHash => p = v.used)
  BY <1>6
<1> HIDE DEF p
<1>8. /\ client'[u].uploading /\ client'[u].started = now
      /\ client'[u].checkpoint = now /\ client'[u].prev = p
      /\ client'[u].refs = client[u].refs /\ client'[u].pending = client[u].pending
      /\ client'[u].view = v /\ client'[u].loaded = l
  BY <1>3, <1>5 DEF ClientState
<1>9. UploadTimely(u)' /\ ViewTimely(u)'
  BY <1>2, <1>3, <1>6, <1>8 DEF UploadTimely, ViewTimely
<1>10. \A c \in Contents : client[u].pending[c] = Nil
  BY <1>2 DEF Inv, ClientInv, PendingStored
<1>11. PendingStored(u)'
  BY <1>8, <1>10 DEF PendingStored
<1>12. ViewKnows(u)'
  BY <1>2, <1>6, <1>8 DEF ViewKnows, Deleted, Kept
<1>13. PrevKnown(u)'
  <2> SUFFICES ASSUME ~ForceHash, NEW c \in v.used PROVE index[c] # Nil /\ (Deleted(c) => Kept(c) \/ now <= index[c].ts + MaxRunDuration + IndexRefreshFrequency)
    BY <1>2, <1>7, <1>8 DEF PrevKnown, Deleted, Kept, MayMiss
  <2>1. c \in Contents /\ index[c] # Nil
    BY <1>6
  <2>2. index[c].ts \in Nat
    BY <1>3, <2>1, EntryTypes
  <2>3. Deleted(c) => Kept(c) \/ l <= index[c].ts + MaxRunDuration
    BY <1>6, <2>1
  <2> QED BY <1>3, <1>6, <2>1, <2>2, <2>3
<1>14. RefsKnown(u)'
  <2>1. client[u].refs = {}
    BY <1>2 DEF Inv, ClientInv, RefsKnown
  <2> QED BY <1>8, <2>1 DEF RefsKnown
<1> QED BY <1>2, <1>4, <1>9, <1>11, <1>12, <1>13, <1>14, LocalStep DEF ClientInv

\* What is said of a client that uploads nothing.
LEMMA IdleRead == ASSUME NEW u \in Clients, ViewTimely(u)', ViewKnows(u)', ~client'[u].uploading,
                         client'[u].refs = {}, client'[u].pending = NoEntries
                  PROVE  ClientInv(u)'
<1>1. \A c \in Contents : client'[u].pending[c] = Nil
  BY DEF NoEntries
<1>2. UploadTimely(u)' /\ PendingStored(u)' /\ PrevKnown(u)' /\ RefsKnown(u)'
  BY <1>1 DEF UploadTimely, PendingStored, PrevKnown, RefsKnown
<1> QED BY <1>2 DEF ClientInv

\* An upload dies.
LEMMA AbandonRead == ASSUME Inv, TypeInv', GCInv', NEW u \in Clients, AbandonUpload(u) PROVE Inv'
<1>1. /\ client' = [client EXCEPT ![u] = IdleClient(client[u].view, client[u].loaded)]
      /\ UNCHANGED <<now, index, watermark, used, packs, gcRuns, m>>
  BY DEF AbandonUpload, storage, schedule
<1>2. \A w \in Clients \ {u} : client'[w] = client[w]
  BY <1>1 DEF Inv, TypeInv, TypeOK
<1>3. client'[u] = IdleClient(client[u].view, client[u].loaded)
  BY <1>1 DEF Inv, TypeInv, TypeOK
<1>4. /\ ~client'[u].uploading /\ client'[u].refs = {} /\ client'[u].pending = NoEntries
      /\ client'[u].view = client[u].view /\ client'[u].loaded = client[u].loaded
  BY <1>3 DEF IdleClient
<1>5. ViewTimely(u) /\ ViewKnows(u)
  BY DEF Inv, ClientInv
<1>6. ViewTimely(u)' /\ ViewKnows(u)'
  BY <1>1, <1>4, <1>5 DEF ViewTimely, ViewKnows, Deleted, Kept
<1> QED BY <1>1, <1>2, <1>4, <1>6, IdleRead, LocalStep

\* A reference is added to an upload, with or without an entry of its own.
LEMMA ReferRead ==
  ASSUME Inv, TypeInv', GCInv', NEW u \in Clients, NEW c \in Contents,
         client[u].uploading = TRUE, NEW p \in Index,
         client'[u].uploading = client[u].uploading, client'[u].started = client[u].started,
         client'[u].checkpoint = client[u].checkpoint, client'[u].prev = client[u].prev,
         client'[u].refs = client[u].refs \cup {c}, client'[u].pending = p,
         client'[u].view = client[u].view, client'[u].loaded = client[u].loaded,
         \A w \in Clients \ {u} : client'[w] = client[w],
         UNCHANGED <<now, index, watermark, used, gcRuns, m>>, packs \subseteq packs',
         \A d \in Contents \ {c} : p[d] = client[u].pending[d],
         p[c] # Nil => p[c].pack \in packs' /\ client[u].checkpoint <= p[c].pack.at,
         index[c] # Nil \/ p[c] # Nil,
         client[u].pending[c] = Nil \/ p[c] = client[u].pending[c],
         Deleted(c) => \/ p[c] # Nil /\ p[c].ts >= index[c].ts
                       \/ Kept(c) \/ MayMiss(u, c)
  PROVE  Inv'
<1>1. client[u] \in ClientState /\ client[u].refs \subseteq Contents
  BY ClientTypes DEF Inv
<1>5. ClientInv(u)
  BY DEF Inv
<1>6. UploadTimely(u)' /\ ViewTimely(u)' /\ ViewKnows(u)' /\ PrevKnown(u)'
  BY <1>5 DEF ClientInv, UploadTimely, ViewTimely, ViewKnows, PrevKnown, Deleted, Kept, MayMiss
<1>7. PendingStored(u)'
  <2>1. PendingStored(u)
    BY <1>5 DEF ClientInv
  <2> QED BY <2>1 DEF PendingStored
<1>8. RefsKnown(u)'
  <2> SUFFICES ASSUME NEW d \in client[u].refs \cup {c}
               PROVE  /\ index[d] # Nil \/ p[d] # Nil
                      /\ Deleted(d) => \/ p[d] # Nil /\ p[d].ts >= index[d].ts
                                       \/ Kept(d) \/ MayMiss(u, d)
    BY DEF RefsKnown, Deleted, Kept, MayMiss
  <2>1. CASE d = c
    BY <2>1
  <2>2. CASE d # c
    <3>1. d \in client[u].refs /\ p[d] = client[u].pending[d]
      BY <1>1, <2>2
    <3> QED BY <1>5, <3>1 DEF ClientInv, RefsKnown
  <2> QED BY <2>1, <2>2
<1> QED BY <1>6, <1>7, <1>8, LocalStep DEF ClientInv

\* A cached entry of a previous snapshot is taken over.
LEMMA ReuseRead == ASSUME Inv, TypeInv', GCInv', NEW u \in Clients, NEW c \in Contents, ReuseCachedEntry(u, c) PROVE Inv'
<1>1. /\ client[u].uploading /\ ~ForceHash /\ c \in client[u].prev
      /\ client' = [client EXCEPT ![u] = [client[u] EXCEPT !.refs = client[u].refs \cup {c}]]
      /\ UNCHANGED <<now, index, watermark, used, packs, gcRuns, m>>
  BY DEF ReuseCachedEntry, storage, schedule
<1>2. client[u] \in ClientState /\ client[u].pending \in Index /\ client[u].session \in Session \cup {Nil}
  BY ClientTypes DEF Inv, ClientState
<1>3. client'[u] = [client[u] EXCEPT !.refs = client[u].refs \cup {c}] /\ \A w \in Clients \ {u} : client'[w] = client[w]
  BY <1>1 DEF Inv, TypeInv, TypeOK
<1>4. /\ client'[u].uploading = client[u].uploading /\ client'[u].started = client[u].started
      /\ client'[u].checkpoint = client[u].checkpoint /\ client'[u].prev = client[u].prev
      /\ client'[u].refs = client[u].refs \cup {c} /\ client'[u].pending = client[u].pending
      /\ client'[u].view = client[u].view /\ client'[u].loaded = client[u].loaded
  BY <1>2, <1>3 DEF ClientState
<1>5. PrevKnown(u) /\ PendingStored(u)
  BY DEF Inv, ClientInv
<1>6. index[c] # Nil /\ (Deleted(c) => Kept(c) \/ MayMiss(u, c))
  BY <1>1, <1>5 DEF PrevKnown
<1>7. client[u].pending[c] # Nil => client[u].pending[c].pack \in packs' /\ client[u].checkpoint <= client[u].pending[c].pack.at
  BY <1>1, <1>5 DEF PendingStored
<1>8. packs \subseteq packs' /\ UNCHANGED <<now, index, watermark, used, gcRuns, m>>
  BY <1>1
<1> QED BY <1>1, <1>2, <1>3, <1>4, <1>6, <1>7, <1>8, ReferRead

\* A content is written: nothing is stored when the cached indexes have it and do not show it as deleted;
\* indexes that do not show a deletion are too old for the upload to know of it.
LEMMA WriteRead == ASSUME Inv, TypeInv', GCInv', NEW u \in Clients, NEW c \in Contents, WriteContent(u, c) PROVE Inv'
<1> DEFINE known == InView(client[u].view, c)
           session == IF client[u].session # Nil THEN client[u].session ELSE [by |-> u, start |-> now]
           entry == WrittenEntry(c, session, IF known = Nil THEN -1 ELSE known.ts, FALSE)
<1>0. /\ client[u].uploading /\ client[u].view # Nil /\ c \notin client[u].refs
      /\ UNCHANGED <<now, index, watermark, used, gcRuns, m>>
  BY DEF WriteContent, schedule
<1>1. /\ client[u] \in ClientState /\ client[u].pending \in Index /\ client[u].view \in View
      /\ client[u].session \in Session \cup {Nil} /\ client[u].started \in Nat /\ client[u].loaded \in Nat
      /\ client[u].checkpoint \in Nat
      /\ now \in Nat /\ watermark \in Int /\ index \in Index
      /\ IndexRefreshFrequency \in Nat /\ MaxRunDuration \in Nat
  BY <1>0, ClientTypes, StoreTypes, Delays DEF Inv, ClientState
<1>2. client[u].pending[c] = Nil
  BY <1>0 DEF Inv, ClientInv, PendingStored
<1>3. \/ /\ known # Nil /\ ~known.deleted /\ packs' = packs
         /\ client' = [client EXCEPT ![u] = [client[u] EXCEPT !.refs = client[u].refs \cup {c}]]
      \/ /\ known = Nil \/ known.deleted
         /\ client' = [client EXCEPT ![u] = [client[u] EXCEPT
               !.refs = client[u].refs \cup {c}, !.pending = [client[u].pending EXCEPT ![c] = entry], !.session = session]]
         /\ packs' = packs \cup {entry.pack}
  BY <1>2 DEF WriteContent
<1>4. \A w \in Clients \ {u} : client'[w] = client[w]
  BY DEF WriteContent, Inv, TypeInv, TypeOK
<1>5. session \in Session
  <2>1. [by |-> u, start |-> now] \in Session
    BY <1>1 DEF Session, Writers
  <2> QED BY <1>1, <2>1
<1>6. known # Nil => known = client[u].view.index[c] /\ known \in Entry /\ known.ts \in Int /\ client[u].view.index[c] # Nil
  <2>1. known # Nil => known = client[u].view.index[c] /\ known \in Entry /\ client[u].view.index[c] # Nil
    BY <1>1, InViewFacts
  <2> HIDE DEF known
  <2> QED BY <2>1 DEF Entry
<1>7. ViewKnows(u) /\ ViewTimely(u) /\ UploadTimely(u)
  BY DEF Inv, ClientInv
<1>8. Deleted(c) /\ client[u].view.index[c] # index[c] => MayMiss(u, c)
  <2> SUFFICES ASSUME Deleted(c), client[u].view.index[c] # index[c] PROVE MayMiss(u, c)
    OBVIOUS
  <2>1. client[u].loaded <= index[c].ts + MaxRunDuration
    BY <1>0, <1>7 DEF ViewKnows
  <2>2. client[u].started <= now /\ now <= client[u].loaded + IndexRefreshFrequency
    BY <1>0, <1>7 DEF UploadTimely, ViewTimely
  <2>3. index[c].ts \in Nat
    BY <1>1, EntryTypes DEF Deleted
  <2> QED BY <1>1, <2>1, <2>2, <2>3 DEF MayMiss
<1>9. CASE /\ known # Nil /\ ~known.deleted /\ packs' = packs
           /\ client' = [client EXCEPT ![u] = [client[u] EXCEPT !.refs = client[u].refs \cup {c}]]
  <2>1. client'[u] = [client[u] EXCEPT !.refs = client[u].refs \cup {c}]
    BY <1>9 DEF Inv, TypeInv, TypeOK
  <2>2. /\ client'[u].uploading = client[u].uploading /\ client'[u].started = client[u].started
        /\ client'[u].checkpoint = client[u].checkpoint /\ client'[u].prev = client[u].prev
        /\ client'[u].refs = client[u].refs \cup {c} /\ client'[u].pending = client[u].pending
        /\ client'[u].view = client[u].view /\ client'[u].loaded = client[u].loaded
    BY <1>1, <2>1 DEF ClientState
  <2>3. client[u].view.index[c] # Nil /\ ~client[u].view.index[c].deleted
    BY <1>6, <1>9
  <2>4. index[c] # Nil
    BY <1>0, <1>7, <2>3 DEF ViewKnows
  <2>5. Deleted(c) => MayMiss(u, c)
    BY <1>8, <2>3 DEF Deleted
  <2>6. packs \subseteq packs'
    BY <1>9
  <2> QED BY <1>0, <1>1, <1>2, <1>4, <2>2, <2>4, <2>5, <2>6, ReferRead
<1>10. CASE /\ known = Nil \/ known.deleted
            /\ client' = [client EXCEPT ![u] = [client[u] EXCEPT
                  !.refs = client[u].refs \cup {c}, !.pending = [client[u].pending EXCEPT ![c] = entry], !.session = session]]
            /\ packs' = packs \cup {entry.pack}
  <2> DEFINE t == IF known = Nil THEN -1 ELSE known.ts
             p == [client[u].pending EXCEPT ![c] = entry]
  <2>1. t \in Int /\ FALSE \in BOOLEAN
    BY <1>6
  <2>2. entry = WrittenEntry(c, session, t, FALSE)
    OBVIOUS
  <2>3. client'[u] = [client[u] EXCEPT !.refs = client[u].refs \cup {c}, !.pending = p, !.session = session]
    BY <1>10 DEF Inv, TypeInv, TypeOK
  <2>4. packs' = packs \cup {entry.pack}
    BY <1>10
  <2> HIDE DEF t, session, entry
  <2>5. /\ entry \in Entry /\ entry.ts > t /\ ~entry.deleted
        /\ entry.pack = [content |-> c, at |-> now, session |-> session] /\ entry.ts >= now /\ entry.ts \in Nat
    <3>1. /\ WrittenEntry(c, session, t, FALSE) \in Entry /\ WrittenEntry(c, session, t, FALSE).ts > t
          /\ WrittenEntry(c, session, t, FALSE).deleted = FALSE
          /\ WrittenEntry(c, session, t, FALSE).pack = [content |-> c, at |-> now, session |-> session]
      BY <1>1, <1>5, <2>1, WrittenFacts
    <3>2. WrittenEntry(c, session, t, FALSE).ts >= now
      BY <1>1, <2>1 DEF WrittenEntry, ContentWriteTime
    <3> QED BY <2>2, <3>1, <3>2 DEF Entry
  <2>6. p \in Index /\ p[c] = entry /\ \A d \in Contents \ {c} : p[d] = client[u].pending[d]
    BY <1>1, <2>5 DEF Index
  <2> HIDE DEF p
  <2>7. p[c] # Nil
    BY <2>5, <2>6, NilAssumption
  <2>8. p[c].pack \in packs' /\ client[u].checkpoint <= p[c].pack.at
    <3>1. client[u].checkpoint <= now
      BY <1>0, <1>7 DEF UploadTimely
    <3> QED BY <2>4, <2>5, <2>6, <3>1
  <2>9. Deleted(c) => p[c].ts >= index[c].ts \/ MayMiss(u, c)
    <3> SUFFICES ASSUME Deleted(c), client[u].view.index[c] = index[c] PROVE entry.ts >= index[c].ts
      BY <1>8, <2>6
    <3>1. index[c].ts \in Nat /\ index[c] # Nil
      BY <1>1, EntryTypes DEF Deleted
    <3>2. CASE known # Nil
      <4>1. t = index[c].ts
        BY <1>6, <3>2 DEF t
      <4> QED BY <2>5, <3>1, <4>1
    <3>3. CASE known = Nil
      <4>1. ShouldIgnore(index[c], client[u].view.watermark)
        BY <3>1, <3>3 DEF InView, GetContent
      <4>2. index[c].ts <= client[u].view.watermark /\ client[u].view.watermark \in Int
        BY <1>1, <4>1 DEF ShouldIgnore, View
      <4>3. client[u].view.watermark <= watermark
        BY <1>0, <1>7 DEF ViewTimely
      <4>4. watermark >= 0 => watermark + Span < now
        BY DEF Inv, StoreInv, WatermarkOld
      <4>5. Span \in Nat
        BY Delays
      <4>6. index[c].ts < now
        BY <1>1, <3>1, <4>2, <4>3, <4>4, <4>5
      <4> QED BY <1>1, <2>5, <3>1, <4>6
    <3> QED BY <3>2, <3>3
  <2>10. packs \subseteq packs'
    BY <2>4
  <2>11. /\ index[c] # Nil \/ p[c] # Nil
         /\ client[u].pending[c] = Nil \/ p[c] = client[u].pending[c]
         /\ p[c] # Nil => p[c].pack \in packs' /\ client[u].checkpoint <= p[c].pack.at
         /\ Deleted(c) => \/ p[c] # Nil /\ p[c].ts >= index[c].ts
                          \/ Kept(c) \/ MayMiss(u, c)
    BY <1>2, <2>7, <2>8, <2>9
  <2>12. p \in Index /\ session \in Session \cup {Nil} /\ \A d \in Contents \ {c} : p[d] = client[u].pending[d]
    BY <1>5, <2>6
  <2>13. PICK q : q = p
    OBVIOUS
  <2>14. client[u].uploading = TRUE
    BY <1>0, <1>1 DEF ClientState
  <2> HIDE DEF known
  <2>15. /\ client'[u].uploading = client[u].uploading /\ client'[u].started = client[u].started
         /\ client'[u].checkpoint = client[u].checkpoint /\ client'[u].prev = client[u].prev
         /\ client'[u].refs = client[u].refs \cup {c} /\ client'[u].pending = q
         /\ client'[u].view = client[u].view /\ client'[u].loaded = client[u].loaded
    BY <1>1, <2>3, <2>13 DEF ClientState
  <2>16. /\ index[c] # Nil \/ q[c] # Nil
         /\ client[u].pending[c] = Nil \/ q[c] = client[u].pending[c]
         /\ q[c] # Nil => q[c].pack \in packs' /\ client[u].checkpoint <= q[c].pack.at
         /\ Deleted(c) => \/ q[c] # Nil /\ q[c].ts >= index[c].ts
                          \/ Kept(c) \/ MayMiss(u, c)
         /\ q \in Index /\ \A d \in Contents \ {c} : q[d] = client[u].pending[d]
    BY <2>11, <2>12, <2>13
  <2> QED BY <1>0, <1>4, <2>10, <2>14, <2>15, <2>16, ReferRead
<1> QED BY <1>3, <1>9, <1>10

\* Storing what a client has pending only adds entries that are not deleted, and they replace
\* deletions that are not newer.
LEMMA CommitMerge ==
  ASSUME TypeInv, GCInv, NEW u \in Clients, NEW tie \in BOOLEAN, NEW c \in Contents, index' = Merge(index, client[u].pending, tie)
  PROVE  /\ \/ index'[c] = index[c]
            \/ index'[c] = client[u].pending[c] /\ client[u].pending[c] # Nil /\ ~client[u].pending[c].deleted
         /\ index[c] # Nil \/ client[u].pending[c] # Nil => index'[c] # Nil
         /\ Deleted(c) /\ client[u].pending[c] # Nil /\ client[u].pending[c].ts >= index[c].ts => ~Deleted(c)'
         /\ Deleted(c)' => Deleted(c) /\ index'[c] = index[c]
<1>1. index \in Index /\ client[u].pending \in Index
  BY StoreTypes, ClientTypes
<1>2. /\ index'[c] \in {index[c], client[u].pending[c]}
      /\ client[u].pending[c] = Nil => index'[c] = index[c]
      /\ index[c] # Nil \/ client[u].pending[c] # Nil => index'[c] # Nil
      /\ index[c] # Nil /\ client[u].pending[c] # Nil =>
           index'[c] = IF GreaterThan(client[u].pending[c], index[c], tie) THEN client[u].pending[c] ELSE index[c]
  BY <1>1, MergeFacts
<1>3. client[u].pending[c] # Nil => ~client[u].pending[c].deleted
  BY DEF GCInv, ClientsRestore
<1>4. ASSUME Deleted(c), client[u].pending[c] # Nil, client[u].pending[c].ts >= index[c].ts PROVE ~Deleted(c)'
  <2>1. /\ index[c].ts \in Nat /\ client[u].pending[c].ts \in Nat /\ index[c] # Nil
        /\ index[c].deleted = TRUE /\ client[u].pending[c].deleted = FALSE
    BY <1>1, <1>3, <1>4, EntryTypes DEF Deleted
  <2>2. GreaterThan(client[u].pending[c], index[c], tie)
    BY <1>4, <2>1 DEF GreaterThan
  <2> QED BY <1>2, <1>3, <1>4, <2>1, <2>2 DEF Deleted
<1> QED BY <1>2, <1>3, <1>4 DEF Deleted

\* Such a step, with references that become snapshots.
LEMMA CommitFrame ==
  ASSUME Inv, TypeInv', GCInv', NEW u \in Clients, NEW tie \in BOOLEAN,
         index' = Merge(index, client[u].pending, tie), \A w \in Clients \ {u} : client'[w] = client[w],
         UNCHANGED <<now, watermark, packs, gcRuns, m>>, used \subseteq used', used' \subseteq used \cup client[u].refs, ClientInv(u)'
  PROVE  Inv'
<1>0. /\ now \in Nat /\ watermark \in Int /\ index \in Index /\ used \subseteq Contents /\ client[u].refs \subseteq Contents
      /\ m.start \in Nat /\ client[u].started \in Nat /\ client[u].checkpoint \in Nat /\ client[u].pending \in Index
      /\ (m.pc # "idle" => m.view \in View)
  BY StoreTypes, ClientTypes, RunTypes DEF Inv
<1>1. \A c \in Contents : 
         /\ \/ index'[c] = index[c]
            \/ index'[c] = client[u].pending[c] /\ client[u].pending[c] # Nil /\ ~client[u].pending[c].deleted
         /\ index[c] # Nil \/ client[u].pending[c] # Nil => index'[c] # Nil
         /\ Deleted(c) /\ client[u].pending[c] # Nil /\ client[u].pending[c].ts >= index[c].ts => ~Deleted(c)'
         /\ Deleted(c)' => Deleted(c) /\ index'[c] = index[c]
  BY CommitMerge DEF Inv
<1>2. ClientInv(u)
  BY DEF Inv
<1>3. \A c \in used' : c \in used \/ (c \in client[u].refs /\ c \in Contents)
  BY <1>0
<1>4. \A c \in client[u].refs : Deleted(c)' => c \in used \/ now <= index[c].ts + Span
  <2> SUFFICES ASSUME NEW c \in client[u].refs, Deleted(c)', c \notin used PROVE now <= index[c].ts + Span
    OBVIOUS
  <2>1. c \in Contents /\ Deleted(c) /\ ~(client[u].pending[c] # Nil /\ client[u].pending[c].ts >= index[c].ts)
    BY <1>0, <1>1
  <2>2. client[u].uploading /\ MayMiss(u, c)
    BY <1>2, <2>1 DEF ClientInv, RefsKnown, Kept
  <2>3. now <= client[u].started + UploadDuration
    BY <1>2, <2>2 DEF ClientInv, UploadTimely
  <2>4. index[c].ts \in Nat
    BY <1>0, <2>1, EntryTypes DEF Deleted
  <2> QED BY <1>0, <2>2, <2>3, <2>4, Delays DEF MayMiss
<1>5. \A w \in Clients \ {u} : ClientInv(w)'
  <2> SUFFICES ASSUME NEW w \in Clients, w # u PROVE ClientInv(w)'
    OBVIOUS
  <2>1. ClientInv(w) /\ PendingStored(w)
    BY DEF Inv, ClientInv
  <2>2. IndexStep
    BY <1>1 DEF IndexStep
  <2>3. KeptStep /\ watermark <= watermark'
    BY <1>0 DEF KeptStep, Kept
  <2>4. \A c \in Contents : client[w].pending[c] # Nil => client[w].pending[c].pack \in packs'
    BY <2>1 DEF PendingStored
  <2> QED BY <2>1, <2>2, <2>3, <2>4, ClientFrame DEF Inv
<1>6. RunInv'
  <2>1. RunInv
    BY DEF Inv
  <2>2. RunTimely' /\ RunRecorded' /\ RunPending' /\ RunReads'
    BY <2>1 DEF RunInv, RunTimely, RunRecorded, RunPending, RunReads
  <2>3. RunView'
    <3> SUFFICES ASSUME m.pc # "idle", NEW c \in Contents, index'[c] = client[u].pending[c], client[u].pending[c] # Nil
                 PROVE  m.start <= client[u].pending[c].pack.at + CheckpointInterval
      BY <1>1, <2>1 DEF RunInv, RunView
    <3>1. client[u].uploading /\ client[u].checkpoint <= client[u].pending[c].pack.at
      BY <1>2 DEF ClientInv, PendingStored
    <3>2. now <= client[u].checkpoint + CheckpointInterval
      BY <1>2, <3>1 DEF ClientInv, UploadTimely
    <3>3. m.start <= now
      BY <2>1 DEF RunInv, RunTimely
    <3>4. client[u].pending[c].pack.at \in Nat
      BY <1>0, EntryTypes
    <3> QED BY <1>0, <3>1, <3>2, <3>3, <3>4, Delays
  <2>4. RunSettles'
    <3> SUFFICES ASSUME NEW c \in Contents, Deleted(c)', index'[c].ts + Span < m.start
                 PROVE  /\ m.pc \in {"gc", "gcFlush"} => c \notin used' \/ c \in m.view.used
                        /\ m.pc \in {"gcReport", "rewriting", "drop"} => c \notin used'
      BY DEF RunSettles
    <3>1. Deleted(c) /\ index'[c] = index[c] /\ index[c].ts \in Nat
      BY <1>0, <1>1, EntryTypes DEF Deleted
    <3>2. CASE m.pc = "idle"
      BY <3>2
    <3>3. CASE m.pc # "idle"
      <4>1. m.start <= now
        BY <2>1, <3>3 DEF RunInv, RunTimely
      <4>2. ~(now <= index[c].ts + Span)
        BY <1>0, <3>1, <4>1, Delays
      <4>3. c \in used' => c \in used
        BY <1>3, <1>4, <4>2
      <4> QED BY <2>1, <3>1, <4>3 DEF RunInv, RunSettles
    <3> QED BY <3>2, <3>3
  <2> QED BY <2>2, <2>3, <2>4 DEF RunInv
<1>7. StoreInv'
  <2>1. StoreInv
    BY DEF Inv
  <2>2. WatermarkOld' /\ HistoryOrdered'
    BY <2>1 DEF StoreInv, WatermarkOld, HistoryOrdered
  <2>3. EntriesStored'
    <3>1. \A c \in Contents : client[u].pending[c] # Nil => client[u].pending[c].pack \in packs
      BY <1>2 DEF ClientInv, PendingStored
    <3> QED BY <1>1, <2>1, <3>1 DEF StoreInv, EntriesStored
  <2>4. UsedIndexed'
    <3> SUFFICES ASSUME NEW c \in used' PROVE index'[c] # Nil /\ ~ShouldIgnore(index'[c], watermark)
      BY DEF UsedIndexed
    <3>1. c \in Contents
      BY <1>0, <1>3
    <3>2. index'[c] # Nil
      <4>1. c \in used => index[c] # Nil
        BY <2>1 DEF StoreInv, UsedIndexed
      <4>2. c \in client[u].refs => index[c] # Nil \/ client[u].pending[c] # Nil
        BY <1>2 DEF ClientInv, RefsKnown
      <4> QED BY <1>1, <1>3, <3>1, <4>1, <4>2
    <3>3. ASSUME ShouldIgnore(index'[c], watermark) PROVE FALSE
      <4>1. Deleted(c)' /\ index'[c].ts <= watermark
        BY <3>2, <3>3 DEF Deleted, ShouldIgnore
      <4>2. Deleted(c) /\ index'[c] = index[c] /\ index[c].ts \in Nat
        BY <1>0, <1>1, <3>1, <4>1, EntryTypes DEF Deleted
      <4>3. c \notin used
        BY <2>1, <3>3, <4>2 DEF StoreInv, UsedIndexed
      <4>4. now <= index[c].ts + Span
        BY <1>3, <1>4, <4>1, <4>3
      <4>5. watermark >= 0 => watermark + Span < now
        BY <2>1 DEF StoreInv, WatermarkOld
      <4> QED BY <1>0, <4>1, <4>2, <4>4, <4>5, Delays
    <3> QED BY <3>2, <3>3
  <2> QED BY <2>2, <2>3, <2>4 DEF StoreInv
<1> QED BY <1>5, <1>6, <1>7 DEF Inv

\* What a client has just stored is in its cached indexes, as it is in storage.
LEMMA CommitView ==
  ASSUME Inv, TypeInv', NEW u \in Clients, NEW tie \in BOOLEAN,
         index' = Merge(index, client[u].pending, tie), UNCHANGED <<now, watermark>>, used \subseteq used',
         client'[u].view = WithEntries(client[u].view, client[u].pending, tie), client'[u].loaded = client[u].loaded
  PROVE  ViewTimely(u)' /\ ViewKnows(u)'
<1>0. /\ index \in Index /\ client[u].pending \in Index /\ client[u].view \in View \cup {Nil}
  BY StoreTypes, ClientTypes DEF Inv
<1>1. CASE client[u].view = Nil
  <2>1. client'[u].view = Nil
    BY <1>1 DEF WithEntries
  <2> QED BY <2>1 DEF ViewTimely, ViewKnows
<1>2. CASE client[u].view # Nil
  <2>1. /\ client'[u].view.index = Merge(client[u].view.index, client[u].pending, tie)
        /\ client'[u].view.watermark = client[u].view.watermark /\ client'[u].view.used = client[u].view.used
        /\ client[u].view.index \in Index
    BY <1>0, <1>2 DEF WithEntries, View
  <2>2. ViewTimely(u) /\ ViewKnows(u)
    BY DEF Inv, ClientInv
  <2>3. ViewTimely(u)'
    BY <1>2, <2>1, <2>2 DEF ViewTimely
  <2>4. \A c \in Contents : /\ index[c] # Nil \/ client[u].pending[c] # Nil => index'[c] # Nil
                            /\ Deleted(c)' => Deleted(c) /\ index'[c] = index[c]
    BY CommitMerge DEF Inv
  <2>5. \A c \in Contents : /\ client'[u].view.index[c] # Nil => client[u].view.index[c] # Nil \/ client[u].pending[c] # Nil
                            /\ client[u].view.index[c] = index[c] => client'[u].view.index[c] = index'[c]
    <3>1. \A c \in Contents : client'[u].view.index[c] \in {client[u].view.index[c], client[u].pending[c]}
      BY <1>0, <2>1, MergeFacts
    <3>2. \A c \in Contents : client[u].view.index[c] = index[c] => client'[u].view.index[c] = index'[c]
      BY <1>0, <2>1 DEF Merge
    <3> QED BY <3>1, <3>2
  <2>6. ViewKnows(u)'
    <3> SUFFICES ASSUME NEW c \in Contents
                 PROVE  (/\ client[u].view.index[c] # Nil \/ c \in client[u].view.used => index[c] # Nil
                         /\ Deleted(c) => /\ client[u].view.index[c] # index[c] => client[u].loaded <= index[c].ts + MaxRunDuration
                                          /\ ~ForceHash /\ c \in client[u].view.used =>
                                               Kept(c) \/ client[u].loaded <= index[c].ts + MaxRunDuration)'
      BY DEF ViewKnows
    <3>1. /\ client[u].view.index[c] # Nil \/ c \in client[u].view.used => index[c] # Nil
          /\ Deleted(c) => /\ client[u].view.index[c] # index[c] => client[u].loaded <= index[c].ts + MaxRunDuration
                           /\ ~ForceHash /\ c \in client[u].view.used =>
                                Kept(c) \/ client[u].loaded <= index[c].ts + MaxRunDuration
      BY <1>2, <2>2 DEF ViewKnows
    <3>2. Kept(c) => Kept(c)'
      BY DEF Kept
    <3> QED BY <2>1, <2>4, <2>5, <3>1, <3>2
  <2> QED BY <2>3, <2>6
<1> QED BY <1>1, <1>2

\* An upload that goes on after a flush.
LEMMA FlushedRead ==
  ASSUME Inv, TypeInv', NEW u \in Clients, NEW tie \in BOOLEAN,
         index' = Merge(index, client[u].pending, tie), UNCHANGED <<now, watermark, packs>>, used \subseteq used',
         client'[u].view = WithEntries(client[u].view, client[u].pending, tie), client'[u].loaded = client[u].loaded,
         client'[u].uploading = client[u].uploading, client'[u].started = client[u].started,
         client'[u].checkpoint = client[u].checkpoint \/ client'[u].checkpoint = now,
         client'[u].prev = client[u].prev, client'[u].refs = client[u].refs, client'[u].pending = NoEntries
  PROVE  ClientInv(u)'
<1>0. /\ now \in Nat /\ client[u].refs \subseteq Contents /\ client[u].prev \subseteq Contents
      /\ client[u].checkpoint \in Nat /\ CheckpointInterval \in Nat
  BY StoreTypes, ClientTypes, Delays DEF Inv
<1>1. ViewTimely(u)' /\ ViewKnows(u)'
  BY CommitView
<1>2. ClientInv(u)
  BY DEF Inv
<1>3. \A c \in Contents :
        /\ index[c] # Nil \/ client[u].pending[c] # Nil => index'[c] # Nil
        /\ Deleted(c) /\ client[u].pending[c] # Nil /\ client[u].pending[c].ts >= index[c].ts => ~Deleted(c)'
        /\ Deleted(c)' => Deleted(c) /\ index'[c] = index[c]
  BY CommitMerge DEF Inv
<1>4. \A c \in Contents : /\ Kept(c) => Kept(c)'
                          /\ MayMiss(u, c) /\ index'[c] = index[c] => MayMiss(u, c)'
  BY DEF Kept, MayMiss
<1>5. UploadTimely(u)'
  BY <1>0, <1>2 DEF ClientInv, UploadTimely
<1>6. PendingStored(u)'
  BY DEF PendingStored, NoEntries
<1>7. PrevKnown(u)'
  BY <1>0, <1>2, <1>3, <1>4 DEF ClientInv, PrevKnown
<1>8. RefsKnown(u)'
  <2> SUFFICES ASSUME NEW c \in client[u].refs
               PROVE  client[u].uploading /\ index'[c] # Nil /\ (Deleted(c)' => Kept(c)' \/ MayMiss(u, c)')
    BY DEF RefsKnown
  <2>1. /\ client[u].uploading /\ (index[c] # Nil \/ client[u].pending[c] # Nil)
        /\ Deleted(c) => \/ client[u].pending[c] # Nil /\ client[u].pending[c].ts >= index[c].ts
                         \/ Kept(c) \/ MayMiss(u, c)
    BY <1>2 DEF ClientInv, RefsKnown
  <2> QED BY <1>0, <1>3, <1>4, <2>1
<1> QED BY <1>1, <1>5, <1>6, <1>7, <1>8 DEF ClientInv

\* Index flushes, checkpoints and the end of an upload.
LEMMA CommitRead ==
  ASSUME Inv, TypeInv', GCInv', NEW u \in Clients, NEW tie \in BOOLEAN, FlushIndex(u, tie) \/ CheckpointRoot(u, tie) \/ FinishUpload(u, tie)
  PROVE  Inv'
<1>0. client[u] \in ClientState /\ now \in Nat
  BY StoreTypes, ClientTypes DEF Inv
<1>1. /\ UNCHANGED <<now, watermark, packs, gcRuns, m>>
      /\ index' = Merge(index, client[u].pending, tie)
      /\ used \subseteq used' /\ used' \subseteq used \cup client[u].refs
  BY DEF FlushIndex, CheckpointRoot, FinishUpload, CommitPending, schedule
<1>2. \A w \in Clients \ {u} : client'[w] = client[w]
  BY DEF FlushIndex, CheckpointRoot, FinishUpload, CommitPending, Inv, TypeInv, TypeOK
<1>3. ASSUME FlushIndex(u, tie) \/ CheckpointRoot(u, tie) PROVE ClientInv(u)'
  <2>1. PICK t \in {client[u].checkpoint, now} : CommitPending(u, tie, [client[u] EXCEPT !.checkpoint = t])
    <3>1. CASE FlushIndex(u, tie)
      <4>1. client[u] = [client[u] EXCEPT !.checkpoint = client[u].checkpoint]
        BY <1>0 DEF ClientState
      <4> QED BY <3>1, <4>1 DEF FlushIndex
    <3>2. CASE CheckpointRoot(u, tie)
      BY <3>2 DEF CheckpointRoot
    <3> QED BY <1>3, <3>1, <3>2
  <2>2. PICK r : r = [client[u] EXCEPT !.checkpoint = t]
    OBVIOUS
  <2>3. client' = [client EXCEPT ![u] = [r EXCEPT
           !.pending = NoEntries, !.session = Nil, !.view = WithEntries(r.view, client[u].pending, tie)]]
    BY <2>1, <2>2 DEF CommitPending
  <2>4. /\ r.uploading = client[u].uploading /\ r.started = client[u].started /\ r.checkpoint = t
        /\ r.prev = client[u].prev /\ r.refs = client[u].refs /\ r.view = client[u].view /\ r.loaded = client[u].loaded
        /\ r \in ClientState
    <3>1. t \in Nat
      BY <1>0 DEF ClientState
    <3> QED BY <1>0, <2>2, <3>1 DEF ClientState
  <2>5. PICK v : v = WithEntries(r.view, client[u].pending, tie)
    OBVIOUS
  <2>6. client'[u] = [r EXCEPT !.pending = NoEntries, !.session = Nil, !.view = v]
    BY <2>3, <2>5 DEF Inv, TypeInv, TypeOK
  <2>7. /\ client'[u].uploading = r.uploading /\ client'[u].started = r.started /\ client'[u].checkpoint = r.checkpoint
        /\ client'[u].prev = r.prev /\ client'[u].refs = r.refs /\ client'[u].pending = NoEntries
        /\ client'[u].view = v /\ client'[u].loaded = r.loaded
    BY <2>4, <2>6 DEF ClientState
  <2>8. /\ client'[u].uploading = client[u].uploading /\ client'[u].started = client[u].started
        /\ client'[u].checkpoint = client[u].checkpoint \/ client'[u].checkpoint = now
        /\ client'[u].prev = client[u].prev /\ client'[u].refs = client[u].refs /\ client'[u].pending = NoEntries
        /\ client'[u].view = WithEntries(client[u].view, client[u].pending, tie) /\ client'[u].loaded = client[u].loaded
    BY <2>4, <2>5, <2>7
  <2> QED BY <1>1, <2>8, FlushedRead
<1>4. ASSUME FinishUpload(u, tie) PROVE ClientInv(u)'
  <2>1. PICK r : r = IdleClient(client[u].view, client[u].loaded)
    OBVIOUS
  <2>2. PICK v : v = WithEntries(r.view, client[u].pending, tie)
    OBVIOUS
  <2>3. client' = [client EXCEPT ![u] = [r EXCEPT !.pending = NoEntries, !.session = Nil, !.view = v]]
    BY <1>4, <2>1, <2>2 DEF FinishUpload, CommitPending
  <2>4. client'[u] = [r EXCEPT !.pending = NoEntries, !.session = Nil, !.view = v]
    BY <2>3 DEF Inv, TypeInv, TypeOK
  <2>5. r \in ClientState /\ r.uploading = FALSE /\ r.refs = {} /\ r.view = client[u].view /\ r.loaded = client[u].loaded
    <3>1. r \in ClientState
      BY <1>0, <2>1, IdleClientType DEF ClientState
    <3> QED BY <2>1, <3>1 DEF IdleClient
  <2>6. /\ client'[u].uploading = r.uploading /\ client'[u].refs = r.refs /\ client'[u].pending = NoEntries
        /\ client'[u].view = v /\ client'[u].loaded = r.loaded
    BY <2>4, <2>5 DEF ClientState
  <2>7. ViewTimely(u)' /\ ViewKnows(u)'
    BY <1>1, <2>2, <2>5, <2>6, CommitView
  <2> QED BY <2>5, <2>6, <2>7, IdleRead
<1> QED BY <1>1, <1>2, <1>3, <1>4, CommitFrame

\* Snapshots are deleted that use no content with an unrepaired deletion.
LEMMA DeleteSnapshotsRead == ASSUME Inv, TypeInv', GCInv', DeleteSnapshots, KeepsUnrepaired PROVE Inv'
<1>0. used' \subseteq used /\ UNCHANGED <<now, index, watermark, packs, gcRuns, client, m>>
  BY DEF DeleteSnapshots, schedule
<1>1. \A u \in Clients : ClientInv(u)'
  <2> SUFFICES ASSUME NEW u \in Clients PROVE ClientInv(u)'
    OBVIOUS
  <2>1. ClientInv(u) /\ PendingStored(u)
    BY DEF Inv, ClientInv
  <2>2. IndexStep /\ watermark <= watermark'
    BY <1>0, StoreTypes DEF IndexStep, Inv
  <2>3. KeptStep
    BY DEF KeptStep, Kept, KeepsUnrepaired
  <2>4. \A c \in Contents : client[u].pending[c] # Nil => client[u].pending[c].pack \in packs'
    BY <1>0, <2>1 DEF PendingStored
  <2> QED BY <1>0, <2>1, <2>2, <2>3, <2>4, ClientFrame DEF Inv
<1>2. RunInv'
  BY <1>0 DEF Inv, RunInv, RunTimely, RunRecorded, RunPending, RunReads, RunView, RunSettles, Deleted
<1>3. StoreInv'
  BY <1>0 DEF Inv, StoreInv, WatermarkOld, HistoryOrdered, EntriesStored, UsedIndexed
<1> QED BY <1>1, <1>2, <1>3 DEF Inv

\* Time passes.
LEMMA TickRead == ASSUME Inv, TypeInv', GCInv', Tick PROVE Inv'
<1>0. /\ now' = now + 1 /\ UNCHANGED <<index, watermark, packs, used, gcRuns, m>>
      /\ \A u \in Clients : client[u].uploading =>
           now < client[u].checkpoint + CheckpointInterval /\ now < client[u].started + UploadDuration
      /\ m.pc # "idle" => now < m.start + MaxRunDuration
  BY DEF Tick, storage, schedule
<1>5. client' = [u \in Clients |-> IF now' > client[u].loaded + IndexRefreshFrequency
                                THEN [client[u] EXCEPT !.view = Nil, !.loaded = 0] ELSE client[u]]
  BY DEF Tick
<1>1. now \in Nat /\ watermark \in Int /\ m.start \in Nat
  BY StoreTypes, RunTypes DEF Inv
<1>2. ASSUME NEW u \in Clients PROVE ClientInv(u)'
  <2>0. /\ client[u] \in ClientState /\ client[u].started \in Nat /\ client[u].checkpoint \in Nat /\ client[u].loaded \in Nat
        /\ IndexRefreshFrequency \in Nat /\ UploadDuration \in Nat /\ CheckpointInterval \in Nat
    BY ClientTypes, Delays DEF Inv
  <2>1. client'[u] = IF now' > client[u].loaded + IndexRefreshFrequency
                     THEN [client[u] EXCEPT !.view = Nil, !.loaded = 0] ELSE client[u]
    BY <1>5
  <2>2. /\ client'[u].uploading = client[u].uploading /\ client'[u].started = client[u].started
        /\ client'[u].checkpoint = client[u].checkpoint /\ client'[u].prev = client[u].prev
        /\ client'[u].refs = client[u].refs /\ client'[u].pending = client[u].pending
    BY <2>0, <2>1 DEF ClientState
  <2>3. \/ client'[u].view = Nil
        \/ /\ client'[u].view = client[u].view /\ client'[u].loaded = client[u].loaded
           /\ ~(now' > client[u].loaded + IndexRefreshFrequency)
    BY <2>0, <2>1 DEF ClientState
  <2>4. ClientInv(u)
    BY DEF Inv
  <2>5. UploadTimely(u)'
    <3> SUFFICES ASSUME client[u].uploading
                 PROVE  /\ client[u].started <= now' /\ now' <= client[u].started + UploadDuration
                        /\ client[u].checkpoint <= now' /\ now' <= client[u].checkpoint + CheckpointInterval
      BY <2>2 DEF UploadTimely
    <3>1. client[u].started <= now /\ client[u].checkpoint <= now
      BY <2>4 DEF ClientInv, UploadTimely
    <3>2. now < client[u].checkpoint + CheckpointInterval /\ now < client[u].started + UploadDuration
      BY <1>0
    <3> QED BY <1>0, <1>1, <2>0, <3>1, <3>2
  <2>6. PendingStored(u)' /\ PrevKnown(u)' /\ RefsKnown(u)'
    BY <1>0, <2>2, <2>4 DEF ClientInv, PendingStored, PrevKnown, RefsKnown, Deleted, Kept, MayMiss
  <2>7. ViewKnows(u)'
    BY <1>0, <2>3, <2>4 DEF ClientInv, ViewKnows, Deleted, Kept
  <2>8. ViewTimely(u)'
    <3> SUFFICES ASSUME client'[u].view # Nil
                 PROVE  /\ client'[u].loaded <= now' /\ now' <= client'[u].loaded + IndexRefreshFrequency
                        /\ client'[u].view.watermark <= watermark
      BY <1>0 DEF ViewTimely
    <3>1. /\ client'[u].view = client[u].view /\ client'[u].loaded = client[u].loaded
          /\ ~(now' > client[u].loaded + IndexRefreshFrequency)
      BY <2>3
    <3>2. client[u].loaded <= now /\ client[u].view.watermark <= watermark
      BY <2>4, <3>1 DEF ClientInv, ViewTimely
    <3> QED BY <1>0, <1>1, <2>0, <3>1, <3>2
  <2> QED BY <2>5, <2>6, <2>7, <2>8 DEF ClientInv
<1>3. RunInv'
  <2>1. RunInv
    BY DEF Inv
  <2>2. RunTimely'
    BY <1>0, <1>1, <2>1, Delays DEF RunInv, RunTimely
  <2>3. RunRecorded' /\ RunPending' /\ RunReads' /\ RunView' /\ RunSettles'
    BY <1>0, <2>1 DEF RunInv, RunRecorded, RunPending, RunReads, RunView, RunSettles, Deleted
  <2> QED BY <2>2, <2>3 DEF RunInv
<1>4. StoreInv'
  <2>1. StoreInv
    BY DEF Inv
  <2>2. WatermarkOld'
    BY <1>0, <1>1, <2>1, Delays DEF StoreInv, WatermarkOld
  <2>3. HistoryOrdered' /\ EntriesStored' /\ UsedIndexed'
    BY <1>0, <2>1 DEF StoreInv, HistoryOrdered, EntriesStored, UsedIndexed
  <2> QED BY <2>2, <2>3 DEF StoreInv
<1> QED BY <1>2, <1>3, <1>4 DEF Inv

\* A step of maintenance: what clients rely on.
LEMMA RunFrame ==
  ASSUME Inv, TypeInv', GCInv', UNCHANGED <<now, used, client>>, watermark <= watermark', IndexStep,
         \A u \in Clients : \A c \in Contents : client[u].pending[c] # Nil => client[u].pending[c].pack \in packs',
         StoreInv', RunInv'
  PROVE  Inv'
<1> SUFFICES ASSUME NEW u \in Clients PROVE ClientInv(u)'
  BY DEF Inv
<1>1. KeptStep
  BY DEF KeptStep, Kept
<1>2. ClientInv(u)
  BY DEF Inv
<1> QED BY <1>1, <1>2, ClientFrame DEF Inv

\* A run that is not there.
LEMMA IdleRunInv == ASSUME m' = IdleRun PROVE RunInv'
<1>1. m'.pc = "idle"
  BY DEF IdleRun
<1> QED BY <1>1 DEF RunInv, RunTimely, RunRecorded, RunPending, RunReads, RunView, RunSettles

\* Maintenance that leaves the index and the packs alone.
LEMMA RunLocalStep ==
  ASSUME Inv, TypeInv', GCInv', UNCHANGED <<now, used, client, index, watermark, packs>>, HistoryOrdered', RunInv'
  PROVE  Inv'
<1>1. IndexStep /\ watermark <= watermark'
  BY StoreTypes DEF IndexStep, Inv
<1>2. \A u \in Clients : \A c \in Contents : client[u].pending[c] # Nil => client[u].pending[c].pack \in packs'
  BY DEF Inv, ClientInv, PendingStored
<1>3. StoreInv'
  BY DEF Inv, StoreInv, WatermarkOld, EntriesStored, UsedIndexed
<1> QED BY <1>1, <1>2, <1>3, RunFrame

\* A run starts with the indexes and snapshots in storage.
LEMMA RunExclusiveRead == ASSUME Inv, TypeInv', GCInv', RunExclusive PROVE Inv'
<1>1. /\ m' = [IdleRun EXCEPT !.pc = "gc", !.start = now, !.view = Current]
      /\ UNCHANGED <<now, used, client, index, watermark, packs, gcRuns>>
  BY DEF RunExclusive, storage
<1>2. m'.pc = "gc" /\ m'.start = now /\ m'.view = Current
  BY <1>1 DEF IdleRun
<1>3. Current.index = index /\ Current.watermark = watermark /\ Current.used = used
  BY DEF Current
<1>4. now \in Nat /\ MaxRunDuration \in Nat
  BY StoreTypes, Delays DEF Inv
<1>5. RunTimely'
  BY <1>1, <1>2, <1>3, <1>4 DEF RunTimely
<1>6. RunRecorded' /\ RunPending'
  BY <1>2 DEF RunRecorded, RunPending
<1>7. RunReads'
  <2>1. \A c \in Contents : InView(Current, c) # Nil => index[c] # Nil /\ ~ShouldIgnore(index[c], watermark) /\ InView(Current, c) = index[c]
    BY <1>3 DEF InView, GetContent
  <2>2. EntriesStored
    BY DEF Inv, StoreInv
  <2>3. \A c \in Contents : InView(Current, c) # Nil => InView(Current, c).pack \in packs
    BY <2>1, <2>2 DEF EntriesStored
  <2>4. PICK v : v = Current
    OBVIOUS
  <2>5. \A c \in Contents : InView(v, c) # Nil => InView(v, c).pack \in packs'
    BY <1>1, <2>3, <2>4
  <2>6. m'.view = v
    BY <1>2, <2>4
  <2> QED BY <2>5, <2>6 DEF RunReads, InView, GetContent
<1>8. RunView' /\ RunSettles'
  BY <1>1, <1>2, <1>3 DEF RunView, RunSettles
<1>9. HistoryOrdered'
  BY <1>1 DEF Inv, StoreInv, HistoryOrdered
<1> QED BY <1>1, <1>5, <1>6, <1>7, <1>8, <1>9, RunLocalStep DEF RunInv

\* What snapshot GC stores for a content is newer than what it sees, stamped with the present or later,
\* and in a pack that is there or that it writes.
LEMMA CollectedNewer ==
  ASSUME TypeInv, m.pc = "gc", NEW c \in Contents, CollectedEntry(c) # Nil
  PROVE  /\ InView(m.view, c) # Nil /\ m.view.index[c] # Nil /\ CollectedEntry(c).ts > m.view.index[c].ts
         /\ CollectedEntry(c).ts >= now
         /\ CollectedEntry(c).pack = InView(m.view, c).pack \/ CollectedEntry(c).pack.session = MaintenanceSession
<1>0. now \in Nat /\ m.view \in View /\ MaintenanceSession \in Session
  BY DEF TypeInv, TypeOK, RunHasView, MaintenanceSession, Session, Writers
<1>1. PICK entry : entry = InView(m.view, c)
  OBVIOUS
<1>2. CollectedEntry(c) =
        IF entry = Nil THEN Nil
        ELSE IF c \in m.view.used
             THEN IF entry.deleted THEN WrittenEntry(c, MaintenanceSession, entry.ts, FALSE) ELSE Nil
        ELSE IF m.start - entry.ts < MinContentAgeSubjectToGC \/ entry.deleted THEN Nil
        ELSE [entry EXCEPT !.deleted = TRUE, !.ts = ContentWriteTime(entry.ts)]
  BY <1>1 DEF CollectedEntry
<1>3. entry # Nil
  BY <1>2
<1>4. entry = m.view.index[c] /\ entry \in Entry /\ m.view.index[c] # Nil
  BY <1>0, <1>1, <1>3, InViewFacts
<1>5. entry.ts \in Int
  BY <1>4 DEF Entry
<1>6. ContentWriteTime(entry.ts) \in Nat /\ ContentWriteTime(entry.ts) > entry.ts /\ ContentWriteTime(entry.ts) >= now
  BY <1>0, <1>5 DEF ContentWriteTime
<1>7. CASE CollectedEntry(c) = WrittenEntry(c, MaintenanceSession, entry.ts, FALSE)
  BY <1>1, <1>3, <1>4, <1>6, <1>7 DEF WrittenEntry
<1>8. CASE CollectedEntry(c) = [entry EXCEPT !.deleted = TRUE, !.ts = ContentWriteTime(entry.ts)]
  <2>1. CollectedEntry(c).ts = ContentWriteTime(entry.ts) /\ CollectedEntry(c).pack = entry.pack
    BY <1>4, <1>8 DEF Entry
  <2> QED BY <1>1, <1>3, <1>4, <1>6, <2>1
<1> QED BY <1>2, <1>7, <1>8

\* Packs are added.
LEMMA MorePacks ==
  ASSUME Inv, UNCHANGED <<now, used, index, watermark, gcRuns>>, packs \subseteq packs'
  PROVE  /\ StoreInv' /\ IndexStep
         /\ \A u \in Clients : \A c \in Contents : client[u].pending[c] # Nil => client[u].pending[c].pack \in packs'
<1>1. StoreInv'
  BY DEF Inv, StoreInv, WatermarkOld, HistoryOrdered, EntriesStored, UsedIndexed
<1>2. \A u \in Clients : \A c \in Contents : client[u].pending[c] # Nil => client[u].pending[c].pack \in packs
  BY DEF Inv, ClientInv, PendingStored
<1> QED BY <1>1, <1>2 DEF IndexStep

\* Snapshot GC decides what to delete and undelete.
LEMMA SnapshotGCRead == ASSUME Inv, TypeInv', GCInv', SnapshotGC PROVE Inv'
<1> DEFINE collected == [c \in Contents |-> CollectedEntry(c)]
<1>1. /\ m.pc = "gc" /\ UNCHANGED <<now, used, client, index, watermark, gcRuns>>
      /\ m' = [m EXCEPT !.pc = "gcFlush", !.pending = collected, !.session = MaintenanceSession]
      /\ packs' = packs \cup {p \in PacksOf(collected) : p.session = MaintenanceSession}
  BY DEF SnapshotGC, schedule
<1>2. \A c \in Contents : collected[c] = CollectedEntry(c)
  OBVIOUS
<1> HIDE DEF collected
<1>3. m \in RunState /\ m.start \in Nat /\ now \in Nat /\ watermark \in Int
  BY RunTypes, StoreTypes DEF Inv
<1>4. m'.pc = "gcFlush" /\ m'.view = m.view /\ m'.pending = collected /\ m'.start = m.start
  BY <1>1, <1>3 DEF RunState
<1>5. RunInv
  BY DEF Inv
<1>6. RunTimely' /\ RunRecorded' /\ RunReads' /\ RunView' /\ RunSettles'
  BY <1>1, <1>4, <1>5 DEF RunInv, RunTimely, RunRecorded, RunReads, RunView, RunSettles, Deleted
<1>7. RunPending'
  <2> SUFFICES ASSUME NEW c \in Contents, collected[c] # Nil
               PROVE  /\ m.view.index[c] # Nil /\ collected[c].ts > m.view.index[c].ts
                      /\ collected[c].ts >= m.start /\ collected[c].pack \in packs'
    BY <1>4 DEF RunPending
  <2>1. CollectedEntry(c) # Nil
    BY <1>2
  <2>2. /\ InView(m.view, c) # Nil /\ m.view.index[c] # Nil /\ collected[c].ts > m.view.index[c].ts
        /\ collected[c].ts >= now
        /\ collected[c].pack = InView(m.view, c).pack \/ collected[c].pack.session = MaintenanceSession
    BY <1>1, <1>2, <2>1, CollectedNewer DEF Inv
  <2>3. InView(m.view, c).pack \in packs
    BY <1>1, <1>5, <2>2 DEF RunInv, RunReads
  <2>4. collected[c].pack \in PacksOf(collected)
    BY DEF PacksOf
  <2>5. collected[c].pack \in packs'
    BY <1>1, <2>2, <2>3, <2>4
  <2>6. m.start <= now
    BY <1>1, <1>5 DEF RunInv, RunTimely
  <2>7. collected[c].ts \in Nat
    <3>1. CollectedEntry(c) \in Entry
      BY <1>1, <2>1, CollectedFacts DEF Inv
    <3> QED BY <1>2, <3>1 DEF Entry
  <2> QED BY <1>3, <2>2, <2>5, <2>6, <2>7
<1>8. packs \subseteq packs' /\ watermark <= watermark'
  BY <1>1, <1>3
<1>9. RunInv'
  BY <1>6, <1>7 DEF RunInv
<1> QED BY <1>1, <1>8, <1>9, MorePacks, RunFrame

\* The maintainer stores entries that are newer than those it sees.
LEMMA MaintainerMerge ==
  ASSUME Inv, TypeInv', m.pc # "idle", NEW new \in Index, NEW tie \in BOOLEAN,
         index' = Merge(index, new, tie), UNCHANGED <<now, used, watermark, gcRuns>>, packs \subseteq packs',
         m'.view = WithEntries(m.view, new, tie), m'.start = m.start,
         \A c \in Contents : new[c] # Nil => /\ m.view.index[c] # Nil /\ new[c].ts > m.view.index[c].ts
                                             /\ new[c].ts >= m.start /\ new[c].pack \in packs'
  PROVE  /\ IndexStep /\ StoreInv' /\ RunTimely' /\ RunView'
         /\ \A c \in Contents : Deleted(c)' /\ index'[c].ts + Span < m.start => Deleted(c) /\ index'[c] = index[c]
<1>0. /\ index \in Index /\ index' \in Index /\ m.view \in View /\ m.view.index \in Index /\ m.start \in Nat /\ now \in Nat
      /\ watermark \in Int /\ used \subseteq Contents /\ MaxRunDuration \in Nat /\ Span \in Nat /\ MaxRunDuration <= Span
  <2>1. MaxRunDuration \in Nat /\ Span \in Nat /\ MaxRunDuration <= Span
    BY Delays
  <2>2. m.view \in View /\ m.view.index \in Index
    BY RunTypes DEF Inv, View
  <2> QED BY <2>1, <2>2, RunTypes, StoreTypes DEF Inv, TypeInv, TypeOK
<1>1. RunInv /\ StoreInv /\ m.start <= now /\ now <= m.start + MaxRunDuration
  BY DEF Inv, RunInv, RunTimely
<1>2. \A c \in Contents : /\ index'[c] \in {index[c], new[c]}
                          /\ new[c] = Nil => index'[c] = index[c]
                          /\ index[c] # Nil \/ new[c] # Nil => index'[c] # Nil
  BY <1>0, MergeFacts
<1>3. \A c \in Contents : new[c] # Nil => /\ new[c].ts \in Nat /\ now <= new[c].ts + MaxRunDuration
                                          /\ new[c].ts + Span >= m.start /\ ~ShouldIgnore(new[c], watermark)
  <2> SUFFICES ASSUME NEW c \in Contents, new[c] # Nil
               PROVE  /\ new[c].ts \in Nat /\ now <= new[c].ts + MaxRunDuration
                      /\ new[c].ts + Span >= m.start /\ ~ShouldIgnore(new[c], watermark)
    OBVIOUS
  <2>1. new[c].ts \in Nat /\ new[c].ts >= m.start
    BY EntryTypes
  <2>2. now <= new[c].ts + MaxRunDuration /\ new[c].ts + Span >= m.start
    BY <1>0, <1>1, <2>1
  <2>3. watermark >= 0 => watermark + Span < now
    BY <1>1 DEF StoreInv, WatermarkOld
  <2>4. ~(new[c].ts <= watermark)
    BY <1>0, <2>1, <2>2, <2>3
  <2> QED BY <2>1, <2>2, <2>4 DEF ShouldIgnore
<1>4. IndexStep
  BY <1>2, <1>3 DEF IndexStep
<1>5. StoreInv'
  <2>1. WatermarkOld' /\ HistoryOrdered'
    BY <1>1 DEF StoreInv, WatermarkOld, HistoryOrdered
  <2>2. EntriesStored'
    BY <1>1, <1>2 DEF StoreInv, EntriesStored
  <2>3. UsedIndexed'
    BY <1>0, <1>1, <1>2, <1>3 DEF StoreInv, UsedIndexed
  <2> QED BY <2>1, <2>2, <2>3 DEF StoreInv
<1>6. /\ m'.view.index = Merge(m.view.index, new, tie) /\ m'.view.watermark = m.view.watermark
  <2>1. m.view # Nil
    BY <1>0, NilAssumption
  <2> QED BY <1>0, <2>1 DEF WithEntries, View
<1>7. RunTimely'
  BY <1>1, <1>6 DEF RunInv, RunTimely
<1>8. RunView'
  <2> SUFFICES ASSUME NEW c \in Contents
               PROVE  index'[c] = m'.view.index[c] \/ (index'[c] # Nil /\ m.start <= index'[c].pack.at + CheckpointInterval)
    BY DEF RunView
  <2>1. index[c] = m.view.index[c] \/ (index[c] # Nil /\ m.start <= index[c].pack.at + CheckpointInterval)
    BY <1>1 DEF RunInv, RunView
  <2>2. index[c] = m.view.index[c] => index'[c] = m'.view.index[c]
    BY <1>0, <1>6 DEF Merge
  <2>3. new[c] # Nil => m'.view.index[c] = new[c]
    <3> SUFFICES ASSUME new[c] # Nil PROVE m'.view.index[c] = new[c]
      OBVIOUS
    <3>1. m.view.index[c] # Nil /\ new[c].ts > m.view.index[c].ts
      OBVIOUS
    <3>2. new[c].ts \in Nat /\ m.view.index[c].ts \in Nat
      BY <1>0, <3>1, EntryTypes
    <3>3. GreaterThan(new[c], m.view.index[c], tie)
      BY <3>1, <3>2 DEF GreaterThan
    <3> QED BY <1>0, <1>6, <3>1, <3>3, MergeFacts
  <2> QED BY <1>2, <2>1, <2>2, <2>3
<1>9. ASSUME NEW c \in Contents, Deleted(c)', index'[c].ts + Span < m.start PROVE Deleted(c) /\ index'[c] = index[c]
  <2>1. CASE index'[c] = index[c]
    BY <1>9, <2>1 DEF Deleted
  <2>2. CASE index'[c] = new[c] /\ new[c] # Nil
    BY <1>0, <1>3, <1>9, <2>2
  <2> QED BY <1>2, <2>1, <2>2
<1> QED BY <1>4, <1>5, <1>7, <1>8, <1>9

\* What snapshot GC has decided is stored.
LEMMA SnapshotGCFlushRead == ASSUME Inv, TypeInv', GCInv', NEW tie \in BOOLEAN, SnapshotGCFlush(tie) PROVE Inv'
<1>1. /\ m.pc = "gcFlush" /\ UNCHANGED <<now, used, client, watermark, packs, gcRuns>>
      /\ index' = Merge(index, m.pending, tie)
      /\ m' = [m EXCEPT !.pc = "gcReport", !.pending = NoEntries, !.session = Nil, !.view = WithEntries(m.view, m.pending, tie)]
  BY DEF SnapshotGCFlush, schedule
<1>2. m \in RunState /\ m.start \in Nat /\ m.pending \in Index /\ m.view \in View /\ watermark \in Int
  BY <1>1, RunTypes, StoreTypes DEF Inv
<1>3. PICK v : v = WithEntries(m.view, m.pending, tie)
  OBVIOUS
<1>4. m' = [m EXCEPT !.pc = "gcReport", !.pending = NoEntries, !.session = Nil, !.view = v]
  BY <1>1, <1>3
<1>5. m'.pc = "gcReport" /\ m'.view = WithEntries(m.view, m.pending, tie) /\ m'.start = m.start
  BY <1>2, <1>3, <1>4 DEF RunState
<1>6. RunInv
  BY DEF Inv
<1>7. \A c \in Contents : m.pending[c] # Nil => /\ m.view.index[c] # Nil /\ m.pending[c].ts > m.view.index[c].ts
                                                /\ m.pending[c].ts >= m.start /\ m.pending[c].pack \in packs'
  BY <1>1, <1>6 DEF RunInv, RunPending
<1>8. PICK new : new = m.pending
  OBVIOUS
<1>9. /\ IndexStep /\ StoreInv' /\ RunTimely' /\ RunView'
      /\ \A c \in Contents : Deleted(c)' /\ index'[c].ts + Span < m.start => Deleted(c) /\ index'[c] = index[c]
  <2>1. /\ new \in Index /\ index' = Merge(index, new, tie) /\ m'.view = WithEntries(m.view, new, tie)
        /\ packs \subseteq packs' /\ m.pc # "idle"
        /\ \A c \in Contents : new[c] # Nil => /\ m.view.index[c] # Nil /\ new[c].ts > m.view.index[c].ts
                                               /\ new[c].ts >= m.start /\ new[c].pack \in packs'
    BY <1>1, <1>2, <1>5, <1>7, <1>8
  <2> QED BY <1>1, <1>5, <2>1, MaintainerMerge
<1>10. RunRecorded' /\ RunPending' /\ RunReads'
  BY <1>5 DEF RunRecorded, RunPending, RunReads
<1>11. RunSettles'
  <2> SUFFICES ASSUME NEW c \in Contents, Deleted(c)', index'[c].ts + Span < m.start PROVE c \notin used
    BY <1>1, <1>5 DEF RunSettles
  <2>1. Deleted(c) /\ index'[c] = index[c]
    BY <1>9
  <2>2. c \notin used \/ c \in m.view.used
    BY <1>1, <1>6, <2>1 DEF RunInv, RunSettles
  <2>3. m'.view.used = m.view.used
    BY <1>2, <1>5 DEF WithEntries, View
  <2>4. c \notin m.view.used
    BY <1>5, <2>3 DEF GCInv, RunRestored, Deleted
  <2> QED BY <2>2, <2>4
<1>12. \A u \in Clients : \A c \in Contents : client[u].pending[c] # Nil => client[u].pending[c].pack \in packs'
  BY <1>1 DEF Inv, ClientInv, PendingStored
<1>13. watermark <= watermark'
  BY <1>1, <1>2
<1>14. RunInv'
  BY <1>9, <1>10, <1>11 DEF RunInv
<1> QED BY <1>1, <1>9, <1>12, <1>13, <1>14, RunFrame

\* Contents are moved to new packs, deleted ones as deleted.
LEMMA RewriteRead == ASSUME Inv, TypeInv', GCInv', NEW tie \in BOOLEAN, RewriteContents(tie) PROVE Inv'
<1>0. m.pc = "rewriting" /\ UNCHANGED <<now, used, client, watermark, gcRuns>>
  BY DEF RewriteContents, schedule
<1>1. /\ m \in RunState /\ m.start \in Nat /\ m.view \in View /\ m.view.index \in Index /\ watermark \in Int /\ now \in Nat
      /\ MaintenanceSession \in Session
  <2>1. m \in RunState /\ m.start \in Nat /\ m.view \in View /\ watermark \in Int /\ now \in Nat
    BY <1>0, RunTypes, StoreTypes DEF Inv
  <2> QED BY <2>1 DEF View, MaintenanceSession, Session, Writers
<1>2. \E new : /\ \E batch \in SUBSET {c \in Contents : InView(m.view, c) # Nil} :
                     new = [c \in Contents |-> IF c \notin batch THEN Nil
                              ELSE WrittenEntry(c, MaintenanceSession, m.view.index[c].ts, m.view.index[c].deleted)]
               /\ packs' = packs \cup PacksOf(new)
               /\ index' = Merge(index, new, tie)
               /\ m' = [m EXCEPT !.view = WithEntries(m.view, new, tie)]
  BY DEF RewriteContents
<1>3. PICK new : /\ \E batch \in SUBSET {c \in Contents : InView(m.view, c) # Nil} :
                       new = [c \in Contents |-> IF c \notin batch THEN Nil
                                ELSE WrittenEntry(c, MaintenanceSession, m.view.index[c].ts, m.view.index[c].deleted)]
                 /\ packs' = packs \cup PacksOf(new)
                 /\ index' = Merge(index, new, tie)
                 /\ m' = [m EXCEPT !.view = WithEntries(m.view, new, tie)]
  BY <1>2
<1>4. PICK batch \in SUBSET {c \in Contents : InView(m.view, c) # Nil} :
        new = [c \in Contents |-> IF c \notin batch THEN Nil
                 ELSE WrittenEntry(c, MaintenanceSession, m.view.index[c].ts, m.view.index[c].deleted)]
  BY <1>3
<1>5. m.start <= now
  BY <1>0 DEF Inv, RunInv, RunTimely
<1>6. \A c \in Contents : /\ new[c] \in Entry \cup {Nil}
                          /\ new[c] # Nil => /\ m.view.index[c] # Nil /\ new[c].ts > m.view.index[c].ts
                                             /\ new[c].ts >= m.start
  <2> SUFFICES ASSUME NEW c \in batch
               PROVE  /\ new[c] \in Entry /\ m.view.index[c] # Nil /\ new[c].ts > m.view.index[c].ts
                      /\ new[c].ts >= m.start
    BY <1>4
  <2>1. c \in Contents /\ InView(m.view, c) # Nil
    OBVIOUS
  <2>2. m.view.index[c] # Nil
    BY <1>1, <2>1, InViewFacts
  <2>3. PICK t, d : t = m.view.index[c].ts /\ d = m.view.index[c].deleted
    OBVIOUS
  <2>4. t \in Nat /\ t \in Int /\ d \in BOOLEAN
    <3>1. m.view.index[c].ts \in Nat /\ m.view.index[c].deleted \in BOOLEAN
      BY <1>1, <2>1, <2>2, EntryTypes
    <3> QED BY <2>3, <3>1
  <2>5. new[c] = WrittenEntry(c, MaintenanceSession, t, d)
    BY <1>4, <2>1, <2>3
  <2>6. PICK s : s = MaintenanceSession
    OBVIOUS
  <2>7. WrittenEntry(c, s, t, d) \in Entry /\ WrittenEntry(c, s, t, d).ts > t
    BY <1>1, <2>1, <2>4, <2>6, WrittenFacts
  <2>8. WrittenEntry(c, s, t, d).ts >= now
    BY <1>1, <2>4 DEF WrittenEntry, ContentWriteTime
  <2>9. new[c] \in Entry /\ new[c].ts > m.view.index[c].ts /\ new[c].ts >= now /\ new[c].ts \in Nat
    BY <2>3, <2>5, <2>6, <2>7, <2>8 DEF Entry
  <2> QED BY <1>1, <1>5, <2>2, <2>9
<1>7. new \in Index
  <2>1. new = [c \in Contents |-> new[c]]
    BY <1>4
  <2> QED BY <1>6, <2>1 DEF Index
<1>8. \A c \in Contents : new[c] # Nil => new[c].pack \in packs'
  BY <1>3 DEF PacksOf
<1>9. PICK v : v = WithEntries(m.view, new, tie)
  OBVIOUS
<1>10. m' = [m EXCEPT !.view = v]
  BY <1>3, <1>9
<1>11. m'.pc = "rewriting" /\ m'.view = WithEntries(m.view, new, tie) /\ m'.start = m.start
  BY <1>0, <1>1, <1>9, <1>10 DEF RunState
<1>12. packs \subseteq packs' /\ watermark <= watermark' /\ m.pc # "idle" /\ index' = Merge(index, new, tie)
  BY <1>0, <1>1, <1>3
<1>13. /\ IndexStep /\ StoreInv' /\ RunTimely' /\ RunView'
       /\ \A c \in Contents : Deleted(c)' /\ index'[c].ts + Span < m.start => Deleted(c) /\ index'[c] = index[c]
  BY <1>0, <1>6, <1>7, <1>8, <1>11, <1>12, MaintainerMerge
<1>14. RunInv
  BY DEF Inv
<1>15. RunRecorded' /\ RunPending' /\ RunReads'
  BY <1>0, <1>11, <1>14 DEF RunInv, RunRecorded, RunPending, RunReads
<1>16. RunSettles'
  BY <1>0, <1>11, <1>13, <1>14 DEF RunInv, RunSettles
<1>17. \A u \in Clients : \A c \in Contents : client[u].pending[c] # Nil => client[u].pending[c].pack \in packs'
  BY <1>12 DEF Inv, ClientInv, PendingStored
<1>18. RunInv'
  BY <1>13, <1>15, <1>16 DEF RunInv
<1> QED BY <1>0, <1>12, <1>13, <1>17, <1>18, RunFrame

\* The record of a run is the first of the history, the others were there before.
LEMMA WithRunFacts ==
  ASSUME ScheduleOK, CountersOK, m.start \in Nat, NEW ok \in BOOLEAN
  PROVE  LET h == WithRun(gcRuns, ok)
             r == [start |-> m.start, end |-> now, success |-> ok]
         IN  h # <<>> /\ h[1] = r /\ \A i \in DOMAIN h : h[i] = r \/ \E j \in DOMAIN gcRuns : h[i] = gcRuns[j]
<1> DEFINE r == [start |-> m.start, end |-> now, success |-> ok]
           all == <<r>> \o gcRuns
           k == Min({Len(all), MaxRetainedRunInfo})
<1>1. r \in RunInfo
  BY DEF RunInfo, CountersOK
<1>2. WithRun(gcRuns, ok) = SubSeq(all, 1, k)
  BY DEF WithRun
<1> HIDE DEF r
<1>3. all \in Seq(RunInfo) /\ Len(all) = 1 + Len(gcRuns) /\ all[1] = r /\ \A i \in 2..Len(all) : all[i] = gcRuns[i - 1]
  BY <1>1 DEF ScheduleOK
<1>4. Len(gcRuns) \in Nat /\ DOMAIN gcRuns = 1..Len(gcRuns)
  BY DEF ScheduleOK
<1> HIDE DEF all
<1>5. k \in Nat /\ k <= Len(all) /\ k >= 1
  <2>1. Len(all) \in Nat /\ {Len(all), MaxRetainedRunInfo} \in SUBSET Nat /\ {Len(all), MaxRetainedRunInfo} # {}
    BY <1>3, <1>4 DEF MaxRetainedRunInfo
  <2>2. k \in {Len(all), MaxRetainedRunInfo} /\ \A y \in {Len(all), MaxRetainedRunInfo} : k <= y
    BY <2>1, MinNat
  <2> HIDE DEF k
  <2> QED BY <1>3, <1>4, <2>1, <2>2 DEF MaxRetainedRunInfo
<1> HIDE DEF k
<1>6. /\ Len(SubSeq(all, 1, k)) = k /\ DOMAIN SubSeq(all, 1, k) = 1..k
      /\ \A i \in 1..k : SubSeq(all, 1, k)[i] = all[i]
  BY <1>3, <1>5
<1>7. SubSeq(all, 1, k) # <<>> /\ SubSeq(all, 1, k)[1] = r
  BY <1>3, <1>5, <1>6
<1>8. ASSUME NEW i \in 1..k PROVE all[i] = r \/ \E j \in DOMAIN gcRuns : all[i] = gcRuns[j]
  <2>1. CASE i = 1
    BY <1>3, <2>1
  <2>2. CASE i # 1
    <3>1. i \in 2..Len(all) /\ i - 1 \in DOMAIN gcRuns
      BY <1>3, <1>4, <1>5, <2>2
    <3> QED BY <1>3, <3>1
  <2> QED BY <2>1, <2>2
<1> QED BY <1>2, <1>6, <1>7, <1>8 DEF r

\* The outcome of snapshot GC is recorded, or not.
LEMMA RecordRead == ASSUME Inv, TypeInv', GCInv', SnapshotGCFails \/ ReportSnapshotGC \/ ReportRewrite \/ MaintenanceStops PROVE Inv'
<1>0. UNCHANGED <<now, used, client, index, watermark, packs>>
  BY DEF SnapshotGCFails, ReportSnapshotGC, ReportRewrite, MaintenanceStops, storage
<1>1. /\ ScheduleOK /\ CountersOK /\ m \in RunState /\ m.start \in Nat /\ now \in Nat
  BY TypeParts, RunTypes, StoreTypes DEF Inv
<1>2. HistoryOrdered /\ RunInv
  BY DEF Inv, StoreInv
<1>3. ASSUME NEW ok \in BOOLEAN, gcRuns' = WithRun(gcRuns, ok), m.pc # "idle"
      PROVE  HistoryOrdered' /\ gcRuns' # <<>> /\ gcRuns'[1].start = m.start /\ gcRuns'[1].success = ok
  <2>1. PICK r : r = [start |-> m.start, end |-> now, success |-> ok]
    OBVIOUS
  <2>2. gcRuns' # <<>> /\ gcRuns'[1] = r /\ \A i \in DOMAIN gcRuns' : gcRuns'[i] = r \/ \E j \in DOMAIN gcRuns : gcRuns'[i] = gcRuns[j]
    BY <1>1, <1>3, <2>1, WithRunFacts
  <2>3. r.start = m.start /\ r.end = now /\ r.success = ok
    BY <2>1
  <2>4. m.start <= now
    BY <1>2, <1>3 DEF RunInv, RunTimely
  <2> QED BY <1>2, <2>2, <2>3, <2>4 DEF HistoryOrdered
<1>4. CASE SnapshotGCFails
  <2>1. m' = IdleRun /\ gcRuns' = WithRun(gcRuns, FALSE) /\ m.pc # "idle"
    BY <1>4 DEF SnapshotGCFails
  <2>2. FALSE \in BOOLEAN
    OBVIOUS
  <2>3. HistoryOrdered'
    BY <1>3, <2>1, <2>2
  <2> QED BY <1>0, <2>1, <2>3, IdleRunInv, RunLocalStep
<1>5. CASE MaintenanceStops
  <2>1. m' = IdleRun /\ gcRuns' = gcRuns
    BY <1>5 DEF MaintenanceStops, schedule
  <2>2. HistoryOrdered'
    BY <1>2, <2>1 DEF HistoryOrdered
  <2> QED BY <1>0, <2>1, <2>2, IdleRunInv, RunLocalStep
<1>6. CASE ReportRewrite
  <2>1. m.pc = "rewriting" /\ m' = [m EXCEPT !.pc = "drop"] /\ gcRuns' = gcRuns
    BY <1>6 DEF ReportRewrite
  <2>2. m'.pc = "drop" /\ m'.view = m.view /\ m'.start = m.start
    BY <1>1, <2>1 DEF RunState
  <2>3. HistoryOrdered'
    BY <1>2, <2>1 DEF HistoryOrdered
  <2>4. RunInv'
    BY <1>0, <1>2, <2>1, <2>2 DEF RunInv, RunTimely, RunRecorded, RunPending, RunReads, RunView, RunSettles, Deleted
  <2> QED BY <1>0, <2>3, <2>4, RunLocalStep
<1>7. CASE ReportSnapshotGC
  <2>1. m.pc = "gcReport" /\ gcRuns' = WithRun(gcRuns, TRUE)
    BY <1>7 DEF ReportSnapshotGC
  <2>2. PICK l \in {"rewriting", "drop"} : m' = [m EXCEPT !.pc = l]
    BY <1>7 DEF ReportSnapshotGC
  <2>3. m'.pc \in {"rewriting", "drop"} /\ m'.view = m.view /\ m'.start = m.start
    BY <1>1, <2>2 DEF RunState
  <2>4. TRUE \in BOOLEAN
    OBVIOUS
  <2>5. HistoryOrdered' /\ gcRuns' # <<>> /\ gcRuns'[1].start = m.start /\ gcRuns'[1].success = TRUE
    BY <1>3, <2>1, <2>4
  <2>6. RunRecorded' /\ RunPending' /\ RunReads'
    BY <2>3, <2>5 DEF RunRecorded, RunPending, RunReads
  <2>7. RunTimely' /\ RunView' /\ RunSettles'
    BY <1>0, <1>2, <2>1, <2>3 DEF RunInv, RunTimely, RunView, RunSettles, Deleted
  <2> QED BY <1>0, <2>5, <2>6, <2>7, RunLocalStep DEF RunInv
<1> QED BY <1>4, <1>5, <1>6, <1>7

\* The drop time is earlier than the current run by more than the margins together.
LEMMA SafeTimeFacts ==
  ASSUME ScheduleOK, HistoryOrdered, gcRuns # <<>>, gcRuns[1].success, FindSafeDropTime(gcRuns) # Nil
  PROVE  /\ FindSafeDropTime(gcRuns) \in Int
         /\ FindSafeDropTime(gcRuns) + DropContentFromIndexExtraMargin + MarginBetweenSnapshotGC < gcRuns[1].start
<1> DEFINE ok == {i \in DOMAIN gcRuns : gcRuns[i].success}
           latest == Min(ok)
           earlier == {i \in ok \ {latest} : gcRuns[latest].start - gcRuns[i].end > MarginBetweenSnapshotGC}
<1>1. DOMAIN gcRuns = 1..Len(gcRuns) /\ Len(gcRuns) \in Nat /\ gcRuns \in Seq(RunInfo)
  BY DEF ScheduleOK
<1>2. FindSafeDropTime(gcRuns) = IF ok = {} \/ earlier = {} THEN Nil
                                 ELSE gcRuns[Min(earlier)].start - DropContentFromIndexExtraMargin
  BY DEF FindSafeDropTime
<1>3. 1 \in ok /\ ok \in SUBSET Nat /\ \A i \in ok : i >= 1
  <2>1. Len(gcRuns) >= 1
    BY <1>1, EmptySeq
  <2> QED BY <1>1, <2>1
<1>4. latest = 1
  <2> HIDE DEF ok
  <2>1. Min(ok) \in ok /\ \A y \in ok : Min(ok) <= y
    BY <1>3, MinNat
  <2>2. PICK x : x = Min(ok)
    OBVIOUS
  <2>3. x \in Nat /\ x >= 1 /\ x <= 1
    BY <1>3, <2>1, <2>2
  <2>4. x = 1
    BY <2>3
  <2> QED BY <2>2, <2>4
<1>5. earlier # {} /\ earlier \in SUBSET Nat
  BY <1>1, <1>2
<1>6. \A i \in earlier : i \in 1..Len(gcRuns) /\ gcRuns[1].start - gcRuns[i].end > MarginBetweenSnapshotGC
  BY <1>1, <1>4
<1> HIDE DEF earlier
<1>7. Min(earlier) \in earlier
  BY <1>5, MinNat
<1>8. PICK e : e = Min(earlier)
  OBVIOUS
<1>9. e \in 1..Len(gcRuns) /\ gcRuns[1].start - gcRuns[e].end > MarginBetweenSnapshotGC
  BY <1>6, <1>7, <1>8
<1>10. gcRuns[e] \in RunInfo /\ gcRuns[1] \in RunInfo
  <2>1. 1 \in 1..Len(gcRuns)
    BY <1>1, <1>3
  <2> QED BY <1>1, <1>9, <2>1, ElementOfSeq
<1>11. gcRuns[e].start \in Nat /\ gcRuns[e].end \in Nat /\ gcRuns[1].start \in Nat /\ gcRuns[e].start <= gcRuns[e].end
  BY <1>1, <1>9, <1>10 DEF RunInfo, HistoryOrdered
<1>12. FindSafeDropTime(gcRuns) = gcRuns[e].start - DropContentFromIndexExtraMargin
  BY <1>2, <1>8
<1> QED BY <1>9, <1>11, <1>12, Delays

\* The watermark moves: to a time so early that what was deleted before it is in no snapshot.
LEMMA DropRead == ASSUME DelaysSuffice, Inv, TypeInv', GCInv', DropDeletedContents PROVE Inv'
<1>0. m.pc = "drop" /\ UNCHANGED <<now, used, client, index, packs, gcRuns>>
  BY DEF DropDeletedContents, schedule
<1>1. /\ ScheduleOK /\ m \in RunState /\ m.start \in Nat /\ now \in Nat /\ watermark \in Int /\ index \in Index
      /\ used \subseteq Contents
  BY TypeParts, RunTypes, StoreTypes DEF Inv
<1>2. RunInv /\ StoreInv /\ m.start <= now
  BY <1>0 DEF Inv, RunInv, RunTimely
<1>3. IndexStep /\ \A u \in Clients : \A c \in Contents : client[u].pending[c] # Nil => client[u].pending[c].pack \in packs'
  <2>1. \A u \in Clients : \A c \in Contents : client[u].pending[c] # Nil => client[u].pending[c].pack \in packs
    BY DEF Inv, ClientInv, PendingStored
  <2> QED BY <1>0, <2>1 DEF IndexStep
<1>4. CASE FindSafeDropTime(gcRuns) = Nil
  <2>1. m' = [m EXCEPT !.pc = "orphans"] /\ watermark' = watermark
    BY <1>4 DEF DropDeletedContents
  <2>2. m'.pc = "orphans" /\ m'.view = m.view /\ m'.start = m.start
    BY <1>1, <2>1 DEF RunState
  <2>3. RunInv'
    BY <1>0, <1>2, <2>1, <2>2 DEF RunInv, RunTimely, RunRecorded, RunPending, RunReads, RunView, RunSettles
  <2>4. HistoryOrdered'
    BY <1>0, <1>2 DEF StoreInv, HistoryOrdered
  <2> QED BY <1>0, <2>1, <2>3, <2>4, RunLocalStep
<1>5. CASE FindSafeDropTime(gcRuns) # Nil
  <2>1. PICK safe : safe = FindSafeDropTime(gcRuns)
    OBVIOUS
  <2>2. /\ watermark' = IF safe < watermark THEN watermark ELSE safe
        /\ m' = [m EXCEPT !.pc = "orphans", !.view = [Current EXCEPT !.watermark = watermark']]
    BY <1>5, <2>1 DEF DropDeletedContents, AdvanceDeletionWatermark
  <2>3. PICK v : v = [Current EXCEPT !.watermark = watermark']
    OBVIOUS
  <2>4. v.index = index /\ v.watermark = watermark'
    BY <2>3 DEF Current
  <2>5. m'.pc = "orphans" /\ m'.view = v /\ m'.start = m.start
    BY <1>1, <2>2, <2>3 DEF RunState
  <2>6. gcRuns # <<>> /\ gcRuns[1].success /\ gcRuns[1].start = m.start
    BY <1>0, <1>2 DEF RunInv, RunRecorded
  <2>7. safe \in Int /\ safe + Span < m.start
    <3>1. safe \in Int /\ safe + DropContentFromIndexExtraMargin + MarginBetweenSnapshotGC < m.start
      BY <1>1, <1>2, <1>5, <2>1, <2>6, SafeTimeFacts DEF StoreInv
    <3> QED BY <1>1, <3>1, Delays DEF DelaysSuffice
  <2>8. watermark <= watermark' /\ watermark' \in Int /\ (watermark' = watermark \/ watermark' = safe)
    BY <1>1, <2>2, <2>7
  <2>9. RunInv'
    <3>1. RunTimely'
      BY <1>0, <1>2, <2>4, <2>5 DEF RunInv, RunTimely
    <3>2. RunRecorded' /\ RunPending' /\ RunReads' /\ RunView' /\ RunSettles'
      BY <1>0, <2>4, <2>5 DEF RunRecorded, RunPending, RunReads, RunView, RunSettles
    <3> QED BY <3>1, <3>2 DEF RunInv
  <2>10. WatermarkOld' /\ HistoryOrdered'
    <3>0. Span \in Nat /\ (watermark >= 0 => watermark + Span < now)
      BY <1>2, Delays DEF StoreInv, WatermarkOld
    <3>1. WatermarkOld'
      <4>1. CASE watermark' = watermark
        BY <1>0, <3>0, <4>1 DEF WatermarkOld
      <4>2. CASE watermark' = safe
        <5>1. safe + Span < now
          BY <1>1, <1>2, <2>7, <3>0
        <5> QED BY <1>0, <4>2, <5>1 DEF WatermarkOld
      <4> QED BY <2>8, <4>1, <4>2
    <3> QED BY <1>0, <1>2, <3>1 DEF StoreInv, HistoryOrdered
  <2>11. \A c \in Contents : index[c] # Nil /\ ShouldIgnore(index[c], watermark) => ShouldIgnore(index[c], watermark')
    <3>1. \A c \in Contents : index[c] # Nil => index[c].ts \in Nat
      BY <1>1, EntryTypes
    <3> QED BY <1>1, <2>8, <3>1 DEF ShouldIgnore
  <2>12. EntriesStored'
    BY <1>0, <1>2, <2>11 DEF StoreInv, EntriesStored
  <2>13. UsedIndexed'
    <3> SUFFICES ASSUME NEW c \in used PROVE index[c] # Nil /\ ~ShouldIgnore(index[c], watermark')
      BY <1>0 DEF UsedIndexed
    <3>1. c \in Contents /\ index[c] # Nil /\ ~ShouldIgnore(index[c], watermark)
      BY <1>1, <1>2 DEF StoreInv, UsedIndexed
    <3>2. index[c].ts \in Nat
      BY <1>1, <3>1, EntryTypes
    <3>3. ASSUME ShouldIgnore(index[c], watermark') PROVE FALSE
      <4>1. watermark' = safe
        BY <2>8, <3>1, <3>3
      <4>2. Deleted(c) /\ index[c].ts <= safe
        BY <3>1, <3>3, <4>1 DEF ShouldIgnore, Deleted
      <4>3. index[c].ts + Span < m.start
        BY <1>1, <2>7, <3>2, <4>2, Delays
      <4> QED BY <1>0, <1>2, <3>1, <4>2, <4>3 DEF RunInv, RunSettles
    <3> QED BY <3>1, <3>3
  <2>14. StoreInv'
    BY <2>10, <2>12, <2>13 DEF StoreInv
  <2> QED BY <1>0, <1>3, <2>8, <2>9, <2>14, RunFrame
<1> QED BY <1>4, <1>5

\* Active sessions are listed.
LEMMA ListRead == ASSUME Inv, TypeInv', GCInv', ListActiveSessions PROVE Inv'
<1>0. m.pc = "orphans" /\ UNCHANGED <<now, used, client, index, watermark, packs, gcRuns>>
  BY DEF ListActiveSessions, storage, schedule
<1>1. HistoryOrdered' /\ m \in RunState /\ RunInv
  BY <1>0, RunTypes DEF Inv, StoreInv, HistoryOrdered
<1>2. CASE m' = IdleRun
  BY <1>0, <1>1, <1>2, IdleRunInv, RunLocalStep
<1>3. CASE m' = [m EXCEPT !.pc = "delete", !.sessions = sessions]
  <2>1. m'.pc = "delete" /\ m'.view = m.view /\ m'.start = m.start
    BY <1>1, <1>3 DEF RunState
  <2>2. RunInv'
    BY <1>0, <1>1, <2>1 DEF RunInv, RunTimely, RunRecorded, RunPending, RunReads, RunView, RunSettles
  <2> QED BY <1>0, <1>1, <2>2, RunLocalStep
<1> QED BY <1>2, <1>3 DEF ListActiveSessions

\* Blobs are deleted that no entry needs, all or some of them.
LEMMA DeleteRead == ASSUME DelaysSuffice, Inv, TypeInv', GCInv', DeleteUnreferencedBlobs \/ DeleteUnreferencedBlobsFails PROVE Inv'
<1>0. /\ m.pc = "delete" /\ UNCHANGED <<now, used, client, index, watermark, gcRuns>> /\ m' = IdleRun
      /\ packs \ OrphanedPacks \subseteq packs' /\ packs' \subseteq packs
  BY DEF DeleteUnreferencedBlobs, DeleteUnreferencedBlobsFails, schedule
<1>1. /\ m.start \in Nat /\ m.view \in View /\ now \in Nat /\ watermark \in Int /\ index \in Index /\ packs \subseteq Pack
  BY <1>0, RunTypes, StoreTypes DEF Inv
<1>2. RunInv /\ StoreInv /\ m.start <= now /\ m.view.watermark = watermark
  BY <1>0 DEF Inv, RunInv, RunTimely
<1>3. \A p \in packs : m.start <= p.at + CheckpointInterval => p \in packs'
  <2> SUFFICES ASSUME NEW p \in packs, m.start <= p.at + CheckpointInterval PROVE p \notin OrphanedPacks
    BY <1>0
  <2>1. p.at \in Nat
    BY <1>1 DEF Pack
  <2>2. ~(m.start - p.at >= BlobDeleteMinAge)
    BY <1>1, <2>1, Delays DEF DelaysSuffice
  <2> QED BY <2>2 DEF OrphanedPacks, Unreferenced
<1>4. \A u \in Clients : \A c \in Contents : client[u].pending[c] # Nil => client[u].pending[c].pack \in packs'
  <2> SUFFICES ASSUME NEW u \in Clients, NEW c \in Contents, client[u].pending[c] # Nil PROVE client[u].pending[c].pack \in packs'
    OBVIOUS
  <2>1. client[u].pending[c].pack.at \in Nat /\ client[u].checkpoint \in Nat
    BY ClientTypes, EntryTypes DEF Inv
  <2>2. /\ client[u].uploading /\ client[u].pending[c].pack \in packs /\ client[u].checkpoint <= client[u].pending[c].pack.at
    BY DEF Inv, ClientInv, PendingStored
  <2>3. now <= client[u].checkpoint + CheckpointInterval
    BY <2>2 DEF Inv, ClientInv, UploadTimely
  <2>4. m.start <= client[u].pending[c].pack.at + CheckpointInterval
    BY <1>1, <1>2, <2>1, <2>2, <2>3, Delays
  <2> QED BY <1>3, <2>2, <2>4
<1>5. EntriesStored'
  <2> SUFFICES ASSUME NEW c \in Contents, index[c] # Nil, ~ShouldIgnore(index[c], watermark) PROVE index[c].pack \in packs'
    BY <1>0 DEF EntriesStored
  <2>1. index[c].pack \in packs
    BY <1>2 DEF StoreInv, EntriesStored
  <2>2. CASE index[c] = m.view.index[c]
    <3>1. InView(m.view, c) = index[c]
      BY <1>2, <2>2 DEF InView, GetContent
    <3>2. index[c].pack \in UsedPacks
      BY <3>1 DEF UsedPacks
    <3> QED BY <1>0, <2>1, <3>2 DEF OrphanedPacks
  <2>3. CASE index[c] # m.view.index[c]
    <3>1. m.start <= index[c].pack.at + CheckpointInterval
      BY <1>0, <1>2, <2>3 DEF RunInv, RunView
    <3> QED BY <1>3, <2>1, <3>1
  <2> QED BY <2>2, <2>3
<1>6. StoreInv'
  BY <1>0, <1>2, <1>5 DEF StoreInv, WatermarkOld, HistoryOrdered, UsedIndexed
<1>7. IndexStep /\ watermark <= watermark'
  BY <1>0, <1>1 DEF IndexStep
<1> QED BY <1>0, <1>4, <1>6, <1>7, IdleRunInv, RunFrame

\* The repository starts with a snapshot that can be read.
LEMMA InitRead == Init => StoreInv /\ RunInv /\ \A u \in Clients : ClientInv(u)
<1> SUFFICES ASSUME Init PROVE StoreInv /\ RunInv /\ \A u \in Clients : ClientInv(u)
  OBVIOUS
<1>1. /\ now = 0 /\ watermark = -1 /\ packs = PacksOf(index) /\ used = Initial /\ gcRuns = <<>> /\ m = IdleRun
      /\ index = [c \in Contents |-> IF c \in Initial THEN WrittenEntry(c, FirstSession, -1, FALSE) ELSE Nil]
      /\ client = [u \in Clients |-> IdleClient(Current, 0)]
  BY DEF Init
<1>2. TypeInv /\ now \in Nat /\ index \in Index /\ used \subseteq Contents
  BY InitType, StoreTypes
<1>3. \A c \in Contents : index[c] # Nil => ~index[c].deleted /\ index[c].pack \in packs
  BY <1>1 DEF WrittenEntry, PacksOf
<1>4. \A c \in used : index[c] # Nil
  <2> SUFFICES ASSUME NEW c \in Initial PROVE index[c] # Nil
    BY <1>1
  <2>1. c \in Contents /\ index[c] = WrittenEntry(c, FirstSession, -1, FALSE)
    BY <1>1, MaintenanceAssumption
  <2>2. FirstSession \in Session /\ -1 \in Int /\ FALSE \in BOOLEAN
    BY DEF FirstSession, Session, Writers
  <2>3. WrittenEntry(c, FirstSession, -1, FALSE) \in Entry
    BY <1>2, <2>1, <2>2, WrittenFacts
  <2> QED BY <2>1, <2>3, NilAssumption
<1>5. StoreInv
  <2>1. WatermarkOld
    BY <1>1 DEF WatermarkOld
  <2>2. HistoryOrdered
    BY <1>1 DEF HistoryOrdered
  <2>3. EntriesStored
    BY <1>3 DEF EntriesStored
  <2>4. UsedIndexed
    BY <1>2, <1>3, <1>4 DEF UsedIndexed, ShouldIgnore
  <2> QED BY <2>1, <2>2, <2>3, <2>4 DEF StoreInv
<1>6. RunInv
  <2>1. m.pc = "idle"
    BY <1>1 DEF IdleRun
  <2> QED BY <2>1 DEF RunInv, RunTimely, RunRecorded, RunPending, RunReads, RunView, RunSettles
<1>7. ASSUME NEW u \in Clients PROVE ClientInv(u)
  <2>1. client[u] = IdleClient(Current, 0)
    BY <1>1
  <2>2. /\ client[u].uploading = FALSE /\ client[u].refs = {} /\ client[u].pending = NoEntries
        /\ client[u].view = Current /\ client[u].loaded = 0
    BY <2>1 DEF IdleClient
  <2>3. Current.index = index /\ Current.watermark = watermark /\ Current.used = used
    BY DEF Current
  <2>4. \A c \in Contents : NoEntries[c] = Nil
    BY DEF NoEntries
  <2>5. UploadTimely(u) /\ PendingStored(u) /\ PrevKnown(u) /\ RefsKnown(u)
    BY <2>2, <2>4 DEF UploadTimely, PendingStored, PrevKnown, RefsKnown
  <2>6. ViewTimely(u)
    BY <1>1, <2>2, <2>3, Delays DEF ViewTimely
  <2>7. ViewKnows(u)
    BY <1>3, <1>4, <2>2, <2>3 DEF ViewKnows, Deleted
  <2> QED BY <2>5, <2>6, <2>7 DEF ClientInv
<1> QED BY <1>5, <1>6, <1>7

\* Every step keeps the invariant.
LEMMA NextRead == ASSUME DelaysSuffice PROVE Inv /\ [Next]_vars /\ [KeepsUnrepaired]_vars => Inv'
<1> SUFFICES ASSUME Inv, [Next]_vars, [KeepsUnrepaired]_vars PROVE Inv'
  OBVIOUS
<1>1. TypeInv' /\ GCInv'
  BY NextType, NextGC DEF Inv
<1>2. CASE UNCHANGED vars
  <2>1. UNCHANGED <<now, used, client, index, watermark, packs, gcRuns, m>>
    BY <1>2 DEF vars, storage, schedule
  <2>2. HistoryOrdered' /\ RunInv'
    BY <2>1 DEF Inv, StoreInv, HistoryOrdered, RunInv, RunTimely, RunRecorded, RunPending, RunReads, RunView, RunSettles, Deleted
  <2> QED BY <1>1, <2>1, <2>2, RunLocalStep
<1>3. ASSUME NEW u \in Clients, ClientNext(u) PROVE Inv'
  BY <1>1, <1>3, RefreshRead, StartRead, AbandonRead, ReuseRead, WriteRead, CommitRead DEF ClientNext
<1>4. CASE DeleteSnapshots
  <2>1. CASE KeepsUnrepaired
    BY <1>1, <1>4, <2>1, DeleteSnapshotsRead
  <2> QED BY <1>2, <2>1
<1>5. CASE MaintenanceNext
  BY <1>1, <1>5, RunExclusiveRead, SnapshotGCRead, SnapshotGCFlushRead, RecordRead, RewriteRead, DropRead, ListRead, DeleteRead
     DEF MaintenanceNext
<1>6. CASE Tick
  BY <1>1, <1>6, TickRead
<1> QED BY <1>2, <1>3, <1>4, <1>5, <1>6 DEF Next

\* What the invariant is for.
LEMMA InvReadable == Inv => SnapshotReadable
<1> SUFFICES ASSUME Inv, NEW c \in used PROVE GetContent(index, watermark, c) # Nil /\ GetContent(index, watermark, c).pack \in packs
  BY DEF SnapshotReadable
<1>1. c \in Contents /\ index[c] # Nil /\ ~ShouldIgnore(index[c], watermark)
  BY StoreTypes DEF Inv, StoreInv, UsedIndexed
<1>2. index[c].pack \in packs
  BY <1>1 DEF Inv, StoreInv, EntriesStored
<1>3. GetContent(index, watermark, c) = index[c]
  BY <1>1 DEF GetContent
<1> QED BY <1>1, <1>2, <1>3

\* Whatever clients upload, flush and abandon, and wherever maintenance fails: every content of every
\* snapshot keeps an index entry above the deletion watermark and its pack, if a run, the use of
\* cached indexes and an upload together take no longer than MarginBetweenSnapshotGC and
\* DropContentFromIndexExtraMargin, checkpoints are closer than BlobDeleteMinAge, and no snapshot is
\* deleted while a content of it is deleted in the index.
THEOREM SnapshotsReadable ==
  ASSUME DelaysSuffice PROVE Spec /\ [][KeepsUnrepaired]_vars => []SnapshotReadable
<1>1. Init => Inv
  BY InitType, InitGC, InitRead DEF Inv
<1>2. Inv /\ [Next]_vars /\ [KeepsUnrepaired]_vars => Inv'
  BY NextRead
<1> QED BY <1>1, <1>2, InvReadable, PTL DEF Spec

\* When every file is hashed, and nothing taken over from previous snapshots, snapshots may be deleted
\* at any time.
THEOREM HashedSnapshotsReadable ==
  ASSUME DelaysSuffice, ForceHash = TRUE PROVE Spec => []SnapshotReadable
<1>1. Init => Inv
  BY InitType, InitGC, InitRead DEF Inv
<1>2. KeepsUnrepaired
  BY DEF KeepsUnrepaired
<1>3. Inv /\ [Next]_vars => Inv'
  BY <1>2, NextRead
<1> QED BY <1>1, <1>3, InvReadable, PTL DEF Spec
----------------------------------------------------------------------------
(* Packs that cached indexes name *)

\* What the theorems about cached indexes need besides DelaysSuffice: a client reloads its indexes
\* before the packs they name are deleted after a rewrite, and between two runs.
ViewsExpire == /\ IndexRefreshFrequency < MinRewriteToOrphanDeletionDelay
               /\ MaxRunDuration + IndexRefreshFrequency < FullCycleInterval

\* The pack of an entry was written by a client, and not by maintenance.
ByClient(entry) == entry.pack.session.by \in Clients
\* What a client's cached indexes say of a content that they do not show as deleted.
Seen(u, c) == client[u].view.index[c]
Shows(u, c) == client[u].view # Nil /\ Seen(u, c) # Nil /\ Seen(u, c).deleted = FALSE
\* Cached indexes that may still be in use when the next run starts.
Lasting(u) == client[u].loaded + IndexRefreshFrequency >= nextFull
\* Too young to be deleted by the present run.
YoungPack(p) == m.start <= p.at + CheckpointInterval
\* An entry that maintenance has stored.
MaintainerEntry(c) == index[c] # Nil /\ (index[c].deleted = TRUE \/ ~ByClient(index[c]))
\* Entries that a client has stored.
ClientEntry(entry) == entry # Nil /\ entry.deleted = FALSE /\ ByClient(entry)

\* Between runs, indexes that last until the next run have all that maintenance has stored.
LastingKnow == m.pc = "idle" => \A u \in Clients : client[u].view # Nil /\ Lasting(u) =>
  \A c \in Contents : MaintainerEntry(c) => Seen(u, c) = index[c]
\* What GC has not seen was stored by clients.
GCMisses == m.pc \in {"gc", "gcFlush"} => \A c \in Contents : index[c] # m.view.index[c] => ClientEntry(index[c])
\* What clients see is what GC sees, or young, or replaced by a client.
GCSees == m.pc \in {"gc", "gcFlush"} => \A u \in Clients : \A c \in Contents : Shows(u, c) =>
  Seen(u, c) = m.view.index[c] \/ YoungPack(Seen(u, c).pack) \/ ClientEntry(m.view.index[c])
\* After GC: the packs clients see are in the index, or young, or replaced by a client, or replaced by
\* a rewrite that ended after the clients loaded their indexes.
RunShows == m.pc \in {"gcReport", "drop", "orphans", "delete"} => \A u \in Clients : \A c \in Contents : Shows(u, c) =>
  \/ Seen(u, c).pack = index[c].pack \/ ByClient(index[c]) \/ YoungPack(Seen(u, c).pack)
  \/ rewriteEnd # Nil /\ client[u].loaded <= rewriteEnd
\* The packs are in storage; between runs they may be gone if a client has written the content again.
ShownStored == \A u \in Clients : \A c \in Contents : Shows(u, c) =>
  \/ Seen(u, c).pack \in packs
  \/ m.pc = "idle" /\ ~Lasting(u) /\ ByClient(index[c])
\* The next run is FullCycleInterval after this one; deletion of blobs waits for the delay.
RunScheduled == /\ m.pc # "idle" => nextFull = m.start + FullCycleInterval
                /\ m.pc = "delete" => rewriteEnd = Nil \/ now >= rewriteEnd + MinRewriteToOrphanDeletionDelay
\* What clients are about to store.
ClientsWrite == \A u \in Clients : /\ client[u].session # Nil => client[u].session.by \in Clients
                                   /\ \A c \in Contents : client[u].pending[c] # Nil => ClientEntry(client[u].pending[c])
\* What GC is about to store: deletions that keep the pack, and entries again that were deleted.
GCWrites == m.pc = "gcFlush" => \A c \in Contents : m.pending[c] # Nil =>
  /\ m.view.index[c] # Nil
  /\ \/ m.view.index[c].deleted = FALSE /\ m.pending[c].pack = m.view.index[c].pack
     \/ m.view.index[c].deleted = TRUE
PacksInv == /\ LastingKnow /\ GCMisses /\ GCSees /\ RunShows /\ ShownStored /\ RunScheduled /\ ClientsWrite /\ GCWrites

\* A client sees a deletion that is not dropped yet, or nothing of it.
LEMMA ShownNotDropped == ASSUME Inv, NEW u \in Clients, NEW c \in Contents, Shows(u, c)
                         PROVE  index[c] # Nil /\ ~ShouldIgnore(index[c], watermark) /\ index[c].pack \in packs
<1>0. /\ client[u].loaded \in Nat /\ now \in Nat /\ watermark \in Int /\ index \in Index
      /\ MaxRunDuration \in Nat /\ IndexRefreshFrequency \in Nat /\ UploadDuration \in Nat
      /\ Span = MaxRunDuration + IndexRefreshFrequency + UploadDuration
  BY ClientTypes, StoreTypes, Delays DEF Inv
<1>1. ViewKnows(u) /\ ViewTimely(u) /\ WatermarkOld /\ EntriesStored
  BY DEF Inv, ClientInv, StoreInv
<1>2. index[c] # Nil
  BY <1>1 DEF ViewKnows, Shows, Seen
<1>3. index[c].ts \in Nat
  BY <1>0, <1>2, EntryTypes
<1>4. ASSUME ShouldIgnore(index[c], watermark) PROVE FALSE
  <2>1. Deleted(c) /\ index[c].ts <= watermark
    BY <1>2, <1>4 DEF Deleted, ShouldIgnore
  <2>2. client[u].view.index[c] # index[c]
    BY <2>1 DEF Shows, Seen, Deleted
  <2>3. client[u].loaded <= index[c].ts + MaxRunDuration
    BY <1>1, <2>1, <2>2 DEF ViewKnows, Shows
  <2>4. now <= client[u].loaded + IndexRefreshFrequency
    BY <1>1 DEF ViewTimely, Shows
  <2>5. watermark >= 0 => watermark + Span < now
    BY <1>1 DEF WatermarkOld
  <2> QED BY <1>0, <1>3, <2>1, <2>3, <2>4, <2>5
<1> QED BY <1>1, <1>2, <1>4 DEF EntriesStored

\* What the invariant is for.
LEMMA PacksKept == Inv /\ PacksInv => RewrittenPacksKept
<1> SUFFICES ASSUME Inv, PacksInv, NEW u \in Clients, client[u].view # Nil, NEW c \in Contents,
                    InView(client[u].view, c) # Nil, ~InView(client[u].view, c).deleted
             PROVE  \/ InView(client[u].view, c).pack \in packs
                    \/ /\ index[c].pack # InView(client[u].view, c).pack
                       /\ index[c].pack.session.by \in Clients
  BY DEF RewrittenPacksKept
<1>1. client[u].view \in View
  BY ClientTypes DEF Inv
<1>2. InView(client[u].view, c) = Seen(u, c) /\ Seen(u, c) \in Entry
  BY <1>1, InViewFacts DEF Seen
<1>3. Shows(u, c)
  BY <1>2 DEF Shows, Entry
<1>4. index[c].pack \in packs
  BY <1>3, ShownNotDropped
<1>5. Seen(u, c).pack \in packs \/ ByClient(index[c])
  BY <1>3 DEF PacksInv, ShownStored
<1> QED BY <1>2, <1>4, <1>5 DEF ByClient

\* What a step that is not maintenance does to the index and to the cached indexes: clients store
\* entries of their own, which they see, in packs not older than a checkpoint; indexes are reloaded,
\* expire or stay.
StoresOwn(c) == index'[c] = index[c] \/ ClientEntry(index'[c])
Reloaded(u) == \A c \in Contents : client'[u].view.index[c] = index'[c]
SeesOwn(u) == /\ client[u].view # Nil /\ client'[u].loaded = client[u].loaded
              /\ \A c \in Contents :
                   /\ \/ client'[u].view.index[c] = Seen(u, c)
                      \/ /\ client'[u].view.index[c].pack \in packs'
                         /\ now <= client'[u].view.index[c].pack.at + CheckpointInterval
                         /\ client'[u].view.index[c].pack.at \in Nat
                   /\ Seen(u, c) = index[c] /\ ~ClientEntry(index'[c]) => client'[u].view.index[c] = index'[c]
ClientsAct == /\ UNCHANGED <<m, nextFull, rewriteEnd>> /\ packs \subseteq packs' /\ now <= now'
              /\ \A c \in Contents : StoresOwn(c)
              /\ \A u \in Clients : client'[u].view = Nil \/ Reloaded(u) \/ SeesOwn(u)

\* Such steps keep the invariant.
LEMMA ClientsActPacks == ASSUME Inv, Inv', PacksInv, ClientsAct, ClientsWrite' PROVE PacksInv'
<1>0. /\ UNCHANGED <<m, nextFull, rewriteEnd>> /\ packs \subseteq packs' /\ now <= now'
      /\ \A c \in Contents : StoresOwn(c)
      /\ \A u \in Clients : client'[u].view = Nil \/ Reloaded(u) \/ SeesOwn(u)
  BY DEF ClientsAct
<1>1. /\ now \in Nat /\ now' \in Nat /\ m.start \in Nat /\ CheckpointInterval \in Nat
      /\ MinRewriteToOrphanDeletionDelay \in Nat /\ rewriteEnd \in Nat \cup {Nil}
  BY MaintenanceAssumption DEF Inv, TypeInv, TypeOK
<1>2. m.pc # "idle" => m.start <= now
  BY DEF Inv, RunInv, RunTimely
<1>3. LastingKnow'
  <2> SUFFICES ASSUME m.pc = "idle", NEW u \in Clients, client'[u].view # Nil, Lasting(u)', NEW c \in Contents, MaintainerEntry(c)'
               PROVE  client'[u].view.index[c] = index'[c]
    BY <1>0 DEF LastingKnow, Seen
  <2>1. CASE Reloaded(u)
    BY <2>1 DEF Reloaded
  <2>2. CASE SeesOwn(u)
    <3>1. ~ClientEntry(index'[c])
      BY DEF MaintainerEntry, ClientEntry, ByClient
    <3>2. index'[c] = index[c]
      BY <1>0, <3>1 DEF StoresOwn
    <3>3. MaintainerEntry(c)
      BY <3>2 DEF MaintainerEntry
    <3>4. client[u].view # Nil /\ Lasting(u)
      BY <1>0, <2>2 DEF SeesOwn, Lasting
    <3>5. Seen(u, c) = index[c]
      BY <3>3, <3>4 DEF PacksInv, LastingKnow
    <3> QED BY <2>2, <3>1, <3>5 DEF SeesOwn
  <2> QED BY <1>0, <2>1, <2>2
<1>4. GCMisses'
  BY <1>0 DEF PacksInv, GCMisses, StoresOwn
<1>5. GCWrites' /\ RunScheduled'
  <2>1. GCWrites'
    BY <1>0 DEF PacksInv, GCWrites
  <2>2. m.pc # "idle" => nextFull = m.start + FullCycleInterval
    BY DEF PacksInv, RunScheduled
  <2>3. m.pc = "delete" => rewriteEnd = Nil \/ now' >= rewriteEnd + MinRewriteToOrphanDeletionDelay
    BY <1>0, <1>1 DEF PacksInv, RunScheduled
  <2> QED BY <1>0, <2>1, <2>2, <2>3 DEF RunScheduled
<1>6. ASSUME NEW u \in Clients, NEW c \in Contents, Shows(u, c)', m.pc # "idle"
      PROVE  \/ client'[u].view.index[c] = index'[c]
             \/ client'[u].view.index[c] = Seen(u, c) /\ Shows(u, c) /\ client'[u].loaded = client[u].loaded
             \/ m.start <= client'[u].view.index[c].pack.at + CheckpointInterval
  <2>1. client'[u].view # Nil /\ client'[u].view.index[c] # Nil /\ client'[u].view.index[c].deleted = FALSE
    BY <1>6 DEF Shows, Seen
  <2>2. CASE Reloaded(u)
    BY <2>2 DEF Reloaded
  <2>3. CASE SeesOwn(u) /\ client'[u].view.index[c] = Seen(u, c)
    BY <2>1, <2>3 DEF SeesOwn, Shows
  <2>4. CASE now <= client'[u].view.index[c].pack.at + CheckpointInterval /\ client'[u].view.index[c].pack.at \in Nat
    BY <1>1, <1>2, <1>6, <2>4
  <2> QED BY <1>0, <2>1, <2>2, <2>3, <2>4 DEF SeesOwn
<1>7. GCSees'
  <2> SUFFICES ASSUME m.pc \in {"gc", "gcFlush"}, NEW u \in Clients, NEW c \in Contents, Shows(u, c)'
               PROVE  \/ client'[u].view.index[c] = m.view.index[c]
                      \/ m.start <= client'[u].view.index[c].pack.at + CheckpointInterval
                      \/ ClientEntry(m.view.index[c])
    BY <1>0 DEF GCSees, Seen, YoungPack, ClientEntry, ByClient
  <2>1. m.pc # "idle"
    OBVIOUS
  <2>2. CASE client'[u].view.index[c] = index'[c]
    <3>1. RunView'
      BY DEF Inv, RunInv
    <3>2. index'[c] = m.view.index[c] \/ m.start <= index'[c].pack.at + CheckpointInterval
      BY <1>0, <2>1, <3>1 DEF RunView
    <3> QED BY <2>2, <3>2
  <2>3. CASE client'[u].view.index[c] = Seen(u, c) /\ Shows(u, c)
    <3>1. Seen(u, c) = m.view.index[c] \/ YoungPack(Seen(u, c).pack) \/ ClientEntry(m.view.index[c])
      BY <2>3 DEF PacksInv, GCSees
    <3> QED BY <2>3, <3>1 DEF YoungPack
  <2> QED BY <1>6, <2>1, <2>2, <2>3
<1>8. RunShows'
  <2> SUFFICES ASSUME m.pc \in {"gcReport", "drop", "orphans", "delete"}, NEW u \in Clients, NEW c \in Contents, Shows(u, c)'
               PROVE  \/ client'[u].view.index[c].pack = index'[c].pack \/ ByClient(index'[c])
                      \/ m.start <= client'[u].view.index[c].pack.at + CheckpointInterval
                      \/ rewriteEnd # Nil /\ client'[u].loaded <= rewriteEnd
    BY <1>0 DEF RunShows, Seen, YoungPack, ByClient
  <2>1. m.pc # "idle"
    OBVIOUS
  <2>2. CASE client'[u].view.index[c] = index'[c]
    BY <2>2
  <2>3. CASE client'[u].view.index[c] = Seen(u, c) /\ Shows(u, c) /\ client'[u].loaded = client[u].loaded
    <3>1. \/ Seen(u, c).pack = index[c].pack \/ ByClient(index[c]) \/ YoungPack(Seen(u, c).pack)
          \/ rewriteEnd # Nil /\ client[u].loaded <= rewriteEnd
      BY <2>3 DEF PacksInv, RunShows
    <3>2. index'[c] = index[c] \/ ByClient(index'[c])
      BY <1>0 DEF StoresOwn, ClientEntry
    <3> QED BY <2>3, <3>1, <3>2 DEF YoungPack
  <2> QED BY <1>6, <2>1, <2>2, <2>3
<1>9. ShownStored'
  <2> SUFFICES ASSUME NEW u \in Clients, NEW c \in Contents, Shows(u, c)'
               PROVE  \/ client'[u].view.index[c].pack \in packs'
                      \/ m.pc = "idle" /\ ~Lasting(u)' /\ ByClient(index'[c])
    BY <1>0 DEF ShownStored, Seen, ByClient
  <2>1. client'[u].view # Nil /\ client'[u].view.index[c] # Nil /\ client'[u].view.index[c].deleted = FALSE
    BY DEF Shows, Seen
  <2>2. CASE Reloaded(u)
    <3>1. client'[u].view.index[c] = index'[c]
      BY <2>2 DEF Reloaded
    <3>2. EntriesStored'
      BY DEF Inv, StoreInv
    <3> QED BY <2>1, <3>1, <3>2 DEF EntriesStored, ShouldIgnore
  <2>3. CASE SeesOwn(u) /\ client'[u].view.index[c] = Seen(u, c)
    <3>1. Shows(u, c) /\ client'[u].loaded = client[u].loaded
      BY <2>1, <2>3 DEF SeesOwn, Shows
    <3>2. Seen(u, c).pack \in packs \/ (m.pc = "idle" /\ ~Lasting(u) /\ ByClient(index[c]))
      BY <3>1 DEF PacksInv, ShownStored
    <3>3. index'[c] = index[c] \/ ByClient(index'[c])
      BY <1>0 DEF StoresOwn, ClientEntry
    <3>4. Lasting(u)' <=> Lasting(u)
      BY <1>0, <3>1 DEF Lasting
    <3> QED BY <1>0, <2>3, <3>2, <3>3, <3>4
  <2>4. CASE client'[u].view.index[c].pack \in packs'
    BY <2>4
  <2> QED BY <1>0, <2>1, <2>2, <2>3, <2>4 DEF SeesOwn
<1> QED BY <1>3, <1>4, <1>5, <1>7, <1>8, <1>9 DEF PacksInv

\* Cached indexes that stay as they are.
LEMMA SameView == ASSUME NEW u \in Clients, client'[u].view = client[u].view, client'[u].loaded = client[u].loaded,
                         \A c \in Contents : StoresOwn(c)
                  PROVE  client'[u].view = Nil \/ SeesOwn(u)
  BY DEF SeesOwn, StoresOwn, Seen

\* Steps of a client that leave the index alone: cached indexes are kept or reloaded.
LEMMA LocalPacks ==
  ASSUME Inv, Inv', PacksInv, NEW u \in Clients, \A w \in Clients \ {u} : client'[w] = client[w],
         UNCHANGED <<now, index, m, nextFull, rewriteEnd>>, packs \subseteq packs',
         \/ client'[u].view = client[u].view /\ client'[u].loaded = client[u].loaded
         \/ client'[u].view = Current,
         client'[u].session # Nil => client'[u].session.by \in Clients,
         \A c \in Contents : client'[u].pending[c] # Nil => ClientEntry(client'[u].pending[c])
  PROVE  PacksInv'
<1>1. \A c \in Contents : StoresOwn(c)
  BY DEF StoresOwn
<1>2. \A w \in Clients : client'[w].view = Nil \/ Reloaded(w) \/ SeesOwn(w)
  <2> SUFFICES ASSUME NEW w \in Clients PROVE client'[w].view = Nil \/ Reloaded(w) \/ SeesOwn(w)
    OBVIOUS
  <2>1. CASE client'[w].view = client[w].view /\ client'[w].loaded = client[w].loaded
    BY <1>1, <2>1, SameView
  <2>2. CASE client'[w].view = Current
    BY <2>2 DEF Reloaded, Current
  <2> QED BY <2>1, <2>2
<1>3. ClientsWrite'
  <2> SUFFICES ASSUME NEW w \in Clients
               PROVE  /\ client'[w].session # Nil => client'[w].session.by \in Clients
                      /\ \A c \in Contents : client'[w].pending[c] # Nil => ClientEntry(client'[w].pending[c])
    BY DEF ClientsWrite, ClientEntry, ByClient
  <2> QED BY DEF PacksInv, ClientsWrite
<1>4. now <= now'
  BY StoreTypes DEF Inv
<1> QED BY <1>1, <1>2, <1>3, <1>4, ClientsActPacks DEF ClientsAct

\* Reloading indexes, starting and abandoning an upload, taking over a cached entry.
LEMMA RefreshPacks ==
  ASSUME Inv, Inv', PacksInv, NEW u \in Clients,
         Refresh(u) \/ StartUpload(u) \/ AbandonUpload(u) \/ \E c \in Contents : ReuseCachedEntry(u, c)
  PROVE  PacksInv'
<1>0. UNCHANGED <<now, index, packs, m, nextFull, rewriteEnd>>
  BY DEF Refresh, StartUpload, AbandonUpload, ReuseCachedEntry, storage, schedule
<1>1. client[u] \in ClientState /\ client \in [Clients -> ClientState]
  BY ClientTypes DEF Inv, TypeInv, TypeOK, ClientState
<1>2. \A w \in Clients \ {u} : client'[w] = client[w]
  BY DEF Refresh, StartUpload, AbandonUpload, ReuseCachedEntry, Inv, TypeInv, TypeOK
<1>3. /\ client[u].session # Nil => client[u].session.by \in Clients
      /\ \A c \in Contents : client[u].pending[c] # Nil => ClientEntry(client[u].pending[c])
  BY DEF PacksInv, ClientsWrite
<1>4. CASE Refresh(u)
  <2>1. client'[u] = [client[u] EXCEPT !.view = Current, !.loaded = now]
    BY <1>1, <1>4 DEF Refresh
  <2>2. client'[u].view = Current /\ client'[u].session = client[u].session /\ client'[u].pending = client[u].pending
    BY <1>1, <2>1 DEF ClientState
  <2> QED BY <1>0, <1>2, <1>3, <2>2, LocalPacks
<1>5. CASE StartUpload(u)
  <2>1. PICK reopened \in BOOLEAN : client' = [client EXCEPT ![u] =
          [client[u] EXCEPT !.uploading = TRUE, !.started = now, !.checkpoint = now,
             !.prev = IF ForceHash THEN {} ELSE (IF reopened THEN Current ELSE client[u].view).used,
             !.view = IF reopened THEN Current ELSE client[u].view,
             !.loaded = IF reopened THEN now ELSE client[u].loaded]]
    BY <1>5 DEF StartUpload
  <2>2. PICK v, l, p : /\ v = (IF reopened THEN Current ELSE client[u].view) /\ l = (IF reopened THEN now ELSE client[u].loaded)
                       /\ p = (IF ForceHash THEN {} ELSE (IF reopened THEN Current ELSE client[u].view).used)
    OBVIOUS
  <2>3. client'[u] = [client[u] EXCEPT !.uploading = TRUE, !.started = now, !.checkpoint = now, !.prev = p, !.view = v, !.loaded = l]
    BY <1>1, <2>1, <2>2
  <2>4. /\ client'[u].view = v /\ client'[u].loaded = l
        /\ client'[u].session = client[u].session /\ client'[u].pending = client[u].pending
    BY <1>1, <2>3 DEF ClientState
  <2>5. \/ client'[u].view = client[u].view /\ client'[u].loaded = client[u].loaded
        \/ client'[u].view = Current
    BY <2>2, <2>4
  <2> QED BY <1>0, <1>2, <1>3, <2>4, <2>5, LocalPacks
<1>6. CASE AbandonUpload(u)
  <2>1. client'[u] = IdleClient(client[u].view, client[u].loaded)
    BY <1>1, <1>6 DEF AbandonUpload
  <2>2. /\ client'[u].view = client[u].view /\ client'[u].loaded = client[u].loaded
        /\ client'[u].session = Nil /\ client'[u].pending = NoEntries
    BY <2>1 DEF IdleClient
  <2>3. \A c \in Contents : client'[u].pending[c] = Nil
    BY <2>2 DEF NoEntries
  <2> QED BY <1>0, <1>2, <2>2, <2>3, LocalPacks
<1>7. CASE \E c \in Contents : ReuseCachedEntry(u, c)
  <2>1. PICK c \in Contents : client'[u] = [client[u] EXCEPT !.refs = client[u].refs \cup {c}]
    BY <1>1, <1>7 DEF ReuseCachedEntry
  <2>2. /\ client'[u].view = client[u].view /\ client'[u].loaded = client[u].loaded
        /\ client'[u].session = client[u].session /\ client'[u].pending = client[u].pending
    BY <1>1, <2>1 DEF ClientState
  <2> QED BY <1>0, <1>2, <1>3, <2>2, LocalPacks
<1> QED BY <1>4, <1>5, <1>6, <1>7

\* A content is written.
LEMMA WritePacks == ASSUME Inv, Inv', PacksInv, NEW u \in Clients, NEW c \in Contents, WriteContent(u, c) PROVE PacksInv'
<1> DEFINE known == IF client[u].pending[c] # Nil THEN client[u].pending[c] ELSE InView(client[u].view, c)
           session == IF client[u].session # Nil THEN client[u].session ELSE [by |-> u, start |-> now]
           t == IF known = Nil THEN -1 ELSE known.ts
           entry == WrittenEntry(c, session, t, FALSE)
<1>0. UNCHANGED <<now, index, m, nextFull, rewriteEnd>> /\ client[u].view # Nil
  BY DEF WriteContent, schedule
<1>1. client[u] \in ClientState /\ client \in [Clients -> ClientState] /\ client[u].pending \in Index /\ client[u].view \in View
  BY <1>0, ClientTypes DEF Inv, TypeInv, TypeOK, ClientState
<1>2. \A w \in Clients \ {u} : client'[w] = client[w]
  BY DEF WriteContent, Inv, TypeInv, TypeOK
<1>3. /\ client[u].session # Nil => client[u].session.by \in Clients
      /\ \A d \in Contents : client[u].pending[d] # Nil => ClientEntry(client[u].pending[d])
  BY DEF PacksInv, ClientsWrite
<1>4. \/ packs' = packs /\ client'[u] = [client[u] EXCEPT !.refs = client[u].refs \cup {c}]
      \/ /\ packs' = packs \cup {entry.pack}
         /\ client'[u] = [client[u] EXCEPT !.refs = client[u].refs \cup {c},
                            !.pending = [client[u].pending EXCEPT ![c] = entry], !.session = session]
  BY <1>1 DEF WriteContent
<1>5. session.by \in Clients /\ session \in Session
  <2>1. [by |-> u, start |-> now].by = u /\ [by |-> u, start |-> now] \in Session
    BY StoreTypes DEF Inv, Session, Writers
  <2>2. client[u].session \in Session \cup {Nil}
    BY <1>1 DEF ClientState
  <2> QED BY <1>3, <2>1, <2>2
<1>6. t \in Int
  <2>1. known \in Entry \cup {Nil}
    <3>1. client[u].pending[c] \in Entry \cup {Nil}
      BY <1>1 DEF Index
    <3>2. InView(client[u].view, c) \in Entry \cup {Nil}
      BY <1>1, InViewFacts
    <3> QED BY <3>1, <3>2
  <2>2. known # Nil => known.ts \in Nat
    <3> HIDE DEF known
    <3> QED BY <2>1 DEF Entry
  <2> HIDE DEF known
  <2>3. -1 \in Int
    OBVIOUS
  <2> QED BY <2>2, <2>3
<1> HIDE DEF session, t
<1>7. entry \in Entry /\ entry.deleted = FALSE /\ entry.pack.session = session
  <2>1. now \in Nat /\ FALSE \in BOOLEAN
    BY StoreTypes DEF Inv
  <2>2. /\ WrittenEntry(c, session, t, FALSE) \in Entry /\ WrittenEntry(c, session, t, FALSE).deleted = FALSE
        /\ WrittenEntry(c, session, t, FALSE).pack = [content |-> c, at |-> now, session |-> session]
    BY <1>5, <1>6, <2>1, WrittenFacts
  <2>3. PICK e : e = WrittenEntry(c, session, t, FALSE)
    OBVIOUS
  <2>4. e \in Entry /\ e.deleted = FALSE /\ e.pack = [content |-> c, at |-> now, session |-> session]
    BY <2>2, <2>3
  <2>5. e.pack.session = session
    BY <2>4
  <2> QED BY <2>3, <2>4, <2>5
<1> HIDE DEF entry
<1>8. ClientEntry(entry)
  BY <1>5, <1>7, NilAssumption DEF ClientEntry, ByClient
<1>9. CASE packs' = packs /\ client'[u] = [client[u] EXCEPT !.refs = client[u].refs \cup {c}]
  <2>1. /\ client'[u].view = client[u].view /\ client'[u].loaded = client[u].loaded
        /\ client'[u].session = client[u].session /\ client'[u].pending = client[u].pending
    BY <1>1, <1>9 DEF ClientState
  <2> QED BY <1>0, <1>2, <1>3, <1>9, <2>1, LocalPacks
<1>10. CASE /\ packs' = packs \cup {entry.pack}
            /\ client'[u] = [client[u] EXCEPT !.refs = client[u].refs \cup {c},
                            !.pending = [client[u].pending EXCEPT ![c] = entry], !.session = session]
  <2>1. PICK p : p = [client[u].pending EXCEPT ![c] = entry]
    OBVIOUS
  <2>2. \A d \in Contents : p[d] = IF d = c THEN entry ELSE client[u].pending[d]
    BY <1>1, <2>1 DEF Index
  <2>3. client'[u] = [client[u] EXCEPT !.refs = client[u].refs \cup {c}, !.pending = p, !.session = session]
    BY <1>10, <2>1
  <2>4. /\ client'[u].view = client[u].view /\ client'[u].loaded = client[u].loaded
        /\ client'[u].session = session /\ client'[u].pending = p
    BY <1>1, <2>3 DEF ClientState
  <2>5. \A d \in Contents : client'[u].pending[d] # Nil => ClientEntry(client'[u].pending[d])
    BY <1>3, <1>8, <2>2, <2>4
  <2>6. client'[u].session.by \in Clients
    BY <1>5, <2>4
  <2>7. packs \subseteq packs'
    BY <1>10
  <2> QED BY <1>0, <1>2, <2>4, <2>5, <2>6, <2>7, LocalPacks
<1> QED BY <1>4, <1>9, <1>10

\* A client stores what it has pending.
LEMMA CommitPacks ==
  ASSUME Inv, Inv', PacksInv, NEW u \in Clients, NEW tie \in BOOLEAN, FlushIndex(u, tie) \/ CheckpointRoot(u, tie) \/ FinishUpload(u, tie)
  PROVE  PacksInv'
<1>0. UNCHANGED <<now, packs, m, nextFull, rewriteEnd>> /\ index' = Merge(index, client[u].pending, tie)
  BY DEF FlushIndex, CheckpointRoot, FinishUpload, CommitPending, schedule
<1>1. /\ client[u] \in ClientState /\ client \in [Clients -> ClientState] /\ client[u].pending \in Index
      /\ client[u].view \in View \cup {Nil} /\ index \in Index /\ now \in Nat /\ client[u].checkpoint \in Nat
  BY ClientTypes, StoreTypes DEF Inv, TypeInv, TypeOK, ClientState
<1>2. \A w \in Clients \ {u} : client'[w] = client[w]
  BY DEF FlushIndex, CheckpointRoot, FinishUpload, CommitPending, Inv, TypeInv, TypeOK
<1>3. /\ client'[u].view = WithEntries(client[u].view, client[u].pending, tie) /\ client'[u].loaded = client[u].loaded
      /\ client'[u].pending = NoEntries /\ client'[u].session = Nil
  <2>1. PICK r : /\ r \in {client[u], [client[u] EXCEPT !.checkpoint = now], IdleClient(client[u].view, client[u].loaded)}
                 /\ CommitPending(u, tie, r)
    BY DEF FlushIndex, CheckpointRoot, FinishUpload
  <2>2. r \in ClientState /\ r.view = client[u].view /\ r.loaded = client[u].loaded
    <3>1. CASE r = client[u]
      BY <1>1, <3>1
    <3>2. CASE r = [client[u] EXCEPT !.checkpoint = now]
      BY <1>1, <3>2 DEF ClientState
    <3>3. CASE r = IdleClient(client[u].view, client[u].loaded)
      <4>1. client[u].loaded \in Nat
        BY <1>1 DEF ClientState
      <4>2. r \in ClientState
        BY <1>1, <3>3, <4>1, IdleClientType
      <4> QED BY <3>3, <4>2 DEF IdleClient
    <3> QED BY <2>1, <3>1, <3>2, <3>3
  <2>3. PICK v : v = WithEntries(r.view, client[u].pending, tie)
    OBVIOUS
  <2>4. client'[u] = [r EXCEPT !.pending = NoEntries, !.session = Nil, !.view = v]
    BY <1>1, <2>1, <2>3 DEF CommitPending
  <2>5. client'[u].view = v /\ client'[u].loaded = r.loaded /\ client'[u].pending = NoEntries /\ client'[u].session = Nil
    BY <2>2, <2>4 DEF ClientState
  <2> QED BY <2>2, <2>3, <2>5
<1>4. \A c \in Contents : client[u].pending[c] # Nil => ClientEntry(client[u].pending[c])
  BY DEF PacksInv, ClientsWrite
<1>5. \A c \in Contents : StoresOwn(c)
  <2>1. \A c \in Contents : /\ index'[c] \in {index[c], client[u].pending[c]}
                            /\ client[u].pending[c] = Nil => index'[c] = index[c]
    BY <1>0, <1>1, MergeFacts
  <2> QED BY <1>4, <2>1 DEF StoresOwn
<1>6. client'[u].view = Nil \/ SeesOwn(u)
  <2> SUFFICES ASSUME client'[u].view # Nil PROVE SeesOwn(u)
    OBVIOUS
  <2>1. client[u].view # Nil /\ client[u].view \in View
    BY <1>1, <1>3 DEF WithEntries
  <2>2. client'[u].view.index = Merge(client[u].view.index, client[u].pending, tie) /\ client[u].view.index \in Index
    BY <1>1, <1>3, <2>1, WithEntriesType DEF View
  <2>3. ASSUME NEW c \in Contents
        PROVE  \/ client'[u].view.index[c] = Seen(u, c)
               \/ /\ client'[u].view.index[c].pack \in packs'
                  /\ now <= client'[u].view.index[c].pack.at + CheckpointInterval
                  /\ client'[u].view.index[c].pack.at \in Nat
    <3>1. /\ client'[u].view.index[c] \in {Seen(u, c), client[u].pending[c]}
          /\ client[u].pending[c] = Nil => client'[u].view.index[c] = Seen(u, c)
      BY <1>1, <2>2, MergeFacts DEF Seen
    <3>2. ASSUME client[u].pending[c] # Nil
          PROVE  /\ client[u].pending[c].pack \in packs /\ now <= client[u].pending[c].pack.at + CheckpointInterval
                 /\ client[u].pending[c].pack.at \in Nat
      <4>1. /\ client[u].uploading /\ client[u].pending[c].pack \in packs /\ client[u].checkpoint <= client[u].pending[c].pack.at
        BY <3>2 DEF Inv, ClientInv, PendingStored
      <4>2. now <= client[u].checkpoint + CheckpointInterval
        BY <4>1 DEF Inv, ClientInv, UploadTimely
      <4>3. client[u].pending[c].pack.at \in Nat
        BY <1>1, <3>2, EntryTypes
      <4> QED BY <1>1, <4>1, <4>2, <4>3, Delays
    <3> QED BY <1>0, <3>1, <3>2
  <2>4. \A c \in Contents : Seen(u, c) = index[c] => client'[u].view.index[c] = index'[c]
    BY <1>0, <1>1, <2>2 DEF Merge, Seen
  <2> QED BY <1>3, <2>1, <2>3, <2>4 DEF SeesOwn
<1>7. \A w \in Clients : client'[w].view = Nil \/ Reloaded(w) \/ SeesOwn(w)
  <2> SUFFICES ASSUME NEW w \in Clients, w # u PROVE client'[w].view = Nil \/ SeesOwn(w)
    BY <1>6
  <2>1. client'[w].view = client[w].view /\ client'[w].loaded = client[w].loaded
    BY <1>2
  <2> QED BY <1>5, <2>1, SameView
<1>8. ClientsWrite'
  <2> SUFFICES ASSUME NEW w \in Clients
               PROVE  /\ client'[w].session # Nil => client'[w].session.by \in Clients
                      /\ \A c \in Contents : client'[w].pending[c] # Nil => ClientEntry(client'[w].pending[c])
    BY DEF ClientsWrite, ClientEntry, ByClient
  <2>1. CASE w = u
    BY <1>3, <2>1 DEF NoEntries
  <2>2. CASE w # u
    BY <1>2, <2>2 DEF PacksInv, ClientsWrite
  <2> QED BY <2>1, <2>2
<1>9. now <= now'
  BY <1>0, <1>1
<1> QED BY <1>0, <1>5, <1>7, <1>8, <1>9, ClientsActPacks DEF ClientsAct

\* Snapshots are deleted, or time passes and indexes expire, or nothing happens.
LEMMA TickPacks == ASSUME Inv, Inv', PacksInv, DeleteSnapshots \/ Tick \/ UNCHANGED vars PROVE PacksInv'
<1>0. UNCHANGED <<index, packs, m, nextFull, rewriteEnd>>
  BY DEF DeleteSnapshots, Tick, vars, storage, schedule
<1>1. now <= now'
  <2>1. now \in Nat /\ (now' = now \/ now' = now + 1)
    BY StoreTypes DEF Inv, DeleteSnapshots, Tick, vars
  <2> QED BY <2>1
<1>2. ASSUME NEW u \in Clients
      PROVE  /\ client'[u].view = Nil \/ (client'[u].view = client[u].view /\ client'[u].loaded = client[u].loaded)
             /\ client'[u].session = client[u].session /\ client'[u].pending = client[u].pending
  <2>1. CASE client' = client
    BY <2>1
  <2>2. CASE Tick
    <3>1. client[u] \in ClientState
      BY ClientTypes DEF Inv
    <3>2. client'[u] = [client[u] EXCEPT !.view = Nil, !.loaded = 0] \/ client'[u] = client[u]
      BY <2>2 DEF Tick
    <3> QED BY <3>1, <3>2 DEF ClientState
  <2> QED BY <2>1, <2>2 DEF DeleteSnapshots, vars
<1>3. \A c \in Contents : StoresOwn(c)
  BY <1>0 DEF StoresOwn
<1>4. \A u \in Clients : client'[u].view = Nil \/ Reloaded(u) \/ SeesOwn(u)
  BY <1>2, <1>3, SameView
<1>5. ClientsWrite'
  <2> SUFFICES ASSUME NEW w \in Clients
               PROVE  /\ client'[w].session # Nil => client'[w].session.by \in Clients
                      /\ \A c \in Contents : client'[w].pending[c] # Nil => ClientEntry(client'[w].pending[c])
    BY DEF ClientsWrite, ClientEntry, ByClient
  <2> QED BY <1>2 DEF PacksInv, ClientsWrite
<1> QED BY <1>0, <1>1, <1>3, <1>4, <1>5, ClientsActPacks DEF ClientsAct

\* A run ends: indexes in use now are not in use when the next one starts.
LEMMA RunEndPacks ==
  ASSUME ViewsExpire, Inv, PacksInv, m.pc # "idle", m'.pc = "idle", UNCHANGED <<now, index, client, nextFull>>,
         \A u \in Clients : \A c \in Contents : Shows(u, c) => Seen(u, c).pack \in packs' \/ ByClient(index[c])
  PROVE  PacksInv'
<1>1. \A u \in Clients : client[u].view # Nil => ~Lasting(u)
  <2> SUFFICES ASSUME NEW u \in Clients, client[u].view # Nil PROVE ~Lasting(u)
    OBVIOUS
  <2>1. client[u].loaded <= now /\ now <= m.start + MaxRunDuration /\ nextFull = m.start + FullCycleInterval
    BY DEF Inv, ClientInv, ViewTimely, RunInv, RunTimely, PacksInv, RunScheduled
  <2>2. client[u].loaded \in Nat /\ now \in Nat /\ m.start \in Nat /\ FullCycleInterval \in Nat
    BY ClientTypes, StoreTypes, RunTypes, MaintenanceAssumption DEF Inv
  <2> QED BY <2>1, <2>2, Delays DEF Lasting, ViewsExpire
<1>2. \A u \in Clients : client'[u].view # Nil => ~Lasting(u)'
  BY <1>1 DEF Lasting
<1>3. LastingKnow'
  BY <1>2 DEF LastingKnow
<1>4. GCMisses' /\ GCSees' /\ RunShows' /\ RunScheduled' /\ GCWrites'
  BY DEF GCMisses, GCSees, RunShows, RunScheduled, GCWrites
<1>5. ClientsWrite'
  BY DEF PacksInv, ClientsWrite, ClientEntry, ByClient
<1>6. ShownStored'
  BY <1>2 DEF ShownStored, Shows, Seen, ByClient
<1> QED BY <1>3, <1>4, <1>5, <1>6 DEF PacksInv

\* Runs that fail or stop.
LEMMA StopPacks == ASSUME ViewsExpire, Inv, PacksInv, SnapshotGCFails \/ MaintenanceStops PROVE PacksInv'
<1>1. m.pc # "idle" /\ m' = IdleRun /\ UNCHANGED <<now, index, packs, client, nextFull>>
  BY DEF SnapshotGCFails, MaintenanceStops, storage, schedule
<1>2. m'.pc = "idle"
  BY <1>1 DEF IdleRun
<1>3. \A u \in Clients : \A c \in Contents : Shows(u, c) => Seen(u, c).pack \in packs'
  BY <1>1 DEF PacksInv, ShownStored
<1> QED BY <1>1, <1>2, <1>3, RunEndPacks

\* A run starts: indexes in use are those that last until now.
LEMMA StartPacks == ASSUME Inv, PacksInv, RunExclusive PROVE PacksInv'
<1>1. /\ m.pc = "idle" /\ now >= nextFull /\ nextFull' = now + FullCycleInterval
      /\ m' = [IdleRun EXCEPT !.pc = "gc", !.start = now, !.view = Current]
      /\ UNCHANGED <<now, index, packs, client>>
  BY DEF RunExclusive, storage
<1>2. m'.pc = "gc" /\ m'.start = now /\ m'.view = Current /\ Current.index = index
  BY <1>1 DEF IdleRun, Current
<1>3. \A u \in Clients : client[u].view # Nil => Lasting(u)
  <2> SUFFICES ASSUME NEW u \in Clients, client[u].view # Nil PROVE Lasting(u)
    OBVIOUS
  <2>1. now <= client[u].loaded + IndexRefreshFrequency
    BY DEF Inv, ClientInv, ViewTimely
  <2>2. client[u].loaded \in Nat /\ now \in Nat /\ nextFull \in Nat /\ IndexRefreshFrequency \in Nat
    BY ClientTypes, StoreTypes, Delays DEF Inv, TypeInv, TypeOK
  <2> QED BY <1>1, <2>1, <2>2 DEF Lasting
<1>4. LastingKnow' /\ GCMisses' /\ RunShows' /\ GCWrites' /\ RunScheduled'
  BY <1>1, <1>2 DEF LastingKnow, GCMisses, RunShows, GCWrites, RunScheduled
<1>5. ClientsWrite'
  BY <1>1 DEF PacksInv, ClientsWrite, ClientEntry, ByClient
<1>6. ShownStored'
  BY <1>1, <1>3 DEF PacksInv, ShownStored, Shows, Seen
<1>7. GCSees'
  <2> SUFFICES ASSUME NEW u \in Clients, NEW c \in Contents, Shows(u, c)
               PROVE  Seen(u, c) = index[c] \/ ClientEntry(index[c])
    BY <1>1, <1>2 DEF GCSees, Shows, Seen, ClientEntry, ByClient
  <2>1. MaintainerEntry(c) => Seen(u, c) = index[c]
    BY <1>1, <1>3 DEF PacksInv, LastingKnow, Shows
  <2>2. index[c] # Nil
    BY ShownNotDropped
  <2>3. index[c].deleted \in BOOLEAN
    BY <2>2, StoreTypes, EntryTypes DEF Inv
  <2> QED BY <2>1, <2>2, <2>3 DEF MaintainerEntry, ClientEntry
<1> QED BY <1>4, <1>5, <1>6, <1>7 DEF PacksInv

\* A step within a run.
LEMMA RunGoesOn ==
  ASSUME PacksInv, m.pc # "idle", m'.pc # "idle", UNCHANGED <<client, nextFull>>, packs \subseteq packs', m'.start = m.start,
         m'.pc = "delete" => rewriteEnd' = Nil \/ now' >= rewriteEnd' + MinRewriteToOrphanDeletionDelay
  PROVE  LastingKnow' /\ ClientsWrite' /\ ShownStored' /\ RunScheduled'
<1>1. LastingKnow'
  BY DEF LastingKnow
<1>2. ClientsWrite'
  BY DEF PacksInv, ClientsWrite, ClientEntry, ByClient
<1>3. \A u \in Clients : \A c \in Contents : Shows(u, c) => Seen(u, c).pack \in packs
  BY DEF PacksInv, ShownStored
<1>4. ShownStored'
  BY <1>3 DEF ShownStored, Shows, Seen
<1>5. nextFull' = m'.start + FullCycleInterval
  BY DEF PacksInv, RunScheduled
<1>6. RunScheduled'
  BY <1>5 DEF RunScheduled
<1> QED BY <1>1, <1>2, <1>4, <1>6

\* GC decides.
LEMMA CollectPacks == ASSUME Inv, PacksInv, SnapshotGC PROVE PacksInv'
<1> DEFINE collected == [c \in Contents |-> CollectedEntry(c)]
<1>1. /\ m.pc = "gc" /\ UNCHANGED <<now, client, index, nextFull, rewriteEnd>> /\ packs \subseteq packs'
      /\ m' = [m EXCEPT !.pc = "gcFlush", !.pending = collected, !.session = MaintenanceSession]
  BY DEF SnapshotGC, schedule
<1>2. \A c \in Contents : collected[c] = CollectedEntry(c)
  OBVIOUS
<1> HIDE DEF collected
<1>3. m \in RunState /\ m.view \in View
  BY <1>1, RunTypes DEF Inv
<1>4. m'.pc = "gcFlush" /\ m'.view = m.view /\ m'.pending = collected /\ m'.start = m.start
  BY <1>1, <1>3 DEF RunState
<1>5. LastingKnow' /\ ClientsWrite' /\ ShownStored' /\ RunScheduled'
  BY <1>1, <1>4, RunGoesOn
<1>6. GCMisses' /\ GCSees'
  BY <1>1, <1>4 DEF PacksInv, GCMisses, GCSees, Shows, Seen, YoungPack, ClientEntry, ByClient
<1>7. RunShows'
  BY <1>4 DEF RunShows
<1>8. GCWrites'
  <2> SUFFICES ASSUME NEW c \in Contents, CollectedEntry(c) # Nil
               PROVE  /\ m.view.index[c] # Nil
                      /\ \/ m.view.index[c].deleted = FALSE /\ CollectedEntry(c).pack = m.view.index[c].pack
                         \/ m.view.index[c].deleted = TRUE
    BY <1>2, <1>4 DEF GCWrites
  <2>1. PICK entry : entry = InView(m.view, c)
    OBVIOUS
  <2>2. CollectedEntry(c) =
          IF entry = Nil THEN Nil
          ELSE IF c \in m.view.used
               THEN IF entry.deleted THEN WrittenEntry(c, MaintenanceSession, entry.ts, FALSE) ELSE Nil
          ELSE IF m.start - entry.ts < MinContentAgeSubjectToGC \/ entry.deleted THEN Nil
          ELSE [entry EXCEPT !.deleted = TRUE, !.ts = ContentWriteTime(entry.ts)]
    BY <2>1 DEF CollectedEntry
  <2>3. entry # Nil
    BY <2>2
  <2>4. entry = m.view.index[c] /\ entry \in Entry /\ entry.deleted \in BOOLEAN
    BY <1>3, <2>1, <2>3, InViewFacts DEF Entry
  <2>5. CASE entry.deleted
    BY <2>3, <2>4, <2>5
  <2>6. CASE ~entry.deleted
    <3>1. CollectedEntry(c) = [entry EXCEPT !.deleted = TRUE, !.ts = ContentWriteTime(entry.ts)]
      BY <2>2, <2>6
    <3>2. CollectedEntry(c).pack = entry.pack
      BY <2>4, <3>1 DEF Entry
    <3> QED BY <2>3, <2>4, <2>6, <3>2
  <2> QED BY <2>5, <2>6
<1> QED BY <1>5, <1>6, <1>7, <1>8 DEF PacksInv

\* GC stores its decisions.
LEMMA CollectFlushPacks == ASSUME Inv, PacksInv, NEW tie \in BOOLEAN, SnapshotGCFlush(tie) PROVE PacksInv'
<1>1. /\ m.pc = "gcFlush" /\ UNCHANGED <<now, client, packs, nextFull, rewriteEnd>>
      /\ index' = Merge(index, m.pending, tie)
  BY DEF SnapshotGCFlush, schedule
<1>2. PICK v : v = WithEntries(m.view, m.pending, tie)
  OBVIOUS
<1>3. m' = [m EXCEPT !.pc = "gcReport", !.pending = NoEntries, !.session = Nil, !.view = v]
  BY <1>2 DEF SnapshotGCFlush
<1>4. m \in RunState /\ m.pending \in Index /\ index \in Index
  BY RunTypes, StoreTypes DEF Inv
<1>5. m'.pc = "gcReport" /\ m'.start = m.start
  BY <1>3, <1>4 DEF RunState
<1>6. LastingKnow' /\ ClientsWrite' /\ ShownStored' /\ RunScheduled'
  BY <1>1, <1>5, RunGoesOn
<1>7. GCMisses' /\ GCSees' /\ GCWrites'
  BY <1>5 DEF GCMisses, GCSees, GCWrites
<1>8. RunShows'
  <2> SUFFICES ASSUME NEW u \in Clients, NEW c \in Contents, Shows(u, c)
               PROVE  \/ Seen(u, c).pack = index'[c].pack \/ ByClient(index'[c]) \/ YoungPack(Seen(u, c).pack)
    BY <1>1, <1>5 DEF RunShows, Shows, Seen, YoungPack, ByClient
  <2>1. Seen(u, c) = m.view.index[c] \/ YoungPack(Seen(u, c).pack) \/ ClientEntry(m.view.index[c])
    BY <1>1 DEF PacksInv, GCSees
  <2>2. index[c] = m.view.index[c] \/ ByClient(index[c])
    BY <1>1 DEF PacksInv, GCMisses, ClientEntry
  <2>3. m.pending[c] # Nil =>
          \/ m.view.index[c].deleted = FALSE /\ m.pending[c].pack = m.view.index[c].pack
          \/ m.view.index[c].deleted = TRUE
    BY <1>1 DEF PacksInv, GCWrites
  <2>4. index'[c] = index[c] \/ (index'[c] = m.pending[c] /\ m.pending[c] # Nil)
    BY <1>1, <1>4, MergeFacts
  <2>5. Seen(u, c).deleted = FALSE
    BY DEF Shows
  <2>6. CASE index'[c] = index[c]
    BY <2>1, <2>2, <2>6 DEF ClientEntry
  <2>7. CASE index'[c] = m.pending[c] /\ m.pending[c] # Nil
    <3>1. CASE Seen(u, c) = m.view.index[c]
      BY <2>3, <2>5, <2>7, <3>1
    <3>2. CASE ClientEntry(m.view.index[c])
      BY <2>3, <2>7, <3>2 DEF ClientEntry, ByClient
    <3> QED BY <2>1, <3>1, <3>2
  <2> QED BY <2>4, <2>6, <2>7
<1> QED BY <1>6, <1>7, <1>8 DEF PacksInv

\* The success of GC is recorded; a rewrite stores new entries.
LEMMA ReportPacks == ASSUME Inv, PacksInv, ReportSnapshotGC \/ \E tie \in BOOLEAN : RewriteContents(tie) PROVE PacksInv'
<1>0. m \in RunState
  BY RunTypes DEF Inv
<1>1. CASE ReportSnapshotGC
  <2>1. /\ m.pc = "gcReport" /\ UNCHANGED <<now, client, index, packs, nextFull, rewriteEnd>>
        /\ \E pc \in {"rewriting", "drop"} : m' = [m EXCEPT !.pc = pc]
    BY <1>1 DEF ReportSnapshotGC, storage
  <2>2. m'.pc \in {"rewriting", "drop"} /\ m'.start = m.start
    BY <1>0, <2>1 DEF RunState
  <2>3. LastingKnow' /\ ClientsWrite' /\ ShownStored' /\ RunScheduled'
    BY <2>1, <2>2, RunGoesOn
  <2>4. GCMisses' /\ GCSees' /\ GCWrites'
    BY <2>2 DEF GCMisses, GCSees, GCWrites
  <2>5. RunShows'
    BY <2>1, <2>2 DEF PacksInv, RunShows, Shows, Seen, YoungPack, ByClient
  <2> QED BY <2>3, <2>4, <2>5 DEF PacksInv
<1>2. CASE \E tie \in BOOLEAN : RewriteContents(tie)
  <2>1. /\ m.pc = "rewriting" /\ UNCHANGED <<now, client, nextFull, rewriteEnd>> /\ packs \subseteq packs'
        /\ \E v : m' = [m EXCEPT !.view = v]
    BY <1>2 DEF RewriteContents, schedule
  <2>2. m'.pc = "rewriting" /\ m'.start = m.start
    BY <1>0, <2>1 DEF RunState
  <2>3. LastingKnow' /\ ClientsWrite' /\ ShownStored' /\ RunScheduled'
    BY <2>1, <2>2, RunGoesOn
  <2>4. GCMisses' /\ GCSees' /\ GCWrites' /\ RunShows'
    BY <2>2 DEF GCMisses, GCSees, GCWrites, RunShows
  <2> QED BY <2>3, <2>4 DEF PacksInv
<1> QED BY <1>1, <1>2

\* The end of the rewrite is recorded: it is later than any index in use was loaded.
LEMMA RewrittenPacks == ASSUME Inv, PacksInv, ReportRewrite PROVE PacksInv'
<1>1. /\ m.pc = "rewriting" /\ UNCHANGED <<now, client, index, packs, nextFull>> /\ rewriteEnd' = now
      /\ m' = [m EXCEPT !.pc = "drop"]
  BY DEF ReportRewrite, storage
<1>2. m'.pc = "drop" /\ m'.start = m.start
  BY <1>1, RunTypes DEF Inv, RunState
<1>3. LastingKnow' /\ ClientsWrite' /\ ShownStored' /\ RunScheduled'
  BY <1>1, <1>2, RunGoesOn
<1>4. GCMisses' /\ GCSees' /\ GCWrites'
  BY <1>2 DEF GCMisses, GCSees, GCWrites
<1>5. RunShows'
  <2>1. now # Nil
    BY StoreTypes, MaintenanceAssumption DEF Inv
  <2>2. \A u \in Clients : \A c \in Contents : Shows(u, c) => client[u].loaded <= now
    BY DEF Inv, ClientInv, ViewTimely, Shows
  <2> QED BY <1>1, <2>1, <2>2 DEF RunShows, Shows, Seen
<1> QED BY <1>3, <1>4, <1>5 DEF PacksInv

\* Contents are dropped, sessions are listed.
LEMMA DropPacks == ASSUME ViewsExpire, Inv, PacksInv, DropDeletedContents \/ ListActiveSessions PROVE PacksInv'
<1>0. m \in RunState
  BY RunTypes DEF Inv
<1>1. m.pc \in {"drop", "orphans"} /\ UNCHANGED <<now, client, index, packs, nextFull, rewriteEnd>>
  BY DEF DropDeletedContents, ListActiveSessions, storage, schedule
<1>2. CASE m' = IdleRun
  <2>1. m'.pc = "idle"
    BY <1>2 DEF IdleRun
  <2>2. \A u \in Clients : \A c \in Contents : Shows(u, c) => Seen(u, c).pack \in packs'
    BY <1>1 DEF PacksInv, ShownStored
  <2> QED BY <1>1, <2>1, <2>2, RunEndPacks
<1>3. CASE /\ m'.pc \in {"orphans", "delete"} /\ m'.start = m.start
           /\ m'.pc = "delete" => rewriteEnd' = Nil \/ now' >= rewriteEnd' + MinRewriteToOrphanDeletionDelay
  <2>1. LastingKnow' /\ ClientsWrite' /\ ShownStored' /\ RunScheduled'
    BY <1>1, <1>3, RunGoesOn
  <2>2. GCMisses' /\ GCSees' /\ GCWrites'
    BY <1>3 DEF GCMisses, GCSees, GCWrites
  <2>3. RunShows'
    BY <1>1, <1>3 DEF PacksInv, RunShows, Shows, Seen, YoungPack, ByClient
  <2> QED BY <2>1, <2>2, <2>3 DEF PacksInv
<1>4. CASE DropDeletedContents
  <2>1. m' = [m EXCEPT !.pc = "orphans"] \/ \E v : m' = [m EXCEPT !.pc = "orphans", !.view = v]
    BY <1>4 DEF DropDeletedContents
  <2>2. m'.pc = "orphans" /\ m'.start = m.start
    BY <1>0, <2>1 DEF RunState
  <2> QED BY <1>3, <2>2
<1>5. CASE ListActiveSessions /\ m' # IdleRun
  <2>1. m' = [m EXCEPT !.pc = "delete", !.sessions = sessions] /\ ShouldDeleteOrphanedPacks
    BY <1>5 DEF ListActiveSessions
  <2>2. m'.pc = "delete" /\ m'.start = m.start
    BY <1>0, <2>1 DEF RunState
  <2>3. rewriteEnd' = Nil \/ now' >= rewriteEnd' + MinRewriteToOrphanDeletionDelay
    BY <1>1, <2>1 DEF ShouldDeleteOrphanedPacks
  <2> QED BY <1>3, <2>2, <2>3
<1> QED BY <1>2, <1>4, <1>5

\* Blobs are deleted: packs that clients see and that the index does not need any more are young, or
\* a client has written the content again, or the rewrite is too recent.
LEMMA DeletePacks ==
  ASSUME DelaysSuffice, ViewsExpire, Inv, Inv', PacksInv, DeleteUnreferencedBlobs \/ DeleteUnreferencedBlobsFails
  PROVE  PacksInv'
<1>0. /\ m.pc = "delete" /\ UNCHANGED <<now, client, index, watermark, nextFull, rewriteEnd>> /\ m' = IdleRun
      /\ packs \ OrphanedPacks \subseteq packs'
  BY DEF DeleteUnreferencedBlobs, DeleteUnreferencedBlobsFails, schedule
<1>1. m'.pc = "idle"
  BY <1>0 DEF IdleRun
<1>2. ASSUME NEW u \in Clients, NEW c \in Contents, Shows(u, c)
      PROVE  Seen(u, c).pack \in packs' \/ ByClient(index[c])
  <2>1. Seen(u, c).pack \in packs
    BY <1>0, <1>2 DEF PacksInv, ShownStored
  <2>2. \/ Seen(u, c).pack = index[c].pack \/ ByClient(index[c]) \/ YoungPack(Seen(u, c).pack)
        \/ rewriteEnd # Nil /\ client[u].loaded <= rewriteEnd
    BY <1>0, <1>2 DEF PacksInv, RunShows
  <2>3. CASE Seen(u, c).pack = index[c].pack
    <3>1. index[c] # Nil /\ ~ShouldIgnore(index[c], watermark)
      BY <1>2, ShownNotDropped
    <3>2. EntriesStored'
      BY DEF Inv, StoreInv
    <3>3. index[c].pack \in packs'
      BY <1>0, <3>1, <3>2 DEF EntriesStored
    <3> QED BY <2>3, <3>3
  <2>4. CASE YoungPack(Seen(u, c).pack)
    <3>1. PICK p \in packs : p = Seen(u, c).pack
      BY <2>1
    <3>2. p.at \in Nat /\ m.start \in Nat
      BY RunTypes, StoreTypes DEF Inv, Pack
    <3>3. m.start <= p.at + CheckpointInterval
      BY <2>4, <3>1 DEF YoungPack
    <3>4. ~(m.start - p.at >= BlobDeleteMinAge)
      BY <3>2, <3>3, Delays DEF DelaysSuffice
    <3>5. p \notin OrphanedPacks
      BY <3>4 DEF OrphanedPacks, Unreferenced
    <3> QED BY <1>0, <3>1, <3>5
  <2>5. CASE rewriteEnd # Nil /\ client[u].loaded <= rewriteEnd
    <3>1. now >= rewriteEnd + MinRewriteToOrphanDeletionDelay
      BY <1>0, <2>5 DEF PacksInv, RunScheduled
    <3>2. now <= client[u].loaded + IndexRefreshFrequency
      BY <1>2 DEF Inv, ClientInv, ViewTimely, Shows
    <3>3. rewriteEnd \in Nat /\ now \in Nat /\ client[u].loaded \in Nat /\ MinRewriteToOrphanDeletionDelay \in Nat
      BY <2>5, ClientTypes, StoreTypes, MaintenanceAssumption DEF Inv, TypeInv, TypeOK
    <3> QED BY <2>5, <3>1, <3>2, <3>3, Delays DEF ViewsExpire
  <2> QED BY <2>2, <2>3, <2>4, <2>5
<1> QED BY <1>0, <1>1, <1>2, RunEndPacks

\* The clients have loaded the indexes of the initial snapshot.
LEMMA InitPacks == Init => PacksInv
<1> SUFFICES ASSUME Init PROVE PacksInv
  OBVIOUS
<1>1. Inv
  BY InitType, InitGC, InitRead DEF Inv
<1>2. m.pc = "idle" /\ client = [u \in Clients |-> IdleClient(Current, 0)]
  BY DEF Init, IdleRun
<1>3. \A u \in Clients : /\ client[u].view = Current /\ client[u].session = Nil /\ client[u].pending = NoEntries
                         /\ client[u].view.index = index
  BY <1>2 DEF IdleClient, Current
<1>4. LastingKnow
  BY <1>3 DEF LastingKnow, Seen
<1>5. GCMisses /\ GCSees /\ RunShows /\ RunScheduled /\ GCWrites
  BY <1>2 DEF GCMisses, GCSees, RunShows, RunScheduled, GCWrites
<1>6. ClientsWrite
  BY <1>3 DEF ClientsWrite, NoEntries
<1>7. ShownStored
  <2>1. \A u \in Clients : \A c \in Contents : Shows(u, c) => index[c].pack \in packs
    BY <1>1, ShownNotDropped
  <2> QED BY <1>3, <2>1 DEF ShownStored, Seen
<1> QED BY <1>4, <1>5, <1>6, <1>7 DEF PacksInv

\* Every step keeps the invariant.
LEMMA NextPacks == ASSUME DelaysSuffice, ViewsExpire PROVE Inv /\ Inv' /\ PacksInv /\ [Next]_vars => PacksInv'
<1> SUFFICES ASSUME Inv, Inv', PacksInv, [Next]_vars PROVE PacksInv'
  OBVIOUS
<1>1. ASSUME NEW u \in Clients, ClientNext(u) PROVE PacksInv'
  BY <1>1, RefreshPacks, WritePacks, CommitPacks DEF ClientNext
<1>2. CASE MaintenanceNext
  BY <1>2, StartPacks, CollectPacks, CollectFlushPacks, ReportPacks, StopPacks, RewrittenPacks, DropPacks, DeletePacks DEF MaintenanceNext
<1>3. CASE DeleteSnapshots \/ Tick \/ UNCHANGED vars
  BY <1>3, TickPacks
<1> QED BY <1>1, <1>2, <1>3 DEF Next

\* Whatever maintenance deletes, and wherever it fails: a client whose cached indexes are within the
\* refresh interval finds the pack of every content they show, except where a client has written the
\* content again.  Needed besides the conditions of SnapshotsReadable: indexes expire before the delay
\* after a rewrite is over, and between two runs.
THEOREM CachedPacksKept ==
  ASSUME DelaysSuffice, ViewsExpire PROVE Spec /\ [][KeepsUnrepaired]_vars => []RewrittenPacksKept
<1>1. Init => Inv /\ PacksInv
  BY InitType, InitGC, InitRead, InitPacks DEF Inv
<1>2. Inv /\ [Next]_vars /\ [KeepsUnrepaired]_vars => Inv'
  BY NextRead
<1>3. Inv /\ Inv' /\ PacksInv /\ [Next]_vars => PacksInv'
  BY NextPacks
<1> QED BY <1>1, <1>2, <1>3, PacksKept, PTL DEF Spec

\* The same when every file is hashed, with snapshots deleted at any time.
THEOREM HashedCachedPacksKept ==
  ASSUME DelaysSuffice, ViewsExpire, ForceHash = TRUE PROVE Spec => []RewrittenPacksKept
<1>1. Init => Inv /\ PacksInv
  BY InitType, InitGC, InitRead, InitPacks DEF Inv
<1>2. KeepsUnrepaired
  BY DEF KeepsUnrepaired
<1>3. Inv /\ [Next]_vars => Inv'
  BY <1>2, NextRead
<1>4. Inv /\ Inv' /\ PacksInv /\ [Next]_vars => PacksInv'
  BY NextPacks
<1> QED BY <1>1, <1>3, <1>4, PacksKept, PTL DEF Spec
=============================================================================
