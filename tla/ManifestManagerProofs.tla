----------------------- MODULE ManifestManagerProofs -----------------------
(***************************************************************************)
(* Proofs about ManifestManager: type correctness for all constants, and   *)
(* that it implements ManifestStore when one client compacts at most,      *)
(* deletes of contents do not fail, and a compaction does not fail while   *)
(* the changes of one that failed before are still uncommitted.            *)
(***************************************************************************)
EXTENDS ManifestManager, TLAPS

(* The inductive invariant, in its parts *)

Indexes == UNION {[D -> IndexEntry] : D \in SUBSET Content}
Manager == [pendingEntries : SUBSET ManifestEntry, committedEntries : SUBSET ManifestEntry,
            committedContentIDs : SUBSET Content, upToDate : BOOLEAN,
            committedIndex : Indexes, uncommitted : Indexes, deleting : SUBSET IDs]

\* The contents a client knows from storage, those it has changed, and both.
Cached(u) == DOMAIN mgr[u].committedIndex
Changed(u) == DOMAIN mgr[u].uncommitted
Known(u) == Cached(u) \cup Changed(u)

\* The entries in storage, the ones a client has read, and the ones it has not published.
StoredEntries == EntriesOf(DOMAIN index)
CachedEntries(u) == EntriesOf(Cached(u))
ChangedEntries(u) == EntriesOf(Changed(u))
OwnEntries(u) == ChangedEntries(u) \cup mgr[u].pendingEntries
AllEntries == StoredEntries \cup UNION {OwnEntries(u) : u \in Clients}

\* The manifests in them.
StoredIDs == IDsOf(StoredEntries)
OwnIDs(u) == IDsOf(OwnEntries(u)) \cup mgr[u].deleting

\* The types, with those of whole records and functions.
TypeInv ==
  /\ index \in Indexes /\ mgr \in [Clients -> Manager]
  /\ now \in Nat /\ changes \in Nat /\ faults \in Nat
  /\ taken \subseteq IDs /\ published \subseteq IDs

\* An entry is of a manifest whose ID was given out.
IDsTaken ==
  /\ published \subseteq taken /\ StoredIDs \subseteq taken
  /\ \A u \in Clients : /\ OwnIDs(u) \subseteq taken /\ IDsOf(CachedEntries(u)) \subseteq taken
                        /\ IDsOf(mgr[u].committedEntries) \subseteq taken

\* A manifest is put once, and deleted later.
Ordered(entries) == \A e, f \in entries : e.id = f.id /\ ~e.deleted =>
                      IF f.deleted THEN e.modTime < f.modTime ELSE e = f
EntriesOrdered == Ordered(AllEntries) /\ \A e \in AllEntries : e.modTime <= changes

\* What a client has committed it has read or flushed.
CommittedKnown == \A u \in Clients :
  /\ Cached(u) \subseteq DOMAIN index
  /\ mgr[u].committedEntries \subseteq CachedEntries(u) \cup ChangedEntries(u)

\* An entry is flushed once and published once; only compaction writes it again.
EntriesPrivate ==
  /\ \A u, v \in Clients : u # v => OwnEntries(u) \cap OwnEntries(v) = {}
  /\ \A u \in Clients : mgr[u].pendingEntries \cap (StoredEntries \cup ChangedEntries(u)) = {}
  /\ \A u \in Clients \ Compactors : ChangedEntries(u) \cap StoredEntries = {}

\* Clients share only manifests that are in storage.
IDsPrivate ==
  /\ \A u, v \in Clients : u # v => OwnIDs(u) \cap OwnIDs(v) \subseteq StoredIDs
  /\ \A u \in Clients \ Compactors : published \cap OwnIDs(u) \subseteq StoredIDs

\* A manifest that was put and not flushed is nowhere else; one that was flushed and not
\* published is not in storage, unless its content is compacted.
PutsFresh ==
  /\ \A u \in Clients : \A e \in mgr[u].pendingEntries : ~e.deleted =>
       e.id \notin StoredIDs \cup IDsOf(ChangedEntries(u)) \cup published \cup mgr[u].deleting
  /\ \A u \in Clients \ Compactors : \A e \in ChangedEntries(u) : ~e.deleted => e.id \notin StoredIDs

\* No content is empty, and only compaction deletes contents.
ContentsWritten ==
  /\ \A c \in DOMAIN index : c.entries # {}
  /\ \A u \in Clients : \A c \in Changed(u) : c.entries # {}
  /\ \A u \in Clients \ Compactors : LiveContents(mgr[u].uncommitted) = Changed(u)

\* Others only add contents to what the compacting client knows of storage, its own changes are
\* later, and what it has written again was deleted.
CompactorCurrent == \A u \in Compactors :
  LET cached == mgr[u].committedIndex  changed == mgr[u].uncommitted IN
  /\ \A c \in Cached(u) : cached[c] = index[c]
  /\ \A c \in DOMAIN index \ Cached(u) : ~index[c].deleted /\ c \notin Changed(u)
  /\ \A c \in Changed(u) \cap Cached(u) : changed[c].ts > cached[c].ts
  /\ LiveContents(changed) \cap LiveContents(cached) = {}
  /\ faults = 0 => Changed(u) \cap Cached(u) = {}

\* The compacting client knows nothing of a manifest whose put it has not read.
CompactorCausal == \A u \in Compactors : \A c \in DOMAIN index \ Cached(u) : \A e \in c.entries :
  ~e.deleted => e.id \notin IDsOf(CachedEntries(u)) \cup IDsOf(OwnEntries(u))

\* The manifests that some contents delete.
DeletedIn(contents) == IDsOf({e \in EntriesOf(contents) : e.deleted})

\* What the others are deleting is in the contents they have changed.
DeletingChanged == \A u \in Clients \ Compactors : mgr[u].deleting = DeletedIn(Changed(u))

\* The manifests in some contents, and in those that are live once changes are published.
FoundIn(contents) == IDsOf(LoadManifestContents(contents))
After(changed) == FoundIn(LiveContents(Merge(index, changed)))

\* Publishing removes what the client deletes and nothing else, and brings nothing back.
Safe(u, changed) ==
  /\ After(changed) \cap (published \cup mgr[u].deleting) = {}
  /\ Found \ mgr[u].deleting \subseteq After(changed)
CompactorSafe == \A u \in Compactors : Safe(u, mgr[u].uncommitted)

Inv == /\ TypeInv /\ IDsTaken /\ EntriesOrdered /\ CommittedKnown /\ EntriesPrivate /\ IDsPrivate
       /\ PutsFresh /\ ContentsWritten /\ CompactorCurrent /\ CompactorCausal /\ DeletingChanged
       /\ CompactorSafe /\ DeletedStayDeleted

\* A compaction does not fail while changes of one that failed before are uncommitted.
FailsFromClean == \A u \in Clients : AutoCompactFails(u) => Changed(u) \cap Cached(u) = {}
----------------------------------------------------------------------------
(* Lemmas about the operators *)

\* What an index is.
LEMMA IndexFacts == ASSUME NEW n
                    PROVE  n \in Indexes <=> /\ DOMAIN n \subseteq Content /\ n = [c \in DOMAIN n |-> n[c]]
                                             /\ \A c \in DOMAIN n : n[c] \in IndexEntry
<1>1. ASSUME n \in Indexes
      PROVE  DOMAIN n \subseteq Content /\ n = [c \in DOMAIN n |-> n[c]] /\ \A c \in DOMAIN n : n[c] \in IndexEntry
  <2>1. PICK D \in SUBSET Content : n \in [D -> IndexEntry]
    BY <1>1 DEF Indexes
  <2> QED BY <2>1
<1>2. ASSUME DOMAIN n \subseteq Content, n = [c \in DOMAIN n |-> n[c]], \A c \in DOMAIN n : n[c] \in IndexEntry
      PROVE  n \in Indexes
  <2>1. n \in [DOMAIN n -> IndexEntry]
    BY <1>2
  <2> QED BY <1>2, <2>1 DEF Indexes
<1> QED BY <1>1, <1>2

\* The merge of an index with an index blob.
LEMMA MergeFacts == ASSUME NEW n \in Indexes, NEW b \in Indexes
                    PROVE  /\ Merge(n, b) \in Indexes /\ DOMAIN Merge(n, b) = DOMAIN n \cup DOMAIN b
                           /\ \A c \in DOMAIN n \ DOMAIN b : Merge(n, b)[c] = n[c]
                           /\ \A c \in DOMAIN b \ DOMAIN n : Merge(n, b)[c] = b[c]
                           /\ \A c \in DOMAIN b \cap DOMAIN n : b[c].ts > n[c].ts => Merge(n, b)[c] = b[c]
<1>1. DOMAIN Merge(n, b) = DOMAIN n \cup DOMAIN b
  BY DEF Merge
<1>2. \A c \in DOMAIN n \cup DOMAIN b : Merge(n, b)[c] = IF c \notin DOMAIN b THEN n[c]
        ELSE IF c \notin DOMAIN n \/ GreaterThan(b[c], n[c]) THEN b[c] ELSE n[c]
  BY DEF Merge
<1>3. Merge(n, b) = [c \in DOMAIN Merge(n, b) |-> Merge(n, b)[c]]
  BY DEF Merge
<1>4. Merge(n, b) \in Indexes
  BY <1>1, <1>2, <1>3, IndexFacts
<1> QED BY <1>1, <1>2, <1>4 DEF GreaterThan

\* What a client sees.
LEMMA OverlayFacts == ASSUME NEW n \in Indexes, NEW b \in Indexes
                      PROVE  /\ Overlay(n, b) \in Indexes /\ DOMAIN Overlay(n, b) = DOMAIN n \cup DOMAIN b
                             /\ \A c \in DOMAIN n \ DOMAIN b : Overlay(n, b)[c] = n[c]
                             /\ \A c \in DOMAIN b : Overlay(n, b)[c] = b[c]
<1>1. DOMAIN Overlay(n, b) = DOMAIN n \cup DOMAIN b
  BY DEF Overlay
<1>2. \A c \in DOMAIN n \cup DOMAIN b : Overlay(n, b)[c] = IF c \in DOMAIN b THEN b[c] ELSE n[c]
  BY DEF Overlay
<1>3. Overlay(n, b) = [c \in DOMAIN Overlay(n, b) |-> Overlay(n, b)[c]]
  BY DEF Overlay
<1>4. Overlay(n, b) \in Indexes
  BY <1>1, <1>2, <1>3, IndexFacts
<1> QED BY <1>1, <1>2, <1>4

\* No entries are an index.
LEMMA NoEntriesFacts == NoEntries \in Indexes /\ DOMAIN NoEntries = {}
<1>1. DOMAIN NoEntries = {} /\ NoEntries = [c \in DOMAIN NoEntries |-> NoEntries[c]]
  BY DEF NoEntries
<1> QED BY <1>1, IndexFacts

\* The time of a new entry is later than that of the one before.
LEMMA WriteTime == ASSUME now \in Nat, NEW t \in Nat \cup {-1}
                   PROVE  ContentWriteTime(t) \in Nat /\ ContentWriteTime(t) > t
  BY DEF ContentWriteTime

\* What the fields of a manager are.
LEMMA ManagerFields == ASSUME TypeInv, NEW u \in Clients
                       PROVE  /\ mgr[u] \in Manager /\ mgr[u].pendingEntries \in SUBSET ManifestEntry
                              /\ mgr[u].committedEntries \in SUBSET ManifestEntry
                              /\ mgr[u].committedContentIDs \in SUBSET Content
                              /\ mgr[u].committedIndex \in Indexes /\ mgr[u].uncommitted \in Indexes
                              /\ mgr[u].deleting \in SUBSET IDs
                              /\ Seen(u) \in Indexes /\ DOMAIN Seen(u) = Known(u)
<1>1. /\ mgr[u] \in Manager /\ mgr[u].pendingEntries \in SUBSET ManifestEntry
      /\ mgr[u].committedEntries \in SUBSET ManifestEntry
      /\ mgr[u].committedContentIDs \in SUBSET Content
      /\ mgr[u].committedIndex \in Indexes /\ mgr[u].uncommitted \in Indexes
      /\ mgr[u].deleting \in SUBSET IDs
  BY DEF TypeInv, Manager
<1> QED BY <1>1, OverlayFacts DEF Seen, Known, Cached, Changed

\* WriteContent leaves a live content alone and makes any other live, with a later time.
LEMMA WriteContentFacts ==
  ASSUME TypeInv, NEW u \in Clients, NEW c \in Content
  PROVE  /\ WriteContent(u, c) \in Indexes
         /\ c \in LiveContents(Seen(u)) => WriteContent(u, c) = mgr[u].uncommitted
         /\ c \notin LiveContents(Seen(u)) =>
              /\ DOMAIN WriteContent(u, c) = Changed(u) \cup {c}
              /\ ~WriteContent(u, c)[c].deleted
              /\ \A d \in Changed(u) \ {c} : WriteContent(u, c)[d] = mgr[u].uncommitted[d]
              /\ c \in Known(u) => WriteContent(u, c)[c].ts > Seen(u)[c].ts
<1> DEFINE t == IF c \in DOMAIN Seen(u) THEN Seen(u)[c].ts ELSE -1
           e == [ts |-> ContentWriteTime(t), deleted |-> FALSE]
           w == With(mgr[u].uncommitted, c, e)
<1>0. Seen(u) \in Indexes /\ DOMAIN Seen(u) = Known(u) /\ mgr[u].uncommitted \in Indexes
  BY ManagerFields
<1>1. t \in Nat \cup {-1}
  BY <1>0, IndexFacts DEF IndexEntry
<1>2. ContentWriteTime(t) \in Nat /\ ContentWriteTime(t) > t
  BY <1>1, WriteTime DEF TypeInv
<1>3. e \in IndexEntry
  BY <1>2 DEF IndexEntry
<1> HIDE DEF e
<1>4. DOMAIN w = Changed(u) \cup {c} /\ w = [d \in DOMAIN w |-> w[d]]
  BY DEF With, Changed
<1>5. w[c] = e /\ \A d \in Changed(u) \ {c} : w[d] = mgr[u].uncommitted[d]
  BY DEF With, Changed
<1> HIDE DEF w
<1>6. w \in Indexes
  <2>1. Changed(u) \subseteq Content /\ \A d \in Changed(u) : mgr[u].uncommitted[d] \in IndexEntry
    BY <1>0, IndexFacts DEF Changed
  <2>2. DOMAIN w \subseteq Content /\ \A d \in DOMAIN w : w[d] \in IndexEntry
    BY <1>3, <1>4, <1>5, <2>1
  <2> QED BY <1>4, <2>2, IndexFacts
<1>7. WriteContent(u, c) = IF c \in LiveContents(Seen(u)) THEN mgr[u].uncommitted ELSE w
  BY DEF WriteContent, w, e
<1>8. ~e.deleted /\ (c \in Known(u) => e.ts > Seen(u)[c].ts)
  BY <1>0, <1>2 DEF e
<1> HIDE DEF t
<1> QED BY <1>0, <1>4, <1>5, <1>6, <1>7, <1>8

\* What DeleteContents takes out of the changes, and what it marks as deleted.
Dropped(changed, contents, pending) == {c \in contents \cap LiveContents(changed) : pending}
Marked(u, changed, contents, pending) ==
  (contents \cap LiveContents(Overlay(mgr[u].committedIndex, changed))) \ Dropped(changed, contents, pending)

\* DeleteContents takes contents out of the changes or marks them as deleted, with a later time.
LEMMA DeleteContentsFacts ==
  ASSUME TypeInv, NEW u \in Clients, NEW changed \in Indexes, NEW contents \in SUBSET Content, NEW pending \in BOOLEAN
  PROVE  /\ Overlay(mgr[u].committedIndex, changed) \in Indexes
         /\ DOMAIN Overlay(mgr[u].committedIndex, changed) = Cached(u) \cup DOMAIN changed
         /\ DeleteContents(u, changed, contents, pending) \in Indexes
         /\ DOMAIN DeleteContents(u, changed, contents, pending)
              = (DOMAIN changed \cup Marked(u, changed, contents, pending)) \ Dropped(changed, contents, pending)
         /\ DOMAIN DeleteContents(u, changed, contents, pending) \subseteq Cached(u) \cup DOMAIN changed
         /\ \A c \in Marked(u, changed, contents, pending) :
              /\ c \in DOMAIN DeleteContents(u, changed, contents, pending)
              /\ DeleteContents(u, changed, contents, pending)[c].deleted
              /\ DeleteContents(u, changed, contents, pending)[c].ts > Overlay(mgr[u].committedIndex, changed)[c].ts
         /\ \A c \in DOMAIN DeleteContents(u, changed, contents, pending) \ Marked(u, changed, contents, pending) :
              DeleteContents(u, changed, contents, pending)[c] = changed[c] /\ c \in DOMAIN changed
<1> DEFINE known == Overlay(mgr[u].committedIndex, changed)
           dropped == Dropped(changed, contents, pending)
           marked == Marked(u, changed, contents, pending)
           new == DeleteContents(u, changed, contents, pending)
           e(c) == [ts |-> ContentWriteTime(known[c].ts), deleted |-> TRUE]
<1>1. known \in Indexes /\ DOMAIN known = Cached(u) \cup DOMAIN changed
  BY ManagerFields, OverlayFacts DEF Cached
<1>2. \A c \in DOMAIN known : known[c].ts \in Nat
  BY <1>1, IndexFacts DEF IndexEntry
<1>3. \A c \in DOMAIN known : e(c) \in IndexEntry /\ e(c).ts > known[c].ts /\ e(c).deleted
  <2> TAKE c \in DOMAIN known
  <2>1. ContentWriteTime(known[c].ts) \in Nat /\ ContentWriteTime(known[c].ts) > known[c].ts
    BY <1>2, WriteTime DEF TypeInv
  <2> QED BY <2>1 DEF IndexEntry
<1> HIDE DEF e
<1>4. marked \subseteq DOMAIN known /\ dropped \subseteq DOMAIN changed /\ marked \cap dropped = {}
  BY DEF LiveContents, Marked, Dropped
<1>5. new = [c \in (DOMAIN changed \cup marked) \ dropped |-> IF c \in marked THEN e(c) ELSE changed[c]]
  BY DEF DeleteContents, e, Marked, Dropped
<1> HIDE DEF new, marked, dropped, known
<1>6. DOMAIN new = (DOMAIN changed \cup marked) \ dropped /\ new = [c \in DOMAIN new |-> new[c]]
  BY <1>5
<1>7. /\ \A c \in DOMAIN new : c \in marked => new[c] = e(c)
      /\ \A c \in DOMAIN new \ marked : new[c] = changed[c] /\ c \in DOMAIN changed
  BY <1>5, <1>6
<1>8. new \in Indexes
  <2>1. DOMAIN changed \subseteq Content /\ \A c \in DOMAIN changed : changed[c] \in IndexEntry
    BY IndexFacts
  <2>2. DOMAIN known \subseteq Content
    BY <1>1, IndexFacts
  <2>3. DOMAIN new \subseteq Content /\ \A c \in DOMAIN new : new[c] \in IndexEntry
    BY <1>3, <1>4, <1>6, <1>7, <2>1, <2>2
  <2> QED BY <1>6, <2>3, IndexFacts
<1>9. \A c \in marked : c \in DOMAIN new /\ new[c].deleted /\ new[c].ts > known[c].ts
  BY <1>3, <1>4, <1>6, <1>7
<1>10. DOMAIN new \subseteq Cached(u) \cup DOMAIN changed
  BY <1>1, <1>4, <1>6
<1> QED BY <1>1, <1>6, <1>7, <1>8, <1>9, <1>10 DEF known, dropped, marked, new

\* The entries of contents are put together with them.
LEMMA EntriesFacts ==
  /\ \A C, D : EntriesOf(C \cup D) = EntriesOf(C) \cup EntriesOf(D)
  /\ \A C, D : C \subseteq D => EntriesOf(C) \subseteq EntriesOf(D)
  /\ \A c : EntriesOf({c}) = c.entries
  /\ \A C : C \subseteq Content => EntriesOf(C) \subseteq ManifestEntry
  /\ EntriesOf({}) = {}
  BY DEF EntriesOf, Content

\* What is loaded from contents is in them.
LEMMA LoadFacts == ASSUME NEW C \in SUBSET Content
                   PROVE  /\ LoadManifestContents(C) \subseteq EntriesOf(C)
                          /\ LoadManifestContents(C) \subseteq ManifestEntry
  BY EntriesFacts DEF LoadManifestContents, Newest

\* Entries are encoded as a content that holds them.
LEMMA EncodingFacts == ASSUME NEW S \in SUBSET ManifestEntry, NEW c \in Encodings(S)
                       PROVE  c \in Content /\ c.entries = S
<1>1. PICK o \in (IF Cardinality(S) > 1 THEN Orders ELSE {1}) : c = [entries |-> S, order |-> o]
  BY DEF Encodings
<1>2. o \in Orders
  BY ManifestAssumption
<1> QED BY <1>1, <1>2 DEF Content

\* What the live contents are.
LEMMA LiveFacts == ASSUME NEW n \in Indexes
                   PROVE  LiveContents(n) \subseteq DOMAIN n /\ LiveContents(n) \subseteq Content
  BY IndexFacts DEF LiveContents

\* What loading gives.
LEMMA LoadedFacts ==
  ASSUME TypeInv, NEW u \in Clients
  PROVE  /\ Loaded(u) \in Manager
         /\ Loaded(u).pendingEntries = mgr[u].pendingEntries
         /\ Loaded(u).committedIndex = mgr[u].committedIndex
         /\ Loaded(u).uncommitted = mgr[u].uncommitted
         /\ Loaded(u).deleting = mgr[u].deleting
         /\ Loaded(u).committedContentIDs = LiveContents(Seen(u))
         /\ Loaded(u).committedEntries = LoadManifestContents(LiveContents(Seen(u)))
         /\ Loaded(u).committedEntries \subseteq CachedEntries(u) \cup ChangedEntries(u)
<1>1. LiveContents(Seen(u)) \subseteq Known(u) /\ LiveContents(Seen(u)) \subseteq Content
  BY ManagerFields, LiveFacts
<1>2. /\ LoadManifestContents(LiveContents(Seen(u))) \subseteq EntriesOf(LiveContents(Seen(u)))
      /\ LoadManifestContents(LiveContents(Seen(u))) \subseteq ManifestEntry
  BY <1>1, LoadFacts
<1>3. EntriesOf(LiveContents(Seen(u))) \subseteq CachedEntries(u) \cup ChangedEntries(u)
  BY <1>1 DEF Known, CachedEntries, ChangedEntries, EntriesOf
<1>4. mgr[u] \in Manager
  BY ManagerFields
<1> QED BY <1>1, <1>2, <1>3, <1>4 DEF Loaded, Manager

\* The changes of a client once compaction has written its content.
Written(u, content) == IF Loaded(u).committedEntries = {} THEN mgr[u].uncommitted ELSE WriteContent(u, content)

\* What compaction makes of the changes of a client, whichever deletes it comes to.
LEMMA CompactFacts ==
  ASSUME TypeInv, NEW u \in Clients, NEW content \in Encodings(Loaded(u).committedEntries),
         NEW done \in SUBSET CompactedContents(Loaded(u), content), NEW pending \in BOOLEAN,
         NEW m, m = CompactLocked(u, Loaded(u), content, done, pending)
  PROVE  /\ m \in Manager /\ Written(u, content) \in Indexes /\ content \in Content /\ done \in SUBSET Content
         /\ content.entries = Loaded(u).committedEntries
         /\ m.pendingEntries = mgr[u].pendingEntries
         /\ m.committedEntries = Loaded(u).committedEntries
         /\ m.committedIndex = mgr[u].committedIndex
         /\ m.deleting = mgr[u].deleting
         /\ m.uncommitted = DeleteContents(u, Written(u, content), done, pending)
         /\ EntriesOf(DOMAIN m.uncommitted) \subseteq CachedEntries(u) \cup ChangedEntries(u)
<1> DEFINE l == Loaded(u)
           written == IF l.committedEntries = {} THEN mgr[u].uncommitted ELSE WriteContent(u, content)
<1>1. /\ l \in Manager /\ l.committedEntries \in SUBSET ManifestEntry
      /\ l.committedContentIDs \in SUBSET Content /\ l.uncommitted = mgr[u].uncommitted
      /\ l.committedContentIDs = LiveContents(Seen(u))
  BY LoadedFacts DEF Manager
<1>2. content \in Content /\ content.entries = l.committedEntries
  BY <1>1, EncodingFacts
<1>3. done \in SUBSET Content /\ done \subseteq LiveContents(Seen(u))
  BY <1>1 DEF CompactedContents
<1>4. written \in Indexes
  BY <1>2, WriteContentFacts, ManagerFields
<1>5. DOMAIN written \subseteq Changed(u) \cup (IF l.committedEntries = {} THEN {} ELSE {content})
  BY <1>2, WriteContentFacts DEF Changed
<1>6. /\ DeleteContents(u, written, done, pending) \in Indexes
      /\ DOMAIN DeleteContents(u, written, done, pending) \subseteq Cached(u) \cup DOMAIN written
  <2> HIDE DEF written
  <2> QED BY <1>3, <1>4, DeleteContentsFacts
<1>7. m = [l EXCEPT !.committedContentIDs = (@ \cup (IF l.committedEntries = {} THEN {} ELSE {content})) \ done,
                    !.uncommitted = DeleteContents(u, written, done, pending), !.upToDate = FALSE]
  BY <1>1 DEF CompactLocked
<1> HIDE DEF l, written
<1>8. /\ m.pendingEntries = l.pendingEntries
      /\ m.committedEntries = l.committedEntries
      /\ m.committedIndex = l.committedIndex
      /\ m.deleting = l.deleting
      /\ m.uncommitted = DeleteContents(u, written, done, pending)
      /\ m.committedContentIDs = (l.committedContentIDs \cup (IF l.committedEntries = {} THEN {} ELSE {content})) \ done
      /\ m.upToDate = FALSE
  BY <1>1, <1>7 DEF Manager
<1>10. m \in Manager
  <2>1. m.committedContentIDs \in SUBSET Content
    BY <1>1, <1>2, <1>8
  <2>2. /\ l.pendingEntries \in SUBSET ManifestEntry /\ l.committedIndex \in Indexes /\ l.deleting \in SUBSET IDs
        /\ m = [pendingEntries |-> m.pendingEntries, committedEntries |-> m.committedEntries,
                committedContentIDs |-> m.committedContentIDs, upToDate |-> m.upToDate,
                committedIndex |-> m.committedIndex, uncommitted |-> m.uncommitted, deleting |-> m.deleting]
    BY <1>1, <1>7 DEF Manager
  <2> QED BY <1>1, <1>6, <1>8, <2>1, <2>2 DEF Manager
<1>9. EntriesOf(DOMAIN m.uncommitted) \subseteq CachedEntries(u) \cup ChangedEntries(u)
  <2>1. DOMAIN m.uncommitted \subseteq Cached(u) \cup (Changed(u) \cup (IF l.committedEntries = {} THEN {} ELSE {content}))
    BY <1>5, <1>6, <1>8
  <2>2. EntriesOf(IF l.committedEntries = {} THEN {} ELSE {content}) \subseteq l.committedEntries
    BY <1>2, EntriesFacts
  <2>3. l.committedEntries \subseteq CachedEntries(u) \cup ChangedEntries(u)
    BY LoadedFacts DEF l
  <2>4. EntriesOf(DOMAIN m.uncommitted)
          \subseteq EntriesOf(Cached(u)) \cup EntriesOf(Changed(u)) \cup EntriesOf(IF l.committedEntries = {} THEN {} ELSE {content})
    BY <2>1 DEF EntriesOf
  <2> QED BY <2>2, <2>3, <2>4 DEF CachedEntries, ChangedEntries
<1> QED BY <1>2, <1>3, <1>4, <1>8, <1>9, <1>10, LoadedFacts DEF l, written, Written
----------------------------------------------------------------------------
(* What the actions do to the manager of a client and to the entries *)

\* A client whose manager stays the same has the same contents and entries.
LEMMA SameManager ==
  ASSUME NEW v, mgr'[v] = mgr[v]
  PROVE  /\ Cached(v)' = Cached(v) /\ Changed(v)' = Changed(v)
         /\ CachedEntries(v)' = CachedEntries(v) /\ ChangedEntries(v)' = ChangedEntries(v)
         /\ OwnEntries(v)' = OwnEntries(v) /\ OwnIDs(v)' = OwnIDs(v) /\ Seen(v)' = Seen(v)
  BY DEF Cached, Changed, CachedEntries, ChangedEntries, OwnEntries, OwnIDs, Seen

\* The managers after a step of one client.
LEMMA ManagerUpdate ==
  ASSUME TypeInv, NEW u \in Clients, NEW m \in Manager, mgr' = [mgr EXCEPT ![u] = m]
  PROVE  /\ mgr' \in [Clients -> Manager] /\ mgr'[u] = m /\ \A v \in Clients \ {u} : mgr'[v] = mgr[v]
         /\ Cached(u)' = DOMAIN m.committedIndex /\ Changed(u)' = DOMAIN m.uncommitted
         /\ CachedEntries(u)' = EntriesOf(DOMAIN m.committedIndex)
         /\ ChangedEntries(u)' = EntriesOf(DOMAIN m.uncommitted)
         /\ OwnEntries(u)' = EntriesOf(DOMAIN m.uncommitted) \cup m.pendingEntries
         /\ OwnIDs(u)' = IDsOf(EntriesOf(DOMAIN m.uncommitted) \cup m.pendingEntries) \cup m.deleting
<1>1. mgr' \in [Clients -> Manager] /\ mgr'[u] = m /\ \A v \in Clients \ {u} : mgr'[v] = mgr[v]
  BY DEF TypeInv
<1> QED BY <1>1 DEF Cached, Changed, CachedEntries, ChangedEntries, OwnEntries, OwnIDs

\* A manager with other pending entries.
LEMMA PendingUpdate ==
  ASSUME TypeInv, NEW u \in Clients, NEW P \in SUBSET ManifestEntry,
         mgr' = [mgr EXCEPT ![u].pendingEntries = P]
  PROVE  /\ mgr' \in [Clients -> Manager] /\ \A v \in Clients \ {u} : mgr'[v] = mgr[v]
         /\ mgr'[u].pendingEntries = P /\ mgr'[u].committedEntries = mgr[u].committedEntries
         /\ mgr'[u].deleting = mgr[u].deleting /\ mgr'[u].uncommitted = mgr[u].uncommitted
         /\ mgr'[u].committedIndex = mgr[u].committedIndex
         /\ Cached(u)' = Cached(u) /\ Changed(u)' = Changed(u)
         /\ CachedEntries(u)' = CachedEntries(u) /\ ChangedEntries(u)' = ChangedEntries(u)
         /\ OwnEntries(u)' = ChangedEntries(u) \cup P
         /\ OwnIDs(u)' = IDsOf(ChangedEntries(u) \cup P) \cup mgr[u].deleting
<1>1. mgr' \in [Clients -> Manager] /\ \A v \in Clients \ {u} : mgr'[v] = mgr[v]
  BY DEF TypeInv, Manager
<1>2. /\ mgr'[u].pendingEntries = P /\ mgr'[u].committedEntries = mgr[u].committedEntries
      /\ mgr'[u].deleting = mgr[u].deleting /\ mgr'[u].uncommitted = mgr[u].uncommitted
      /\ mgr'[u].committedIndex = mgr[u].committedIndex
  BY DEF TypeInv, Manager
<1> QED BY <1>1, <1>2 DEF Cached, Changed, CachedEntries, ChangedEntries, OwnEntries, OwnIDs

\* Put adds a pending entry.
LEMMA PutEffect ==
  ASSUME TypeInv, NEW u \in Clients, NEW id \in IDs, Put(u, id)
  PROVE  \E e \in ManifestEntry :
           /\ e.id = id /\ e.modTime = changes + 1 /\ ~e.deleted
           /\ mgr[u].pendingEntries \cup {e} \in SUBSET ManifestEntry
           /\ mgr' = [mgr EXCEPT ![u].pendingEntries = mgr[u].pendingEntries \cup {e}]
<1> DEFINE e == [id |-> id, modTime |-> changes + 1, deleted |-> FALSE]
<1>1. e \in ManifestEntry
  BY ManifestAssumption DEF Put, ManifestEntry, TypeInv
<1>2. mgr' = [mgr EXCEPT ![u].pendingEntries = mgr[u].pendingEntries \cup {e}]
  BY DEF Put, TypeInv
<1>3. mgr[u].pendingEntries \in SUBSET ManifestEntry
  BY ManagerFields
<1> QED BY <1>1, <1>2, <1>3

\* Delete puts the deletion over the pending entries.
LEMMA DeleteEffect ==
  ASSUME TypeInv, NEW u \in Clients, NEW id \in IDs, Delete(u, id)
  PROVE  \E e \in ManifestEntry :
           /\ e.id = id /\ e.modTime = changes + 1 /\ e.deleted
           /\ {f \in mgr[u].pendingEntries : f.id # id} \cup {e} \in SUBSET ManifestEntry
           /\ mgr' = [mgr EXCEPT ![u].pendingEntries = {f \in mgr[u].pendingEntries : f.id # id} \cup {e}]
<1> DEFINE e == [id |-> id, modTime |-> changes + 1, deleted |-> TRUE]
<1>1. e \in ManifestEntry
  BY ManifestAssumption DEF Delete, ManifestEntry, TypeInv
<1>2. mgr[u].pendingEntries \in SUBSET ManifestEntry
  BY ManagerFields
<1>3. Replace(mgr[u].pendingEntries, {e}) = {f \in mgr[u].pendingEntries : f.id # id} \cup {e}
  BY DEF Replace
<1>4. changes' = changes + 1 /\ mgr' = [mgr EXCEPT ![u].pendingEntries = Replace(@, {[id |-> id, modTime |-> changes', deleted |-> TRUE]})]
  BY DEF Delete
<1>5. mgr' = [mgr EXCEPT ![u].pendingEntries = Replace(mgr[u].pendingEntries, {e})]
  BY <1>4 DEF TypeInv
<1> QED BY <1>1, <1>2, <1>3, <1>5

\* Flush writes the pending entries as a content.
LEMMA FlushEffect ==
  ASSUME TypeInv, NEW u \in Clients, Flush(u)
  PROVE  \E m \in Manager, content \in Content :
           /\ mgr' = [mgr EXCEPT ![u] = m]
           /\ content.entries = mgr[u].pendingEntries /\ mgr[u].pendingEntries # {}
           /\ m.uncommitted = WriteContent(u, content) /\ m.pendingEntries = {}
           /\ m.committedIndex = mgr[u].committedIndex
           /\ m.deleting = mgr[u].deleting \cup IDsOf({e \in mgr[u].pendingEntries : e.deleted})
           /\ m.committedEntries \subseteq mgr[u].committedEntries \cup mgr[u].pendingEntries
<1> DEFINE entries == mgr[u].pendingEntries
<1>1. PICK content \in Encodings(entries) :
        mgr' = [mgr EXCEPT ![u] = [mgr[u] EXCEPT
         !.uncommitted = WriteContent(u, content), !.pendingEntries = {},
         !.committedEntries = Replace(@, entries), !.committedContentIDs = @ \cup {content},
         !.upToDate = FALSE, !.deleting = @ \cup IDsOf({e \in entries : e.deleted})]]
  BY DEF Flush
<1>2. /\ mgr[u] \in Manager /\ entries \in SUBSET ManifestEntry
      /\ mgr[u].committedEntries \in SUBSET ManifestEntry /\ mgr[u].committedContentIDs \in SUBSET Content
      /\ mgr[u].deleting \in SUBSET IDs
  BY ManagerFields
<1>3. content \in Content /\ content.entries = entries
  BY <1>2, EncodingFacts
<1>4. WriteContent(u, content) \in Indexes
  BY <1>3, WriteContentFacts
<1>5. IDsOf({e \in entries : e.deleted}) \in SUBSET IDs
  BY <1>2 DEF IDsOf, ManifestEntry
<1>6. /\ Replace(mgr[u].committedEntries, entries) \subseteq mgr[u].committedEntries \cup entries
      /\ Replace(mgr[u].committedEntries, entries) \in SUBSET ManifestEntry
  BY <1>2 DEF Replace
<1>7. mgr[u].committedContentIDs \cup {content} \in SUBSET Content
      /\ mgr[u].deleting \cup IDsOf({e \in entries : e.deleted}) \in SUBSET IDs
  BY <1>2, <1>3, <1>5
<1>8. entries # {}
  BY DEF Flush
<1> HIDE DEF entries
<1>9. PICK m : m = mgr'[u]
  OBVIOUS
<1>11. mgr' = [mgr EXCEPT ![u] = m]
  BY <1>1, <1>9 DEF TypeInv
<1>12. /\ m.uncommitted = WriteContent(u, content) /\ m.pendingEntries = {}
       /\ m.committedIndex = mgr[u].committedIndex /\ m.upToDate = FALSE
       /\ m.committedEntries = Replace(mgr[u].committedEntries, entries)
       /\ m.committedContentIDs = mgr[u].committedContentIDs \cup {content}
       /\ m = [pendingEntries |-> m.pendingEntries, committedEntries |-> m.committedEntries,
               committedContentIDs |-> m.committedContentIDs, upToDate |-> m.upToDate,
               committedIndex |-> m.committedIndex, uncommitted |-> m.uncommitted, deleting |-> m.deleting]
  BY <1>1, <1>2, <1>9 DEF TypeInv, Manager
<1>13. m.deleting = mgr[u].deleting \cup IDsOf({e \in entries : e.deleted})
  BY <1>1, <1>2, <1>9 DEF TypeInv, Manager, IDsOf
<1>10. m \in Manager
  <2>1. mgr[u].committedIndex \in Indexes
    BY ManagerFields
  <2> QED BY <1>4, <1>6, <1>7, <1>12, <1>13, <2>1 DEF Manager
<1> QED BY <1>3, <1>6, <1>8, <1>10, <1>11, <1>12, <1>13 DEF entries

\* Publishing moves the changes of a manager into storage and what the client has read of it.
LEMMA PublishEffect ==
  ASSUME TypeInv, NEW u \in Clients, NEW m \in Manager, Publish(u, m)
  PROVE  \E n \in Manager :
           /\ mgr' = [mgr EXCEPT ![u] = n]
           /\ index' = Merge(index, m.uncommitted) /\ index' \in Indexes
           /\ DOMAIN index' = DOMAIN index \cup DOMAIN m.uncommitted
           /\ n.committedIndex = Merge(m.committedIndex, m.uncommitted) /\ n.uncommitted = NoEntries
           /\ DOMAIN n.committedIndex = DOMAIN m.committedIndex \cup DOMAIN m.uncommitted
           /\ n.pendingEntries = m.pendingEntries /\ n.committedEntries = m.committedEntries
           /\ n.deleting = {} /\ published' = published \cup m.deleting
           /\ published' \subseteq IDs
<1>1. m.committedIndex \in Indexes /\ m.uncommitted \in Indexes /\ index \in Indexes
  BY DEF Manager, TypeInv
<1>2. PICK n : n = [m EXCEPT !.committedIndex = Merge(@, m.uncommitted), !.uncommitted = NoEntries,
                             !.upToDate = FALSE, !.deleting = {}]
  OBVIOUS
<1>3. mgr' = [mgr EXCEPT ![u] = n]
  BY <1>2 DEF Publish
<1>4. Merge(m.committedIndex, m.uncommitted) \in Indexes /\ NoEntries \in Indexes
  BY <1>1, MergeFacts, NoEntriesFacts
<1>5. /\ n \in Manager /\ n.committedIndex = Merge(m.committedIndex, m.uncommitted) /\ n.uncommitted = NoEntries
      /\ n.pendingEntries = m.pendingEntries /\ n.committedEntries = m.committedEntries /\ n.deleting = {}
  BY <1>2, <1>4 DEF Manager
<1>6. DOMAIN n.committedIndex = DOMAIN m.committedIndex \cup DOMAIN m.uncommitted
  <2>1. DOMAIN Merge(m.committedIndex, m.uncommitted) = DOMAIN m.committedIndex \cup DOMAIN m.uncommitted
    BY <1>1, MergeFacts
  <2> QED BY <1>5, <2>1
<1>9. index' = Merge(index, m.uncommitted)
  BY DEF Publish
<1>7. index' \in Indexes /\ DOMAIN index' = DOMAIN index \cup DOMAIN m.uncommitted
  BY <1>1, <1>9, MergeFacts
<1>8. published' = published \cup m.deleting /\ published' \subseteq IDs
  BY DEF Publish, TypeInv, Manager
<1> QED BY <1>3, <1>5, <1>6, <1>7, <1>8, <1>9
----------------------------------------------------------------------------
(* Type correctness *)

\* Steps of one client that leave storage alone: the types and IDs of the others are as before.
LEMMA TypesKept ==
  ASSUME TypeInv, IDsTaken, NEW u \in Clients, mgr' \in [Clients -> Manager],
         \A v \in Clients \ {u} : mgr'[v] = mgr[v],
         index' = index, published' = published, taken \subseteq taken', taken' \subseteq IDs,
         now' \in Nat, changes' \in Nat, faults' \in Nat,
         OwnIDs(u)' \subseteq taken', IDsOf(CachedEntries(u))' \subseteq taken',
         IDsOf(mgr[u].committedEntries)' \subseteq taken'
  PROVE  TypeInv' /\ IDsTaken'
<1>1. TypeInv'
  BY DEF TypeInv
<1>2. published' \subseteq taken' /\ StoredIDs' \subseteq taken'
  BY DEF IDsTaken, StoredIDs, StoredEntries
<1>3. ASSUME NEW v \in Clients \ {u}
      PROVE  /\ OwnIDs(v)' \subseteq taken' /\ IDsOf(CachedEntries(v))' \subseteq taken'
             /\ IDsOf(mgr[v].committedEntries)' \subseteq taken'
  <2>1. OwnIDs(v)' = OwnIDs(v) /\ CachedEntries(v)' = CachedEntries(v) /\ mgr'[v] = mgr[v]
    BY SameManager
  <2> QED BY <2>1 DEF IDsTaken
<1> QED BY <1>1, <1>2, <1>3 DEF IDsTaken

\* The IDs of entries.
LEMMA IDsFacts ==
  /\ \A S, T : IDsOf(S \cup T) = IDsOf(S) \cup IDsOf(T)
  /\ \A S, T : S \subseteq T => IDsOf(S) \subseteq IDsOf(T)
  /\ IDsOf({}) = {}
  BY DEF IDsOf

\* Put keeps the types.
LEMMA PutTyped == ASSUME TypeInv, IDsTaken, NEW u \in Clients, NEW id \in IDs, Put(u, id) PROVE TypeInv' /\ IDsTaken'
<1>1. PICK e \in ManifestEntry :
        /\ e.id = id /\ mgr[u].pendingEntries \cup {e} \in SUBSET ManifestEntry
        /\ mgr' = [mgr EXCEPT ![u].pendingEntries = mgr[u].pendingEntries \cup {e}]
  BY PutEffect
<1>2. PICK P \in SUBSET ManifestEntry : P = mgr[u].pendingEntries \cup {e}
  BY <1>1
<1>3. /\ mgr' \in [Clients -> Manager] /\ \A v \in Clients \ {u} : mgr'[v] = mgr[v]
      /\ mgr'[u].committedEntries = mgr[u].committedEntries /\ CachedEntries(u)' = CachedEntries(u)
      /\ OwnIDs(u)' = IDsOf(ChangedEntries(u) \cup P) \cup mgr[u].deleting
  BY <1>1, <1>2, PendingUpdate
<1>4. /\ taken' = taken \cup {id} /\ index' = index /\ published' = published /\ now' = now
      /\ changes' = changes + 1 /\ faults' = faults
  BY DEF Put
<1>5. OwnIDs(u)' \subseteq OwnIDs(u) \cup {id}
  BY <1>1, <1>2, <1>3 DEF OwnIDs, OwnEntries, IDsOf
<1>6. /\ OwnIDs(u)' \subseteq taken' /\ IDsOf(CachedEntries(u))' \subseteq taken'
      /\ IDsOf(mgr[u].committedEntries)' \subseteq taken'
  BY <1>3, <1>4, <1>5 DEF IDsTaken
<1>7. taken' \subseteq IDs /\ now' \in Nat /\ changes' \in Nat /\ faults' \in Nat
  BY <1>4 DEF TypeInv
<1> QED BY <1>3, <1>4, <1>6, <1>7, TypesKept

\* Delete keeps the types.
LEMMA DeleteTyped == ASSUME TypeInv, IDsTaken, NEW u \in Clients, NEW id \in IDs, Delete(u, id) PROVE TypeInv' /\ IDsTaken'
<1>1. PICK e \in ManifestEntry :
        /\ e.id = id /\ {f \in mgr[u].pendingEntries : f.id # id} \cup {e} \in SUBSET ManifestEntry
        /\ mgr' = [mgr EXCEPT ![u].pendingEntries = {f \in mgr[u].pendingEntries : f.id # id} \cup {e}]
  BY DeleteEffect
<1>2. PICK P \in SUBSET ManifestEntry : P = {f \in mgr[u].pendingEntries : f.id # id} \cup {e}
  BY <1>1
<1>3. /\ mgr' \in [Clients -> Manager] /\ \A v \in Clients \ {u} : mgr'[v] = mgr[v]
      /\ mgr'[u].committedEntries = mgr[u].committedEntries /\ CachedEntries(u)' = CachedEntries(u)
      /\ OwnIDs(u)' = IDsOf(ChangedEntries(u) \cup P) \cup mgr[u].deleting
  BY <1>1, <1>2, PendingUpdate
<1>4. /\ taken' = taken /\ index' = index /\ published' = published /\ now' = now
      /\ changes' = changes + 1 /\ faults' = faults
      /\ id \in IDsOf(mgr[u].pendingEntries \cup mgr[u].committedEntries)
  BY DEF Delete
<1>5. OwnIDs(u)' \subseteq OwnIDs(u) \cup {id}
  BY <1>1, <1>2, <1>3 DEF OwnIDs, OwnEntries, IDsOf
<1>8. id \in taken
  BY <1>4 DEF IDsTaken, OwnIDs, OwnEntries, IDsOf
<1>6. /\ OwnIDs(u)' \subseteq taken' /\ IDsOf(CachedEntries(u))' \subseteq taken'
      /\ IDsOf(mgr[u].committedEntries)' \subseteq taken'
  BY <1>3, <1>4, <1>5, <1>8 DEF IDsTaken
<1>7. taken' \subseteq IDs /\ now' \in Nat /\ changes' \in Nat /\ faults' \in Nat
  BY <1>4 DEF TypeInv
<1> QED BY <1>3, <1>4, <1>6, <1>7, TypesKept

\* So does a new manager of a client that has only entries the client knows.
LEMMA ManagerTyped ==
  ASSUME TypeInv, IDsTaken, NEW u \in Clients, NEW m \in Manager, mgr' = [mgr EXCEPT ![u] = m],
         UNCHANGED <<index, now, changes, taken, published>>, faults' \in Nat,
         IDsOf(EntriesOf(DOMAIN m.committedIndex)) \subseteq taken, IDsOf(EntriesOf(DOMAIN m.uncommitted)) \subseteq taken,
         IDsOf(m.pendingEntries) \subseteq taken, IDsOf(m.committedEntries) \subseteq taken, m.deleting \subseteq taken
  PROVE  TypeInv' /\ IDsTaken'
<1>1. /\ mgr' \in [Clients -> Manager] /\ mgr'[u] = m /\ \A v \in Clients \ {u} : mgr'[v] = mgr[v]
      /\ CachedEntries(u)' = EntriesOf(DOMAIN m.committedIndex)
      /\ OwnIDs(u)' = IDsOf(EntriesOf(DOMAIN m.uncommitted) \cup m.pendingEntries) \cup m.deleting
  BY ManagerUpdate
<1>2. IDsOf(EntriesOf(DOMAIN m.uncommitted) \cup m.pendingEntries) \subseteq taken
  BY DEF IDsOf
<1>3. /\ OwnIDs(u)' \subseteq taken' /\ IDsOf(CachedEntries(u))' \subseteq taken'
      /\ IDsOf(mgr[u].committedEntries)' \subseteq taken'
  BY <1>1, <1>2
<1>4. taken' \subseteq IDs /\ now' \in Nat /\ changes' \in Nat /\ faults' \in Nat
  BY DEF TypeInv
<1> QED BY <1>1, <1>3, <1>4, TypesKept

\* The IDs that a client knows were given out.
LEMMA KnownTaken ==
  ASSUME IDsTaken, NEW u \in Clients
  PROVE  /\ IDsOf(CachedEntries(u) \cup ChangedEntries(u)) \subseteq taken
         /\ IDsOf(CachedEntries(u)) \subseteq taken /\ IDsOf(ChangedEntries(u)) \subseteq taken
         /\ IDsOf(mgr[u].pendingEntries) \subseteq taken
         /\ IDsOf(mgr[u].committedEntries) \subseteq taken /\ mgr[u].deleting \subseteq taken
  BY DEF IDsTaken, OwnIDs, OwnEntries, IDsOf

\* So does loading what is committed.
LEMMA LoadTyped == ASSUME TypeInv, IDsTaken, NEW u \in Clients, EnsureInitialized(u) PROVE TypeInv' /\ IDsTaken'
<1>1. PICK m \in Manager : m = Loaded(u)
  BY LoadedFacts
<1>2. mgr' = [mgr EXCEPT ![u] = m] /\ UNCHANGED <<index, now, changes, taken, published>> /\ faults' \in Nat
  BY <1>1 DEF EnsureInitialized, TypeInv
<1>3. /\ EntriesOf(DOMAIN m.committedIndex) = CachedEntries(u)
      /\ EntriesOf(DOMAIN m.uncommitted) = ChangedEntries(u)
      /\ m.pendingEntries = mgr[u].pendingEntries /\ m.deleting = mgr[u].deleting
      /\ m.committedEntries \subseteq CachedEntries(u) \cup ChangedEntries(u)
  BY <1>1, LoadedFacts DEF CachedEntries, Cached, ChangedEntries, Changed
<1>4. IDsOf(m.committedEntries) \subseteq IDsOf(CachedEntries(u) \cup ChangedEntries(u))
  BY <1>3 DEF IDsOf
<1> QED BY <1>2, <1>3, <1>4, KnownTaken, ManagerTyped

\* What compaction makes of a manager has only entries that the client knows.
LEMMA CompactTaken ==
  ASSUME TypeInv, IDsTaken, NEW u \in Clients, NEW content \in Encodings(Loaded(u).committedEntries),
         NEW done \in SUBSET CompactedContents(Loaded(u), content), NEW pending \in BOOLEAN,
         NEW m, m = CompactLocked(u, Loaded(u), content, done, pending)
  PROVE  /\ m \in Manager /\ IDsOf(EntriesOf(DOMAIN m.committedIndex)) \subseteq taken
         /\ IDsOf(EntriesOf(DOMAIN m.uncommitted)) \subseteq taken
         /\ IDsOf(m.pendingEntries) \subseteq taken /\ IDsOf(m.committedEntries) \subseteq taken /\ m.deleting \subseteq taken
<1>1. /\ m \in Manager /\ m.pendingEntries = mgr[u].pendingEntries /\ m.deleting = mgr[u].deleting
      /\ EntriesOf(DOMAIN m.committedIndex) = CachedEntries(u)
      /\ EntriesOf(DOMAIN m.uncommitted) \subseteq CachedEntries(u) \cup ChangedEntries(u)
      /\ m.committedEntries \subseteq CachedEntries(u) \cup ChangedEntries(u)
  BY CompactFacts, LoadedFacts DEF CachedEntries, Cached
<1>2. /\ IDsOf(EntriesOf(DOMAIN m.uncommitted)) \subseteq IDsOf(CachedEntries(u) \cup ChangedEntries(u))
      /\ IDsOf(m.committedEntries) \subseteq IDsOf(CachedEntries(u) \cup ChangedEntries(u))
  BY <1>1 DEF IDsOf
<1> QED BY <1>1, <1>2, KnownTaken

\* So does a compaction that is not published.
LEMMA FailsTyped == ASSUME TypeInv, IDsTaken, NEW u \in Clients, AutoCompactFails(u) PROVE TypeInv' /\ IDsTaken'
<1>1. PICK content \in Encodings(Loaded(u).committedEntries), pending \in BOOLEAN :
        \E done \in SUBSET CompactedContents(Loaded(u), content) :
          mgr' = [mgr EXCEPT ![u] = CompactLocked(u, Loaded(u), content, done, pending)]
  BY DEF AutoCompactFails
<1>4. PICK done \in SUBSET CompactedContents(Loaded(u), content) :
        mgr' = [mgr EXCEPT ![u] = CompactLocked(u, Loaded(u), content, done, pending)]
  BY <1>1
<1>2. PICK m : m = CompactLocked(u, Loaded(u), content, done, pending)
  OBVIOUS
<1>3. mgr' = [mgr EXCEPT ![u] = m] /\ UNCHANGED <<index, now, changes, taken, published>> /\ faults' \in Nat
  BY <1>2, <1>4 DEF AutoCompactFails, TypeInv
<1> QED BY <1>2, <1>3, CompactTaken, ManagerTyped

\* So does writing the pending entries.
LEMMA FlushTyped == ASSUME TypeInv, IDsTaken, NEW u \in Clients, Flush(u) PROVE TypeInv' /\ IDsTaken'
<1>1. PICK m \in Manager, content \in Content :
        /\ mgr' = [mgr EXCEPT ![u] = m]
        /\ content.entries = mgr[u].pendingEntries
        /\ m.uncommitted = WriteContent(u, content) /\ m.pendingEntries = {}
        /\ m.committedIndex = mgr[u].committedIndex
        /\ m.deleting = mgr[u].deleting \cup IDsOf({e \in mgr[u].pendingEntries : e.deleted})
        /\ m.committedEntries \subseteq mgr[u].committedEntries \cup mgr[u].pendingEntries
  BY FlushEffect
<1>2. DOMAIN m.uncommitted \subseteq Changed(u) \cup {content}
  BY <1>1, WriteContentFacts DEF Changed
<1>3. EntriesOf(DOMAIN m.uncommitted) \subseteq ChangedEntries(u) \cup mgr[u].pendingEntries
  BY <1>1, <1>2 DEF EntriesOf, ChangedEntries
<1>4. /\ IDsOf(EntriesOf(DOMAIN m.committedIndex)) \subseteq taken
      /\ IDsOf(EntriesOf(DOMAIN m.uncommitted)) \subseteq taken
      /\ IDsOf(m.pendingEntries) \subseteq taken /\ IDsOf(m.committedEntries) \subseteq taken /\ m.deleting \subseteq taken
  <2>1. EntriesOf(DOMAIN m.committedIndex) = CachedEntries(u)
    BY <1>1 DEF CachedEntries, Cached
  <2>2. IDsOf({e \in mgr[u].pendingEntries : e.deleted}) \subseteq IDsOf(mgr[u].pendingEntries)
    BY DEF IDsOf
  <2>3. IDsOf(EntriesOf(DOMAIN m.uncommitted)) \subseteq IDsOf(ChangedEntries(u)) \cup IDsOf(mgr[u].pendingEntries)
    BY <1>3 DEF IDsOf
  <2>4. IDsOf(m.committedEntries) \subseteq IDsOf(mgr[u].committedEntries) \cup IDsOf(mgr[u].pendingEntries)
    BY <1>1 DEF IDsOf
  <2>5. IDsOf(m.pendingEntries) = {}
    BY <1>1 DEF IDsOf
  <2> QED BY <1>1, <2>1, <2>2, <2>3, <2>4, <2>5, KnownTaken
<1>5. UNCHANGED <<index, now, changes, taken, published>> /\ faults' \in Nat
  BY DEF Flush, TypeInv
<1> QED BY <1>1, <1>4, <1>5, ManagerTyped

\* Publishing keeps the types.
LEMMA PublishTyped ==
  ASSUME TypeInv, IDsTaken, NEW u \in Clients, NEW m \in Manager, Publish(u, m),
         UNCHANGED <<now, changes, faults, taken>>,
         IDsOf(EntriesOf(DOMAIN m.committedIndex)) \subseteq taken, IDsOf(EntriesOf(DOMAIN m.uncommitted)) \subseteq taken,
         IDsOf(m.pendingEntries) \subseteq taken, IDsOf(m.committedEntries) \subseteq taken, m.deleting \subseteq taken
  PROVE  TypeInv' /\ IDsTaken'
<1>1. PICK n \in Manager :
        /\ mgr' = [mgr EXCEPT ![u] = n]
        /\ index' \in Indexes /\ DOMAIN index' = DOMAIN index \cup DOMAIN m.uncommitted
        /\ n.uncommitted = NoEntries
        /\ DOMAIN n.committedIndex = DOMAIN m.committedIndex \cup DOMAIN m.uncommitted
        /\ n.pendingEntries = m.pendingEntries /\ n.committedEntries = m.committedEntries
        /\ n.deleting = {} /\ published' = published \cup m.deleting
        /\ published' \subseteq IDs
  BY PublishEffect
<1>2. /\ mgr' \in [Clients -> Manager] /\ mgr'[u] = n /\ \A v \in Clients \ {u} : mgr'[v] = mgr[v]
      /\ CachedEntries(u)' = EntriesOf(DOMAIN n.committedIndex)
      /\ OwnIDs(u)' = IDsOf(EntriesOf(DOMAIN n.uncommitted) \cup n.pendingEntries) \cup n.deleting
  BY <1>1, ManagerUpdate
<1>3. TypeInv'
  BY <1>1, <1>2 DEF TypeInv
<1>4. published' \subseteq taken' /\ StoredIDs' \subseteq taken'
  <2>1. EntriesOf(DOMAIN index') = StoredEntries \cup EntriesOf(DOMAIN m.uncommitted)
    BY <1>1 DEF EntriesOf, StoredEntries
  <2>2. StoredIDs' = StoredIDs \cup IDsOf(EntriesOf(DOMAIN m.uncommitted))
    BY <2>1 DEF StoredIDs, IDsOf, StoredEntries
  <2> QED BY <1>1, <2>2 DEF IDsTaken
<1>5. /\ OwnIDs(u)' \subseteq taken' /\ IDsOf(CachedEntries(u))' \subseteq taken'
      /\ IDsOf(mgr[u].committedEntries)' \subseteq taken'
  <2>1. EntriesOf(DOMAIN n.committedIndex) = EntriesOf(DOMAIN m.committedIndex) \cup EntriesOf(DOMAIN m.uncommitted)
    BY <1>1 DEF EntriesOf
  <2>2. IDsOf(EntriesOf(DOMAIN n.committedIndex)) \subseteq taken
    BY <2>1 DEF IDsOf
  <2>3. EntriesOf(DOMAIN n.uncommitted) = {}
    BY <1>1, NoEntriesFacts DEF EntriesOf
  <2> QED BY <1>1, <1>2, <2>2, <2>3
<1>6. ASSUME NEW v \in Clients \ {u}
      PROVE  /\ OwnIDs(v)' \subseteq taken' /\ IDsOf(CachedEntries(v))' \subseteq taken'
             /\ IDsOf(mgr[v].committedEntries)' \subseteq taken'
  <2>1. OwnIDs(v)' = OwnIDs(v) /\ CachedEntries(v)' = CachedEntries(v) /\ mgr'[v] = mgr[v]
    BY <1>2, SameManager
  <2> QED BY <2>1 DEF IDsTaken
<1> QED BY <1>3, <1>4, <1>5, <1>6 DEF IDsTaken

\* So does a flush of the content manager.
LEMMA FlushContentsTyped == ASSUME TypeInv, IDsTaken, NEW u \in Clients, FlushContents(u) PROVE TypeInv' /\ IDsTaken'
<1>1. PICK m \in Manager : m = mgr[u]
  BY ManagerFields
<1>2. Publish(u, m) /\ UNCHANGED <<now, changes, faults, taken>>
  BY <1>1 DEF FlushContents
<1>3. EntriesOf(DOMAIN m.committedIndex) = CachedEntries(u) /\ EntriesOf(DOMAIN m.uncommitted) = ChangedEntries(u)
  BY <1>1 DEF CachedEntries, Cached, ChangedEntries, Changed
<1> QED BY <1>1, <1>2, <1>3, KnownTaken, PublishTyped

\* So does a compaction.
LEMMA AutoCompactTyped == ASSUME TypeInv, IDsTaken, NEW u \in Clients, AutoCompact(u) PROVE TypeInv' /\ IDsTaken'
<1>1. PICK content \in Encodings(Loaded(u).committedEntries), pending \in BOOLEAN :
        Publish(u, CompactLocked(u, Loaded(u), content, CompactedContents(Loaded(u), content), pending))
  BY DEF AutoCompact
<1>2. PICK done \in SUBSET CompactedContents(Loaded(u), content) : done = CompactedContents(Loaded(u), content)
  OBVIOUS
<1>3. PICK m : m = CompactLocked(u, Loaded(u), content, done, pending)
  OBVIOUS
<1>4. Publish(u, m) /\ UNCHANGED <<now, changes, faults, taken>>
  BY <1>1, <1>2, <1>3 DEF AutoCompact
<1> QED BY <1>3, <1>4, CompactTaken, PublishTyped

\* What Refresh makes of a manager.
LEMMA RefreshEffect ==
  ASSUME TypeInv, NEW u \in Clients, Refresh(u)
  PROVE  \E m \in Manager : /\ mgr' = [mgr EXCEPT ![u] = m] /\ m.committedIndex = index
                            /\ m.uncommitted = mgr[u].uncommitted /\ m.deleting = mgr[u].deleting
                            /\ m.pendingEntries = mgr[u].pendingEntries
                            /\ m.committedEntries = mgr[u].committedEntries
<1>1. PICK m : m = mgr'[u]
  OBVIOUS
<1>2. mgr' = [mgr EXCEPT ![u].committedIndex = index, ![u].upToDate = FALSE]
  BY DEF Refresh
<1>3. mgr' = [mgr EXCEPT ![u] = m]
  BY <1>1, <1>2 DEF TypeInv
<1>4. m = [mgr[u] EXCEPT !.committedIndex = index, !.upToDate = FALSE]
  BY <1>1, <1>2 DEF TypeInv, Manager
<1>5. mgr[u] \in Manager /\ index \in Indexes
  BY DEF TypeInv
<1>6. /\ m \in Manager /\ m.committedIndex = index
      /\ m.uncommitted = mgr[u].uncommitted /\ m.deleting = mgr[u].deleting
      /\ m.pendingEntries = mgr[u].pendingEntries /\ m.committedEntries = mgr[u].committedEntries
  BY <1>4, <1>5 DEF Manager
<1> QED BY <1>3, <1>6

\* What a manager is when its client starts.
LEMMA NewManagerFacts ==
  ASSUME TypeInv
  PROVE  /\ NewManager \in Manager /\ NewManager.committedIndex = index /\ NewManager.uncommitted = NoEntries
         /\ NewManager.deleting = {} /\ NewManager.pendingEntries = {} /\ NewManager.committedEntries = {}
<1>1. NoEntries \in Indexes /\ index \in Indexes
  BY NoEntriesFacts DEF TypeInv
<1> QED BY <1>1 DEF NewManager, Manager

\* So does reading the indexes again.
LEMMA RefreshTyped == ASSUME TypeInv, IDsTaken, NEW u \in Clients, Refresh(u) PROVE TypeInv' /\ IDsTaken'
<1>1. PICK m \in Manager : /\ mgr' = [mgr EXCEPT ![u] = m] /\ m.committedIndex = index
                           /\ m.uncommitted = mgr[u].uncommitted /\ m.deleting = mgr[u].deleting
                           /\ m.pendingEntries = mgr[u].pendingEntries
                           /\ m.committedEntries = mgr[u].committedEntries
  BY RefreshEffect
<1>2. EntriesOf(DOMAIN m.committedIndex) = StoredEntries /\ EntriesOf(DOMAIN m.uncommitted) = ChangedEntries(u)
  BY <1>1 DEF StoredEntries, ChangedEntries, Changed
<1>3. IDsOf(StoredEntries) \subseteq taken
  BY DEF IDsTaken, StoredIDs
<1>4. UNCHANGED <<index, now, changes, taken, published>> /\ faults' \in Nat
  BY DEF Refresh, TypeInv
<1> QED BY <1>1, <1>2, <1>3, <1>4, KnownTaken, ManagerTyped

\* So does a restart.
LEMMA CrashTyped == ASSUME TypeInv, IDsTaken, NEW u \in Clients, Crash(u) PROVE TypeInv' /\ IDsTaken'
<1>1. PICK m \in Manager : m = NewManager
  BY NewManagerFacts
<1>2. mgr' = [mgr EXCEPT ![u] = m] /\ UNCHANGED <<index, now, changes, taken, published>> /\ faults' \in Nat
  BY <1>1 DEF Crash, TypeInv
<1>3. EntriesOf(DOMAIN m.committedIndex) = StoredEntries /\ EntriesOf(DOMAIN m.uncommitted) = {}
  BY <1>1, NewManagerFacts, NoEntriesFacts DEF StoredEntries, EntriesOf
<1>4. IDsOf(StoredEntries) \subseteq taken /\ IDsOf({}) = {}
  BY DEF IDsTaken, StoredIDs, IDsOf
<1>5. m.pendingEntries = {} /\ m.committedEntries = {} /\ m.deleting = {}
  BY <1>1, NewManagerFacts
<1> QED BY <1>2, <1>3, <1>4, <1>5, ManagerTyped

\* The steps that leave managers and storage alone.
LEMMA QuietTyped ==
  ASSUME TypeInv, IDsTaken, UNCHANGED <<index, mgr, changes, faults, taken, published>>, now' \in Nat
  PROVE  TypeInv' /\ IDsTaken'
<1>1. TypeInv'
  BY DEF TypeInv
<1>2. IDsTaken'
  BY DEF IDsTaken, StoredIDs, StoredEntries, OwnIDs, OwnEntries, ChangedEntries, Changed, CachedEntries, Cached
<1> QED BY <1>1, <1>2

\* The types hold initially.
LEMMA TypeInit == Init => TypeInv /\ IDsTaken
<1> SUFFICES ASSUME Init PROVE TypeInv /\ IDsTaken
  OBVIOUS
<1>1. index \in Indexes /\ DOMAIN index = {} /\ NoEntries \in Indexes /\ DOMAIN NoEntries = {}
  BY NoEntriesFacts DEF Init
<1>2. NewManager \in Manager
  BY <1>1 DEF NewManager, Manager
<1>3. TypeInv
  BY <1>1, <1>2 DEF Init, TypeInv
<1>4. EntriesOf({}) = {} /\ IDsOf({}) = {}
  BY DEF EntriesOf, IDsOf
<1>5. StoredIDs = {} /\ published = {}
  BY <1>1, <1>4 DEF StoredIDs, StoredEntries, Init
<1>6. ASSUME NEW u \in Clients
      PROVE  OwnIDs(u) = {} /\ IDsOf(CachedEntries(u)) = {} /\ IDsOf(mgr[u].committedEntries) = {}
  <2>1. mgr[u] = NewManager
    BY DEF Init
  <2>2. /\ NewManager.committedIndex = index /\ NewManager.uncommitted = NoEntries
        /\ NewManager.deleting = {} /\ NewManager.pendingEntries = {} /\ NewManager.committedEntries = {}
    BY DEF NewManager
  <2>3. Changed(u) = {} /\ Cached(u) = {}
    BY <1>1, <2>1, <2>2 DEF Changed, Cached
  <2> QED BY <1>4, <2>1, <2>2, <2>3 DEF OwnIDs, OwnEntries, ChangedEntries, CachedEntries
<1> QED BY <1>3, <1>5, <1>6 DEF IDsTaken

\* Every step keeps the types.
LEMMA TypeStep == TypeInv /\ IDsTaken /\ [Next]_vars => TypeInv' /\ IDsTaken'
<1> SUFFICES ASSUME TypeInv, IDsTaken, [Next]_vars PROVE TypeInv' /\ IDsTaken'
  OBVIOUS
<1>1. CASE UNCHANGED vars
  BY <1>1, QuietTyped DEF vars, TypeInv
<1>2. CASE Tick
  BY <1>2, QuietTyped DEF Tick, TypeInv
<1>3. ASSUME NEW u \in Clients,
             \/ \E id \in IDs : Put(u, id) \/ Delete(u, id)
             \/ EnsureInitialized(u) \/ AutoCompact(u) \/ AutoCompactFails(u) \/ Flush(u)
             \/ FlushContents(u) \/ Refresh(u) \/ Crash(u)
      PROVE  TypeInv' /\ IDsTaken'
  BY <1>3, PutTyped, DeleteTyped, LoadTyped, AutoCompactTyped, FailsTyped, FlushTyped, FlushContentsTyped,
     RefreshTyped, CrashTyped
<1> QED BY <1>1, <1>2, <1>3 DEF Next

\* The types imply the type invariant of the runs.
LEMMA TypeInvImplies == TypeInv /\ IDsTaken => TypeOK
<1> SUFFICES ASSUME TypeInv, IDsTaken PROVE TypeOK
  OBVIOUS
<1>1. \A n \in Indexes : IsIndex(n)
  BY IndexFacts DEF IsIndex
<1>2. ASSUME NEW u \in Clients
      PROVE  /\ IsIndex(mgr[u].committedIndex) /\ IsIndex(mgr[u].uncommitted)
             /\ mgr[u].pendingEntries \subseteq ManifestEntry
             /\ mgr[u].committedEntries \subseteq ManifestEntry
             /\ mgr[u].committedContentIDs \subseteq Content /\ mgr[u].upToDate \in BOOLEAN
             /\ mgr[u].deleting \subseteq IDs
  <2>1. mgr[u].upToDate \in BOOLEAN
    BY DEF TypeInv, Manager
  <2> QED BY <1>1, <2>1, ManagerFields
<1>3. index \in Indexes /\ taken \subseteq IDs /\ published \subseteq taken /\ now \in Nat /\ changes \in Nat /\ faults \in Nat
  BY DEF TypeInv, IDsTaken
<1> QED BY <1>1, <1>2, <1>3 DEF TypeOK

\* Storage, caches and uncommitted changes are indexes of contents of manifest entries, and only
\* deletions of manifests whose IDs were given out are published, whatever the operations do.
THEOREM TypeCorrect == Spec => []TypeOK
<1>1. Init => TypeInv /\ IDsTaken
  BY TypeInit
<1>2. TypeInv /\ IDsTaken /\ [Next]_vars => TypeInv' /\ IDsTaken'
  BY TypeStep
<1>3. TypeInv /\ IDsTaken => TypeOK
  BY TypeInvImplies
<1> QED BY <1>1, <1>2, <1>3, PTL DEF Spec
----------------------------------------------------------------------------
(* Entries and who has them *)

OneCompactor == \A u, v \in Compactors : u = v
EntryInv == EntriesOrdered /\ EntriesPrivate /\ IDsPrivate /\ PutsFresh

\* Whose entries there are.
LEMMA AllEntriesFacts ==
  /\ \A e : e \in AllEntries <=> e \in StoredEntries \/ \E u \in Clients : e \in OwnEntries(u)
  /\ \A u \in Clients : OwnEntries(u) \subseteq AllEntries /\ ChangedEntries(u) \subseteq AllEntries
  BY DEF AllEntries, OwnEntries

\* They are manifest entries.
LEMMA AllEntriesTyped == ASSUME TypeInv PROVE AllEntries \subseteq ManifestEntry
<1>1. StoredEntries \subseteq ManifestEntry
  BY IndexFacts, EntriesFacts DEF TypeInv, StoredEntries
<1>2. ASSUME NEW v \in Clients PROVE OwnEntries(v) \subseteq ManifestEntry
  <2>1. Changed(v) \subseteq Content
    BY ManagerFields, IndexFacts DEF Changed
  <2>2. ChangedEntries(v) \subseteq ManifestEntry
    BY <2>1, EntriesFacts DEF ChangedEntries
  <2> QED BY <2>2, ManagerFields DEF OwnEntries
<1> QED BY <1>1, <1>2, AllEntriesFacts

\* A client moves its entries from one place to the next: flushes them, publishes them, forgets
\* them or, when it compacts, writes again what is in storage.
LEMMA EntriesMove ==
  ASSUME EntryInv, OneCompactor, NEW u \in Clients, changes' = changes,
         \A v \in Clients \ {u} : mgr'[v] = mgr[v],
         StoredEntries \subseteq StoredEntries', StoredEntries' \subseteq StoredEntries \cup ChangedEntries(u),
         mgr'[u].pendingEntries \subseteq mgr[u].pendingEntries,
         ChangedEntries(u)' \subseteq StoredEntries \cup OwnEntries(u),
         mgr'[u].pendingEntries = {} \/ (/\ ChangedEntries(u)' \subseteq StoredEntries \cup ChangedEntries(u)
                                         /\ mgr'[u].deleting \subseteq mgr[u].deleting),
         u \notin Compactors => /\ ChangedEntries(u)' \subseteq OwnEntries(u)
                                /\ ChangedEntries(u)' = {} \/ StoredEntries' = StoredEntries
                                /\ published' \ published \subseteq StoredIDs',
         published' \subseteq published \cup mgr[u].deleting, mgr'[u].deleting \subseteq OwnIDs(u)
  PROVE  EntryInv'
<1> DEFINE S == StoredEntries
           C(v) == ChangedEntries(v)
           P(v) == mgr[v].pendingEntries
           D(v) == mgr[v].deleting
<1>1. /\ \A v \in Clients : OwnEntries(v) = C(v) \cup P(v) /\ OwnEntries(v)' = C(v)' \cup P(v)'
      /\ \A v \in Clients \ {u} : C(v)' = C(v) /\ P(v)' = P(v) /\ D(v)' = D(v)
  BY SameManager DEF OwnEntries
<1>2. /\ S \subseteq S' /\ S' \subseteq S \cup C(u) /\ P(u)' \subseteq P(u) /\ C(u)' \subseteq S \cup C(u) \cup P(u)
      /\ P(u)' = {} \/ (C(u)' \subseteq S \cup C(u) /\ D(u)' \subseteq D(u))
      /\ u \notin Compactors => C(u)' \subseteq C(u) \cup P(u) /\ (C(u)' = {} \/ S' = S)
  BY <1>1
<1>3. EntriesOrdered'
  <2>1. AllEntries' \subseteq AllEntries
    <3>1. StoredEntries' \subseteq AllEntries
      BY AllEntriesFacts
    <3>2. ASSUME NEW v \in Clients PROVE OwnEntries(v)' \subseteq AllEntries
      BY <1>1, <1>2, AllEntriesFacts
    <3> QED BY <3>1, <3>2 DEF AllEntries
  <2> QED BY <2>1 DEF EntryInv, EntriesOrdered, Ordered
<1>4. EntriesPrivate'
  <2>1. \A v \in Clients \ Compactors : (C(v) \cup P(v)) \cap S = {}
    BY DEF EntryInv, EntriesPrivate
  <2>2. \A v \in Clients \ {u} : (C(u)' \cup P(u)') \cap (C(v) \cup P(v)) = {}
    <3> TAKE v \in Clients \ {u}
    <3>1. (C(u) \cup P(u)) \cap (C(v) \cup P(v)) = {}
      BY DEF EntryInv, EntriesPrivate, OwnEntries
    <3>2. CASE u \in Compactors
      <4>1. v \notin Compactors
        BY <3>2 DEF OneCompactor
      <4> QED BY <1>2, <2>1, <3>1, <4>1
    <3>3. CASE u \notin Compactors
      BY <1>2, <3>1, <3>3
    <3> QED BY <3>2, <3>3
  <2>3. \A v, w \in Clients : v # w => OwnEntries(v)' \cap OwnEntries(w)' = {}
    <3> SUFFICES ASSUME NEW v \in Clients, NEW w \in Clients, v # w PROVE OwnEntries(v)' \cap OwnEntries(w)' = {}
      OBVIOUS
    <3>1. CASE v # u /\ w # u
      BY <1>1, <3>1 DEF EntryInv, EntriesPrivate
    <3>2. CASE v = u \/ w = u
      BY <1>1, <2>2, <3>2
    <3> QED BY <3>1, <3>2
  <2>4. ASSUME NEW v \in Clients PROVE P(v)' \cap (S' \cup C(v)') = {}
    <3>1. P(v) \cap (S \cup C(v)) = {} /\ (v # u => P(v) \cap C(u) = {})
      BY DEF EntryInv, EntriesPrivate, OwnEntries
    <3>2. CASE v = u
      BY <1>2, <3>1, <3>2
    <3>3. CASE v # u
      BY <1>1, <1>2, <3>1, <3>3
    <3> QED BY <3>2, <3>3
  <2>5. ASSUME NEW v \in Clients \ Compactors PROVE C(v)' \cap S' = {}
    <3>1. C(v) \cap S = {} /\ (v # u => C(v) \cap C(u) = {})
      BY DEF EntryInv, EntriesPrivate, OwnEntries
    <3>2. CASE v = u
      BY <1>2, <2>1, <3>1, <3>2
    <3>3. CASE v # u
      BY <1>1, <1>2, <3>1, <3>3
    <3> QED BY <3>2, <3>3
  <2> QED BY <2>3, <2>4, <2>5 DEF EntriesPrivate
<1>5. /\ StoredIDs \subseteq StoredIDs' /\ StoredIDs' \subseteq StoredIDs \cup IDsOf(C(u)) /\ IDsOf(C(u)) \subseteq OwnIDs(u)
      /\ OwnIDs(u)' \subseteq StoredIDs \cup OwnIDs(u) /\ D(u) \subseteq OwnIDs(u)
      /\ u \notin Compactors => OwnIDs(u)' \subseteq OwnIDs(u)
      /\ \A v \in Clients \ {u} : OwnIDs(v)' = OwnIDs(v)
  <2>1. StoredIDs \subseteq StoredIDs' /\ StoredIDs' \subseteq StoredIDs \cup IDsOf(C(u))
    BY <1>2 DEF StoredIDs, IDsOf
  <2>2. IDsOf(C(u)) \subseteq OwnIDs(u) /\ D(u) \subseteq OwnIDs(u) /\ IDsOf(P(u)) \subseteq OwnIDs(u)
    BY DEF OwnIDs, OwnEntries, IDsOf
  <2>3. OwnIDs(u)' \subseteq StoredIDs \cup OwnIDs(u)
    <3>1. IDsOf(C(u)' \cup P(u)') \subseteq StoredIDs \cup IDsOf(C(u)) \cup IDsOf(P(u))
      BY <1>2 DEF StoredIDs, IDsOf
    <3> QED BY <1>1, <2>2, <3>1 DEF OwnIDs
  <2>4. u \notin Compactors => OwnIDs(u)' \subseteq OwnIDs(u)
    <3>1. u \notin Compactors => IDsOf(C(u)' \cup P(u)') \subseteq IDsOf(C(u)) \cup IDsOf(P(u))
      BY <1>2 DEF IDsOf
    <3> QED BY <1>1, <2>2, <3>1 DEF OwnIDs
  <2>5. \A v \in Clients \ {u} : OwnIDs(v)' = OwnIDs(v)
    BY SameManager
  <2> QED BY <2>1, <2>2, <2>3, <2>4, <2>5
<1>6. IDsPrivate'
  <2>1. ASSUME NEW v \in Clients \ {u} PROVE OwnIDs(u)' \cap OwnIDs(v)' \subseteq StoredIDs'
    BY <1>5 DEF EntryInv, IDsPrivate
  <2>2. \A v, w \in Clients : v # w => OwnIDs(v)' \cap OwnIDs(w)' \subseteq StoredIDs'
    <3> SUFFICES ASSUME NEW v \in Clients, NEW w \in Clients, v # w PROVE OwnIDs(v)' \cap OwnIDs(w)' \subseteq StoredIDs'
      OBVIOUS
    <3>1. CASE v # u /\ w # u
      BY <1>5, <3>1 DEF EntryInv, IDsPrivate
    <3>2. CASE v = u \/ w = u
      BY <2>1, <3>2
    <3> QED BY <3>1, <3>2
  <2>3. ASSUME NEW v \in Clients \ Compactors PROVE published' \cap OwnIDs(v)' \subseteq StoredIDs'
    <3>1. CASE v = u
      BY <1>5, <3>1 DEF EntryInv, IDsPrivate
    <3>2. CASE v # u
      BY <1>5, <3>2 DEF EntryInv, IDsPrivate
    <3> QED BY <3>1, <3>2
  <2> QED BY <2>2, <2>3 DEF IDsPrivate
<1>7. PutsFresh'
  <2>1. ASSUME NEW v \in Clients, NEW e \in P(v)', ~e.deleted
        PROVE  e.id \notin StoredIDs' \cup IDsOf(C(v))' \cup published' \cup D(v)'
    <3>1. e \in P(v)
      BY <1>1, <1>2
    <3>2. e.id \notin StoredIDs \cup IDsOf(C(v)) \cup published \cup D(v) /\ e.id \in OwnIDs(v)
      BY <2>1, <3>1 DEF EntryInv, PutsFresh, OwnIDs, OwnEntries, IDsOf
    <3>3. CASE v = u
      <4>1. C(u)' \subseteq S \cup C(u) /\ D(u)' \subseteq D(u)
        BY <1>2, <2>1, <3>3
      <4>2. IDsOf(C(u))' \subseteq StoredIDs \cup IDsOf(C(u))
        BY <4>1 DEF StoredIDs, IDsOf
      <4> QED BY <1>5, <3>2, <3>3, <4>1, <4>2
    <3>4. CASE v # u
      <4>1. OwnIDs(u) \cap OwnIDs(v) \subseteq StoredIDs
        BY <3>4 DEF EntryInv, IDsPrivate
      <4>2. C(v)' = C(v) /\ D(v)' = D(v)
        BY <1>1, <3>4
      <4> QED BY <1>5, <3>2, <4>1, <4>2
    <3> QED BY <3>3, <3>4
  <2>2. ASSUME NEW v \in Clients \ Compactors, NEW e \in C(v)', ~e.deleted PROVE e.id \notin StoredIDs'
    <3>1. \A f \in C(v) \cup P(v) : ~f.deleted => f.id \notin StoredIDs
      BY DEF EntryInv, PutsFresh
    <3>2. CASE v = u
      <4>1. e \in C(u) \cup P(u) /\ S' = S
        BY <1>2, <2>2, <3>2
      <4> QED BY <2>2, <3>1, <3>2, <4>1 DEF StoredIDs
    <3>3. CASE v # u
      <4>1. OwnIDs(u) \cap OwnIDs(v) \subseteq StoredIDs
        BY <3>3 DEF EntryInv, IDsPrivate
      <4>2. e \in C(v)
        BY <1>1, <2>2, <3>3
      <4>3. e.id \in OwnIDs(v)
        BY <4>2 DEF OwnIDs, OwnEntries, IDsOf
      <4> QED BY <1>5, <2>2, <3>1, <4>1, <4>2, <4>3
    <3> QED BY <3>2, <3>3
  <2> QED BY <2>1, <2>2 DEF PutsFresh
<1> QED BY <1>3, <1>4, <1>6, <1>7 DEF EntryInv

\* Put and Delete add one pending entry, later than all others: of a new manifest, or a deletion of
\* one the client knows.
LEMMA EntriesAdd ==
  ASSUME EntryInv, IDsTaken, TypeInv, NEW u \in Clients, NEW e \in ManifestEntry, NEW P \in SUBSET ManifestEntry,
         changes' = changes + 1, e.modTime = changes + 1, UNCHANGED <<index, published>>,
         mgr' = [mgr EXCEPT ![u].pendingEntries = P], e \in P, P \subseteq mgr[u].pendingEntries \cup {e},
         IF e.deleted THEN e.id \in StoredIDs \cup OwnIDs(u) ELSE e.id \notin taken
  PROVE  EntryInv'
<1>1. /\ \A v \in Clients \ {u} : mgr'[v] = mgr[v]
      /\ mgr'[u].pendingEntries = P /\ mgr'[u].deleting = mgr[u].deleting
      /\ ChangedEntries(u)' = ChangedEntries(u)
      /\ OwnEntries(u)' = ChangedEntries(u) \cup P
      /\ OwnIDs(u)' = IDsOf(ChangedEntries(u) \cup P) \cup mgr[u].deleting
  BY PendingUpdate
<1>2. StoredEntries' = StoredEntries /\ StoredIDs' = StoredIDs
  BY DEF StoredEntries, StoredIDs
<1>3. \A v \in Clients \ {u} : /\ ChangedEntries(v)' = ChangedEntries(v) /\ OwnEntries(v)' = OwnEntries(v)
                               /\ OwnIDs(v)' = OwnIDs(v) /\ mgr'[v] = mgr[v]
  BY <1>1, SameManager
<1>4. OwnEntries(u)' \subseteq OwnEntries(u) \cup {e}
  BY <1>1 DEF OwnEntries
<1>5. AllEntries' \subseteq AllEntries \cup {e}
  <2>1. StoredEntries' \subseteq AllEntries
    BY <1>2, AllEntriesFacts
  <2>2. ASSUME NEW v \in Clients PROVE OwnEntries(v)' \subseteq AllEntries \cup {e}
    BY <1>3, <1>4, AllEntriesFacts
  <2> QED BY <2>1, <2>2 DEF AllEntries
<1>6. e \notin AllEntries
  BY DEF EntryInv, EntriesOrdered, TypeInv
<1>7. ~e.deleted => \A f \in AllEntries : f.id # e.id
  <2> SUFFICES ASSUME ~e.deleted, NEW f \in AllEntries PROVE f.id # e.id
    OBVIOUS
  <2>1. f.id \in taken
    <3>1. CASE f \in StoredEntries
      BY <3>1 DEF IDsTaken, StoredIDs, IDsOf
    <3>2. ASSUME NEW v \in Clients, f \in OwnEntries(v) PROVE f.id \in taken
      BY <3>2 DEF IDsTaken, OwnIDs, IDsOf
    <3> QED BY <3>1, <3>2, AllEntriesFacts
  <2> QED BY <2>1
<1>8. EntriesOrdered'
  <2>1. ASSUME NEW f \in AllEntries' PROVE f.modTime <= changes'
    <3>1. f = e \/ (f \in AllEntries /\ f \in ManifestEntry)
      <4>1. AllEntries \subseteq ManifestEntry
        BY AllEntriesTyped
      <4> QED BY <1>5, <4>1
    <3>2. f = e => f.modTime <= changes'
      BY DEF TypeInv
    <3>3. f \in AllEntries /\ f \in ManifestEntry => f.modTime <= changes'
      BY ManifestAssumption DEF EntryInv, EntriesOrdered, TypeInv, ManifestEntry
    <3> QED BY <3>1, <3>2, <3>3
  <2>2. ASSUME NEW f \in AllEntries', NEW g \in AllEntries', f.id = g.id, ~f.deleted
        PROVE  IF g.deleted THEN f.modTime < g.modTime ELSE f = g
    <3>1. CASE f \in AllEntries /\ g \in AllEntries
      BY <2>2, <3>1 DEF EntryInv, EntriesOrdered, Ordered
    <3>2. CASE f = e
      BY <1>5, <1>7, <2>2, <3>2
    <3>3. CASE f \in AllEntries /\ g = e
      <4>1. e.deleted
        BY <1>7, <2>2, <3>3
      <4>2. f.modTime <= changes /\ f \in ManifestEntry
        <5>1. f \in ManifestEntry
          BY <3>3, AllEntriesTyped
        <5> QED BY <3>3, <5>1 DEF EntryInv, EntriesOrdered
      <4>3. f.modTime < g.modTime
        BY <3>3, <4>2, ManifestAssumption DEF ManifestEntry, TypeInv
      <4> QED BY <3>3, <4>1, <4>3
    <3> QED BY <1>5, <3>1, <3>2, <3>3
  <2> QED BY <2>1, <2>2 DEF EntriesOrdered, Ordered
<1>9. EntriesPrivate'
  <2>1. /\ e \notin StoredEntries /\ \A v \in Clients : e \notin OwnEntries(v) /\ e \notin ChangedEntries(v)
    BY <1>6, AllEntriesFacts
  <2>2. \A v, w \in Clients : v # w => OwnEntries(v)' \cap OwnEntries(w)' = {}
    BY <1>3, <1>4, <2>1 DEF EntryInv, EntriesPrivate
  <2>3. ASSUME NEW v \in Clients PROVE mgr'[v].pendingEntries \cap (StoredEntries' \cup ChangedEntries(v)') = {}
    <3>1. ChangedEntries(v)' = ChangedEntries(v) /\ mgr'[v].pendingEntries \subseteq mgr[v].pendingEntries \cup {e}
      BY <1>1, <1>3
    <3> QED BY <1>2, <2>1, <3>1 DEF EntryInv, EntriesPrivate
  <2>4. ASSUME NEW v \in Clients \ Compactors PROVE ChangedEntries(v)' \cap StoredEntries' = {}
    BY <1>1, <1>2, <1>3 DEF EntryInv, EntriesPrivate
  <2> QED BY <2>2, <2>3, <2>4 DEF EntriesPrivate
<1>10. OwnIDs(u)' \subseteq OwnIDs(u) \cup {e.id}
  BY <1>1 DEF OwnIDs, OwnEntries, IDsOf
<1>11. IDsPrivate'
  <2>1. ASSUME NEW v \in Clients \ {u} PROVE OwnIDs(u)' \cap OwnIDs(v)' \subseteq StoredIDs'
    <3>1. OwnIDs(u) \cap OwnIDs(v) \subseteq StoredIDs /\ OwnIDs(v) \subseteq taken
      BY DEF EntryInv, IDsPrivate, IDsTaken
    <3> QED BY <1>2, <1>3, <1>10, <3>1
  <2>2. \A v, w \in Clients : v # w => OwnIDs(v)' \cap OwnIDs(w)' \subseteq StoredIDs'
    <3> SUFFICES ASSUME NEW v \in Clients, NEW w \in Clients, v # w PROVE OwnIDs(v)' \cap OwnIDs(w)' \subseteq StoredIDs'
      OBVIOUS
    <3>1. CASE v # u /\ w # u
      BY <1>2, <1>3, <3>1 DEF EntryInv, IDsPrivate
    <3>2. CASE v = u \/ w = u
      BY <2>1, <3>2
    <3> QED BY <3>1, <3>2
  <2>3. ASSUME NEW v \in Clients \ Compactors PROVE published' \cap OwnIDs(v)' \subseteq StoredIDs'
    <3>1. published \cap OwnIDs(v) \subseteq StoredIDs /\ published \subseteq taken
      BY DEF EntryInv, IDsPrivate, IDsTaken
    <3>2. CASE v = u
      BY <1>2, <1>10, <3>1, <3>2
    <3>3. CASE v # u
      BY <1>2, <1>3, <3>1, <3>3
    <3> QED BY <3>2, <3>3
  <2> QED BY <2>2, <2>3 DEF IDsPrivate
<1>12. PutsFresh'
  <2>1. ASSUME NEW v \in Clients, NEW f \in mgr'[v].pendingEntries, ~f.deleted
        PROVE  f.id \notin StoredIDs' \cup IDsOf(ChangedEntries(v))' \cup published' \cup mgr'[v].deleting
    <3>1. ChangedEntries(v)' = ChangedEntries(v) /\ mgr'[v].deleting = mgr[v].deleting
      BY <1>1, <1>3
    <3>2. f \in mgr[v].pendingEntries \/ (f = e /\ v = u)
      BY <1>1, <1>3, <2>1
    <3>3. StoredIDs \subseteq taken /\ IDsOf(ChangedEntries(v)) \subseteq taken /\ published \subseteq taken /\ mgr[v].deleting \subseteq taken
      BY KnownTaken DEF IDsTaken
    <3> QED BY <1>2, <2>1, <3>1, <3>2, <3>3 DEF EntryInv, PutsFresh
  <2>2. ASSUME NEW v \in Clients \ Compactors, NEW f \in ChangedEntries(v)', ~f.deleted PROVE f.id \notin StoredIDs'
    BY <1>1, <1>2, <1>3, <2>2 DEF EntryInv, PutsFresh
  <2> QED BY <2>1, <2>2 DEF PutsFresh
<1> QED BY <1>8, <1>9, <1>11, <1>12 DEF EntryInv
----------------------------------------------------------------------------
(* What is found in contents, and what publishing and compaction make of it *)

\* The manifests that some contents put.
PutIn(contents) == IDsOf({e \in EntriesOf(contents) : ~e.deleted})

\* What is put and deleted in contents, entry by entry.
LEMMA InFacts ==
  ASSUME NEW C, NEW D
  PROVE  /\ \A x : x \in PutIn(C) <=> \E c \in C : \E e \in c.entries : e.id = x /\ ~e.deleted
         /\ \A x : x \in DeletedIn(C) <=> \E c \in C : \E e \in c.entries : e.id = x /\ e.deleted
         /\ PutIn(C \cup D) = PutIn(C) \cup PutIn(D) /\ DeletedIn(C \cup D) = DeletedIn(C) \cup DeletedIn(D)
         /\ PutIn(C) \cup DeletedIn(C) = IDsOf(EntriesOf(C))
         /\ C \subseteq D => PutIn(C) \subseteq PutIn(D) /\ DeletedIn(C) \subseteq DeletedIn(D)
<1>1. \A S : \A x : x \in PutIn(S) <=> \E c \in S : \E e \in c.entries : e.id = x /\ ~e.deleted
  BY DEF PutIn, IDsOf, EntriesOf
<1>2. \A S : \A x : x \in DeletedIn(S) <=> \E c \in S : \E e \in c.entries : e.id = x /\ e.deleted
  BY DEF DeletedIn, IDsOf, EntriesOf
<1>3. PutIn(C \cup D) = PutIn(C) \cup PutIn(D)
  BY <1>1
<1>4. DeletedIn(C \cup D) = DeletedIn(C) \cup DeletedIn(D)
  BY <1>2
<1>5. PutIn(C) \cup DeletedIn(C) = IDsOf(EntriesOf(C))
  BY DEF PutIn, DeletedIn, IDsOf
<1>6. C \subseteq D => PutIn(C) \subseteq PutIn(D) /\ DeletedIn(C) \subseteq DeletedIn(D)
  BY <1>1, <1>2
<1> QED BY <1>1, <1>2, <1>3, <1>4, <1>5, <1>6

\* A manifest is found in contents that put it and do not delete it, when each is put once and
\* deleted later.
LEMMA FoundChar ==
  ASSUME NEW C, EntriesOf(C) \subseteq ManifestEntry, Ordered(EntriesOf(C))
  PROVE  FoundIn(C) = PutIn(C) \ DeletedIn(C)
<1> DEFINE A == EntriesOf(C)
<1>1. \A x : x \in FoundIn(C) <=> \E e \in A : e.id = x /\ ~e.deleted /\ \A f \in A : f.id = e.id => f.modTime <= e.modTime
  BY DEF FoundIn, LoadManifestContents, Newest, IDsOf
<1>2. \A x : x \in PutIn(C) <=> \E e \in A : e.id = x /\ ~e.deleted
  BY DEF PutIn, IDsOf
<1>3. \A x : x \in DeletedIn(C) <=> \E e \in A : e.id = x /\ e.deleted
  BY DEF DeletedIn, IDsOf
<1>4. \A e \in A : e.modTime \in Nat
  BY ManifestAssumption DEF ManifestEntry
<1>5. ASSUME NEW x \in FoundIn(C) PROVE x \in PutIn(C) \ DeletedIn(C)
  <2>1. PICK e \in A : e.id = x /\ ~e.deleted /\ \A f \in A : f.id = e.id => f.modTime <= e.modTime
    BY <1>1
  <2>2. ASSUME NEW f \in A, f.id = x, f.deleted PROVE FALSE
    <3>1. e.modTime < f.modTime
      BY <2>1, <2>2 DEF Ordered
    <3> QED BY <1>4, <2>1, <2>2, <3>1
  <2> QED BY <1>2, <1>3, <2>1, <2>2
<1>6. ASSUME NEW x \in PutIn(C) \ DeletedIn(C) PROVE x \in FoundIn(C)
  <2>1. PICK e \in A : e.id = x /\ ~e.deleted
    BY <1>2
  <2>2. ASSUME NEW f \in A, f.id = e.id PROVE f.modTime <= e.modTime
    <3>1. ~f.deleted
      BY <1>3, <2>1, <2>2
    <3>2. f = e
      BY <2>1, <2>2, <3>1 DEF Ordered
    <3> QED BY <1>4, <3>2
  <2> QED BY <1>1, <2>1, <2>2
<1> QED BY <1>5, <1>6

\* So it is for all contents that are stored or changed.
LEMMA FoundIs ==
  ASSUME TypeInv, EntriesOrdered, NEW C, EntriesOf(C) \subseteq AllEntries
  PROVE  FoundIn(C) = PutIn(C) \ DeletedIn(C)
<1>1. EntriesOf(C) \subseteq ManifestEntry
  BY AllEntriesTyped
<1>2. Ordered(EntriesOf(C))
  BY DEF EntriesOrdered, Ordered
<1> QED BY <1>1, <1>2, FoundChar

\* The live contents once changes are published that are later than what was read of storage, while
\* others have only added contents.
LEMMA MergeLive ==
  ASSUME NEW n \in Indexes, NEW k \in Indexes, NEW c1 \in Indexes, DOMAIN k \subseteq DOMAIN n,
         \A c \in DOMAIN k : k[c] = n[c],
         \A c \in DOMAIN n \ DOMAIN k : ~n[c].deleted /\ c \notin DOMAIN c1,
         \A c \in DOMAIN c1 \cap DOMAIN k : c1[c].ts > k[c].ts
  PROVE  /\ LiveContents(Merge(n, c1)) = LiveContents(Overlay(k, c1)) \cup (DOMAIN n \ DOMAIN k)
         /\ \A c \in DOMAIN Merge(k, c1) : Merge(k, c1)[c] = Merge(n, c1)[c]
<1>1. /\ DOMAIN Merge(n, c1) = DOMAIN n \cup DOMAIN c1
      /\ \A c \in DOMAIN n \ DOMAIN c1 : Merge(n, c1)[c] = n[c]
      /\ \A c \in DOMAIN c1 \ DOMAIN n : Merge(n, c1)[c] = c1[c]
      /\ \A c \in DOMAIN c1 \cap DOMAIN n : c1[c].ts > n[c].ts => Merge(n, c1)[c] = c1[c]
  BY MergeFacts
<1>2. /\ DOMAIN Merge(k, c1) = DOMAIN k \cup DOMAIN c1
      /\ \A c \in DOMAIN k \ DOMAIN c1 : Merge(k, c1)[c] = k[c]
      /\ \A c \in DOMAIN c1 \ DOMAIN k : Merge(k, c1)[c] = c1[c]
      /\ \A c \in DOMAIN c1 \cap DOMAIN k : c1[c].ts > k[c].ts => Merge(k, c1)[c] = c1[c]
  BY MergeFacts
<1>3. /\ DOMAIN Overlay(k, c1) = DOMAIN k \cup DOMAIN c1
      /\ \A c \in DOMAIN k \ DOMAIN c1 : Overlay(k, c1)[c] = k[c]
      /\ \A c \in DOMAIN c1 : Overlay(k, c1)[c] = c1[c]
  BY OverlayFacts
<1>4. \A c \in DOMAIN c1 : Merge(n, c1)[c] = c1[c] /\ Merge(k, c1)[c] = c1[c]
  <2> TAKE c \in DOMAIN c1
  <2>1. CASE c \in DOMAIN k
    BY <1>1, <1>2, <2>1
  <2>2. CASE c \notin DOMAIN k
    BY <1>1, <1>2, <2>2
  <2> QED BY <2>1, <2>2
<1>5. \A c \in DOMAIN k \cup DOMAIN c1 : Merge(n, c1)[c] = Overlay(k, c1)[c] /\ Merge(k, c1)[c] = Overlay(k, c1)[c]
  BY <1>1, <1>2, <1>3, <1>4
<1>6. \A c \in DOMAIN n \ DOMAIN k : Merge(n, c1)[c] = n[c] /\ ~Merge(n, c1)[c].deleted
  BY <1>1
<1>7. LiveContents(Merge(n, c1)) = LiveContents(Overlay(k, c1)) \cup (DOMAIN n \ DOMAIN k)
  BY <1>1, <1>3, <1>5, <1>6 DEF LiveContents
<1> QED BY <1>2, <1>5, <1>7

\* Publishing by a client that does not compact is safe: its contents are new.
LEMMA OthersSafe ==
  ASSUME Inv, NEW u \in Clients \ Compactors
  PROVE  /\ Safe(u, mgr[u].uncommitted)
         /\ Changed(u) \cap DOMAIN index = {}
         /\ LiveContents(Merge(index, mgr[u].uncommitted)) = LiveContents(index) \cup Changed(u)
         /\ \A c \in DOMAIN index : Merge(index, mgr[u].uncommitted)[c] = index[c]
         /\ \A c \in Changed(u) : ~Merge(index, mgr[u].uncommitted)[c].deleted
         /\ Found = PutIn(LiveContents(index)) \ DeletedIn(LiveContents(index))
         /\ After(mgr[u].uncommitted) = (PutIn(LiveContents(index)) \cup PutIn(Changed(u)))
                                         \ (DeletedIn(LiveContents(index)) \cup DeletedIn(Changed(u)))
         /\ mgr[u].deleting = DeletedIn(Changed(u))
         /\ \A x \in PutIn(Changed(u)) : x \in OwnIDs(u) /\ x \notin StoredIDs /\ x \notin published
<1> DEFINE L == LiveContents(index)
           C == Changed(u)
<1>1. index \in Indexes /\ mgr[u].uncommitted \in Indexes
  BY ManagerFields DEF Inv, TypeInv
<1>2. C \cap DOMAIN index = {}
  <2> SUFFICES ASSUME NEW c \in C, c \in DOMAIN index PROVE FALSE
    OBVIOUS
  <2>1. PICK e \in c.entries : TRUE
    BY DEF Inv, ContentsWritten
  <2>2. e \in ChangedEntries(u) /\ e \in StoredEntries
    BY <2>1 DEF ChangedEntries, StoredEntries, EntriesOf
  <2> QED BY <2>2 DEF Inv, EntriesPrivate
<1>3. /\ DOMAIN Merge(index, mgr[u].uncommitted) = DOMAIN index \cup C
      /\ \A c \in DOMAIN index \ C : Merge(index, mgr[u].uncommitted)[c] = index[c]
      /\ \A c \in C \ DOMAIN index : Merge(index, mgr[u].uncommitted)[c] = mgr[u].uncommitted[c]
  BY <1>1, MergeFacts DEF Changed
<1>4. \A c \in C : ~mgr[u].uncommitted[c].deleted
  BY DEF Inv, ContentsWritten, LiveContents, Changed
<1>5. LiveContents(Merge(index, mgr[u].uncommitted)) = L \cup C
  BY <1>2, <1>3, <1>4 DEF LiveContents
<1>6. L \subseteq DOMAIN index
  BY DEF LiveContents
<1>7. EntriesOf(L \cup C) \subseteq AllEntries /\ EntriesOf(L) \subseteq AllEntries /\ EntriesOf(C) = ChangedEntries(u)
  <2>1. EntriesOf(L) \subseteq StoredEntries /\ EntriesOf(C) = ChangedEntries(u)
    BY <1>6 DEF EntriesOf, StoredEntries, ChangedEntries
  <2> QED BY <2>1, EntriesFacts, AllEntriesFacts
<1>8. After(mgr[u].uncommitted) = (PutIn(L) \cup PutIn(C)) \ (DeletedIn(L) \cup DeletedIn(C))
  <2>1. FoundIn(L \cup C) = PutIn(L \cup C) \ DeletedIn(L \cup C)
    BY <1>7, FoundIs DEF Inv
  <2> QED BY <1>5, <2>1, InFacts DEF After
<1>9. Found = PutIn(L) \ DeletedIn(L)
  <2>1. FoundIn(L) = PutIn(L) \ DeletedIn(L)
    BY <1>7, FoundIs DEF Inv
  <2> QED BY <2>1 DEF Found, FoundIn
<1>10. mgr[u].deleting = DeletedIn(C)
  BY DEF Inv, DeletingChanged
<1>11. \A x \in PutIn(C) : x \in OwnIDs(u) /\ x \notin StoredIDs /\ x \notin published
  <2> TAKE x \in PutIn(C)
  <2>1. PICK e \in ChangedEntries(u) : e.id = x /\ ~e.deleted
    BY <1>7 DEF PutIn, IDsOf
  <2>2. x \notin StoredIDs
    BY <2>1 DEF Inv, PutsFresh
  <2>3. x \in OwnIDs(u)
    BY <2>1 DEF OwnIDs, OwnEntries, IDsOf
  <2> QED BY <2>2, <2>3 DEF Inv, IDsPrivate
<1>12. Found \cap published = {}
  BY DEF Inv, DeletedStayDeleted
<1>13. DeletedIn(L) \cup PutIn(L) \subseteq StoredIDs
  <2>1. PutIn(L) \cup DeletedIn(L) = IDsOf(EntriesOf(L))
    BY InFacts
  <2>2. IDsOf(EntriesOf(L)) \subseteq StoredIDs
    BY <1>6 DEF IDsOf, EntriesOf, StoredIDs, StoredEntries
  <2> QED BY <2>1, <2>2
<1>14. Safe(u, mgr[u].uncommitted)
  BY <1>8, <1>9, <1>10, <1>11, <1>12, <1>13 DEF Safe
<1> QED BY <1>2, <1>3, <1>4, <1>5, <1>8, <1>9, <1>10, <1>11, <1>14

\* A manager whose changes may be published in place of those of the client: what is found once they
\* are published is the same, and so are the entries it has.
Ready(u, m) ==
  /\ m \in Manager /\ m.committedIndex = mgr[u].committedIndex
  /\ m.pendingEntries = mgr[u].pendingEntries /\ m.deleting = mgr[u].deleting
  /\ m.committedEntries \subseteq EntriesOf(Cached(u) \cup DOMAIN m.uncommitted)
  /\ EntriesOf(DOMAIN m.uncommitted) \subseteq CachedEntries(u) \cup ChangedEntries(u)
  /\ \A c \in DOMAIN m.uncommitted : c.entries # {}
  /\ u \in Compactors =>
       /\ \A c \in DOMAIN index \ Cached(u) : c \notin DOMAIN m.uncommitted
       /\ \A c \in DOMAIN m.uncommitted \cap Cached(u) : m.uncommitted[c].ts > mgr[u].committedIndex[c].ts
  /\ u \notin Compactors => m.uncommitted = mgr[u].uncommitted
  /\ After(m.uncommitted) = After(mgr[u].uncommitted)

\* Without a compaction it is the client's own.
LEMMA OwnReady == ASSUME Inv, NEW u \in Clients PROVE Ready(u, mgr[u])
<1>1. mgr[u] \in Manager
  BY ManagerFields DEF Inv
<1>2. mgr[u].committedEntries \subseteq EntriesOf(Cached(u) \cup DOMAIN mgr[u].uncommitted)
  BY EntriesFacts DEF Inv, CommittedKnown, CachedEntries, ChangedEntries, Changed
<1>3. EntriesOf(DOMAIN mgr[u].uncommitted) \subseteq CachedEntries(u) \cup ChangedEntries(u)
  BY DEF ChangedEntries, Changed
<1>4. \A c \in DOMAIN mgr[u].uncommitted : c.entries # {}
  BY DEF Inv, ContentsWritten, Changed
<1>5. u \in Compactors =>
       /\ \A c \in DOMAIN index \ Cached(u) : c \notin DOMAIN mgr[u].uncommitted
       /\ \A c \in DOMAIN mgr[u].uncommitted \cap Cached(u) : mgr[u].uncommitted[c].ts > mgr[u].committedIndex[c].ts
  BY DEF Inv, CompactorCurrent, Changed
<1> QED BY <1>1, <1>2, <1>3, <1>4, <1>5 DEF Ready

\* What is live once a compacting client has published changes.
LEMMA CompactorAfter ==
  ASSUME Inv, NEW u \in Compactors, NEW U \in Indexes,
         \A c \in DOMAIN index \ Cached(u) : c \notin DOMAIN U,
         \A c \in DOMAIN U \cap Cached(u) : U[c].ts > mgr[u].committedIndex[c].ts
  PROVE  /\ LiveContents(Merge(index, U)) = LiveContents(Overlay(mgr[u].committedIndex, U)) \cup (DOMAIN index \ Cached(u))
         /\ \A c \in DOMAIN Merge(mgr[u].committedIndex, U) : Merge(mgr[u].committedIndex, U)[c] = Merge(index, U)[c]
<1>1. u \in Clients
  BY ManifestAssumption
<1>2. PICK k \in Indexes : k = mgr[u].committedIndex
  BY <1>1, ManagerFields DEF Inv
<1>3. PICK n \in Indexes : n = index
  BY DEF Inv, TypeInv
<1>4. DOMAIN k \subseteq DOMAIN n
  BY <1>1, <1>2, <1>3 DEF Inv, CommittedKnown, Cached
<1>5. /\ \A c \in DOMAIN k : k[c] = n[c]
      /\ \A c \in DOMAIN n \ DOMAIN k : ~n[c].deleted
  BY <1>2, <1>3 DEF Inv, CompactorCurrent, Cached
<1>6. /\ \A c \in DOMAIN n \ DOMAIN k : c \notin DOMAIN U
      /\ \A c \in DOMAIN U \cap DOMAIN k : U[c].ts > k[c].ts
  BY <1>2, <1>3 DEF Cached
<1>7. /\ LiveContents(Merge(n, U)) = LiveContents(Overlay(k, U)) \cup (DOMAIN n \ DOMAIN k)
      /\ \A c \in DOMAIN Merge(k, U) : Merge(k, U)[c] = Merge(n, U)[c]
  BY <1>4, <1>5, <1>6, MergeLive
<1> QED BY <1>2, <1>3, <1>7 DEF Cached

\* Compaction leaves one live content of those the client sees, with what is found in them.
LEMMA Compaction ==
  ASSUME Inv, NEW u \in Compactors, NEW content \in Encodings(Loaded(u).committedEntries), NEW pending \in BOOLEAN,
         NEW done \in SUBSET CompactedContents(Loaded(u), content),
         NEW m, m = CompactLocked(u, Loaded(u), content, done, pending)
  PROVE  CompactedContents(Loaded(u), content) \subseteq done =>
           /\ Ready(u, m)
           /\ Changed(u) \cap Cached(u) = {} => LiveContents(m.uncommitted) \cap LiveContents(mgr[u].committedIndex) = {}
<1>1. TypeInv /\ u \in Clients
  BY ManifestAssumption DEF Inv
<1>0. /\ m \in Manager /\ Written(u, content) \in Indexes /\ content \in Content /\ done \in SUBSET Content
      /\ content.entries = Loaded(u).committedEntries
      /\ m.pendingEntries = mgr[u].pendingEntries
      /\ m.committedEntries = Loaded(u).committedEntries
      /\ m.committedIndex = mgr[u].committedIndex
      /\ m.deleting = mgr[u].deleting
      /\ m.uncommitted = DeleteContents(u, Written(u, content), done, pending)
      /\ EntriesOf(DOMAIN m.uncommitted) \subseteq CachedEntries(u) \cup ChangedEntries(u)
  BY <1>1, CompactFacts
<1> HAVE CompactedContents(Loaded(u), content) \subseteq done
<1>2. PICK K \in Indexes, U \in Indexes : K = mgr[u].committedIndex /\ U = mgr[u].uncommitted
  BY <1>1, ManagerFields
<1>3. PICK S : S = LiveContents(Seen(u))
  OBVIOUS
<1>4. PICK E : E = Loaded(u).committedEntries
  OBVIOUS
<1>5. PICK N : N = DOMAIN index \ Cached(u)
  OBVIOUS
<1>6. PICK W : W = Written(u, content)
  OBVIOUS
<1>7. PICK R : R = m.uncommitted
  OBVIOUS
<1>8. /\ E = LoadManifestContents(S) /\ S \subseteq Content /\ S \subseteq Known(u) /\ S \subseteq DOMAIN Seen(u)
      /\ done = S \ {content} /\ Seen(u) \in Indexes /\ DOMAIN Seen(u) = Known(u) /\ Seen(u) = Overlay(K, U)
      /\ DOMAIN K = Cached(u) /\ DOMAIN U = Changed(u)
  BY <1>1, <1>2, <1>3, <1>4, LoadedFacts, ManagerFields, LiveFacts DEF CompactedContents, Seen, Cached, Changed
<1>9. /\ m \in Manager /\ W \in Indexes /\ content \in Content /\ done \in SUBSET Content
      /\ content.entries = E
      /\ m.pendingEntries = mgr[u].pendingEntries
      /\ m.committedEntries = E
      /\ m.committedIndex = K
      /\ m.deleting = mgr[u].deleting
      /\ R = DeleteContents(u, W, done, pending)
      /\ EntriesOf(DOMAIN R) \subseteq CachedEntries(u) \cup ChangedEntries(u)
  BY <1>0, <1>2, <1>4, <1>6, <1>7
<1>10. /\ E = {} \/ content \in S => W = U
       /\ E # {} /\ content \notin S => /\ DOMAIN W = Changed(u) \cup {content} /\ ~W[content].deleted
                                        /\ \A d \in Changed(u) \ {content} : W[d] = U[d]
                                        /\ content \in Known(u) => W[content].ts > Seen(u)[content].ts
  BY <1>1, <1>2, <1>3, <1>4, <1>6, <1>9, WriteContentFacts DEF Written
<1>11. \A c \in Known(u) : c.entries # {}
  <2>1. Cached(u) \subseteq DOMAIN index
    BY <1>1 DEF Inv, CommittedKnown
  <2> QED BY <1>1, <2>1 DEF Inv, ContentsWritten, Known
<1>12. E = {} => content \notin S
  BY <1>8, <1>9, <1>11
<1>13. E \subseteq EntriesOf(S) /\ \A e \in E : ~e.deleted
  BY <1>8, LoadFacts DEF LoadManifestContents
<1>14. EntriesOf(S) \subseteq CachedEntries(u) \cup ChangedEntries(u)
  BY <1>8 DEF EntriesOf, Known, CachedEntries, ChangedEntries
<1>15. \A c \in N : \A e \in c.entries : ~e.deleted => e.id \notin IDsOf(EntriesOf(S))
  <2>1. IDsOf(EntriesOf(S)) \subseteq IDsOf(CachedEntries(u)) \cup IDsOf(OwnEntries(u))
    BY <1>14 DEF IDsOf, OwnEntries
  <2> QED BY <1>5, <2>1 DEF Inv, CompactorCausal
<1>16. E # {} => content \notin N
  <2> SUFFICES ASSUME E # {}, content \in N PROVE FALSE
    OBVIOUS
  <2>1. PICK e \in E : TRUE
    OBVIOUS
  <2>2. e \in content.entries /\ ~e.deleted /\ e \in EntriesOf(S)
    BY <1>9, <1>13, <2>1
  <2>3. e.id \in IDsOf(EntriesOf(S))
    BY <2>2 DEF IDsOf
  <2> QED BY <1>15, <2>2, <2>3
<1>17. /\ \A c \in Cached(u) : c \notin N /\ c \in DOMAIN index
       /\ \A c \in Changed(u) : c \notin N
       /\ \A c \in Changed(u) \cap Cached(u) : U[c].ts > K[c].ts
       /\ LiveContents(U) \cap LiveContents(K) = {}
  BY <1>1, <1>2, <1>5 DEF Inv, CommittedKnown, CompactorCurrent
<1> DEFINE O == Overlay(K, W)
           dropped == Dropped(W, done, pending)
           marked == Marked(u, W, done, pending)
           T == IF E = {} THEN {} ELSE {content}
<1>18. /\ O \in Indexes /\ DOMAIN O = Cached(u) \cup DOMAIN W
       /\ \A c \in Cached(u) \ DOMAIN W : O[c] = K[c]
       /\ \A c \in DOMAIN W : O[c] = W[c]
  <2>1. DOMAIN K = Cached(u) /\ W \in Indexes
    BY <1>8, <1>9
  <2>2. /\ O \in Indexes /\ DOMAIN O = DOMAIN K \cup DOMAIN W
        /\ \A c \in DOMAIN K \ DOMAIN W : O[c] = K[c]
        /\ \A c \in DOMAIN W : O[c] = W[c]
    BY <2>1, OverlayFacts
  <2> QED BY <2>1, <2>2
<1>19. /\ \A c \in Cached(u) \ Changed(u) : Seen(u)[c] = K[c]
       /\ \A c \in Changed(u) : Seen(u)[c] = U[c]
  <2>1. DOMAIN K = Cached(u) /\ DOMAIN U = Changed(u) /\ Seen(u) = Overlay(K, U)
    BY <1>8
  <2>2. /\ \A c \in DOMAIN K \ DOMAIN U : Overlay(K, U)[c] = K[c]
        /\ \A c \in DOMAIN U : Overlay(K, U)[c] = U[c]
    BY OverlayFacts
  <2> QED BY <2>1, <2>2
<1>20. DOMAIN W \subseteq Changed(u) \cup T /\ Changed(u) \subseteq DOMAIN W
  BY <1>8, <1>10
<1> HIDE DEF O
<1>21. LiveContents(O) = S \cup T
  <2>1. CASE E = {} \/ content \in S
    <3>1. O = Seen(u)
      BY <1>8, <1>10, <2>1 DEF O
    <3> QED BY <1>3, <2>1, <3>1
  <2>2. CASE E # {} /\ content \notin S
    <3>1. ASSUME NEW c, c # content PROVE c \in LiveContents(O) <=> c \in S
      <4>1. c \in DOMAIN O <=> c \in Known(u)
        BY <1>10, <1>18, <2>2, <3>1 DEF Known
      <4>2. c \in Known(u) => O[c] = Seen(u)[c]
        <5>1. CASE c \in Changed(u)
          BY <1>10, <1>18, <1>19, <2>2, <3>1, <5>1
        <5>2. CASE c \in Cached(u) \ Changed(u)
          BY <1>10, <1>18, <1>19, <2>2, <3>1, <5>2
        <5> QED BY <5>1, <5>2 DEF Known
      <4> QED BY <1>3, <1>8, <4>1, <4>2 DEF LiveContents
    <3>2. content \in LiveContents(O)
      BY <1>10, <1>18, <2>2 DEF LiveContents
    <3> QED BY <2>2, <3>1, <3>2
  <2> QED BY <2>1, <2>2
<1>22. dropped \subseteq done /\ dropped \subseteq LiveContents(W) /\ marked = done \ dropped
  <2>1. dropped \subseteq done /\ dropped \subseteq LiveContents(W)
    BY DEF Dropped
  <2>2. marked = (done \cap LiveContents(O)) \ dropped
    BY <1>2 DEF Marked, O
  <2> QED BY <1>8, <1>21, <2>1, <2>2
<1>23. /\ R \in Indexes /\ DOMAIN R = (DOMAIN W \cup marked) \ dropped
       /\ DOMAIN R \subseteq Cached(u) \cup DOMAIN W
       /\ \A c \in marked : c \in DOMAIN R /\ R[c].deleted /\ R[c].ts > O[c].ts
       /\ \A c \in DOMAIN R \ marked : R[c] = W[c] /\ c \in DOMAIN W
  <2>1. W \in Indexes /\ done \in SUBSET Content /\ R = DeleteContents(u, W, done, pending) /\ O = Overlay(mgr[u].committedIndex, W)
    BY <1>2, <1>9 DEF O
  <2>3. W \in Indexes /\ done \in SUBSET Content
    BY <1>9
  <2>2. /\ DeleteContents(u, W, done, pending) \in Indexes
        /\ DOMAIN DeleteContents(u, W, done, pending) = (DOMAIN W \cup marked) \ dropped
        /\ DOMAIN DeleteContents(u, W, done, pending) \subseteq Cached(u) \cup DOMAIN W
        /\ \A c \in marked : /\ c \in DOMAIN DeleteContents(u, W, done, pending)
                              /\ DeleteContents(u, W, done, pending)[c].deleted
                              /\ DeleteContents(u, W, done, pending)[c].ts > Overlay(mgr[u].committedIndex, W)[c].ts
        /\ \A c \in DOMAIN DeleteContents(u, W, done, pending) \ marked :
             DeleteContents(u, W, done, pending)[c] = W[c] /\ c \in DOMAIN W
    BY <1>1, <2>3, DeleteContentsFacts
  <2> HIDE DEF T, dropped, marked
  <2> QED BY <2>1, <2>2
<1> HIDE DEF dropped, marked
<1>24. \A c \in DOMAIN W \cap Cached(u) : W[c].ts > K[c].ts
  <2> TAKE c \in DOMAIN W \cap Cached(u)
  <2>1. CASE E = {} \/ content \in S
    BY <1>8, <1>10, <1>17, <2>1
  <2>2. CASE E # {} /\ content \notin S /\ c # content
    BY <1>10, <1>17, <2>2
  <2>3. CASE E # {} /\ content \notin S /\ c = content
    <3>1. c \in Known(u) /\ W[c].ts > Seen(u)[c].ts
      BY <1>10, <2>3 DEF Known
    <3>2. CASE c \in Changed(u)
      <4>1. Seen(u)[c] = U[c] /\ U[c].ts > K[c].ts
        BY <1>17, <1>19, <3>2
      <4>2. W[c].ts \in Nat /\ U[c].ts \in Nat /\ K[c].ts \in Nat
        BY <1>8, <1>9, <3>2, IndexFacts DEF IndexEntry
      <4> QED BY <3>1, <4>1, <4>2
    <3>3. CASE c \notin Changed(u)
      BY <1>19, <3>1, <3>3
    <3> QED BY <3>2, <3>3
  <2> QED BY <2>1, <2>2, <2>3
<1>25. \A c \in DOMAIN R \cap Cached(u) : R[c].ts > K[c].ts
  <2> TAKE c \in DOMAIN R \cap Cached(u)
  <2>1. CASE c \notin marked
    BY <1>23, <1>24, <2>1
  <2>2. CASE c \in marked /\ c \in DOMAIN W
    <3>1. R[c].ts > O[c].ts /\ O[c] = W[c] /\ W[c].ts > K[c].ts
      BY <1>18, <1>23, <1>24, <2>2
    <3>2. R[c].ts \in Nat /\ W[c].ts \in Nat /\ K[c].ts \in Nat
      BY <1>8, <1>9, <1>23, <2>2, IndexFacts DEF IndexEntry
    <3> QED BY <3>1, <3>2
  <2>3. CASE c \in marked /\ c \notin DOMAIN W
    BY <1>18, <1>23, <2>3
  <2> QED BY <2>1, <2>2, <2>3
<1>26. \A c \in N : c \notin DOMAIN R
  BY <1>16, <1>17, <1>20, <1>23
<1> DEFINE Q == Overlay(K, R)
<1>27. /\ DOMAIN Q = Cached(u) \cup DOMAIN R
       /\ \A c \in Cached(u) \ DOMAIN R : Q[c] = K[c]
       /\ \A c \in DOMAIN R : Q[c] = R[c]
  <2>1. DOMAIN K = Cached(u) /\ R \in Indexes
    BY <1>8, <1>23
  <2>2. /\ DOMAIN Q = DOMAIN K \cup DOMAIN R
        /\ \A c \in DOMAIN K \ DOMAIN R : Q[c] = K[c]
        /\ \A c \in DOMAIN R : Q[c] = R[c]
    BY <2>1, OverlayFacts
  <2> QED BY <2>1, <2>2
<1> HIDE DEF Q
<1>28. LiveContents(Q) = T
  <2>1. ASSUME NEW c \in marked PROVE c \notin LiveContents(Q)
    BY <1>23, <1>27, <2>1 DEF LiveContents
  <2>2. ASSUME NEW c \in dropped PROVE c \notin LiveContents(Q)
    <3>1. c \notin DOMAIN R /\ c # content /\ c \in LiveContents(W)
      BY <1>8, <1>22, <1>23, <2>2
    <3>2. c \in LiveContents(U)
      <4>1. c \in DOMAIN W /\ ~W[c].deleted
        BY <3>1 DEF LiveContents
      <4>2. c \in Changed(u) /\ W[c] = U[c]
        BY <1>8, <1>10, <1>20, <3>1, <4>1
      <4> QED BY <1>8, <4>1, <4>2 DEF LiveContents
    <3>3. c \notin LiveContents(K)
      BY <1>17, <3>2
    <3> QED BY <1>8, <1>27, <3>1, <3>3 DEF LiveContents
  <2>3. ASSUME NEW c, c \notin done PROVE c \in LiveContents(Q) <=> c \in LiveContents(O)
    <3>1. c \notin marked /\ c \notin dropped
      BY <1>22, <2>3
    <3>2. c \in DOMAIN R <=> c \in DOMAIN W
      BY <1>23, <3>1
    <3>3. CASE c \in DOMAIN R
      <4>1. Q[c] = O[c] /\ c \in DOMAIN Q /\ c \in DOMAIN O
        BY <1>18, <1>23, <1>27, <3>1, <3>2, <3>3
      <4> QED BY <4>1 DEF LiveContents
    <3>4. CASE c \notin DOMAIN R
      <4>1. (c \in DOMAIN Q <=> c \in Cached(u)) /\ (c \in DOMAIN O <=> c \in Cached(u)) /\ (c \in Cached(u) => Q[c] = O[c])
        BY <1>18, <1>27, <3>2, <3>4
      <4> QED BY <4>1 DEF LiveContents
    <3> QED BY <3>3, <3>4
  <2>4. \A c : c \in LiveContents(Q) <=> c \in LiveContents(O) /\ c \notin done
    BY <1>22, <2>1, <2>2, <2>3
  <2> QED BY <1>8, <1>12, <1>21, <2>4
<1>29. LiveContents(Merge(index, R)) = T \cup N
  BY <1>2, <1>5, <1>23, <1>25, <1>26, <1>28, CompactorAfter DEF Q
<1>30. LiveContents(Merge(index, U)) = S \cup N
  BY <1>2, <1>3, <1>5, <1>8, <1>17, CompactorAfter
<1>31. After(R) = After(U)
  <2>1. EntriesOf(S) \subseteq AllEntries /\ EntriesOf(T) \subseteq EntriesOf(S) /\ EntriesOf(N) \subseteq AllEntries
    <3>1. CachedEntries(u) \subseteq StoredEntries
      BY <1>1 DEF Inv, CommittedKnown, CachedEntries, StoredEntries, EntriesOf
    <3>2. EntriesOf(N) \subseteq StoredEntries
      BY <1>5 DEF StoredEntries, EntriesOf
    <3>3. EntriesOf(T) \subseteq E
      BY <1>9 DEF EntriesOf
    <3> QED BY <1>1, <1>13, <1>14, <3>1, <3>2, <3>3, AllEntriesFacts
  <2>2. EntriesOf(S \cup N) = EntriesOf(S) \cup EntriesOf(N) /\ EntriesOf(T \cup N) = EntriesOf(T) \cup EntriesOf(N)
    BY EntriesFacts
  <2>3. /\ FoundIn(S \cup N) = PutIn(S \cup N) \ DeletedIn(S \cup N)
        /\ FoundIn(T \cup N) = PutIn(T \cup N) \ DeletedIn(T \cup N)
        /\ FoundIn(S) = PutIn(S) \ DeletedIn(S)
    BY <2>1, <2>2, FoundIs DEF Inv
  <2>4. FoundIn(S) = IDsOf(E)
    BY <1>8 DEF FoundIn
  <2>5. PutIn(T) = IDsOf(E) /\ DeletedIn(T) = {}
    <3>1. EntriesOf(T) = E
      BY <1>9 DEF EntriesOf
    <3> HIDE DEF T
    <3> QED BY <1>13, <3>1 DEF PutIn, DeletedIn, IDsOf
  <2>6. PutIn(N) \cap (PutIn(S) \cup DeletedIn(S)) = {}
    <3>1. PutIn(S) \cup DeletedIn(S) = IDsOf(EntriesOf(S))
      BY InFacts
    <3>2. \A x \in PutIn(N) : x \notin IDsOf(EntriesOf(S))
      BY <1>15, InFacts
    <3> QED BY <3>1, <3>2
  <2>7. /\ PutIn(S \cup N) = PutIn(S) \cup PutIn(N) /\ DeletedIn(S \cup N) = DeletedIn(S) \cup DeletedIn(N)
        /\ PutIn(T \cup N) = PutIn(T) \cup PutIn(N) /\ DeletedIn(T \cup N) = DeletedIn(T) \cup DeletedIn(N)
    BY InFacts
  <2> HIDE DEF T
  <2>8. FoundIn(T \cup N) = FoundIn(S \cup N)
    BY <2>3, <2>4, <2>5, <2>6, <2>7
  <2> QED BY <1>29, <1>30, <2>8 DEF After
<1>32. E \subseteq EntriesOf(Cached(u) \cup DOMAIN R)
  <2>1. T \subseteq Cached(u) \cup DOMAIN R
    BY <1>27, <1>28 DEF LiveContents
  <2> QED BY <1>9, <2>1 DEF EntriesOf
<1>33. \A c \in DOMAIN R : c.entries # {}
  BY <1>9, <1>11, <1>20, <1>23 DEF Known
<1>34. Ready(u, m)
  BY <1>2, <1>5, <1>7, <1>9, <1>25, <1>26, <1>31, <1>32, <1>33 DEF Ready
<1>35. ASSUME Changed(u) \cap Cached(u) = {} PROVE LiveContents(R) \cap LiveContents(K) = {}
  <2> SUFFICES ASSUME NEW c, c \in LiveContents(R), c \in LiveContents(K) PROVE FALSE
    OBVIOUS
  <2>1. c \in DOMAIN R /\ ~R[c].deleted /\ c \in Cached(u) /\ ~K[c].deleted
    BY <1>8 DEF LiveContents
  <2>2. c \notin marked /\ c \in DOMAIN W /\ c \notin Changed(u)
    BY <1>23, <1>35, <2>1
  <2>3. c = content /\ E # {} /\ content \notin S
    BY <1>8, <1>10, <1>20, <2>2
  <2>4. Seen(u)[c] = K[c] /\ c \in DOMAIN Seen(u)
    BY <1>8, <1>19, <2>1, <2>2 DEF Known
  <2> QED BY <1>3, <2>1, <2>3, <2>4 DEF LiveContents
<1> QED BY <1>2, <1>7, <1>34, <1>35
----------------------------------------------------------------------------
(* Contents, and what publishing them would do *)

ContentInv == /\ CommittedKnown /\ ContentsWritten /\ CompactorCurrent /\ CompactorCausal /\ DeletingChanged
              /\ CompactorSafe /\ DeletedStayDeleted

\* The parts of the invariant together.
LEMMA InvParts == Inv <=> TypeInv /\ IDsTaken /\ EntryInv /\ ContentInv
  BY DEF Inv, EntryInv, ContentInv

\* Publishing nothing.
LEMMA MergeNone == ASSUME NEW n \in Indexes PROVE Merge(n, NoEntries) = n
<1>1. n = [c \in DOMAIN n |-> n[c]]
  BY IndexFacts
<1>2. DOMAIN NoEntries = {}
  BY NoEntriesFacts
<1>3. DOMAIN Merge(n, NoEntries) = DOMAIN n /\ \A c \in DOMAIN n : Merge(n, NoEntries)[c] = n[c]
  BY <1>2 DEF Merge
<1>4. Merge(n, NoEntries) = [c \in DOMAIN n |-> Merge(n, NoEntries)[c]]
  BY <1>2 DEF Merge
<1> QED BY <1>1, <1>3, <1>4

\* Steps that change neither storage nor what clients have read and changed.
LEMMA ContentsSame ==
  ASSUME Inv, UNCHANGED <<index, published, faults>>,
         \A v \in Clients : /\ mgr'[v].committedIndex = mgr[v].committedIndex /\ mgr'[v].uncommitted = mgr[v].uncommitted
                            /\ mgr'[v].deleting = mgr[v].deleting
                            /\ mgr'[v].committedEntries \subseteq CachedEntries(v) \cup ChangedEntries(v),
         \A v \in Compactors : \A c \in DOMAIN index \ Cached(v) : \A e \in c.entries :
           ~e.deleted => e.id \notin IDsOf(OwnEntries(v))'
  PROVE  ContentInv'
<1>1. \A v \in Clients : /\ Cached(v)' = Cached(v) /\ Changed(v)' = Changed(v)
                         /\ CachedEntries(v)' = CachedEntries(v) /\ ChangedEntries(v)' = ChangedEntries(v)
  BY DEF Cached, Changed, CachedEntries, ChangedEntries
<1>2. Compactors \subseteq Clients
  BY ManifestAssumption
<1>3. CommittedKnown'
  BY <1>1 DEF Inv, CommittedKnown
<1>4. ContentsWritten'
  BY <1>1 DEF Inv, ContentsWritten
<1>5. CompactorCurrent'
  BY <1>1, <1>2 DEF Inv, CompactorCurrent
<1>6. CompactorCausal'
  BY <1>1, <1>2 DEF Inv, CompactorCausal
<1>7. DeletingChanged'
  BY <1>1 DEF Inv, DeletingChanged
<1>8. DeletedStayDeleted' /\ Found' = Found
  BY DEF Inv, DeletedStayDeleted, Found
<1>9. CompactorSafe'
  <2> SUFFICES ASSUME NEW u \in Compactors PROVE Safe(u, mgr[u].uncommitted)'
    BY DEF CompactorSafe
  <2>1. Safe(u, mgr[u].uncommitted)
    BY DEF Inv, CompactorSafe
  <2>2. After(mgr[u].uncommitted)' = After(mgr[u].uncommitted) /\ mgr'[u].deleting = mgr[u].deleting
    BY <1>2 DEF After
  <2> QED BY <1>8, <2>1, <2>2 DEF Safe
<1> QED BY <1>3, <1>4, <1>5, <1>6, <1>7, <1>8, <1>9 DEF ContentInv

\* A compaction that is not published.
LEMMA ContentsCompacted ==
  ASSUME Inv, OneCompactor, NEW u \in Compactors, NEW m, Ready(u, m), mgr' = [mgr EXCEPT ![u] = m],
         UNCHANGED <<index, published>>, faults' = faults + 1,
         LiveContents(m.uncommitted) \cap LiveContents(mgr[u].committedIndex) = {}
  PROVE  ContentInv'
<1>1. u \in Clients /\ m \in Manager /\ TypeInv
  BY ManifestAssumption DEF Ready, Inv
<1>2. /\ mgr'[u] = m /\ \A v \in Clients \ {u} : mgr'[v] = mgr[v]
      /\ Cached(u)' = DOMAIN m.committedIndex /\ Changed(u)' = DOMAIN m.uncommitted
      /\ CachedEntries(u)' = EntriesOf(DOMAIN m.committedIndex)
      /\ ChangedEntries(u)' = EntriesOf(DOMAIN m.uncommitted)
      /\ OwnEntries(u)' = EntriesOf(DOMAIN m.uncommitted) \cup m.pendingEntries
  BY <1>1, ManagerUpdate
<1>3. Cached(u)' = Cached(u) /\ CachedEntries(u)' = CachedEntries(u)
  BY <1>2 DEF Ready, Cached, CachedEntries
<1>4. \A v \in Clients \ {u} : /\ Cached(v)' = Cached(v) /\ Changed(v)' = Changed(v)
                               /\ CachedEntries(v)' = CachedEntries(v) /\ ChangedEntries(v)' = ChangedEntries(v)
                               /\ mgr'[v] = mgr[v]
  BY <1>2, SameManager
<1>5. \A v \in Compactors : v = u
  BY DEF OneCompactor
<1>6. CommittedKnown'
  <2>1. m.committedEntries \subseteq CachedEntries(u)' \cup ChangedEntries(u)'
    BY <1>2, <1>3, EntriesFacts DEF Ready, CachedEntries
  <2> QED BY <1>2, <1>3, <1>4, <2>1 DEF Inv, CommittedKnown
<1>7. ContentsWritten'
  BY <1>2, <1>4 DEF Inv, ContentsWritten, Ready
<1>8. CompactorCurrent'
  <2>1. faults' # 0
    BY <1>1 DEF TypeInv
  <2>2. m.committedIndex = mgr[u].committedIndex
    BY DEF Ready
  <2>3. /\ \A c \in Cached(u) : mgr[u].committedIndex[c] = index[c]
        /\ \A c \in DOMAIN index \ Cached(u) : ~index[c].deleted /\ c \notin DOMAIN m.uncommitted
        /\ \A c \in DOMAIN m.uncommitted \cap Cached(u) : m.uncommitted[c].ts > mgr[u].committedIndex[c].ts
    BY DEF Inv, CompactorCurrent, Ready
  <2> QED BY <1>2, <1>3, <1>5, <2>1, <2>2, <2>3 DEF CompactorCurrent
<1>9. CompactorCausal'
  <2>1. IDsOf(OwnEntries(u))' \subseteq IDsOf(CachedEntries(u)) \cup IDsOf(OwnEntries(u))
    BY <1>2 DEF Ready, OwnEntries, IDsOf
  <2> QED BY <1>3, <1>5, <2>1 DEF Inv, CompactorCausal
<1>10. DeletingChanged'
  BY <1>4 DEF Inv, DeletingChanged
<1>11. DeletedStayDeleted' /\ Found' = Found
  BY DEF Inv, DeletedStayDeleted, Found
<1>12. CompactorSafe'
  <2>1. Safe(u, mgr[u].uncommitted)
    BY DEF Inv, CompactorSafe
  <2>2. After(mgr[u].uncommitted)' = After(mgr[u].uncommitted) /\ mgr'[u].deleting = mgr[u].deleting
    BY <1>2 DEF After, Ready
  <2>3. Safe(u, mgr[u].uncommitted)'
    BY <1>11, <2>1, <2>2 DEF Safe
  <2> QED BY <1>5, <2>3 DEF CompactorSafe
<1> QED BY <1>6, <1>7, <1>8, <1>9, <1>10, <1>11, <1>12 DEF ContentInv

\* Reading the indexes again.
LEMMA ContentsRefreshed ==
  ASSUME Inv, NEW u \in Clients, Refresh(u)
  PROVE  ContentInv'
<1>0. TypeInv
  BY DEF Inv
<1>1. PICK m \in Manager : /\ mgr' = [mgr EXCEPT ![u] = m] /\ m.committedIndex = index
                           /\ m.uncommitted = mgr[u].uncommitted /\ m.deleting = mgr[u].deleting
                           /\ m.pendingEntries = mgr[u].pendingEntries
                           /\ m.committedEntries = mgr[u].committedEntries
  BY <1>0, RefreshEffect
<1>2. /\ mgr'[u] = m /\ \A v \in Clients \ {u} : mgr'[v] = mgr[v]
      /\ Cached(u)' = DOMAIN index /\ Changed(u)' = Changed(u)
      /\ CachedEntries(u)' = StoredEntries /\ ChangedEntries(u)' = ChangedEntries(u)
      /\ OwnEntries(u)' = OwnEntries(u)
  BY <1>0, <1>1, ManagerUpdate DEF Changed, ChangedEntries, OwnEntries, StoredEntries
<1>3. index' = index /\ published' = published /\ faults' = faults
  BY DEF Refresh
<1>4. \A v \in Clients \ {u} : /\ Cached(v)' = Cached(v) /\ Changed(v)' = Changed(v)
                               /\ CachedEntries(v)' = CachedEntries(v) /\ ChangedEntries(v)' = ChangedEntries(v)
                               /\ mgr'[v] = mgr[v] /\ OwnEntries(v)' = OwnEntries(v)
  BY <1>2, SameManager
<1>5. Compactors \subseteq Clients
  BY ManifestAssumption
<1>6. CommittedKnown'
  <2>1. CachedEntries(u) \subseteq StoredEntries
    BY DEF Inv, CommittedKnown, CachedEntries, StoredEntries, EntriesOf
  <2>2. Cached(u)' \subseteq DOMAIN index' /\ mgr'[u].committedEntries \subseteq CachedEntries(u)' \cup ChangedEntries(u)'
    BY <1>1, <1>2, <1>3, <2>1 DEF Inv, CommittedKnown
  <2> QED BY <1>3, <1>4, <2>2 DEF Inv, CommittedKnown
<1>7. ContentsWritten'
  BY <1>1, <1>2, <1>3, <1>4 DEF Inv, ContentsWritten
<1>8. CompactorCurrent'
  <2> SUFFICES ASSUME NEW w \in Compactors
               PROVE  /\ \A c \in Cached(w)' : mgr'[w].committedIndex[c] = index'[c]
                      /\ \A c \in DOMAIN index' \ Cached(w)' : ~index'[c].deleted /\ c \notin Changed(w)'
                      /\ \A c \in Changed(w)' \cap Cached(w)' : mgr'[w].uncommitted[c].ts > mgr'[w].committedIndex[c].ts
                      /\ LiveContents(mgr'[w].uncommitted) \cap LiveContents(mgr'[w].committedIndex) = {}
                      /\ faults' = 0 => Changed(w)' \cap Cached(w)' = {}
    BY DEF CompactorCurrent
  <2>1. /\ \A c \in Cached(w) : mgr[w].committedIndex[c] = index[c]
        /\ \A c \in DOMAIN index \ Cached(w) : ~index[c].deleted /\ c \notin Changed(w)
        /\ \A c \in Changed(w) \cap Cached(w) : mgr[w].uncommitted[c].ts > mgr[w].committedIndex[c].ts
        /\ LiveContents(mgr[w].uncommitted) \cap LiveContents(mgr[w].committedIndex) = {}
        /\ faults = 0 => Changed(w) \cap Cached(w) = {}
    BY DEF Inv, CompactorCurrent
  <2>2. CASE w # u
    BY <1>3, <1>4, <1>5, <2>1, <2>2
  <2>3. CASE w = u
    <3>1. \A c \in Changed(u) \cap DOMAIN index : c \in Cached(u)
      BY <2>1, <2>3
    <3>2. LiveContents(mgr[u].uncommitted) \cap LiveContents(index) = {}
      BY <2>1, <2>3, <3>1 DEF LiveContents, Changed, Cached
    <3> QED BY <1>1, <1>2, <1>3, <2>1, <2>3, <3>1, <3>2
  <2> QED BY <2>2, <2>3
<1>9. CompactorCausal'
  BY <1>2, <1>3, <1>4, <1>5 DEF Inv, CompactorCausal
<1>10. DeletingChanged'
  BY <1>1, <1>2, <1>4 DEF Inv, DeletingChanged
<1>11. DeletedStayDeleted' /\ Found' = Found
  BY <1>3 DEF Inv, DeletedStayDeleted, Found
<1>12. CompactorSafe'
  <2> SUFFICES ASSUME NEW w \in Compactors PROVE Safe(w, mgr[w].uncommitted)'
    BY DEF CompactorSafe
  <2>1. Safe(w, mgr[w].uncommitted)
    BY DEF Inv, CompactorSafe
  <2>2. mgr'[w].uncommitted = mgr[w].uncommitted /\ mgr'[w].deleting = mgr[w].deleting
    BY <1>1, <1>2, <1>4, <1>5
  <2>3. After(mgr[w].uncommitted)' = After(mgr[w].uncommitted)
    BY <1>3, <2>2 DEF After
  <2> QED BY <1>3, <1>11, <2>1, <2>2, <2>3 DEF Safe
<1> QED BY <1>6, <1>7, <1>8, <1>9, <1>10, <1>11, <1>12 DEF ContentInv

\* A restart.
LEMMA ContentsCrashed ==
  ASSUME Inv, NEW u \in Clients, Crash(u)
  PROVE  ContentInv'
<1>0. TypeInv
  BY DEF Inv
<1>1. PICK m \in Manager : /\ mgr' = [mgr EXCEPT ![u] = m] /\ m.committedIndex = index
                           /\ m.uncommitted = NoEntries /\ m.deleting = {} /\ m.pendingEntries = {} /\ m.committedEntries = {}
  BY <1>0, NewManagerFacts DEF Crash
<1>2. /\ mgr'[u] = m /\ \A v \in Clients \ {u} : mgr'[v] = mgr[v]
      /\ Cached(u)' = DOMAIN index /\ Changed(u)' = {}
  BY <1>0, <1>1, ManagerUpdate, NoEntriesFacts
<1>3. index' = index /\ published' = published /\ faults' = faults + 1
  BY DEF Crash
<1>4. \A v \in Clients \ {u} : /\ Cached(v)' = Cached(v) /\ Changed(v)' = Changed(v)
                               /\ CachedEntries(v)' = CachedEntries(v) /\ ChangedEntries(v)' = ChangedEntries(v)
                               /\ mgr'[v] = mgr[v] /\ OwnEntries(v)' = OwnEntries(v)
  BY <1>2, SameManager
<1>5. Compactors \subseteq Clients
  BY ManifestAssumption
<1>6. CommittedKnown'
  BY <1>1, <1>2, <1>3, <1>4 DEF Inv, CommittedKnown
<1>13. LiveContents(NoEntries) = {}
  BY NoEntriesFacts DEF LiveContents
<1>7. ContentsWritten'
  BY <1>1, <1>2, <1>3, <1>4, <1>13 DEF Inv, ContentsWritten
<1>8. CompactorCurrent'
  <2> SUFFICES ASSUME NEW w \in Compactors
               PROVE  /\ \A c \in Cached(w)' : mgr'[w].committedIndex[c] = index'[c]
                      /\ \A c \in DOMAIN index' \ Cached(w)' : ~index'[c].deleted /\ c \notin Changed(w)'
                      /\ \A c \in Changed(w)' \cap Cached(w)' : mgr'[w].uncommitted[c].ts > mgr'[w].committedIndex[c].ts
                      /\ LiveContents(mgr'[w].uncommitted) \cap LiveContents(mgr'[w].committedIndex) = {}
                      /\ faults' = 0 => Changed(w)' \cap Cached(w)' = {}
    BY DEF CompactorCurrent
  <2>1. faults' # 0
    BY <1>0, <1>3 DEF TypeInv
  <2>2. CASE w # u
    BY <1>3, <1>4, <1>5, <2>1, <2>2 DEF Inv, CompactorCurrent
  <2>3. CASE w = u
    BY <1>1, <1>2, <1>3, <1>13, <2>3
  <2> QED BY <2>2, <2>3
<1>9. CompactorCausal'
  BY <1>2, <1>3, <1>4, <1>5 DEF Inv, CompactorCausal
<1>10. DeletingChanged'
  <2>1. DeletedIn({}) = {}
    BY InFacts
  <2> QED BY <1>1, <1>2, <1>4, <2>1 DEF Inv, DeletingChanged
<1>11. DeletedStayDeleted' /\ Found' = Found
  BY <1>3 DEF Inv, DeletedStayDeleted, Found
<1>12. CompactorSafe'
  <2> SUFFICES ASSUME NEW w \in Compactors PROVE Safe(w, mgr[w].uncommitted)'
    BY DEF CompactorSafe
  <2>1. Safe(w, mgr[w].uncommitted)
    BY DEF Inv, CompactorSafe
  <2>2. CASE w # u
    <3>1. mgr'[w] = mgr[w]
      BY <1>4, <1>5, <2>2
    <3>2. After(mgr[w].uncommitted)' = After(mgr[w].uncommitted)
      BY <1>3, <3>1 DEF After
    <3> QED BY <1>3, <1>11, <2>1, <3>1, <3>2 DEF Safe
  <2>3. CASE w = u
    <3>1. Merge(index, NoEntries) = index
      BY <1>0, MergeNone DEF TypeInv
    <3>2. After(mgr[w].uncommitted)' = Found
      BY <1>1, <1>2, <1>3, <2>3, <3>1 DEF After, Found, FoundIn
    <3> QED BY <1>1, <1>2, <1>3, <1>11, <2>3, <3>2 DEF Safe, DeletedStayDeleted
  <2> QED BY <2>2, <2>3
<1> QED BY <1>6, <1>7, <1>8, <1>9, <1>10, <1>11, <1>12 DEF ContentInv

\* Writing the pending entries as a content, which is new.
LEMMA ContentsFlushed ==
  ASSUME Inv, OneCompactor, NEW u \in Clients, Flush(u)
  PROVE  ContentInv'
<1>0. TypeInv
  BY DEF Inv
<1> DEFINE P == mgr[u].pendingEntries
           U == mgr[u].uncommitted
           K == mgr[u].committedIndex
<1>1. PICK m \in Manager, content \in Content :
        /\ mgr' = [mgr EXCEPT ![u] = m]
        /\ content.entries = P /\ P # {}
        /\ m.uncommitted = WriteContent(u, content) /\ m.pendingEntries = {}
        /\ m.committedIndex = K
        /\ m.deleting = mgr[u].deleting \cup IDsOf({e \in P : e.deleted})
        /\ m.committedEntries \subseteq mgr[u].committedEntries \cup P
  BY <1>0, FlushEffect
<1>2. content \notin DOMAIN index /\ content \notin Changed(u) /\ content \notin Cached(u)
  <2>1. PICK e \in content.entries : TRUE
    BY <1>1
  <2>2. e \notin StoredEntries /\ e \notin ChangedEntries(u)
    BY <1>1, <2>1 DEF Inv, EntriesPrivate
  <2>3. content \notin DOMAIN index /\ content \notin Changed(u)
    BY <2>1, <2>2 DEF StoredEntries, ChangedEntries, EntriesOf
  <2> QED BY <2>3 DEF Inv, CommittedKnown
<1>3. /\ DOMAIN m.uncommitted = Changed(u) \cup {content} /\ ~m.uncommitted[content].deleted
      /\ \A d \in Changed(u) : m.uncommitted[d] = U[d]
      /\ m.uncommitted \in Indexes
  <2>1. content \notin LiveContents(Seen(u))
    BY <1>0, <1>2, ManagerFields DEF LiveContents, Known
  <2> QED BY <1>0, <1>1, <1>2, <2>1, WriteContentFacts
<1>4. /\ mgr'[u] = m /\ \A v \in Clients \ {u} : mgr'[v] = mgr[v]
      /\ Cached(u)' = Cached(u) /\ Changed(u)' = Changed(u) \cup {content}
      /\ CachedEntries(u)' = CachedEntries(u)
      /\ ChangedEntries(u)' = OwnEntries(u) /\ OwnEntries(u)' = OwnEntries(u)
  <2>1. /\ mgr'[u] = m /\ \A v \in Clients \ {u} : mgr'[v] = mgr[v]
        /\ Cached(u)' = DOMAIN m.committedIndex /\ Changed(u)' = DOMAIN m.uncommitted
        /\ CachedEntries(u)' = EntriesOf(DOMAIN m.committedIndex)
        /\ ChangedEntries(u)' = EntriesOf(DOMAIN m.uncommitted)
        /\ OwnEntries(u)' = EntriesOf(DOMAIN m.uncommitted) \cup m.pendingEntries
    BY <1>0, <1>1, ManagerUpdate
  <2>2. EntriesOf(Changed(u) \cup {content}) = EntriesOf(Changed(u)) \cup content.entries
    BY DEF EntriesOf
  <2> QED BY <1>1, <1>3, <2>1, <2>2 DEF Cached, CachedEntries, ChangedEntries, OwnEntries
<1>5. index' = index /\ published' = published /\ faults' = faults
  BY DEF Flush
<1>6. \A v \in Clients \ {u} : /\ Cached(v)' = Cached(v) /\ Changed(v)' = Changed(v)
                               /\ CachedEntries(v)' = CachedEntries(v) /\ ChangedEntries(v)' = ChangedEntries(v)
                               /\ mgr'[v] = mgr[v] /\ OwnEntries(v)' = OwnEntries(v)
  BY <1>4, SameManager
<1>7. Compactors \subseteq Clients
  BY ManifestAssumption
<1>8. CommittedKnown'
  <2>1. Cached(u)' \subseteq DOMAIN index' /\ mgr'[u].committedEntries \subseteq CachedEntries(u)' \cup ChangedEntries(u)'
    BY <1>1, <1>4, <1>5 DEF Inv, CommittedKnown, OwnEntries
  <2> QED BY <1>5, <1>6, <2>1 DEF Inv, CommittedKnown
<1>9. ContentsWritten'
  <2>1. u \notin Compactors => LiveContents(m.uncommitted) = DOMAIN m.uncommitted
    BY <1>3 DEF Inv, ContentsWritten, LiveContents, Changed
  <2>2. \A c \in Changed(u)' : c.entries # {}
    BY <1>1, <1>4 DEF Inv, ContentsWritten
  <2>3. u \notin Compactors => LiveContents(mgr'[u].uncommitted) = Changed(u)'
    BY <1>3, <1>4, <2>1
  <2> QED BY <1>5, <1>6, <2>2, <2>3 DEF Inv, ContentsWritten
<1>10. CompactorCurrent'
  <2> SUFFICES ASSUME NEW w \in Compactors
               PROVE  /\ \A c \in Cached(w)' : mgr'[w].committedIndex[c] = index'[c]
                      /\ \A c \in DOMAIN index' \ Cached(w)' : ~index'[c].deleted /\ c \notin Changed(w)'
                      /\ \A c \in Changed(w)' \cap Cached(w)' : mgr'[w].uncommitted[c].ts > mgr'[w].committedIndex[c].ts
                      /\ LiveContents(mgr'[w].uncommitted) \cap LiveContents(mgr'[w].committedIndex) = {}
                      /\ faults' = 0 => Changed(w)' \cap Cached(w)' = {}
    BY DEF CompactorCurrent
  <2>1. /\ \A c \in Cached(w) : mgr[w].committedIndex[c] = index[c]
        /\ \A c \in DOMAIN index \ Cached(w) : ~index[c].deleted /\ c \notin Changed(w)
        /\ \A c \in Changed(w) \cap Cached(w) : mgr[w].uncommitted[c].ts > mgr[w].committedIndex[c].ts
        /\ LiveContents(mgr[w].uncommitted) \cap LiveContents(mgr[w].committedIndex) = {}
        /\ faults = 0 => Changed(w) \cap Cached(w) = {}
    BY DEF Inv, CompactorCurrent
  <2>2. CASE w # u
    BY <1>5, <1>6, <1>7, <2>1, <2>2
  <2>3. CASE w = u
    <3>1. LiveContents(m.uncommitted) \subseteq LiveContents(U) \cup {content}
      BY <1>3 DEF LiveContents, Changed
    <3>2. content \notin LiveContents(K)
      BY <1>2 DEF LiveContents, Cached
    <3>3. LiveContents(m.uncommitted) \cap LiveContents(K) = {}
      BY <2>1, <2>3, <3>1, <3>2
    <3> QED BY <1>1, <1>2, <1>3, <1>4, <1>5, <2>1, <2>3, <3>3
  <2> QED BY <2>2, <2>3
<1>11. CompactorCausal'
  BY <1>4, <1>5, <1>6, <1>7 DEF Inv, CompactorCausal
<1>12. IDsOf({e \in P : e.deleted}) = DeletedIn({content}) /\ IDsOf({e \in P : ~e.deleted}) = PutIn({content})
  <2>1. EntriesOf({content}) = P
    BY <1>1, EntriesFacts
  <2> QED BY <2>1 DEF DeletedIn, PutIn
<1>13. DeletingChanged'
  <2>1. DeletedIn(Changed(u) \cup {content}) = DeletedIn(Changed(u)) \cup DeletedIn({content})
    BY InFacts
  <2>2. u \notin Compactors => mgr'[u].deleting = DeletedIn(Changed(u)')
    BY <1>1, <1>4, <1>12, <2>1 DEF Inv, DeletingChanged
  <2> QED BY <1>6, <2>2 DEF Inv, DeletingChanged
<1>14. DeletedStayDeleted' /\ Found' = Found
  BY <1>5 DEF Inv, DeletedStayDeleted, Found
<1>15. CompactorSafe'
  <2> SUFFICES ASSUME NEW w \in Compactors PROVE Safe(w, mgr[w].uncommitted)'
    BY DEF CompactorSafe
  <2>1. Safe(w, mgr[w].uncommitted)
    BY DEF Inv, CompactorSafe
  <2>2. CASE w # u
    <3>1. mgr'[w] = mgr[w]
      BY <1>6, <1>7, <2>2
    <3>2. After(mgr[w].uncommitted)' = After(mgr[w].uncommitted)
      BY <1>5, <3>1 DEF After
    <3> QED BY <1>5, <1>14, <2>1, <3>1, <3>2 DEF Safe
  <2>3. CASE w = u
    <3> DEFINE A == LiveContents(Merge(index, U))
               B == LiveContents(Merge(index, m.uncommitted))
    <3>1. B = A \cup {content}
      <4>1. DOMAIN Merge(index, U) = DOMAIN index \cup Changed(u)
        BY DEF Merge, Changed
      <4>2. DOMAIN Merge(index, m.uncommitted) = DOMAIN index \cup Changed(u) \cup {content}
        BY <1>3 DEF Merge
      <4>3. \A c \in DOMAIN index \cup Changed(u) : Merge(index, m.uncommitted)[c] = Merge(index, U)[c]
        BY <1>2, <1>3 DEF Merge, Changed
      <4>4. Merge(index, m.uncommitted)[content] = m.uncommitted[content]
        BY <1>2, <1>3 DEF Merge
      <4> QED BY <1>2, <1>3, <4>1, <4>2, <4>3, <4>4 DEF LiveContents
    <3>2. EntriesOf(A) \subseteq AllEntries /\ EntriesOf(B) \subseteq AllEntries
      <4>1. A \subseteq DOMAIN index \cup Changed(u)
        BY DEF LiveContents, Merge, Changed
      <4>2. EntriesOf(A) \subseteq StoredEntries \cup ChangedEntries(u)
        BY <4>1 DEF EntriesOf, StoredEntries, ChangedEntries
      <4> HIDE DEF A, B
      <4>3. EntriesOf(B) = EntriesOf(A) \cup P
        BY <1>1, <3>1 DEF EntriesOf
      <4> QED BY <4>2, <4>3, AllEntriesFacts DEF OwnEntries
    <3> HIDE DEF A, B
    <3>3. FoundIn(A) = PutIn(A) \ DeletedIn(A) /\ FoundIn(B) = PutIn(B) \ DeletedIn(B)
      BY <3>2, FoundIs DEF Inv
    <3>4. PutIn(B) = PutIn(A) \cup PutIn({content}) /\ DeletedIn(B) = DeletedIn(A) \cup DeletedIn({content})
      BY <3>1, InFacts
    <3>5. \A x \in PutIn({content}) : x \notin published /\ x \notin mgr[u].deleting
      <4> TAKE x \in PutIn({content})
      <4>1. PICK e \in P : e.id = x /\ ~e.deleted
        BY <1>12 DEF IDsOf
      <4> QED BY <4>1 DEF Inv, PutsFresh
    <3>6. After(U) = FoundIn(A) /\ After(mgr[u].uncommitted)' = FoundIn(B)
      BY <1>4, <1>5 DEF After, A, B
    <3>7. /\ FoundIn(A) \cap (published \cup mgr[u].deleting) = {}
          /\ Found \ mgr[u].deleting \subseteq FoundIn(A)
      BY <2>1, <2>3, <3>6 DEF Safe
    <3>8. mgr'[u].deleting = mgr[u].deleting \cup DeletedIn({content})
      BY <1>1, <1>4, <1>12
    <3>9. /\ FoundIn(B) \cap (published \cup mgr'[u].deleting) = {}
          /\ Found \ mgr'[u].deleting \subseteq FoundIn(B)
      BY <3>3, <3>4, <3>5, <3>7, <3>8
    <3> QED BY <1>5, <1>14, <2>3, <3>6, <3>9 DEF Safe
  <2> QED BY <2>2, <2>3
<1> QED BY <1>8, <1>9, <1>10, <1>11, <1>13, <1>14, <1>15 DEF ContentInv

\* Publishing: what is found changes as the abstract store says.
LEMMA ContentsPublished ==
  ASSUME Inv, OneCompactor, NEW u \in Clients, NEW m, Ready(u, m), Publish(u, m), faults' = faults
  PROVE  /\ ContentInv' /\ published' = published \cup mgr[u].deleting
         /\ Found' \cap published' = {} /\ Found \ mgr[u].deleting \subseteq Found'
<1>0. TypeInv /\ m \in Manager /\ m.uncommitted \in Indexes /\ index \in Indexes
  BY DEF Inv, Ready, Manager, TypeInv
<1>1. PICK n \in Manager :
        /\ mgr' = [mgr EXCEPT ![u] = n]
        /\ index' = Merge(index, m.uncommitted) /\ index' \in Indexes
        /\ DOMAIN index' = DOMAIN index \cup DOMAIN m.uncommitted
        /\ n.committedIndex = Merge(m.committedIndex, m.uncommitted) /\ n.uncommitted = NoEntries
        /\ DOMAIN n.committedIndex = DOMAIN m.committedIndex \cup DOMAIN m.uncommitted
        /\ n.pendingEntries = m.pendingEntries /\ n.committedEntries = m.committedEntries
        /\ n.deleting = {} /\ published' = published \cup m.deleting
  BY <1>0, PublishEffect
<1>2. /\ m.committedIndex = mgr[u].committedIndex
      /\ m.pendingEntries = mgr[u].pendingEntries /\ m.deleting = mgr[u].deleting
      /\ m.committedEntries \subseteq EntriesOf(Cached(u) \cup DOMAIN m.uncommitted)
      /\ EntriesOf(DOMAIN m.uncommitted) \subseteq CachedEntries(u) \cup ChangedEntries(u)
      /\ \A c \in DOMAIN m.uncommitted : c.entries # {}
      /\ u \in Compactors =>
           /\ \A c \in DOMAIN index \ Cached(u) : c \notin DOMAIN m.uncommitted
           /\ \A c \in DOMAIN m.uncommitted \cap Cached(u) : m.uncommitted[c].ts > mgr[u].committedIndex[c].ts
      /\ u \notin Compactors => m.uncommitted = mgr[u].uncommitted
      /\ After(m.uncommitted) = After(mgr[u].uncommitted)
  BY DEF Ready
<1>3. /\ mgr'[u] = n /\ \A v \in Clients \ {u} : mgr'[v] = mgr[v]
      /\ Cached(u)' = Cached(u) \cup DOMAIN m.uncommitted /\ Changed(u)' = {}
      /\ CachedEntries(u)' = EntriesOf(Cached(u) \cup DOMAIN m.uncommitted)
      /\ OwnEntries(u)' = mgr[u].pendingEntries
  <2>1. /\ mgr'[u] = n /\ \A v \in Clients \ {u} : mgr'[v] = mgr[v]
        /\ Cached(u)' = DOMAIN n.committedIndex /\ Changed(u)' = DOMAIN n.uncommitted
        /\ CachedEntries(u)' = EntriesOf(DOMAIN n.committedIndex)
        /\ OwnEntries(u)' = EntriesOf(DOMAIN n.uncommitted) \cup n.pendingEntries
    BY <1>0, <1>1, ManagerUpdate
  <2>2. DOMAIN n.committedIndex = Cached(u) \cup DOMAIN m.uncommitted
    BY <1>1, <1>2 DEF Cached
  <2>3. DOMAIN n.uncommitted = {} /\ EntriesOf({}) = {}
    BY <1>1, NoEntriesFacts, EntriesFacts
  <2> QED BY <1>1, <1>2, <2>1, <2>2, <2>3
<1>4. \A v \in Clients \ {u} : /\ Cached(v)' = Cached(v) /\ Changed(v)' = Changed(v)
                               /\ CachedEntries(v)' = CachedEntries(v) /\ ChangedEntries(v)' = ChangedEntries(v)
                               /\ mgr'[v] = mgr[v] /\ OwnEntries(v)' = OwnEntries(v)
  BY <1>3, SameManager
<1>5. Compactors \subseteq Clients
  BY ManifestAssumption
<1>6. \A w \in Compactors : w # u => u \in Clients \ Compactors
  BY DEF OneCompactor
<1>7. LiveContents(NoEntries) = {} /\ DeletedIn({}) = {}
  BY NoEntriesFacts, InFacts DEF LiveContents
<1>8. Safe(u, mgr[u].uncommitted)
  BY OthersSafe DEF Inv, CompactorSafe
<1>9. Found' = After(mgr[u].uncommitted)
  BY <1>1, <1>2 DEF After, Found, FoundIn
<1>10. published' = published \cup mgr[u].deleting
  BY <1>1, <1>2
<1>11. Found' \cap published' = {} /\ Found \ mgr[u].deleting \subseteq Found'
  BY <1>8, <1>9, <1>10 DEF Safe
<1>12. CommittedKnown'
  <2>1. Cached(u)' \subseteq DOMAIN index'
    BY <1>1, <1>3 DEF Inv, CommittedKnown
  <2>2. mgr'[u].committedEntries \subseteq CachedEntries(u)'
    BY <1>1, <1>2, <1>3
  <2>3. \A v \in Clients \ {u} : /\ Cached(v)' \subseteq DOMAIN index'
                                 /\ mgr'[v].committedEntries \subseteq CachedEntries(v)' \cup ChangedEntries(v)'
    BY <1>1, <1>4 DEF Inv, CommittedKnown
  <2> QED BY <2>1, <2>2, <2>3 DEF CommittedKnown
<1>13. ContentsWritten'
  <2>1. \A c \in DOMAIN index' : c.entries # {}
    BY <1>1, <1>2 DEF Inv, ContentsWritten
  <2>2. LiveContents(mgr'[u].uncommitted) = Changed(u)'
    BY <1>1, <1>3, <1>7
  <2> QED BY <1>3, <1>4, <2>1, <2>2 DEF Inv, ContentsWritten
<1>14. ASSUME NEW w \in Compactors, w # u
       PROVE  /\ \A c \in DOMAIN index : index'[c] = index[c]
              /\ \A c \in Changed(u) : ~index'[c].deleted /\ c \notin Changed(w) /\ c \notin Cached(w) /\ c \notin DOMAIN index
              /\ DOMAIN index' = DOMAIN index \cup Changed(u)
  <2>1. u \in Clients \ Compactors /\ m.uncommitted = mgr[u].uncommitted
    BY <1>2, <1>6, <1>14
  <2>2. /\ \A c \in DOMAIN index : index'[c] = index[c]
        /\ \A c \in Changed(u) : ~index'[c].deleted
        /\ Changed(u) \cap DOMAIN index = {}
        /\ DOMAIN index' = DOMAIN index \cup Changed(u)
    BY <1>1, <2>1, OthersSafe DEF Changed
  <2>3. Cached(w) \subseteq DOMAIN index
    BY <1>5 DEF Inv, CommittedKnown
  <2>4. ASSUME NEW c \in Changed(u) PROVE c \notin Changed(w)
    <3>1. PICK e \in c.entries : TRUE
      BY DEF Inv, ContentsWritten
    <3>2. e \in OwnEntries(u) /\ (c \in Changed(w) => e \in OwnEntries(w))
      BY <3>1 DEF OwnEntries, ChangedEntries, EntriesOf
    <3> QED BY <1>5, <1>14, <3>2 DEF Inv, EntriesPrivate
  <2> QED BY <2>2, <2>3, <2>4
<1>15. CompactorCurrent'
  <2> SUFFICES ASSUME NEW w \in Compactors
               PROVE  /\ \A c \in Cached(w)' : mgr'[w].committedIndex[c] = index'[c]
                      /\ \A c \in DOMAIN index' \ Cached(w)' : ~index'[c].deleted /\ c \notin Changed(w)'
                      /\ \A c \in Changed(w)' \cap Cached(w)' : mgr'[w].uncommitted[c].ts > mgr'[w].committedIndex[c].ts
                      /\ LiveContents(mgr'[w].uncommitted) \cap LiveContents(mgr'[w].committedIndex) = {}
                      /\ faults' = 0 => Changed(w)' \cap Cached(w)' = {}
    BY DEF CompactorCurrent
  <2>1. /\ \A c \in Cached(w) : mgr[w].committedIndex[c] = index[c]
        /\ \A c \in DOMAIN index \ Cached(w) : ~index[c].deleted /\ c \notin Changed(w)
        /\ \A c \in Changed(w) \cap Cached(w) : mgr[w].uncommitted[c].ts > mgr[w].committedIndex[c].ts
        /\ LiveContents(mgr[w].uncommitted) \cap LiveContents(mgr[w].committedIndex) = {}
        /\ faults = 0 => Changed(w) \cap Cached(w) = {}
    BY DEF Inv, CompactorCurrent
  <2>2. CASE w # u
    <3>1. Cached(w) \subseteq DOMAIN index /\ Cached(w)' = Cached(w) /\ Changed(w)' = Changed(w) /\ mgr'[w] = mgr[w]
      BY <1>4, <1>5, <2>2 DEF Inv, CommittedKnown
    <3> QED BY <1>14, <2>1, <2>2, <3>1
  <2>3. CASE w = u
    <3>1. \A c \in DOMAIN Merge(mgr[u].committedIndex, m.uncommitted) :
            Merge(mgr[u].committedIndex, m.uncommitted)[c] = Merge(index, m.uncommitted)[c]
      BY <1>0, <1>2, <2>3, CompactorAfter
    <3>2. \A c \in Cached(w)' : mgr'[w].committedIndex[c] = index'[c]
      <4>1. mgr'[w].committedIndex = Merge(mgr[u].committedIndex, m.uncommitted)
        BY <1>1, <1>2, <1>3, <2>3
      <4>2. Cached(w)' = DOMAIN Merge(mgr[u].committedIndex, m.uncommitted)
        BY <4>1 DEF Cached
      <4> QED BY <1>1, <3>1, <4>1, <4>2
    <3>3. \A c \in DOMAIN index' \ Cached(w)' : ~index'[c].deleted
      <4> TAKE c \in DOMAIN index' \ Cached(w)'
      <4>1. c \in DOMAIN index \ Cached(u) /\ c \notin DOMAIN m.uncommitted
        BY <1>1, <1>3, <2>3
      <4>2. Merge(index, m.uncommitted)[c] = index[c]
        BY <4>1 DEF Merge
      <4> QED BY <1>1, <2>1, <2>3, <4>1, <4>2
    <3>4. Changed(w)' = {} /\ LiveContents(mgr'[w].uncommitted) = {}
      BY <1>1, <1>3, <1>7, <2>3
    <3> QED BY <3>2, <3>3, <3>4
  <2> QED BY <2>2, <2>3
<1>16. CompactorCausal'
  <2> SUFFICES ASSUME NEW w \in Compactors, NEW c \in DOMAIN index' \ Cached(w)', NEW e \in c.entries, ~e.deleted
               PROVE  e.id \notin IDsOf(CachedEntries(w))' \cup IDsOf(OwnEntries(w))'
    BY DEF CompactorCausal
  <2>1. CASE w = u
    <3>1. c \in DOMAIN index \ Cached(u)
      BY <1>1, <1>3, <2>1
    <3>2. EntriesOf(Cached(u) \cup DOMAIN m.uncommitted) = CachedEntries(u) \cup EntriesOf(DOMAIN m.uncommitted)
      BY EntriesFacts DEF CachedEntries
    <3>3. CachedEntries(u)' \subseteq CachedEntries(u) \cup OwnEntries(u) /\ OwnEntries(u)' \subseteq OwnEntries(u)
      BY <1>2, <1>3, <3>2 DEF OwnEntries
    <3>4. IDsOf(CachedEntries(u))' \cup IDsOf(OwnEntries(u))' \subseteq IDsOf(CachedEntries(u)) \cup IDsOf(OwnEntries(u))
      BY <3>3 DEF IDsOf
    <3> QED BY <2>1, <3>1, <3>4 DEF Inv, CompactorCausal
  <2>2. CASE w # u
    <3>1. CachedEntries(w)' = CachedEntries(w) /\ OwnEntries(w)' = OwnEntries(w) /\ Cached(w)' = Cached(w)
      BY <1>4, <1>5, <2>2
    <3>2. CASE c \in DOMAIN index
      BY <3>1, <3>2 DEF Inv, CompactorCausal
    <3>3. CASE c \in Changed(u)
      <4>1. e \in ChangedEntries(u) /\ e.id \in OwnIDs(u)
        BY <3>3 DEF ChangedEntries, OwnIDs, OwnEntries, EntriesOf, IDsOf
      <4>2. e.id \notin StoredIDs
        BY <1>6, <2>2, <4>1 DEF Inv, PutsFresh
      <4>3. IDsOf(CachedEntries(w)) \subseteq StoredIDs
        BY <1>5 DEF Inv, CommittedKnown, CachedEntries, StoredIDs, StoredEntries, EntriesOf, IDsOf
      <4>4. OwnIDs(u) \cap OwnIDs(w) \subseteq StoredIDs /\ IDsOf(OwnEntries(w)) \subseteq OwnIDs(w)
        BY <1>5, <2>2 DEF Inv, IDsPrivate, OwnIDs
      <4> QED BY <3>1, <4>1, <4>2, <4>3, <4>4
    <3> QED BY <1>14, <2>2, <3>2, <3>3
  <2> QED BY <2>1, <2>2
<1>17. DeletingChanged'
  BY <1>1, <1>3, <1>4, <1>7 DEF Inv, DeletingChanged
<1>18. CompactorSafe'
  <2> SUFFICES ASSUME NEW w \in Compactors PROVE Safe(w, mgr[w].uncommitted)'
    BY DEF CompactorSafe
  <2>1. CASE w = u
    <3>1. Merge(index', NoEntries) = index'
      BY <1>1, MergeNone
    <3>2. After(mgr[w].uncommitted)' = Found'
      BY <1>1, <1>3, <2>1, <3>1 DEF After, Found, FoundIn
    <3> QED BY <1>1, <1>3, <1>11, <2>1, <3>2 DEF Safe
  <2>2. CASE w # u
    <3> DEFINE A == LiveContents(Merge(index, mgr[w].uncommitted))
               C == Changed(u)
               L == LiveContents(index)
    <3>1. /\ u \in Clients \ Compactors /\ w \in Clients /\ mgr'[w] = mgr[w] /\ Cached(w)' = Cached(w) /\ Changed(w)' = Changed(w)
          /\ Cached(w) \subseteq DOMAIN index
      BY <1>4, <1>5, <1>6, <2>2 DEF Inv, CommittedKnown
    <3>2. PICK k \in Indexes, d \in Indexes : k = mgr[w].committedIndex /\ d = mgr[w].uncommitted
      BY <1>0, <3>1, ManagerFields
    <3>3. DOMAIN k = Cached(w) /\ DOMAIN d = Changed(w)
      BY <3>2 DEF Cached, Changed
    <3>4. A = LiveContents(Overlay(k, d)) \cup (DOMAIN index \ DOMAIN k)
      <4>1. /\ \A c \in DOMAIN index \ Cached(w) : c \notin DOMAIN d
            /\ \A c \in DOMAIN d \cap Cached(w) : d[c].ts > mgr[w].committedIndex[c].ts
        BY <3>2, <3>3 DEF Inv, CompactorCurrent
      <4> QED BY <3>2, <3>3, <4>1, CompactorAfter
    <3>5. LiveContents(Merge(index', d)) = LiveContents(Overlay(k, d)) \cup (DOMAIN index' \ DOMAIN k)
      <4>1. PICK i \in Indexes : i = index'
        BY <1>1
      <4>2. /\ \A c \in Cached(w) : mgr'[w].committedIndex[c] = index'[c]
            /\ \A c \in DOMAIN index' \ Cached(w) : ~index'[c].deleted /\ c \notin Changed(w)
            /\ \A c \in Changed(w) \cap Cached(w) : mgr'[w].uncommitted[c].ts > mgr'[w].committedIndex[c].ts
        BY <1>15, <3>1 DEF CompactorCurrent
      <4>3. /\ DOMAIN k \subseteq DOMAIN i /\ \A c \in DOMAIN k : k[c] = i[c]
            /\ \A c \in DOMAIN i \ DOMAIN k : ~i[c].deleted /\ c \notin DOMAIN d
            /\ \A c \in DOMAIN d \cap DOMAIN k : d[c].ts > k[c].ts
        BY <1>1, <3>1, <3>2, <3>3, <4>1, <4>2
      <4>4. LiveContents(Merge(i, d)) = LiveContents(Overlay(k, d)) \cup (DOMAIN i \ DOMAIN k)
        BY <4>3, MergeLive
      <4> QED BY <4>1, <4>4
    <3>6. LiveContents(Merge(index', d)) = A \cup C
      BY <1>14, <2>2, <3>1, <3>3, <3>4, <3>5
    <3>7. EntriesOf(A) \subseteq StoredEntries \cup ChangedEntries(w) /\ EntriesOf(C) = ChangedEntries(u)
      <4>1. A \subseteq DOMAIN index \cup Changed(w)
        BY DEF LiveContents, Merge, Changed
      <4> QED BY <4>1 DEF EntriesOf, StoredEntries, ChangedEntries
    <3> HIDE DEF A, C
    <3>8. EntriesOf(A) \subseteq AllEntries /\ EntriesOf(A \cup C) \subseteq AllEntries
      BY <3>1, <3>7, AllEntriesFacts, EntriesFacts
    <3>9. FoundIn(A) = PutIn(A) \ DeletedIn(A) /\ FoundIn(A \cup C) = PutIn(A \cup C) \ DeletedIn(A \cup C)
      BY <3>8, FoundIs DEF Inv
    <3>10. PutIn(A \cup C) = PutIn(A) \cup PutIn(C) /\ DeletedIn(A \cup C) = DeletedIn(A) \cup DeletedIn(C)
      BY InFacts
    <3>11. After(mgr[w].uncommitted)' = FoundIn(A \cup C)
      BY <3>1, <3>2, <3>6 DEF After
    <3>12. /\ FoundIn(A) \cap (published \cup mgr[w].deleting) = {}
           /\ Found \ mgr[w].deleting \subseteq FoundIn(A)
      BY DEF Inv, CompactorSafe, Safe, After, A
    <3>13. /\ Found = PutIn(L) \ DeletedIn(L)
           /\ Found' = (PutIn(L) \cup PutIn(C)) \ (DeletedIn(L) \cup DeletedIn(C))
           /\ mgr[u].deleting = DeletedIn(C)
           /\ \A x \in PutIn(C) : x \in OwnIDs(u) /\ x \notin StoredIDs /\ x \notin published
      BY <1>9, <3>1, OthersSafe DEF C
    <3>14. OwnIDs(u) \cap OwnIDs(w) \subseteq StoredIDs
      BY <2>2, <3>1 DEF Inv, IDsPrivate
    <3>15. DeletedIn(A) \subseteq StoredIDs \cup OwnIDs(w) /\ mgr[w].deleting \subseteq OwnIDs(w)
      <4>1. DeletedIn(A) \subseteq IDsOf(EntriesOf(A))
        BY InFacts
      <4>2. IDsOf(EntriesOf(A)) \subseteq StoredIDs \cup OwnIDs(w)
        BY <3>7 DEF IDsOf, StoredIDs, OwnIDs, OwnEntries
      <4> QED BY <4>1, <4>2 DEF OwnIDs
    <3> HIDE DEF L
    <3>16. FoundIn(A \cup C) \cap (published \cup mgr[u].deleting \cup mgr[w].deleting) = {}
      BY <3>9, <3>10, <3>12, <3>13, <3>14, <3>15
    <3>17. Found' \ mgr[w].deleting \subseteq FoundIn(A \cup C)
      BY <3>9, <3>10, <3>12, <3>13, <3>14, <3>15
    <3> QED BY <1>10, <3>1, <3>11, <3>16, <3>17 DEF Safe
  <2> QED BY <2>1, <2>2
<1>19. DeletedStayDeleted'
  BY <1>11 DEF DeletedStayDeleted
<1> QED BY <1>10, <1>11, <1>12, <1>13, <1>15, <1>16, <1>17, <1>18, <1>19 DEF ContentInv
----------------------------------------------------------------------------
(* The steps *)

\* One step of the abstract store.
StoreStep == \E puts, deletes \in SUBSET IDs : /\ puts \cap (Found \cup published) = {}
                                               /\ Found' = (Found \cup puts) \ deletes
                                               /\ published' = published \cup deletes

\* What a client has read is in storage.
LEMMA CachedStored == ASSUME Inv, NEW u \in Clients PROVE CachedEntries(u) \subseteq StoredEntries
  BY DEF Inv, CommittedKnown, CachedEntries, StoredEntries, EntriesOf

\* Put and Delete.
LEMMA PutKeeps == ASSUME Inv, NEW u \in Clients, NEW id \in IDs, Put(u, id)
                  PROVE  EntryInv' /\ ContentInv' /\ Found' = Found /\ published' = published
<1>0. TypeInv /\ IDsTaken /\ EntryInv
  BY InvParts
<1>1. PICK e \in ManifestEntry :
        /\ e.id = id /\ e.modTime = changes + 1 /\ ~e.deleted
        /\ mgr[u].pendingEntries \cup {e} \in SUBSET ManifestEntry
        /\ mgr' = [mgr EXCEPT ![u].pendingEntries = mgr[u].pendingEntries \cup {e}]
  BY <1>0, PutEffect
<1>2. PICK P \in SUBSET ManifestEntry : P = mgr[u].pendingEntries \cup {e}
  BY <1>1
<1>3. id \notin taken /\ changes' = changes + 1 /\ UNCHANGED <<index, now, faults, published>>
  BY DEF Put
<1>4. EntryInv'
  BY <1>0, <1>1, <1>2, <1>3, EntriesAdd
<1>5. /\ \A v \in Clients \ {u} : mgr'[v] = mgr[v]
      /\ mgr'[u].committedEntries = mgr[u].committedEntries /\ mgr'[u].deleting = mgr[u].deleting
      /\ mgr'[u].uncommitted = mgr[u].uncommitted /\ mgr'[u].committedIndex = mgr[u].committedIndex
      /\ OwnEntries(u)' = ChangedEntries(u) \cup P
  BY <1>0, <1>1, <1>2, PendingUpdate
<1>6. \A v \in Clients : /\ mgr'[v].committedIndex = mgr[v].committedIndex /\ mgr'[v].uncommitted = mgr[v].uncommitted
                         /\ mgr'[v].deleting = mgr[v].deleting
                         /\ mgr'[v].committedEntries \subseteq CachedEntries(v) \cup ChangedEntries(v)
  BY <1>5 DEF Inv, CommittedKnown
<1>7. \A v \in Compactors : \A c \in DOMAIN index \ Cached(v) : \A f \in c.entries :
        ~f.deleted => f.id \notin IDsOf(OwnEntries(v))'
  <2> SUFFICES ASSUME NEW v \in Compactors, NEW c \in DOMAIN index \ Cached(v), NEW f \in c.entries, ~f.deleted
               PROVE  f.id \notin IDsOf(OwnEntries(v))'
    OBVIOUS
  <2>1. f.id \notin IDsOf(OwnEntries(v))
    BY DEF Inv, CompactorCausal
  <2>2. f.id \in taken
    BY <1>0 DEF IDsTaken, StoredIDs, StoredEntries, EntriesOf, IDsOf
  <2>3. CASE v = u
    BY <1>1, <1>2, <1>3, <1>5, <2>1, <2>2, <2>3 DEF OwnEntries, IDsOf
  <2>4. CASE v # u
    <3>1. OwnEntries(v)' = OwnEntries(v)
      BY <1>5, <2>4, SameManager, ManifestAssumption
    <3> QED BY <2>1, <3>1
  <2> QED BY <2>3, <2>4
<1>8. ContentInv'
  BY <1>3, <1>6, <1>7, ContentsSame
<1> QED BY <1>3, <1>4, <1>8 DEF Found

\* A deletion is of a manifest the client knows.
LEMMA DeleteKeeps == ASSUME Inv, NEW u \in Clients, NEW id \in IDs, Delete(u, id)
                     PROVE  EntryInv' /\ ContentInv' /\ Found' = Found /\ published' = published
<1>0. TypeInv /\ IDsTaken /\ EntryInv
  BY InvParts
<1>1. PICK e \in ManifestEntry :
        /\ e.id = id /\ e.modTime = changes + 1 /\ e.deleted
        /\ {f \in mgr[u].pendingEntries : f.id # id} \cup {e} \in SUBSET ManifestEntry
        /\ mgr' = [mgr EXCEPT ![u].pendingEntries = {f \in mgr[u].pendingEntries : f.id # id} \cup {e}]
  BY <1>0, DeleteEffect
<1>2. PICK P \in SUBSET ManifestEntry : P = {f \in mgr[u].pendingEntries : f.id # id} \cup {e}
  BY <1>1
<1>3. /\ changes' = changes + 1 /\ UNCHANGED <<index, now, faults, published>>
      /\ id \in IDsOf(mgr[u].pendingEntries \cup mgr[u].committedEntries)
  BY DEF Delete
<1>9. mgr[u].committedEntries \subseteq CachedEntries(u) \cup ChangedEntries(u)
  BY DEF Inv, CommittedKnown
<1>10. id \in IDsOf(CachedEntries(u)) \cup IDsOf(OwnEntries(u))
  BY <1>3, <1>9 DEF IDsOf, OwnEntries
<1>11. id \in StoredIDs \cup OwnIDs(u)
  <2>1. IDsOf(CachedEntries(u)) \subseteq StoredIDs
    BY CachedStored DEF IDsOf, StoredIDs
  <2> QED BY <1>10, <2>1 DEF OwnIDs
<1>4. EntryInv'
  <2>1. e \in P /\ P \subseteq mgr[u].pendingEntries \cup {e} /\ mgr' = [mgr EXCEPT ![u].pendingEntries = P]
    BY <1>1, <1>2
  <2> QED BY <1>0, <1>1, <1>3, <1>11, <2>1, EntriesAdd
<1>5. /\ \A v \in Clients \ {u} : mgr'[v] = mgr[v]
      /\ mgr'[u].committedEntries = mgr[u].committedEntries /\ mgr'[u].deleting = mgr[u].deleting
      /\ mgr'[u].uncommitted = mgr[u].uncommitted /\ mgr'[u].committedIndex = mgr[u].committedIndex
      /\ OwnEntries(u)' = ChangedEntries(u) \cup P
  BY <1>0, <1>1, <1>2, PendingUpdate
<1>6. \A v \in Clients : /\ mgr'[v].committedIndex = mgr[v].committedIndex /\ mgr'[v].uncommitted = mgr[v].uncommitted
                         /\ mgr'[v].deleting = mgr[v].deleting
                         /\ mgr'[v].committedEntries \subseteq CachedEntries(v) \cup ChangedEntries(v)
  BY <1>5 DEF Inv, CommittedKnown
<1>7. \A v \in Compactors : \A c \in DOMAIN index \ Cached(v) : \A f \in c.entries :
        ~f.deleted => f.id \notin IDsOf(OwnEntries(v))'
  <2> SUFFICES ASSUME NEW v \in Compactors, NEW c \in DOMAIN index \ Cached(v), NEW f \in c.entries, ~f.deleted
               PROVE  f.id \notin IDsOf(OwnEntries(v))'
    OBVIOUS
  <2>1. f.id \notin IDsOf(CachedEntries(v)) \cup IDsOf(OwnEntries(v))
    BY DEF Inv, CompactorCausal
  <2>2. CASE v = u
    <3>1. IDsOf(OwnEntries(u))' \subseteq IDsOf(OwnEntries(u)) \cup {id}
      BY <1>1, <1>2, <1>5 DEF OwnEntries, IDsOf
    <3> QED BY <1>10, <2>1, <2>2, <3>1
  <2>3. CASE v # u
    <3>1. OwnEntries(v)' = OwnEntries(v)
      BY <1>5, <2>3, SameManager, ManifestAssumption
    <3> QED BY <2>1, <3>1
  <2> QED BY <2>2, <2>3
<1>8. ContentInv'
  BY <1>3, <1>6, <1>7, ContentsSame
<1> QED BY <1>3, <1>4, <1>8 DEF Found

\* Loading what is committed.
LEMMA LoadKeeps == ASSUME Inv, OneCompactor, NEW u \in Clients, EnsureInitialized(u)
                   PROVE  EntryInv' /\ ContentInv' /\ Found' = Found /\ published' = published
<1>0. TypeInv /\ EntryInv
  BY InvParts
<1>1. PICK m \in Manager : m = Loaded(u)
  BY <1>0, LoadedFacts
<1>2. mgr' = [mgr EXCEPT ![u] = m] /\ UNCHANGED <<index, now, changes, faults, taken, published>>
  BY <1>1 DEF EnsureInitialized
<1>3. /\ m.committedIndex = mgr[u].committedIndex /\ m.uncommitted = mgr[u].uncommitted
      /\ m.pendingEntries = mgr[u].pendingEntries /\ m.deleting = mgr[u].deleting
      /\ m.committedEntries \subseteq CachedEntries(u) \cup ChangedEntries(u)
  BY <1>0, <1>1, LoadedFacts
<1>4. /\ mgr'[u] = m /\ \A v \in Clients \ {u} : mgr'[v] = mgr[v]
      /\ ChangedEntries(u)' = ChangedEntries(u) /\ OwnEntries(u)' = OwnEntries(u) /\ StoredEntries' = StoredEntries
  BY <1>0, <1>2, <1>3, ManagerUpdate DEF ChangedEntries, Changed, OwnEntries, StoredEntries
<1>5. EntryInv'
  <2>1. ChangedEntries(u) \subseteq OwnEntries(u) /\ mgr[u].deleting \subseteq OwnIDs(u) /\ published' \ published = {}
    BY <1>2 DEF OwnEntries, OwnIDs
  <2> QED BY <1>0, <1>2, <1>3, <1>4, <2>1, EntriesMove
<1>6. \A v \in Clients : OwnEntries(v)' = OwnEntries(v)
  BY <1>4, SameManager
<1>7. ContentInv'
  <2>1. \A v \in Clients : /\ mgr'[v].committedIndex = mgr[v].committedIndex /\ mgr'[v].uncommitted = mgr[v].uncommitted
                           /\ mgr'[v].deleting = mgr[v].deleting
                           /\ mgr'[v].committedEntries \subseteq CachedEntries(v) \cup ChangedEntries(v)
    BY <1>3, <1>4 DEF Inv, CommittedKnown
  <2>2. \A v \in Compactors : \A c \in DOMAIN index \ Cached(v) : \A f \in c.entries :
          ~f.deleted => f.id \notin IDsOf(OwnEntries(v))'
    BY <1>6, ManifestAssumption DEF Inv, CompactorCausal
  <2> QED BY <1>2, <2>1, <2>2, ContentsSame
<1> QED BY <1>2, <1>5, <1>7 DEF Found

\* A compaction that fails in the flush.
LEMMA FailsKeeps == ASSUME Inv, OneCompactor, DeletesFail = FALSE, MaxFaults <= 1 \/ FailsFromClean,
                           NEW u \in Clients, AutoCompactFails(u)
                    PROVE  EntryInv' /\ ContentInv' /\ Found' = Found /\ published' = published
<1>0. TypeInv /\ EntryInv /\ u \in Compactors
  BY InvParts DEF AutoCompactFails, TooManyContents
<1>1. PICK content \in Encodings(Loaded(u).committedEntries), pending \in BOOLEAN :
        mgr' = [mgr EXCEPT ![u] = CompactLocked(u, Loaded(u), content, CompactedContents(Loaded(u), content), pending)]
  BY DEF AutoCompactFails
<1>2. PICK done \in SUBSET CompactedContents(Loaded(u), content) : done = CompactedContents(Loaded(u), content)
  OBVIOUS
<1>3. PICK m : m = CompactLocked(u, Loaded(u), content, done, pending)
  OBVIOUS
<1>4. CompactedContents(Loaded(u), content) \subseteq done
  BY <1>2
<1>5. /\ Ready(u, m)
      /\ Changed(u) \cap Cached(u) = {} => LiveContents(m.uncommitted) \cap LiveContents(mgr[u].committedIndex) = {}
  BY <1>0, <1>3, <1>4, Compaction
<1>6. mgr' = [mgr EXCEPT ![u] = m] /\ faults' = faults + 1 /\ UNCHANGED <<index, now, changes, taken, published>>
  BY <1>1, <1>2, <1>3 DEF AutoCompactFails
<1>7. Changed(u) \cap Cached(u) = {}
  <2>1. CASE FailsFromClean
    BY <2>1 DEF FailsFromClean
  <2>2. CASE MaxFaults <= 1
    <3>1. faults = 0
      BY <1>0, <2>2, ManifestAssumption DEF AutoCompactFails, TypeInv
    <3> QED BY <1>0, <3>1 DEF Inv, CompactorCurrent
  <2> QED BY <2>1, <2>2
<1>8. ContentInv'
  BY <1>0, <1>5, <1>6, <1>7, ContentsCompacted
<1>9. /\ mgr'[u] = m /\ \A v \in Clients \ {u} : mgr'[v] = mgr[v]
      /\ ChangedEntries(u)' = EntriesOf(DOMAIN m.uncommitted) /\ StoredEntries' = StoredEntries
  BY <1>0, <1>5, <1>6, ManagerUpdate DEF Ready, StoredEntries
<1>10. EntryInv'
  <2>1. /\ EntriesOf(DOMAIN m.uncommitted) \subseteq StoredEntries \cup ChangedEntries(u)
        /\ m.pendingEntries = mgr[u].pendingEntries /\ m.deleting = mgr[u].deleting
    BY <1>5, CachedStored DEF Ready
  <2>2. ChangedEntries(u) \subseteq OwnEntries(u) /\ mgr[u].deleting \subseteq OwnIDs(u)
    BY DEF OwnEntries, OwnIDs
  <2> QED BY <1>0, <1>6, <1>9, <2>1, <2>2, EntriesMove
<1> QED BY <1>6, <1>8, <1>10 DEF Found

\* Writing the pending entries.
LEMMA FlushKeeps == ASSUME Inv, OneCompactor, NEW u \in Clients, Flush(u)
                    PROVE  EntryInv' /\ ContentInv' /\ Found' = Found /\ published' = published
<1>0. TypeInv /\ EntryInv
  BY InvParts
<1>1. PICK m \in Manager, content \in Content :
        /\ mgr' = [mgr EXCEPT ![u] = m]
        /\ content.entries = mgr[u].pendingEntries /\ mgr[u].pendingEntries # {}
        /\ m.uncommitted = WriteContent(u, content) /\ m.pendingEntries = {}
        /\ m.committedIndex = mgr[u].committedIndex
        /\ m.deleting = mgr[u].deleting \cup IDsOf({e \in mgr[u].pendingEntries : e.deleted})
        /\ m.committedEntries \subseteq mgr[u].committedEntries \cup mgr[u].pendingEntries
  BY <1>0, FlushEffect
<1>2. DOMAIN m.uncommitted \subseteq Changed(u) \cup {content}
  BY <1>0, <1>1, WriteContentFacts DEF Changed
<1>3. EntriesOf(DOMAIN m.uncommitted) \subseteq OwnEntries(u)
  BY <1>1, <1>2 DEF EntriesOf, ChangedEntries, OwnEntries
<1>4. index' = index /\ changes' = changes /\ published' = published
  BY DEF Flush
<1>5. /\ mgr'[u] = m /\ \A v \in Clients \ {u} : mgr'[v] = mgr[v]
      /\ ChangedEntries(u)' = EntriesOf(DOMAIN m.uncommitted) /\ StoredEntries' = StoredEntries
  BY <1>0, <1>1, <1>4, ManagerUpdate DEF StoredEntries
<1>6. m.deleting \subseteq OwnIDs(u)
  BY <1>1 DEF OwnIDs, OwnEntries, IDsOf
<1>7. EntryInv'
  BY <1>0, <1>1, <1>3, <1>4, <1>5, <1>6, EntriesMove
<1> QED BY <1>4, <1>7, ContentsFlushed DEF Found

\* Publishing.
LEMMA PublishKeeps ==
  ASSUME Inv, OneCompactor, NEW u \in Clients, NEW m, Ready(u, m), Publish(u, m), UNCHANGED <<now, changes, faults, taken>>
  PROVE  EntryInv' /\ ContentInv' /\ StoreStep
<1>0. TypeInv /\ EntryInv /\ m \in Manager
  BY InvParts DEF Ready
<1>1. PICK n \in Manager :
        /\ mgr' = [mgr EXCEPT ![u] = n]
        /\ index' = Merge(index, m.uncommitted) /\ index' \in Indexes
        /\ DOMAIN index' = DOMAIN index \cup DOMAIN m.uncommitted
        /\ n.committedIndex = Merge(m.committedIndex, m.uncommitted) /\ n.uncommitted = NoEntries
        /\ DOMAIN n.committedIndex = DOMAIN m.committedIndex \cup DOMAIN m.uncommitted
        /\ n.pendingEntries = m.pendingEntries /\ n.committedEntries = m.committedEntries
        /\ n.deleting = {} /\ published' = published \cup m.deleting
  BY <1>0, PublishEffect
<1>2. /\ ContentInv' /\ published' = published \cup mgr[u].deleting
      /\ Found' \cap published' = {} /\ Found \ mgr[u].deleting \subseteq Found'
  BY ContentsPublished
<1>3. StoredEntries' = StoredEntries \cup EntriesOf(DOMAIN m.uncommitted)
  BY <1>1 DEF StoredEntries, EntriesOf
<1>4. mgr'[u] = n /\ ChangedEntries(u)' = {} /\ \A v \in Clients \ {u} : mgr'[v] = mgr[v]
  <2>1. /\ mgr'[u] = n /\ \A v \in Clients \ {u} : mgr'[v] = mgr[v]
        /\ ChangedEntries(u)' = EntriesOf(DOMAIN n.uncommitted)
    BY <1>0, <1>1, ManagerUpdate
  <2>2. EntriesOf(DOMAIN n.uncommitted) = {}
    BY <1>1, NoEntriesFacts, EntriesFacts
  <2> QED BY <2>1, <2>2
<1>5. EntriesOf(DOMAIN m.uncommitted) \subseteq StoredEntries \cup ChangedEntries(u) /\ m.pendingEntries = mgr[u].pendingEntries
  BY CachedStored DEF Ready
<1>6. u \notin Compactors => published' \ published \subseteq StoredIDs'
  <2> SUFFICES ASSUME u \notin Compactors PROVE mgr[u].deleting \subseteq StoredIDs'
    BY <1>2
  <2>1. DOMAIN m.uncommitted = Changed(u) /\ mgr[u].deleting = DeletedIn(Changed(u))
    BY DEF Ready, Changed, Inv, DeletingChanged
  <2>2. EntriesOf(Changed(u)) \subseteq StoredEntries'
    BY <1>3, <2>1
  <2> QED BY <2>1, <2>2 DEF DeletedIn, StoredIDs, IDsOf
<1>7. EntryInv'
  <2>1. changes' = changes /\ mgr'[u].deleting = {} /\ mgr'[u].pendingEntries = mgr[u].pendingEntries
    BY <1>1, <1>4, <1>5
  <2>2. StoredEntries \subseteq StoredEntries' /\ StoredEntries' \subseteq StoredEntries \cup ChangedEntries(u)
    BY <1>3, <1>5
  <2>3. published' \subseteq published \cup mgr[u].deleting
    BY <1>2
  <2> QED BY <1>0, <1>4, <1>6, <2>1, <2>2, <2>3, EntriesMove
<1>8. StoreStep
  <2> DEFINE puts == Found' \ Found
             deletes == mgr[u].deleting
  <2>2. Found' \subseteq IDs
    <3>1. PICK i \in Indexes : i = index'
      BY <1>1
    <3>2. LoadManifestContents(LiveContents(i)) \subseteq ManifestEntry
      BY LiveFacts, LoadFacts
    <3> QED BY <3>1, <3>2 DEF Found, IDsOf, ManifestEntry
  <2>3. puts \in SUBSET IDs /\ deletes \in SUBSET IDs
    BY <1>0, <2>2, ManagerFields
  <2>4. puts \cap (Found \cup published) = {} /\ Found' = (Found \cup puts) \ deletes /\ published' = published \cup deletes
    BY <1>2
  <2> QED BY <2>3, <2>4 DEF StoreStep
<1> QED BY <1>2, <1>7, <1>8

\* A flush of the content manager, and a compaction with its flush.
LEMMA FlushContentsKeeps == ASSUME Inv, OneCompactor, NEW u \in Clients, FlushContents(u) PROVE EntryInv' /\ ContentInv' /\ StoreStep
<1>1. PICK m : m = mgr[u]
  OBVIOUS
<1>2. Ready(u, m) /\ Publish(u, m) /\ UNCHANGED <<now, changes, faults, taken>>
  BY <1>1, OwnReady DEF FlushContents
<1> QED BY <1>2, PublishKeeps

\* A compaction with its flush.
LEMMA AutoCompactKeeps == ASSUME Inv, OneCompactor, NEW u \in Clients, AutoCompact(u) PROVE EntryInv' /\ ContentInv' /\ StoreStep
<1>0. u \in Compactors
  BY DEF AutoCompact, TooManyContents
<1>1. PICK content \in Encodings(Loaded(u).committedEntries), pending \in BOOLEAN :
        Publish(u, CompactLocked(u, Loaded(u), content, CompactedContents(Loaded(u), content), pending))
  BY DEF AutoCompact
<1>2. PICK done \in SUBSET CompactedContents(Loaded(u), content) : done = CompactedContents(Loaded(u), content)
  OBVIOUS
<1>3. PICK m : m = CompactLocked(u, Loaded(u), content, done, pending)
  OBVIOUS
<1>4. CompactedContents(Loaded(u), content) \subseteq done
  BY <1>2
<1>5. Ready(u, m)
  BY <1>0, <1>3, <1>4, Compaction
<1>6. Publish(u, m) /\ UNCHANGED <<now, changes, faults, taken>>
  BY <1>1, <1>2, <1>3 DEF AutoCompact
<1> QED BY <1>5, <1>6, PublishKeeps

\* Reading the indexes again.
LEMMA RefreshKeeps == ASSUME Inv, OneCompactor, NEW u \in Clients, Refresh(u)
                      PROVE  EntryInv' /\ ContentInv' /\ Found' = Found /\ published' = published
<1>0. TypeInv /\ EntryInv
  BY InvParts
<1>1. PICK m \in Manager : /\ mgr' = [mgr EXCEPT ![u] = m] /\ m.committedIndex = index
                           /\ m.uncommitted = mgr[u].uncommitted /\ m.deleting = mgr[u].deleting
                           /\ m.pendingEntries = mgr[u].pendingEntries
                           /\ m.committedEntries = mgr[u].committedEntries
  BY <1>0, RefreshEffect
<1>2. index' = index /\ changes' = changes /\ published' = published
  BY DEF Refresh
<1>3. /\ mgr'[u] = m /\ \A v \in Clients \ {u} : mgr'[v] = mgr[v]
      /\ ChangedEntries(u)' = ChangedEntries(u) /\ StoredEntries' = StoredEntries
  BY <1>0, <1>1, <1>2, ManagerUpdate DEF ChangedEntries, Changed, StoredEntries
<1>4. ChangedEntries(u) \subseteq OwnEntries(u) /\ mgr[u].deleting \subseteq OwnIDs(u) /\ published' \ published = {}
  BY <1>2 DEF OwnEntries, OwnIDs
<1>5. EntryInv'
  BY <1>0, <1>1, <1>2, <1>3, <1>4, EntriesMove
<1> QED BY <1>2, <1>5, ContentsRefreshed DEF Found

\* A restart.
LEMMA CrashKeeps == ASSUME Inv, OneCompactor, NEW u \in Clients, Crash(u)
                    PROVE  EntryInv' /\ ContentInv' /\ Found' = Found /\ published' = published
<1>0. TypeInv /\ EntryInv
  BY InvParts
<1>1. PICK m \in Manager : /\ mgr' = [mgr EXCEPT ![u] = m] /\ m.committedIndex = index
                           /\ m.uncommitted = NoEntries /\ m.deleting = {} /\ m.pendingEntries = {}
  BY <1>0, NewManagerFacts DEF Crash
<1>2. index' = index /\ changes' = changes /\ published' = published
  BY DEF Crash
<1>3. /\ mgr'[u] = m /\ \A v \in Clients \ {u} : mgr'[v] = mgr[v]
      /\ ChangedEntries(u)' = {} /\ StoredEntries' = StoredEntries
  <2>1. /\ mgr'[u] = m /\ \A v \in Clients \ {u} : mgr'[v] = mgr[v]
        /\ ChangedEntries(u)' = EntriesOf(DOMAIN m.uncommitted)
    BY <1>0, <1>1, ManagerUpdate
  <2>2. EntriesOf(DOMAIN m.uncommitted) = {}
    BY <1>1, NoEntriesFacts, EntriesFacts
  <2> QED BY <1>2, <2>1, <2>2 DEF StoredEntries
<1>4. EntryInv'
  BY <1>0, <1>1, <1>2, <1>3, EntriesMove
<1> QED BY <1>2, <1>4, ContentsCrashed DEF Found

\* Steps of the clock, and none.
LEMMA QuietKeeps == ASSUME Inv, UNCHANGED <<index, mgr, changes, faults, taken, published>>
                    PROVE  EntryInv' /\ ContentInv' /\ Found' = Found /\ published' = published
<1>0. /\ \A v : OwnEntries(v)' = OwnEntries(v) /\ ChangedEntries(v)' = ChangedEntries(v) /\ OwnIDs(v)' = OwnIDs(v)
      /\ StoredEntries' = StoredEntries /\ StoredIDs' = StoredIDs
  BY SameManager DEF StoredEntries, StoredIDs
<1>1. EntryInv'
  <2>1. AllEntries' = AllEntries
    BY <1>0 DEF AllEntries
  <2>2. EntriesOrdered'
    BY <1>0, <2>1 DEF Inv, EntriesOrdered
  <2>3. EntriesPrivate'
    BY <1>0 DEF Inv, EntriesPrivate
  <2>4. IDsPrivate'
    BY <1>0 DEF Inv, IDsPrivate
  <2>5. PutsFresh'
    BY <1>0 DEF Inv, PutsFresh
  <2> QED BY <2>2, <2>3, <2>4, <2>5 DEF EntryInv
<1>2. ContentInv'
  <2>1. \A v \in Clients : /\ mgr'[v].committedIndex = mgr[v].committedIndex /\ mgr'[v].uncommitted = mgr[v].uncommitted
                           /\ mgr'[v].deleting = mgr[v].deleting
                           /\ mgr'[v].committedEntries \subseteq CachedEntries(v) \cup ChangedEntries(v)
    BY DEF Inv, CommittedKnown
  <2>2. \A v \in Compactors : \A c \in DOMAIN index \ Cached(v) : \A f \in c.entries :
          ~f.deleted => f.id \notin IDsOf(OwnEntries(v))'
    BY <1>0, ManifestAssumption DEF Inv, CompactorCausal
  <2> QED BY <2>1, <2>2, ContentsSame
<1> QED BY <1>1, <1>2 DEF Found

\* Initially there is nothing.
LEMMA InvInit == Init => Inv
<1> SUFFICES ASSUME Init PROVE Inv
  OBVIOUS
<1>1. TypeInv /\ IDsTaken
  BY TypeInit
<1>2. DOMAIN index = {} /\ DOMAIN NoEntries = {} /\ EntriesOf({}) = {} /\ IDsOf({}) = {} /\ DeletedIn({}) = {}
  <2>1. DOMAIN index = {} /\ DOMAIN NoEntries = {}
    BY NoEntriesFacts DEF Init
  <2>2. EntriesOf({}) = {} /\ IDsOf({}) = {}
    BY EntriesFacts DEF IDsOf
  <2>3. DeletedIn({}) = {}
    BY <2>2 DEF DeletedIn
  <2> QED BY <2>1, <2>2, <2>3
<1>3. \A u \in Clients : /\ mgr[u].pendingEntries = {} /\ mgr[u].committedEntries = {} /\ mgr[u].deleting = {}
                         /\ mgr[u].committedIndex = index /\ mgr[u].uncommitted = NoEntries
  BY DEF Init, NewManager
<1>4. \A u \in Clients : /\ Cached(u) = {} /\ Changed(u) = {} /\ CachedEntries(u) = {} /\ ChangedEntries(u) = {}
                         /\ OwnEntries(u) = {} /\ OwnIDs(u) = {}
  BY <1>2, <1>3 DEF Cached, Changed, CachedEntries, ChangedEntries, OwnEntries, OwnIDs
<1>5. StoredEntries = {} /\ StoredIDs = {} /\ published = {}
  BY <1>2 DEF StoredEntries, StoredIDs, Init
<1>6. EntryInv
  <2>1. AllEntries = {}
    BY <1>4, <1>5 DEF AllEntries
  <2> QED BY <1>3, <1>4, <1>5, <2>1 DEF EntryInv, EntriesOrdered, Ordered, EntriesPrivate, IDsPrivate, PutsFresh
<1>7. LiveContents(index) = {} /\ LiveContents(NoEntries) = {} /\ Compactors \subseteq Clients
  BY <1>2, ManifestAssumption DEF LiveContents
<1>8. Found = {}
  <2>1. FoundIn({}) = {}
    BY <1>2, FoundIs DEF FoundIn, LoadManifestContents, Newest, IDsOf
  <2> QED BY <1>7, <2>1 DEF Found, FoundIn
<1>9. CommittedKnown /\ ContentsWritten /\ CompactorCurrent /\ CompactorCausal /\ DeletingChanged
  BY <1>2, <1>3, <1>4, <1>7 DEF CommittedKnown, ContentsWritten, CompactorCurrent, CompactorCausal, DeletingChanged
<1>10. DeletedStayDeleted
  BY <1>8 DEF DeletedStayDeleted
<1>11. CompactorSafe
  BY <1>3, <1>5, <1>7, <1>8 DEF CompactorSafe, Safe
<1> QED BY <1>1, <1>6, <1>9, <1>10, <1>11, InvParts DEF ContentInv

\* Every step keeps the invariant, and is one of the abstract store or changes nothing there.
LEMMA InvStep ==
  ASSUME OneCompactor, DeletesFail = FALSE
  PROVE  Inv /\ [Next]_vars /\ (MaxFaults <= 1 \/ [FailsFromClean]_vars)
           => Inv' /\ (StoreStep \/ (Found' = Found /\ published' = published))
<1> SUFFICES ASSUME Inv, [Next]_vars, MaxFaults <= 1 \/ [FailsFromClean]_vars
             PROVE  Inv' /\ (StoreStep \/ (Found' = Found /\ published' = published))
  OBVIOUS
<1>1. TypeInv' /\ IDsTaken'
  BY TypeStep DEF Inv
<1>2. CASE UNCHANGED vars \/ Tick
  <2>1. UNCHANGED <<index, mgr, changes, faults, taken, published>>
    BY <1>2 DEF vars, Tick
  <2>2. EntryInv' /\ ContentInv' /\ Found' = Found /\ published' = published
    BY <2>1, QuietKeeps
  <2> QED BY <1>1, <2>2, InvParts, PTL
<1>3. ASSUME NEW u \in Clients,
             \/ \E id \in IDs : Put(u, id) \/ Delete(u, id)
             \/ EnsureInitialized(u) \/ AutoCompact(u) \/ AutoCompactFails(u) \/ Flush(u)
             \/ FlushContents(u) \/ Refresh(u) \/ Crash(u),
             ~UNCHANGED vars
      PROVE  Inv' /\ (StoreStep \/ (Found' = Found /\ published' = published))
  <2>1. MaxFaults <= 1 \/ FailsFromClean
    BY <1>3
  <2>2. EntryInv' /\ ContentInv' /\ (StoreStep \/ (Found' = Found /\ published' = published))
    BY <1>3, <2>1, PutKeeps, DeleteKeeps, LoadKeeps, AutoCompactKeeps, FailsKeeps, FlushKeeps, FlushContentsKeeps, RefreshKeeps, CrashKeeps
  <2> QED BY <1>1, <2>2, InvParts, PTL
<1> QED BY <1>2, <1>3 DEF Next
----------------------------------------------------------------------------
(* The theorems *)

\* A step as the abstract store sees it.
LEMMA AbstractStep == StoreStep \/ (Found' = Found /\ published' = published) => [Abstract!Next]_<<Found, published>>
  BY DEF StoreStep, Abstract!Next, Abstract!Publish

\* Nothing is found initially, and nothing was deleted.
LEMMA AbstractInit == Init /\ Inv => Abstract!Init
<1> SUFFICES ASSUME Init, Inv PROVE Found = {}
  BY DEF Abstract!Init, Init
<1>1. LiveContents(index) = {}
  BY NoEntriesFacts DEF Init, LiveContents
<1>2. EntriesOf({}) = {}
  BY EntriesFacts
<1> QED BY <1>1, <1>2 DEF Found, LoadManifestContents, Newest, IDsOf

\* Manifests are published in whole steps, stay until their deletion is published and do not
\* return, in every behaviour in which one client compacts, DeleteContent does not fail, and no
\* compaction fails while the changes of a failed one are uncommitted: whatever the others put,
\* delete and publish in between, and however often clients crash, retry and read stale indexes.
THEOREM RefinesUnlessFailedTwice ==
  ASSUME OneCompactor, DeletesFail = FALSE
  PROVE  Spec /\ [][FailsFromClean]_vars => ImplementsManifestStore
<1>1. Init => Inv /\ Abstract!Init
  BY InvInit, AbstractInit
<1>2. Inv /\ [Next]_vars /\ [FailsFromClean]_vars => Inv' /\ [Abstract!Next]_<<Found, published>>
  BY InvStep, AbstractStep
<1> QED BY <1>1, <1>2, PTL DEF Spec, ImplementsManifestStore, Abstract!Spec

\* The same where at most one step fails, a compaction or a crash: no further hypothesis is needed.
THEOREM RefinesManifestStore ==
  ASSUME OneCompactor, DeletesFail = FALSE, MaxFaults <= 1
  PROVE  Spec => ImplementsManifestStore
<1>1. Init => Inv /\ Abstract!Init
  BY InvInit, AbstractInit
<1>2. Inv /\ [Next]_vars => Inv' /\ [Abstract!Next]_<<Found, published>>
  BY InvStep, AbstractStep
<1> QED BY <1>1, <1>2, PTL DEF Spec, ImplementsManifestStore, Abstract!Spec
============================================================================
