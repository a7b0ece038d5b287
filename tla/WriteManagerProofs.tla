------------------------ MODULE WriteManagerProofs ------------------------
(***************************************************************************)
(* Proofs about WriteManager, for every number of goroutines, contents,    *)
(* prefixes and calls, every pack capacity and every choice of the storage *)
(* calls that fail.                                                        *)
(***************************************************************************)
EXTENDS WriteManager, SequenceTheorems, WellFoundedInduction, TLAPS

\* A set of natural numbers that is not empty has a least element.
LEMMA LeastNat == ASSUME NEW T \in SUBSET Nat, T # {}
                  PROVE  \E x \in T : \A y \in T : x <= y
<1> DEFINE R == OpToRel(<, Nat)
<1>1. IsWellFoundedOn(R, Nat)
  BY NatLessThanWellFounded
<1>2. \A x, y \in Nat : x < y => <<x, y>> \in R
  BY DEF OpToRel
<1> HIDE DEF R
<1>3. PICK x \in T : \A y \in T : ~(<<y, x>> \in R)
  BY <1>1, WFMin
<1>4. \A y \in T : ~(y < x)
  BY <1>2, <1>3
<1>5. \A y \in T : x <= y
  BY <1>4
<1> QED BY <1>5

\* The first of some writing packs is one of them.
LEMMA FirstWritingType == ASSUME NEW I \in SUBSET (1..Len(writingPacks)), I # {},
                                 writingPacks \in Seq(Packs)
                          PROVE  Min(I) \in I /\ FirstWriting(I) \in Packs
<1>1. I \in SUBSET Nat
  OBVIOUS
<1>2. \E x \in I : \A y \in I : x <= y
  BY <1>1, LeastNat
<1>3. Min(I) \in I
  BY <1>2 DEF Min
<1> QED BY <1>3, ElementOfSeq DEF FirstWriting

\* Removing a pack from a slice of packs leaves a slice of packs.
LEMMA RemoveType == ASSUME NEW P, NEW s \in Seq(P), NEW p
                    PROVE  removePendingPack(s, p) \in Seq(P)
<1>1. CASE \A i \in 1..Len(s) : s[i] # p
  BY <1>1 DEF removePendingPack
<1>2. CASE \E i \in 1..Len(s) : s[i] = p
  <2>1. PlaceOf(s, p) \in 1..Len(s)
    BY <1>2 DEF PlaceOf
  <2>2. SubSeq(s, 1, PlaceOf(s, p) - 1) \in Seq(P) /\ SubSeq(s, PlaceOf(s, p) + 1, Len(s)) \in Seq(P)
    BY <2>1
  <2> QED BY <1>2, <2>2, ConcatProperties DEF removePendingPack
<1> QED BY <1>1, <1>2

\* The entries that survive a merge are among the entries merged.
LEMMA NewestSubset == ASSUME NEW es PROVE Newest(es) \subseteq es
  BY DEF Newest
---------------------------------------------------------------------------
(* Type correctness *)

\* What a call is at, what it does and what it works on fit together.
Writes == {"write", "undelete", "rewrite"}
AddPlaces == {"retryLock", "retry", "lookup", "readLock", "add", "addLock", "addWait", "addRetry",
              "upload", "uploaded"}
FlushPlaces == {"flushLock", "flushRetry", "flushWait", "flushPacks", "flushCommit", "flushAdd"}
CallOK == \A g \in Goroutines :
  /\ call[g].op \in Writes => call[g].content \in Contents
  /\ pc[g] \in AddPlaces => call[g].op \in Writes
  /\ pc[g] \in FlushPlaces => call[g].op \in Writes \cup {"flush"}
  /\ pc[g] \in {"upload", "uploaded"} => call[g].pp \in Packs
TypeInv == TypeOK /\ CallOK

\* The parts of TypeOK that change together: the calls, ...
CallsOK == /\ pc \in [Goroutines -> Places] /\ call \in [Goroutines -> CallRecord] /\ CallOK
           /\ accepted \subseteq Contents /\ undisturbed \subseteq Goroutines /\ contended \subseteq Contents
           /\ misled \subseteq Contents
\* ... the packs, ...
PacksOK == /\ pendingPacks \in [Prefixes -> Packs \cup {None}] /\ packs \in Packs
           /\ writingPacks \in Seq(Packs) /\ failedPacks \in Seq(Packs) /\ packIndexBuilder \subseteq Entry
           /\ items \in [Packs -> SUBSET Entry] /\ dataLength \in [Packs -> Nat]
\* ... the session ...
SessionOK == /\ sessionMarkers \subseteq Sessions /\ sessionMarkerBlobIDs \subseteq Sessions
             /\ currentSession \in Sessions \cup {None} /\ sessions \in Nat
             /\ sessionOf \in [Packs -> Sessions \cup {None}]
\* ... and the rest.
RestOK == /\ now \in Nat /\ packBlobs \subseteq Packs /\ indexed \subseteq Entry /\ committed \subseteq Entry
          /\ flushing \in BOOLEAN /\ disableIndexFlushCount \in Nat
          /\ mu \in Goroutines \cup {Nil} /\ asleep \subseteq Goroutines
          /\ calls \in 0..MaxCalls /\ faults \in 0..MaxFaults
          /\ owed \in [Goroutines -> SUBSET Contents] /\ promised \subseteq Contents \X BOOLEAN
\* TypeInv is their conjunction.
LEMMA TypeParts == TypeInv <=> CallsOK /\ PacksOK /\ SessionOK /\ RestOK
  BY DEF TypeInv, TypeOK, CallsOK, PacksOK, SessionOK, RestOK
\* The same in the next state.
LEMMA TypePartsNext == CallsOK' /\ PacksOK' /\ SessionOK' /\ RestOK' => TypeInv'
  BY DEF TypeInv, TypeOK, CallsOK, PacksOK, SessionOK, RestOK

\* The initial state is well typed.
LEMMA InitType == Init => TypeInv
<1> SUFFICES ASSUME Init PROVE TypeInv
  OBVIOUS
<1> USE ManagerAssumption
<1>0. MaxCalls \in Nat /\ 1 \in Packs
  BY DEF Packs
<1>1. NoCall \in CallRecord /\ NoCall.op = "idle"
  BY DEF NoCall, CallRecord, NotFound, None
<1>2. CallsOK
  BY <1>1 DEF Init, CallsOK, CallOK, Places, Writes, AddPlaces, FlushPlaces
<1>3. InitEntries \subseteq Entry
  <2>1. \A c \in Contents : [content |-> c, pack |-> InitPack, ts |-> 1, deleted |-> TRUE] \in Entry
    BY <1>0 DEF Entry, InitPack
  <2> QED BY <2>1 DEF InitEntries
<1>4. PacksOK
  BY <1>0 DEF Init, PacksOK, None, InitPack
<1>5. SessionOK
  BY DEF Init, SessionOK, None
<1>6. RestOK
  <2>1. indexed \subseteq Entry /\ committed \subseteq Entry /\ packBlobs \subseteq Packs
    BY <1>0, <1>3 DEF Init, InitPack
  <2>2. now \in Nat /\ disableIndexFlushCount \in Nat /\ calls \in 0..MaxCalls /\ faults \in 0..MaxFaults
    BY <1>0 DEF Init
  <2> QED BY <2>1, <2>2 DEF Init, RestOK
<1> QED BY <1>2, <1>4, <1>5, <1>6, TypeParts

\* A call that ends leaves its goroutine idle, and only a write adds to what was accepted.
LEMMA EndsType == ASSUME CallsOK, NEW g \in Goroutines, NEW ok \in BOOLEAN, Ends(g, ok),
                         misled' \subseteq Contents
                    PROVE  CallsOK'
<1>1. NoCall \in CallRecord /\ NoCall.op = "idle"
  BY ManagerAssumption DEF NoCall, CallRecord, NotFound, None
<1>2. accepted' \subseteq Contents
  BY DEF Ends, CallsOK, CallOK, Writes
<1>3. pc' = [pc EXCEPT ![g] = "idle"] /\ call' = [call EXCEPT ![g] = NoCall]
  BY DEF Ends, Goto
<1>4. pc' \in [Goroutines -> Places] /\ call' \in [Goroutines -> CallRecord]
  BY <1>1, <1>3 DEF CallsOK, Places
<1>5. CallOK'
  BY <1>1, <1>3, <1>4 DEF CallsOK, CallOK, Writes, AddPlaces, FlushPlaces
<1> QED BY <1>2, <1>4, <1>5 DEF Ends, CallsOK

\* The same for a call that has looked nothing up.
LEMMA FinishType == ASSUME CallsOK, NEW g \in Goroutines, NEW ok \in BOOLEAN, Finish(g, ok)
                    PROVE  CallsOK'
<1>1. Ends(g, ok) /\ misled' \subseteq Contents
  BY DEF Finish, CallsOK
<1> QED BY <1>1, EndsType

\* A step that moves a goroutine on, and changes its locals, keeps the calls well typed if what
\* it writes fits.
LEMMA MoveOnType == ASSUME CallsOK, NEW g \in Goroutines, NEW l \in Places, NEW r \in CallRecord,
                         pc' = [pc EXCEPT ![g] = l], call' = [call EXCEPT ![g] = r],
                         r.op = call[g].op, r.content = call[g].content,
                         l \in AddPlaces => r.op \in Writes,
                         l \in FlushPlaces => r.op \in Writes \cup {"flush"},
                         l \in {"upload", "uploaded"} => r.pp \in Packs,
                         UNCHANGED <<accepted, undisturbed, contended>>, misled' \subseteq Contents
                  PROVE  CallsOK'
<1>1. pc' \in [Goroutines -> Places] /\ call' \in [Goroutines -> CallRecord]
  BY DEF CallsOK
<1>2. CallOK'
  BY <1>1 DEF CallsOK, CallOK
<1> QED BY <1>1, <1>2 DEF CallsOK

\* The same for a step that looks nothing up.
LEMMA MoveType == ASSUME CallsOK, NEW g \in Goroutines, NEW l \in Places, NEW r \in CallRecord,
                         pc' = [pc EXCEPT ![g] = l], call' = [call EXCEPT ![g] = r],
                         r.op = call[g].op, r.content = call[g].content,
                         l \in AddPlaces => r.op \in Writes,
                         l \in FlushPlaces => r.op \in Writes \cup {"flush"},
                         l \in {"upload", "uploaded"} => r.pp \in Packs,
                         UNCHANGED progress
                  PROVE  CallsOK'
<1>1. UNCHANGED <<accepted, undisturbed, contended>> /\ misled' \subseteq Contents
  BY DEF progress, CallsOK
<1> QED BY <1>1, MoveOnType

\* A step that leaves the packs alone keeps them well typed.
LEMMA PacksUnchanged == PacksOK /\ UNCHANGED packing => PacksOK'
  BY DEF PacksOK, packing
\* A step that leaves the session alone keeps it well typed.
LEMMA SessionUnchanged == SessionOK /\ UNCHANGED <<session, sessionMarkers, sessionOf>> => SessionOK'
  BY DEF SessionOK, session
\* A step that leaves the calls alone keeps them well typed.
LEMMA CallsUnchanged == CallsOK /\ UNCHANGED <<pc, call, progress>> => CallsOK'
  BY DEF CallsOK, CallOK, progress

\* What a lookup finds are index entries.
LEMMA FoundType == ASSUME PacksOK, RestOK, NEW c \in Contents
                   PROVE  \A f \in getContentInfoReadLocked(c) : f.info \in Entry
<1> DEFINE pending == Of(ItemsOf(PendingPack(c)), c)
           writing == Of(items[FirstWriting(WritingWith(c))], c)
           other == IF Of(packIndexBuilder, c) # {} THEN Of(packIndexBuilder, c) ELSE Newest(Of(committed, c))
<1>1. pending \subseteq Entry
  BY ManagerAssumption DEF PacksOK, Of, ItemsOf, PendingPack, None
<1>2. WritingWith(c) # {} => writing \subseteq Entry
  <2> SUFFICES ASSUME WritingWith(c) # {} PROVE writing \subseteq Entry
    OBVIOUS
  <2>1. FirstWriting(WritingWith(c)) \in Packs
    BY FirstWritingType DEF WritingWith, PacksOK
  <2> QED BY <2>1 DEF PacksOK, Of
<1>3. other \subseteq Entry
  BY NewestSubset DEF PacksOK, RestOK, Of
<1>4. \A p, es : \A f \in FoundIn(p, es) : f.info \in es
  BY DEF FoundIn
<1>5. \/ getContentInfoReadLocked(c) = FoundIn(PendingPack(c), pending)
      \/ WritingWith(c) # {} /\ getContentInfoReadLocked(c) = FoundIn(FirstWriting(WritingWith(c)), writing)
      \/ getContentInfoReadLocked(c) = FoundIn(None, other)
  BY DEF getContentInfoReadLocked
<1> HIDE DEF pending, writing, other
<1> QED BY <1>1, <1>2, <1>3, <1>4, <1>5

\* What a delete finds are index entries.
LEMMA PreexistingType == ASSUME PacksOK, RestOK, NEW c \in Contents
                         PROVE  Preexisting(c) \subseteq Entry
<1>1. LiveWriting(c) # {} => FirstWriting(LiveWriting(c)) \in Packs
  BY FirstWritingType DEF LiveWriting, PacksOK
<1> QED BY <1>1, NewestSubset DEF Preexisting, PacksOK, RestOK, Of

\* Starting a call.
LEMMA StartType == ASSUME TypeInv, NEW g \in Goroutines, NEW o, NEW c, NEW l, Start(g, o, c, l),
                          \/ o \in Writes /\ c \in Contents /\ l \in {"retryLock", "readLock"}
                          \/ o = "flush" /\ c = Nil /\ l = "flushLock",
                          owed' \in [Goroutines -> SUBSET Contents]
                   PROVE  TypeInv'
<1> DEFINE r == [NoCall EXCEPT !.op = o, !.content = c]
<1>0. CallsOK /\ PacksOK /\ SessionOK /\ RestOK
  BY TypeParts
<1>1. r \in CallRecord /\ r.op = o /\ r.content = c
  <2>1. NoCall \in CallRecord
    BY DEF NoCall, CallRecord, NotFound, None
  <2>2. o \in AllCalls /\ c \in Contents \cup {Nil}
    BY DEF Writes, AllCalls
  <2> HIDE DEF NoCall
  <2> QED BY <2>1, <2>2 DEF CallRecord
<1>2. pc' = [pc EXCEPT ![g] = l] /\ call' = [call EXCEPT ![g] = r]
  BY DEF Start, Goto
<1> HIDE DEF r
<1>3. pc' \in [Goroutines -> Places] /\ call' \in [Goroutines -> CallRecord]
  BY <1>0, <1>1, <1>2 DEF CallsOK, Places
<1>4. CallOK'
  BY <1>0, <1>1, <1>2, <1>3 DEF CallsOK, CallOK, Writes, AddPlaces, FlushPlaces
<1>5. contended' \subseteq Contents /\ misled' \subseteq Contents
  BY <1>0, ManagerAssumption DEF CallsOK, Start, Contends
<1>6. accepted' \subseteq Contents /\ undisturbed' \subseteq Goroutines
  BY <1>0 DEF CallsOK, Start
<1>7. calls' \in 0..MaxCalls
  BY <1>0, ManagerAssumption DEF RestOK, Start
<1>8. RestOK'
  BY <1>0, <1>7 DEF RestOK, Start, storage
<1>9. PacksOK' /\ SessionOK'
  BY <1>0, PacksUnchanged, SessionUnchanged DEF Start, storage, packing
<1> QED BY <1>3, <1>4, <1>5, <1>6, <1>8, <1>9, TypePartsNext DEF CallsOK

\* The steps that change only the clock, the flush counter or the committed entries.
LEMMA PlainType == ASSUME TypeInv,
                          \/ Tick \/ Refresh
                          \/ \E g \in Goroutines : DisableIndexFlush(g) \/ EnableIndexFlush(g)
                   PROVE  TypeInv'
<1>0. CallsOK /\ PacksOK /\ SessionOK /\ RestOK
  BY TypeParts
<1>1. UNCHANGED <<pc, call, progress, packing, session, sessionMarkers, sessionOf>>
  BY DEF Tick, Refresh, DisableIndexFlush, EnableIndexFlush, history, progress, storage, packing
<1>2. RestOK'
  <2>1. CASE Tick
    BY <1>0, <2>1 DEF RestOK, Tick, storage, history
  <2>2. CASE Refresh
    BY <1>0, <2>2 DEF RestOK, Refresh, storage, history
  <2>3. ASSUME NEW g \in Goroutines, DisableIndexFlush(g) PROVE RestOK'
    BY <1>0, <2>3, ManagerAssumption DEF RestOK, DisableIndexFlush, storage, history
  <2>4. ASSUME NEW g \in Goroutines, EnableIndexFlush(g) PROVE RestOK'
    BY <1>0, <2>4 DEF RestOK, EnableIndexFlush, storage, history
  <2> QED BY <2>1, <2>2, <2>3, <2>4
<1> QED BY <1>0, <1>1, <1>2, CallsUnchanged, PacksUnchanged, SessionUnchanged, TypePartsNext

\* A step of a call that touches no pack, session, index or counter.
LEMMA ControlType == ASSUME TypeInv, CallsOK', UNCHANGED notPacking,
                            mu' \in Goroutines \cup {Nil}, asleep' \subseteq Goroutines
                     PROVE  TypeInv'
<1>0. PacksOK /\ SessionOK /\ RestOK
  BY TypeParts
<1>1. RestOK'
  BY <1>0 DEF RestOK, notPacking, storage
<1>2. UNCHANGED <<packing, session, sessionMarkers, sessionOf>>
  BY DEF notPacking, storage, packing
<1> QED BY <1>0, <1>1, <1>2, PacksUnchanged, SessionUnchanged, TypePartsNext

\* Waiting for a flush to end, or starting to retry the failed packs.
LEMMA WaitType == ASSUME CallsOK, PacksOK, RestOK, NEW g \in Goroutines, pc[g] \in AddPlaces,
                         NEW wait \in {"retryLock", "addWait"}, NEW next \in {"retry", "addRetry"},
                         WaitWhileFlushing(g, wait, next), UNCHANGED progress
                  PROVE  CallsOK' /\ mu' \in Goroutines \cup {Nil} /\ asleep' \subseteq Goroutines
<1> DEFINE r == [call[g] EXCEPT !.todo = failedPacks]
<1>1. call[g] \in CallRecord /\ call[g].op \in Writes /\ wait \in Places /\ next \in Places
  BY DEF CallsOK, CallOK, AddPlaces, Places
<1>2. r \in CallRecord /\ r.op = call[g].op /\ r.content = call[g].content
  BY <1>1 DEF PacksOK, CallRecord
<1>3. CASE flushing
  <2>1. pc' = [pc EXCEPT ![g] = wait] /\ call' = [call EXCEPT ![g] = call[g]]
    BY <1>3 DEF WaitWhileFlushing, Goto, CallsOK
  <2>2. CallsOK'
    BY <1>1, <2>1, MoveType DEF FlushPlaces
  <2> QED BY <1>3, <2>2 DEF WaitWhileFlushing, Sleep, RestOK
<1>4. CASE ~flushing
  <2>1. pc' = [pc EXCEPT ![g] = next] /\ call' = [call EXCEPT ![g] = r]
    BY <1>4 DEF WaitWhileFlushing, Goto
  <2> HIDE DEF r
  <2>2. CallsOK'
    BY <1>1, <1>2, <2>1, MoveType DEF FlushPlaces
  <2> QED BY <1>4, <2>2 DEF WaitWhileFlushing, Lock, RestOK
<1> QED BY <1>3, <1>4

\* The retry before a write, and taking the mutex to add the content.
LEMMA LockType == ASSUME TypeInv, NEW g \in Goroutines,
                         \/ maybeRetryWritingFailedPacksUnlocked(g) \/ endRetry(g)
                         \/ addToPack(g) \/ addAfterWait(g)
                  PROVE  TypeInv'
<1>0. CallsOK /\ PacksOK /\ SessionOK /\ RestOK
  BY TypeParts
<1>1. CASE maybeRetryWritingFailedPacksUnlocked(g)
  <2>1. CallsOK' /\ mu' \in Goroutines \cup {Nil} /\ asleep' \subseteq Goroutines
    BY <1>0, <1>1, WaitType DEF maybeRetryWritingFailedPacksUnlocked, AddPlaces
  <2> QED BY <1>1, <2>1, ControlType DEF maybeRetryWritingFailedPacksUnlocked
<1>2. CASE addAfterWait(g)
  <2>1. CallsOK' /\ mu' \in Goroutines \cup {Nil} /\ asleep' \subseteq Goroutines
    BY <1>0, <1>2, WaitType DEF addAfterWait, AddPlaces
  <2> QED BY <1>2, <2>1, ControlType DEF addAfterWait
<1>3. CASE endRetry(g)
  <2>1. pc' = [pc EXCEPT ![g] = "lookup"] /\ call' = [call EXCEPT ![g] = call[g]]
    BY <1>0, <1>3 DEF endRetry, Goto, CallsOK
  <2>2. call[g] \in CallRecord /\ call[g].op \in Writes
    BY <1>0, <1>3 DEF endRetry, CallsOK, CallOK, AddPlaces
  <2>3. CallsOK'
    BY <1>0, <1>3, <2>1, <2>2, MoveType DEF endRetry, Places, FlushPlaces
  <2> QED BY <1>0, <1>3, <2>3, ControlType DEF endRetry, Unlock, RestOK
<1>4. CASE addToPack(g)
  <2>1. pc[g] \in AddPlaces /\ UNCHANGED notPacking
    BY <1>4 DEF addToPack, AddPlaces
  <2>2. CASE Finish(g, TRUE) /\ UNCHANGED <<mu, asleep>>
    BY <1>0, <2>1, <2>2, FinishType, ControlType DEF RestOK
  <2>3. CASE WaitWhileFlushing(g, "addWait", "addRetry") /\ UNCHANGED progress
    BY <1>0, <2>1, <2>3, WaitType, ControlType
  <2> QED BY <1>4, <2>2, <2>3 DEF addToPack
<1> QED BY <1>1, <1>2, <1>3, <1>4

\* The lookup before a write, reading a content to rewrite it, and the flush of an old index.
LEMMA LookupType == ASSUME TypeInv, NEW g \in Goroutines, lookupContent(g) \/ readForRewrite(g)
                    PROVE  TypeInv'
<1> DEFINE found == getContentInfoReadLocked(call[g].content)
<1>0. CallsOK /\ PacksOK /\ SessionOK /\ RestOK
  BY TypeParts
<1>1. UNCHANGED <<notPacking, mu, asleep>> /\ pc[g] \in AddPlaces
  BY DEF lookupContent, readForRewrite, AddPlaces
<1>2. call[g] \in CallRecord /\ call[g].op \in Writes /\ call[g].content \in Contents
  BY <1>0, <1>1 DEF CallsOK, CallOK
<1>3. \A f \in found : f.info \in Entry
  BY <1>0, <1>2, FoundType
<1>4. \A f \in found : f.info.ts \in Int /\ f.info.deleted \in BOOLEAN
  BY <1>3 DEF Entry
<1> HIDE DEF found
<1>m. misled' \subseteq Contents
  BY <1>0, <1>2 DEF lookupContent, readForRewrite, IsShown, CallsOK
<1>5. ASSUME NEW t \in Int, NEW d \in BOOLEAN, UNCHANGED <<accepted, undisturbed, contended>>, Goto(g, "add"),
             call' = [call EXCEPT ![g].previousWriteTime = t, ![g].isDeleted = d]
      PROVE  CallsOK'
  <2> DEFINE r == [call[g] EXCEPT !.previousWriteTime = t, !.isDeleted = d]
  <2>1. r \in CallRecord /\ r.op = call[g].op /\ r.content = call[g].content
    BY <1>2, <1>5 DEF CallRecord
  <2>2. pc' = [pc EXCEPT ![g] = "add"] /\ call' = [call EXCEPT ![g] = r]
    BY <1>0, <1>5 DEF Goto, CallsOK
  <2> HIDE DEF r
  <2> QED BY <1>0, <1>2, <1>5, <1>m, <2>1, <2>2, MoveOnType DEF Places, FlushPlaces
<1>6. ASSUME NEW t \in Int, UNCHANGED <<accepted, undisturbed, contended>>, Goto(g, "add"),
             call' = [call EXCEPT ![g].previousWriteTime = t]
      PROVE  CallsOK'
  <2> DEFINE r == [call[g] EXCEPT !.previousWriteTime = t]
  <2>1. r \in CallRecord /\ r.op = call[g].op /\ r.content = call[g].content
    BY <1>2, <1>6 DEF CallRecord
  <2>2. pc' = [pc EXCEPT ![g] = "add"] /\ call' = [call EXCEPT ![g] = r]
    BY <1>0, <1>6 DEF Goto, CallsOK
  <2> HIDE DEF r
  <2> QED BY <1>0, <1>2, <1>6, <1>m, <2>1, <2>2, MoveOnType DEF Places, FlushPlaces
<1>7. CASE lookupContent(g)
  <2>1. \/ Ends(g, TRUE)
        \/ \E t \in {f.info.ts : f \in found} \cup {NotFound} :
             call' = [call EXCEPT ![g].previousWriteTime = t] /\ Goto(g, "add") /\ UNCHANGED <<accepted, undisturbed, contended>>
    BY <1>7 DEF lookupContent, found
  <2>2. \A t \in {f.info.ts : f \in found} \cup {NotFound} : t \in Int
    BY <1>4 DEF NotFound
  <2>3. CallsOK'
    BY <1>0, <1>6, <1>m, <2>1, <2>2, EndsType
  <2> QED BY <1>0, <1>1, <2>3, ControlType DEF RestOK
<1>8. CASE readForRewrite(g)
  <2>1. \/ Ends(g, FALSE) \/ Ends(g, TRUE)
        \/ \E f \in found :
             /\ call' = [call EXCEPT ![g].previousWriteTime = f.info.ts,
                                     ![g].isDeleted = f.info.deleted /\ call[g].op = "rewrite"]
             /\ Goto(g, "add") /\ UNCHANGED <<accepted, undisturbed, contended>>
    BY <1>8 DEF readForRewrite, found
  <2>2. \A f \in found : f.info.ts \in Int /\ (f.info.deleted /\ call[g].op = "rewrite") \in BOOLEAN
    BY <1>4
  <2>3. CallsOK'
    BY <1>0, <1>5, <1>m, <2>1, <2>2, EndsType
  <2> QED BY <1>0, <1>1, <2>3, ControlType DEF RestOK
<1> QED BY <1>7, <1>8

\* Going to flush, taking the mutex for it and waiting for the packs being uploaded.
LEMMA FlushWaitType == ASSUME TypeInv, NEW g \in Goroutines,
                              maybeFlushBasedOnTime(g) \/ flushLock(g) \/ waitForWritingPacks(g)
                       PROVE  TypeInv'
<1> DEFINE r == [call[g] EXCEPT !.todo = failedPacks]
<1>0. CallsOK /\ PacksOK /\ SessionOK /\ RestOK
  BY TypeParts
<1>1. UNCHANGED <<packing, session, sessionMarkers, sessionOf, progress>>
  BY DEF maybeFlushBasedOnTime, flushLock, waitForWritingPacks, notFlushing, storage, packing, history, progress
<1>2. RestOK'
  <2>1. CASE maybeFlushBasedOnTime(g)
    BY <1>0, <2>1 DEF RestOK, CallsOK, maybeFlushBasedOnTime, storage
  <2>2. CASE flushLock(g)
    BY <1>0, <2>2 DEF RestOK, flushLock, Lock, storage, notFlushing, history
  <2>3. CASE waitForWritingPacks(g)
    BY <1>0, <2>3 DEF RestOK, waitForWritingPacks, Unlock, Sleep, storage, notFlushing, history
  <2> QED BY <2>1, <2>2, <2>3
<1>3. call[g] \in CallRecord /\ call[g].op \in Writes \cup {"flush"}
  BY <1>0 DEF CallsOK, CallOK, maybeFlushBasedOnTime, flushLock, waitForWritingPacks, AddPlaces, FlushPlaces
<1>4. r \in CallRecord /\ r.op = call[g].op /\ r.content = call[g].content
  BY <1>0, <1>3 DEF PacksOK, CallRecord
<1>5. \/ \E l \in FlushPlaces : pc' = [pc EXCEPT ![g] = l] /\ call' = [call EXCEPT ![g] = call[g]]
      \/ \E l \in FlushPlaces : pc' = [pc EXCEPT ![g] = l] /\ call' = [call EXCEPT ![g] = r]
  <2>1. call = [call EXCEPT ![g] = call[g]]
    BY <1>0 DEF CallsOK
  <2>2. CASE maybeFlushBasedOnTime(g)
    BY <2>1, <2>2 DEF maybeFlushBasedOnTime, Goto, FlushPlaces
  <2>3. CASE flushLock(g)
    BY <2>3 DEF flushLock, Goto, FlushPlaces
  <2>4. CASE waitForWritingPacks(g)
    BY <2>1, <2>4 DEF waitForWritingPacks, Goto, FlushPlaces
  <2> QED BY <2>2, <2>3, <2>4
<1> HIDE DEF r
<1>6. \A l \in FlushPlaces : l \in Places /\ l \notin AddPlaces /\ l \notin {"upload", "uploaded"}
  BY DEF FlushPlaces, AddPlaces, Places
<1>7. CallsOK'
  BY <1>0, <1>1, <1>3, <1>4, <1>5, <1>6, MoveType
<1> QED BY <1>0, <1>1, <1>2, <1>7, PacksUnchanged, SessionUnchanged, TypePartsNext

\* A flush that returns, to its caller or into the write that started it.
LEMMA FlushReturnsType == ASSUME CallsOK, RestOK, NEW g \in Goroutines, NEW ok \in BOOLEAN,
                                 pc[g] \in FlushPlaces, FlushReturns(g, ok)
                          PROVE  /\ CallsOK' /\ mu' = Nil /\ flushing' = FALSE /\ asleep' = {}
                                 /\ owed' \in [Goroutines -> SUBSET Contents]
                                 /\ promised' \subseteq Contents \X BOOLEAN
<1>1. mu' = Nil /\ flushing' = FALSE /\ asleep' = {} /\ owed' \in [Goroutines -> SUBSET Contents]
  BY DEF FlushReturns, Unlock, Broadcast, RestOK
<1>2. promised' \subseteq Contents \X BOOLEAN
  <2>1. \A c : InFailedPack(c) \in BOOLEAN
    BY DEF InFailedPack
  <2>2. owed[g] \subseteq Contents
    BY DEF RestOK
  <2> HIDE DEF InFailedPack
  <2> QED BY <2>1, <2>2 DEF FlushReturns, RestOK
<1>3. CASE Finish(g, ok)
  BY <1>3, FinishType, <1>1, <1>2
<1>4. CASE call[g].op # "flush" /\ Goto(g, "addLock") /\ UNCHANGED <<call, progress>>
  <2>1. call[g] \in CallRecord /\ call[g].op \in Writes
    BY <1>4 DEF CallsOK, CallOK
  <2>2. pc' = [pc EXCEPT ![g] = "addLock"] /\ call' = [call EXCEPT ![g] = call[g]]
    BY <1>4 DEF Goto, CallsOK
  <2>3. CallsOK'
    BY <1>4, <2>1, <2>2, MoveType DEF Places, FlushPlaces
  <2> QED BY <1>1, <1>2, <2>3
<1> QED BY <1>3, <1>4 DEF FlushReturns

\* Writing the index, committing the session and adding the index to the committed contents.
LEMMA CommitType == ASSUME TypeInv, NEW g \in Goroutines, NEW ok \in BOOLEAN,
                           \/ flushPackIndexesLocked(g, ok) \/ commitSession(g, ok) \/ addIndexBlob(g, ok)
                    PROVE  TypeInv'
<1>0. CallsOK /\ PacksOK /\ SessionOK /\ RestOK
  BY TypeParts
<1>1. pc[g] \in FlushPlaces /\ call[g] \in CallRecord /\ call[g].op \in Writes \cup {"flush"}
  BY <1>0 DEF CallsOK, CallOK, flushPackIndexesLocked, commitSession, addIndexBlob, FlushPlaces
<1>2. ASSUME NEW l \in {"flushCommit", "flushAdd"}, Goto(g, l), UNCHANGED <<call, history>> PROVE CallsOK'
  <2>1. pc' = [pc EXCEPT ![g] = l] /\ call' = [call EXCEPT ![g] = call[g]] /\ UNCHANGED progress
    BY <1>0, <1>2 DEF Goto, CallsOK, history, progress
  <2> QED BY <1>0, <1>1, <2>1, MoveType DEF Places, FlushPlaces, AddPlaces
<1>3. \/ FlushReturns(g, TRUE) \/ FlushReturns(g, FALSE)
      \/ /\ Goto(g, "flushCommit") \/ Goto(g, "flushAdd")
         /\ UNCHANGED <<mu, asleep, flushing, call, history>>
  BY DEF flushPackIndexesLocked, commitSession, addIndexBlob
<1>4. /\ CallsOK' /\ mu' \in Goroutines \cup {Nil} /\ flushing' \in BOOLEAN /\ asleep' \subseteq Goroutines
      /\ owed' \in [Goroutines -> SUBSET Contents] /\ promised' \subseteq Contents \X BOOLEAN
  <2>1. CASE FlushReturns(g, TRUE) \/ FlushReturns(g, FALSE)
    BY <1>0, <1>1, <2>1, FlushReturnsType
  <2>2. CASE (Goto(g, "flushCommit") \/ Goto(g, "flushAdd")) /\ UNCHANGED <<mu, asleep, flushing, call, history>>
    BY <1>0, <1>2, <2>2 DEF RestOK, history
  <2> QED BY <1>3, <2>1, <2>2
<1>5. /\ UNCHANGED <<now, disableIndexFlushCount, packBlobs, calls>>
      /\ indexed' \subseteq Entry /\ committed' \subseteq Entry /\ packIndexBuilder' \subseteq Entry
      /\ UNCHANGED faults \/ (faults < MaxFaults /\ faults' = faults + 1)
      /\ UNCHANGED <<pendingPacks, writingPacks, failedPacks, items, dataLength, sessionOf, packs>>
  <2>1. CASE flushPackIndexesLocked(g, ok)
    BY <1>0, <2>1 DEF flushPackIndexesLocked, notFlushing, packing, PacksOK, RestOK, Fails
  <2>2. CASE commitSession(g, ok)
    BY <1>0, <2>2 DEF commitSession, packing, PacksOK, RestOK, Fails
  <2>3. CASE addIndexBlob(g, ok)
    BY <1>0, <2>3 DEF addIndexBlob, notFlushing, storage, PacksOK, RestOK, Fails
  <2> QED BY <2>1, <2>2, <2>3
<1>6. RestOK'
  <2>1. faults' \in 0..MaxFaults
    BY <1>0, <1>5, ManagerAssumption DEF RestOK
  <2> QED BY <1>0, <1>4, <1>5, <2>1 DEF RestOK
<1>7. PacksOK'
  BY <1>0, <1>5 DEF PacksOK
<1>8. SessionOK'
  <2>1. CASE commitSession(g, ok)
    BY <1>0, <1>5, <2>1 DEF commitSession, SessionOK, None
  <2>2. CASE flushPackIndexesLocked(g, ok) \/ addIndexBlob(g, ok)
    <3>1. UNCHANGED <<session, sessionMarkers, sessionOf>>
      BY <2>2 DEF flushPackIndexesLocked, addIndexBlob, notFlushing, storage, packing
    <3> QED BY <1>0, <3>1, SessionUnchanged
  <2> QED BY <2>1, <2>2
<1> QED BY <1>4, <1>6, <1>7, <1>8, TypePartsNext

\* The attempt to store a pack, and the books kept on its result.
LEMMA WritePackType == ASSUME PacksOK, RestOK, NEW p \in Packs, NEW ok \in BOOLEAN,
                              prepareAndWritePackInternal(p, ok)
                       PROVE  packBlobs' \subseteq Packs /\ faults' \in 0..MaxFaults
<1>1. packBlobs' \subseteq Packs
  BY DEF prepareAndWritePackInternal, RestOK
<1>2. UNCHANGED faults \/ (faults < MaxFaults /\ faults' = faults + 1)
  BY DEF prepareAndWritePackInternal, Fails
<1> QED BY <1>1, <1>2, ManagerAssumption DEF RestOK

\* Whether it succeeded or not, the slices, the builder and the packs keep their types.
LEMMA ProcessType == ASSUME PacksOK, NEW p \in Packs, NEW ok \in BOOLEAN, processWritePackResultLocked(p, ok)
                     PROVE  /\ writingPacks' \in Seq(Packs) /\ failedPacks' \in Seq(Packs)
                            /\ packIndexBuilder' \subseteq Entry /\ items' \in [Packs -> SUBSET Entry]
                            /\ asleep' = {}
<1>1. writingPacks' \in Seq(Packs)
  BY RemoveType DEF processWritePackResultLocked, PacksOK
<1>2. failedPacks' \in Seq(Packs)
  <2>1. removePendingPack(failedPacks, p) \in Seq(Packs)
    BY RemoveType DEF PacksOK
  <2>2. Append(removePendingPack(failedPacks, p), p) \in Seq(Packs)
    BY <2>1
  <2> QED BY <2>1, <2>2 DEF processWritePackResultLocked
<1>3. packIndexBuilder' \subseteq Entry
  <2>1. Newest(packIndexBuilder \cup items[p]) \subseteq packIndexBuilder \cup items[p]
    BY NewestSubset
  <2> QED BY <2>1 DEF processWritePackResultLocked, PacksOK
<1>4. items' \in [Packs -> SUBSET Entry]
  BY DEF processWritePackResultLocked, PacksOK
<1> QED BY <1>1, <1>2, <1>3, <1>4 DEF processWritePackResultLocked, Broadcast

\* Writing a failed pack again.
LEMMA RetryType == ASSUME TypeInv, NEW g \in Goroutines, NEW ok \in BOOLEAN, retryFailedPack(g, ok)
                   PROVE  TypeInv'
<1> DEFINE p == Head(call[g].todo)
           r == [call[g] EXCEPT !.todo = Tail(call[g].todo)]
<1>0. CallsOK /\ PacksOK /\ SessionOK /\ RestOK
  BY TypeParts
<1>1. call[g] \in CallRecord /\ call[g].todo \in Seq(Packs) /\ call[g].todo # << >>
  BY <1>0 DEF CallsOK, CallRecord, retryFailedPack
<1>2. p \in Packs /\ Tail(call[g].todo) \in Seq(Packs)
  BY <1>1
<1> HIDE DEF p
<1>3. prepareAndWritePackInternal(p, ok) /\ processWritePackResultLocked(p, ok)
  BY DEF retryFailedPack, p
<1>4. packBlobs' \subseteq Packs /\ faults' \in 0..MaxFaults
  BY <1>0, <1>2, <1>3, WritePackType
<1>5. /\ writingPacks' \in Seq(Packs) /\ failedPacks' \in Seq(Packs)
      /\ packIndexBuilder' \subseteq Entry /\ items' \in [Packs -> SUBSET Entry] /\ asleep' = {}
  BY <1>0, <1>2, <1>3, ProcessType
<1>6. PacksOK'
  BY <1>0, <1>5 DEF PacksOK, retryFailedPack
<1>7. mu' \in Goroutines \cup {Nil} /\ flushing' \in BOOLEAN
  BY <1>0 DEF RestOK, retryFailedPack, Unlock
<1>8. RestOK'
  BY <1>0, <1>4, <1>5, <1>7 DEF RestOK, retryFailedPack
<1>9. SessionOK'
  BY <1>0, SessionUnchanged DEF retryFailedPack
<1>10. CallsOK'
  <2>1. CASE ok
    <3>1. r \in CallRecord /\ r.op = call[g].op /\ r.content = call[g].content /\ r.pp = call[g].pp
      BY <1>1, <1>2 DEF CallRecord
    <3>2. call' = [call EXCEPT ![g] = r] /\ UNCHANGED <<pc, progress>>
      BY <2>1 DEF retryFailedPack
    <3> HIDE DEF r
    <3>3. pc' = [pc EXCEPT ![g] = pc[g]] /\ pc[g] \in Places
      BY <1>0, <3>2 DEF CallsOK
    <3>4. /\ pc[g] \in AddPlaces => r.op \in Writes
          /\ pc[g] \in FlushPlaces => r.op \in Writes \cup {"flush"}
          /\ pc[g] \notin {"upload", "uploaded"}
      BY <1>0, <3>1 DEF CallsOK, CallOK, retryFailedPack
    <3> QED BY <1>0, <3>1, <3>2, <3>3, <3>4, MoveType
  <2>2. CASE ~ok
    BY <1>0, <2>2, FinishType DEF retryFailedPack
  <2> QED BY <2>1, <2>2
<1> QED BY <1>6, <1>8, <1>9, <1>10, TypePartsNext

\* The pending packs that Flush writes.
LEMMA FinishPacksType == ASSUME TypeInv, NEW g \in Goroutines, NEW x \in Prefixes, NEW ok \in BOOLEAN,
                                finishAllPacksLocked(g, x, ok)
                         PROVE  TypeInv'
<1> DEFINE p == pendingPacks[x]
<1>0. CallsOK /\ PacksOK /\ SessionOK /\ RestOK
  BY TypeParts
<1>1. p \in Packs
  BY <1>0 DEF PacksOK, finishAllPacksLocked
<1>2. prepareAndWritePackInternal(p, ok) /\ processWritePackResultLocked(p, ok)
  BY DEF finishAllPacksLocked
<1>3. pendingPacks' \in [Prefixes -> Packs \cup {None}]
  BY <1>0 DEF PacksOK, finishAllPacksLocked
<1> HIDE DEF p
<1>4. packBlobs' \subseteq Packs /\ faults' \in 0..MaxFaults
  BY <1>0, <1>1, <1>2, WritePackType
<1>5. /\ writingPacks' \in Seq(Packs) /\ failedPacks' \in Seq(Packs)
      /\ packIndexBuilder' \subseteq Entry /\ items' \in [Packs -> SUBSET Entry] /\ asleep' = {}
  BY <1>0, <1>1, <1>2, ProcessType
<1>6. PacksOK'
  BY <1>0, <1>3, <1>5 DEF PacksOK, finishAllPacksLocked
<1>7. mu' \in Goroutines \cup {Nil} /\ flushing' \in BOOLEAN
  BY <1>0 DEF RestOK, finishAllPacksLocked, Unlock
<1>8. RestOK'
  BY <1>0, <1>4, <1>5, <1>7 DEF RestOK, finishAllPacksLocked, notFlushing
<1>9. SessionOK'
  BY <1>0, SessionUnchanged DEF finishAllPacksLocked, notFlushing
<1>10. CallsOK'
  BY <1>0, FinishType, CallsUnchanged DEF finishAllPacksLocked
<1> QED BY <1>6, <1>8, <1>9, <1>10, TypePartsNext

\* The upload of a full pack, without the mutex.
LEMMA UploadType == ASSUME TypeInv, NEW g \in Goroutines, NEW ok \in BOOLEAN, uploadPack(g, ok)
                    PROVE  TypeInv'
<1> DEFINE r == [call[g] EXCEPT !.uploaded = ok]
<1>0. CallsOK /\ PacksOK /\ SessionOK /\ RestOK
  BY TypeParts
<1>1. call[g] \in CallRecord /\ call[g].pp \in Packs /\ call[g].op \in Writes
  BY <1>0 DEF CallsOK, CallOK, uploadPack, AddPlaces
<1>2. packBlobs' \subseteq Packs /\ faults' \in 0..MaxFaults
  BY <1>0, <1>1, WritePackType DEF uploadPack
<1>3. RestOK'
  BY <1>0, <1>2 DEF RestOK, uploadPack, history
<1>4. r \in CallRecord /\ r.op = call[g].op /\ r.content = call[g].content /\ r.pp = call[g].pp
  BY <1>1 DEF CallRecord
<1>5. pc' = [pc EXCEPT ![g] = "uploaded"] /\ call' = [call EXCEPT ![g] = r] /\ UNCHANGED progress
  BY DEF uploadPack, Goto, history, progress
<1> HIDE DEF r
<1>6. CallsOK'
  BY <1>0, <1>1, <1>4, <1>5, MoveType DEF Places, FlushPlaces
<1>7. PacksOK' /\ SessionOK'
  BY <1>0, PacksUnchanged, SessionUnchanged DEF uploadPack, packing
<1> QED BY <1>3, <1>6, <1>7, TypePartsNext

\* The end of the upload.
LEMMA UploadResultType == ASSUME TypeInv, NEW g \in Goroutines, uploadResult(g)
                          PROVE  TypeInv'
<1>0. CallsOK /\ PacksOK /\ SessionOK /\ RestOK
  BY TypeParts
<1>1. call[g].pp \in Packs /\ call[g].uploaded \in BOOLEAN
  BY <1>0 DEF CallsOK, CallOK, CallRecord, uploadResult
<1>2. /\ writingPacks' \in Seq(Packs) /\ failedPacks' \in Seq(Packs)
      /\ packIndexBuilder' \subseteq Entry /\ items' \in [Packs -> SUBSET Entry] /\ asleep' = {}
  BY <1>0, <1>1, ProcessType DEF uploadResult
<1>3. PacksOK'
  BY <1>0, <1>2 DEF PacksOK, uploadResult
<1>4. CallsOK'
  BY <1>0, <1>1, FinishType DEF uploadResult
<1>5. RestOK'
  BY <1>0, <1>2 DEF RestOK, uploadResult, storage
<1>6. SessionOK'
  BY <1>0, SessionUnchanged DEF uploadResult, storage
<1> QED BY <1>3, <1>4, <1>5, <1>6, TypePartsNext

\* Getting the pending pack, or making one and with it perhaps a session.
LEMMA PendingType == ASSUME PacksOK, SessionOK, NEW c \in Contents, NEW p \in Packs,
                            getOrCreatePendingPackInfoLocked(c, p)
                     PROVE  SessionOK' /\ packs' \in Packs /\ UNCHANGED faults
<1>0. sessions + 1 \in Sessions /\ sessions + 1 \in Nat
  BY DEF SessionOK, Sessions
<1>1. CASE StartsSession(c)
  BY <1>0, <1>1 DEF StartsSession, getOrCreatePendingPackInfoLocked, SessionOK, PacksOK
<1>2. CASE ~StartsSession(c)
  <2>1. UNCHANGED <<session, sessionMarkers>> /\ currentSession' \in Sessions \cup {None}
    BY <1>2 DEF getOrCreatePendingPackInfoLocked, SessionOK, session
  <2>2. sessionOf' \in [Packs -> Sessions \cup {None}]
    BY <2>1 DEF getOrCreatePendingPackInfoLocked, SessionOK
  <2>3. packs' \in Packs
    BY DEF getOrCreatePendingPackInfoLocked, PacksOK
  <2> QED BY <2>1, <2>2, <2>3 DEF getOrCreatePendingPackInfoLocked, SessionOK, session
<1> QED BY <1>1, <1>2

\* A session whose marker cannot be written.
LEMMA MarkerFailsType == ASSUME SessionOK, RestOK, NEW c \in Contents, SessionMarkerFails(c)
                         PROVE  SessionOK' /\ faults' \in 0..MaxFaults
<1>1. faults' \in 0..MaxFaults
  BY ManagerAssumption DEF SessionMarkerFails, Fails, RestOK
<1>2. sessions + 1 \in Sessions /\ sessions + 1 \in Nat
  BY DEF SessionOK, Sessions
<1> QED BY <1>1, <1>2 DEF SessionMarkerFails, SessionOK

\* The time of a new entry is a time.
LEMMA WriteTimeType == ASSUME now \in Nat, NEW t \in Int PROVE contentWriteTime(t) \in Nat
  BY DEF contentWriteTime

\* Putting an entry into a pack in memory.
LEMMA PutItemType == ASSUME PacksOK, NEW p \in Packs, NEW e \in Entry, PutItem(p, e)
                     PROVE  items' \in [Packs -> SUBSET Entry]
  BY DEF PutItem, PacksOK

\* Adding a content to the pending pack.
LEMMA AddContentType == ASSUME TypeInv, NEW g \in Goroutines, addContent(g)
                        PROVE  TypeInv'
<1> DEFINE c == call[g].content
           e(p) == [content |-> c, pack |-> p, ts |-> contentWriteTime(call[g].previousWriteTime),
                    deleted |-> call[g].isDeleted]
<1>0. CallsOK /\ PacksOK /\ SessionOK /\ RestOK
  BY TypeParts
<1>1. call[g] \in CallRecord /\ call[g].op \in Writes /\ c \in Contents
  BY <1>0 DEF CallsOK, CallOK, addContent, AddPlaces
<1>2. call[g].previousWriteTime \in Int /\ call[g].isDeleted \in BOOLEAN
  BY <1>1 DEF CallRecord
<1>3. contentWriteTime(call[g].previousWriteTime) \in Nat
  BY <1>0, <1>2, WriteTimeType DEF RestOK
<1>4. /\ mu' = Nil
      /\ UNCHANGED <<now, packBlobs, indexed, failedPacks, packIndexBuilder, flushing, disableIndexFlushCount,
                     committed, asleep, calls, owed, promised>>
  BY DEF addContent, Unlock
<1>5. CASE SessionMarkerFails(c) /\ Finish(g, FALSE) /\ UNCHANGED writingPacks
  <2>1. SessionOK' /\ faults' \in 0..MaxFaults
    BY <1>0, <1>1, <1>5, MarkerFailsType
  <2>2. PacksOK'
    BY <1>0, <1>4, <1>5 DEF PacksOK, SessionMarkerFails
  <2>3. RestOK'
    BY <1>0, <1>4, <2>1 DEF RestOK
  <2> QED BY <1>0, <1>5, <2>1, <2>2, <2>3, FinishType, TypePartsNext
<1>6. ASSUME NEW p \in Packs, getOrCreatePendingPackInfoLocked(c, p), PutItem(p, e(p)),
             dataLength' = [dataLength EXCEPT ![p] = @ + 1],
             \/ /\ pendingPacks' = [pendingPacks EXCEPT ![packPrefixForContentID[c]] = None]
                /\ writingPacks' = Append(writingPacks, p)
                /\ call' = [call EXCEPT ![g].pp = p] /\ Goto(g, "upload")
                /\ UNCHANGED progress
             \/ /\ pendingPacks' = [pendingPacks EXCEPT ![packPrefixForContentID[c]] = p]
                /\ Finish(g, TRUE) /\ UNCHANGED writingPacks
      PROVE  TypeInv'
  <2>1. SessionOK' /\ packs' \in Packs /\ UNCHANGED faults
    BY <1>0, <1>1, <1>6, PendingType
  <2>2. e(p) \in Entry
    BY <1>1, <1>2, <1>3 DEF Entry
  <2>3. items' \in [Packs -> SUBSET Entry]
    BY <1>0, <1>6, <2>2, PutItemType
  <2>4. pendingPacks' \in [Prefixes -> Packs \cup {None}]
    BY <1>0, <1>6 DEF PacksOK
  <2>5. writingPacks' \in Seq(Packs) /\ dataLength' \in [Packs -> Nat]
    <3>1. Append(writingPacks, p) \in Seq(Packs) /\ dataLength[p] + 1 \in Nat
      BY <1>0 DEF PacksOK
    <3>2. dataLength' \in [Packs -> Nat]
      BY <1>0, <1>6, <3>1 DEF PacksOK
    <3> QED BY <1>0, <1>6, <3>1, <3>2 DEF PacksOK
  <2>6. PacksOK'
    BY <1>0, <1>4, <2>1, <2>3, <2>4, <2>5 DEF PacksOK
  <2>7. RestOK'
    BY <1>0, <1>4, <2>1 DEF RestOK
  <2>8. CallsOK'
    <3>1. CASE Finish(g, TRUE)
      BY <1>0, <3>1, FinishType
    <3>2. CASE call' = [call EXCEPT ![g].pp = p] /\ Goto(g, "upload") /\ UNCHANGED progress
      <4> DEFINE r == [call[g] EXCEPT !.pp = p]
      <4>1. r \in CallRecord /\ r.op = call[g].op /\ r.content = c /\ r.pp = p
        BY <1>1 DEF CallRecord
      <4>2. pc' = [pc EXCEPT ![g] = "upload"] /\ call' = [call EXCEPT ![g] = r]
        BY <3>2 DEF Goto
      <4> HIDE DEF r
      <4> QED BY <1>0, <1>1, <3>2, <4>1, <4>2, MoveType DEF Places, FlushPlaces
    <3> QED BY <1>6, <3>1, <3>2
  <2> QED BY <2>1, <2>6, <2>7, <2>8, TypePartsNext
<1>7. \/ SessionMarkerFails(c) /\ Finish(g, FALSE) /\ UNCHANGED writingPacks
      \/ \E p \in Packs :
           /\ getOrCreatePendingPackInfoLocked(c, p) /\ PutItem(p, e(p))
           /\ dataLength' = [dataLength EXCEPT ![p] = @ + 1]
           /\ \/ /\ pendingPacks' = [pendingPacks EXCEPT ![packPrefixForContentID[c]] = None]
                 /\ writingPacks' = Append(writingPacks, p)
                 /\ call' = [call EXCEPT ![g].pp = p] /\ Goto(g, "upload")
                 /\ UNCHANGED progress
              \/ /\ pendingPacks' = [pendingPacks EXCEPT ![packPrefixForContentID[c]] = p]
                 /\ Finish(g, TRUE) /\ UNCHANGED writingPacks
  BY DEF addContent
<1> QED BY <1>5, <1>6, <1>7

\* Deleting a content.
LEMMA DeleteType == ASSUME TypeInv, NEW g \in Goroutines, NEW c \in Contents, DeleteContent(g, c)
                    PROVE  TypeInv'
<1> DEFINE d(e) == [e EXCEPT !.deleted = TRUE, !.ts = contentWriteTime(e.ts)]
<1>0. CallsOK /\ PacksOK /\ SessionOK /\ RestOK
  BY TypeParts
<1>1. UNCHANGED <<now, packBlobs, indexed, writingPacks, failedPacks, packIndexBuilder, flushing,
                  disableIndexFlushCount, committed, mu, asleep, pc, call>>
  BY DEF DeleteContent
<1>2. CallsOK'
  <2>1. contended' \subseteq Contents /\ misled' \subseteq Contents
    BY <1>0 DEF CallsOK, DeleteContent, Contends
  <2>2. accepted' \subseteq Contents /\ undisturbed' \subseteq Goroutines
    BY <1>0 DEF CallsOK, DeleteContent
  <2> QED BY <1>0, <1>1, <2>1, <2>2 DEF CallsOK, CallOK
<1>3. /\ calls' \in 0..MaxCalls /\ owed' \in [Goroutines -> SUBSET Contents]
      /\ promised' \subseteq Contents \X BOOLEAN
  <2>1. calls' \in 0..MaxCalls
    <3>1. calls < MaxCalls /\ calls' = calls + 1
      BY DEF DeleteContent
    <3> QED BY <1>0, <3>1, ManagerAssumption DEF RestOK
  <2>2. owed' \in [Goroutines -> SUBSET Contents]
    BY <1>0 DEF RestOK, DeleteContent
  <2>3. promised' \subseteq promised
    BY DEF DeleteContent
  <2> QED BY <1>0, <2>1, <2>2, <2>3 DEF RestOK
<1>4. CASE /\ Live(ItemsOf(PendingPack(c)), c)
           /\ items' = [items EXCEPT ![PendingPack(c)] = @ \ Of(@, c)]
           /\ UNCHANGED <<pendingPacks, dataLength, sessionOf, packs, session, sessionMarkers, faults>>
  <2>1. items' \in [Packs -> SUBSET Entry]
    BY <1>0, <1>4 DEF PacksOK
  <2>2. PacksOK'
    BY <1>0, <1>1, <1>4, <2>1 DEF PacksOK
  <2>3. RestOK'
    BY <1>0, <1>1, <1>3, <1>4 DEF RestOK
  <2> QED BY <1>0, <1>2, <1>4, <2>2, <2>3, SessionUnchanged, TypePartsNext
<1>5. CASE UNCHANGED <<pendingPacks, items, dataLength, sessionOf, packs, session, sessionMarkers, faults>>
  <2>1. PacksOK'
    BY <1>0, <1>1, <1>5 DEF PacksOK
  <2>2. RestOK'
    BY <1>0, <1>1, <1>3, <1>5 DEF RestOK
  <2> QED BY <1>0, <1>2, <1>5, <2>1, <2>2, SessionUnchanged, TypePartsNext
<1>6. CASE SessionMarkerFails(c)
  <2>1. SessionOK' /\ faults' \in 0..MaxFaults
    BY <1>0, <1>6, MarkerFailsType
  <2>2. PacksOK'
    BY <1>0, <1>1, <1>6 DEF PacksOK, SessionMarkerFails
  <2>3. RestOK'
    BY <1>0, <1>1, <1>3, <2>1 DEF RestOK
  <2> QED BY <1>2, <2>1, <2>2, <2>3, TypePartsNext
<1>7. ASSUME NEW e \in Preexisting(c), NEW p \in Packs,
             getOrCreatePendingPackInfoLocked(c, p), PutItem(p, d(e)),
             pendingPacks' = [pendingPacks EXCEPT ![packPrefixForContentID[c]] = p], UNCHANGED dataLength
      PROVE  TypeInv'
  <2>1. SessionOK' /\ packs' \in Packs /\ UNCHANGED faults
    BY <1>0, <1>7, PendingType
  <2>2. e \in Entry /\ e.ts \in Int
    BY <1>0, <1>7, PreexistingType DEF Entry
  <2>3. contentWriteTime(e.ts) \in Nat
    BY <1>0, <2>2, WriteTimeType DEF RestOK
  <2>4. d(e) \in Entry
    BY <2>2, <2>3 DEF Entry
  <2>5. items' \in [Packs -> SUBSET Entry]
    BY <1>0, <1>7, <2>4, PutItemType
  <2>6. PacksOK'
    BY <1>0, <1>1, <1>7, <2>1, <2>5 DEF PacksOK
  <2>7. RestOK'
    BY <1>0, <1>1, <1>3, <2>1 DEF RestOK
  <2> QED BY <1>2, <2>1, <2>6, <2>7, TypePartsNext
<1> QED BY <1>4, <1>5, <1>6, <1>7 DEF DeleteContent

\* Every step keeps the types.
LEMMA NextType == TypeInv /\ [Next]_vars => TypeInv'
<1> SUFFICES ASSUME TypeInv, [Next]_vars PROVE TypeInv'
  OBVIOUS
<1>1. CASE UNCHANGED vars
  BY <1>1 DEF vars, storage, packing, session, history, TypeInv, TypeOK, CallOK
<1>2. CASE Tick \/ Refresh
  BY <1>2, PlainType
<1>3. ASSUME NEW g \in Goroutines, CallSome(g) PROVE TypeInv'
  <2>1. ASSUME NEW c \in Contents, WriteContent(g, c) \/ UndeleteContent(g, c) \/ RewriteContent(g, c)
        PROVE  TypeInv'
    BY <2>1, StartType DEF WriteContent, UndeleteContent, RewriteContent, Writes, TypeInv, TypeOK
  <2>2. CASE Flush(g)
    <3>1. owed' \in [Goroutines -> SUBSET Contents]
      BY <2>2 DEF Flush, TypeInv, TypeOK
    <3> QED BY <2>2, <3>1, StartType DEF Flush
  <2> QED BY <1>3, <2>1, <2>2, DeleteType, PlainType DEF CallSome
<1>4. ASSUME NEW g \in Goroutines, Step(g) PROVE TypeInv'
  BY <1>4, LockType, LookupType, FlushWaitType, AddContentType, UploadResultType, PlainType, RetryType,
     UploadType, CommitType, FinishPacksType DEF Step
<1> QED BY <1>1, <1>2, <1>3, <1>4 DEF Next

\* The types hold in every reachable state, whatever is interleaved and whichever calls fail.
THEOREM TypeCorrect == Spec => []TypeOK
<1>1. TypeInv => TypeOK
  BY DEF TypeInv
<1> QED BY <1>1, InitType, NextType, PTL DEF Spec
---------------------------------------------------------------------------
(* Packs before index *)

\* The inductive invariant behind PackBeforeIndex.  A pack holds no live entry of another pack.
OwnData == \A p \in Packs : \A e \in items[p] : ~e.deleted => e.pack = p
\* The goroutines that are uploading a pack without the mutex.
Uploading == {g \in Goroutines : pc[g] \in {"upload", "uploaded"}}
\* Nobody adds to a pack that is being uploaded: the pending packs are apart from each other and
\* from it, and the number of the next pack is new.
Apart == /\ \A x \in Prefixes : pendingPacks[x] <= packs
         /\ \A x, y \in Prefixes : x # y /\ pendingPacks[x] = pendingPacks[y] => pendingPacks[x] = None
         /\ \A g \in Uploading : /\ call[g].pp <= packs
                                 /\ \A x \in Prefixes : pendingPacks[x] # call[g].pp
\* So, what is in a pack when its upload ends is what has been uploaded.
Stored(p) == \A e \in items[p] : ~e.deleted => e.pack \in packBlobs
UploadStored == \A g \in Uploading : pc[g] = "uploaded" /\ call[g].uploaded => Stored(call[g].pp)
PackInv == PackBeforeIndex /\ OwnData /\ Apart /\ UploadStored

\* The initial state satisfies it.
LEMMA InitPackInv == Init => PackInv
<1> SUFFICES ASSUME Init PROVE PackInv
  OBVIOUS
<1>1. PackBeforeIndex
  BY DEF Init, PackBeforeIndex, InitEntries
<1>2. OwnData
  BY DEF Init, OwnData
<1>3. Uploading = {}
  BY DEF Init, Uploading
<1>4. Apart
  BY <1>3 DEF Init, Apart, None, InitPack
<1> QED BY <1>1, <1>2, <1>3, <1>4 DEF PackInv, UploadStored

\* No goroutine starts to upload a pack, or is through with it, in this step.
KeepsUploads == \A g \in Goroutines : pc'[g] \in {"upload", "uploaded"} => pc'[g] = pc[g] /\ call'[g] = call[g]

\* A goroutine that goes to a place where it uploads nothing.
LEMMA MoveKeeps == ASSUME TypeInv, NEW g \in Goroutines, NEW l, NEW r, l \notin {"upload", "uploaded"},
                          pc' = [pc EXCEPT ![g] = l], call' = [call EXCEPT ![g] = r]
                   PROVE  KeepsUploads
  BY DEF TypeInv, TypeOK, KeepsUploads

\* The steps that neither touch the packs nor the index being built.
LEMMA QuietKeeps ==
  ASSUME PackInv, KeepsUploads, UNCHANGED <<packBlobs, items, pendingPacks, packs>>,
         packIndexBuilder' \subseteq packIndexBuilder, indexed' \subseteq indexed \cup packIndexBuilder
  PROVE  PackInv'
<1>1. PackBeforeIndex'
  BY DEF PackInv, PackBeforeIndex
<1>2. OwnData'
  BY DEF PackInv, OwnData
<1>3. \A g \in Uploading' : g \in Uploading /\ pc'[g] = pc[g] /\ call'[g] = call[g]
  BY DEF KeepsUploads, Uploading
<1>4. Apart'
  BY <1>3 DEF PackInv, Apart
<1>5. UploadStored'
  BY <1>3 DEF PackInv, UploadStored, Stored
<1> QED BY <1>1, <1>2, <1>4, <1>5 DEF PackInv

\* Storing a pack stores the data of its live entries.
LEMMA WriteStores == ASSUME OwnData, NEW p \in Packs, NEW ok \in BOOLEAN, prepareAndWritePackInternal(p, ok)
                     PROVE  /\ packBlobs \subseteq packBlobs'
                            /\ ok => \A e \in items[p] : ~e.deleted => e.pack \in packBlobs'
<1>1. packBlobs \subseteq packBlobs'
  BY DEF prepareAndWritePackInternal
<1>2. ASSUME ok, NEW e \in items[p], ~e.deleted PROVE e.pack \in packBlobs'
  <2>1. e.pack = p /\ HasBlob(p)
    BY <1>2 DEF OwnData, HasBlob
  <2> QED BY <1>2, <2>1 DEF prepareAndWritePackInternal
<1> QED BY <1>1, <1>2

\* The books on a pack that is stored, if it is said to be.
LEMMA ProcessKeeps ==
  ASSUME TypeInv, PackInv, NEW p \in Packs, NEW ok \in BOOLEAN, processWritePackResultLocked(p, ok), KeepsUploads,
         packBlobs \subseteq packBlobs', ok => \A e \in items[p] : ~e.deleted => e.pack \in packBlobs',
         UNCHANGED <<indexed, packs>>,
         \A x \in Prefixes : pendingPacks'[x] = pendingPacks[x] \/ pendingPacks'[x] = None
  PROVE  PackInv'
<1>0. items \in [Packs -> SUBSET Entry] /\ packs \in Packs
  BY DEF TypeInv, TypeOK
<1>1. PackBeforeIndex'
  <2>1. packIndexBuilder' \subseteq packIndexBuilder \cup items[p]
    BY NewestSubset DEF processWritePackResultLocked
  <2>2. ~ok => packIndexBuilder' = packIndexBuilder
    BY DEF processWritePackResultLocked
  <2> QED BY <2>1, <2>2 DEF PackInv, PackBeforeIndex
<1>2. \A q \in Packs : items'[q] \subseteq items[q]
  BY <1>0 DEF processWritePackResultLocked
<1>3. OwnData'
  BY <1>2 DEF PackInv, OwnData
<1>4. \A g \in Uploading' : g \in Uploading /\ pc'[g] = pc[g] /\ call'[g] = call[g] /\ call[g].pp \in Packs
  BY DEF KeepsUploads, Uploading, TypeInv, CallOK
<1>5. Apart'
  BY <1>0, <1>4 DEF PackInv, Apart, None, Packs
<1>6. UploadStored'
  BY <1>2, <1>4 DEF PackInv, UploadStored, Stored
<1> QED BY <1>1, <1>3, <1>5, <1>6 DEF PackInv

\* An entry put into the pending pack, which is then pending again or on its way to be uploaded.
LEMMA PutKeeps ==
  ASSUME TypeInv, PackInv, NEW c \in Contents, NEW p \in Packs, NEW e, ~e.deleted => e.pack = p,
         getOrCreatePendingPackInfoLocked(c, p), PutItem(p, e), UNCHANGED <<packBlobs, indexed, packIndexBuilder>>,
         \/ /\ pendingPacks' = [pendingPacks EXCEPT ![packPrefixForContentID[c]] = p]
            /\ KeepsUploads
         \/ /\ pendingPacks' = [pendingPacks EXCEPT ![packPrefixForContentID[c]] = None]
            /\ \A g \in Goroutines : pc'[g] \in {"upload", "uploaded"} =>
                 \/ pc'[g] = pc[g] /\ call'[g] = call[g]
                 \/ pc'[g] = "upload" /\ call'[g].pp = p
  PROVE  PackInv'
<1> DEFINE x0 == packPrefixForContentID[c]
<1>0. /\ items \in [Packs -> SUBSET Entry] /\ packs \in Int /\ x0 \in Prefixes /\ p \in Int /\ p > 0
      /\ pendingPacks \in [Prefixes -> Packs \cup {None}] /\ \A x \in Prefixes : pendingPacks[x] \in Int
  BY ManagerAssumption DEF TypeInv, TypeOK, Packs, None
<1>1. \/ pendingPacks[x0] = None /\ p = packs + 1 /\ packs' = p
      \/ p = pendingPacks[x0] /\ packs' = packs
  BY DEF getOrCreatePendingPackInfoLocked, PendingPack
<1>2. \A g \in Uploading : call[g].pp \in Int /\ call[g].pp # p
  BY <1>0, <1>1 DEF PackInv, Apart, Uploading, TypeInv, CallOK, Packs
<1>3. p <= packs' /\ packs <= packs' /\ \A x \in Prefixes : x # x0 => pendingPacks[x] # p
  BY <1>0, <1>1 DEF PackInv, Apart, None
<1>4. PackBeforeIndex'
  BY DEF PackInv, PackBeforeIndex
<1>5. \A q \in Packs : items'[q] \subseteq items[q] \cup {e} /\ (q # p => items'[q] = items[q])
  BY <1>0 DEF PutItem
<1>6. OwnData'
  BY <1>5 DEF PackInv, OwnData
<1>7. \A g \in Uploading' : \/ g \in Uploading /\ pc'[g] = pc[g] /\ call'[g] = call[g]
                            \/ pc'[g] = "upload" /\ call'[g].pp = p /\ pendingPacks'[x0] = None
  <2> SUFFICES ASSUME NEW g \in Uploading'
               PROVE  \/ g \in Uploading /\ pc'[g] = pc[g] /\ call'[g] = call[g]
                      \/ pc'[g] = "upload" /\ call'[g].pp = p /\ pendingPacks'[x0] = None
    OBVIOUS
  <2>0. g \in Goroutines /\ pc'[g] \in {"upload", "uploaded"}
    BY DEF Uploading
  <2>1. CASE KeepsUploads
    BY <2>0, <2>1 DEF KeepsUploads, Uploading
  <2>2. CASE /\ pendingPacks' = [pendingPacks EXCEPT ![x0] = None]
             /\ \A h \in Goroutines : pc'[h] \in {"upload", "uploaded"} =>
                  \/ pc'[h] = pc[h] /\ call'[h] = call[h]
                  \/ pc'[h] = "upload" /\ call'[h].pp = p
    <3>1. pendingPacks'[x0] = None
      BY <1>0, <2>2
    <3>2. pc[g] = pc'[g] => g \in Uploading
      BY <2>0 DEF Uploading
    <3> QED BY <2>0, <2>2, <3>1, <3>2
  <2> QED BY <2>1, <2>2
<1>8. \A x \in Prefixes : IF x = x0 THEN pendingPacks'[x] \in {p, None} ELSE pendingPacks'[x] = pendingPacks[x]
  BY <1>0
<1> HIDE DEF x0
<1>9. Apart'
  <2>1. \A x \in Prefixes : pendingPacks'[x] <= packs'
    <3>1. packs' \in Int
      BY <1>0, <1>1
    <3> QED BY <1>0, <1>3, <1>8, <3>1 DEF PackInv, Apart, None
  <2>2. \A x, y \in Prefixes : x # y /\ pendingPacks'[x] = pendingPacks'[y] => pendingPacks'[x] = None
    BY <1>3, <1>8 DEF PackInv, Apart
  <2>3. \A g \in Uploading' : call'[g].pp <= packs'
    BY <1>0, <1>1, <1>2, <1>3, <1>7 DEF PackInv, Apart
  <2>4. \A g \in Uploading' : \A x \in Prefixes : pendingPacks'[x] # call'[g].pp
    BY <1>0, <1>2, <1>3, <1>7, <1>8 DEF PackInv, Apart, None, Uploading, TypeInv, CallOK, Packs
  <2> QED BY <2>1, <2>2, <2>3, <2>4 DEF Apart
<1>10. UploadStored'
  <2>1. \A g \in Uploading' : pc'[g] = "uploaded" =>
          g \in Uploading /\ call[g].pp \in Packs /\ call[g].pp # p /\ pc'[g] = pc[g] /\ call'[g] = call[g]
    BY <1>2, <1>7 DEF Uploading, TypeInv, CallOK
  <2> QED BY <1>5, <2>1 DEF PackInv, UploadStored, Stored
<1> QED BY <1>4, <1>6, <1>9, <1>10 DEF PackInv

\* Starting a call, the clock, a refresh and the flush counter.
LEMMA OutsideKeeps ==
  ASSUME TypeInv, PackInv,
         \/ Tick \/ Refresh
         \/ \E g \in Goroutines : \/ DisableIndexFlush(g) \/ EnableIndexFlush(g) \/ Flush(g)
                                  \/ \E c \in Contents : \/ WriteContent(g, c) \/ UndeleteContent(g, c)
                                                         \/ RewriteContent(g, c)
  PROVE  PackInv'
<1>1. UNCHANGED <<packBlobs, items, pendingPacks, packs, packIndexBuilder, indexed>>
  BY DEF Tick, Refresh, DisableIndexFlush, EnableIndexFlush, Flush, WriteContent, UndeleteContent, RewriteContent,
         Start, storage, packing
<1>2. KeepsUploads
  <2>1. CASE Tick \/ Refresh
    BY <2>1 DEF Tick, Refresh, KeepsUploads
  <2>2. ASSUME NEW g \in Goroutines, DisableIndexFlush(g) \/ EnableIndexFlush(g) PROVE KeepsUploads
    BY <2>2 DEF DisableIndexFlush, EnableIndexFlush, KeepsUploads
  <2>3. ASSUME NEW g \in Goroutines, NEW o, NEW c, NEW l \in {"retryLock", "readLock", "flushLock"},
               Start(g, o, c, l)
        PROVE  KeepsUploads
    BY <2>3, MoveKeeps DEF Start, Goto
  <2> QED BY <2>1, <2>2, <2>3 DEF Flush, WriteContent, UndeleteContent, RewriteContent
<1> QED BY <1>1, <1>2, QuietKeeps

\* A call that ends, or that a flush has returned to, uploads nothing.
LEMMA FinishKeeps == ASSUME TypeInv, NEW g \in Goroutines, NEW ok,
                            Ends(g, ok) \/ Finish(g, ok) \/ FlushReturns(g, ok)
                     PROVE  KeepsUploads
<1>1. ASSUME Ends(g, ok) PROVE KeepsUploads
  BY <1>1, MoveKeeps DEF Ends, Goto
<1>2. ASSUME Goto(g, "addLock"), UNCHANGED call PROVE KeepsUploads
  BY <1>2, MoveKeeps DEF Goto, TypeInv, TypeOK, KeepsUploads
<1> QED BY <1>1, <1>2 DEF FlushReturns, Finish

\* The steps of a call that only wait, look up or take the mutex.
LEMMA ControlKeeps ==
  ASSUME TypeInv, PackInv, NEW g \in Goroutines,
         \/ maybeRetryWritingFailedPacksUnlocked(g) \/ endRetry(g) \/ lookupContent(g) \/ readForRewrite(g)
         \/ maybeFlushBasedOnTime(g) \/ addToPack(g) \/ addAfterWait(g) \/ flushLock(g) \/ waitForWritingPacks(g)
  PROVE  PackInv'
<1>1. UNCHANGED <<packBlobs, items, pendingPacks, packs, packIndexBuilder, indexed>>
  BY DEF maybeRetryWritingFailedPacksUnlocked, endRetry, lookupContent, readForRewrite, maybeFlushBasedOnTime,
         addToPack, addAfterWait, flushLock, waitForWritingPacks, notPacking, storage, packing
<1>2. \/ Ends(g, TRUE) \/ Ends(g, FALSE)
      \/ \E l \in Places \ {"upload", "uploaded"} : Goto(g, l)
  BY DEF maybeRetryWritingFailedPacksUnlocked, endRetry, lookupContent, readForRewrite, maybeFlushBasedOnTime,
         addToPack, addAfterWait, flushLock, waitForWritingPacks, WaitWhileFlushing, Finish, Places
<1>3. \/ Ends(g, TRUE) \/ Ends(g, FALSE) \/ UNCHANGED call
      \/ \E r : call' = [call EXCEPT ![g] = r]
  <2>1. \/ Ends(g, TRUE) \/ Ends(g, FALSE) \/ UNCHANGED call
        \/ \E t : call' = [call EXCEPT ![g].todo = t]
        \/ \E t : call' = [call EXCEPT ![g].previousWriteTime = t]
        \/ \E t, d : call' = [call EXCEPT ![g].previousWriteTime = t, ![g].isDeleted = d]
    BY DEF maybeRetryWritingFailedPacksUnlocked, endRetry, lookupContent, readForRewrite, maybeFlushBasedOnTime,
           addToPack, addAfterWait, flushLock, waitForWritingPacks, WaitWhileFlushing, Finish
  <2>2. ASSUME NEW t, NEW d, call' = [call EXCEPT ![g].previousWriteTime = t, ![g].isDeleted = d]
        PROVE  call' = [call EXCEPT ![g] = [call[g] EXCEPT !.previousWriteTime = t, !.isDeleted = d]]
    BY <2>2 DEF TypeInv, TypeOK
  <2> QED BY <2>1, <2>2
<1>4. KeepsUploads
  <2>1. CASE Ends(g, TRUE) \/ Ends(g, FALSE)
    BY <2>1, FinishKeeps
  <2>2. ASSUME NEW l \in Places \ {"upload", "uploaded"}, Goto(g, l), UNCHANGED call PROVE KeepsUploads
    BY <2>2 DEF Goto, TypeInv, TypeOK, KeepsUploads
  <2>3. ASSUME NEW l \in Places \ {"upload", "uploaded"}, Goto(g, l), NEW r, call' = [call EXCEPT ![g] = r]
        PROVE  KeepsUploads
    BY <2>3, MoveKeeps DEF Goto
  <2> QED BY <1>2, <1>3, <2>1, <2>2, <2>3
<1> QED BY <1>1, <1>4, QuietKeeps

\* Writing the index refers to what is in the builder, and to nothing else.
LEMMA CommitKeeps == ASSUME TypeInv, PackInv, NEW g \in Goroutines, NEW ok \in BOOLEAN,
                            flushPackIndexesLocked(g, ok) \/ commitSession(g, ok) \/ addIndexBlob(g, ok)
                     PROVE  PackInv'
<1>1. UNCHANGED <<packBlobs, items, pendingPacks, packs>>
  BY DEF flushPackIndexesLocked, commitSession, addIndexBlob, storage, packing
<1>2. packIndexBuilder' \subseteq packIndexBuilder /\ indexed' \subseteq indexed \cup packIndexBuilder
  <2>1. CASE flushPackIndexesLocked(g, ok)
    BY <2>1 DEF flushPackIndexesLocked, packing
  <2>2. CASE commitSession(g, ok)
    BY <2>2 DEF commitSession, packing
  <2>3. CASE addIndexBlob(g, ok)
    BY <2>3 DEF addIndexBlob, storage
  <2> QED BY <2>1, <2>2, <2>3
<1>3. \/ FlushReturns(g, TRUE) \/ FlushReturns(g, FALSE)
      \/ (Goto(g, "flushCommit") \/ Goto(g, "flushAdd")) /\ UNCHANGED call
  BY DEF flushPackIndexesLocked, commitSession, addIndexBlob
<1>4. ASSUME NEW l \in {"flushCommit", "flushAdd"}, Goto(g, l), UNCHANGED call PROVE KeepsUploads
  BY <1>4 DEF Goto, TypeInv, TypeOK, KeepsUploads
<1>5. KeepsUploads
  BY <1>3, <1>4, FinishKeeps
<1> QED BY <1>1, <1>2, <1>5, QuietKeeps

\* A pack written under the mutex is stored before its entries are added.
LEMMA LockedWriteKeeps == ASSUME TypeInv, PackInv, NEW g \in Goroutines, NEW ok \in BOOLEAN,
                                 retryFailedPack(g, ok) \/ \E x \in Prefixes : finishAllPacksLocked(g, x, ok)
                          PROVE  PackInv'
<1>1. CASE retryFailedPack(g, ok)
  <2> DEFINE p == Head(call[g].todo)
  <2>1. call[g].todo \in Seq(Packs) /\ call[g].todo # << >>
    BY <1>1 DEF TypeInv, TypeOK, CallRecord, retryFailedPack
  <2>2. p \in Packs
    BY <2>1
  <2>3. /\ prepareAndWritePackInternal(p, ok) /\ processWritePackResultLocked(p, ok)
        /\ UNCHANGED <<indexed, packs, pendingPacks>>
    BY <1>1 DEF retryFailedPack
  <2> HIDE DEF p
  <2>4. KeepsUploads
    <3>1. CASE ok
      <4>1. pc' = pc /\ pc[g] \notin {"upload", "uploaded"}
        BY <1>1, <3>1 DEF retryFailedPack
      <4>2. \A h \in Goroutines \ {g} : call'[h] = call[h]
        BY <1>1, <3>1 DEF retryFailedPack, TypeInv, TypeOK
      <4> QED BY <4>1, <4>2 DEF KeepsUploads
    <3>2. CASE ~ok
      BY <1>1, <3>2, FinishKeeps DEF retryFailedPack
    <3> QED BY <3>1, <3>2
  <2>5. /\ packBlobs \subseteq packBlobs'
        /\ ok => \A e \in items[p] : ~e.deleted => e.pack \in packBlobs'
    BY <2>2, <2>3, WriteStores DEF PackInv
  <2> QED BY <2>2, <2>3, <2>4, <2>5, ProcessKeeps
<1>2. ASSUME NEW x \in Prefixes, finishAllPacksLocked(g, x, ok) PROVE PackInv'
  <2> DEFINE p == pendingPacks[x]
  <2>1. p \in Packs
    BY <1>2 DEF TypeInv, TypeOK, finishAllPacksLocked
  <2>2. /\ prepareAndWritePackInternal(p, ok) /\ processWritePackResultLocked(p, ok)
        /\ UNCHANGED <<indexed, packs>>
    BY <1>2 DEF finishAllPacksLocked
  <2>3. \A y \in Prefixes : pendingPacks'[y] = pendingPacks[y] \/ pendingPacks'[y] = None
    BY <1>2 DEF finishAllPacksLocked, TypeInv, TypeOK
  <2> HIDE DEF p
  <2>4. KeepsUploads
    <3>1. CASE ok
      BY <1>2, <3>1 DEF finishAllPacksLocked, KeepsUploads
    <3>2. CASE ~ok
      BY <1>2, <3>2, FinishKeeps DEF finishAllPacksLocked
    <3> QED BY <3>1, <3>2
  <2>5. /\ packBlobs \subseteq packBlobs'
        /\ ok => \A e \in items[p] : ~e.deleted => e.pack \in packBlobs'
    BY <2>1, <2>2, WriteStores DEF PackInv
  <2> QED BY <2>1, <2>2, <2>3, <2>4, <2>5, ProcessKeeps
<1> QED BY <1>1, <1>2

\* The upload without the mutex stores the pack, which nobody has added to since, ...
LEMMA UploadKeeps == ASSUME TypeInv, PackInv, NEW g \in Goroutines, NEW ok \in BOOLEAN, uploadPack(g, ok)
                     PROVE  PackInv'
<1> DEFINE p == call[g].pp
<1>1. p \in Packs /\ g \in Uploading /\ call[g] \in CallRecord
  BY DEF uploadPack, Uploading, TypeInv, TypeOK, CallOK
<1>2. /\ packBlobs \subseteq packBlobs'
      /\ ok => \A e \in items[p] : ~e.deleted => e.pack \in packBlobs'
  BY <1>1, WriteStores DEF PackInv, uploadPack
<1>3. UNCHANGED <<items, pendingPacks, packs, packIndexBuilder, indexed>>
  BY DEF uploadPack, packing
<1>4. /\ \A h \in Goroutines : pc'[h] = IF h = g THEN "uploaded" ELSE pc[h]
      /\ \A h \in Goroutines \ {g} : call'[h] = call[h]
      /\ call'[g].pp = p /\ call'[g].uploaded = ok
  BY <1>1 DEF uploadPack, Goto, TypeInv, TypeOK, CallRecord
<1>5. Uploading' = Uploading /\ \A h \in Uploading : call'[h].pp = call[h].pp
  BY <1>1, <1>4 DEF Uploading, uploadPack
<1>6. PackBeforeIndex' /\ OwnData'
  BY <1>2, <1>3 DEF PackInv, PackBeforeIndex, OwnData
<1>7. Apart'
  BY <1>3, <1>5 DEF PackInv, Apart
<1>8. UploadStored'
  <2>1. \A h \in Uploading \ {g} : pc'[h] = pc[h] /\ call'[h] = call[h]
    BY <1>4 DEF Uploading
  <2> QED BY <1>2, <1>3, <1>4, <1>5, <2>1 DEF PackInv, UploadStored, Stored
<1> QED BY <1>6, <1>7, <1>8 DEF PackInv

\* ... and only then the entries are added.
LEMMA UploadResultKeeps == ASSUME TypeInv, PackInv, NEW g \in Goroutines, uploadResult(g)
                           PROVE  PackInv'
<1> DEFINE p == call[g].pp
<1>1. p \in Packs /\ g \in Uploading /\ call[g].uploaded \in BOOLEAN /\ pc[g] = "uploaded"
  BY DEF uploadResult, Uploading, TypeInv, TypeOK, CallOK, CallRecord
<1>2. call[g].uploaded => \A e \in items[p] : ~e.deleted => e.pack \in packBlobs
  BY <1>1 DEF PackInv, UploadStored, Stored
<1>3. /\ processWritePackResultLocked(p, call[g].uploaded)
      /\ UNCHANGED <<packBlobs, indexed, packs, pendingPacks>>
  BY DEF uploadResult, storage
<1>4. KeepsUploads
  BY FinishKeeps DEF uploadResult
<1> HIDE DEF p
<1> QED BY <1>1, <1>2, <1>3, <1>4, ProcessKeeps

\* A new content goes into a pack that nobody is uploading.
LEMMA AddContentKeeps == ASSUME TypeInv, PackInv, NEW g \in Goroutines, addContent(g)
                         PROVE  PackInv'
<1> DEFINE c == call[g].content
           e(p) == [content |-> c, pack |-> p, ts |-> contentWriteTime(call[g].previousWriteTime),
                    deleted |-> call[g].isDeleted]
<1>1. c \in Contents /\ call[g] \in CallRecord
  BY DEF TypeInv, TypeOK, CallOK, addContent, AddPlaces
<1>2. UNCHANGED <<packBlobs, indexed, packIndexBuilder>>
  BY DEF addContent
<1>3. CASE SessionMarkerFails(c) /\ Finish(g, FALSE)
  BY <1>2, <1>3, FinishKeeps, QuietKeeps DEF SessionMarkerFails
<1>4. ASSUME NEW p \in Packs, getOrCreatePendingPackInfoLocked(c, p), PutItem(p, e(p)),
             \/ /\ pendingPacks' = [pendingPacks EXCEPT ![packPrefixForContentID[c]] = None]
                /\ call' = [call EXCEPT ![g].pp = p] /\ Goto(g, "upload")
             \/ /\ pendingPacks' = [pendingPacks EXCEPT ![packPrefixForContentID[c]] = p]
                /\ Finish(g, TRUE)
      PROVE  PackInv'
  <2>1. e(p).pack = p
    OBVIOUS
  <2>2. CASE /\ pendingPacks' = [pendingPacks EXCEPT ![packPrefixForContentID[c]] = p]
             /\ Finish(g, TRUE)
    <3>1. KeepsUploads
      BY <2>2, FinishKeeps
    <3> HIDE DEF e
    <3> QED BY <1>1, <1>2, <1>4, <2>1, <2>2, <3>1, PutKeeps
  <2>3. CASE /\ pendingPacks' = [pendingPacks EXCEPT ![packPrefixForContentID[c]] = None]
             /\ call' = [call EXCEPT ![g].pp = p] /\ Goto(g, "upload")
    <3>1. pc'[g] = "upload" /\ call'[g].pp = p
      BY <1>1, <2>3 DEF Goto, TypeInv, TypeOK, CallRecord
    <3>2. \A h \in Goroutines \ {g} : pc'[h] = pc[h] /\ call'[h] = call[h]
      BY <2>3 DEF Goto, TypeInv, TypeOK
    <3>3. \A h \in Goroutines : \/ pc'[h] = pc[h] /\ call'[h] = call[h]
                                \/ pc'[h] = "upload" /\ call'[h].pp = p
      BY <3>1, <3>2
    <3> HIDE DEF e
    <3> QED BY <1>1, <1>2, <1>4, <2>1, <2>3, <3>3, PutKeeps
  <2> QED BY <1>4, <2>2, <2>3
<1> QED BY <1>3, <1>4 DEF addContent

\* A delete takes an entry from a pending pack, or puts a tombstone into one.
LEMMA DeleteKeeps == ASSUME TypeInv, PackInv, NEW g \in Goroutines, NEW c \in Contents, DeleteContent(g, c)
                     PROVE  PackInv'
<1> DEFINE d(e) == [e EXCEPT !.deleted = TRUE, !.ts = contentWriteTime(e.ts)]
<1>1. UNCHANGED <<packBlobs, indexed, packIndexBuilder, pc, call>> /\ KeepsUploads
  BY DEF DeleteContent, KeepsUploads
<1>2. CASE UNCHANGED <<pendingPacks, items, packs>>
  BY <1>1, <1>2, QuietKeeps
<1>3. CASE /\ items' = [items EXCEPT ![PendingPack(c)] = @ \ Of(@, c)]
           /\ UNCHANGED <<pendingPacks, packs>>
  <2>1. \A p \in Packs : items'[p] \subseteq items[p]
    BY <1>3 DEF TypeInv, TypeOK
  <2>2. PackBeforeIndex' /\ OwnData'
    BY <1>1, <2>1 DEF PackInv, PackBeforeIndex, OwnData
  <2>3. Uploading' = Uploading /\ \A h \in Uploading : call[h].pp \in Packs
    BY <1>1 DEF Uploading, TypeInv, CallOK
  <2>4. Apart' /\ UploadStored'
    BY <1>1, <1>3, <2>1, <2>3 DEF PackInv, Apart, UploadStored, Stored
  <2> QED BY <2>2, <2>4 DEF PackInv
<1>4. ASSUME NEW e \in Preexisting(c), NEW p \in Packs,
             getOrCreatePendingPackInfoLocked(c, p), PutItem(p, d(e)),
             pendingPacks' = [pendingPacks EXCEPT ![packPrefixForContentID[c]] = p]
      PROVE  PackInv'
  <2>1. e \in Entry
    <3>1. PacksOK /\ RestOK
      BY TypeParts
    <3> QED BY <3>1, PreexistingType
  <2>2. d(e).deleted
    BY <2>1 DEF Entry
  <2> HIDE DEF d
  <2> QED BY <1>1, <1>4, <2>2, PutKeeps
<1> QED BY <1>2, <1>3, <1>4 DEF DeleteContent, SessionMarkerFails

\* Every step keeps the invariant.
LEMMA NextPackInv == TypeInv /\ PackInv /\ [Next]_vars => PackInv'
<1> SUFFICES ASSUME TypeInv, PackInv, [Next]_vars PROVE PackInv'
  OBVIOUS
<1>1. CASE UNCHANGED vars
  <2>1. KeepsUploads /\ UNCHANGED <<packBlobs, items, pendingPacks, packs, packIndexBuilder, indexed>>
    BY <1>1 DEF vars, storage, packing, KeepsUploads
  <2> QED BY <2>1, QuietKeeps
<1>2. CASE Tick \/ Refresh
  BY <1>2, OutsideKeeps
<1>3. ASSUME NEW g \in Goroutines, CallSome(g) PROVE PackInv'
  BY <1>3, OutsideKeeps, DeleteKeeps DEF CallSome
<1>4. ASSUME NEW g \in Goroutines, Step(g) PROVE PackInv'
  BY <1>4, ControlKeeps, OutsideKeeps, AddContentKeeps, UploadResultKeeps, LockedWriteKeeps, UploadKeeps,
     CommitKeeps DEF Step
<1> QED BY <1>1, <1>2, <1>3, <1>4 DEF Next

\* At no instant does an index, written or being built, refer to live data of a pack that is not in
\* storage, whichever uploads fail and however uploads, deletes and flushes interleave: a crash of
\* the client leaves no index entry without its data.
THEOREM PacksBeforeIndexes == Spec => []PackBeforeIndex
<1>1. PackInv => PackBeforeIndex
  BY DEF PackInv
<1> QED BY <1>1, InitType, NextType, InitPackInv, NextPackInv, PTL DEF Spec
=============================================================================
