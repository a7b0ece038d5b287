---------------------- MODULE WriteManagerFlushProofs ----------------------
(***************************************************************************)
(* More about WriteManager: what was written is not forgotten when uploads *)
(* fail, what was written before a flush is in the index when the flush    *)
(* returns, the marker of a session is there as long as it is needed, and  *)
(* the newest entry of a content says whether it exists.                   *)
(***************************************************************************)
EXTENDS WriteManagerProofs

(* Who holds the mutex, and what a flush may rely on *)

\* Where a goroutine keeps the mutex between two steps.
Locked == {"retry", "addRetry", "flushRetry", "flushPacks", "flushCommit", "flushAdd"}
MutexHeld == \A g \in Goroutines : pc[g] \in Locked => mu = g

\* From writing the pending packs on nothing is uploaded, and once the index is written nothing
\* is pending and everything in the index being built is in it.
Flushing == {"flushPacks", "flushCommit", "flushAdd"}
Committing == {"flushCommit", "flushAdd"}
FlushAlone == \A g \in Goroutines :
  /\ pc[g] \in Flushing => writingPacks = << >>
  /\ pc[g] \in Committing => NothingPending /\ packIndexBuilder \subseteq indexed

\* What the client has read of the index is in it.
CommittedIndexed == committed \subseteq indexed

LockInv == MutexHeld /\ FlushAlone /\ CommittedIndexed

\* A step of one goroutine, as the others see it: with the mutex, or leaving their state alone.
flushState == <<writingPacks, pendingPacks, packIndexBuilder, indexed, committed>>
Moves(g) ==
  /\ \A h \in Goroutines \ {g} : pc'[h] = pc[h]
  /\ mu' = mu \/ mu = Nil \/ mu = g
  /\ mu = Nil \/ mu = g \/ UNCHANGED flushState
  /\ pc'[g] \in Locked => mu' = g
  /\ pc'[g] \in Flushing => writingPacks' = << >>
  /\ pc'[g] \in Committing => NothingPending' /\ packIndexBuilder' \subseteq indexed'
  /\ committed' \subseteq indexed'

\* Such a step keeps the invariant.
LEMMA MovesLock == ASSUME TypeInv, LockInv, NEW g \in Goroutines, Moves(g) PROVE LockInv'
<1>1. ASSUME NEW h \in Goroutines \ {g}, pc'[h] \in Locked
      PROVE  mu' = h /\ mu # Nil /\ mu # g
  <2>1. pc[h] \in Locked
    BY <1>1 DEF Moves
  <2>2. mu = h
    BY <2>1 DEF LockInv, MutexHeld
  <2> QED BY <2>2, ManagerAssumption DEF Moves
<1>2. MutexHeld'
  BY <1>1 DEF Moves, MutexHeld
<1>3. FlushAlone'
  <2> SUFFICES ASSUME NEW h \in Goroutines, pc'[h] \in Flushing
               PROVE  /\ writingPacks' = << >>
                      /\ pc'[h] \in Committing => NothingPending' /\ packIndexBuilder' \subseteq indexed'
    BY DEF FlushAlone, Flushing, Committing
  <2>1. CASE h = g
    BY <2>1 DEF Moves
  <2>2. CASE h # g
    <3>1. pc'[h] = pc[h] /\ UNCHANGED flushState
      BY <1>1, <2>2 DEF Moves, Flushing, Locked
    <3>2. /\ writingPacks = << >>
          /\ pc[h] \in Committing => NothingPending /\ packIndexBuilder \subseteq indexed
      BY <3>1 DEF LockInv, FlushAlone
    <3> QED BY <3>1, <3>2 DEF flushState, NothingPending
  <2> QED BY <2>1, <2>2
<1> QED BY <1>2, <1>3 DEF Moves, LockInv, CommittedIndexed

\* A goroutine at a place where it keeps the mutex has it.
LEMMA HasMutex == ASSUME LockInv, NEW g \in Goroutines, pc[g] \in Locked PROVE mu = g
  BY DEF LockInv, MutexHeld

\* Only the goroutine itself is moved.
LEMMA GotoOne == ASSUME TypeInv, NEW g \in Goroutines, NEW l, Goto(g, l)
                 PROVE  pc'[g] = l /\ \A h \in Goroutines \ {g} : pc'[h] = pc[h]
  BY DEF Goto, TypeInv, TypeOK

\* A call ends.
LEMMA FinishOne == ASSUME TypeInv, NEW g \in Goroutines, NEW ok, Ends(g, ok) \/ Finish(g, ok)
                   PROVE  pc'[g] = "idle" /\ \A h \in Goroutines \ {g} : pc'[h] = pc[h]
  BY GotoOne DEF Finish, Ends

\* A flush returns.
LEMMA ReturnOne == ASSUME TypeInv, NEW g \in Goroutines, NEW ok, FlushReturns(g, ok)
                   PROVE  pc'[g] \in {"idle", "addLock"} /\ \A h \in Goroutines \ {g} : pc'[h] = pc[h]
  BY GotoOne, FinishOne DEF FlushReturns

\* Places outside.
LEMMA PlaceFacts == /\ \A l \in {"idle", "retryLock", "lookup", "readLock", "add", "addLock", "addWait", "upload", "uploaded",
                                 "flushLock", "flushWait"} : l \notin Locked \cup Flushing \cup Committing
                    /\ \A l \in {"retry", "addRetry", "flushRetry"} : l \in Locked /\ l \notin Flushing \cup Committing
                    /\ "flushPacks" \in Locked \cap Flushing /\ "flushPacks" \notin Committing
                    /\ Committing \subseteq Locked \cap Flushing
  BY DEF Locked, Flushing, Committing

\* The steps that touch neither packs nor indexes.
LEMMA QuietMoves ==
  ASSUME TypeInv, LockInv, NEW g \in Goroutines, UNCHANGED flushState,
         \A h \in Goroutines \ {g} : pc'[h] = pc[h],
         mu' = mu \/ mu = Nil \/ mu = g, pc'[g] \in Locked => mu' = g, pc'[g] \notin Flushing
  PROVE  Moves(g)
  BY PlaceFacts DEF Moves, flushState, LockInv, CommittedIndexed

\* Steps outside the mutex, and those that take it for a moment.
LEMMA OutsideMoves ==
  ASSUME TypeInv, LockInv, NEW g \in Goroutines,
         \/ Flush(g) \/ DisableIndexFlush(g) \/ EnableIndexFlush(g) \/ lookupContent(g) \/ readForRewrite(g)
         \/ maybeFlushBasedOnTime(g)
         \/ \E c \in Contents : WriteContent(g, c) \/ UndeleteContent(g, c) \/ RewriteContent(g, c)
         \/ \E ok \in BOOLEAN : uploadPack(g, ok)
  PROVE  Moves(g)
<1>1. UNCHANGED <<flushState, mu>>
  BY DEF Flush, DisableIndexFlush, EnableIndexFlush, lookupContent, readForRewrite, maybeFlushBasedOnTime,
         WriteContent, UndeleteContent, RewriteContent, uploadPack, Start, notPacking, packing, storage, flushState
<1>2. \/ UNCHANGED pc /\ pc[g] = "idle"
      \/ \E l \in {"retryLock", "readLock", "flushLock", "add", "uploaded"} : Goto(g, l)
      \/ Ends(g, TRUE) \/ Ends(g, FALSE)
  BY DEF Flush, DisableIndexFlush, EnableIndexFlush, lookupContent, readForRewrite, maybeFlushBasedOnTime,
         WriteContent, UndeleteContent, RewriteContent, uploadPack, Start
<1>3. pc'[g] \notin Locked \cup Flushing /\ \A h \in Goroutines \ {g} : pc'[h] = pc[h]
  <2>1. CASE UNCHANGED pc /\ pc[g] = "idle"
    BY <2>1, PlaceFacts
  <2>2. ASSUME NEW l \in {"retryLock", "readLock", "flushLock", "add", "uploaded"}, Goto(g, l)
        PROVE  pc'[g] \notin Locked \cup Flushing /\ \A h \in Goroutines \ {g} : pc'[h] = pc[h]
    BY <2>2, GotoOne, PlaceFacts
  <2>3. CASE Ends(g, TRUE) \/ Ends(g, FALSE)
    BY <2>3, FinishOne, PlaceFacts
  <2> QED BY <1>2, <2>1, <2>2, <2>3
<1> QED BY <1>1, <1>3, QuietMoves

\* Waiting for a flush to end, or taking the mutex.
LEMMA WaitMoves == ASSUME TypeInv, NEW g \in Goroutines, NEW wait, NEW next, CanLock(g), WaitWhileFlushing(g, wait, next)
                   PROVE  /\ \A h \in Goroutines \ {g} : pc'[h] = pc[h]
                          /\ mu = Nil /\ (pc'[g] = wait \/ (pc'[g] = next /\ mu' = g))
  BY GotoOne DEF WaitWhileFlushing, CanLock, Lock

\* Taking the mutex, and giving it back.
LEMMA LockMoves ==
  ASSUME TypeInv, LockInv, NEW g \in Goroutines,
         \/ maybeRetryWritingFailedPacksUnlocked(g) \/ endRetry(g) \/ addToPack(g) \/ addAfterWait(g) \/ flushLock(g)
  PROVE  Moves(g)
<1>1. UNCHANGED flushState
  BY DEF maybeRetryWritingFailedPacksUnlocked, endRetry, addToPack, addAfterWait, flushLock, notPacking, notFlushing,
         packing, storage, flushState
<1>2. CASE maybeRetryWritingFailedPacksUnlocked(g)
  <2>1. CanLock(g) /\ WaitWhileFlushing(g, "retryLock", "retry")
    BY <1>2 DEF maybeRetryWritingFailedPacksUnlocked
  <2> QED BY <1>1, <2>1, WaitMoves, PlaceFacts, QuietMoves
<1>3. CASE endRetry(g)
  <2>1. mu = g /\ Goto(g, "lookup")
    BY <1>3, HasMutex, PlaceFacts DEF endRetry
  <2> QED BY <1>1, <2>1, GotoOne, PlaceFacts, QuietMoves
<1>4. CASE addToPack(g)
  <2>1. CanLock(g) /\ (Finish(g, TRUE) \/ WaitWhileFlushing(g, "addWait", "addRetry"))
    BY <1>4 DEF addToPack
  <2>2. CASE Finish(g, TRUE)
    BY <1>1, <2>1, <2>2, FinishOne, PlaceFacts, QuietMoves DEF CanLock
  <2>3. CASE WaitWhileFlushing(g, "addWait", "addRetry")
    BY <1>1, <2>1, <2>3, WaitMoves, PlaceFacts, QuietMoves
  <2> QED BY <2>1, <2>2, <2>3
<1>5. CASE addAfterWait(g)
  <2>1. CanLock(g) /\ WaitWhileFlushing(g, "addWait", "addRetry")
    BY <1>5 DEF addAfterWait
  <2> QED BY <1>1, <2>1, WaitMoves, PlaceFacts, QuietMoves
<1>6. CASE flushLock(g)
  <2>1. mu = Nil /\ mu' = g /\ Goto(g, "flushRetry")
    BY <1>6 DEF flushLock, CanLock, Lock
  <2> QED BY <1>1, <2>1, GotoOne, PlaceFacts, QuietMoves
<1> QED BY <1>2, <1>3, <1>4, <1>5, <1>6

\* Waiting for the uploads of the others.
LEMMA FlushWaitMoves == ASSUME TypeInv, LockInv, NEW g \in Goroutines, waitForWritingPacks(g) PROVE Moves(g)
<1>1. UNCHANGED flushState
  BY DEF waitForWritingPacks, notFlushing, packing, storage, flushState
<1>2. mu = Nil \/ mu = g
  BY HasMutex, PlaceFacts DEF waitForWritingPacks, CanLock
<1>3. CASE writingPacks # << >>
  <2>1. Goto(g, "flushWait")
    BY <1>3 DEF waitForWritingPacks
  <2> QED BY <1>1, <1>2, <2>1, GotoOne, PlaceFacts, QuietMoves
<1>4. CASE writingPacks = << >>
  <2>1. Goto(g, "flushPacks") /\ mu' = g
    BY <1>4 DEF waitForWritingPacks
  <2>2. pc'[g] = "flushPacks" /\ \A h \in Goroutines \ {g} : pc'[h] = pc[h]
    BY <2>1, GotoOne
  <2> QED BY <1>1, <1>2, <1>4, <2>1, <2>2, PlaceFacts DEF Moves, flushState, LockInv, CommittedIndexed
<1> QED BY <1>3, <1>4

\* Removing from a slice with nothing in it.
LEMMA RemoveNone == ASSUME NEW p PROVE removePendingPack(<< >>, p) = << >>
  BY DEF removePendingPack

\* Packs that are written with the mutex.
LEMMA LockedWriteMoves ==
  ASSUME TypeInv, LockInv, NEW g \in Goroutines, NEW ok \in BOOLEAN,
         retryFailedPack(g, ok) \/ \E x \in Prefixes : finishAllPacksLocked(g, x, ok)
  PROVE  Moves(g)
<1>1. mu = g /\ indexed' = indexed /\ committed' = committed
  BY HasMutex, PlaceFacts DEF retryFailedPack, finishAllPacksLocked
<1>2. CASE retryFailedPack(g, ok)
  <2>1. \/ UNCHANGED <<pc, mu>> /\ pc[g] \in {"retry", "addRetry", "flushRetry"}
        \/ Finish(g, FALSE)
    BY <1>2 DEF retryFailedPack
  <2> QED BY <1>1, <2>1, FinishOne, PlaceFacts DEF Moves, LockInv, CommittedIndexed
<1>3. ASSUME NEW x \in Prefixes, finishAllPacksLocked(g, x, ok) PROVE Moves(g)
  <2>1. \/ UNCHANGED <<pc, mu>> /\ pc[g] = "flushPacks"
        \/ Finish(g, FALSE)
    BY <1>3 DEF finishAllPacksLocked
  <2>2. writingPacks' = removePendingPack(writingPacks, pendingPacks[x])
    BY <1>3 DEF finishAllPacksLocked, processWritePackResultLocked
  <2>3. CASE UNCHANGED <<pc, mu>> /\ pc[g] = "flushPacks"
    <3>1. writingPacks = << >>
      BY <2>3, PlaceFacts DEF LockInv, FlushAlone
    <3>2. writingPacks' = << >>
      BY <2>2, <3>1, RemoveNone
    <3> QED BY <1>1, <2>3, <3>2, PlaceFacts DEF Moves, LockInv, CommittedIndexed
  <2>4. CASE Finish(g, FALSE)
    BY <1>1, <2>4, FinishOne, PlaceFacts DEF Moves, LockInv, CommittedIndexed
  <2> QED BY <2>1, <2>3, <2>4
<1> QED BY <1>2, <1>3

\* The index is written, the session ends, the committed entries get the new ones.
LEMMA CommitMoves ==
  ASSUME TypeInv, LockInv, NEW g \in Goroutines, NEW ok \in BOOLEAN,
         flushPackIndexesLocked(g, ok) \/ commitSession(g, ok) \/ addIndexBlob(g, ok)
  PROVE  Moves(g)
<1>1. /\ mu = g /\ writingPacks = << >>
      /\ UNCHANGED <<writingPacks, pendingPacks>>
  BY HasMutex, PlaceFacts DEF flushPackIndexesLocked, commitSession, addIndexBlob, packing, LockInv, FlushAlone, Committing
<1>2. CASE flushPackIndexesLocked(g, ok)
  <2>1. committed' = committed /\ indexed \subseteq indexed'
    BY <1>2 DEF flushPackIndexesLocked
  <2>2. \/ FlushReturns(g, TRUE) \/ FlushReturns(g, FALSE)
        \/ Goto(g, "flushCommit") /\ mu' = mu /\ NothingPending /\ indexed' = indexed \cup packIndexBuilder
             /\ packIndexBuilder' = packIndexBuilder
    BY <1>2 DEF flushPackIndexesLocked, packing
  <2>3. CASE FlushReturns(g, TRUE) \/ FlushReturns(g, FALSE)
    BY <1>1, <2>1, <2>3, ReturnOne, PlaceFacts DEF Moves, LockInv, CommittedIndexed
  <2>4. CASE Goto(g, "flushCommit") /\ mu' = mu /\ NothingPending /\ indexed' = indexed \cup packIndexBuilder
             /\ packIndexBuilder' = packIndexBuilder
    <3>1. NothingPending'
      BY <1>1, <2>4 DEF NothingPending
    <3> QED BY <1>1, <2>1, <2>4, <3>1, GotoOne, PlaceFacts DEF Moves, LockInv, CommittedIndexed
  <2> QED BY <2>2, <2>3, <2>4
<1>3. CASE commitSession(g, ok)
  <2>1. UNCHANGED <<indexed, committed, packIndexBuilder>>
    BY <1>3 DEF commitSession, packing
  <2>2. FlushReturns(g, FALSE) \/ (Goto(g, "flushAdd") /\ mu' = mu)
    BY <1>3 DEF commitSession
  <2>3. NothingPending' /\ packIndexBuilder' \subseteq indexed'
    BY <1>1, <1>3, <2>1 DEF commitSession, LockInv, FlushAlone, Committing, NothingPending
  <2>4. CASE FlushReturns(g, FALSE)
    BY <1>1, <2>1, <2>4, ReturnOne, PlaceFacts DEF Moves, LockInv, CommittedIndexed
  <2>5. CASE Goto(g, "flushAdd") /\ mu' = mu
    BY <1>1, <2>1, <2>3, <2>5, GotoOne, PlaceFacts DEF Moves, LockInv, CommittedIndexed
  <2> QED BY <2>2, <2>4, <2>5
<1>4. CASE addIndexBlob(g, ok)
  <2>1. packIndexBuilder \subseteq indexed /\ indexed' = indexed
    BY <1>4 DEF addIndexBlob, LockInv, FlushAlone, Committing, storage
  <2>2. FlushReturns(g, ok) /\ committed' \subseteq committed \cup packIndexBuilder
    BY <1>4 DEF addIndexBlob
  <2> QED BY <1>1, <2>1, <2>2, ReturnOne, PlaceFacts DEF Moves, LockInv, CommittedIndexed
<1> QED BY <1>2, <1>3, <1>4

\* Contents are added, deleted and uploaded.
LEMMA PackMoves ==
  ASSUME TypeInv, LockInv, NEW g \in Goroutines,
         addContent(g) \/ uploadResult(g) \/ \E c \in Contents : DeleteContent(g, c)
  PROVE  Moves(g)
<1>1. (mu = g \/ mu = Nil) /\ UNCHANGED <<indexed, committed>>
  BY HasMutex, PlaceFacts DEF addContent, uploadResult, DeleteContent, storage
<1>2. CASE addContent(g) \/ uploadResult(g)
  <2>1. Finish(g, TRUE) \/ Finish(g, FALSE) \/ Goto(g, "upload")
    BY <1>2 DEF addContent, uploadResult, TypeInv, TypeOK, CallRecord
  <2>2. pc'[g] \notin Locked \cup Flushing \cup Committing /\ \A h \in Goroutines \ {g} : pc'[h] = pc[h]
    BY <2>1, FinishOne, GotoOne, PlaceFacts
  <2> QED BY <1>1, <2>2 DEF Moves, LockInv, CommittedIndexed
<1>3. ASSUME NEW c \in Contents, DeleteContent(g, c) PROVE Moves(g)
  <2>1. UNCHANGED <<pc, mu>> /\ pc[g] = "idle"
    BY <1>3 DEF DeleteContent
  <2> QED BY <1>1, <2>1, PlaceFacts DEF Moves, LockInv, CommittedIndexed
<1> QED BY <1>2, <1>3

\* Every step keeps it.
LEMMA NextLock == TypeInv /\ LockInv /\ [Next]_vars => LockInv'
<1> SUFFICES ASSUME TypeInv, LockInv, [Next]_vars PROVE LockInv'
  OBVIOUS
<1>1. CASE UNCHANGED vars \/ Tick \/ Refresh
  <2>1. UNCHANGED <<pc, mu, writingPacks, pendingPacks, packIndexBuilder, indexed>> /\ committed' \subseteq indexed
    BY <1>1 DEF vars, Tick, Refresh, storage, packing, LockInv, CommittedIndexed
  <2> QED BY <2>1 DEF LockInv, MutexHeld, FlushAlone, CommittedIndexed, NothingPending
<1>2. ASSUME NEW g \in Goroutines, CallSome(g) PROVE LockInv'
  <2>1. Moves(g)
    BY <1>2, OutsideMoves, PackMoves DEF CallSome
  <2> QED BY <2>1, MovesLock
<1>3. ASSUME NEW g \in Goroutines, Step(g) PROVE LockInv'
  <2>1. Moves(g)
    BY <1>3, OutsideMoves, LockMoves, FlushWaitMoves, LockedWriteMoves, CommitMoves, PackMoves DEF Step
  <2> QED BY <2>1, MovesLock
<1> QED BY <1>1, <1>2, <1>3 DEF Next

\* Nobody has the mutex initially.
LEMMA InitLock == Init => LockInv
  BY DEF Init, LockInv, MutexHeld, FlushAlone, CommittedIndexed, Locked, Flushing, Committing
----------------------------------------------------------------------------
(* Slices of packs, and entries of which there is one per content *)

Among(s, p) == \E i \in 1..Len(s) : s[i] = p

\* Removing a pack from a slice leaves the others in it, and adds none.
LEMMA RemoveOthers == ASSUME NEW P, NEW s \in Seq(P), NEW p, NEW q
                      PROVE  /\ Among(s, q) /\ q # p => Among(removePendingPack(s, p), q)
                             /\ Among(removePendingPack(s, p), q) => Among(s, q)
<1>1. CASE \A i \in 1..Len(s) : s[i] # p
  BY <1>1 DEF removePendingPack
<1>2. CASE \E i \in 1..Len(s) : s[i] = p
  <2>1. PICK k \in 1..Len(s) : k = PlaceOf(s, p) /\ s[k] = p
    BY <1>2 DEF PlaceOf
  <2> DEFINE a == SubSeq(s, 1, k - 1)
             b == SubSeq(s, k + 1, Len(s))
  <2>2. removePendingPack(s, p) = a \o b
    BY <1>2, <2>1 DEF removePendingPack
  <2>3. k \in Int /\ Len(s) \in Nat /\ 1 <= k /\ k <= Len(s)
    OBVIOUS
  <2>4. a \in Seq(P) /\ Len(a) = k - 1 /\ \A i \in 1..(k - 1) : a[i] = s[i]
    BY <2>3
  <2>5. b \in Seq(P) /\ Len(b) = Len(s) - k /\ \A i \in 1..(Len(s) - k) : b[i] = s[k + i]
    BY <2>3
  <2> HIDE DEF a, b
  <2>6. /\ Len(a \o b) = Len(s) - 1
        /\ \A i \in 1..(Len(s) - 1) : (a \o b)[i] = IF i < k THEN s[i] ELSE s[i + 1]
    <3>1. Len(a \o b) = Len(a) + Len(b) /\ \A i \in 1..(Len(a) + Len(b)) : (a \o b)[i] = IF i <= Len(a) THEN a[i] ELSE b[i - Len(a)]
      BY <2>4, <2>5, ConcatProperties
    <3> QED BY <2>3, <2>4, <2>5, <3>1
  <2>7. ASSUME NEW i \in 1..Len(s), s[i] = q, q # p PROVE \E j \in 1..(Len(s) - 1) : (a \o b)[j] = q
    <3>1. CASE i < k
      BY <2>3, <2>6, <2>7, <3>1
    <3>2. CASE i > k
      <4>1. i - 1 \in 1..(Len(s) - 1) /\ ~(i - 1 < k) /\ (i - 1) + 1 = i
        BY <2>3, <3>2
      <4> QED BY <2>6, <2>7, <4>1
    <3>3. i # k
      BY <2>1, <2>7
    <3>4. i \in Int
      BY <2>3
    <3>5. i < k \/ i > k
      BY <2>3, <3>3, <3>4
    <3> QED BY <3>1, <3>2, <3>5
  <2>8. ASSUME NEW j \in 1..(Len(s) - 1), (a \o b)[j] = q PROVE \E i \in 1..Len(s) : s[i] = q
    BY <2>3, <2>6, <2>8
  <2> QED BY <2>2, <2>6, <2>7, <2>8 DEF Among
<1> QED BY <1>1, <1>2

\* Adding a pack to a slice.
LEMMA AppendAmong == ASSUME NEW P, NEW s \in Seq(P), NEW p \in P, NEW q
                     PROVE  Among(Append(s, p), q) <=> Among(s, q) \/ q = p
<1>1. Len(Append(s, p)) = Len(s) + 1 /\ Len(s) \in Nat
  OBVIOUS
<1>2. \A i \in 1..(Len(s) + 1) : Append(s, p)[i] = IF i <= Len(s) THEN s[i] ELSE p
  OBVIOUS
<1>3. ASSUME Among(Append(s, p), q) PROVE Among(s, q) \/ q = p
  <2>1. PICK i \in 1..(Len(s) + 1) : Append(s, p)[i] = q
    BY <1>1, <1>3 DEF Among
  <2>2. i \in 1..Len(s) \/ ~(i <= Len(s))
    BY <1>1
  <2> QED BY <1>2, <2>1, <2>2 DEF Among
<1>4. ASSUME Among(s, q) PROVE Among(Append(s, p), q)
  <2>1. PICK i \in 1..Len(s) : s[i] = q
    BY <1>4 DEF Among
  <2>2. i \in 1..(Len(s) + 1) /\ i <= Len(s)
    BY <1>1
  <2> QED BY <1>1, <1>2, <2>1, <2>2 DEF Among
<1>5. Among(Append(s, p), p)
  <2>1. Len(s) + 1 \in 1..(Len(s) + 1) /\ ~(Len(s) + 1 <= Len(s))
    BY <1>1
  <2> QED BY <1>1, <1>2, <2>1 DEF Among
<1> QED BY <1>3, <1>4, <1>5

\* One entry per content.
Unique(es) == \A e, f \in es : e.content = f.content => e = f

\* Of the entries of two such sets the newest ones are one per content again, and no content is
\* without one.  (None is deleted.)
LEMMA NewestOfTwo ==
  ASSUME NEW A \in SUBSET Entry, NEW B \in SUBSET Entry, Unique(A), Unique(B), \A e \in A \cup B : ~e.deleted
  PROVE  /\ Newest(A \cup B) \subseteq A \cup B /\ Unique(Newest(A \cup B))
         /\ \A e \in A \cup B : \E f \in Newest(A \cup B) : f.content = e.content
<1>1. \A e, f \in A \cup B : /\ contentInfoGreaterThan(e, f) <=> e.ts > f.ts \/ (e.ts = f.ts /\ e.pack > f.pack)
                             /\ e.ts \in Nat /\ e.pack \in Int
  BY ManagerAssumption DEF contentInfoGreaterThan, Entry, Packs
<1>2. \A e, f \in A \cup B : e.content = f.content /\ e.ts = f.ts /\ e.pack = f.pack => e = f
  BY DEF Entry
<1>3. \A e \in Newest(A \cup B) : e \in A \cup B /\ \A f \in A \cup B : f.content = e.content => f = e \/ contentInfoGreaterThan(e, f)
  BY DEF Newest, Of
<1>4. \A e \in A \cup B : (\A f \in A \cup B : f.content = e.content => f = e \/ contentInfoGreaterThan(e, f)) => e \in Newest(A \cup B)
  BY DEF Newest, Of
<1>5. Unique(Newest(A \cup B))
  BY <1>1, <1>3 DEF Unique
<1>6. ASSUME NEW e \in A \cup B PROVE \E f \in Newest(A \cup B) : f.content = e.content
  <2>1. CASE \A f \in A \cup B : f.content = e.content => f = e \/ contentInfoGreaterThan(e, f)
    BY <1>4, <2>1
  <2>2. CASE \E f \in A \cup B : f.content = e.content /\ f # e /\ ~contentInfoGreaterThan(e, f)
    <3>1. PICK f \in A \cup B : f.content = e.content /\ f # e /\ ~contentInfoGreaterThan(e, f)
      BY <2>2
    <3>2. contentInfoGreaterThan(f, e)
      BY <1>1, <1>2, <3>1
    <3>3. \A h \in A \cup B : h.content = e.content => h = e \/ h = f
      BY <3>1 DEF Unique
    <3> QED BY <1>4, <3>1, <3>2, <3>3
  <2> QED BY <2>1, <2>2
<1> QED BY <1>3, <1>5, <1>6
----------------------------------------------------------------------------
(* What was written is not forgotten *)

\* No call deletes contents, and none is deleted at the start.
NoDeletes == "delete" \notin Calls /\ Tombstones = {}

\* Then no entry is a deletion, and every pack has one per content.
EntriesInv ==
  /\ \A e \in indexed \cup packIndexBuilder : ~e.deleted
  /\ \A p \in Packs : Unique(items[p]) /\ \A e \in items[p] : ~e.deleted
  /\ Unique(packIndexBuilder)
  /\ \A g \in Goroutines : ~call[g].isDeleted

\* The contents that were accepted, those a flush owes and those that are being uploaded are in
\* a pack in memory, in the index being built or in the index.
Remembered(c) == InMemory(c) \/ Live(packIndexBuilder \cup indexed, c)
RememberInv ==
  /\ AcceptedNeverForgotten
  /\ \A g \in Goroutines : \A c \in owed[g] : Remembered(c)
  /\ \A g \in Uploading : \E c \in Contents : c = call[g].content /\ Remembered(c)

KeepInv == EntriesInv /\ RememberInv /\ FlushCommitsUnlessFailed

\* The packs in memory that a content may be in.
Holds(c, p) == p = PendingPack(c) \/ Among(writingPacks, p) \/ Among(failedPacks, p)

\* A content in memory is in one of them, ...
LEMMA InMemoryWhere == ASSUME TypeInv, NEW c \in Contents, InMemory(c)
                       PROVE  \E p \in Packs : Holds(c, p) /\ Live(items[p], c)
<1>1. writingPacks \in Seq(Packs) /\ failedPacks \in Seq(Packs) /\ PendingPack(c) \in Packs \cup {None}
  BY ManagerAssumption DEF TypeInv, TypeOK, PendingPack
<1>2. CASE Live(ItemsOf(PendingPack(c)), c)
  <2>1. PendingPack(c) # None
    BY <1>2 DEF Live, Of, ItemsOf
  <2> QED BY <1>1, <1>2, <2>1 DEF ItemsOf, Holds
<1>3. CASE \E i \in 1..Len(writingPacks) : Live(items[writingPacks[i]], c)
  <2>1. PICK i \in 1..Len(writingPacks) : Live(items[writingPacks[i]], c)
    BY <1>3
  <2>2. writingPacks[i] \in Packs
    BY <1>1, ElementOfSeq
  <2> QED BY <2>1, <2>2 DEF Holds, Among
<1>4. CASE InFailedPack(c)
  <2>1. PICK i \in 1..Len(failedPacks) : Live(items[failedPacks[i]], c)
    BY <1>4 DEF InFailedPack
  <2>2. failedPacks[i] \in Packs
    BY <1>1, ElementOfSeq
  <2> QED BY <2>1, <2>2 DEF Holds, Among
<1> QED BY <1>2, <1>3, <1>4 DEF InMemory

\* ... and a content in one of them is in memory, also in the next state.
LEMMA HeldInMemory == ASSUME NEW c, NEW p \in Packs
                      PROVE  Holds(c, p) /\ Live(items[p], c) => InMemory(c)
<1>1. p # None
  BY ManagerAssumption DEF Packs, None
<1> QED BY <1>1 DEF Holds, Among, InMemory, ItemsOf, InFailedPack
\* The same in the next state.
LEMMA HeldInMemoryNext == ASSUME NEW c, NEW p \in Packs, Holds(c, p)', Live(items'[p], c) PROVE InMemory(c)'
<1>1. p # None
  BY ManagerAssumption DEF Packs, None
<1>2. CASE p = PendingPack(c)'
  BY <1>1, <1>2 DEF InMemory, ItemsOf
<1>3. CASE Among(writingPacks', p)
  BY <1>3 DEF Among, InMemory
<1>4. CASE Among(failedPacks', p)
  BY <1>4 DEF Among, InMemory, InFailedPack
<1> QED BY <1>2, <1>3, <1>4 DEF Holds

\* What a lookup finds is remembered.
LEMMA FoundRemembered == ASSUME TypeInv, LockInv, EntriesInv, NEW c \in Contents, NEW f \in getContentInfoReadLocked(c)
                         PROVE  Remembered(c) /\ ~f.info.deleted
<1> DEFINE pending == Of(ItemsOf(PendingPack(c)), c)
           writing == Of(items[FirstWriting(WritingWith(c))], c)
           other == IF Of(packIndexBuilder, c) # {} THEN Of(packIndexBuilder, c) ELSE Newest(Of(committed, c))
<1>1. writingPacks \in Seq(Packs) /\ PendingPack(c) \in Packs \cup {None}
  BY ManagerAssumption DEF TypeInv, TypeOK, PendingPack
<1>2. ASSUME NEW e \in pending PROVE Remembered(c) /\ ~e.deleted
  <2>1. PendingPack(c) \in Packs /\ e \in items[PendingPack(c)] /\ e.content = c
    BY <1>1, <1>2 DEF ItemsOf, Of
  <2>2. ~e.deleted
    BY <2>1 DEF EntriesInv
  <2> QED BY <1>2, <2>2 DEF Remembered, InMemory, Live
<1>3. ASSUME WritingWith(c) # {}, NEW e \in writing PROVE Remembered(c) /\ ~e.deleted
  <2>1. Min(WritingWith(c)) \in WritingWith(c) /\ FirstWriting(WritingWith(c)) \in Packs
    BY <1>1, <1>3, FirstWritingType DEF WritingWith
  <2>2. ~e.deleted
    BY <1>3, <2>1 DEF EntriesInv, Of
  <2> QED BY <1>3, <2>1, <2>2 DEF Remembered, InMemory, Live, FirstWriting, WritingWith
<1>4. ASSUME NEW e \in other PROVE Remembered(c) /\ ~e.deleted
  <2>1. e \in packIndexBuilder \cup indexed /\ e.content = c
    BY <1>4, NewestSubset DEF Of, LockInv, CommittedIndexed
  <2>2. ~e.deleted
    BY <2>1 DEF EntriesInv
  <2> QED BY <2>1, <2>2 DEF Remembered, Live, Of
<1>5. \A p, es : \A x \in FoundIn(p, es) : x.info \in es
  BY DEF FoundIn
<1>6. \/ getContentInfoReadLocked(c) = FoundIn(PendingPack(c), pending)
      \/ WritingWith(c) # {} /\ getContentInfoReadLocked(c) = FoundIn(FirstWriting(WritingWith(c)), writing)
      \/ getContentInfoReadLocked(c) = FoundIn(None, other)
  BY DEF getContentInfoReadLocked
<1> HIDE DEF pending, writing, other
<1> QED BY <1>2, <1>3, <1>4, <1>5, <1>6

\* A step of a goroutine that forgets nothing.
Recalls == \A c \in Contents : Remembered(c) => Remembered(c)'
Keeps ==
  /\ Recalls /\ EntriesInv' /\ indexed \subseteq indexed'
  /\ \A c \in accepted' : c \in accepted \/ Remembered(c)'
  /\ \A h \in Goroutines : owed'[h] \subseteq owed[h] \cup accepted
  /\ \A h \in Uploading' : \/ h \in Uploading /\ call'[h] = call[h]
                           \/ \E c \in Contents : c = call'[h].content /\ Remembered(c)'
  /\ \A c \in Contents : <<c, FALSE>> \in promised' => <<c, FALSE>> \in promised \/ Live(indexed', c)

\* Such a step keeps the invariant.
LEMMA KeepsInv == ASSUME TypeInv, KeepInv, Keeps, TypeInv' PROVE KeepInv'
<1>1. accepted \subseteq Contents /\ owed \in [Goroutines -> SUBSET Contents] /\ \A h \in Uploading : call[h].content \in Contents
  BY DEF TypeInv, TypeOK, CallOK, Uploading, AddPlaces
<1>2. accepted' \subseteq Contents
  BY DEF TypeInv, TypeOK
<1>3. \A c \in accepted : Remembered(c)'
  BY <1>1 DEF Keeps, Recalls, KeepInv, RememberInv, AcceptedNeverForgotten, Remembered
<1>4. \A h \in Goroutines : \A c \in owed[h] : Remembered(c)'
  BY <1>1 DEF Keeps, Recalls, KeepInv, RememberInv
<1>5. \A h \in Uploading : \A c \in Contents : c = call[h].content => Remembered(c)'
  BY <1>1 DEF Keeps, Recalls, KeepInv, RememberInv
<1>6. AcceptedNeverForgotten'
  BY <1>3 DEF Keeps, AcceptedNeverForgotten, Remembered
<1>7. \A h \in Goroutines : \A c \in owed'[h] : Remembered(c)'
  BY <1>3, <1>4 DEF Keeps
<1>8. \A h \in Uploading' : \E c \in Contents : c = call'[h].content /\ Remembered(c)'
  BY <1>1, <1>5 DEF Keeps
<1>9. FlushCommitsUnlessFailed'
  <2>1. \A c : Live(indexed, c) => Live(indexed', c)
    BY DEF Keeps, Live, Of
  <2> QED BY <2>1 DEF Keeps, KeepInv, FlushCommitsUnlessFailed
<1> QED BY <1>6, <1>7, <1>8, <1>9 DEF Keeps, KeepInv, RememberInv

\* A step that changes no pack forgets nothing, if what leaves the index being built is in the index.
LEMMA QuietRecalls ==
  ASSUME UNCHANGED <<pendingPacks, writingPacks, failedPacks, items>>,
         packIndexBuilder \cup indexed \subseteq packIndexBuilder' \cup indexed'
  PROVE  Recalls
<1> SUFFICES ASSUME NEW c \in Contents, Remembered(c) PROVE Remembered(c)'
  BY DEF Recalls
<1>1. InMemory(c)' <=> InMemory(c)
  BY DEF InMemory, ItemsOf, PendingPack, InFailedPack
<1>2. Live(packIndexBuilder \cup indexed, c) => Live(packIndexBuilder' \cup indexed', c)
  BY DEF Live, Of
<1> QED BY <1>1, <1>2 DEF Remembered

\* A call that ends accepts its own content at most, and only when it succeeds; nothing it uploads.
LEMMA FinishAccepts ==
  ASSUME TypeInv, NEW g \in Goroutines, NEW ok, Ends(g, ok) \/ Finish(g, ok)
  PROVE  /\ \A c \in accepted' : c \in accepted \/ (ok /\ c = call[g].content)
         /\ \A h \in Uploading' : h \in Uploading /\ call'[h] = call[h]
         /\ \A h \in Goroutines : call'[h] = call[h] \/ ~call'[h].isDeleted
<1>1. \A c \in accepted' : c \in accepted \/ (ok /\ c = call[g].content)
  BY DEF Finish, Ends
<1>2. \A h \in Goroutines : pc'[h] = IF h = g THEN "idle" ELSE pc[h]
  BY DEF Finish, Ends, Goto, TypeInv, TypeOK
<1>3. \A h \in Goroutines : call'[h] = IF h = g THEN NoCall ELSE call[h]
  BY DEF Finish, Ends, TypeInv, TypeOK
<1> QED BY <1>1, <1>2, <1>3 DEF Uploading, NoCall

\* A goroutine that goes on elsewhere with other locals.
LEMMA GoesOn ==
  ASSUME TypeInv, NEW g \in Goroutines, NEW l, l \notin {"upload", "uploaded"}, Goto(g, l), NEW r,
         call' = [call EXCEPT ![g] = r], ~r.isDeleted
  PROVE  /\ \A h \in Uploading' : h \in Uploading /\ call'[h] = call[h]
         /\ \A h \in Goroutines : call'[h] = call[h] \/ ~call'[h].isDeleted
<1>1. \A h \in Goroutines : pc'[h] = IF h = g THEN l ELSE pc[h]
  BY DEF Goto, TypeInv, TypeOK
<1>2. \A h \in Goroutines : call'[h] = IF h = g THEN r ELSE call[h]
  BY DEF TypeInv, TypeOK
<1> QED BY <1>1, <1>2 DEF Uploading

\* The same without new locals.
LEMMA GoesOnSame ==
  ASSUME TypeInv, NEW g \in Goroutines, NEW l, l \notin {"upload", "uploaded"}, Goto(g, l), call' = call
  PROVE  /\ \A h \in Uploading' : h \in Uploading /\ call'[h] = call[h]
         /\ \A h \in Goroutines : call'[h] = call[h] \/ ~call'[h].isDeleted
<1>1. \A h \in Goroutines : pc'[h] = IF h = g THEN l ELSE pc[h]
  BY DEF Goto, TypeInv, TypeOK
<1> QED BY <1>1 DEF Uploading

\* The entries stay as they are.
LEMMA QuietEntries ==
  ASSUME EntriesInv, UNCHANGED <<items, packIndexBuilder, indexed>>,
         \A h \in Goroutines : call'[h] = call[h] \/ ~call'[h].isDeleted
  PROVE  EntriesInv'
  BY DEF EntriesInv

packState == <<pendingPacks, writingPacks, failedPacks, items, packIndexBuilder, indexed>>

\* A step that changes no pack and no index, and lets no flush return.
LEMMA QuietKeep ==
  ASSUME TypeInv, KeepInv, UNCHANGED packState, promised' = promised,
         \A c \in accepted' : c \in accepted \/ (c \in Contents /\ Remembered(c)),
         \A h \in Goroutines : owed'[h] \subseteq owed[h] \cup accepted,
         \A h \in Uploading' : h \in Uploading /\ call'[h] = call[h],
         \A h \in Goroutines : call'[h] = call[h] \/ ~call'[h].isDeleted
  PROVE  Keeps
<1>1. Recalls
  <2>1. UNCHANGED <<pendingPacks, writingPacks, failedPacks, items>>
    BY DEF packState
  <2>2. packIndexBuilder \cup indexed \subseteq packIndexBuilder' \cup indexed'
    BY DEF packState
  <2> QED BY <2>1, <2>2, QuietRecalls
<1>2. EntriesInv'
  BY QuietEntries DEF packState, KeepInv
<1> QED BY <1>1, <1>2 DEF Keeps, Recalls, packState

\* Calls that start.
LEMMA StartKeep == ASSUME TypeInv, KeepInv, NEW g \in Goroutines, NEW o, NEW c, NEW l, Start(g, o, c, l),
                          l \notin {"upload", "uploaded"}, \A h \in Goroutines : owed'[h] \subseteq owed[h] \cup accepted
                   PROVE  Keeps
<1> DEFINE r == [NoCall EXCEPT !.op = o, !.content = c]
<1>1. ~r.isDeleted
  BY DEF NoCall
<1>2. Goto(g, l) /\ call' = [call EXCEPT ![g] = r] /\ UNCHANGED packState /\ promised' = promised /\ accepted' = accepted
  BY DEF Start, storage, packing, packState
<1> HIDE DEF r
<1> QED BY <1>1, <1>2, GoesOn, QuietKeep

\* The calls a client makes, and the clock.
LEMMA OutsideKeep ==
  ASSUME TypeInv, KeepInv,
         \/ Tick \/ Refresh \/ UNCHANGED vars
         \/ \E g \in Goroutines : \/ DisableIndexFlush(g) \/ EnableIndexFlush(g) \/ Flush(g)
                                  \/ \E c \in Contents : WriteContent(g, c) \/ UndeleteContent(g, c) \/ RewriteContent(g, c)
  PROVE  Keeps
<1>1. CASE \/ Tick \/ Refresh \/ UNCHANGED vars \/ \E g \in Goroutines : DisableIndexFlush(g) \/ EnableIndexFlush(g)
  <2>1. UNCHANGED <<packState, pc, call, accepted, owed, promised>>
    BY <1>1 DEF Tick, Refresh, vars, DisableIndexFlush, EnableIndexFlush, storage, packing, history, packState
  <2>2. Uploading' = Uploading
    BY <2>1 DEF Uploading
  <2> QED BY <2>1, <2>2, QuietKeep
<1>2. ASSUME NEW g \in Goroutines, Flush(g) PROVE Keeps
  <2>1. \A h \in Goroutines : owed'[h] \subseteq owed[h] \cup accepted
    BY <1>2 DEF Flush, TypeInv, TypeOK
  <2> QED BY <1>2, <2>1, StartKeep DEF Flush
<1>3. ASSUME NEW g \in Goroutines, NEW c \in Contents, WriteContent(g, c) \/ UndeleteContent(g, c) \/ RewriteContent(g, c)
      PROVE  Keeps
  BY <1>3, StartKeep DEF WriteContent, UndeleteContent, RewriteContent
<1> QED BY <1>1, <1>2, <1>3

\* A call that ends with its content remembered, or not accepted.
LEMMA FinishKeep ==
  ASSUME TypeInv, KeepInv, NEW g \in Goroutines, NEW ok, Ends(g, ok) \/ Finish(g, ok), UNCHANGED <<packState, owed, promised>>,
         ok => call[g].content \in Contents /\ Remembered(call[g].content)
  PROVE  Keeps
<1>1. \A c \in accepted' : c \in accepted \/ (c \in Contents /\ Remembered(c))
  BY FinishAccepts
<1> QED BY <1>1, FinishAccepts, QuietKeep

\* A goroutine that goes on, all else unchanged.
LEMMA GoesOnKeep ==
  ASSUME TypeInv, KeepInv, NEW g \in Goroutines, NEW l, l \notin {"upload", "uploaded"}, Goto(g, l),
         call' = call \/ (\E r : call' = [call EXCEPT ![g] = r] /\ ~r.isDeleted),
         UNCHANGED <<packState, promised, accepted>>, \A h \in Goroutines : owed'[h] \subseteq owed[h] \cup accepted
  PROVE  Keeps
<1>1. CASE call' = call
  BY <1>1, GoesOnSame, QuietKeep
<1>2. ASSUME NEW r, call' = [call EXCEPT ![g] = r], ~r.isDeleted PROVE Keeps
  BY <1>2, GoesOn, QuietKeep
<1> QED BY <1>1, <1>2

\* Looking the content up.
LEMMA LookupKeep == ASSUME TypeInv, LockInv, KeepInv, NEW g \in Goroutines, lookupContent(g) \/ readForRewrite(g) PROVE Keeps
<1> DEFINE c == call[g].content
<1>0. EntriesInv /\ c \in Contents /\ call[g] \in CallRecord /\ ~call[g].isDeleted
  BY DEF KeepInv, EntriesInv, TypeInv, TypeOK, CallOK, lookupContent, readForRewrite, AddPlaces
<1>1. UNCHANGED <<packState, owed, promised>>
  BY DEF lookupContent, readForRewrite, notPacking, storage, packing, packState
<1>2. \A f \in getContentInfoReadLocked(c) : Remembered(c) /\ ~f.info.deleted
  BY <1>0, FoundRemembered
<1>3. CASE lookupContent(g)
  <2>1. CASE (\E f \in getContentInfoReadLocked(c) : ~f.info.deleted) /\ Ends(g, TRUE)
    <3>1. Remembered(c)
      BY <1>2, <2>1
    <3> QED BY <1>0, <1>1, <2>1, <3>1, FinishKeep
  <2>2. ASSUME NEW t, call' = [call EXCEPT ![g].previousWriteTime = t], Goto(g, "add"), UNCHANGED <<accepted, undisturbed, contended>> PROVE Keeps
    <3> DEFINE r == [call[g] EXCEPT !.previousWriteTime = t]
    <3>1. ~r.isDeleted /\ call' = [call EXCEPT ![g] = r]
      BY <1>0, <2>2 DEF CallRecord
    <3> HIDE DEF r
    <3>2. \E x : call' = [call EXCEPT ![g] = x] /\ ~x.isDeleted
      BY <3>1
    <3> QED BY <1>1, <2>2, <3>2, GoesOnKeep
  <2> QED BY <1>3, <2>1, <2>2 DEF lookupContent
<1>4. CASE readForRewrite(g)
  <2>1. CASE Ends(g, FALSE)
    BY <1>1, <2>1, FinishKeep
  <2>2. CASE Ends(g, TRUE) /\ getContentInfoReadLocked(c) # {}
    <3>1. Remembered(c)
      BY <1>2, <2>2
    <3> QED BY <1>0, <1>1, <2>2, <3>1, FinishKeep
  <2>3. ASSUME NEW f \in getContentInfoReadLocked(c),
               call' = [call EXCEPT ![g].previousWriteTime = f.info.ts,
                                    ![g].isDeleted = f.info.deleted /\ call[g].op = "rewrite"],
               Goto(g, "add"), UNCHANGED <<accepted, undisturbed, contended>>
        PROVE  Keeps
    <3>0. ~(f.info.deleted /\ call[g].op = "rewrite")
      BY <1>2
    <3>1. PICK d : d = (f.info.deleted /\ call[g].op = "rewrite")
      OBVIOUS
    <3> DEFINE r == [call[g] EXCEPT !.previousWriteTime = f.info.ts, !.isDeleted = d]
    <3>2. ~d
      BY <3>0, <3>1
    <3>3. ~r.isDeleted /\ call' = [call EXCEPT ![g] = r]
      BY <1>0, <2>3, <3>1, <3>2 DEF CallRecord, TypeInv, TypeOK
    <3> HIDE DEF r
    <3>4. \E x : call' = [call EXCEPT ![g] = x] /\ ~x.isDeleted
      BY <3>3
    <3> QED BY <1>1, <2>3, <3>4, GoesOnKeep
  <2> QED BY <1>4, <2>1, <2>2, <2>3 DEF readForRewrite
<1> QED BY <1>3, <1>4

\* Taking the mutex, and giving it back.
LEMMA LockKeep ==
  ASSUME TypeInv, LockInv, KeepInv, NEW g \in Goroutines,
         \/ maybeRetryWritingFailedPacksUnlocked(g) \/ endRetry(g) \/ addToPack(g) \/ addAfterWait(g) \/ flushLock(g)
         \/ waitForWritingPacks(g) \/ maybeFlushBasedOnTime(g)
  PROVE  Keeps
<1>0. EntriesInv /\ call[g] \in CallRecord /\ ~call[g].isDeleted
  BY DEF KeepInv, EntriesInv, TypeInv, TypeOK
<1>1. UNCHANGED <<packState, promised>>
  BY DEF maybeRetryWritingFailedPacksUnlocked, endRetry, addToPack, addAfterWait, flushLock, waitForWritingPacks,
         maybeFlushBasedOnTime, notPacking, notFlushing, storage, packing, history, packState
<1>2. \A h \in Goroutines : owed'[h] \subseteq owed[h] \cup accepted
  BY DEF maybeRetryWritingFailedPacksUnlocked, endRetry, addToPack, addAfterWait, flushLock, waitForWritingPacks,
         maybeFlushBasedOnTime, notPacking, history, TypeInv, TypeOK
<1>3. ASSUME NEW t, call' = [call EXCEPT ![g].todo = t] PROVE \E r : call' = [call EXCEPT ![g] = r] /\ ~r.isDeleted
  <2> DEFINE r == [call[g] EXCEPT !.todo = t]
  <2>1. ~r.isDeleted /\ call' = [call EXCEPT ![g] = r]
    BY <1>0, <1>3 DEF CallRecord
  <2> HIDE DEF r
  <2> QED BY <2>1
<1>4. \/ addToPack(g) /\ getContentInfoReadLocked(call[g].content) # {} /\ Finish(g, TRUE) /\ UNCHANGED owed
      \/ /\ \E l \in {"retryLock", "retry", "lookup", "addWait", "addRetry", "flushRetry", "flushWait", "flushPacks", "flushLock"} : Goto(g, l)
         /\ accepted' = accepted
         /\ call' = call \/ \E t : call' = [call EXCEPT ![g].todo = t]
  BY DEF maybeRetryWritingFailedPacksUnlocked, endRetry, addToPack, addAfterWait, flushLock, waitForWritingPacks,
         maybeFlushBasedOnTime, WaitWhileFlushing, progress, history, notPacking
<1>5. CASE addToPack(g) /\ getContentInfoReadLocked(call[g].content) # {} /\ Finish(g, TRUE) /\ UNCHANGED owed
  <2>1. call[g].content \in Contents
    BY <1>5 DEF addToPack, TypeInv, CallOK, AddPlaces
  <2>2. Remembered(call[g].content)
    BY <1>0, <1>5, <2>1, FoundRemembered
  <2> QED BY <1>1, <1>5, <2>1, <2>2, FinishKeep
<1>6. ASSUME NEW l \in {"retryLock", "retry", "lookup", "addWait", "addRetry", "flushRetry", "flushWait", "flushPacks", "flushLock"},
             Goto(g, l), accepted' = accepted, call' = call \/ \E t : call' = [call EXCEPT ![g].todo = t]
      PROVE  Keeps
  BY <1>1, <1>2, <1>3, <1>6, GoesOnKeep
<1> QED BY <1>4, <1>5, <1>6

\* A pack that was written, or failed, moves on with its entries.
LEMMA ProcessRecalls ==
  ASSUME TypeInv, EntriesInv, NEW p \in Packs, NEW ok \in BOOLEAN, processWritePackResultLocked(p, ok), indexed' = indexed,
         \A x \in Prefixes : pendingPacks'[x] = pendingPacks[x] \/ pendingPacks[x] = p,
         \A h \in Goroutines : call'[h] = call[h] \/ ~call'[h].isDeleted
  PROVE  Recalls /\ EntriesInv'
<1>1. /\ writingPacks \in Seq(Packs) /\ failedPacks \in Seq(Packs) /\ items \in [Packs -> SUBSET Entry]
      /\ packIndexBuilder \in SUBSET Entry /\ items[p] \in SUBSET Entry
      /\ packPrefixForContentID \in [Contents -> Prefixes]
  BY ManagerAssumption DEF TypeInv, TypeOK
<1>2. /\ Newest(packIndexBuilder \cup items[p]) \subseteq packIndexBuilder \cup items[p]
      /\ Unique(Newest(packIndexBuilder \cup items[p]))
      /\ \A e \in packIndexBuilder \cup items[p] : \E f \in Newest(packIndexBuilder \cup items[p]) : f.content = e.content
  <2>1. /\ Unique(packIndexBuilder) /\ Unique(items[p]) /\ \A e \in packIndexBuilder \cup items[p] : ~e.deleted
    BY DEF EntriesInv
  <2> QED BY <1>1, <2>1, NewestOfTwo
<1>3. ok => /\ packIndexBuilder' = Newest(packIndexBuilder \cup items[p])
            /\ \A q \in Packs : items'[q] = IF q = p THEN {} ELSE items[q]
  BY <1>1 DEF processWritePackResultLocked
<1>4. ~ok => UNCHANGED <<packIndexBuilder, items>>
  BY DEF processWritePackResultLocked
<1>5. EntriesInv'
  <2>1. \A e \in indexed' \cup packIndexBuilder' : ~e.deleted
    BY <1>2, <1>3, <1>4 DEF EntriesInv
  <2>2. \A q \in Packs : Unique(items'[q]) /\ \A e \in items'[q] : ~e.deleted
    BY <1>3, <1>4 DEF EntriesInv, Unique
  <2>3. Unique(packIndexBuilder')
    BY <1>2, <1>3, <1>4 DEF EntriesInv
  <2> QED BY <2>1, <2>2, <2>3 DEF EntriesInv
<1>6. \A q \in Packs : Among(writingPacks, q) /\ q # p => Among(writingPacks', q)
  BY <1>1, RemoveOthers DEF processWritePackResultLocked
<1>7. /\ \A q \in Packs : Among(failedPacks, q) /\ q # p => Among(failedPacks', q)
      /\ ~ok => Among(failedPacks', p)
  <2>1. PICK s \in Seq(Packs) : s = removePendingPack(failedPacks, p)
    BY <1>1, RemoveType
  <2>2. \A q \in Packs : Among(failedPacks, q) /\ q # p => Among(s, q)
    BY <1>1, <2>1, RemoveOthers
  <2>3. failedPacks' = IF ok THEN s ELSE Append(s, p)
    BY <2>1 DEF processWritePackResultLocked
  <2>4. \A q : Among(Append(s, p), q) <=> Among(s, q) \/ q = p
    BY AppendAmong
  <2> QED BY <2>2, <2>3, <2>4
<1>8. Recalls
  <2> SUFFICES ASSUME NEW c \in Contents, Remembered(c) PROVE Remembered(c)'
    BY DEF Recalls
  <2>1. ASSUME NEW e \in packIndexBuilder' \cup indexed', e.content = c PROVE Remembered(c)'
    BY <1>5, <2>1 DEF EntriesInv, Remembered, Live, Of
  <2>2. ASSUME NEW e \in packIndexBuilder \cup indexed, e.content = c PROVE Remembered(c)'
    <3>1. \E f \in packIndexBuilder' \cup indexed' : f.content = c
      BY <1>2, <1>3, <1>4, <2>2
    <3> QED BY <2>1, <3>1
  <2>3. ASSUME NEW q \in Packs, Holds(c, q), Live(items[q], c) PROVE Remembered(c)'
    <3>1. CASE q # p
      <4>1. Holds(c, q)'
        BY <1>1, <1>6, <1>7, <2>3, <3>1 DEF Holds, PendingPack
      <4>2. Live(items'[q], c)
        BY <1>3, <1>4, <2>3, <3>1
      <4> QED BY <4>1, <4>2, HeldInMemoryNext DEF Remembered
    <3>2. CASE q = p /\ ok
      <4>1. PICK e \in items[p] : e.content = c
        BY <2>3, <3>2 DEF Live, Of
      <4>2. \E f \in packIndexBuilder' \cup indexed' : f.content = c
        BY <1>2, <1>3, <3>2, <4>1
      <4> QED BY <2>1, <4>2
    <3>3. CASE q = p /\ ~ok
      <4>1. Holds(c, q)' /\ Live(items'[q], c)
        BY <1>4, <1>7, <2>3, <3>3 DEF Holds
      <4> QED BY <4>1, HeldInMemoryNext DEF Remembered
    <3> QED BY <3>1, <3>2, <3>3
  <2>4. CASE InMemory(c)
    BY <2>3, <2>4, InMemoryWhere
  <2>5. CASE Live(packIndexBuilder \cup indexed, c)
    BY <2>2, <2>5 DEF Live, Of
  <2> QED BY <2>4, <2>5 DEF Remembered
<1> QED BY <1>5, <1>8

\* A content that is put into a pack in memory.
LEMMA PutRecalls ==
  ASSUME TypeInv, EntriesInv, NEW c \in Contents, NEW p \in Packs, getOrCreatePendingPackInfoLocked(c, p),
         NEW e, e.content = c, ~e.deleted, PutItem(p, e), UNCHANGED <<failedPacks, packIndexBuilder, indexed>>,
         \/ /\ pendingPacks' = [pendingPacks EXCEPT ![packPrefixForContentID[c]] = p] /\ UNCHANGED writingPacks
         \/ /\ pendingPacks' = [pendingPacks EXCEPT ![packPrefixForContentID[c]] = None]
            /\ writingPacks' = Append(writingPacks, p),
         \A h \in Goroutines : call'[h] = call[h] \/ ~call'[h].isDeleted
  PROVE  Recalls /\ Remembered(c)' /\ EntriesInv'
<1>1. /\ writingPacks \in Seq(Packs) /\ items \in [Packs -> SUBSET Entry] /\ pendingPacks \in [Prefixes -> Packs \cup {None}]
      /\ packPrefixForContentID \in [Contents -> Prefixes]
  BY ManagerAssumption DEF TypeInv, TypeOK
<1>2. \A q \in Packs : items'[q] = IF q = p THEN (items[p] \ Of(items[p], c)) \cup {e} ELSE items[q]
  BY <1>1 DEF PutItem
<1>3. \A q : Among(Append(writingPacks, p), q) <=> Among(writingPacks, q) \/ q = p
  BY <1>1, AppendAmong
<1>4. p = IF PendingPack(c) = None THEN packs + 1 ELSE PendingPack(c)
  BY DEF getOrCreatePendingPackInfoLocked
<1>5. ASSUME NEW d \in Contents, NEW q \in Packs, Holds(d, q) PROVE Holds(d, q)'
  <2>0. q # None
    BY ManagerAssumption DEF Packs, None
  <2>1. CASE q = PendingPack(d) /\ packPrefixForContentID[d] = packPrefixForContentID[c]
    <3>1. q = p
      BY <1>4, <2>0, <2>1 DEF PendingPack
    <3> QED BY <1>1, <1>3, <2>1, <3>1 DEF Holds, PendingPack
  <2>2. CASE q = PendingPack(d) /\ packPrefixForContentID[d] # packPrefixForContentID[c]
    <3>1. PendingPack(d)' = PendingPack(d)
      BY <1>1, <2>2 DEF PendingPack
    <3> QED BY <2>2, <3>1 DEF Holds
  <2>3. CASE Among(writingPacks, q) \/ Among(failedPacks, q)
    BY <1>3, <2>3 DEF Holds
  <2> QED BY <1>5, <2>1, <2>2, <2>3 DEF Holds
<1>6. Remembered(c)'
  <2>1. Holds(c, p)'
    BY <1>1, <1>3 DEF Holds, PendingPack
  <2>2. Live(items'[p], c)
    BY <1>2 DEF Live, Of
  <2> QED BY <2>1, <2>2, HeldInMemoryNext DEF Remembered
<1>7. Recalls
  <2> SUFFICES ASSUME NEW d \in Contents, Remembered(d), d # c PROVE Remembered(d)'
    BY <1>6 DEF Recalls
  <2>1. CASE Live(packIndexBuilder \cup indexed, d)
    BY <2>1 DEF Remembered
  <2>2. CASE InMemory(d)
    <3>1. PICK q \in Packs : Holds(d, q) /\ Live(items[q], d)
      BY <2>2, InMemoryWhere
    <3>2. Live(items'[q], d)
      BY <1>2, <3>1 DEF Live, Of
    <3> QED BY <1>5, <3>1, <3>2, HeldInMemoryNext DEF Remembered
  <2> QED BY <2>1, <2>2 DEF Remembered
<1>8. EntriesInv'
  <2>1. \A q \in Packs : Unique(items'[q]) /\ \A f \in items'[q] : ~f.deleted
    BY <1>2 DEF EntriesInv, Unique, Of
  <2> QED BY <2>1 DEF EntriesInv
<1> QED BY <1>6, <1>7, <1>8

\* A content is added to a pack.
LEMMA AddKeep == ASSUME TypeInv, LockInv, KeepInv, NEW g \in Goroutines, addContent(g) PROVE Keeps
<1> DEFINE c == call[g].content
           e(p) == [content |-> c, pack |-> p, ts |-> contentWriteTime(call[g].previousWriteTime),
                    deleted |-> call[g].isDeleted]
<1>1. EntriesInv /\ c \in Contents /\ call[g] \in CallRecord /\ ~call[g].isDeleted
  BY DEF KeepInv, EntriesInv, TypeInv, TypeOK, CallOK, addContent, AddPlaces
<1>2. UNCHANGED <<indexed, packIndexBuilder, failedPacks, owed, promised>>
  BY DEF addContent
<1>3. CASE SessionMarkerFails(c) /\ Finish(g, FALSE) /\ UNCHANGED writingPacks
  <2>1. UNCHANGED <<packState, owed, promised>>
    BY <1>2, <1>3 DEF SessionMarkerFails, packState
  <2> QED BY <1>3, <2>1, FinishKeep
<1>4. ASSUME NEW p \in Packs, getOrCreatePendingPackInfoLocked(c, p), PutItem(p, e(p)),
             /\ pendingPacks' = [pendingPacks EXCEPT ![packPrefixForContentID[c]] = None]
             /\ writingPacks' = Append(writingPacks, p)
             /\ call' = [call EXCEPT ![g].pp = p] /\ Goto(g, "upload") /\ UNCHANGED progress
      PROVE  Keeps
  <2>1. e(p).content = c /\ ~e(p).deleted
    BY <1>1
  <2>2. \A h \in Goroutines : call'[h] = IF h = g THEN [call[g] EXCEPT !.pp = p] ELSE call[h]
    BY <1>4 DEF TypeInv, TypeOK
  <2>3. call'[g].content = c /\ ~call'[g].isDeleted
    BY <1>1, <2>2 DEF CallRecord
  <2>4. \A h \in Goroutines \ {g} : call'[h] = call[h] /\ pc'[h] = pc[h]
    BY <1>4, <2>2, GotoOne
  <2> HIDE DEF e
  <2>5. \A h \in Goroutines : call'[h] = call[h] \/ ~call'[h].isDeleted
    BY <2>3, <2>4
  <2>6. PICK d \in Contents : d = c
    BY <1>1
  <2>7. Recalls /\ Remembered(d)' /\ EntriesInv'
    BY <1>1, <1>2, <1>4, <2>1, <2>5, <2>6, PutRecalls
  <2>8. \A h \in Uploading' : \/ h \in Uploading /\ call'[h] = call[h]
                              \/ \E x \in Contents : x = call'[h].content /\ Remembered(x)'
    BY <2>3, <2>4, <2>6, <2>7 DEF Uploading
  <2> QED BY <1>2, <1>4, <2>7, <2>8 DEF Keeps, progress
<1>5. ASSUME NEW p \in Packs, getOrCreatePendingPackInfoLocked(c, p), PutItem(p, e(p)),
             /\ pendingPacks' = [pendingPacks EXCEPT ![packPrefixForContentID[c]] = p]
             /\ Finish(g, TRUE) /\ UNCHANGED writingPacks
      PROVE  Keeps
  <2>1. e(p).content = c /\ ~e(p).deleted
    BY <1>1
  <2> HIDE DEF e
  <2>2. PICK d \in Contents : d = c
    BY <1>1
  <2>3. /\ \A x \in accepted' : x \in accepted \/ x = d
        /\ \A h \in Uploading' : h \in Uploading /\ call'[h] = call[h]
        /\ \A h \in Goroutines : call'[h] = call[h] \/ ~call'[h].isDeleted
    BY <1>5, <2>2, FinishAccepts
  <2>4. Recalls /\ Remembered(d)' /\ EntriesInv'
    BY <1>1, <1>2, <1>5, <2>1, <2>2, <2>3, PutRecalls
  <2> QED BY <1>2, <2>3, <2>4 DEF Keeps
<1> QED BY <1>3, <1>4, <1>5 DEF addContent

\* The upload itself changes nothing in memory.
LEMMA UploadKeep == ASSUME TypeInv, KeepInv, NEW g \in Goroutines, NEW ok \in BOOLEAN, uploadPack(g, ok) PROVE Keeps
<1>1. UNCHANGED <<packState, accepted, owed, promised>>
  BY DEF uploadPack, packing, history, packState
<1>2. call[g] \in CallRecord /\ g \in Uploading /\ ~call[g].isDeleted
  BY DEF KeepInv, EntriesInv, TypeInv, TypeOK, uploadPack, Uploading
<1>3. \A h \in Goroutines : call'[h] = IF h = g THEN [call[g] EXCEPT !.uploaded = ok] ELSE call[h]
  BY DEF uploadPack, TypeInv, TypeOK
<1>4. call'[g].content = call[g].content /\ ~call'[g].isDeleted
  BY <1>2, <1>3 DEF CallRecord
<1>5. Recalls
  <2>1. UNCHANGED <<pendingPacks, writingPacks, failedPacks, items>>
    BY <1>1 DEF packState
  <2>2. packIndexBuilder \cup indexed \subseteq packIndexBuilder' \cup indexed'
    BY <1>1 DEF packState
  <2> QED BY <2>1, <2>2, QuietRecalls
<1>6. EntriesInv'
  BY <1>1, <1>3, <1>4, QuietEntries DEF packState, KeepInv
<1>7. \A h \in Uploading' : \/ h \in Uploading /\ call'[h] = call[h]
                            \/ \E x \in Contents : x = call'[h].content /\ Remembered(x)'
  <2>1. PICK x \in Contents : x = call[g].content /\ Remembered(x)
    BY <1>2 DEF KeepInv, RememberInv
  <2>2. Remembered(x)'
    BY <1>5, <2>1 DEF Recalls
  <2>3. \A h \in Goroutines \ {g} : pc'[h] = pc[h]
    BY GotoOne DEF uploadPack
  <2> QED BY <1>3, <1>4, <2>1, <2>2, <2>3 DEF Uploading
<1> QED BY <1>1, <1>5, <1>6, <1>7 DEF Keeps, packState

\* The result of an upload.
LEMMA UploadResultKeep == ASSUME TypeInv, KeepInv, NEW g \in Goroutines, uploadResult(g) PROVE Keeps
<1>1. PICK p \in Packs, ok \in BOOLEAN : p = call[g].pp /\ ok = call[g].uploaded
  BY DEF uploadResult, TypeInv, TypeOK, CallOK, CallRecord
<1>2. /\ processWritePackResultLocked(p, ok) /\ Finish(g, ok) /\ UNCHANGED <<indexed, pendingPacks, owed, promised>>
  BY <1>1 DEF uploadResult, storage
<1>3. /\ \A c \in accepted' : c \in accepted \/ (ok /\ c = call[g].content)
      /\ \A h \in Uploading' : h \in Uploading /\ call'[h] = call[h]
      /\ \A h \in Goroutines : call'[h] = call[h] \/ ~call'[h].isDeleted
  BY <1>2, FinishAccepts
<1>4. Recalls /\ EntriesInv'
  BY <1>2, <1>3, ProcessRecalls DEF KeepInv
<1>5. PICK x \in Contents : x = call[g].content /\ Remembered(x)
  BY DEF KeepInv, RememberInv, uploadResult, Uploading
<1>6. Remembered(x)'
  BY <1>4, <1>5 DEF Recalls
<1> QED BY <1>2, <1>3, <1>4, <1>5, <1>6 DEF Keeps

\* Packs that are written with the mutex.
LEMMA LockedWriteKeep ==
  ASSUME TypeInv, LockInv, KeepInv, NEW g \in Goroutines, NEW ok \in BOOLEAN,
         retryFailedPack(g, ok) \/ \E x \in Prefixes : finishAllPacksLocked(g, x, ok)
  PROVE  Keeps
<1>1. UNCHANGED <<indexed, owed, promised>> /\ call[g] \in CallRecord /\ EntriesInv /\ ~call[g].isDeleted
  BY DEF retryFailedPack, finishAllPacksLocked, TypeInv, TypeOK, KeepInv, EntriesInv
<1>2. /\ \A c \in accepted' : c \in accepted
      /\ \A h \in Uploading' : h \in Uploading /\ call'[h] = call[h]
      /\ \A h \in Goroutines : call'[h] = call[h] \/ ~call'[h].isDeleted
  <2>1. CASE Finish(g, FALSE)
    BY <2>1, FinishAccepts
  <2>2. CASE retryFailedPack(g, ok) /\ ok
    <3>1. UNCHANGED <<pc, accepted>> /\ pc[g] \notin {"upload", "uploaded"}
      BY <2>2 DEF retryFailedPack, progress
    <3>2. \A h \in Goroutines : call'[h] = IF h = g THEN [call[g] EXCEPT !.todo = Tail(call[g].todo)] ELSE call[h]
      BY <2>2 DEF retryFailedPack, TypeInv, TypeOK
    <3>3. ~call'[g].isDeleted
      BY <1>1, <3>2 DEF CallRecord
    <3> QED BY <3>1, <3>2, <3>3 DEF Uploading
  <2>3. CASE ok /\ \E x \in Prefixes : finishAllPacksLocked(g, x, ok)
    BY <2>3 DEF finishAllPacksLocked, progress, Uploading
  <2> QED BY <2>1, <2>2, <2>3 DEF retryFailedPack, finishAllPacksLocked
<1>3. CASE retryFailedPack(g, ok)
  <2>1. PICK p \in Packs : p = Head(call[g].todo)
    <3>1. call[g].todo \in Seq(Packs) /\ call[g].todo # << >>
      BY <1>1, <1>3 DEF CallRecord, retryFailedPack
    <3> QED BY <3>1
  <2>2. processWritePackResultLocked(p, ok) /\ UNCHANGED pendingPacks
    BY <1>3, <2>1 DEF retryFailedPack
  <2>3. Recalls /\ EntriesInv'
    BY <1>1, <1>2, <2>2, ProcessRecalls
  <2> QED BY <1>1, <1>2, <2>3 DEF Keeps
<1>4. ASSUME NEW x \in Prefixes, finishAllPacksLocked(g, x, ok) PROVE Keeps
  <2>1. PICK p \in Packs : p = pendingPacks[x]
    BY <1>4 DEF finishAllPacksLocked, TypeInv, TypeOK
  <2>2. processWritePackResultLocked(p, ok) /\ \A y \in Prefixes : pendingPacks'[y] = pendingPacks[y] \/ pendingPacks[y] = p
    BY <1>4, <2>1 DEF finishAllPacksLocked, TypeInv, TypeOK
  <2>3. Recalls /\ EntriesInv'
    BY <1>1, <1>2, <2>2, ProcessRecalls
  <2> QED BY <1>1, <1>2, <2>3 DEF Keeps
<1> QED BY <1>3, <1>4

\* A flush that returns makes its promise when everything it owes is in the index, or in a pack
\* that failed.
LEMMA ReturnKeep ==
  ASSUME TypeInv, KeepInv, NEW g \in Goroutines, NEW ok \in BOOLEAN, pc[g] \in FlushPlaces, FlushReturns(g, ok),
         UNCHANGED <<pendingPacks, writingPacks, failedPacks, items>>, indexed \subseteq indexed',
         indexed' \subseteq indexed \cup packIndexBuilder, packIndexBuilder' \subseteq packIndexBuilder,
         packIndexBuilder \subseteq packIndexBuilder' \cup indexed',
         ok /\ disableIndexFlushCount = 0 => \A c \in owed[g] : InFailedPack(c) \/ Live(indexed', c)
  PROVE  Keeps
<1>1. /\ accepted' = accepted
      /\ \A h \in Uploading' : h \in Uploading /\ call'[h] = call[h]
      /\ \A h \in Goroutines : call'[h] = call[h] \/ ~call'[h].isDeleted
  <2>1. CASE ok /\ call[g].op # "flush"
    BY <2>1, GoesOnSame DEF FlushReturns, progress
  <2>2. CASE ~(ok /\ call[g].op # "flush")
    <3>1. Finish(g, ok)
      BY <2>2 DEF FlushReturns
    <3>2. accepted' = accepted
      BY <2>2, <3>1 DEF Finish, Ends
    <3> QED BY <3>1, <3>2, FinishAccepts
  <2> QED BY <2>1, <2>2
<1>2. Recalls
  BY QuietRecalls
<1>3. EntriesInv'
  BY <1>1 DEF KeepInv, EntriesInv, Unique
<1>4. \A h \in Goroutines : owed'[h] \subseteq owed[h] \cup accepted
  BY DEF FlushReturns, TypeInv, TypeOK
<1>5. ASSUME NEW c \in Contents, <<c, FALSE>> \in promised' PROVE <<c, FALSE>> \in promised \/ Live(indexed', c)
  <2>1. \/ <<c, FALSE>> \in promised
        \/ ok /\ disableIndexFlushCount = 0 /\ \E d \in owed[g] : <<c, FALSE>> = <<d, InFailedPack(d)>>
    BY <1>5 DEF FlushReturns
  <2>2. ASSUME NEW d \in owed[g], <<c, FALSE>> = <<d, InFailedPack(d)>> PROVE d = c /\ ~InFailedPack(d)
    BY <2>2
  <2> QED BY <2>1, <2>2
<1> QED BY <1>1, <1>2, <1>3, <1>4, <1>5 DEF Keeps

\* The index is written, the session ends, the committed entries get the new ones.
LEMMA CommitKeep ==
  ASSUME TypeInv, LockInv, KeepInv, NEW g \in Goroutines, NEW ok \in BOOLEAN,
         flushPackIndexesLocked(g, ok) \/ commitSession(g, ok) \/ addIndexBlob(g, ok)
  PROVE  Keeps
<1>a. pc[g] \in Flushing /\ pc[g] \in FlushPlaces
  BY DEF flushPackIndexesLocked, commitSession, addIndexBlob, Flushing, FlushPlaces
<1>b. writingPacks = << >>
  BY <1>a DEF LockInv, FlushAlone
<1>c. UNCHANGED <<pendingPacks, writingPacks, failedPacks, items>>
  BY DEF flushPackIndexesLocked, commitSession, addIndexBlob, packing
<1>1. /\ UNCHANGED <<pendingPacks, writingPacks, failedPacks, items>> /\ writingPacks = << >> /\ pc[g] \in FlushPlaces
  BY <1>a, <1>b, <1>c
<1>2. NothingPending => \A c \in owed[g] : InFailedPack(c) \/ Live(packIndexBuilder \cup indexed, c)
  <2> SUFFICES ASSUME NothingPending, NEW c \in owed[g], ~Live(packIndexBuilder \cup indexed, c) PROVE InFailedPack(c)
    OBVIOUS
  <2>1. c \in Contents /\ InMemory(c)
    BY DEF KeepInv, RememberInv, Remembered, TypeInv, TypeOK
  <2>2. ItemsOf(PendingPack(c)) = {}
    BY <2>1, ManagerAssumption DEF NothingPending, PendingPack, ItemsOf
  <2>3. ~Live(ItemsOf(PendingPack(c)), c)
    BY <2>2 DEF Live, Of
  <2>4. ~\E i \in 1..Len(writingPacks) : Live(items[writingPacks[i]], c)
    BY <1>1
  <2> QED BY <2>1, <2>3, <2>4 DEF InMemory
<1>3. CASE flushPackIndexesLocked(g, ok)
  <2>1. packIndexBuilder' = packIndexBuilder /\ NothingPending
    BY <1>3 DEF flushPackIndexesLocked, packing
  <2>2. CASE ok /\ (disableIndexFlushCount > 0 \/ packIndexBuilder = {}) /\ FlushReturns(g, TRUE) /\ indexed' = indexed
    <3>1. disableIndexFlushCount = 0 => packIndexBuilder \cup indexed = indexed'
      BY <2>2 DEF TypeInv, TypeOK
    <3>2. disableIndexFlushCount = 0 => \A c \in owed[g] : InFailedPack(c) \/ Live(indexed', c)
      BY <1>2, <2>1, <3>1
    <3> QED BY <1>1, <2>1, <2>2, <3>2, ReturnKeep
  <2>3. CASE /\ indexed' = indexed \cup packIndexBuilder /\ Goto(g, "flushCommit")
             /\ UNCHANGED call /\ UNCHANGED history
    <3>1. Recalls
      BY <1>1, <2>1, <2>3, QuietRecalls
    <3>2. EntriesInv'
      BY <1>1, <2>1, <2>3 DEF KeepInv, EntriesInv
    <3>3. \A h \in Uploading' : h \in Uploading /\ call'[h] = call[h]
      BY <2>3, GoesOnSame
    <3> QED BY <2>3, <3>1, <3>2, <3>3 DEF Keeps, history
  <2>4. CASE ~ok /\ FlushReturns(g, FALSE) /\ \E stored \in SUBSET packIndexBuilder : indexed' = indexed \cup stored
    BY <1>1, <2>1, <2>4, ReturnKeep
  <2> QED BY <1>3, <2>2, <2>3, <2>4 DEF flushPackIndexesLocked
<1>4. CASE commitSession(g, ok)
  <2>1. UNCHANGED <<packIndexBuilder, indexed>>
    BY <1>4 DEF commitSession, packing
  <2>2. CASE FlushReturns(g, FALSE)
    BY <1>1, <2>1, <2>2, ReturnKeep
  <2>3. CASE Goto(g, "flushAdd") /\ UNCHANGED <<call, history>>
    <3>1. UNCHANGED <<packState, promised, accepted>> /\ \A h \in Goroutines : owed'[h] \subseteq owed[h] \cup accepted
      BY <1>1, <2>1, <2>3 DEF packState, history
    <3> QED BY <2>3, <3>1, GoesOnKeep
  <2> QED BY <1>4, <2>2, <2>3 DEF commitSession
<1>5. CASE addIndexBlob(g, ok)
  <2>1. packIndexBuilder \subseteq indexed /\ NothingPending /\ indexed' = indexed /\ FlushReturns(g, ok)
    BY <1>5 DEF addIndexBlob, LockInv, FlushAlone, Committing, storage
  <2>2. packIndexBuilder' \subseteq packIndexBuilder
    BY <1>5 DEF addIndexBlob
  <2>3. packIndexBuilder \cup indexed = indexed'
    BY <2>1
  <2>4. \A c \in owed[g] : InFailedPack(c) \/ Live(indexed', c)
    BY <1>2, <2>1, <2>3
  <2> QED BY <1>1, <2>1, <2>2, <2>4, ReturnKeep
<1> QED BY <1>3, <1>4, <1>5

\* Every step that is no delete keeps what is remembered.
LEMMA NextKeep == ASSUME NoDeletes PROVE TypeInv /\ LockInv /\ KeepInv /\ [Next]_vars => KeepInv'
<1> SUFFICES ASSUME TypeInv, LockInv, KeepInv, [Next]_vars PROVE KeepInv'
  OBVIOUS
<1>1. TypeInv'
  BY NextType
<1>2. Keeps
  <2>1. CASE UNCHANGED vars \/ Tick \/ Refresh
    BY <2>1, OutsideKeep
  <2>2. ASSUME NEW g \in Goroutines, CallSome(g) PROVE Keeps
    <3>1. \A c \in Contents : ~DeleteContent(g, c)
      BY DEF NoDeletes, DeleteContent
    <3> QED BY <2>2, <3>1, OutsideKeep DEF CallSome
  <2>3. ASSUME NEW g \in Goroutines, Step(g) PROVE Keeps
    BY <2>3, OutsideKeep, LookupKeep, LockKeep, AddKeep, UploadKeep, UploadResultKeep, LockedWriteKeep, CommitKeep DEF Step
  <2> QED BY <2>1, <2>2, <2>3 DEF Next
<1> QED BY <1>1, <1>2, KeepsInv

\* Initially there is nothing to remember.
LEMMA InitKeep == ASSUME NoDeletes PROVE Init => KeepInv
<1> SUFFICES ASSUME Init PROVE KeepInv
  OBVIOUS
<1>1. indexed = {} /\ packIndexBuilder = {} /\ \A p \in Packs : items[p] = {}
  BY DEF Init, InitEntries, NoDeletes
<1>2. \A g \in Goroutines : ~call[g].isDeleted /\ owed[g] = {} /\ g \notin Uploading
  BY DEF Init, NoCall, Uploading
<1>3. EntriesInv
  BY <1>1, <1>2 DEF EntriesInv, Unique
<1>4. RememberInv
  BY <1>2 DEF RememberInv, AcceptedNeverForgotten, Init, Uploading
<1> QED BY <1>3, <1>4 DEF KeepInv, FlushCommitsUnlessFailed, Init

\* A content whose write has returned without an error is in a pack in memory, in the index being
\* built or in the index, whichever uploads, index writes and session commits fail and however
\* writes, uploads and flushes interleave.  (No content is deleted meanwhile: a tombstone that
\* overlaps with a write may win, which AcceptedExists is about.)
THEOREM AcceptedRemembered == ASSUME NoDeletes PROVE Spec => []AcceptedNeverForgotten
<1>1. KeepInv => AcceptedNeverForgotten
  BY DEF KeepInv, RememberInv
<1> QED BY <1>1, InitType, NextType, InitLock, NextLock, InitKeep, NextKeep, PTL DEF Spec

\* When Flush returns without an error everything that was accepted before it was called is in the
\* index, except what is in a pack whose upload failed while Flush waited for it.
THEOREM FlushKeepsPromise == ASSUME NoDeletes PROVE Spec => []FlushCommitsUnlessFailed
<1>1. KeepInv => FlushCommitsUnlessFailed
  BY DEF KeepInv
<1> QED BY <1>1, InitType, NextType, InitLock, NextLock, InitKeep, NextKeep, PTL DEF Spec
----------------------------------------------------------------------------
(* The marker of a session *)

\* No upload of a pack and no write or delete of a session marker fails.  (An index write or the
\* index cache may.)
MarkersWork == Fallible \subseteq {"index", "cache"}

\* The packs that new contents are put into or that are being uploaded, ...
InPacks(p) == (\E x \in Prefixes : pendingPacks[x] = p) \/ Among(writingPacks, p)
\* ... and those of the current session.
Covered(p) == currentSession # None /\ sessionOf[p] = currentSession

\* No pack has failed or is to be retried.
NoneFailed == /\ failedPacks = << >>
              /\ \A g \in Goroutines : call[g].todo = << >> /\ (pc[g] = "uploaded" => call[g].uploaded)
\* Nothing refers to a pack any more once its entries are in the index being built.
ItemsHeld == \A p \in Packs : items[p] # {} => InPacks(p)
\* The packs in memory, and those whose entries are not in the index yet, are of the current session.
SessionHolds == /\ \A p \in Packs : InPacks(p) => Covered(p)
                /\ \A e \in packIndexBuilder \ indexed : ~e.deleted => Covered(e.pack)
\* The current session has a marker, the one that committing the session deletes.
SessionMarked == currentSession # None => sessionMarkerBlobIDs = {currentSession} /\ currentSession \in sessionMarkers
MarkInv == NoneFailed /\ ItemsHeld /\ SessionHolds /\ SessionMarked

\* The invariant is what the property needs.
LEMMA MarkCovers == TypeInv /\ MarkInv => SessionCoversPacks
<1> SUFFICES ASSUME TypeInv, MarkInv, NEW p \in Uncommitted PROVE sessionOf[p] \in sessionMarkers
  BY DEF SessionCoversPacks
<1>1. p \in Packs /\ (InPacks(p) \/ \E e \in packIndexBuilder \ indexed : e.pack = p /\ ~e.deleted)
  <2>1. ~\E i \in 1..Len(failedPacks) : failedPacks[i] = p
    BY DEF MarkInv, NoneFailed
  <2> QED BY <2>1 DEF Uncommitted, InPacks, Among
<1>2. Covered(p)
  BY <1>1 DEF MarkInv, SessionHolds
<1> QED BY <1>2 DEF Covered, MarkInv, SessionMarked

\* What a step that leaves the packs and the session alone has to keep.
markState == <<pendingPacks, writingPacks, failedPacks, items, sessionOf, currentSession, sessionMarkerBlobIDs, sessionMarkers>>
NoNewFailure == \A h \in Goroutines : /\ call'[h].todo \in {call[h].todo, << >>}
                                      /\ pc'[h] = "uploaded" => call'[h].uploaded

\* Such a step keeps the invariant of sessions.
LEMMA QuietMark ==
  ASSUME MarkInv, UNCHANGED markState, NoNewFailure,
         packIndexBuilder' \subseteq packIndexBuilder, indexed \subseteq indexed'
  PROVE  MarkInv'
<1>1. NoneFailed'
  BY DEF MarkInv, NoneFailed, markState, NoNewFailure
<1>2. \A p : (InPacks(p)' <=> InPacks(p)) /\ (Covered(p)' <=> Covered(p))
  BY DEF markState, InPacks, Covered
<1>3. ItemsHeld'
  BY <1>2 DEF MarkInv, ItemsHeld, markState
<1>4. SessionHolds'
  BY <1>2 DEF MarkInv, SessionHolds
<1>5. SessionMarked'
  BY DEF MarkInv, SessionMarked, markState
<1> QED BY <1>1, <1>3, <1>4, <1>5 DEF MarkInv

\* A call that ends fails nothing, ...
LEMMA FinishNoFailure == ASSUME TypeInv, MarkInv, NEW g \in Goroutines, NEW ok, Ends(g, ok) \/ Finish(g, ok) PROVE NoNewFailure
<1>1. \A h \in Goroutines : pc'[h] = (IF h = g THEN "idle" ELSE pc[h]) /\ call'[h] = (IF h = g THEN NoCall ELSE call[h])
  BY DEF Finish, Ends, Goto, TypeInv, TypeOK
<1>2. NoCall.todo = << >>
  BY DEF NoCall
<1> QED BY <1>1, <1>2 DEF NoNewFailure, MarkInv, NoneFailed

\* ... nor one that goes on, ...
LEMMA GotoNoFailure ==
  ASSUME TypeInv, MarkInv, NEW g \in Goroutines, NEW l, l # "uploaded", Goto(g, l), NEW r, call' = [call EXCEPT ![g] = r],
         r.todo = << >>
  PROVE  NoNewFailure
<1>1. \A h \in Goroutines : pc'[h] = (IF h = g THEN l ELSE pc[h]) /\ call'[h] = (IF h = g THEN r ELSE call[h])
  BY DEF Goto, TypeInv, TypeOK
<1> QED BY <1>1 DEF NoNewFailure, MarkInv, NoneFailed
\* ... and leaves its locals alone, ...
LEMMA GotoSameNoFailure ==
  ASSUME TypeInv, MarkInv, NEW g \in Goroutines, NEW l, l # "uploaded", Goto(g, l), call' = call
  PROVE  NoNewFailure
<1>1. \A h \in Goroutines : pc'[h] = (IF h = g THEN l ELSE pc[h])
  BY DEF Goto, TypeInv, TypeOK
<1> QED BY <1>1 DEF NoNewFailure, MarkInv, NoneFailed
\* ... nor a flush that returns.
LEMMA ReturnNoFailure == ASSUME TypeInv, MarkInv, NEW g \in Goroutines, NEW ok, FlushReturns(g, ok) PROVE NoNewFailure
<1>1. CASE Finish(g, ok)
  BY <1>1, FinishNoFailure
<1>2. CASE Goto(g, "addLock") /\ call' = call
  BY <1>2, GotoSameNoFailure
<1> QED BY <1>1, <1>2 DEF FlushReturns
\* A step in which no goroutine moves.
LEMMA SameNoFailure == ASSUME MarkInv, UNCHANGED <<pc, call>> PROVE NoNewFailure
  BY DEF NoNewFailure, MarkInv, NoneFailed

\* Starting a call, the clock, a refresh and the flush counter.
LEMMA OutsideMark ==
  ASSUME TypeInv, MarkInv,
         \/ Tick \/ Refresh \/ UNCHANGED vars
         \/ \E g \in Goroutines : \/ DisableIndexFlush(g) \/ EnableIndexFlush(g) \/ Flush(g)
                                  \/ \E c \in Contents : WriteContent(g, c) \/ UndeleteContent(g, c) \/ RewriteContent(g, c)
  PROVE  MarkInv'
<1>1. UNCHANGED markState /\ UNCHANGED <<packIndexBuilder, indexed>>
  BY DEF Tick, Refresh, DisableIndexFlush, EnableIndexFlush, Flush, WriteContent, UndeleteContent, RewriteContent,
         Start, storage, packing, session, vars, markState
<1>2. NoNewFailure
  <2>1. CASE Tick \/ Refresh \/ UNCHANGED vars
    BY <2>1, SameNoFailure DEF Tick, Refresh, vars
  <2>2. ASSUME NEW g \in Goroutines, DisableIndexFlush(g) \/ EnableIndexFlush(g) PROVE NoNewFailure
    BY <2>2, SameNoFailure DEF DisableIndexFlush, EnableIndexFlush
  <2>3. ASSUME NEW g \in Goroutines, NEW o, NEW c, NEW l \in {"retryLock", "readLock", "flushLock"}, Start(g, o, c, l)
        PROVE  NoNewFailure
    <3> DEFINE r == [NoCall EXCEPT !.op = o, !.content = c]
    <3>1. r.todo = << >> /\ call' = [call EXCEPT ![g] = r] /\ Goto(g, l) /\ l # "uploaded"
      BY <2>3 DEF NoCall, Start
    <3> HIDE DEF r
    <3> QED BY <3>1, GotoNoFailure
  <2> QED BY <2>1, <2>2, <2>3 DEF Flush, WriteContent, UndeleteContent, RewriteContent
<1> QED BY <1>1, <1>2, QuietMark

\* The steps of a call that wait, look up or take the mutex: there is nothing to retry.
LEMMA ControlMark ==
  ASSUME TypeInv, MarkInv, NEW g \in Goroutines,
         \/ maybeRetryWritingFailedPacksUnlocked(g) \/ endRetry(g) \/ lookupContent(g) \/ readForRewrite(g)
         \/ maybeFlushBasedOnTime(g) \/ addToPack(g) \/ addAfterWait(g) \/ flushLock(g) \/ waitForWritingPacks(g)
  PROVE  MarkInv'
<1>1. UNCHANGED markState /\ UNCHANGED <<packIndexBuilder, indexed>>
  BY DEF maybeRetryWritingFailedPacksUnlocked, endRetry, lookupContent, readForRewrite, maybeFlushBasedOnTime,
         addToPack, addAfterWait, flushLock, waitForWritingPacks, notPacking, notFlushing, storage, packing, session, markState
<1>2. call[g] \in CallRecord /\ call[g].todo = << >> /\ failedPacks = << >>
  BY DEF TypeInv, TypeOK, MarkInv, NoneFailed
<1>3. \/ Ends(g, TRUE) \/ Ends(g, FALSE)
      \/ \E l \in Places \ {"uploaded"} : Goto(g, l)
  BY DEF maybeRetryWritingFailedPacksUnlocked, endRetry, lookupContent, readForRewrite, maybeFlushBasedOnTime,
         addToPack, addAfterWait, flushLock, waitForWritingPacks, WaitWhileFlushing, Finish, Places
<1>4. \/ Ends(g, TRUE) \/ Ends(g, FALSE) \/ UNCHANGED call
      \/ \E r : call' = [call EXCEPT ![g] = r] /\ r.todo = << >>
  <2>1. \/ Ends(g, TRUE) \/ Ends(g, FALSE) \/ UNCHANGED call
        \/ call' = [call EXCEPT ![g].todo = failedPacks]
        \/ \E t : call' = [call EXCEPT ![g].previousWriteTime = t]
        \/ \E t, d : call' = [call EXCEPT ![g].previousWriteTime = t, ![g].isDeleted = d]
    BY DEF maybeRetryWritingFailedPacksUnlocked, endRetry, lookupContent, readForRewrite, maybeFlushBasedOnTime,
           addToPack, addAfterWait, flushLock, waitForWritingPacks, WaitWhileFlushing, Finish
  <2>2. ASSUME NEW t, NEW d, call' = [call EXCEPT ![g].previousWriteTime = t, ![g].isDeleted = d]
        PROVE  \E r : call' = [call EXCEPT ![g] = r] /\ r.todo = << >>
    <3>1. call' = [call EXCEPT ![g] = [call[g] EXCEPT !.previousWriteTime = t, !.isDeleted = d]]
      BY <2>2 DEF TypeInv, TypeOK
    <3>2. [call[g] EXCEPT !.previousWriteTime = t, !.isDeleted = d].todo = << >>
      BY <1>2 DEF CallRecord
    <3> QED BY <3>1, <3>2
  <2>3. ASSUME NEW t, call' = [call EXCEPT ![g].previousWriteTime = t]
        PROVE  \E r : call' = [call EXCEPT ![g] = r] /\ r.todo = << >>
    <3>1. [call[g] EXCEPT !.previousWriteTime = t].todo = << >>
      BY <1>2 DEF CallRecord
    <3> QED BY <2>3, <3>1
  <2>4. ASSUME call' = [call EXCEPT ![g].todo = failedPacks]
        PROVE  \E r : call' = [call EXCEPT ![g] = r] /\ r.todo = << >>
    <3>1. [call[g] EXCEPT !.todo = failedPacks].todo = << >>
      BY <1>2 DEF CallRecord
    <3> QED BY <2>4, <3>1
  <2> QED BY <2>1, <2>2, <2>3, <2>4
<1>5. NoNewFailure
  BY <1>3, <1>4, FinishNoFailure, GotoNoFailure, GotoSameNoFailure
<1> QED BY <1>1, <1>5, QuietMark

\* The books on a pack that was uploaded: what it held is in the index being built, and its session
\* is the current one.
LEMMA ProcessMark ==
  ASSUME TypeInv, PackInv, MarkInv, NEW p \in Packs, processWritePackResultLocked(p, TRUE), NoNewFailure,
         UNCHANGED <<indexed, sessionOf, session, sessionMarkers>>,
         \A x \in Prefixes : pendingPacks'[x] = pendingPacks[x] \/ (pendingPacks[x] = p /\ pendingPacks'[x] = None)
  PROVE  MarkInv'
<1>1. /\ writingPacks \in Seq(Packs) /\ items \in [Packs -> SUBSET Entry] /\ None \notin Packs
      /\ failedPacks = << >>
  BY ManagerAssumption DEF TypeInv, TypeOK, None, Packs, MarkInv, NoneFailed
<1>2. /\ writingPacks' = removePendingPack(writingPacks, p) /\ failedPacks' = removePendingPack(failedPacks, p)
      /\ packIndexBuilder' = Newest(packIndexBuilder \cup items[p]) /\ items' = [items EXCEPT ![p] = {}]
  BY DEF processWritePackResultLocked
<1>3. failedPacks' = << >>
  BY <1>1, <1>2 DEF removePendingPack
<1>4. NoneFailed'
  BY <1>3 DEF MarkInv, NoneFailed, NoNewFailure
<1>5. \A q : Covered(q)' <=> Covered(q)
  BY DEF Covered, session
<1>6. \A q \in Packs : InPacks(q)' => InPacks(q)
  <2> SUFFICES ASSUME NEW q \in Packs, InPacks(q)' PROVE InPacks(q)
    OBVIOUS
  <2>1. Among(writingPacks', q) => Among(writingPacks, q)
    BY <1>1, <1>2, RemoveOthers
  <2>2. ASSUME NEW x \in Prefixes, pendingPacks'[x] = q PROVE pendingPacks[x] = q
    BY <1>1, <2>2
  <2> QED BY <2>1, <2>2 DEF InPacks
<1>7. \A q \in Packs \ {p} : InPacks(q) => InPacks(q)'
  <2> SUFFICES ASSUME NEW q \in Packs \ {p}, InPacks(q) PROVE InPacks(q)'
    OBVIOUS
  <2>1. Among(writingPacks, q) => Among(writingPacks', q)
    BY <1>1, <1>2, RemoveOthers
  <2>2. ASSUME NEW x \in Prefixes, pendingPacks[x] = q PROVE pendingPacks'[x] = q
    BY <2>2
  <2> QED BY <2>1, <2>2 DEF InPacks
<1>8. ItemsHeld'
  BY <1>1, <1>2, <1>7 DEF MarkInv, ItemsHeld
<1>9. \A e \in packIndexBuilder' \ indexed' : ~e.deleted => Covered(e.pack)
  <2> SUFFICES ASSUME NEW e \in packIndexBuilder', e \notin indexed, ~e.deleted PROVE Covered(e.pack)
    OBVIOUS
  <2>1. e \in packIndexBuilder \/ e \in items[p]
    BY <1>2, NewestSubset
  <2>2. CASE e \in packIndexBuilder
    BY <2>2 DEF MarkInv, SessionHolds
  <2>3. CASE e \in items[p]
    <3>1. e.pack = p
      BY <2>3 DEF PackInv, OwnData
    <3>2. InPacks(p)
      BY <2>3 DEF MarkInv, ItemsHeld
    <3> QED BY <3>1, <3>2 DEF MarkInv, SessionHolds
  <2> QED BY <2>1, <2>2, <2>3
<1>10. SessionHolds'
  BY <1>5, <1>6, <1>9 DEF MarkInv, SessionHolds
<1>11. SessionMarked'
  BY DEF MarkInv, SessionMarked, session
<1> QED BY <1>4, <1>8, <1>10, <1>11 DEF MarkInv

\* An entry put into the pending pack of the session, which the first one starts.
LEMMA PutMark ==
  ASSUME TypeInv, MarkInv, NEW c \in Contents, NEW p \in Packs, NEW e,
         getOrCreatePendingPackInfoLocked(c, p), PutItem(p, e), UNCHANGED <<failedPacks, indexed, packIndexBuilder>>,
         NoNewFailure,
         \/ /\ pendingPacks' = [pendingPacks EXCEPT ![packPrefixForContentID[c]] = p] /\ UNCHANGED writingPacks
         \/ /\ pendingPacks' = [pendingPacks EXCEPT ![packPrefixForContentID[c]] = None]
            /\ writingPacks' = Append(writingPacks, p)
  PROVE  MarkInv'
<1> DEFINE x0 == packPrefixForContentID[c]
<1>0. /\ x0 \in Prefixes /\ pendingPacks \in [Prefixes -> Packs \cup {None}] /\ None \notin Packs
      /\ writingPacks \in Seq(Packs) /\ items \in [Packs -> SUBSET Entry] /\ sessions \in Nat /\ None = 0
      /\ sessionOf \in [Packs -> Sessions \cup {None}]
      /\ pendingPacks[x0] = None \/ pendingPacks[x0] = p
  BY ManagerAssumption DEF TypeInv, TypeOK, None, Packs, getOrCreatePendingPackInfoLocked, PendingPack
<1>1. NoneFailed'
  BY DEF MarkInv, NoneFailed, NoNewFailure
<1>2. \A q \in Packs : InPacks(q)' <=> InPacks(q) \/ q = p
  <2> SUFFICES ASSUME NEW q \in Packs PROVE InPacks(q)' <=> InPacks(q) \/ q = p
    OBVIOUS
  <2>1. CASE pendingPacks' = [pendingPacks EXCEPT ![x0] = p] /\ UNCHANGED writingPacks
    <3>1. \A x \in Prefixes : pendingPacks'[x] = IF x = x0 THEN p ELSE pendingPacks[x]
      BY <1>0, <2>1
    <3>2. (\E x \in Prefixes : pendingPacks'[x] = q) <=> (\E x \in Prefixes : pendingPacks[x] = q) \/ q = p
      BY <1>0, <3>1
    <3> QED BY <2>1, <3>2 DEF InPacks
  <2>2. CASE pendingPacks' = [pendingPacks EXCEPT ![x0] = None] /\ writingPacks' = Append(writingPacks, p)
    <3>1. \A x \in Prefixes : pendingPacks'[x] = IF x = x0 THEN None ELSE pendingPacks[x]
      BY <1>0, <2>2
    <3>2. /\ (\E x \in Prefixes : pendingPacks'[x] = q) => (\E x \in Prefixes : pendingPacks[x] = q)
          /\ (\E x \in Prefixes : pendingPacks[x] = q) => (\E x \in Prefixes : pendingPacks'[x] = q) \/ q = p
      BY <1>0, <3>1
    <3>3. Among(writingPacks', q) <=> Among(writingPacks, q) \/ q = p
      BY <1>0, <2>2, AppendAmong
    <3> QED BY <3>2, <3>3 DEF InPacks
  <2> QED BY <2>1, <2>2
<1>3. ItemsHeld'
  <2>1. \A q \in Packs : q # p => items'[q] = items[q]
    BY <1>0 DEF PutItem
  <2> QED BY <1>2, <2>1 DEF MarkInv, ItemsHeld
<1>4. CASE StartsSession(c)
  <2>1. /\ currentSession = None /\ currentSession' = sessions + 1 /\ sessionMarkerBlobIDs' = {sessions + 1}
        /\ sessionMarkers' = sessionMarkers \cup {sessions + 1} /\ sessionOf' = [sessionOf EXCEPT ![p] = sessions + 1]
    BY <1>4 DEF getOrCreatePendingPackInfoLocked, StartsSession
  <2>2. currentSession' # None /\ Covered(p)'
    BY <1>0, <2>1 DEF Covered
  <2>3. \A q : ~Covered(q)
    BY <2>1 DEF Covered
  <2>4. SessionHolds'
    BY <1>2, <2>2, <2>3 DEF MarkInv, SessionHolds
  <2>5. SessionMarked'
    BY <2>1 DEF SessionMarked
  <2> QED BY <1>1, <1>3, <2>4, <2>5 DEF MarkInv
<1>5. CASE ~StartsSession(c)
  <2>1. UNCHANGED <<session, sessionMarkers>>
    BY <1>5 DEF getOrCreatePendingPackInfoLocked
  <2>2. currentSession' = currentSession /\ sessionMarkerBlobIDs' = sessionMarkerBlobIDs
    BY <2>1 DEF session
  <2>3. CASE pendingPacks[x0] = None
    <3>1. currentSession # None /\ sessionOf' = [sessionOf EXCEPT ![p] = currentSession]
      BY <1>5, <2>2, <2>3 DEF StartsSession, PendingPack, getOrCreatePendingPackInfoLocked
    <3>2. \A q : q = p \/ Covered(q) => Covered(q)'
      BY <1>0, <2>2, <3>1 DEF Covered
    <3>3. SessionHolds'
      BY <1>2, <3>2 DEF MarkInv, SessionHolds
    <3> QED BY <1>1, <1>3, <2>1, <2>2, <3>3 DEF MarkInv, SessionMarked
  <2>4. CASE pendingPacks[x0] = p
    <3>1. sessionOf' = sessionOf
      BY <1>0, <2>4 DEF PendingPack, getOrCreatePendingPackInfoLocked
    <3>2. InPacks(p) /\ \A q : Covered(q) => Covered(q)'
      BY <1>0, <2>2, <2>4, <3>1 DEF Covered, InPacks
    <3>3. SessionHolds'
      BY <1>2, <3>2 DEF MarkInv, SessionHolds
    <3> QED BY <1>1, <1>3, <2>1, <2>2, <3>3 DEF MarkInv, SessionMarked
  <2> QED BY <1>0, <2>3, <2>4
<1> QED BY <1>4, <1>5

\* What a step may not do when nothing of it fails.
LEMMA NoMarkerFailure == ASSUME MarkersWork PROVE /\ ~Fails("pack") /\ ~Fails("marker") /\ ~Fails("commit")
                                                 /\ \A c : ~SessionMarkerFails(c)
  BY DEF MarkersWork, Fails, SessionMarkerFails

\* Adding a content.
LEMMA AddMark == ASSUME MarkersWork, TypeInv, MarkInv, NEW g \in Goroutines, addContent(g) PROVE MarkInv'
<1>1. PICK c \in Contents : c = call[g].content
  BY DEF addContent, TypeInv, CallOK, AddPlaces
<1>2. call[g] \in CallRecord /\ call[g].todo = << >> /\ UNCHANGED <<failedPacks, indexed, packIndexBuilder>>
  BY DEF TypeInv, TypeOK, MarkInv, NoneFailed, addContent
<1>3. PICK p \in Packs : \E e :
        /\ getOrCreatePendingPackInfoLocked(c, p) /\ PutItem(p, e)
        /\ \/ /\ pendingPacks' = [pendingPacks EXCEPT ![packPrefixForContentID[c]] = None]
              /\ writingPacks' = Append(writingPacks, p)
              /\ call' = [call EXCEPT ![g].pp = p] /\ Goto(g, "upload")
           \/ /\ pendingPacks' = [pendingPacks EXCEPT ![packPrefixForContentID[c]] = p]
              /\ Finish(g, TRUE) /\ UNCHANGED writingPacks
  BY <1>1, NoMarkerFailure DEF addContent
<1>4. NoNewFailure
  <2>1. CASE Finish(g, TRUE)
    BY <2>1, FinishNoFailure
  <2>2. CASE call' = [call EXCEPT ![g].pp = p] /\ Goto(g, "upload")
    <3>1. [call[g] EXCEPT !.pp = p].todo = << >>
      BY <1>2 DEF CallRecord
    <3> QED BY <2>2, <3>1, GotoNoFailure
  <2> QED BY <1>3, <2>1, <2>2
<1> QED BY <1>2, <1>3, <1>4, PutMark

\* Deleting a content.
LEMMA DeleteMark == ASSUME MarkersWork, TypeInv, MarkInv, NEW g \in Goroutines, NEW c \in Contents, DeleteContent(g, c) PROVE MarkInv'
<1>1. UNCHANGED <<indexed, writingPacks, failedPacks, packIndexBuilder, pc, call>>
  BY DEF DeleteContent
<1>2. NoNewFailure
  BY <1>1, SameNoFailure
<1>3. CASE UNCHANGED <<pendingPacks, items, dataLength, sessionOf, packs, session, sessionMarkers, faults>>
  BY <1>1, <1>2, <1>3, QuietMark DEF markState, session
<1>4. CASE /\ items' = [items EXCEPT ![PendingPack(c)] = @ \ Of(@, c)]
           /\ UNCHANGED <<pendingPacks, dataLength, sessionOf, packs, session, sessionMarkers, faults>>
  <2>1. \A p \in Packs : items'[p] \subseteq items[p]
    BY <1>4 DEF TypeInv, TypeOK
  <2>2. \A p : (InPacks(p)' <=> InPacks(p)) /\ (Covered(p)' <=> Covered(p))
    BY <1>1, <1>4 DEF InPacks, Covered, session
  <2>3. ItemsHeld'
    BY <2>1, <2>2 DEF MarkInv, ItemsHeld
  <2>4. SessionHolds'
    BY <1>1, <2>2 DEF MarkInv, SessionHolds
  <2>5. NoneFailed' /\ SessionMarked'
    BY <1>1, <1>4 DEF MarkInv, NoneFailed, SessionMarked, session
  <2> QED BY <2>3, <2>4, <2>5 DEF MarkInv
<1>5. ASSUME NEW p \in Packs, NEW e, getOrCreatePendingPackInfoLocked(c, p), PutItem(p, e),
             pendingPacks' = [pendingPacks EXCEPT ![packPrefixForContentID[c]] = p]
      PROVE  MarkInv'
  BY <1>1, <1>2, <1>5, PutMark
<1> QED BY <1>3, <1>4, <1>5, NoMarkerFailure DEF DeleteContent

\* Uploading a pack without the mutex, and the result.
LEMMA UploadMark == ASSUME MarkersWork, TypeInv, PackInv, MarkInv, NEW g \in Goroutines,
                           uploadResult(g) \/ \E ok \in BOOLEAN : uploadPack(g, ok)
                    PROVE  MarkInv'
<1>1. CASE uploadResult(g)
  <2>1. PICK p \in Packs : p = call[g].pp
    BY <1>1 DEF uploadResult, TypeInv, CallOK
  <2>2. call[g].uploaded = TRUE
    BY <1>1 DEF uploadResult, MarkInv, NoneFailed, TypeInv, TypeOK, CallRecord
  <2>3. processWritePackResultLocked(p, TRUE) /\ Finish(g, TRUE) /\ UNCHANGED <<indexed, sessionOf, session, sessionMarkers, pendingPacks>>
    BY <1>1, <2>1, <2>2 DEF uploadResult, storage
  <2> QED BY <2>3, ProcessMark, FinishNoFailure
<1>2. ASSUME NEW ok \in BOOLEAN, uploadPack(g, ok) PROVE MarkInv'
  <2>1. ok = TRUE
    BY <1>2, NoMarkerFailure DEF uploadPack, prepareAndWritePackInternal
  <2>2. UNCHANGED markState /\ UNCHANGED <<packIndexBuilder, indexed>>
    BY <1>2 DEF uploadPack, packing, session, markState
  <2>3. call[g] \in CallRecord /\ call[g].todo = << >>
    BY DEF TypeInv, TypeOK, MarkInv, NoneFailed
  <2>4. /\ [call[g] EXCEPT !.uploaded = ok].todo = << >> /\ [call[g] EXCEPT !.uploaded = ok].uploaded
        /\ call' = [call EXCEPT ![g] = [call[g] EXCEPT !.uploaded = ok]] /\ Goto(g, "uploaded")
    BY <1>2, <2>1, <2>3 DEF CallRecord, uploadPack
  <2>5. \A h \in Goroutines : /\ call'[h] = IF h = g THEN [call[g] EXCEPT !.uploaded = ok] ELSE call[h]
                              /\ pc'[h] = IF h = g THEN "uploaded" ELSE pc[h]
    BY <2>4 DEF Goto, TypeInv, TypeOK
  <2>6. NoNewFailure
    BY <2>4, <2>5 DEF NoNewFailure, MarkInv, NoneFailed
  <2> QED BY <2>2, <2>6, QuietMark
<1> QED BY <1>1, <1>2

\* Writing packs under the mutex.
LEMMA LockedWriteMark == ASSUME MarkersWork, TypeInv, PackInv, MarkInv, NEW g \in Goroutines, NEW ok \in BOOLEAN,
                                retryFailedPack(g, ok) \/ \E x \in Prefixes : finishAllPacksLocked(g, x, ok)
                         PROVE  MarkInv'
<1>1. ~retryFailedPack(g, ok)
  BY DEF retryFailedPack, MarkInv, NoneFailed
<1>2. ASSUME NEW x \in Prefixes, finishAllPacksLocked(g, x, ok) PROVE MarkInv'
  <2>1. PICK p \in Packs : p = pendingPacks[x]
    BY <1>2 DEF finishAllPacksLocked, TypeInv, TypeOK
  <2>2. ok = TRUE
    BY <1>2, NoMarkerFailure DEF finishAllPacksLocked, prepareAndWritePackInternal
  <2>3. /\ processWritePackResultLocked(p, TRUE) /\ UNCHANGED <<indexed, sessionOf, session, sessionMarkers, pc, call>>
        /\ pendingPacks' = [pendingPacks EXCEPT ![x] = None]
    BY <1>2, <2>1, <2>2 DEF finishAllPacksLocked, notFlushing
  <2>4. \A y \in Prefixes : pendingPacks'[y] = pendingPacks[y] \/ (pendingPacks[y] = p /\ pendingPacks'[y] = None)
    BY <2>1, <2>3 DEF TypeInv, TypeOK
  <2>5. NoNewFailure
    BY <2>3, SameNoFailure
  <2> QED BY <2>3, <2>4, <2>5, ProcessMark
<1> QED BY <1>1, <1>2

\* Writing the index, and committing the session once everything is in it.
LEMMA CommitMark == ASSUME MarkersWork, TypeInv, LockInv, MarkInv, NEW g \in Goroutines, NEW ok \in BOOLEAN,
                           flushPackIndexesLocked(g, ok) \/ commitSession(g, ok) \/ addIndexBlob(g, ok)
                    PROVE  MarkInv'
<1>1. CASE flushPackIndexesLocked(g, ok)
  <2>1. UNCHANGED markState /\ UNCHANGED packIndexBuilder
    BY <1>1 DEF flushPackIndexesLocked, packing, notFlushing, session, markState
  <2>2. indexed \subseteq indexed'
    BY <1>1 DEF flushPackIndexesLocked
  <2>3. FlushReturns(g, TRUE) \/ FlushReturns(g, FALSE) \/ (Goto(g, "flushCommit") /\ call' = call)
    BY <1>1 DEF flushPackIndexesLocked
  <2>4. NoNewFailure
    BY <2>3, ReturnNoFailure, GotoSameNoFailure
  <2> QED BY <2>1, <2>2, <2>4, QuietMark
<1>2. CASE commitSession(g, ok)
  <2>1. writingPacks = << >> /\ NothingPending /\ packIndexBuilder \subseteq indexed
    BY <1>2 DEF commitSession, LockInv, FlushAlone, Flushing, Committing
  <2>2. currentSession' = None /\ Goto(g, "flushAdd") /\ UNCHANGED <<call, indexed, packing>>
    BY <1>2, NoMarkerFailure DEF commitSession
  <2>3. \A p \in Packs : ~InPacks(p)
    BY <2>1, ManagerAssumption DEF InPacks, NothingPending, Among, None, Packs
  <2>4. \A p \in Packs : ~InPacks(p)'
    BY <2>2, <2>3 DEF InPacks, packing
  <2>5. ItemsHeld' /\ SessionHolds' /\ SessionMarked'
    BY <2>1, <2>2, <2>3, <2>4 DEF MarkInv, ItemsHeld, SessionHolds, SessionMarked, packing
  <2>6. NoNewFailure
    BY <2>2, GotoSameNoFailure
  <2> QED BY <2>2, <2>5, <2>6 DEF MarkInv, NoneFailed, NoNewFailure, packing
<1>3. CASE addIndexBlob(g, ok)
  <2>1. UNCHANGED markState /\ indexed' = indexed /\ packIndexBuilder' \subseteq packIndexBuilder /\ FlushReturns(g, ok)
    BY <1>3 DEF addIndexBlob, notFlushing, session, storage, markState
  <2> QED BY <2>1, ReturnNoFailure, QuietMark
<1> QED BY <1>1, <1>2, <1>3

\* Every step keeps the invariant.
LEMMA NextMark == ASSUME MarkersWork PROVE TypeInv /\ LockInv /\ PackInv /\ MarkInv /\ [Next]_vars => MarkInv'
<1> SUFFICES ASSUME TypeInv, LockInv, PackInv, MarkInv, [Next]_vars PROVE MarkInv'
  OBVIOUS
<1>1. CASE UNCHANGED vars \/ Tick \/ Refresh
  BY <1>1, OutsideMark
<1>2. ASSUME NEW g \in Goroutines, CallSome(g) PROVE MarkInv'
  BY <1>2, OutsideMark, DeleteMark DEF CallSome
<1>3. ASSUME NEW g \in Goroutines, Step(g) PROVE MarkInv'
  BY <1>3, OutsideMark, ControlMark, AddMark, UploadMark, LockedWriteMark, CommitMark DEF Step
<1> QED BY <1>1, <1>2, <1>3 DEF Next

\* Initially there are no packs and there is no session.
LEMMA InitMark == Init => MarkInv
<1> SUFFICES ASSUME Init PROVE MarkInv
  OBVIOUS
<1>1. \A g \in Goroutines : call[g].todo = << >> /\ pc[g] = "idle"
  BY DEF Init, NoCall
<1>2. \A p \in Packs : ~InPacks(p) /\ items[p] = {}
  BY ManagerAssumption DEF Init, InPacks, Among, None, Packs
<1> QED BY <1>1, <1>2 DEF Init, MarkInv, NoneFailed, ItemsHeld, SessionHolds, SessionMarked

\* As long as a pack holds data that no index refers to, the marker of its session is in storage,
\* so that blob GC of another client leaves the pack alone: at every instant, also between writing
\* the index and committing the session, and when index writes fail.  (When the upload of a pack or
\* a call for a marker fails, it does not hold: the hazards list the cases.)
THEOREM SessionsCoverPacks == ASSUME MarkersWork PROVE Spec => []SessionCoversPacks
<1> QED BY MarkCovers, InitType, NextType, InitLock, NextLock, InitPackInv, NextPackInv, InitMark, NextMark, PTL DEF Spec
----------------------------------------------------------------------------
(* The newest entry decides *)

\* contentInfoGreaterThanStruct is a strict order of the entries of a content.
LEMMA GreaterOrders ==
  ASSUME NEW a \in Entry, NEW b \in Entry
  PROVE  /\ a.content = b.content => a = b \/ contentInfoGreaterThan(a, b) \/ contentInfoGreaterThan(b, a)
         /\ ~(contentInfoGreaterThan(a, b) /\ contentInfoGreaterThan(b, a))
         /\ contentInfoGreaterThan(a, b) => a.ts >= b.ts
<1>1. a.ts \in Nat /\ b.ts \in Nat /\ a.pack \in Int /\ b.pack \in Int /\ a.deleted \in BOOLEAN /\ b.deleted \in BOOLEAN
  BY ManagerAssumption DEF Entry, Packs
<1>2. a.content = b.content /\ a.ts = b.ts /\ a.pack = b.pack /\ a.deleted = b.deleted => a = b
  BY DEF Entry
<1> QED BY <1>1, <1>2 DEF contentInfoGreaterThan

\* The newest entries of a content.
LEMMA NewestIs ==
  ASSUME NEW es, NEW c, NEW e
  PROVE  e \in Newest(Of(es, c)) <=> /\ e \in es /\ e.content = c
                                     /\ \A f \in es : f.content = c => f = e \/ contentInfoGreaterThan(e, f)
  BY DEF Newest, Of

\* There is at most one, ...
LEMMA NewestIsOne == ASSUME NEW es \in SUBSET Entry, NEW c, NEW a \in Newest(Of(es, c)), NEW b \in Newest(Of(es, c))
                     PROVE  a = b
<1>1. /\ a \in es /\ a.content = c /\ b \in es /\ b.content = c
      /\ (b = a \/ contentInfoGreaterThan(a, b)) /\ (a = b \/ contentInfoGreaterThan(b, a))
  BY NewestIs
<1> QED BY <1>1, GreaterOrders

\* ... and there is one when there are any and their times have a bound.
LEMMA NewestExists ==
  ASSUME NEW es \in SUBSET Entry, NEW c, NEW b \in Nat, \A e \in es : e.ts <= b, Of(es, c) # {}
  PROVE  Newest(Of(es, c)) # {}
<1> DEFINE S == Of(es, c)
<1>0. /\ S \subseteq Entry /\ S # {} /\ \A e \in S : e \in es /\ e.content = c
      /\ \A e \in es : e.content = c => e \in S
  BY DEF Of
<1> HIDE DEF S
<1>1. \A e \in S : e.ts \in Nat /\ e.ts <= b /\ e.pack \in 1..MaxCalls + 1 /\ e.deleted \in BOOLEAN
  BY <1>0 DEF Entry, Packs
<1>2. PICK t \in S : \A e \in S : e.ts <= t.ts
  <2> DEFINE T == {b - e.ts : e \in S}
  <2>1. T \in SUBSET Nat /\ T # {}
    BY <1>0, <1>1
  <2>2. PICK x \in T : \A y \in T : x <= y
    BY <2>1, LeastNat
  <2>3. PICK t \in S : x = b - t.ts
    BY <2>2
  <2>4. ASSUME NEW e \in S PROVE e.ts <= t.ts
    <3>1. b - t.ts <= b - e.ts
      BY <2>2, <2>3
    <3> QED BY <1>1, <3>1
  <2> QED BY <2>3, <2>4
<1>3. PICK R \in SUBSET S : /\ R # {} /\ \A e \in R : e.ts = t.ts
                            /\ \A e \in R, f \in S \ R : e.ts > f.ts \/ (e.ts = f.ts /\ ~e.deleted /\ f.deleted)
                            /\ \A e, f \in R : e.deleted = f.deleted
  <2>1. CASE \E e \in S : e.ts = t.ts /\ ~e.deleted
    <3> DEFINE R == {e \in S : e.ts = t.ts /\ ~e.deleted}
    <3>1. /\ R # {} /\ \A e \in R : e.ts = t.ts
          /\ \A e \in R, f \in S \ R : e.ts > f.ts \/ (e.ts = f.ts /\ ~e.deleted /\ f.deleted)
      BY <1>1, <1>2, <2>1
    <3>2. \A e, f \in R : e.deleted = f.deleted
      BY <1>1
    <3> QED BY <3>1, <3>2
  <2>2. CASE \A e \in S : e.ts = t.ts => e.deleted
    <3> DEFINE R == {e \in S : e.ts = t.ts}
    <3>1. /\ R # {} /\ \A e \in R : e.ts = t.ts
          /\ \A e \in R, f \in S \ R : e.ts > f.ts
      BY <1>1, <1>2, <2>2
    <3>2. \A e, f \in R : e.deleted = f.deleted
      BY <1>1, <2>2
    <3> QED BY <3>1, <3>2
  <2> QED BY <2>1, <2>2
<1>4. PICK m \in R : \A e \in R : e.pack <= m.pack
  <2> DEFINE T == {MaxCalls + 1 - e.pack : e \in R}
  <2>1. T \in SUBSET Nat /\ T # {}
    BY <1>1, <1>3, ManagerAssumption
  <2>2. PICK x \in T : \A y \in T : x <= y
    BY <2>1, LeastNat
  <2>3. PICK m \in R : x = MaxCalls + 1 - m.pack
    BY <2>2
  <2>4. ASSUME NEW e \in R PROVE e.pack <= m.pack
    <3>1. MaxCalls + 1 - m.pack <= MaxCalls + 1 - e.pack
      BY <2>2, <2>3
    <3> QED BY <1>1, <1>3, <3>1, ManagerAssumption
  <2> QED BY <2>3, <2>4
<1>5. ASSUME NEW f \in S PROVE f = m \/ contentInfoGreaterThan(m, f)
  <2>1. CASE f \in R
    <3>1. f.ts = m.ts /\ f.deleted = m.deleted /\ f.content = m.content
      BY <1>0, <1>3, <2>1
    <3>2. f.pack = m.pack => f = m
      BY <1>0, <3>1 DEF Entry
    <3>3. f.pack # m.pack => m.pack > f.pack
      BY <1>1, <1>4, <2>1
    <3> QED BY <3>1, <3>2, <3>3 DEF contentInfoGreaterThan
  <2>2. CASE f \notin R
    BY <1>3, <2>2 DEF contentInfoGreaterThan
  <2> QED BY <2>1, <2>2
<1>6. m \in Newest(Of(es, c))
  BY <1>0, <1>5, NewestIs
<1> QED BY <1>6

\* Entries that are not the newest make no difference.
LEMMA NewestSame ==
  ASSUME NEW es \in SUBSET Entry, NEW fs \in SUBSET Entry, NEW c, NEW b \in Nat, \A e \in es : e.ts <= b,
         Of(fs, c) \subseteq Of(es, c), Newest(Of(es, c)) \subseteq fs
  PROVE  Newest(Of(fs, c)) = Newest(Of(es, c))
<1>1. \A e \in fs : e.content = c => e \in es
  BY DEF Of
<1>2. \A e \in Newest(Of(es, c)) : e \in Newest(Of(fs, c))
  BY <1>1, NewestIs
<1>3. ASSUME NEW e \in Newest(Of(fs, c)) PROVE e \in Newest(Of(es, c))
  <2>1. e \in Of(es, c)
    BY <1>1, NewestIs DEF Of
  <2>2. PICK m \in Newest(Of(es, c)) : TRUE
    BY <2>1, NewestExists
  <2>3. m \in Newest(Of(fs, c))
    BY <1>2
  <2> QED BY <1>3, <2>2, <2>3, NewestIsOne
<1> QED BY <1>2, <1>3

\* The contents whose calls do not overlap and were all shown the newest entry.
Clean(c) == c \in Contents /\ c \notin contended /\ c \notin misled
Alone == \A c \in Contents, g, h \in Goroutines : Clean(c) /\ call[g].content = c /\ call[h].content = c => g = h

\* From the lookup until the content is added, ...
Adding(g) == pc[g] \in {"add", "addLock", "addWait", "addRetry"} \cup FlushPlaces /\ call[g].op \in Writes
\* ... a call knows the newest entry of its content: the entry it adds will be newer.
Knows(g, c) ==
  \/ call[g].op = "write" /\ call[g].previousWriteTime = NotFound /\ Of(AllEntries, c) = {}
  \/ \E e \in Current(c) : call[g].previousWriteTime = e.ts /\ (call[g].op = "rewrite" => call[g].isDeleted = e.deleted)
\* A call that has written its content and is uploading the pack.
Written(g) == pc[g] \in {"upload", "uploaded"} /\ call[g].op \in {"write", "undelete"}
\* Only a rewrite writes a content as deleted, and only a write looks up without reading.
OpOK(g) == /\ call[g].op # "rewrite" => call[g].isDeleted = FALSE
           /\ pc[g] \in {"retryLock", "retry", "lookup"} => call[g].op = "write"
CallShown(g) == /\ OpOK(g)
                /\ \A c \in Contents : Clean(c) /\ call[g].content = c => (Adding(g) => Knows(g, c)) /\ (Written(g) => Exists(c))

\* The times of the entries have a bound.
Bounded == \E b \in Nat : \A e \in AllEntries : e.ts <= b

ShownInv == Bounded /\ Alone /\ (\A g \in Goroutines : CallShown(g)) /\ AcceptedExists

\* Entries are well typed.
LEMMA AllEntriesType == TypeInv => AllEntries \subseteq Entry
  BY DEF TypeInv, TypeOK, AllEntries
\* The same in the next state.
LEMMA AllEntriesTypeNext == TypeInv' => AllEntries' \subseteq Entry
  BY DEF TypeInv, TypeOK, AllEntries

\* A content exists when its newest entry is not a deletion.
LEMMA ExistsIs == ASSUME TypeInv, NEW c, NEW m \in Current(c)
                  PROVE  m \in AllEntries /\ m \in Entry /\ m.content = c /\ (Exists(c) <=> ~m.deleted)
<1>1. m \in AllEntries /\ m.content = c
  BY NewestIs DEF Current
<1>2. m \in Entry
  BY <1>1, AllEntriesType
<1>3. \A e \in Current(c) : e = m
  BY AllEntriesType, NewestIsOne DEF Current
<1> QED BY <1>1, <1>2, <1>3 DEF Exists, Live, Of

\* A step that keeps the newest entry of a content, if it has one.
Same(c) == Current(c)' = Current(c) /\ (Of(AllEntries, c) = {} => Of(AllEntries', c) = {})

\* Then it exists as before, ...
LEMMA SameExists == ASSUME NEW c, Same(c) PROVE Exists(c)' = Exists(c)
  BY DEF Same, Exists, Live, Of

\* ... and a call knows as much as before.
LEMMA SameKnows == ASSUME NEW c, Same(c), NEW g \in Goroutines, Knows(g, c), call'[g].op = call[g].op,
                          call'[g].previousWriteTime = call[g].previousWriteTime, call'[g].isDeleted = call[g].isDeleted
                   PROVE  Knows(g, c)'
<1>1. CASE call[g].op = "write" /\ call[g].previousWriteTime = NotFound /\ Of(AllEntries, c) = {}
  BY <1>1 DEF Same, Knows
<1>2. ASSUME NEW e \in Current(c), call[g].previousWriteTime = e.ts, call[g].op = "rewrite" => call[g].isDeleted = e.deleted
      PROVE  Knows(g, c)'
  BY <1>2 DEF Same, Knows
<1> QED BY <1>1, <1>2 DEF Knows

\* A step of one goroutine that touches the entries of one content at most, which no other call is for.
LEMMA OneShown ==
  ASSUME TypeInv, ShownInv, NEW g \in Goroutines, NEW k,
         \A h \in Goroutines \ {g} : pc'[h] = pc[h] /\ call'[h] = call[h],
         \A c : Clean(c)' => Clean(c),
         \A c \in Contents \ {k} : Clean(c)' => Same(c),
         Clean(k)' => \A h \in Goroutines \ {g} : call[h].content # k,
         \A c \in accepted' : Clean(c)' => Exists(c)' \/ (c \in accepted /\ c # k),
         CallShown(g)', Bounded', accepted' \subseteq Contents,
         \A c \in Contents, h \in Goroutines \ {g} : Clean(c)' /\ call'[g].content = c => call[h].content # c
  PROVE  ShownInv'
<1>1. ASSUME NEW h \in Goroutines \ {g} PROVE CallShown(h)'
  <2>1. OpOK(h)'
    BY DEF ShownInv, CallShown, OpOK
  <2>2. ASSUME NEW c \in Contents, Clean(c)', call'[h].content = c
        PROVE  (Adding(h)' => Knows(h, c)') /\ (Written(h)' => Exists(c)')
    <3>1. call[h].content = c /\ Clean(c) /\ c # k /\ Same(c)
      BY <2>2
    <3>2. (Adding(h)' => Adding(h)) /\ (Written(h)' => Written(h))
      BY DEF Adding, Written
    <3>3. (Adding(h) => Knows(h, c)) /\ (Written(h) => Exists(c))
      BY <3>1 DEF ShownInv, CallShown
    <3> QED BY <3>1, <3>2, <3>3, SameKnows, SameExists
  <2> QED BY <2>1, <2>2 DEF CallShown
<1>2. Alone'
  <2> SUFFICES ASSUME NEW c \in Contents, NEW h \in Goroutines, NEW i \in Goroutines, Clean(c)', call'[h].content = c,
                      call'[i].content = c, h # i
               PROVE  FALSE
    BY DEF Alone
  <2>1. CASE h # g /\ i # g
    BY <2>1 DEF ShownInv, Alone
  <2> QED BY <2>1
<1>3. AcceptedExists'
  <2> SUFFICES ASSUME NEW c \in accepted', Clean(c)' PROVE Exists(c)'
    BY DEF AcceptedExists, Clean
  <2>1. CASE c \in accepted /\ c # k
    <3>1. Clean(c) /\ Same(c)
      BY <2>1
    <3>2. Exists(c)
      BY <2>1, <3>1 DEF ShownInv, AcceptedExists, Clean
    <3> QED BY <3>1, <3>2, SameExists
  <2> QED BY <2>1
<1> QED BY <1>1, <1>2, <1>3 DEF ShownInv

\* A step that leaves the entries alone.
LEMMA QuietSame == UNCHANGED <<indexed, packIndexBuilder, items>> =>
                     AllEntries' = AllEntries /\ (Bounded => Bounded') /\ \A c : Same(c)
  BY DEF AllEntries, Bounded, Same, Current

\* A call that goes on: it adds nothing and knows what it knew.
GoesFurther(g) ==
  /\ \A h \in Goroutines \ {g} : pc'[h] = pc[h] /\ call'[h] = call[h]
  /\ call'[g].op = call[g].op /\ call'[g].content = call[g].content
  /\ call'[g].previousWriteTime = call[g].previousWriteTime /\ call'[g].isDeleted = call[g].isDeleted
  /\ Adding(g)' => Adding(g)
  /\ Written(g)' => Written(g)
  /\ pc'[g] \in {"retryLock", "retry", "lookup"} => pc[g] \in {"retryLock", "retry", "lookup"}
  /\ UNCHANGED progress

\* Such a step keeps the invariant.
LEMMA FurtherShown ==
  ASSUME TypeInv, ShownInv, NEW g \in Goroutines, GoesFurther(g), \A c \in Contents : Same(c), Bounded'
  PROVE  ShownInv'
<1>1. /\ \A h \in Goroutines \ {g} : pc'[h] = pc[h] /\ call'[h] = call[h]
      /\ \A c : Clean(c)' <=> Clean(c)
      /\ accepted' = accepted /\ accepted \subseteq Contents
      /\ call'[g].content = call[g].content
  BY DEF GoesFurther, progress, Clean, TypeInv, TypeOK
<1>2. \A c \in Contents, h \in Goroutines \ {g} : Clean(c)' /\ call'[g].content = c => call[h].content # c
  BY <1>1 DEF ShownInv, Alone
<1>3. CallShown(g)'
  <2>1. OpOK(g)'
    BY DEF ShownInv, CallShown, OpOK, GoesFurther
  <2>2. ASSUME NEW c \in Contents, Clean(c)', call'[g].content = c
        PROVE  (Adding(g)' => Knows(g, c)') /\ (Written(g)' => Exists(c)')
    <3>1. call[g].content = c /\ Clean(c) /\ Same(c)
      BY <1>1, <2>2
    <3>2. (Adding(g)' => Knows(g, c)) /\ (Written(g)' => Exists(c))
      BY <3>1 DEF ShownInv, CallShown, GoesFurther
    <3> QED BY <3>1, <3>2, SameKnows, SameExists DEF GoesFurther
  <2> QED BY <2>1, <2>2 DEF CallShown
<1>4. Nil \notin Contents
  BY ManagerAssumption
<1>5. ~Clean(Nil)'
  BY <1>4 DEF Clean
<1>6. \A c \in accepted' : c \in accepted /\ c # Nil
  BY <1>1, <1>4
<1> QED BY <1>1, <1>2, <1>3, <1>5, <1>6, OneShown

\* A call that ends, having accepted a content only if it exists.
LEMMA EndsShown ==
  ASSUME TypeInv, ShownInv, NEW g \in Goroutines, NEW ok, Ends(g, ok), misled \subseteq misled',
         ok /\ call[g].op \in {"write", "undelete"} => \A c \in Contents : call[g].content = c /\ Clean(c)' => Exists(c),
         \A c \in Contents : Same(c), Bounded'
  PROVE  ShownInv'
<1>0. /\ \A h \in Goroutines \ {g} : pc'[h] = pc[h] /\ call'[h] = call[h]
      /\ pc'[g] = "idle" /\ call'[g] = NoCall
  BY DEF Ends, Goto, TypeInv, TypeOK
<1>1. Nil \notin Contents /\ NoCall.content = Nil /\ NoCall.op = "idle" /\ NoCall.isDeleted = FALSE
  BY ManagerAssumption DEF NoCall
<1>2. \A c : Clean(c)' => Clean(c)
  BY DEF Ends, Clean
<1>3. accepted \subseteq Contents /\ ~Clean(Nil)'
  BY <1>1 DEF TypeInv, TypeOK, Clean
<1>4. ASSUME NEW c \in accepted', Clean(c)' PROVE Exists(c)' \/ (c \in accepted /\ c # Nil)
  <2>1. CASE c \in accepted
    BY <1>1, <1>3, <2>1
  <2>2. CASE c \notin accepted
    <3>1. c = call[g].content /\ ok /\ call[g].op \in {"write", "undelete"}
      BY <2>2 DEF Ends
    <3>2. c \in Contents
      BY <1>4 DEF Clean
    <3> QED BY <1>4, <3>1, <3>2, SameExists
  <2> QED BY <2>1, <2>2
<1>5. CallShown(g)'
  BY <1>0, <1>1 DEF CallShown, OpOK
<1>6. accepted' \subseteq Contents
  <2>1. call[g].op \in {"write", "undelete"} => call[g].content \in Contents
    BY DEF TypeInv, CallOK, Writes
  <2> QED BY <1>3, <2>1 DEF Ends
<1>7. \A c \in Contents : call'[g].content # c
  BY <1>0, <1>1
<1> QED BY <1>0, <1>2, <1>3, <1>4, <1>5, <1>6, <1>7, OneShown

\* The places of a call that looks for the entry of its content.
Looking == {"retryLock", "retry", "lookup"}

\* A goroutine that goes from one place of a kind to another is shown no other entry.
LEMMA MoveFurther ==
  ASSUME TypeInv, NEW g \in Goroutines, NEW l, Goto(g, l) \/ (pc' = pc /\ l = pc[g]),
         \/ call' = call
         \/ \E x : call' = [call EXCEPT ![g].todo = x]
         \/ \E x : call' = [call EXCEPT ![g].uploaded = x],
         l \in {"add", "addLock", "addWait", "addRetry"} \cup FlushPlaces =>
           pc[g] \in {"add", "addLock", "addWait", "addRetry"} \cup FlushPlaces,
         l \in {"upload", "uploaded"} => pc[g] \in {"upload", "uploaded"},
         l \in Looking => pc[g] \in Looking, UNCHANGED progress
  PROVE  GoesFurther(g)
<1>0. call \in [Goroutines -> CallRecord] /\ pc \in [Goroutines -> Places] /\ call[g] \in CallRecord
  BY DEF TypeInv, TypeOK
<1>1. pc'[g] = l /\ \A h \in Goroutines \ {g} : pc'[h] = pc[h]
  BY <1>0 DEF Goto
<1>2. /\ \A h \in Goroutines \ {g} : call'[h] = call[h]
      /\ call'[g].op = call[g].op /\ call'[g].content = call[g].content
      /\ call'[g].previousWriteTime = call[g].previousWriteTime /\ call'[g].isDeleted = call[g].isDeleted
  <2>1. CASE call' = call
    BY <2>1
  <2>2. ASSUME NEW x, call' = [call EXCEPT ![g].todo = x] PROVE <1>2!1 /\ <1>2!2 /\ <1>2!3
    BY <1>0, <2>2 DEF CallRecord
  <2>3. ASSUME NEW x, call' = [call EXCEPT ![g].uploaded = x] PROVE <1>2!1 /\ <1>2!2 /\ <1>2!3
    BY <1>0, <2>3 DEF CallRecord
  <2> QED BY <2>1, <2>2, <2>3
<1>3. (Adding(g)' => Adding(g)) /\ (Written(g)' => Written(g))
  BY <1>1, <1>2 DEF Adding, Written
<1> QED BY <1>1, <1>2, <1>3 DEF GoesFurther, Looking

\* The steps that wait, take the mutex or upload.
LEMMA ControlShown ==
  ASSUME TypeInv, ShownInv, NEW g \in Goroutines,
         \/ maybeRetryWritingFailedPacksUnlocked(g) \/ endRetry(g) \/ maybeFlushBasedOnTime(g) \/ addAfterWait(g)
         \/ flushLock(g) \/ waitForWritingPacks(g) \/ \E ok \in BOOLEAN : uploadPack(g, ok)
         \/ addToPack(g) /\ WaitWhileFlushing(g, "addWait", "addRetry") /\ UNCHANGED progress
  PROVE  ShownInv'
<1>1. UNCHANGED <<indexed, packIndexBuilder, items, progress>>
  BY DEF maybeRetryWritingFailedPacksUnlocked, endRetry, maybeFlushBasedOnTime, addAfterWait, flushLock,
         waitForWritingPacks, uploadPack, addToPack, notPacking, storage, packing, history, progress
<1>2. \/ call' = call
      \/ \E x : call' = [call EXCEPT ![g].todo = x]
      \/ \E x : call' = [call EXCEPT ![g].uploaded = x]
  BY DEF maybeRetryWritingFailedPacksUnlocked, endRetry, maybeFlushBasedOnTime, addAfterWait, flushLock,
         waitForWritingPacks, uploadPack, addToPack, WaitWhileFlushing
<1>3. \/ pc[g] \in Looking /\ \E l \in Looking : Goto(g, l)
      \/ pc[g] \in {"add", "addLock", "addWait", "addRetry"} \cup FlushPlaces /\ \E l \in {"addWait", "addRetry"} \cup FlushPlaces : Goto(g, l)
      \/ pc[g] = "upload" /\ Goto(g, "uploaded")
  BY DEF maybeRetryWritingFailedPacksUnlocked, endRetry, maybeFlushBasedOnTime, addAfterWait, flushLock,
         waitForWritingPacks, uploadPack, addToPack, WaitWhileFlushing, Looking, FlushPlaces
<1>4. GoesFurther(g)
  <2>1. ASSUME pc[g] \in Looking, NEW l \in Looking, Goto(g, l) PROVE GoesFurther(g)
    BY <1>1, <1>2, <2>1, MoveFurther DEF Looking, FlushPlaces
  <2>2. ASSUME pc[g] \in {"add", "addLock", "addWait", "addRetry"} \cup FlushPlaces,
               NEW l \in {"addWait", "addRetry"} \cup FlushPlaces, Goto(g, l)
        PROVE  GoesFurther(g)
    BY <1>1, <1>2, <2>2, MoveFurther DEF Looking, FlushPlaces
  <2>3. ASSUME pc[g] = "upload", Goto(g, "uploaded") PROVE GoesFurther(g)
    BY <1>1, <1>2, <2>3, MoveFurther DEF Looking, FlushPlaces
  <2> QED BY <1>3, <2>1, <2>2, <2>3
<1> QED BY <1>1, <1>4, QuietSame, FurtherShown DEF ShownInv

\* The steps outside the calls.
LEMMA PlainShown ==
  ASSUME ShownInv, \/ Tick \/ Refresh \/ UNCHANGED vars
                   \/ \E g \in Goroutines : DisableIndexFlush(g) \/ EnableIndexFlush(g)
  PROVE  ShownInv'
<1>1. UNCHANGED <<indexed, packIndexBuilder, items, accepted, contended, misled, pc, call>>
  BY DEF Tick, Refresh, vars, DisableIndexFlush, EnableIndexFlush, storage, packing, history
<1>2. AllEntries' = AllEntries
  BY <1>1, QuietSame
<1> QED BY <1>1, <1>2 DEF ShownInv, Bounded, Alone, Clean, CallShown, OpOK, Adding, Knows, Written, AcceptedExists, Exists, Current

\* Starting a call: when another one for the content is in progress, they contend.
LEMMA StartShown ==
  ASSUME TypeInv, ShownInv, NEW g \in Goroutines, NEW o, NEW c, NEW l, Start(g, o, c, l),
         \/ o = "write" /\ c \in Contents /\ l = "retryLock"
         \/ o \in {"undelete", "rewrite"} /\ c \in Contents /\ l = "readLock"
         \/ o = "flush" /\ c = Nil /\ l = "flushLock"
  PROVE  ShownInv'
<1>1. /\ UNCHANGED <<indexed, packIndexBuilder, items, accepted, misled>> /\ contended \subseteq contended'
      /\ contended' = contended \cup {x \in {c} : c # Nil /\ InProgress(c)}
  BY DEF Start, Contends, storage, packing
<1>2. /\ \A h \in Goroutines \ {g} : pc'[h] = pc[h] /\ call'[h] = call[h]
      /\ pc'[g] = l /\ call'[g] = [NoCall EXCEPT !.op = o, !.content = c]
  BY DEF Start, Goto, TypeInv, TypeOK
<1>3. call'[g].op = o /\ call'[g].content = c /\ call'[g].isDeleted = FALSE
  BY <1>2 DEF NoCall
<1>4. \A d : Clean(d)' => Clean(d)
  BY <1>1 DEF Clean
<1>5. CallShown(g)'
  <2>1. OpOK(g)'
    BY <1>2, <1>3 DEF OpOK
  <2>2. ~Adding(g)' /\ ~Written(g)'
    BY <1>2, <1>3 DEF Adding, Written, FlushPlaces, Writes
  <2> QED BY <2>1, <2>2 DEF CallShown
<1>6. ASSUME NEW d \in Contents, NEW h \in Goroutines \ {g}, Clean(d)', call'[g].content = d PROVE call[h].content # d
  <2>1. d = c /\ d # Nil /\ d \notin contended'
    BY <1>3, <1>6, ManagerAssumption DEF Clean
  <2> QED BY <1>1, <2>1 DEF InProgress
<1>7. accepted \subseteq Contents /\ Nil \notin Contents /\ ~Clean(Nil)'
  BY ManagerAssumption DEF TypeInv, TypeOK, Clean
<1>8. Bounded' /\ \A d : Same(d)
  BY <1>1, QuietSame DEF ShownInv
<1>9. accepted' \subseteq Contents /\ \A d \in accepted' : d \in accepted /\ d # Nil
  BY <1>1, <1>7
<1>10. \A h \in Goroutines \ {g} : pc'[h] = pc[h] /\ call'[h] = call[h]
  BY <1>2
<1>11. \A d \in Contents, h \in Goroutines \ {g} : Clean(d)' /\ call'[g].content = d => call[h].content # d
  BY <1>6
<1> QED BY <1>4, <1>5, <1>7, <1>8, <1>9, <1>10, <1>11, OneShown

\* A lookup finds entries of the content that are among all entries.
LEMMA FoundAmong == ASSUME TypeInv, LockInv, NEW c \in Contents, NEW f \in getContentInfoReadLocked(c)
                    PROVE  f.info \in AllEntries /\ f.info.content = c
<1> DEFINE pending == Of(ItemsOf(PendingPack(c)), c)
           writing == Of(items[FirstWriting(WritingWith(c))], c)
           other == IF Of(packIndexBuilder, c) # {} THEN Of(packIndexBuilder, c) ELSE Newest(Of(committed, c))
<1>1. pending \subseteq Of(AllEntries, c)
  BY ManagerAssumption DEF TypeInv, TypeOK, Of, ItemsOf, PendingPack, None, AllEntries
<1>2. WritingWith(c) # {} => writing \subseteq Of(AllEntries, c)
  <2> SUFFICES ASSUME WritingWith(c) # {} PROVE writing \subseteq Of(AllEntries, c)
    OBVIOUS
  <2>1. FirstWriting(WritingWith(c)) \in Packs
    BY FirstWritingType DEF WritingWith, TypeInv, TypeOK
  <2> QED BY <2>1 DEF TypeInv, TypeOK, Of, AllEntries
<1>3. other \subseteq Of(AllEntries, c)
  <2>1. committed \subseteq indexed
    BY DEF LockInv, CommittedIndexed
  <2> QED BY <2>1, NewestSubset DEF Of, AllEntries
<1>4. \A p, es : \A x \in FoundIn(p, es) : x.info \in es
  BY DEF FoundIn
<1>5. \/ getContentInfoReadLocked(c) = FoundIn(PendingPack(c), pending)
      \/ WritingWith(c) # {} /\ getContentInfoReadLocked(c) = FoundIn(FirstWriting(WritingWith(c)), writing)
      \/ getContentInfoReadLocked(c) = FoundIn(None, other)
  BY DEF getContentInfoReadLocked
<1> HIDE DEF pending, writing, other
<1>6. f.info \in Of(AllEntries, c)
  BY <1>1, <1>2, <1>3, <1>4, <1>5
<1> QED BY <1>6 DEF Of

\* A write that was shown no entry does not find one later.
LEMMA RaceShown ==
  ASSUME TypeInv, LockInv, ShownInv, NEW g \in Goroutines, addToPack(g), call[g].previousWriteTime < 0,
         getContentInfoReadLocked(call[g].content) # {}, Finish(g, TRUE)
  PROVE  ShownInv'
<1>1. Adding(g) /\ call[g].content \in Contents /\ UNCHANGED <<indexed, packIndexBuilder, items>>
  BY DEF addToPack, Adding, TypeInv, CallOK, AddPlaces, notPacking, storage, packing
<1>2. ASSUME NEW c \in Contents, call[g].content = c, Clean(c)' PROVE FALSE
  <2>1. Clean(c)
    BY <1>2 DEF Finish, Ends, Clean
  <2>2. Knows(g, c)
    BY <1>1, <1>2, <2>1 DEF ShownInv, CallShown
  <2>3. PICK f \in getContentInfoReadLocked(c) : TRUE
    BY <1>2
  <2>4. f.info \in Of(AllEntries, c)
    BY <2>3, FoundAmong DEF Of
  <2>5. \A e \in Current(c) : e.ts \in Nat
    BY ExistsIs DEF Entry
  <2> QED BY <2>2, <2>4, <2>5 DEF Knows
<1>3. Ends(g, TRUE) /\ misled \subseteq misled'
  BY DEF Finish
<1>4. Bounded' /\ \A d : Same(d)
  BY <1>1, QuietSame DEF ShownInv
<1> QED BY <1>2, <1>3, <1>4, EndsShown

\* A lookup either shows the newest entry, or the content is no longer clean.
LEMMA LookupShown == ASSUME TypeInv, LockInv, ShownInv, NEW g \in Goroutines, lookupContent(g) \/ readForRewrite(g)
                     PROVE  ShownInv'
<1>1. /\ UNCHANGED <<indexed, packIndexBuilder, items>> /\ pc[g] \in {"lookup", "readLock"}
      /\ IsShown(call[g].content)
  BY DEF lookupContent, readForRewrite, notPacking, storage, packing
<1>2. PICK c \in Contents : c = call[g].content
  BY <1>1 DEF TypeInv, CallOK, AddPlaces
<1>3. PICK found : found = getContentInfoReadLocked(c)
  OBVIOUS
<1>4. call[g] \in CallRecord /\ misled \subseteq misled' /\ OpOK(g)
  BY <1>1 DEF TypeInv, TypeOK, IsShown, ShownInv, CallShown
<1>5. c \notin misled' => {f.info : f \in found} = Current(c)
  BY <1>1, <1>2, <1>3 DEF IsShown
<1>6. Bounded' /\ \A d : Same(d)
  BY <1>1, QuietSame DEF ShownInv
<1>7. ASSUME NEW f \in found, Clean(c)'
      PROVE  f.info \in Current(c) /\ f.info \in Entry /\ (Exists(c) <=> ~f.info.deleted)
  <2>1. f.info \in Current(c)
    BY <1>5, <1>7 DEF Clean
  <2> QED BY <2>1, ExistsIs
<1>8. ASSUME Clean(c)', found = {} PROVE Of(AllEntries, c) = {}
  <2>1. Current(c) = {}
    BY <1>5, <1>8 DEF Clean
  <2>2. PICK b \in Nat : \A e \in AllEntries : e.ts <= b
    BY DEF ShownInv, Bounded
  <2> QED BY <2>1, <2>2, AllEntriesType, NewestExists DEF Current
<1>9. ASSUME NEW ok, Ends(g, ok), ok => (\E f \in found : ~f.info.deleted) \/ call[g].op = "rewrite" PROVE ShownInv'
  <2>1. ASSUME ok, call[g].op \in {"write", "undelete"}, NEW d \in Contents, call[g].content = d, Clean(d)' PROVE Exists(d)
    BY <1>2, <1>7, <1>9, <2>1
  <2>2. ok /\ call[g].op \in {"write", "undelete"} => \A d \in Contents : call[g].content = d /\ Clean(d)' => Exists(d)
    BY <2>1
  <2>3. \A d \in Contents : Same(d)
    BY <1>6
  <2> QED BY <1>4, <1>6, <1>9, <2>2, <2>3, EndsShown
<1>10. ASSUME Goto(g, "add"), UNCHANGED <<accepted, undisturbed, contended>>,
              \A h \in Goroutines \ {g} : call'[h] = call[h],
              call'[g].content = c, call'[g].op = call[g].op,
              call[g].op # "rewrite" => call'[g].isDeleted = FALSE,
              Clean(c)' => Knows(g, c)'
       PROVE  ShownInv'
  <2>1. pc'[g] = "add" /\ \A h \in Goroutines \ {g} : pc'[h] = pc[h] /\ call'[h] = call[h]
    BY <1>10, GotoOne
  <2>2. \A d : Clean(d)' => Clean(d)
    BY <1>4, <1>10 DEF Clean
  <2>3. CallShown(g)'
    <3>1. OpOK(g)'
      BY <1>4, <1>10, <2>1 DEF OpOK
    <3>2. ~Written(g)'
      BY <2>1 DEF Written
    <3> QED BY <1>10, <3>1, <3>2 DEF CallShown
  <2>4. accepted' \subseteq Contents /\ \A d \in accepted' : d \in accepted /\ d # Nil
    BY <1>10, ManagerAssumption DEF TypeInv, TypeOK
  <2>5. ~Clean(Nil)'
    BY ManagerAssumption DEF Clean
  <2>6. \A d \in Contents, h \in Goroutines \ {g} : Clean(d)' /\ call'[g].content = d => call[h].content # d
    BY <1>2, <1>10, <2>2 DEF ShownInv, Alone
  <2> QED BY <1>6, <2>1, <2>2, <2>3, <2>4, <2>5, <2>6, OneShown
<1>11. ASSUME NEW f \in found, Clean(c)', call'[g].previousWriteTime = f.info.ts,
              call'[g].op = "rewrite" => call'[g].isDeleted = f.info.deleted
       PROVE  Knows(g, c)'
  <2>1. f.info \in Current(c)'
    BY <1>6, <1>7, <1>11 DEF Same
  <2> QED BY <1>11, <2>1 DEF Knows
<1>12. CASE lookupContent(g)
  <2>1. CASE (\E f \in found : ~f.info.deleted) /\ Ends(g, TRUE)
    BY <1>9, <2>1
  <2>2. ASSUME NEW t \in {f.info.ts : f \in found} \cup {NotFound}, t = NotFound => found = {},
               call' = [call EXCEPT ![g].previousWriteTime = t], Goto(g, "add"), UNCHANGED <<accepted, undisturbed, contended>>
        PROVE  ShownInv'
    <3>1. /\ \A h \in Goroutines \ {g} : call'[h] = call[h]
          /\ call'[g].content = c /\ call'[g].op = call[g].op /\ call'[g].isDeleted = call[g].isDeleted
          /\ call'[g].previousWriteTime = t
      BY <1>2, <1>4, <2>2 DEF TypeInv, TypeOK, CallRecord
    <3>2. call[g].op = "write" /\ call[g].isDeleted = FALSE
      BY <1>4, <1>12 DEF OpOK, lookupContent
    <3>3. ASSUME Clean(c)' PROVE Knows(g, c)'
      <4>1. CASE t = NotFound
        <5>1. Of(AllEntries, c) = {}
          BY <1>8, <2>2, <3>3, <4>1
        <5>2. Of(AllEntries', c) = {}
          BY <1>6, <5>1 DEF Same
        <5> QED BY <3>1, <3>2, <4>1, <5>2 DEF Knows
      <4>2. CASE t # NotFound
        <5>1. PICK f \in found : t = f.info.ts
          BY <2>2, <4>2
        <5> QED BY <1>11, <3>1, <3>2, <3>3, <5>1
      <4> QED BY <4>1, <4>2
    <3> QED BY <1>10, <2>2, <3>1, <3>2, <3>3
  <2> QED BY <1>2, <1>3, <1>12, <2>1, <2>2 DEF lookupContent
<1>13. CASE readForRewrite(g)
  <2>1. CASE Ends(g, FALSE)
    BY <1>9, <2>1
  <2>2. CASE (\E f \in found : ~f.info.deleted) /\ Ends(g, TRUE)
    BY <1>9, <2>2
  <2>3. ASSUME NEW f \in found,
               call' = [call EXCEPT ![g].previousWriteTime = f.info.ts,
                                    ![g].isDeleted = f.info.deleted /\ call[g].op = "rewrite"],
               Goto(g, "add"), UNCHANGED <<accepted, undisturbed, contended>>
        PROVE  ShownInv'
    <3>1. PICK d : d = (f.info.deleted /\ call[g].op = "rewrite")
      OBVIOUS
    <3>2. /\ \A h \in Goroutines \ {g} : call'[h] = call[h]
          /\ call'[g].content = c /\ call'[g].op = call[g].op /\ call'[g].isDeleted = d
          /\ call'[g].previousWriteTime = f.info.ts
      BY <1>2, <1>4, <2>3, <3>1 DEF TypeInv, TypeOK, CallRecord
    <3>3. call[g].op # "rewrite" => d = FALSE
      BY <3>1
    <3>4. ASSUME Clean(c)' PROVE Knows(g, c)'
      <4>1. f.info.deleted \in BOOLEAN
        BY <1>7, <3>4 DEF Entry
      <4>2. call[g].op = "rewrite" => d = f.info.deleted
        BY <3>1, <4>1
      <4> QED BY <1>11, <3>2, <3>4, <4>2
    <3> QED BY <1>10, <2>3, <3>2, <3>3, <3>4
  <2> QED BY <1>2, <1>3, <1>13, <2>1, <2>2, <2>3 DEF readForRewrite
<1> QED BY <1>12, <1>13

\* The books on a pack: its entries go to the index being built unless that has a newer one.
LEMMA ProcessSame ==
  ASSUME TypeInv, Bounded, NEW p \in Packs, NEW ok, processWritePackResultLocked(p, ok), UNCHANGED indexed
  PROVE  Bounded' /\ \A c : Same(c)
<1>1. CASE ~ok
  BY <1>1, QuietSame DEF processWritePackResultLocked
<1>2. CASE ok
  <2>1. packIndexBuilder' = Newest(packIndexBuilder \cup items[p]) /\ \A q \in Packs : items'[q] = IF q = p THEN {} ELSE items[q]
    BY <1>2 DEF processWritePackResultLocked, TypeInv, TypeOK
  <2>2. packIndexBuilder' \subseteq packIndexBuilder \cup items[p]
    BY <2>1, NewestSubset
  <2>3. AllEntries' \subseteq AllEntries
    BY <2>1, <2>2 DEF AllEntries
  <2>4. AllEntries \subseteq Entry /\ AllEntries' \subseteq Entry
    BY <2>3, AllEntriesType
  <2>5. PICK b \in Nat : \A e \in AllEntries : e.ts <= b
    BY DEF Bounded
  <2>6. ASSUME NEW c PROVE Same(c)
    <3>1. ASSUME NEW e \in Newest(Of(AllEntries, c)) PROVE e \in AllEntries'
      <4>1. /\ e \in AllEntries /\ e.content = c
            /\ \A f \in AllEntries : f.content = c => f = e \/ contentInfoGreaterThan(e, f)
        BY <3>1, NewestIs
      <4>2. packIndexBuilder \cup items[p] \subseteq AllEntries
        BY DEF AllEntries
      <4>3. CASE e \in packIndexBuilder \cup items[p]
        <5>1. e \in Newest(packIndexBuilder \cup items[p])
          BY <4>1, <4>2, <4>3 DEF Newest, Of
        <5> QED BY <2>1, <5>1 DEF AllEntries
      <4>4. CASE e \notin packIndexBuilder \cup items[p]
        BY <2>1, <4>1, <4>4 DEF AllEntries
      <4> QED BY <4>3, <4>4
    <3>2. Of(AllEntries', c) \subseteq Of(AllEntries, c)
      BY <2>3 DEF Of
    <3>3. Newest(Of(AllEntries, c)) \subseteq AllEntries'
      BY <3>1
    <3>4. Newest(Of(AllEntries', c)) = Newest(Of(AllEntries, c))
      BY <2>4, <2>5, <3>2, <3>3, NewestSame
    <3> QED BY <3>2, <3>4 DEF Same, Current
  <2> QED BY <2>3, <2>5, <2>6 DEF Bounded
<1> QED BY <1>1, <1>2

\* A pack is retried, or written by a flush: the newest entries stay, ...
LEMMA LockedWriteSame ==
  ASSUME TypeInv, Bounded, NEW g \in Goroutines, NEW ok \in BOOLEAN,
         retryFailedPack(g, ok) \/ \E x \in Prefixes : finishAllPacksLocked(g, x, ok)
  PROVE  Bounded' /\ \A c : Same(c)
<1>1. PICK p \in Packs : processWritePackResultLocked(p, ok) /\ UNCHANGED indexed
  <2>1. CASE retryFailedPack(g, ok)
    <3>1. call[g].todo \in Seq(Packs) /\ call[g].todo # << >>
      BY <2>1 DEF TypeInv, TypeOK, CallRecord, retryFailedPack
    <3>2. Head(call[g].todo) \in Packs
      BY <3>1
    <3> QED BY <2>1, <3>2 DEF retryFailedPack
  <2>2. ASSUME NEW x \in Prefixes, finishAllPacksLocked(g, x, ok)
        PROVE  \E p \in Packs : processWritePackResultLocked(p, ok) /\ UNCHANGED indexed
    <3>1. pendingPacks[x] \in Packs
      BY <2>2 DEF TypeInv, TypeOK, finishAllPacksLocked
    <3> QED BY <2>2, <3>1 DEF finishAllPacksLocked
  <2> QED BY <2>1, <2>2
<1> QED BY <1>1, ProcessSame

\* ... and the call goes on or ends.
LEMMA LockedWriteShown ==
  ASSUME TypeInv, ShownInv, NEW g \in Goroutines, NEW ok \in BOOLEAN,
         retryFailedPack(g, ok) \/ \E x \in Prefixes : finishAllPacksLocked(g, x, ok)
  PROVE  ShownInv'
<1>2. Bounded' /\ \A c : Same(c)
  BY LockedWriteSame DEF ShownInv
<1>3. CASE Finish(g, FALSE)
  <2>1. Ends(g, FALSE) /\ misled \subseteq misled'
    BY <1>3 DEF Finish
  <2> QED BY <1>2, <2>1, EndsShown
<1>4. CASE UNCHANGED <<pc, progress>> /\ (call' = call \/ \E x : call' = [call EXCEPT ![g].todo = x])
  <2>1. GoesFurther(g)
    BY <1>4, MoveFurther
  <2> QED BY <1>2, <2>1, FurtherShown
<1>5. Finish(g, FALSE) \/ (UNCHANGED <<pc, progress>> /\ (call' = call \/ \E x : call' = [call EXCEPT ![g].todo = x]))
  BY DEF retryFailedPack, finishAllPacksLocked
<1> QED BY <1>3, <1>4, <1>5

\* The upload of a pack has ended.
LEMMA UploadResultShown == ASSUME TypeInv, ShownInv, NEW g \in Goroutines, uploadResult(g) PROVE ShownInv'
<1>1. PICK ok : ok = call[g].uploaded
  OBVIOUS
<1>2. /\ call[g].pp \in Packs /\ processWritePackResultLocked(call[g].pp, ok) /\ UNCHANGED indexed
      /\ Ends(g, ok) /\ UNCHANGED misled /\ pc[g] = "uploaded"
  BY <1>1 DEF uploadResult, Finish, TypeInv, CallOK, storage
<1>3. Bounded' /\ \A c : Same(c)
  BY <1>2, ProcessSame DEF ShownInv
<1>4. ok /\ call[g].op \in {"write", "undelete"} => \A c \in Contents : call[g].content = c /\ Clean(c)' => Exists(c)
  <2>1. \A c : Clean(c)' => Clean(c)
    BY <1>2 DEF Ends, Clean
  <2> QED BY <1>2, <2>1 DEF ShownInv, CallShown, Written
<1>5. misled \subseteq misled'
  BY <1>2
<1> QED BY <1>2, <1>3, <1>4, <1>5, EndsShown

\* A flush writes the index and takes what it wrote over: no entry is lost.
LEMMA CommitSame ==
  ASSUME TypeInv, LockInv, Bounded, NEW g \in Goroutines, NEW ok \in BOOLEAN,
         flushPackIndexesLocked(g, ok) \/ commitSession(g, ok) \/ addIndexBlob(g, ok)
  PROVE  Bounded' /\ \A c : Same(c)
<1>1. AllEntries' = AllEntries
  <2>1. CASE flushPackIndexesLocked(g, ok)
    <3>1. UNCHANGED <<packIndexBuilder, items>> /\ indexed \subseteq indexed' /\ indexed' \subseteq indexed \cup packIndexBuilder
      BY <2>1 DEF flushPackIndexesLocked, packing
    <3> QED BY <3>1 DEF AllEntries
  <2>2. CASE commitSession(g, ok)
    BY <2>2 DEF commitSession, packing, AllEntries
  <2>3. CASE addIndexBlob(g, ok)
    <3>1. UNCHANGED <<indexed, items>> /\ packIndexBuilder \subseteq indexed /\ packIndexBuilder' \subseteq packIndexBuilder
      BY <2>3 DEF addIndexBlob, storage, LockInv, FlushAlone, Committing
    <3> QED BY <3>1 DEF AllEntries
  <2> QED BY <2>1, <2>2, <2>3
<1> QED BY <1>1 DEF Bounded, Same, Current

\* The calls go on with what they know.
LEMMA CommitShown ==
  ASSUME TypeInv, LockInv, ShownInv, NEW g \in Goroutines, NEW ok \in BOOLEAN,
         flushPackIndexesLocked(g, ok) \/ commitSession(g, ok) \/ addIndexBlob(g, ok)
  PROVE  ShownInv'
<1>2. Bounded' /\ \A c : Same(c)
  BY CommitSame DEF ShownInv
<1>3. pc[g] \in FlushPlaces
  BY DEF flushPackIndexesLocked, commitSession, addIndexBlob, FlushPlaces
<1>4. ASSUME NEW l \in {"addLock", "flushCommit", "flushAdd"}, Goto(g, l), UNCHANGED <<call, progress>> PROVE ShownInv'
  <2>1. GoesFurther(g)
    BY <1>3, <1>4, MoveFurther DEF Looking, FlushPlaces
  <2> QED BY <1>2, <2>1, FurtherShown
<1>5. ASSUME NEW r \in BOOLEAN, Finish(g, r), r => call[g].op = "flush" PROVE ShownInv'
  <2>1. Ends(g, r) /\ misled \subseteq misled'
    BY <1>5 DEF Finish
  <2> QED BY <1>2, <1>5, <2>1, EndsShown
<1>6. ASSUME NEW r \in BOOLEAN, FlushReturns(g, r) PROVE ShownInv'
  BY <1>4, <1>5, <1>6 DEF FlushReturns
<1>7. \/ FlushReturns(g, TRUE) \/ FlushReturns(g, FALSE)
      \/ (Goto(g, "flushCommit") \/ Goto(g, "flushAdd")) /\ UNCHANGED <<call, progress>>
  BY DEF flushPackIndexesLocked, commitSession, addIndexBlob, history, progress
<1> QED BY <1>4, <1>6, <1>7

\* An entry put into a pack in place of the content's others touches no other content.
LEMMA PutSame ==
  ASSUME TypeInv, Bounded, NEW p \in Packs, NEW e \in Entry, PutItem(p, e), UNCHANGED <<indexed, packIndexBuilder>>
  PROVE  /\ Bounded' /\ (\A c : c # e.content => Same(c))
         /\ AllEntries' \subseteq AllEntries \cup {e} /\ e \in AllEntries'
<1>1. \A q \in Packs : items'[q] = IF q = p THEN (items[p] \ Of(items[p], e.content)) \cup {e} ELSE items[q]
  BY DEF PutItem, TypeInv, TypeOK
<1>2. AllEntries' \subseteq AllEntries \cup {e} /\ e \in AllEntries'
  BY <1>1 DEF AllEntries
<1>3. ASSUME NEW c, c # e.content PROVE Same(c)
  <2>1. \A f \in AllEntries : f.content = c => f \in AllEntries'
    BY <1>1, <1>3 DEF AllEntries, Of
  <2>2. Of(AllEntries', c) = Of(AllEntries, c)
    BY <1>2, <1>3, <2>1 DEF Of
  <2> QED BY <2>2 DEF Same, Current
<1>4. Bounded'
  <2>1. PICK b \in Nat : \A f \in AllEntries : f.ts <= b
    BY DEF Bounded
  <2>2. e.ts \in Nat /\ \A f \in AllEntries : f.ts \in Nat
    BY AllEntriesType DEF Entry
  <2>3. PICK d \in Nat : b <= d /\ e.ts <= d
    BY <2>1, <2>2
  <2>4. \A f \in AllEntries' : f.ts <= d
    BY <1>2, <2>1, <2>2, <2>3
  <2> QED BY <2>4 DEF Bounded
<1> QED BY <1>2, <1>3, <1>4

\* The entry a call adds is the newest of its content when the call was shown the newest before:
\* a write or an undelete leaves the content live, a rewrite leaves it as it was.
LEMMA AddedNewest ==
  ASSUME TypeInv, ShownInv, NEW g \in Goroutines, NEW c \in Contents, call[g].content = c, Clean(c), Adding(g),
         NEW p \in Packs, NEW e \in Entry, e.content = c, e.ts = contentWriteTime(call[g].previousWriteTime),
         e.deleted = call[g].isDeleted, AllEntries' \subseteq AllEntries \cup {e}, e \in AllEntries'
  PROVE  /\ Exists(c)' <=> ~call[g].isDeleted
         /\ call[g].op \in {"write", "undelete"} => Exists(c)'
         /\ call[g].op = "rewrite" => Exists(c)' = Exists(c)
<1>1. call[g].previousWriteTime \in Int /\ now \in Nat /\ call[g].isDeleted \in BOOLEAN
  BY DEF TypeInv, TypeOK, CallRecord
<1>2. e.ts > call[g].previousWriteTime
  BY <1>1 DEF contentWriteTime
<1>3. Knows(g, c) /\ OpOK(g)
  BY DEF ShownInv, CallShown
<1>4. ASSUME NEW f \in AllEntries, f.content = c PROVE e.ts > f.ts
  <2>1. f \in Of(AllEntries, c)
    BY <1>4 DEF Of
  <2>2. PICK m \in Current(c) : call[g].previousWriteTime = m.ts
    BY <1>3, <2>1 DEF Knows
  <2>3. m \in AllEntries /\ m.content = c /\ (f = m \/ contentInfoGreaterThan(m, f))
    BY <1>4, NewestIs DEF Current
  <2>4. f \in Entry /\ m \in Entry
    BY <2>3, AllEntriesType
  <2>5. m.ts >= f.ts
    BY <2>3, <2>4, GreaterOrders DEF Entry
  <2> QED BY <1>2, <2>2, <2>4, <2>5 DEF Entry
<1>5. AllEntries' \subseteq Entry
  BY AllEntriesType
<1>6. \A f \in AllEntries' : f.content = c /\ f # e => e.ts > f.ts
  BY <1>4
<1>7. Newest(Of(AllEntries', c)) = {e}
  <2>1. PICK es : es = AllEntries'
    OBVIOUS
  <2>2. es \in SUBSET Entry /\ e \in es /\ e.content = c
    BY <1>5, <2>1
  <2>3. \A f \in es : f.content = c /\ f # e => e.ts > f.ts
    BY <1>6, <2>1
  <2>4. Newest(Of(es, c)) = {e}
    <3>1. e \in Newest(Of(es, c))
      BY <2>2, <2>3, NewestIs DEF contentInfoGreaterThan
    <3> QED BY <2>2, <3>1, NewestIsOne
  <2> QED BY <2>1, <2>4
<1>8. Exists(c)' <=> ~e.deleted
  BY <1>7 DEF Exists, Current, Live, Of
<1>9. ASSUME call[g].op = "rewrite" PROVE Exists(c)' = Exists(c)
  <2>1. PICK m \in Current(c) : call[g].isDeleted = m.deleted
    BY <1>3, <1>9 DEF Knows
  <2>2. Exists(c) <=> ~m.deleted
    BY <2>1, ExistsIs
  <2>3. Exists(c)' \in BOOLEAN /\ Exists(c) \in BOOLEAN
    BY DEF Exists, Live
  <2> QED BY <1>8, <2>1, <2>2, <2>3
<1>10. call[g].op \in {"write", "undelete"} => call[g].isDeleted = FALSE
  BY <1>3 DEF OpOK
<1> QED BY <1>8, <1>9, <1>10

\* What addContent puts into a pack.
Added(g, p) == [content |-> call[g].content, pack |-> p, ts |-> contentWriteTime(call[g].previousWriteTime),
                deleted |-> call[g].isDeleted]

\* It is an entry of the call's content.
LEMMA AddedType ==
  ASSUME TypeInv, NEW g \in Goroutines, NEW c \in Contents, call[g].content = c, NEW p \in Packs, NEW e, e = Added(g, p)
  PROVE  e \in Entry /\ e.content = c /\ e.ts = contentWriteTime(call[g].previousWriteTime) /\ e.deleted = call[g].isDeleted
<1>1. now \in Nat /\ call[g].previousWriteTime \in Int /\ call[g].isDeleted \in BOOLEAN
  BY DEF TypeInv, TypeOK, CallRecord
<1>2. contentWriteTime(call[g].previousWriteTime) \in Nat
  BY <1>1, WriteTimeType
<1>3. e \in Entry
  BY <1>1, <1>2 DEF Added, Entry
<1> QED BY <1>3 DEF Added

\* Adding the content.
LEMMA AddShown == ASSUME TypeInv, ShownInv, NEW g \in Goroutines, addContent(g) PROVE ShownInv'
<1>1. /\ UNCHANGED <<indexed, packIndexBuilder>> /\ pc[g] = "addRetry" /\ call[g].op \in Writes /\ call[g] \in CallRecord
      /\ call[g].content \in Contents
  BY DEF addContent, TypeInv, TypeOK, CallOK, AddPlaces
<1>2. PICK c \in Contents : c = call[g].content
  BY <1>1
<1>3. Adding(g)
  BY <1>1 DEF Adding
<1>4. CASE SessionMarkerFails(c) /\ Finish(g, FALSE)
  <2>1. Bounded' /\ \A d : Same(d)
    BY <1>1, <1>4, QuietSame DEF SessionMarkerFails, ShownInv
  <2>2. Ends(g, FALSE) /\ misled \subseteq misled'
    BY <1>4 DEF Finish
  <2> QED BY <2>1, <2>2, EndsShown
<1>5. ASSUME NEW p \in Packs, PutItem(p, Added(g, p)),
             \/ call' = [call EXCEPT ![g].pp = p] /\ Goto(g, "upload") /\ UNCHANGED progress
             \/ Finish(g, TRUE)
      PROVE  ShownInv'
  <2>1. PICK e : e = Added(g, p)
    OBVIOUS
  <2>2. /\ e \in Entry /\ e.content = c /\ e.ts = contentWriteTime(call[g].previousWriteTime)
        /\ e.deleted = call[g].isDeleted /\ PutItem(p, e)
    BY <1>2, <1>5, <2>1, AddedType
  <2>3. /\ Bounded' /\ (\A d : d # c => Same(d))
        /\ AllEntries' \subseteq AllEntries \cup {e} /\ e \in AllEntries'
    BY <1>1, <2>2, PutSame DEF ShownInv
  <2>4. /\ UNCHANGED <<misled, contended>> /\ accepted \subseteq Contents
        /\ \A d : Clean(d)' <=> Clean(d)
    BY <1>5 DEF Finish, Ends, progress, Clean, TypeInv, TypeOK
  <2>5. ASSUME Clean(c)
        PROVE  /\ call[g].op \in {"write", "undelete"} => Exists(c)'
               /\ call[g].op = "rewrite" => Exists(c)' = Exists(c)
    BY <1>2, <1>3, <2>2, <2>3, <2>5, AddedNewest
  <2>6. /\ \A h \in Goroutines \ {g} : pc'[h] = pc[h] /\ call'[h] = call[h]
        /\ \/ pc'[g] = "idle" /\ call'[g] = NoCall
           \/ /\ pc'[g] = "upload" /\ call'[g].op = call[g].op /\ call'[g].content = c
              /\ call'[g].isDeleted = call[g].isDeleted
    <3>1. CASE Finish(g, TRUE)
      BY <3>1 DEF Finish, Ends, Goto, TypeInv, TypeOK
    <3>2. CASE call' = [call EXCEPT ![g].pp = p] /\ Goto(g, "upload")
      BY <1>1, <1>2, <3>2 DEF Goto, TypeInv, TypeOK, CallRecord
    <3> QED BY <1>5, <3>1, <3>2
  <2>7. ASSUME NEW d \in accepted', Clean(d)' PROVE Exists(d)' \/ (d \in accepted /\ d # c)
    <3>1. d \in accepted \/ (d = c /\ call[g].op \in {"write", "undelete"})
      BY <1>2, <1>5 DEF Finish, Ends, progress
    <3>2. CASE d = c
      <4>1. Clean(c)
        BY <2>4, <2>7, <3>2
      <4>2. CASE call[g].op \in {"write", "undelete"}
        BY <2>5, <3>2, <4>1, <4>2
      <4>3. CASE call[g].op = "rewrite"
        <5>1. c \in accepted
          BY <3>1, <3>2, <4>3
        <5>2. Exists(c)
          BY <4>1, <5>1 DEF ShownInv, AcceptedExists, Clean
        <5> QED BY <2>5, <3>2, <4>1, <4>3, <5>2
      <4> QED BY <1>1, <4>2, <4>3 DEF Writes
    <3> QED BY <3>1, <3>2
  <2>8. accepted' \subseteq Contents
    BY <1>2, <1>5, <2>4 DEF Finish, Ends, progress
  <2>9. NoCall.content = Nil /\ NoCall.op = "idle" /\ NoCall.isDeleted = FALSE /\ Nil \notin Contents
    BY ManagerAssumption DEF NoCall
  <2>10. CallShown(g)'
    <3>1. OpOK(g)
      BY DEF ShownInv, CallShown
    <3>2. OpOK(g)'
      BY <2>6, <2>9, <3>1 DEF OpOK
    <3>3. ~Adding(g)'
      BY <2>6 DEF Adding, FlushPlaces
    <3>4. ASSUME NEW d \in Contents, Clean(d)', call'[g].content = d, Written(g)' PROVE Exists(d)'
      <4>1. d = c /\ call[g].op \in {"write", "undelete"}
        BY <2>6, <2>9, <3>4 DEF Written
      <4>2. Clean(c)
        BY <2>4, <3>4, <4>1
      <4> QED BY <2>5, <4>1, <4>2
    <3> QED BY <3>2, <3>3, <3>4 DEF CallShown
  <2>11. \A d \in Contents, h \in Goroutines \ {g} : Clean(d)' /\ call'[g].content = d => call[h].content # d
    BY <1>2, <2>4, <2>6, <2>9 DEF ShownInv, Alone
  <2>12. Clean(c)' => \A h \in Goroutines \ {g} : call[h].content # c
    BY <1>2, <2>4 DEF ShownInv, Alone
  <2>13. \A d : Clean(d)' => Clean(d)
    BY <2>4
  <2>14. \A h \in Goroutines \ {g} : pc'[h] = pc[h] /\ call'[h] = call[h]
    BY <2>6
  <2>15. \A d \in Contents \ {c} : Clean(d)' => Same(d)
    BY <2>3
  <2>16. \A d \in accepted' : Clean(d)' => Exists(d)' \/ (d \in accepted /\ d # c)
    BY <2>7
  <2> QED BY <2>3, <2>8, <2>10, <2>11, <2>12, <2>13, <2>14, <2>15, <2>16, OneShown
<1>6. \/ SessionMarkerFails(c) /\ Finish(g, FALSE)
      \/ \E p \in Packs : /\ PutItem(p, Added(g, p))
                          /\ \/ call' = [call EXCEPT ![g].pp = p] /\ Goto(g, "upload") /\ UNCHANGED progress
                             \/ Finish(g, TRUE)
  BY <1>2 DEF addContent, Added
<1> QED BY <1>4, <1>5, <1>6

\* Deleting a content touches no other one, and a call for it that is in progress contends.
LEMMA DeleteShown == ASSUME TypeInv, ShownInv, NEW g \in Goroutines, NEW c \in Contents, DeleteContent(g, c)
                     PROVE  ShownInv'
<1>1. /\ UNCHANGED <<indexed, packIndexBuilder, pc, call, misled>> /\ accepted' = accepted \ {c}
      /\ contended' = contended \cup {x \in {c} : c # Nil /\ InProgress(c)}
  BY DEF DeleteContent, Contends
<1>2. accepted' \subseteq Contents /\ c # Nil
  BY <1>1, ManagerAssumption DEF TypeInv, TypeOK
<1>3. \A d : Clean(d)' => Clean(d)
  BY <1>1 DEF Clean
<1>4. Clean(c)' => \A h \in Goroutines : call[h].content # c
  BY <1>1, <1>2 DEF Clean, InProgress
<1>5. Bounded' /\ \A d : d # c => Same(d)
  <2>1. CASE UNCHANGED items
    BY <1>1, <2>1, QuietSame DEF ShownInv
  <2>2. CASE items' = [items EXCEPT ![PendingPack(c)] = @ \ Of(@, c)]
    <3>1. \A q \in Packs : items'[q] = IF q = PendingPack(c) THEN items[q] \ Of(items[q], c) ELSE items[q]
      BY <2>2 DEF TypeInv, TypeOK
    <3>2. AllEntries' \subseteq AllEntries
      <4>1. \A q \in Packs : items'[q] \subseteq items[q]
        BY <3>1
      <4> QED BY <1>1, <4>1 DEF AllEntries
    <3>3. ASSUME NEW d, d # c PROVE Same(d)
      <4>1. \A f \in AllEntries : f.content = d => f \in AllEntries'
        BY <1>1, <3>1, <3>3 DEF AllEntries, Of
      <4>2. Of(AllEntries', d) = Of(AllEntries, d)
        BY <3>2, <4>1 DEF Of
      <4> QED BY <4>2 DEF Same, Current
    <3> QED BY <3>2, <3>3 DEF Bounded, ShownInv
  <2>3. ASSUME NEW e \in Preexisting(c), NEW p \in Packs, PutItem(p, [e EXCEPT !.deleted = TRUE, !.ts = contentWriteTime(e.ts)])
        PROVE  Bounded' /\ \A d : d # c => Same(d)
    <3>1. e \in Entry /\ e.content = c
      <4>1. PacksOK /\ RestOK
        BY TypeParts
      <4>2. e.content = c
        BY NewestSubset DEF Preexisting, Of
      <4> QED BY <4>1, <4>2, PreexistingType
    <3>2. e.ts \in Int /\ now \in Nat
      BY <3>1 DEF Entry, TypeInv, TypeOK
    <3>3. contentWriteTime(e.ts) \in Nat
      BY <3>2, WriteTimeType
    <3>4. PICK t \in Nat : t = contentWriteTime(e.ts)
      BY <3>3
    <3>5. PICK f : f = [e EXCEPT !.deleted = TRUE, !.ts = t]
      OBVIOUS
    <3>6. f \in Entry /\ f.content = c
      BY <3>1, <3>5 DEF Entry
    <3>7. PutItem(p, f)
      BY <2>3, <3>4, <3>5
    <3> QED BY <1>1, <3>6, <3>7, PutSame DEF ShownInv
  <2> QED BY <2>1, <2>2, <2>3 DEF DeleteContent, SessionMarkerFails
<1>6. CallShown(g)'
  <2>1. CallShown(g)
    BY DEF ShownInv
  <2>2. OpOK(g)' /\ (Adding(g)' => Adding(g)) /\ (Written(g)' => Written(g))
    BY <1>1, <2>1 DEF CallShown, OpOK, Adding, Written
  <2>3. ASSUME NEW d \in Contents, Clean(d)', call'[g].content = d
        PROVE  (Adding(g)' => Knows(g, d)') /\ (Written(g)' => Exists(d)')
    <3>1. call[g].content = d /\ d # c /\ Clean(d) /\ Same(d)
      BY <1>1, <1>3, <1>4, <1>5, <2>3
    <3>2. (Adding(g) => Knows(g, d)) /\ (Written(g) => Exists(d))
      BY <2>1, <3>1 DEF CallShown
    <3> QED BY <1>1, <2>2, <3>1, <3>2, SameKnows, SameExists
  <2> QED BY <2>2, <2>3 DEF CallShown
<1>7. \A d \in Contents, h \in Goroutines \ {g} : Clean(d)' /\ call'[g].content = d => call[h].content # d
  BY <1>1, <1>3 DEF ShownInv, Alone
<1>8. \A h \in Goroutines \ {g} : pc'[h] = pc[h] /\ call'[h] = call[h]
  BY <1>1
<1>9. \A d \in accepted' : d \in accepted /\ d # c
  BY <1>1
<1> QED BY <1>2, <1>3, <1>4, <1>5, <1>6, <1>7, <1>8, <1>9, OneShown

\* Every step keeps the invariant, ...
LEMMA NextShown == TypeInv /\ LockInv /\ ShownInv /\ [Next]_vars => ShownInv'
<1> SUFFICES ASSUME TypeInv, LockInv, ShownInv, [Next]_vars PROVE ShownInv'
  OBVIOUS
<1>1. CASE UNCHANGED vars \/ Tick \/ Refresh
  BY <1>1, PlainShown
<1>2. ASSUME NEW g \in Goroutines, CallSome(g) PROVE ShownInv'
  BY <1>2, PlainShown, StartShown, DeleteShown DEF CallSome, WriteContent, UndeleteContent, RewriteContent, Flush
<1>3. ASSUME NEW g \in Goroutines, addToPack(g) PROVE ShownInv'
  BY <1>3, RaceShown, ControlShown DEF addToPack
<1>4. ASSUME NEW g \in Goroutines, Step(g) PROVE ShownInv'
  BY <1>3, <1>4, PlainShown, ControlShown, LookupShown, AddShown, UploadResultShown, LockedWriteShown, CommitShown DEF Step
<1> QED BY <1>1, <1>2, <1>4 DEF Next

\* ... and it holds at the start.
LEMMA InitShown == Init => ShownInv
<1> SUFFICES ASSUME Init PROVE ShownInv
  OBVIOUS
<1>1. AllEntries = InitEntries
  BY DEF Init, AllEntries
<1>2. Bounded
  <2>1. \A e \in InitEntries : e.ts <= 1
    BY DEF InitEntries
  <2> QED BY <1>1, <2>1 DEF Bounded
<1>3. \A g \in Goroutines : pc[g] = "idle" /\ call[g] = NoCall
  BY DEF Init
<1>4. NoCall.content = Nil /\ NoCall.op = "idle" /\ NoCall.isDeleted = FALSE /\ Nil \notin Contents
  BY ManagerAssumption DEF NoCall
<1>5. Alone /\ \A g \in Goroutines : CallShown(g)
  BY <1>3, <1>4 DEF Alone, CallShown, OpOK
<1>6. AcceptedExists
  BY DEF Init, AcceptedExists
<1> QED BY <1>2, <1>5, <1>6 DEF ShownInv

\* A content that was written or restored and not deleted since exists, whichever uploads fail, in
\* whatever order packs are uploaded and indexed, and however often it was deleted and restored
\* within a second, when the calls for it did not overlap and were shown its newest entry.
THEOREM AcceptedExist == Spec => []AcceptedExists
<1>1. ShownInv => AcceptedExists
  BY DEF ShownInv
<1> QED BY <1>1, InitType, NextType, InitLock, NextLock, InitShown, NextShown, PTL DEF Spec

\* All steps but adding and deleting a content leave the newest entries as they are.
LEMMA NextSame ==
  ASSUME TypeInv, LockInv, Bounded, [Next]_vars
  PROVE  \/ \A c : Same(c)
         \/ \E g \in Goroutines : addContent(g) \/ \E c \in Contents : DeleteContent(g, c)
<1>1. CASE UNCHANGED vars \/ Tick \/ Refresh
  <2>1. UNCHANGED <<indexed, packIndexBuilder, items>>
    BY <1>1 DEF vars, Tick, Refresh, storage, packing
  <2> QED BY <2>1, QuietSame
<1>2. ASSUME NEW g \in Goroutines, CallSome(g) PROVE (\A c : Same(c)) \/ \E c \in Contents : DeleteContent(g, c)
  <2>1. UNCHANGED <<indexed, packIndexBuilder, items>> \/ \E c \in Contents : DeleteContent(g, c)
    BY <1>2 DEF CallSome, WriteContent, UndeleteContent, RewriteContent, Flush, DisableIndexFlush, Start, storage, packing
  <2> QED BY <2>1, QuietSame
<1>3. ASSUME NEW g \in Goroutines, Step(g) PROVE (\A c : Same(c)) \/ addContent(g)
  <2>1. CASE \/ maybeRetryWritingFailedPacksUnlocked(g) \/ endRetry(g) \/ lookupContent(g) \/ readForRewrite(g)
             \/ maybeFlushBasedOnTime(g) \/ addToPack(g) \/ addAfterWait(g) \/ flushLock(g) \/ waitForWritingPacks(g)
             \/ EnableIndexFlush(g) \/ \E ok \in BOOLEAN : uploadPack(g, ok)
    <3>1. UNCHANGED <<indexed, packIndexBuilder, items>>
      BY <2>1 DEF maybeRetryWritingFailedPacksUnlocked, endRetry, lookupContent, readForRewrite, maybeFlushBasedOnTime,
           addToPack, addAfterWait, flushLock, waitForWritingPacks, EnableIndexFlush, uploadPack, notPacking, storage, packing
    <3> QED BY <3>1, QuietSame
  <2>2. CASE uploadResult(g)
    <3>1. call[g].pp \in Packs /\ processWritePackResultLocked(call[g].pp, call[g].uploaded) /\ UNCHANGED indexed
      BY <2>2 DEF uploadResult, TypeInv, CallOK, storage
    <3> QED BY <3>1, ProcessSame
  <2>3. ASSUME NEW ok \in BOOLEAN, retryFailedPack(g, ok) \/ \E x \in Prefixes : finishAllPacksLocked(g, x, ok)
        PROVE  \A c : Same(c)
    BY <2>3, LockedWriteSame
  <2>4. ASSUME NEW ok \in BOOLEAN, flushPackIndexesLocked(g, ok) \/ commitSession(g, ok) \/ addIndexBlob(g, ok)
        PROVE  \A c : Same(c)
    BY <2>4, CommitSame
  <2> QED BY <1>3, <2>1, <2>2, <2>3, <2>4 DEF Step
<1> QED BY <1>1, <1>2, <1>3 DEF Next

\* A rewrite that adds its content leaves it live or deleted as it was.
LEMMA RewriteKeeps ==
  ASSUME TypeInv, LockInv, ShownInv, [Next]_vars, NEW g \in Goroutines, NEW c \in Contents, Clean(c), Rewrites(g, c)
  PROVE  Exists(c)' = Exists(c)
<1>1. mu = g /\ mu # Nil /\ Adding(g) /\ call[g].content = c /\ call[g].op = "rewrite"
  BY HasMutex, ManagerAssumption DEF Rewrites, Locked, Adding, Writes
<1>2. CASE \A d : Same(d)
  BY <1>2, SameExists
<1>3. ASSUME NEW h \in Goroutines, addContent(h) PROVE Exists(c)' = Exists(c)
  <2>1. h = g
    BY <1>1, <1>3, HasMutex DEF addContent, Locked
  <2>2. UNCHANGED <<indexed, packIndexBuilder>> /\ (UNCHANGED items \/ \E p \in Packs : PutItem(p, Added(g, p)))
    BY <1>3, <2>1 DEF addContent, SessionMarkerFails, Added
  <2>3. CASE UNCHANGED items
    BY <2>2, <2>3, QuietSame, SameExists
  <2>4. ASSUME NEW p \in Packs, PutItem(p, Added(g, p)) PROVE Exists(c)' = Exists(c)
    <3>1. PICK e : e = Added(g, p)
      OBVIOUS
    <3>2. /\ e \in Entry /\ e.content = c /\ e.ts = contentWriteTime(call[g].previousWriteTime)
          /\ e.deleted = call[g].isDeleted /\ PutItem(p, e)
      BY <1>1, <2>4, <3>1, AddedType
    <3>3. AllEntries' \subseteq AllEntries \cup {e} /\ e \in AllEntries'
      BY <2>2, <3>2, PutSame DEF ShownInv
    <3> QED BY <1>1, <3>2, <3>3, AddedNewest
  <2> QED BY <2>2, <2>3, <2>4
<1>4. ASSUME NEW h \in Goroutines, NEW d \in Contents, DeleteContent(h, d) PROVE FALSE
  BY <1>1, <1>4 DEF DeleteContent
<1>5. Bounded
  BY DEF ShownInv
<1> QED BY <1>2, <1>3, <1>4, <1>5, NextSame

\* RewriteContent preserves the deleted status of a content when the calls for it do not overlap and
\* were shown its newest entry, whatever other goroutines do between reading and adding it.
THEOREM RewritesPreserve == Spec => ShownRewritePreservesStatus
<1>1. TypeInv /\ LockInv /\ ShownInv /\ [Next]_vars =>
        [\A g \in Goroutines, c \in Contents \ (contended \cup misled) : Rewrites(g, c) => Exists(c)' = Exists(c)]_vars
  BY RewriteKeeps DEF Clean
<1> QED BY <1>1, InitType, NextType, InitLock, NextLock, InitShown, NextShown, PTL DEF Spec, ShownRewritePreservesStatus
=============================================================================
