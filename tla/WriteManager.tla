---------------------------- MODULE WriteManager ----------------------------
(***************************************************************************)
(* content.WriteManager: goroutines of one client pack new contents into   *)
(* pack blobs, upload full packs outside the mutex, and Flush commits an   *)
(* index of the uploaded packs.  A session marker blob protects the packs  *)
(* that no index refers to yet.                                            *)
(*                                                                         *)
(* A content is abstracted to its ID, a pack to the index entries it will  *)
(* add.  Encryption, compression and offsets are left out.  Code between   *)
(* lock and unlock that neither waits nor calls storage is one step;       *)
(* a goroutine that keeps the mutex over several steps holds `mu`.         *)
(***************************************************************************)
EXTENDS Integers, Sequences, FiniteSets, FiniteSetsExt

CONSTANTS
  Goroutines, Contents, Prefixes,
  packPrefixForContentID, \* the prefix of the packs each content goes to ("p" or "q")
  PackCapacity,           \* how many contents make a pack reach MaxPackSize
  Nil,                    \* no goroutine, no content
  Calls,                  \* the operations the run exercises
  AutoFlush,              \* whether flushPackIndexesAfter can pass
  Fallible,               \* the kinds of storage calls that may fail
  Tombstones,             \* contents that the repository has as deleted at the start
  MaxTime, MaxCalls, MaxFaults \* bounds

AllCalls == {"write", "delete", "undelete", "rewrite", "flush", "disable", "enable"}
InitPack == 1             \* the pack of the contents the repository starts with
Packs == 1..MaxCalls + 1  \* a call creates at most one pack
Sessions == Nat \ {0}
None == 0                 \* no pack, no session
NotFound == -1            \* previousWriteTime of a content that does not exist

ASSUME ManagerAssumption ==
  /\ Nil \notin Goroutines \cup Contents /\ Tombstones \subseteq Contents
  /\ packPrefixForContentID \in [Contents -> Prefixes]
  /\ PackCapacity \in Nat \ {0} /\ AutoFlush \in BOOLEAN
  /\ Calls \subseteq AllCalls /\ Fallible \subseteq {"pack", "index", "marker", "commit", "cache"}
  /\ MaxTime \in Nat \ {0} /\ MaxCalls \in Nat /\ MaxFaults \in Nat

VARIABLES
  now,
  packBlobs, indexed, sessionMarkers,       \* storage: packs, index entries, markers
  pendingPacks, writingPacks, failedPacks, packIndexBuilder,
  items, dataLength, sessionOf, packs,      \* pendingPackInfo of each pack; packs made so far
  currentSession, sessionMarkerBlobIDs, sessions,
  flushing, disableIndexFlushCount,
  committed,                                \* entries of committedContents
  mu, asleep,                               \* the mutex, the goroutines in cond.Wait
  pc, call,                                 \* per goroutine: place and locals
  calls, faults,                            \* how much of the bounds is used
  accepted, undisturbed, contended, misled, owed, promised \* history, see the properties

storage == <<packBlobs, indexed, sessionMarkers>>
packing == <<pendingPacks, writingPacks, failedPacks, packIndexBuilder, items, dataLength, sessionOf, packs>>
session == <<currentSession, sessionMarkerBlobIDs, sessions>>
history == <<accepted, undisturbed, contended, misled, owed, promised>>
progress == <<accepted, undisturbed, contended, misled>>
vars == <<now, storage, packing, session, flushing, disableIndexFlushCount, committed, mu, asleep,
          pc, call, calls, faults, history>>
----------------------------------------------------------------------------
(* Index entries *)
Entry == [content : Contents, pack : Packs, ts : Nat, deleted : BOOLEAN]
Of(es, c) == {e \in es : e.content = c}
Live(es, c) == \E e \in Of(es, c) : ~e.deleted

\* contentInfoGreaterThanStruct; pack names are random, any order of them will do.
contentInfoGreaterThan(a, b) ==
  \/ a.ts > b.ts
  \/ a.ts = b.ts /\ ~a.deleted /\ b.deleted
  \/ a.ts = b.ts /\ a.deleted = b.deleted /\ a.pack > b.pack

\* Builder.Add for each entry, and what Merged.GetInfo finds: one entry per content.
Newest(es) == {e \in es : \A f \in Of(es, e.content) : f = e \/ contentInfoGreaterThan(e, f)}

contentWriteTime(previous) == IF now > previous THEN now ELSE previous + 1

\* getOverlayContentInfoReadLocked, then committedContents.getContent: the entry found for
\* a content and the in-memory pack it was found in; the empty set when there is none.
\* The failed packs are not looked at.
PendingPack(c) == pendingPacks[packPrefixForContentID[c]]
ItemsOf(p) == IF p = None THEN {} ELSE items[p]
FirstWriting(I) == writingPacks[Min(I)]
WritingWith(c) == {i \in 1..Len(writingPacks) : Of(items[writingPacks[i]], c) # {}}
FoundIn(p, es) == {[info |-> e, pp |-> p] : e \in es}
getContentInfoReadLocked(c) ==
  CASE Of(ItemsOf(PendingPack(c)), c) # {} -> FoundIn(PendingPack(c), Of(ItemsOf(PendingPack(c)), c))
    [] Of(ItemsOf(PendingPack(c)), c) = {} /\ WritingWith(c) # {} ->
         FoundIn(FirstWriting(WritingWith(c)), Of(items[FirstWriting(WritingWith(c))], c))
    [] OTHER -> FoundIn(None, IF Of(packIndexBuilder, c) # {} THEN Of(packIndexBuilder, c)
                              ELSE Newest(Of(committed, c)))
----------------------------------------------------------------------------
NoCall == [op |-> "idle", content |-> Nil, previousWriteTime |-> NotFound, isDeleted |-> FALSE,
           todo |-> << >>, pp |-> None, uploaded |-> FALSE]
InitEntries == {[content |-> c, pack |-> InitPack, ts |-> 1, deleted |-> TRUE] : c \in Tombstones}

Init ==
  /\ now = 1
  /\ packBlobs = {InitPack} /\ indexed = InitEntries /\ committed = InitEntries
  /\ sessionMarkers = {}
  /\ pendingPacks = [x \in Prefixes |-> None] /\ writingPacks = << >> /\ failedPacks = << >>
  /\ packIndexBuilder = {} /\ items = [p \in Packs |-> {}] /\ dataLength = [p \in Packs |-> 0]
  /\ sessionOf = [p \in Packs |-> None] /\ packs = InitPack
  /\ currentSession = None /\ sessionMarkerBlobIDs = {} /\ sessions = 0
  /\ flushing = FALSE /\ disableIndexFlushCount = 0 /\ mu = Nil /\ asleep = {}
  /\ pc = [g \in Goroutines |-> "idle"] /\ call = [g \in Goroutines |-> NoCall]
  /\ calls = 0 /\ faults = 0
  /\ accepted = {} /\ undisturbed = {} /\ contended = {} /\ misled = {} /\ owed = [g \in Goroutines |-> {}] /\ promised = {}

\* The clock of contentWriteTime, in seconds.
Tick == /\ now < MaxTime /\ now' = now + 1
        /\ UNCHANGED <<storage, packing, session, flushing, disableIndexFlushCount, committed, mu, asleep,
                       pc, call, calls, faults, history>>

Goto(g, l) == pc' = [pc EXCEPT ![g] = l]
Lock(g) == mu = Nil /\ mu' = g
Unlock == mu' = Nil
Broadcast == asleep' = {}
Sleep(g) == asleep' = asleep \cup {g}
\* One locked section, or waking up from cond.Wait: the mutex is free.
CanLock(g) == mu = Nil /\ g \notin asleep

\* A storage call of some kind fails.
Fails(kind) == kind \in Fallible /\ faults < MaxFaults /\ faults' = faults + 1

\* The call is over.  `accepted` gets the content of a write that returns without an error
\* and was not disturbed by a delete of the same content.
Ends(g, ok) ==
  /\ Goto(g, "idle") /\ call' = [call EXCEPT ![g] = NoCall]
  /\ accepted' = accepted \cup {c \in {call[g].content} :
                    ok /\ g \in undisturbed /\ call[g].op \in {"write", "undelete"}}
  /\ undisturbed' = undisturbed \ {g}
  /\ UNCHANGED contended
Finish(g, ok) == Ends(g, ok) /\ UNCHANGED misled

InProgress(c) == \E g \in Goroutines : call[g].content = c
Contends(c) == contended' = contended \cup {x \in {c} : c # Nil /\ InProgress(c)} /\ UNCHANGED misled

Start(g, o, c, l) ==
  /\ pc[g] = "idle" /\ calls < MaxCalls /\ o \in Calls
  /\ calls' = calls + 1
  /\ call' = [call EXCEPT ![g] = [NoCall EXCEPT !.op = o, !.content = c]]
  /\ Goto(g, l)
  /\ undisturbed' = undisturbed \cup {g} /\ Contends(c)
  /\ UNCHANGED <<now, storage, packing, session, flushing, disableIndexFlushCount, committed, mu, asleep, faults,
                 accepted, promised>>

WriteContent(g, c) == Start(g, "write", c, "retryLock") /\ UNCHANGED owed
UndeleteContent(g, c) == Start(g, "undelete", c, "readLock") /\ UNCHANGED owed
RewriteContent(g, c) == Start(g, "rewrite", c, "readLock") /\ UNCHANGED owed
Flush(g) == Start(g, "flush", Nil, "flushLock") /\ owed' = [owed EXCEPT ![g] = accepted]
----------------------------------------------------------------------------
(* Writing packs *)

\* preparePackDataContent: a pack with entries but none of its own data is not uploaded.
HasBlob(p) == items[p] # {} => \E e \in items[p] : e.pack = p

\* No slice has a pack twice.
PlaceOf(s, p) == CHOOSE i \in 1..Len(s) : s[i] = p
removePendingPack(s, p) ==
  IF \A i \in 1..Len(s) : s[i] # p THEN s
  ELSE SubSeq(s, 1, PlaceOf(s, p) - 1) \o SubSeq(s, PlaceOf(s, p) + 1, Len(s))

\* Mutant: the goroutines waiting for the packs are not woken.
processWithoutBroadcast(p, ok) ==
  /\ writingPacks' = removePendingPack(writingPacks, p)
  /\ failedPacks' = IF ok THEN removePendingPack(failedPacks, p)
                    ELSE Append(removePendingPack(failedPacks, p), p)
  /\ IF ok THEN /\ packIndexBuilder' = Newest(packIndexBuilder \cup items[p])
                /\ items' = [items EXCEPT ![p] = {}]
           ELSE UNCHANGED <<packIndexBuilder, items>>
  /\ UNCHANGED asleep
\* Mutant: the entries of a pack that failed get into the index too.
processAddingFailed(p, ok) ==
  /\ writingPacks' = removePendingPack(writingPacks, p)
  /\ failedPacks' = IF ok THEN removePendingPack(failedPacks, p)
                    ELSE Append(removePendingPack(failedPacks, p), p)
  /\ packIndexBuilder' = Newest(packIndexBuilder \cup items[p])
  /\ items' = IF ok THEN [items EXCEPT ![p] = {}] ELSE items
  /\ Broadcast
\* Mutant: the pack that is uploaded last decides.
processOverwriting(p, ok) ==
  /\ writingPacks' = removePendingPack(writingPacks, p)
  /\ failedPacks' = IF ok THEN removePendingPack(failedPacks, p)
                    ELSE Append(removePendingPack(failedPacks, p), p)
  /\ packIndexBuilder' = IF ok THEN items[p] \cup {e \in packIndexBuilder : Of(items[p], e.content) = {}}
                         ELSE packIndexBuilder
  /\ items' = IF ok THEN [items EXCEPT ![p] = {}] ELSE items
  /\ Broadcast
\* Mutant: a pack that failed is dropped.
processDroppingFailed(p, ok) ==
  /\ writingPacks' = removePendingPack(writingPacks, p)
  /\ failedPacks' = removePendingPack(failedPacks, p)
  /\ packIndexBuilder' = IF ok THEN Newest(packIndexBuilder \cup items[p]) ELSE packIndexBuilder
  /\ items' = [items EXCEPT ![p] = {}]
  /\ Broadcast

\* After a success the entries are in the builder and nothing refers to the pack any more.
processWritePackResultLocked(p, ok) ==
  /\ writingPacks' = removePendingPack(writingPacks, p)
  /\ failedPacks' = IF ok THEN removePendingPack(failedPacks, p)
                    ELSE Append(removePendingPack(failedPacks, p), p)
  /\ IF ok THEN /\ packIndexBuilder' = Newest(packIndexBuilder \cup items[p])
                /\ items' = [items EXCEPT ![p] = {}]
           ELSE UNCHANGED <<packIndexBuilder, items>>
  /\ Broadcast

\* prepareAndWritePackInternal; a PutBlob that reports an error may have stored the blob.
prepareAndWritePackInternal(p, ok) ==
  \/ /\ ok /\ packBlobs' = packBlobs \cup {q \in {p} : HasBlob(p)} /\ UNCHANGED faults
  \/ /\ ~ok /\ HasBlob(p) /\ Fails("pack")
     /\ packBlobs' \in {packBlobs, packBlobs \cup {p}}

\* The packs that had failed are written again, under the mutex; the first error ends the call.
retryFailedPack(g, ok) ==
  LET p == Head(call[g].todo) IN
  /\ pc[g] \in {"retry", "addRetry", "flushRetry"} /\ call[g].todo # << >>
  /\ prepareAndWritePackInternal(p, ok) /\ processWritePackResultLocked(p, ok)
  /\ IF ok THEN /\ call' = [call EXCEPT ![g].todo = Tail(@)]
                /\ UNCHANGED <<mu, pc, flushing, progress>>
           ELSE Unlock /\ flushing' = (flushing /\ pc[g] # "flushRetry") /\ Finish(g, FALSE)
  /\ UNCHANGED <<now, indexed, sessionMarkers, pendingPacks, dataLength, sessionOf, packs, session,
                 disableIndexFlushCount, committed, calls, owed, promised>>

notPacking == <<now, storage, packing, session, flushing, disableIndexFlushCount, committed, calls, faults,
                owed, promised>>
----------------------------------------------------------------------------
(* WriteContent, RewriteContent and UndeleteContent *)

\* "do not start new uploads while flushing": wait, else go on with the failed packs.
WaitWhileFlushing(g, wait, next) ==
  IF flushing THEN Sleep(g) /\ Goto(g, wait) /\ UNCHANGED <<mu, call>>
  ELSE /\ Lock(g) /\ Goto(g, next) /\ UNCHANGED asleep
       /\ call' = [call EXCEPT ![g].todo = failedPacks]

maybeRetryWritingFailedPacksUnlocked(g) ==
  /\ pc[g] = "retryLock" /\ CanLock(g)
  /\ WaitWhileFlushing(g, "retryLock", "retry")
  /\ UNCHANGED <<notPacking, progress>>

endRetry(g) ==
  /\ pc[g] = "retry" /\ call[g].todo = << >>
  /\ Unlock /\ Goto(g, "lookup")
  /\ UNCHANGED <<notPacking, asleep, call, progress>>

\* A call looks for the entry of a content.  `misled` gets the content when it finds none, or
\* another one than the newest: an older pack that is being uploaded hides newer entries, and
\* packs that failed are not looked at.
AllEntries == indexed \cup packIndexBuilder \cup UNION {items[p] : p \in Packs}
Current(c) == Newest(Of(AllEntries, c))
IsShown(c) == misled' = misled \cup {x \in {c} : {f.info : f \in getContentInfoReadLocked(c)} # Current(c)}

\* WriteContent: a content that is there already is not written again.
lookupContent(g) ==
  LET found == getContentInfoReadLocked(call[g].content) IN
  /\ pc[g] = "lookup" /\ mu = Nil /\ IsShown(call[g].content)
  /\ \/ (\E f \in found : ~f.info.deleted) /\ Ends(g, TRUE)
     \/ /\ \A f \in found : f.info.deleted
        /\ \E t \in {f.info.ts : f \in found} \cup {NotFound} :
             /\ t = NotFound => found = {}
             /\ call' = [call EXCEPT ![g].previousWriteTime = t]
        /\ Goto(g, "add") /\ UNCHANGED <<accepted, undisturbed, contended>>
  /\ UNCHANGED <<notPacking, mu, asleep>>

\* rewriteContent reads the content, from the pack in memory or from storage.
readForRewrite(g) ==
  LET found == getContentInfoReadLocked(call[g].content)
      readable == {f \in found : f.info.pack = f.pp \/ f.info.pack \in packBlobs}
  IN
  /\ pc[g] = "readLock" /\ mu = Nil /\ IsShown(call[g].content)
  /\ \/ readable = {} /\ Ends(g, FALSE)
     \/ \E f \in readable :
          IF call[g].op = "undelete" /\ ~f.info.deleted THEN Ends(g, TRUE)
          ELSE /\ call' = [call EXCEPT ![g].previousWriteTime = f.info.ts,
                                       ![g].isDeleted = f.info.deleted /\ call[g].op = "rewrite"]
               /\ Goto(g, "add") /\ UNCHANGED <<accepted, undisturbed, contended>>
  /\ UNCHANGED <<notPacking, mu, asleep>>

\* addToPackUnlocked: maybeFlushBasedOnTimeUnlocked ...
maybeFlushBasedOnTime(g) ==
  /\ AutoFlush /\ pc[g] = "add"
  /\ Goto(g, "flushLock") /\ owed' = [owed EXCEPT ![g] = accepted]
  /\ UNCHANGED <<now, storage, packing, session, flushing, disableIndexFlushCount, committed, calls, faults,
                 promised, mu, asleep, call, progress>>

\* ... then, with the mutex, "we lost the race" ...
addToPack(g) ==
  /\ pc[g] \in {"add", "addLock"} /\ CanLock(g)
  /\ IF call[g].previousWriteTime < 0 /\ getContentInfoReadLocked(call[g].content) # {}
     THEN Finish(g, TRUE) /\ UNCHANGED <<mu, asleep>>
     ELSE /\ WaitWhileFlushing(g, "addWait", "addRetry")
          /\ UNCHANGED <<progress>>
  /\ UNCHANGED notPacking

addAfterWait(g) ==
  /\ pc[g] = "addWait" /\ CanLock(g)
  /\ WaitWhileFlushing(g, "addWait", "addRetry")
  /\ UNCHANGED <<notPacking, progress>>

\* getOrCreatePendingPackInfoLocked; the first pack of a session starts it with a marker.
StartsSession(c) == PendingPack(c) = None /\ currentSession = None
getOrCreatePendingPackInfoLocked(c, p) ==
  /\ p = IF PendingPack(c) = None THEN packs + 1 ELSE PendingPack(c)
  /\ IF StartsSession(c)
     THEN /\ currentSession' = sessions + 1 /\ sessions' = sessions + 1
          /\ sessionMarkerBlobIDs' = {sessions + 1}
          /\ sessionMarkers' = sessionMarkers \cup {sessions + 1}
     ELSE UNCHANGED <<session, sessionMarkers>>
  /\ IF PendingPack(c) = None
     THEN packs' = p /\ sessionOf' = [sessionOf EXCEPT ![p] = currentSession']
     ELSE UNCHANGED <<packs, sessionOf>>
  /\ UNCHANGED faults

\* The marker cannot be written: the session ID has been assigned all the same.
SessionMarkerFails(c) ==
  /\ StartsSession(c) /\ Fails("marker")
  /\ currentSession' = sessions + 1 /\ sessions' = sessions + 1 /\ sessionMarkerBlobIDs' = {}
  /\ sessionMarkers' \in {sessionMarkers, sessionMarkers \cup {sessions + 1}}
  /\ UNCHANGED <<pendingPacks, items, dataLength, sessionOf, packs>>

PutItem(p, e) == items' = [items EXCEPT ![p] = (@ \ Of(@, e.content)) \cup {e}]

\* ... and, when nothing has failed, the content goes into the pending pack.  A full pack
\* leaves the pending packs and is uploaded without the mutex.
addContent(g) ==
  LET c == call[g].content IN
  /\ pc[g] = "addRetry" /\ call[g].todo = << >>
  /\ \/ /\ SessionMarkerFails(c) /\ Finish(g, FALSE) /\ UNCHANGED writingPacks
     \/ \E p \in Packs :
          /\ getOrCreatePendingPackInfoLocked(c, p)
          /\ PutItem(p, [content |-> c, pack |-> p, ts |-> contentWriteTime(call[g].previousWriteTime),
                         deleted |-> call[g].isDeleted])
          /\ dataLength' = [dataLength EXCEPT ![p] = @ + 1]
          /\ IF dataLength[p] + 1 >= PackCapacity
             THEN /\ pendingPacks' = [pendingPacks EXCEPT ![packPrefixForContentID[c]] = None]
                  /\ writingPacks' = Append(writingPacks, p)
                  /\ call' = [call EXCEPT ![g].pp = p] /\ Goto(g, "upload")
                  /\ UNCHANGED <<progress>>
             ELSE /\ pendingPacks' = [pendingPacks EXCEPT ![packPrefixForContentID[c]] = p]
                  /\ Finish(g, TRUE) /\ UNCHANGED writingPacks
  /\ Unlock
  /\ UNCHANGED <<now, packBlobs, indexed, failedPacks, packIndexBuilder, flushing, disableIndexFlushCount,
                 committed, asleep, calls, owed, promised>>

\* writePackAndAddToIndexUnlocked
uploadPack(g, ok) ==
  /\ pc[g] = "upload"
  /\ prepareAndWritePackInternal(call[g].pp, ok)
  /\ call' = [call EXCEPT ![g].uploaded = ok] /\ Goto(g, "uploaded")
  /\ UNCHANGED <<now, indexed, sessionMarkers, packing, session, flushing, disableIndexFlushCount, committed,
                 mu, asleep, calls, history>>

uploadResult(g) ==
  /\ pc[g] = "uploaded" /\ mu = Nil
  /\ processWritePackResultLocked(call[g].pp, call[g].uploaded)
  /\ Finish(g, call[g].uploaded)
  /\ UNCHANGED <<now, storage, pendingPacks, dataLength, sessionOf, packs, session, flushing,
                 disableIndexFlushCount, committed, mu, calls, faults, owed, promised>>
----------------------------------------------------------------------------
(* DeleteContent: one locked section, which does not wait for a flush. *)
LiveWriting(c) == {i \in 1..Len(writingPacks) : Live(items[writingPacks[i]], c)}
Preexisting(c) ==
  IF LiveWriting(c) # {} THEN Of(items[FirstWriting(LiveWriting(c))], c)
  ELSE IF Of(packIndexBuilder, c) # {} THEN Of(packIndexBuilder, c)
  ELSE Newest(Of(committed, c))

DeleteContent(g, c) ==
  /\ pc[g] = "idle" /\ mu = Nil /\ calls < MaxCalls /\ "delete" \in Calls
  /\ calls' = calls + 1
  /\ accepted' = accepted \ {c} /\ undisturbed' = {h \in undisturbed : call[h].content # c}
  /\ Contends(c)
  /\ owed' = [h \in Goroutines |-> owed[h] \ {c}] /\ promised' = {x \in promised : x[1] # c}
  /\ \/ /\ Live(ItemsOf(PendingPack(c)), c)
        /\ items' = [items EXCEPT ![PendingPack(c)] = @ \ Of(@, c)]
        /\ UNCHANGED <<pendingPacks, dataLength, sessionOf, packs, session, sessionMarkers, faults>>
     \/ /\ ~Live(ItemsOf(PendingPack(c)), c)
        /\ \/ /\ ~Live(Preexisting(c), c)
              /\ UNCHANGED <<pendingPacks, items, dataLength, sessionOf, packs, session, sessionMarkers, faults>>
           \/ Live(Preexisting(c), c) /\ SessionMarkerFails(c)
           \/ \E e \in Preexisting(c), p \in Packs :
                /\ ~e.deleted
                /\ getOrCreatePendingPackInfoLocked(c, p)
                /\ PutItem(p, [e EXCEPT !.deleted = TRUE, !.ts = contentWriteTime(e.ts)])
                /\ pendingPacks' = [pendingPacks EXCEPT ![packPrefixForContentID[c]] = p]
                /\ UNCHANGED dataLength
  /\ UNCHANGED <<now, packBlobs, indexed, writingPacks, failedPacks, packIndexBuilder, flushing,
                 disableIndexFlushCount, committed, mu, asleep, pc, call>>
----------------------------------------------------------------------------
(* Flush *)
notFlushing == <<now, session, disableIndexFlushCount, calls>>

\* Flush returns; when addToPackUnlocked has called it, that goes on.
InFailedPack(c) == \E i \in 1..Len(failedPacks) : Live(items[failedPacks[i]], c)
FlushReturns(g, ok) ==
  /\ Unlock /\ flushing' = FALSE /\ Broadcast
  /\ owed' = [owed EXCEPT ![g] = {}]
  /\ promised' = promised \cup {<<c, InFailedPack(c)>> :
                   c \in IF ok /\ disableIndexFlushCount = 0 THEN owed[g] ELSE {}}
  /\ IF ok /\ call[g].op # "flush"
     THEN Goto(g, "addLock") /\ UNCHANGED <<call, progress>>
     ELSE Finish(g, ok)

flushLock(g) ==
  /\ pc[g] = "flushLock" /\ CanLock(g) /\ Lock(g)
  /\ flushing' = TRUE /\ call' = [call EXCEPT ![g].todo = failedPacks]
  /\ Goto(g, "flushRetry")
  /\ UNCHANGED <<notFlushing, storage, packing, committed, asleep, faults, history>>

\* Mutant: the packs that other goroutines are uploading are not waited for.
flushWithoutWait(g) ==
  /\ \/ pc[g] = "flushRetry" /\ call[g].todo = << >>
     \/ pc[g] = "flushWait" /\ CanLock(g)
  /\ mu' = g /\ Goto(g, "flushPacks") /\ UNCHANGED asleep
  /\ UNCHANGED <<notFlushing, storage, packing, committed, flushing, call, faults, history>>

waitForWritingPacks(g) ==
  /\ \/ pc[g] = "flushRetry" /\ call[g].todo = << >>
     \/ pc[g] = "flushWait" /\ CanLock(g)
  /\ IF writingPacks # << >> THEN Unlock /\ Sleep(g) /\ Goto(g, "flushWait")
     ELSE mu' = g /\ Goto(g, "flushPacks") /\ UNCHANGED asleep
  /\ UNCHANGED <<notFlushing, storage, packing, committed, flushing, call, faults, history>>

finishAllPacksLocked(g, x, ok) ==
  LET p == pendingPacks[x] IN
  /\ pc[g] = "flushPacks" /\ p # None
  /\ pendingPacks' = [pendingPacks EXCEPT ![x] = None]
  /\ prepareAndWritePackInternal(p, ok) /\ processWritePackResultLocked(p, ok)
  /\ IF ok THEN UNCHANGED <<mu, pc, call, flushing, progress>>
           ELSE Unlock /\ flushing' = FALSE /\ Finish(g, FALSE)
  /\ UNCHANGED <<notFlushing, indexed, sessionMarkers, dataLength, sessionOf, packs, committed, owed, promised>>

NothingPending == \A x \in Prefixes : pendingPacks[x] = None

\* Mutant: the session markers are deleted before the index is written.
commitBeforeIndex(g, ok) ==
  /\ pc[g] = "flushPacks" /\ NothingPending /\ ok
  /\ sessionMarkers' = sessionMarkers \ sessionMarkerBlobIDs
  /\ \/ disableIndexFlushCount = 0 /\ packIndexBuilder # {} /\ Goto(g, "flushCommit")
        /\ UNCHANGED <<mu, asleep, flushing, call, history>>
     \/ (disableIndexFlushCount > 0 \/ packIndexBuilder = {}) /\ FlushReturns(g, TRUE)
  /\ UNCHANGED <<notFlushing, packBlobs, indexed, packing, committed, faults>>

flushPackIndexesLocked(g, ok) ==
  /\ pc[g] = "flushPacks" /\ NothingPending
  /\ \/ /\ ok /\ (disableIndexFlushCount > 0 \/ packIndexBuilder = {})
        /\ FlushReturns(g, TRUE) /\ UNCHANGED <<indexed, faults>>
     \/ /\ disableIndexFlushCount = 0 /\ packIndexBuilder # {}
        /\ IF ok THEN /\ indexed' = indexed \cup packIndexBuilder /\ Goto(g, "flushCommit")
                      /\ UNCHANGED <<mu, asleep, flushing, call, faults, history>>
           ELSE /\ Fails("index")
                /\ \E stored \in SUBSET packIndexBuilder : indexed' = indexed \cup stored
                /\ FlushReturns(g, FALSE)
  /\ UNCHANGED <<notFlushing, packBlobs, sessionMarkers, packing, committed>>

commitSession(g, ok) ==
  /\ pc[g] = "flushCommit"
  /\ IF ok THEN /\ sessionMarkers' = sessionMarkers \ sessionMarkerBlobIDs
                /\ currentSession' = None /\ sessionMarkerBlobIDs' = {}
                /\ Goto(g, "flushAdd")
                /\ UNCHANGED <<mu, asleep, flushing, call, faults, history>>
           ELSE /\ sessionMarkerBlobIDs # {} /\ Fails("commit")
                /\ sessionMarkers' \in {sessionMarkers, sessionMarkers \ sessionMarkerBlobIDs}
                /\ FlushReturns(g, FALSE) /\ UNCHANGED <<currentSession, sessionMarkerBlobIDs>>
  /\ UNCHANGED <<now, sessions, disableIndexFlushCount, calls, packBlobs, indexed, packing, committed>>

addIndexBlob(g, ok) ==
  /\ pc[g] = "flushAdd"
  /\ IF ok THEN committed' = committed \cup packIndexBuilder /\ packIndexBuilder' = {} /\ UNCHANGED faults
           ELSE /\ Fails("cache") /\ UNCHANGED packIndexBuilder
                /\ \E used \in SUBSET packIndexBuilder : committed' = committed \cup used
  /\ FlushReturns(g, ok)
  /\ UNCHANGED <<notFlushing, storage, pendingPacks, writingPacks, failedPacks, items, dataLength, sessionOf, packs>>

\* DisableIndexFlush and EnableIndexFlush, which callers pair.
DisableIndexFlush(g) ==
  /\ pc[g] = "idle" /\ mu = Nil /\ calls < MaxCalls /\ "disable" \in Calls
  /\ calls' = calls + 1 /\ disableIndexFlushCount' = disableIndexFlushCount + 1
  /\ UNCHANGED <<now, storage, packing, session, flushing, committed, mu, asleep, pc, call, faults, history>>
\* Mutant: enabled more often than disabled.
EnableIndexFlushUnpaired(g) ==
  /\ pc[g] = "idle" /\ mu = Nil /\ disableIndexFlushCount >= 0
  /\ disableIndexFlushCount' = disableIndexFlushCount - 1
  /\ UNCHANGED <<now, storage, packing, session, flushing, committed, mu, asleep, pc, call, calls, faults, history>>
EnableIndexFlush(g) ==
  /\ pc[g] = "idle" /\ mu = Nil /\ disableIndexFlushCount > 0
  /\ disableIndexFlushCount' = disableIndexFlushCount - 1
  /\ UNCHANGED <<now, storage, packing, session, flushing, committed, mu, asleep, pc, call, calls, faults, history>>

\* SharedManager.Refresh takes indexesLock, which a flush shares while it commits.
Refresh ==
  /\ \A g \in Goroutines : pc[g] \notin {"flushCommit", "flushAdd"}
  /\ committed # indexed /\ committed' = indexed
  /\ UNCHANGED <<now, storage, packing, session, flushing, disableIndexFlushCount, mu, asleep,
                 pc, call, calls, faults, history>>
----------------------------------------------------------------------------
CallSome(g) == \/ \E c \in Contents : \/ WriteContent(g, c) \/ UndeleteContent(g, c) \/ RewriteContent(g, c)
                                      \/ DeleteContent(g, c)
               \/ Flush(g) \/ DisableIndexFlush(g)
Step(g) ==
  \/ maybeRetryWritingFailedPacksUnlocked(g) \/ endRetry(g) \/ lookupContent(g) \/ readForRewrite(g)
  \/ maybeFlushBasedOnTime(g) \/ addToPack(g) \/ addAfterWait(g) \/ addContent(g) \/ uploadResult(g)
  \/ flushLock(g) \/ waitForWritingPacks(g) \/ EnableIndexFlush(g)
  \/ \E ok \in BOOLEAN :
       \/ retryFailedPack(g, ok) \/ uploadPack(g, ok) \/ flushPackIndexesLocked(g, ok)
       \/ commitSession(g, ok) \/ addIndexBlob(g, ok)
       \/ \E x \in Prefixes : finishAllPacksLocked(g, x, ok)
Next == Tick \/ Refresh \/ \E g \in Goroutines : CallSome(g) \/ Step(g)
Spec == Init /\ [][Next]_vars

\* Storage calls end and the mutex is granted, so a call that can go on goes on.
FairSpec == Spec /\ \A g \in Goroutines : WF_vars(Step(g))
----------------------------------------------------------------------------
(* Properties *)
Places == {"idle", "retryLock", "retry", "lookup", "readLock", "add", "addLock", "addWait", "addRetry",
           "upload", "uploaded", "flushLock", "flushRetry", "flushWait", "flushPacks", "flushCommit", "flushAdd"}
CallRecord == [op : AllCalls \cup {"idle"}, content : Contents \cup {Nil}, previousWriteTime : Int,
               isDeleted : BOOLEAN, todo : Seq(Packs), pp : Packs \cup {None}, uploaded : BOOLEAN]

\* The state stays within its types.
TypeOK ==
  /\ now \in Nat /\ packBlobs \subseteq Packs /\ indexed \subseteq Entry /\ committed \subseteq Entry
  /\ sessionMarkers \subseteq Sessions /\ sessionMarkerBlobIDs \subseteq Sessions
  /\ currentSession \in Sessions \cup {None} /\ sessions \in Nat /\ packs \in Packs
  /\ pendingPacks \in [Prefixes -> Packs \cup {None}]
  /\ writingPacks \in Seq(Packs) /\ failedPacks \in Seq(Packs) /\ packIndexBuilder \subseteq Entry
  /\ items \in [Packs -> SUBSET Entry] /\ dataLength \in [Packs -> Nat]
  /\ sessionOf \in [Packs -> Sessions \cup {None}]
  /\ flushing \in BOOLEAN /\ disableIndexFlushCount \in Nat
  /\ mu \in Goroutines \cup {Nil} /\ asleep \subseteq Goroutines
  /\ pc \in [Goroutines -> Places] /\ call \in [Goroutines -> CallRecord]
  /\ calls \in 0..MaxCalls /\ faults \in 0..MaxFaults
  /\ accepted \subseteq Contents /\ undisturbed \subseteq Goroutines /\ contended \subseteq Contents /\ misled \subseteq Contents
  /\ owed \in [Goroutines -> SUBSET Contents] /\ promised \subseteq Contents \X BOOLEAN

\* No index blob, and no index about to be written, refers to the data of a pack that is not in
\* storage, at any instant and so also when the client dies: packs are uploaded first, and a
\* pack whose upload failed adds nothing to the index.
PackBeforeIndex == \A e \in indexed \cup packIndexBuilder : ~e.deleted => e.pack \in packBlobs

\* A content whose WriteContent has returned without an error is not forgotten, whichever
\* uploads fail: it is in a pack in memory, in the index being built or in the index.
InMemory(c) == \/ Live(ItemsOf(PendingPack(c)), c)
               \/ \E i \in 1..Len(writingPacks) : Live(items[writingPacks[i]], c)
               \/ InFailedPack(c)
AcceptedNeverForgotten == \A c \in accepted : InMemory(c) \/ Live(packIndexBuilder \cup indexed, c)

\* Of all the entries a client and the repository have for a content, the newest decides, whatever
\* order the packs are uploaded and indexed in.  After WriteContent or UndeleteContent has
\* returned, and until the content is deleted, the newest is not a deletion, however often the
\* content was deleted and restored within one second of the clock.  Excluded are calls for one
\* content that overlap, and contents whose newest entry a call has not been shown.
Exists(c) == Live(Current(c), c)
AcceptedExists == \A c \in accepted \ (contended \cup misled) : Exists(c)

\* WriteContent "saves a given content of data to a pack group with a provided name": the same for
\* every write that did not overlap with another call for the content.
WrittenExists == \A c \in accepted \ contended : Exists(c)

\* rewriteContent: "the content is unconditionally rewritten and the content's deleted status is
\* preserved", when no other call for the content overlaps.
Rewrites(g, c) == pc[g] = "addRetry" /\ call[g].op = "rewrite" /\ call[g].content = c
RewritePreservesStatus ==
  [][\A g \in Goroutines, c \in Contents \ contended : Rewrites(g, c) => Exists(c)' = Exists(c)]_vars

\* The same where the rewrite, and every call before it, was shown the newest entry.
ShownRewritePreservesStatus ==
  [][\A g \in Goroutines, c \in Contents \ (contended \cup misled) :
       Rewrites(g, c) => Exists(c)' = Exists(c)]_vars

\* What was written before Flush was called is in the index when Flush returns, except what is
\* in a pack that failed to upload while Flush waited for it.
FlushCommitsUnlessFailed == \A c \in Contents : <<c, FALSE>> \in promised => Live(indexed, c)

\* "Any pending writes completed before Flush() has started are guaranteed to be committed to
\* the repository before Flush() returns."
FlushCommits == \A x \in promised : Live(indexed, x[1])

\* The marker of its session is in storage as long as a pack holds data that is not in the index,
\* which is what keeps another client's blob GC from taking the pack for garbage.
Uncommitted == {p \in Packs : \/ \E x \in Prefixes : pendingPacks[x] = p
                              \/ \E i \in 1..Len(writingPacks) : writingPacks[i] = p
                              \/ \E i \in 1..Len(failedPacks) : failedPacks[i] = p
                              \/ \E e \in packIndexBuilder \ indexed : e.pack = p /\ ~e.deleted}
SessionCoversPacks == \A p \in Uncommitted : sessionOf[p] \in sessionMarkers

\* Every call returns: no wakeup is lost between cond.Wait and the uploads and flushes that end,
\* and no two calls wait for each other.
CallsReturn == \A g \in Goroutines : pc[g] # "idle" ~> pc[g] = "idle"
============================================================================
