-------------------------- MODULE RasterBlockCache --------------------------
(***************************************************************************)
(* The raster block cache of the vendored GDAL (gcore/gdalrasterblock.cpp, *)
(* gcore/gdalrasterband.cpp).                                              *)
(*                                                                         *)
(* Every band keeps the blocks it has read or written in papoBlocks; all   *)
(* blocks of the process are in one list, from the newest to the oldest,   *)
(* and their number is bounded.  A thread that needs a block may have to   *)
(* evict the oldest unlocked one, which may be another thread's: it writes *)
(* it to that thread's dataset, and if that fails leaves the error with    *)
(* the band (SetFlushBlockErr) for its owner to find.                      *)
(*                                                                         *)
(* A thread has one dataset with one band ("the returned dataset should    *)
(* only be accessed by one thread at a time", gdaldataset.cpp), so threads *)
(* meet in the list, in nCacheUsed and in each other's blocks only.  Only  *)
(* Internalize evicts: the limit is not changed while threads work.        *)
(*                                                                         *)
(* The contents of a block are abstracted to whether they hold all that    *)
(* the owner has written to it, as far as the owner does not know better:  *)
(* once it is told of an error, what is left counts as the contents.       *)
(*                                                                         *)
(* The code loses data without any error in two ways: the general loop of  *)
(* RasterIO fetches a block it only initialises once for every row, and    *)
(* GDALRasterBlock::Write reads the band's error twice.  Both are here,    *)
(* and dropped records what was lost so.                                   *)
(***************************************************************************)
EXTENDS Integers, FiniteSets, SequencesExt

CONSTANTS
    Threads,
    Offsets,    \* the blocks of a band
    CacheMax,   \* nCacheMax, in blocks
    Resamples,  \* whether buffers of another size than their window are written
    NULL

Blocks == Threads \X Offsets

\* How a block is used: read, or written in part, or as a whole, in which case
\* it need not be loaded (bJustInitialize).  The general loop of RasterIO does
\* that one row at a time, and comes back to a block it has begun.
Uses == {"read", "update", "overwrite", "continue"}
JustInitialized == {"overwrite", "continue"}

Operations == [block : Blocks, use : Uses]

ASSUME CacheAssumption ==
    /\ IsFiniteSet(Threads) /\ IsFiniteSet(Offsets)
    /\ CacheMax \in Nat /\ Resamples \in BOOLEAN
    /\ NULL \notin Threads \cup Blocks \cup Operations

Band(b) == b[1]

VARIABLES
    list,           \* poNewest, poOldest, and poNext and poPrevious of each block
    nCacheUsed,
    hRBMutex,       \* its owner; recursive
    exists,         \* the blocks whose memory is allocated
    papoBlocks,     \* the blocks the bands know
    nLockCount, bDirty,
    fresh,          \* the blocks that hold the newest contents
    diskFresh,      \* those whose newest contents are in the file
    dropped,        \* those whose newest contents were lost without an error
    eFlushBlockErr, \* the bands with an error to be reported
    writing,        \* the threads in a RasterIO that writes
    begun,          \* the blocks its general loop has begun and comes back to
    pc,
    op,             \* what a thread does: the block and how it uses it
    victim,         \* the block a thread evicts or flushes
    failed          \* the result of its last write, or of its FlushCache

vars == <<list, nCacheUsed, hRBMutex, exists, papoBlocks, nLockCount, bDirty,
          fresh, diskFresh, dropped, eFlushBlockErr, writing, begun, pc, op, victim, failed>>

Init ==
    /\ list = [newest |-> NULL, oldest |-> NULL,
               next |-> [b \in Blocks |-> NULL], prev |-> [b \in Blocks |-> NULL]]
    /\ nCacheUsed = 0
    /\ hRBMutex = NULL
    /\ exists = {}
    /\ papoBlocks = {}
    /\ nLockCount = [b \in Blocks |-> 0]
    /\ bDirty = {}
    /\ fresh = {}
    /\ diskFresh = Blocks
    /\ dropped = {}
    /\ eFlushBlockErr = {}
    /\ writing = {}
    /\ begun = {}
    /\ pc = [t \in Threads |-> "idle"]
    /\ op = [t \in Threads |-> NULL]
    /\ victim = [t \in Threads |-> NULL]
    /\ failed = [t \in Threads |-> FALSE]

Goto(t, p) == pc' = [pc EXCEPT ![t] = p]
MutexFree(t) == hRBMutex \in {NULL, t}

-----------------------------------------------------------------------------
(* The list.                                                               *)

\* Mutant: the block before keeps its link.
Detach_KeepsLink(l, b) ==
    LET before == l.prev[b]
        after  == l.next[b] IN
    [newest |-> IF l.newest = b THEN after ELSE l.newest,
     oldest |-> IF l.oldest = b THEN before ELSE l.oldest,
     next |-> [c \in Blocks |-> CASE c = b -> NULL [] OTHER -> l.next[c]],
     prev |-> [c \in Blocks |-> CASE c = b -> NULL [] c = after -> before [] OTHER -> l.prev[c]]]

Detach(l, b) ==
    LET before == l.prev[b]
        after  == l.next[b] IN
    [newest |-> IF l.newest = b THEN after ELSE l.newest,
     oldest |-> IF l.oldest = b THEN before ELSE l.oldest,
     next |-> [c \in Blocks |-> CASE c = b -> NULL [] c = before -> after [] OTHER -> l.next[c]],
     prev |-> [c \in Blocks |-> CASE c = b -> NULL [] c = after -> before [] OTHER -> l.prev[c]]]

\* Mutant: the tail is not moved away from the block.
Touch_KeepsOldest(l, b) ==
    LET before == l.prev[b]
        after  == l.next[b] IN
    IF l.newest = b THEN l ELSE
    [newest |-> b,
     oldest |-> IF l.oldest = NULL THEN b ELSE l.oldest,
     next |-> [c \in Blocks |-> CASE c = b -> l.newest [] c = before -> after [] OTHER -> l.next[c]],
     prev |-> [c \in Blocks |-> CASE c = b -> NULL [] c = l.newest -> b
                                  [] c = after -> before [] OTHER -> l.prev[c]]]

Touch(l, b) ==
    LET before == l.prev[b]
        after  == l.next[b]
        tail   == IF l.oldest = b THEN before ELSE l.oldest IN
    IF l.newest = b THEN l ELSE
    [newest |-> b,
     oldest |-> IF tail = NULL THEN b ELSE tail,
     next |-> [c \in Blocks |-> CASE c = b -> l.newest [] c = before -> after [] OTHER -> l.next[c]],
     prev |-> [c \in Blocks |-> CASE c = b -> NULL [] c = l.newest -> b
                                  [] c = after -> before [] OTHER -> l.prev[c]]]

\* The blocks one comes by from a block along a link; one too many if the
\* links run in a circle.
Walk(first, link) ==
    LET n == Cardinality(Blocks)
        at[k \in 0 .. n] ==
            IF k = 0 THEN first ELSE IF at[k - 1] = NULL THEN NULL ELSE link[at[k - 1]] IN
    [k \in 1 .. Cardinality({j \in 0 .. n : at[j] # NULL}) |-> at[k - 1]]

\* The block FlushCacheBlock finds from poOldest on, if there is one.
OldestUnlocked(b) ==
    LET blocks == Walk(list.oldest, list.prev) IN
    \E k \in DOMAIN blocks :
        /\ blocks[k] = b /\ nLockCount[b] = 0
        /\ \A j \in 1 .. k - 1 : nLockCount[blocks[j]] > 0

-----------------------------------------------------------------------------
(* Errors.                                                                 *)

\* The owner learns that data was lost: what is left is what counts.
Forgive(t) ==
    LET lost == {b \in Blocks : Band(b) = t /\ b \notin diskFresh /\ b \notin fresh} IN
    /\ diskFresh' = diskFresh \cup (lost \ bDirty)
    /\ fresh' = fresh \cup (lost \cap exists)
    /\ dropped' = dropped \ lost

Report(t) ==
    /\ eFlushBlockErr' = eFlushBlockErr \ {t}
    /\ Forgive(t)

-----------------------------------------------------------------------------
(* RasterIO and GetLockedBlockRef.                                         *)

\* A RasterIO that writes is over, done or failed.
EndCall(t) ==
    /\ writing' = writing \ {t}
    /\ begun' = {b \in begun : Band(b) # t}

\* The next block a RasterIO comes to: of a read, of a write that is called, of
\* the write that goes on, or another row of a block it has begun.  A write
\* looks for the error of an earlier one when it is called, and not again before
\* its other blocks.
Begin(t) ==
    /\ pc[t] = "idle"
    /\ \E o \in Offsets, use \in Uses :
           LET b     == <<t, o>>
               first == IF Resamples /\ use = "overwrite" THEN {b} ELSE {} IN
           /\ op' = [op EXCEPT ![t] = [block |-> b, use |-> use]]
           /\ \/ use = "read" /\ EndCall(t)
              \/ /\ use \in {"update", "overwrite"}
                 /\ t \notin eFlushBlockErr
                 /\ writing' = writing \cup {t}
                 /\ begun' = {c \in begun : Band(c) # t} \cup first
              \/ /\ use \in {"update", "overwrite"}
                 /\ t \in writing /\ b \notin begun
                 /\ begun' = begun \cup first
                 /\ UNCHANGED writing
              \/ /\ use = "continue"
                 /\ b \in begun
                 /\ UNCHANGED <<writing, begun>>
    /\ Goto(t, "tryGet")
    /\ UNCHANGED <<list, nCacheUsed, hRBMutex, exists, papoBlocks, nLockCount, bDirty,
                   fresh, diskFresh, dropped, eFlushBlockErr, victim, failed>>

\* A write begins with the error of an earlier one: it reports it and fails.
ReportBeforeWrite(t) ==
    /\ pc[t] = "idle"
    /\ t \in eFlushBlockErr
    /\ Report(t)
    /\ EndCall(t)
    /\ UNCHANGED <<list, nCacheUsed, hRBMutex, exists, papoBlocks, nLockCount, bDirty,
                   pc, op, victim, failed>>

\* TryGetLockedBlockRef, with SafeLockBlock
TryGet(t) ==
    LET b == op[t].block IN
    /\ pc[t] = "tryGet"
    /\ MutexFree(t)
    /\ IF b \in papoBlocks
       THEN /\ nLockCount' = [nLockCount EXCEPT ![b] = @ + 1]
            /\ list' = Touch(list, b)
            /\ Goto(t, "use")
       ELSE /\ Goto(t, "create")
            /\ UNCHANGED <<nLockCount, list>>
    /\ UNCHANGED <<nCacheUsed, hRBMutex, exists, papoBlocks, bDirty, fresh, diskFresh, dropped,
                   eFlushBlockErr, writing, begun, op, victim, failed>>

\* Mutant: without AddLock.
Internalize_NoAddLock(t) ==
    LET b == op[t].block IN
    /\ pc[t] = "create"
    /\ MutexFree(t)
    /\ \/ /\ exists' = exists \cup {b}
          /\ nLockCount' = [nLockCount EXCEPT ![b] = 1]
          /\ bDirty' = bDirty \ {b}
          /\ fresh' = fresh \ {b}
          /\ nCacheUsed' = nCacheUsed + 1
          /\ hRBMutex' = t
          /\ Goto(t, "evict")
          /\ UNCHANGED <<op, writing, begun>>
       \/ /\ Goto(t, "idle")
          /\ op' = [op EXCEPT ![t] = NULL]
          /\ EndCall(t)
          /\ UNCHANGED <<exists, nLockCount, bDirty, fresh, nCacheUsed, hRBMutex>>
    /\ UNCHANGED <<list, papoBlocks, diskFresh, dropped, eFlushBlockErr, victim, failed>>

\* The block is made and locked, and Internalize begins: it holds the mutex to
\* its end.  Without memory for the data nothing remains of it.
Internalize(t) ==
    LET b == op[t].block IN
    /\ pc[t] = "create"
    /\ MutexFree(t)
    /\ \/ /\ exists' = exists \cup {b}
          /\ nLockCount' = [nLockCount EXCEPT ![b] = 2]
          /\ bDirty' = bDirty \ {b}
          /\ fresh' = fresh \ {b}
          /\ nCacheUsed' = nCacheUsed + 1
          /\ hRBMutex' = t
          /\ Goto(t, "evict")
          /\ UNCHANGED <<op, writing, begun>>
       \/ /\ Goto(t, "idle")
          /\ op' = [op EXCEPT ![t] = NULL]
          /\ EndCall(t)
          /\ UNCHANGED <<exists, nLockCount, bDirty, fresh, nCacheUsed, hRBMutex>>
    /\ UNCHANGED <<list, papoBlocks, diskFresh, dropped, eFlushBlockErr, victim, failed>>

\* Mutant: blocks in use are flushed too.
PickVictim_IgnoresLocks(t) ==
    /\ pc[t] = "evict"
    /\ nCacheUsed > CacheMax
    /\ list.oldest # NULL
    /\ LET b == list.oldest IN
       /\ victim' = [victim EXCEPT ![t] = b]
       /\ nLockCount' = [nLockCount EXCEPT ![b] = @ + 1]
       /\ papoBlocks' = papoBlocks \ {b}
       /\ list' = Detach(list, b)
    /\ Goto(t, "write")
    /\ UNCHANGED <<nCacheUsed, hRBMutex, exists, bDirty, fresh, diskFresh, dropped, eFlushBlockErr,
                   writing, begun, op, failed>>

\* FlushCacheBlock, up to where the FlushBlock of the victim's band has locked
\* it and taken it out of papoBlocks and of the list.
PickVictim(t) ==
    /\ pc[t] = "evict"
    /\ nCacheUsed > CacheMax
    /\ \E b \in Blocks :
       /\ OldestUnlocked(b)
       /\ victim' = [victim EXCEPT ![t] = b]
       /\ nLockCount' = [nLockCount EXCEPT ![b] = @ + 1]
       /\ papoBlocks' = papoBlocks \ {b}
       /\ list' = Detach(list, b)
    /\ Goto(t, "write")
    /\ UNCHANGED <<nCacheUsed, hRBMutex, exists, bDirty, fresh, diskFresh, dropped, eFlushBlockErr,
                   writing, begun, op, failed>>

\* Mutant: without DropLock.
EndInternalize_KeepsLock(t) ==
    LET b == op[t].block IN
    /\ pc[t] = "evict"
    /\ nCacheUsed <= CacheMax \/ \A c \in Blocks : ~ OldestUnlocked(c)
    /\ list' = Touch(list, b)
    /\ hRBMutex' = NULL
    /\ Goto(t, "adopt")
    /\ UNCHANGED <<nCacheUsed, nLockCount, exists, papoBlocks, bDirty, fresh, diskFresh, dropped,
                   eFlushBlockErr, writing, begun, op, victim, failed>>

\* Below the limit again, or nothing to be flushed.
EndInternalize(t) ==
    LET b == op[t].block IN
    /\ pc[t] = "evict"
    /\ nCacheUsed <= CacheMax \/ \A c \in Blocks : ~ OldestUnlocked(c)
    /\ list' = Touch(list, b)
    /\ nLockCount' = [nLockCount EXCEPT ![b] = @ - 1]
    /\ hRBMutex' = NULL
    /\ Goto(t, "adopt")
    /\ UNCHANGED <<nCacheUsed, exists, papoBlocks, bDirty, fresh, diskFresh, dropped,
                   eFlushBlockErr, writing, begun, op, victim, failed>>

AdoptBlock(t) ==
    LET b == op[t].block IN
    /\ pc[t] = "adopt"
    /\ MutexFree(t)
    /\ papoBlocks' = papoBlocks \cup {b}
    /\ list' = Touch(list, b)
    /\ Goto(t, IF op[t].use \in JustInitialized THEN "use" ELSE "load")
    /\ UNCHANGED <<nCacheUsed, hRBMutex, exists, nLockCount, bDirty, fresh, diskFresh, dropped,
                   eFlushBlockErr, writing, begun, op, victim, failed>>

\* IReadBlock; when it fails the block is unlocked and flushed again.
Load(t) ==
    LET b == op[t].block IN
    /\ pc[t] = "load"
    /\ \/ /\ fresh' = IF b \in diskFresh THEN fresh \cup {b} ELSE fresh
          /\ Goto(t, "use")
          /\ UNCHANGED nLockCount
       \/ /\ nLockCount' = [nLockCount EXCEPT ![b] = @ - 1]
          /\ Goto(t, "dropFailed")
          /\ UNCHANGED fresh
    /\ UNCHANGED <<list, nCacheUsed, hRBMutex, exists, papoBlocks, bDirty, diskFresh, dropped,
                   eFlushBlockErr, writing, begun, op, victim, failed>>

\* What a write does to what is known of the newest contents.  The block that
\* is continued but came to be initialised again has lost its first rows.
Written(b, use) ==
    /\ diskFresh' = diskFresh \ {b}
    /\ fresh' = IF use = "overwrite" THEN fresh \cup {b} ELSE fresh
    /\ dropped' = CASE use = "overwrite" -> dropped \ {b}
                    [] use = "continue" /\ b \notin fresh -> dropped \cup {b}
                    [] OTHER -> dropped

\* Mutant: without MarkDirty.
UseBlock_NotDirty(t) ==
    LET b == op[t].block IN
    /\ pc[t] = "use"
    /\ IF op[t].use = "read" THEN UNCHANGED <<fresh, diskFresh, dropped>> ELSE Written(b, op[t].use)
    /\ Goto(t, "release")
    /\ UNCHANGED <<list, nCacheUsed, hRBMutex, exists, papoBlocks, nLockCount, bDirty,
                   eFlushBlockErr, writing, begun, op, victim, failed>>

\* MarkDirty, and the copying from or to the caller's buffer.
UseBlock(t) ==
    LET b == op[t].block IN
    /\ pc[t] = "use"
    /\ IF op[t].use = "read" THEN UNCHANGED <<bDirty, fresh, diskFresh, dropped>>
       ELSE bDirty' = bDirty \cup {b} /\ Written(b, op[t].use)
    /\ Goto(t, "release")
    /\ UNCHANGED <<list, nCacheUsed, hRBMutex, exists, papoBlocks, nLockCount,
                   eFlushBlockErr, writing, begun, op, victim, failed>>

DropLock(t) ==
    /\ pc[t] = "release"
    /\ nLockCount' = [nLockCount EXCEPT ![op[t].block] = @ - 1]
    /\ op' = [op EXCEPT ![t] = NULL]
    /\ Goto(t, "idle")
    /\ UNCHANGED <<list, nCacheUsed, hRBMutex, exists, papoBlocks, bDirty, fresh, diskFresh, dropped,
                   eFlushBlockErr, writing, begun, victim, failed>>

-----------------------------------------------------------------------------
(* FlushBlock, for the victim of an eviction, for a block that could not be *)
(* loaded and for each block of a FlushCache.                              *)

Evicts(t) == hRBMutex = t
FlushesCache(t) == op[t] = NULL /\ pc[t] # "idle"

\* The owner's FlushBlock: lock, take out of papoBlocks and of the list.
TakeOut(t, b) ==
    /\ MutexFree(t)
    /\ b \in papoBlocks
    /\ victim' = [victim EXCEPT ![t] = b]
    /\ nLockCount' = [nLockCount EXCEPT ![b] = @ + 1]
    /\ papoBlocks' = papoBlocks \ {b}
    /\ list' = Detach(list, b)
    /\ Goto(t, "write")
    /\ UNCHANGED <<nCacheUsed, hRBMutex, exists, bDirty, fresh, diskFresh, dropped, eFlushBlockErr,
                   writing, begun, op, failed>>

\* The block that could not be loaded, unless another thread was faster.
DropFailed(t) ==
    LET b == op[t].block IN
    /\ pc[t] = "dropFailed"
    /\ \/ TakeOut(t, b)
       \/ /\ MutexFree(t)
          /\ b \notin papoBlocks
          /\ op' = [op EXCEPT ![t] = NULL]
          /\ Goto(t, "idle")
          /\ EndCall(t)
          /\ UNCHANGED <<list, nCacheUsed, hRBMutex, exists, papoBlocks, nLockCount, bDirty,
                         fresh, diskFresh, dropped, eFlushBlockErr, victim, failed>>

\* GDALRasterBlock::Write: the block is clean from now on, whatever happens.
\* With an error waiting to be reported nothing is written at all, and the
\* result is to be that error, which is read again.
WriteVictim(t) ==
    LET b == victim[t] IN
    /\ pc[t] = "write"
    /\ IF b \in bDirty /\ ~ (FlushesCache(t) /\ failed[t])
       THEN /\ bDirty' = bDirty \ {b}
            /\ \/ /\ Band(b) \notin eFlushBlockErr
                  /\ diskFresh' = IF b \in fresh THEN diskFresh \cup {b} ELSE diskFresh
                  /\ Goto(t, "delete")
                  /\ UNCHANGED failed
               \/ /\ Band(b) \notin eFlushBlockErr
                  /\ failed' = [failed EXCEPT ![t] = TRUE]
                  /\ Goto(t, "delete")
                  /\ UNCHANGED diskFresh
               \/ /\ Band(b) \in eFlushBlockErr
                  /\ Goto(t, "reread")
                  /\ UNCHANGED <<diskFresh, failed>>
       ELSE Goto(t, "delete") /\ UNCHANGED <<bDirty, diskFresh, failed>>
    /\ UNCHANGED <<list, nCacheUsed, hRBMutex, exists, papoBlocks, nLockCount, fresh, dropped,
                   eFlushBlockErr, writing, begun, op, victim>>

\* return poBand->eFlushBlockErr: the owner of the band, which does not take
\* the mutex for it, may have reported and reset it by now.
RereadError(t) ==
    LET b == victim[t] IN
    /\ pc[t] = "reread"
    /\ IF Band(b) \in eFlushBlockErr
       THEN failed' = [failed EXCEPT ![t] = TRUE] /\ UNCHANGED dropped
       ELSE dropped' = dropped \cup ({b} \ diskFresh) /\ UNCHANGED failed
    /\ Goto(t, "delete")
    /\ UNCHANGED <<list, nCacheUsed, hRBMutex, exists, papoBlocks, nLockCount, bDirty,
                   fresh, diskFresh, eFlushBlockErr, writing, begun, op, victim>>

\* On to the caller of FlushBlock; only FlushCache keeps the result.
EndFlushBlock(t) ==
    /\ failed' = [failed EXCEPT ![t] = @ /\ FlushesCache(t)]
    /\ op' = [op EXCEPT ![t] = IF Evicts(t) THEN @ ELSE NULL]
    /\ Goto(t, IF Evicts(t) THEN "evict" ELSE IF FlushesCache(t) THEN "flush" ELSE "idle")
    /\ IF Evicts(t) THEN UNCHANGED <<writing, begun>> ELSE EndCall(t)

\* Mutant: the result of FlushBlock is not kept.
DeleteVictim_NoError(t) ==
    LET b == victim[t] IN
    /\ pc[t] = "delete"
    /\ MutexFree(t)
    /\ nLockCount' = [nLockCount EXCEPT ![b] = @ - 1]
    /\ exists' = exists \ {b}
    /\ fresh' = fresh \ {b}
    /\ bDirty' = bDirty \ {b}
    /\ nCacheUsed' = nCacheUsed - 1
    /\ victim' = [victim EXCEPT ![t] = NULL]
    /\ UNCHANGED eFlushBlockErr
    /\ EndFlushBlock(t)
    /\ UNCHANGED <<list, hRBMutex, papoBlocks, diskFresh, dropped>>

\* The block is unlocked and deleted; an evicting thread leaves the error to
\* the band.
DeleteVictim(t) ==
    LET b == victim[t] IN
    /\ pc[t] = "delete"
    /\ MutexFree(t)
    /\ nLockCount' = [nLockCount EXCEPT ![b] = @ - 1]
    /\ exists' = exists \ {b}
    /\ fresh' = fresh \ {b}
    /\ bDirty' = bDirty \ {b}
    /\ nCacheUsed' = nCacheUsed - 1
    /\ victim' = [victim EXCEPT ![t] = NULL]
    /\ eFlushBlockErr' = IF Evicts(t) /\ failed[t] THEN eFlushBlockErr \cup {Band(b)}
                         ELSE eFlushBlockErr
    /\ EndFlushBlock(t)
    /\ UNCHANGED <<list, hRBMutex, papoBlocks, diskFresh, dropped>>

-----------------------------------------------------------------------------
(* FlushCache of a thread's own band.                                      *)

\* CPLErr eGlobalErr = eFlushBlockErr;
BeginFlush(t) ==
    /\ pc[t] = "idle"
    /\ failed' = [failed EXCEPT ![t] = t \in eFlushBlockErr]
    /\ Goto(t, "flushReport")
    /\ EndCall(t)
    /\ UNCHANGED <<list, nCacheUsed, hRBMutex, exists, papoBlocks, nLockCount, bDirty,
                   fresh, diskFresh, dropped, eFlushBlockErr, op, victim>>

\* if (eFlushBlockErr != CE_None), read a second time
FlushReport(t) ==
    /\ pc[t] = "flushReport"
    /\ IF t \in eFlushBlockErr THEN Report(t)
       ELSE UNCHANGED <<eFlushBlockErr, diskFresh, fresh, dropped>>
    /\ Goto(t, "flush")
    /\ UNCHANGED <<list, nCacheUsed, hRBMutex, exists, papoBlocks, nLockCount, bDirty,
                   writing, begun, op, victim, failed>>

\* The loop over papoBlocks, which it reads without the mutex.
FlushNext(t) == pc[t] = "flush" /\ \E o \in Offsets : TakeOut(t, <<t, o>>)

\* Mutant: the loop ends early.
EndFlush_Early(t) ==
    /\ pc[t] = "flush"
    /\ IF failed[t] THEN Forgive(t) ELSE UNCHANGED <<diskFresh, fresh, dropped>>
    /\ failed' = [failed EXCEPT ![t] = FALSE]
    /\ Goto(t, "idle")
    /\ UNCHANGED <<list, nCacheUsed, hRBMutex, exists, papoBlocks, nLockCount, bDirty,
                   eFlushBlockErr, writing, begun, op, victim>>

EndFlush(t) ==
    /\ pc[t] = "flush"
    /\ \A o \in Offsets : <<t, o>> \notin papoBlocks
    /\ IF failed[t] THEN Forgive(t) ELSE UNCHANGED <<diskFresh, fresh, dropped>>
    /\ failed' = [failed EXCEPT ![t] = FALSE]
    /\ Goto(t, "idle")
    /\ UNCHANGED <<list, nCacheUsed, hRBMutex, exists, papoBlocks, nLockCount, bDirty,
                   eFlushBlockErr, writing, begun, op, victim>>

-----------------------------------------------------------------------------
Step(t) ==
    \/ Begin(t) \/ ReportBeforeWrite(t) \/ TryGet(t) \/ Internalize(t)
    \/ PickVictim(t) \/ EndInternalize(t) \/ AdoptBlock(t)
    \/ Load(t) \/ UseBlock(t) \/ DropLock(t)
    \/ DropFailed(t) \/ WriteVictim(t) \/ RereadError(t) \/ DeleteVictim(t)
    \/ BeginFlush(t) \/ FlushReport(t) \/ FlushNext(t) \/ EndFlush(t)

Next == \E t \in Threads : Step(t)

Spec == Init /\ [][Next]_vars

-----------------------------------------------------------------------------
PCs == {"idle", "tryGet", "create", "evict", "adopt", "load", "use", "release",
        "dropFailed", "write", "reread", "delete", "flushReport", "flush"}

\* Types; the list and the counters are in the state their functions assume.
TypeOK ==
    /\ list \in [newest : Blocks \cup {NULL}, oldest : Blocks \cup {NULL},
                 next : [Blocks -> Blocks \cup {NULL}], prev : [Blocks -> Blocks \cup {NULL}]]
    /\ hRBMutex \in Threads \cup {NULL}
    /\ papoBlocks \subseteq exists /\ fresh \subseteq exists /\ bDirty \subseteq exists
    /\ exists \subseteq Blocks /\ diskFresh \subseteq Blocks /\ dropped \subseteq Blocks
    /\ nCacheUsed = Cardinality(exists)
    /\ nLockCount \in [Blocks -> 0 .. 2]
    /\ eFlushBlockErr \subseteq Threads /\ writing \subseteq Threads
    /\ begun \subseteq {b \in Blocks : Band(b) \in writing}
    /\ pc \in [Threads -> PCs]
    /\ op \in [Threads -> {NULL} \cup Operations]
    /\ victim \in [Threads -> {NULL} \cup Blocks]
    /\ failed \in [Threads -> BOOLEAN]

\* A block is not expired by another thread while its owner reads or writes
\* it: the "race conditions" SafeLockBlock is for (gdalrasterblock.cpp:681).
LockedBlockIsKept ==
    \A t \in Threads :
        pc[t] \in {"adopt", "load", "use", "release"} =>
            LET b == op[t].block IN
            /\ b \in exists /\ nLockCount[b] = 1
            /\ pc[t] # "adopt" => b \in papoBlocks
            /\ \A u \in Threads : victim[u] # b

\* What Verify asserts of the list, and that it holds every block a band knows:
\* a block that is not in it can never be evicted.
ListHoldsTheBlocks ==
    LET forward == Walk(list.newest, list.next) IN
    /\ Walk(list.oldest, list.prev) = Reverse(forward)
    /\ IsInjective(forward)
    /\ papoBlocks \subseteq ToSet(forward) /\ ToSet(forward) \subseteq exists
    /\ \A b \in ToSet(forward) \ papoBlocks : nLockCount[b] > 0

\* When no block is being made, the cache is within its limit, or holds no
\* more than one block per thread, whatever was locked at the worst moment.
CacheIsBounded ==
    hRBMutex = NULL => nCacheUsed <= CacheMax \/ nCacheUsed <= Cardinality(Threads)

\* The newest contents of a block are in the file, or in the block, which will
\* be written or whose failed write will be recorded; or the loss is an error
\* that the next RasterIO, WriteBlock or FlushCache of the band will report.
KeptOrReported(b) ==
    LET t == Band(b) IN
    \/ b \in diskFresh
    \/ b \in fresh /\ (b \in bDirty \/ \E u \in Threads : victim[u] = b /\ (failed[u] \/ pc[u] = "reread"))
    \/ t \in eFlushBlockErr
    \/ FlushesCache(t) /\ failed[t]

\* Written data is never lost without an error, whatever blocks are evicted by
\* whom and whichever writes fail, but for the two gaps of the code.
OnlyDroppedIsLost == \A b \in Blocks \ dropped : KeptOrReported(b)

\* "allocated and initialized, but not actually read from the source.  This is
\* useful when it will just be completely set and written back"
\* (gdalrasterband.cpp:1172): what a RasterIO has set is never lost silently.
NothingIsLostSilently == \A b \in Blocks : KeptOrReported(b)

\* A thread that uses a block finds in it all it has written before, also when
\* other threads have evicted it meanwhile, unless an error waits for it or the
\* data fell into one of the two gaps.
ReadsSeeWrites ==
    \A t \in Threads :
        pc[t] = "use" /\ op[t].use \notin JustInitialized =>
            op[t].block \in fresh \cup dropped \/ t \in eFlushBlockErr

\* After FlushCache the band has no blocks, and what is neither in the file nor
\* reported is with a thread that is evicting it, or fell into one of the two
\* gaps.
FlushLeavesNothingBehind ==
    [][\A t \in Threads : pc[t] = "flush" /\ pc'[t] = "idle" =>
           \A b \in Blocks : Band(b) = t =>
               /\ b \notin papoBlocks'
               /\ \/ b \in diskFresh' \cup dropped'
                  \/ t \in eFlushBlockErr'
                  \/ \E u \in Threads \ {t} : Evicts(u) /\ victim[u] = b]_vars

\* "Any raster [...] data written via GDAL calls, but buffered internally will
\* be written to disk" (gdaldataset.cpp:319): when FlushCache returns CE_None
\* the file has all of it.
FlushedIsWritten ==
    [][\A t \in Threads : pc[t] = "flush" /\ pc'[t] = "idle" /\ ~ failed[t] =>
           \A b \in Blocks : Band(b) = t => b \in diskFresh']_vars

\* The pointers implement a list by recency, at every touch and detachment.
Recency == INSTANCE RecencyList WITH order <- Walk(list.newest, list.next)

ImplementsRecencyList == Recency!Spec

=============================================================================
