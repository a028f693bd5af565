-------------------------- MODULE ChunkAndWarpMulti --------------------------
(***************************************************************************)
(* GDALWarpOperation::ChunkAndWarpMulti of the vendored GDAL               *)
(* (alg/gdalwarpoperation.cpp), the warper that reads, computes            *)
(* and writes the chunks of an output region with two threads: while one   *)
(* reads or writes, the other computes.                                    *)
(*                                                                         *)
(* CollectChunkList cuts the region until each part fits into memory. The  *)
(* calling thread then starts one thread per chunk, in one of two slots,   *)
(* and joins the thread of the chunk before. A thread holds hIOMutex while *)
(* it reads and while it writes, hWarpMutex while it computes. The mutexes *)
(* are those of the pthread build (port/cpl_config.h), whose               *)
(* CPLAcquireMutex waits without a time limit.                             *)
(***************************************************************************)
EXTENDS Integers, Sequences, FiniteSets, Functions

CONSTANTS
    DstXSize, DstYSize,         \* the region
    BlockXSize, BlockYSize,     \* the blocks of the output dataset
    MaxChunks,                  \* bound: how many parts the region is cut into
    Free, Main,                 \* no owner of a mutex, the calling thread
    Nothing, CE_None, CE_Failure

ASSUME WarpAssumption ==
    /\ {DstXSize, DstYSize, BlockXSize, BlockYSize} \subseteq Nat \ {0}
    /\ MaxChunks \in Nat
    /\ CE_None # CE_Failure /\ Nothing \notin {CE_None, CE_Failure}
    /\ {Free, Main} \cap {0, 1} = {} /\ Free # Main

VARIABLES
    optimizeSize,   \* the option OPTIMIZE_SIZE
    todo,           \* the windows CollectChunkList is still to be called for
    skipped,        \* the windows left out: no source, or not computable
    chunkList,      \* panChunkList
    pc,             \* where the calling thread is
    iChunk,         \* its loop variable
    eErr,           \* its eErr
    result,         \* what the call has returned
    panChunkInfo, hThreadHandle, threadErr, hasCond, bIOMutexTaken, \* asThreadData
    threadPc,       \* where the thread of a slot is
    chunk,          \* the chunk it works on, its local panChunkInfo
    ioMutex, warpMutex, condMutex,  \* the owners of the mutexes
    writes          \* how often each chunk was written to the output

collectVars == <<optimizeSize, todo, skipped, chunkList>>
mainVars    == <<pc, iChunk, eErr, result>>
slotVars    == <<panChunkInfo, hThreadHandle, hasCond>>
threadVars  == <<threadPc, chunk, threadErr>>
mutexes     == <<ioMutex, warpMutex, condMutex>>
vars == <<collectVars, mainVars, slotVars, threadVars, bIOMutexTaken, mutexes, writes>>

Slots == {0, 1}
Count == Len(chunkList)
Windows == [x : Nat, y : Nat, w : Nat \ {0}, h : Nat \ {0}]
Region == [x |-> 0, y |-> 0, w |-> DstXSize, h |-> DstYSize]

\* The pixels of a window.
Covers(r, i, j) == r.x <= i /\ i < r.x + r.w /\ r.y <= j /\ j < r.y + r.h

Init ==
    /\ optimizeSize \in BOOLEAN
    /\ todo = {Region}
    /\ skipped = {}
    /\ chunkList = << >>
    /\ pc = "collect"
    /\ iChunk = 0
    /\ eErr = CE_None
    /\ result = Nothing
    /\ panChunkInfo = [s \in Slots |-> 0]
    /\ hThreadHandle = [s \in Slots |-> FALSE]
    /\ threadErr = [s \in Slots |-> CE_None]
    /\ hasCond = [s \in Slots |-> FALSE]
    /\ bIOMutexTaken = [s \in Slots |-> FALSE]
    /\ threadPc = [s \in Slots |-> "none"]
    /\ chunk = [s \in Slots |-> 0]
    /\ ioMutex = Free /\ warpMutex = Free /\ condMutex = Free
    /\ writes = << >>

-----------------------------------------------------------------------------
(* CollectChunkList. How much memory a window takes depends on its source  *)
(* window, so whether it is to be cut is open, as long as it can be.       *)

CutsWidth(r) ==
    r.w > r.h /\ (optimizeSize => r.w \div 2 >= BlockXSize \/ r.h = 1)

\* Half of a side, in the optimized case a multiple of the block size.
FirstPart(n, block) ==
    LET half == n \div 2 IN
    IF optimizeSize /\ half > block THEN (half \div block) * block ELSE half

Parts(r) ==
    IF CutsWidth(r)
    THEN LET n == FirstPart(r.w, BlockXSize) IN
         {[r EXCEPT !.w = n], [r EXCEPT !.x = @ + n, !.w = @ - n]}
    ELSE LET n == FirstPart(r.h, BlockYSize) IN
         {[r EXCEPT !.h = n], [r EXCEPT !.y = @ + n, !.h = @ - n]}

\* The source window cannot be computed or is empty: a warning, or nothing.
SkipWindow(r) ==
    /\ pc = "collect"
    /\ r \in todo
    /\ todo' = todo \ {r}
    /\ skipped' = skipped \cup {r}
    /\ UNCHANGED <<optimizeSize, chunkList, mainVars, slotVars, threadVars, bIOMutexTaken, mutexes, writes>>

\* The window takes too much memory: two recursive calls.
SplitWindow(r) ==
    /\ pc = "collect"
    /\ r \in todo
    /\ r.w > 2 \/ r.h > 2
    /\ Cardinality(todo) + Len(chunkList) < MaxChunks
    /\ todo' = (todo \ {r}) \cup Parts(r)
    /\ UNCHANGED <<optimizeSize, skipped, chunkList, mainVars, slotVars, threadVars, bIOMutexTaken, mutexes, writes>>

AddChunk(r) ==
    /\ pc = "collect"
    /\ r \in todo
    /\ todo' = todo \ {r}
    /\ chunkList' = Append(chunkList, r)
    /\ UNCHANGED <<optimizeSize, skipped, mainVars, slotVars, threadVars, bIOMutexTaken, mutexes, writes>>

\* OrderWarpChunk: from top to bottom, and from left to right.
InOrder(a, b) == a.y < b.y \/ (a.y = b.y /\ a.x <= b.x)

\* The list is complete and sorted; its value is kept to the end of the call,
\* where WipeChunkList frees it.
SortChunks ==
    /\ pc = "collect"
    /\ todo = {}
    /\ \E p \in Bijection(1 .. Count, 1 .. Count) :
           /\ chunkList' = [i \in 1 .. Count |-> chunkList[p[i]]]
           /\ \A i, j \in 1 .. Count : i < j => InOrder(chunkList'[i], chunkList'[j])
    /\ writes' = [i \in 1 .. Count |-> 0]
    /\ pc' = "launch"
    /\ UNCHANGED <<optimizeSize, todo, skipped, iChunk, eErr, result,
                   slotVars, threadVars, bIOMutexTaken, mutexes>>

-----------------------------------------------------------------------------
(* The loop of the calling thread. Its chunks are numbered from 0.         *)

\* Mutant: the chunk before, from a list numbered from 1.
LaunchThread_PreviousChunk ==
    /\ pc = "launch"
    /\ iChunk < Count
    /\ LET s == iChunk % 2 IN
       /\ panChunkInfo' = [panChunkInfo EXCEPT ![s] = IF iChunk = 0 THEN 1 ELSE iChunk]
       /\ hasCond' = [hasCond EXCEPT ![s] = (iChunk = 0)]
       /\ bIOMutexTaken' = [bIOMutexTaken EXCEPT ![s] = FALSE]
       /\ hThreadHandle' = [hThreadHandle EXCEPT ![s] = TRUE]
       /\ threadPc' = [threadPc EXCEPT ![s] = "start"]
    /\ pc' = IF iChunk = 0 THEN "lockCond" ELSE "join"
    /\ UNCHANGED <<collectVars, iChunk, eErr, result, chunk, threadErr, mutexes, writes>>

\* The slot of this turn's chunk is filled in, and its thread starts or not.
LaunchThread ==
    /\ pc = "launch"
    /\ iChunk < Count
    /\ LET s == iChunk % 2 IN
       /\ panChunkInfo' = [panChunkInfo EXCEPT ![s] = iChunk + 1]
       /\ hasCond' = [hasCond EXCEPT ![s] = (iChunk = 0)]
       /\ bIOMutexTaken' = [bIOMutexTaken EXCEPT ![s] = FALSE]
       /\ \/ /\ hThreadHandle' = [hThreadHandle EXCEPT ![s] = TRUE]
             /\ threadPc' = [threadPc EXCEPT ![s] = "start"]
             /\ pc' = IF iChunk = 0 THEN "lockCond" ELSE "join"
             /\ UNCHANGED eErr
          \/ /\ hThreadHandle' = [hThreadHandle EXCEPT ![s] = FALSE]
             /\ eErr' = CE_Failure
             /\ pc' = "joinAll"
             /\ UNCHANGED threadPc
    /\ UNCHANGED <<collectVars, iChunk, result, chunk, threadErr, mutexes, writes>>

\* Mutant: a loop up to nChunkListCount, without the turn that joins the last.
NothingToLaunch_NoLastTurn ==
    /\ pc = "launch"
    /\ iChunk = Count
    /\ pc' = "joinAll"
    /\ UNCHANGED <<collectVars, iChunk, eErr, result, slotVars, threadVars, bIOMutexTaken, mutexes, writes>>

\* The turn after the last chunk only joins.
NothingToLaunch ==
    /\ pc = "launch"
    /\ iChunk = Count
    /\ pc' = IF iChunk > 0 THEN "join" ELSE "joinAll"
    /\ UNCHANGED <<collectVars, iChunk, eErr, result, slotVars, threadVars, bIOMutexTaken, mutexes, writes>>

LockCond ==
    /\ pc = "lockCond"
    /\ condMutex = Free
    /\ condMutex' = Main
    /\ pc' = "testTaken"
    /\ UNCHANGED <<collectVars, iChunk, eErr, result, slotVars, threadVars, bIOMutexTaken,
                   ioMutex, warpMutex, writes>>

\* while (asThreadData[iThread].bIOMutexTaken == FALSE), in the first turn only
TestTaken ==
    /\ pc = "testTaken"
    /\ IF bIOMutexTaken[0]
       THEN /\ condMutex' = Free
            /\ iChunk' = iChunk + 1
            /\ pc' = "launch"
       ELSE /\ pc' = "condWait"
            /\ UNCHANGED <<condMutex, iChunk>>
    /\ UNCHANGED <<collectVars, eErr, result, slotVars, threadVars, bIOMutexTaken,
                   ioMutex, warpMutex, writes>>

\* pthread_cond_wait gives the mutex back and waits, in one step.
CondWait ==
    /\ pc = "condWait"
    /\ condMutex' = Free
    /\ pc' = "waiting"
    /\ UNCHANGED <<collectVars, iChunk, eErr, result, slotVars, threadVars, bIOMutexTaken,
                   ioMutex, warpMutex, writes>>

\* pthread_cond_wait may return without a signal; it then takes the mutex.
SpuriousWakeup ==
    /\ pc = "waiting"
    /\ pc' = "lockCond"
    /\ UNCHANGED <<collectVars, iChunk, eErr, result, slotVars, threadVars, bIOMutexTaken, mutexes, writes>>

\* Mutant: the loop goes on after the last thread.
JoinThread_OneTooMany ==
    /\ pc = "join"
    /\ LET s == (iChunk - 1) % 2 IN
       /\ threadPc[s] = "ended"
       /\ hThreadHandle' = [hThreadHandle EXCEPT ![s] = FALSE]
       /\ eErr' = threadErr[s]
    /\ pc' = IF eErr' # CE_None THEN "joinAll" ELSE "launch"
    /\ iChunk' = IF eErr' # CE_None THEN iChunk ELSE iChunk + 1
    /\ UNCHANGED <<collectVars, result, panChunkInfo, hasCond, threadVars, bIOMutexTaken, mutexes, writes>>

\* The thread of the chunk before has ended: its status decides.
JoinThread ==
    /\ pc = "join"
    /\ LET s == (iChunk - 1) % 2 IN
       /\ threadPc[s] = "ended"
       /\ hThreadHandle' = [hThreadHandle EXCEPT ![s] = FALSE]
       /\ eErr' = threadErr[s]
    /\ IF eErr' # CE_None \/ iChunk = Count
       THEN /\ pc' = "joinAll"
            /\ UNCHANGED iChunk
       ELSE /\ pc' = "launch"
            /\ iChunk' = iChunk + 1
    /\ UNCHANGED <<collectVars, result, panChunkInfo, hasCond, threadVars, bIOMutexTaken, mutexes, writes>>

\* Mutant: no wait for the other thread when the loop is left early.
Return_NoJoin ==
    /\ pc = "joinAll"
    /\ result' = eErr
    /\ pc' = "returned"
    /\ UNCHANGED <<collectVars, iChunk, eErr, slotVars, threadVars, bIOMutexTaken, mutexes, writes>>

\* Threads that still run are waited for, whatever their status.
Return ==
    /\ pc = "joinAll"
    /\ \A s \in Slots : hThreadHandle[s] => threadPc[s] = "ended"
    /\ result' = eErr
    /\ pc' = "returned"
    /\ UNCHANGED <<collectVars, iChunk, eErr, slotVars, threadVars, bIOMutexTaken, mutexes, writes>>

-----------------------------------------------------------------------------
(* ChunkThreadMain and the WarpRegion it calls, in the thread of slot s.   *)

ReadChunkInfo(s) ==
    /\ threadPc[s] = "start"
    /\ chunk' = [chunk EXCEPT ![s] = panChunkInfo[s]]
    /\ threadPc' = [threadPc EXCEPT ![s] = "acquireIO"]
    /\ UNCHANGED <<collectVars, mainVars, slotVars, threadErr, bIOMutexTaken, mutexes, writes>>

AcquireIO(s) ==
    /\ threadPc[s] = "acquireIO"
    /\ ioMutex = Free
    /\ ioMutex' = s
    /\ threadPc' = [threadPc EXCEPT ![s] = IF hasCond[s] THEN "signal" ELSE "read"]
    /\ UNCHANGED <<collectVars, mainVars, slotVars, chunk, threadErr, bIOMutexTaken,
                   warpMutex, condMutex, writes>>

\* Mutant: the signal alone, without the flag the caller tests.
Signal_NoFlag(s) ==
    /\ threadPc[s] = "signal"
    /\ condMutex = Free
    /\ threadPc' = [threadPc EXCEPT ![s] = "read"]
    /\ pc' = IF pc = "waiting" THEN "lockCond" ELSE pc
    /\ UNCHANGED <<collectVars, iChunk, eErr, result, slotVars, chunk, threadErr, bIOMutexTaken, mutexes, writes>>

\* The flag is set and the signal given while hCondMutex is held; a waiting
\* caller goes on to take that mutex.
Signal(s) ==
    /\ threadPc[s] = "signal"
    /\ condMutex = Free
    /\ bIOMutexTaken' = [bIOMutexTaken EXCEPT ![s] = TRUE]
    /\ threadPc' = [threadPc EXCEPT ![s] = "read"]
    /\ pc' = IF pc = "waiting" THEN "lockCond" ELSE pc
    /\ UNCHANGED <<collectVars, iChunk, eErr, result, slotVars, chunk, threadErr, mutexes, writes>>

\* Buffers are allocated, the output and the source are read, masks are made.
\* When the output is not read, or the source buffer would be too large, WarpRegion
\* returns with the IO mutex held; every later failure is kept in eErr, and the
\* thread goes on to the next mutex with it.
ReadInput(s) ==
    /\ threadPc[s] = "read"
    /\ \/ /\ ioMutex' = Free
          /\ threadPc' = [threadPc EXCEPT ![s] = "acquireWarp"]
          /\ \E err \in {CE_None, CE_Failure} : threadErr' = [threadErr EXCEPT ![s] = err]
       \/ /\ threadPc' = [threadPc EXCEPT ![s] = "releaseIO"]
          /\ threadErr' = [threadErr EXCEPT ![s] = CE_Failure]
          /\ UNCHANGED ioMutex
    /\ UNCHANGED <<collectVars, mainVars, slotVars, chunk, bIOMutexTaken, warpMutex, condMutex, writes>>

AcquireWarp(s) ==
    /\ threadPc[s] = "acquireWarp"
    /\ warpMutex = Free
    /\ warpMutex' = s
    /\ threadPc' = [threadPc EXCEPT ![s] = "warp"]
    /\ UNCHANGED <<collectVars, mainVars, slotVars, chunk, threadErr, bIOMutexTaken,
                   ioMutex, condMutex, writes>>

\* Nothing is computed after an error.
PerformWarp(s) ==
    /\ threadPc[s] = "warp"
    /\ warpMutex' = Free
    /\ \E err \in {threadErr[s], CE_Failure} : threadErr' = [threadErr EXCEPT ![s] = err]
    /\ threadPc' = [threadPc EXCEPT ![s] = "reacquireIO"]
    /\ UNCHANGED <<collectVars, mainVars, slotVars, chunk, bIOMutexTaken, ioMutex, condMutex, writes>>

\* Mutant: the output is written without the IO mutex.
ReacquireIO_NoMutex(s) ==
    /\ threadPc[s] = "reacquireIO"
    /\ threadPc' = [threadPc EXCEPT ![s] = "write"]
    /\ UNCHANGED <<collectVars, mainVars, slotVars, chunk, threadErr, bIOMutexTaken, mutexes, writes>>

ReacquireIO(s) ==
    /\ threadPc[s] = "reacquireIO"
    /\ ioMutex = Free
    /\ ioMutex' = s
    /\ threadPc' = [threadPc EXCEPT ![s] = "write"]
    /\ UNCHANGED <<collectVars, mainVars, slotVars, chunk, threadErr, bIOMutexTaken,
                   warpMutex, condMutex, writes>>

\* "Write the output data back to disk if all went well", which may fail, and so
\* may the flush that WRITE_FLUSH asks for when the data has been written.
WriteOutput(s) ==
    /\ threadPc[s] = "write"
    /\ \/ /\ threadErr[s] = CE_None
          /\ writes' = [writes EXCEPT ![chunk[s]] = @ + 1]
          /\ \E err \in {CE_None, CE_Failure} : threadErr' = [threadErr EXCEPT ![s] = err]
       \/ /\ threadErr' = [threadErr EXCEPT ![s] = CE_Failure]
          /\ UNCHANGED writes
    /\ threadPc' = [threadPc EXCEPT ![s] = "releaseIO"]
    /\ UNCHANGED <<collectVars, mainVars, slotVars, chunk, bIOMutexTaken, mutexes>>

ReleaseIO(s) ==
    /\ threadPc[s] = "releaseIO"
    /\ ioMutex' = Free
    /\ threadPc' = [threadPc EXCEPT ![s] = "ended"]
    /\ UNCHANGED <<collectVars, mainVars, slotVars, chunk, threadErr, bIOMutexTaken,
                   warpMutex, condMutex, writes>>

-----------------------------------------------------------------------------
CollectStep == SortChunks \/ \E r \in todo : SkipWindow(r) \/ SplitWindow(r) \/ AddChunk(r)

MainStep ==
    \/ LaunchThread \/ NothingToLaunch
    \/ LockCond \/ TestTaken \/ CondWait
    \/ JoinThread \/ Return

ThreadStep(s) ==
    \/ ReadChunkInfo(s) \/ AcquireIO(s) \/ Signal(s) \/ ReadInput(s)
    \/ AcquireWarp(s) \/ PerformWarp(s) \/ ReacquireIO(s)
    \/ WriteOutput(s) \/ ReleaseIO(s)

Next ==
    \/ CollectStep
    \/ MainStep
    \/ SpuriousWakeup
    \/ \E s \in Slots : ThreadStep(s)

(***************************************************************************)
(* The system runs each thread that can run. Strong fairness of a thread:  *)
(* hCondMutex and hIOMutex may be taken and given back many times before a *)
(* thread that waits for them gets them.                                   *)
(***************************************************************************)
Fairness ==
    /\ WF_vars(CollectStep)
    /\ WF_vars(MainStep)
    /\ \A s \in Slots : SF_vars(ThreadStep(s))

Spec == Init /\ [][Next]_vars /\ Fairness

-----------------------------------------------------------------------------
ThreadStates ==
    {"none", "start", "acquireIO", "signal", "read", "acquireWarp", "warp",
     "reacquireIO", "write", "releaseIO", "ended"}

MainStates ==
    {"collect", "launch", "lockCond", "testTaken", "condWait", "waiting",
     "join", "joinAll", "returned"}

TypeOK ==
    /\ optimizeSize \in BOOLEAN
    /\ todo \subseteq Windows /\ skipped \subseteq Windows
    /\ chunkList \in Seq(Windows)
    /\ pc \in MainStates
    /\ iChunk \in 0 .. Count
    /\ eErr \in {CE_None, CE_Failure}
    /\ result \in {Nothing, CE_None, CE_Failure}
    /\ panChunkInfo \in [Slots -> 0 .. Count]
    /\ chunk \in [Slots -> 0 .. Count]
    /\ hThreadHandle \in [Slots -> BOOLEAN]
    /\ hasCond \in [Slots -> BOOLEAN]
    /\ bIOMutexTaken \in [Slots -> BOOLEAN]
    /\ threadErr \in [Slots -> {CE_None, CE_Failure}]
    /\ threadPc \in [Slots -> ThreadStates]
    /\ ioMutex \in Slots \cup {Free}
    /\ warpMutex \in Slots \cup {Free}
    /\ condMutex \in {Free, Main}
    /\ writes \in [(IF pc = "collect" THEN {} ELSE 1 .. Count) -> Nat]

-----------------------------------------------------------------------------
(* What the threads and the windows keep true, on the way to the properties. *)

Disjoint(a, b) ==
    \A i \in 0 .. DstXSize - 1, j \in 0 .. DstYSize - 1 : ~ (Covers(a, i, j) /\ Covers(b, i, j))

\* The windows lie in the region, those to be written do not overlap with any
\* other, and together they cover the region.
Tiling ==
    /\ \A r \in todo \cup skipped \cup {chunkList[k] : k \in 1 .. Count} :
           r.x + r.w <= DstXSize /\ r.y + r.h <= DstYSize
    /\ \A a, b \in todo : a # b => Disjoint(a, b)
    /\ \A a \in todo, b \in skipped : Disjoint(a, b)
    /\ \A k \in 1 .. Count : \A a \in todo \cup skipped : Disjoint(a, chunkList[k])
    /\ \A k, m \in 1 .. Count : k # m => Disjoint(chunkList[k], chunkList[m])
    /\ \A i \in 0 .. DstXSize - 1, j \in 0 .. DstYSize - 1 :
           \/ \E a \in todo \cup skipped : Covers(a, i, j)
           \/ \E k \in 1 .. Count : Covers(chunkList[k], i, j)

\* The owner of a mutex is the thread that is between acquiring and releasing.
Owners ==
    /\ \A s \in Slots :
           /\ ioMutex = s <=> threadPc[s] \in {"signal", "read", "write", "releaseIO"}
           /\ warpMutex = s <=> threadPc[s] = "warp"
    /\ condMutex = Main <=> pc \in {"testTaken", "condWait"}

\* A slot with a thread handle belongs to one chunk, whose number has the
\* parity of the slot, until the thread is joined.
SlotsBelong ==
    \A s \in Slots :
        /\ threadPc[s] \notin {"none", "ended"} => hThreadHandle[s]
        /\ hThreadHandle[s] =>
               /\ threadPc[s] # "none"
               /\ panChunkInfo[s] \in 1 .. Count
               /\ (panChunkInfo[s] - 1) % 2 = s
               /\ threadPc[s] # "start" => chunk[s] = panChunkInfo[s]
               /\ threadPc[s] \notin {"releaseIO", "ended"} => writes[panChunkInfo[s]] = 0
               /\ threadPc[s] \in {"releaseIO", "ended"} /\ threadErr[s] = CE_None
                      => writes[panChunkInfo[s]] = 1

\* Where the calling thread is says which slots are in use, which chunks are
\* done and which are still to come.
Progress ==
    /\ pc \in {"collect", "lockCond", "testTaken", "condWait", "waiting"} => iChunk = 0
    /\ pc = "collect" =>
           /\ writes = << >>
           /\ \A s \in Slots : threadPc[s] = "none" /\ ~ hThreadHandle[s]
    /\ pc = "launch" =>
           /\ ~ hThreadHandle[iChunk % 2]
           /\ IF iChunk = 0 THEN ~ hThreadHandle[1]
              ELSE hThreadHandle[(iChunk - 1) % 2] /\ panChunkInfo[(iChunk - 1) % 2] = iChunk
           /\ \A k \in 1 .. Count : (k < iChunk => writes[k] = 1) /\ (k > iChunk => writes[k] = 0)
    /\ pc \in {"lockCond", "testTaken", "condWait", "waiting"} =>
           /\ hThreadHandle[0] /\ panChunkInfo[0] = 1 /\ ~ hThreadHandle[1]
           /\ \A k \in 1 .. Count : k > 1 => writes[k] = 0
    /\ pc = "join" =>
           /\ iChunk > 0
           /\ hThreadHandle[(iChunk - 1) % 2] /\ panChunkInfo[(iChunk - 1) % 2] = iChunk
           /\ hThreadHandle[iChunk % 2] <=> iChunk < Count
           /\ iChunk < Count => panChunkInfo[iChunk % 2] = iChunk + 1
           /\ \A k \in 1 .. Count : (k < iChunk => writes[k] = 1) /\ (k > iChunk + 1 => writes[k] = 0)
    /\ pc \notin {"joinAll", "returned"} => eErr = CE_None
    /\ pc \in {"joinAll", "returned"} /\ eErr = CE_None => \A k \in 1 .. Count : writes[k] = 1
    /\ pc # "collect" => todo = {}
    /\ result = (IF pc = "returned" THEN eErr ELSE Nothing)

\* A call that returns CE_None has written every pixel of the region exactly
\* once, except those of the windows CollectChunkList has left out: the cuts
\* of lines 1075 to 1124 neither lose nor repeat a pixel, and neither a thread
\* that failed, nor a slot that was used again, nor the end of the loop that
\* joins (lines 918 to 942) hides a chunk that is missing.
SuccessWritesEachPixelOnce ==
    result = CE_None =>
        \A i \in 0 .. DstXSize - 1, j \in 0 .. DstYSize - 1 :
            \/ /\ \E r \in skipped : Covers(r, i, j)
               /\ \A k \in 1 .. Count : ~ Covers(chunkList[k], i, j)
            \/ \E k \in 1 .. Count :
                   /\ Covers(chunkList[k], i, j) /\ writes[k] = 1
                   /\ \A m \in 1 .. Count \ {k} : ~ Covers(chunkList[m], i, j)

\* No chunk is written twice, whatever fails: a slot's panChunkInfo is filled
\* in for a new chunk (line 877) only when the thread that reads it has ended.
NoChunkIsWrittenTwice == \A k \in DOMAIN writes : writes[k] <= 1

\* Reading and writing are one thread's at a time, and so is computing: of the
\* two threads of a call neither is in the datasets while the other one is.
SectionsAreExclusive ==
    ~ \/ \A s \in Slots : threadPc[s] \in {"signal", "read", "write", "releaseIO"}
      \/ \A s \in Slots : threadPc[s] = "warp"

\* When the call returns, on success or failure, its threads have ended and
\* hold no mutex: the chunk list and the condition are freed (lines 944 to 947).
ReturnLeavesNoThread ==
    pc = "returned" =>
        /\ \A s \in Slots : threadPc[s] \in {"none", "ended"}
        /\ ioMutex = Free /\ warpMutex = Free /\ condMutex = Free

\* The inductive invariant of ChunkAndWarpMultiProofs.
WarpInvariant ==
    /\ TypeOK
    /\ Tiling
    /\ Owners
    /\ SlotsBelong
    /\ Progress
    /\ NoChunkIsWrittenTwice
    /\ ReturnLeavesNoThread

\* The call implements WarpCall: success only with all chunks in the output,
\* and an end in every case, so that neither the handshake over hCond nor the
\* two mutexes can make it hang.
Promise ==
    INSTANCE WarpCall WITH
        count   <- IF pc = "collect" THEN 0 ELSE Count,
        written <- {k \in DOMAIN writes : writes[k] > 0}

ImplementsWarpCall == Promise!Spec

=============================================================================
