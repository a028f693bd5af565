----------------------- MODULE RasterBlockCacheProofs -----------------------
(***************************************************************************)
(* Proofs about RasterBlockCache, for any threads, blocks per band and     *)
(* size of the cache.                                                      *)
(*                                                                         *)
(* The argument about locks: the count of a block says exactly who is at   *)
(* it, its owner or one evicting thread, and never both (CountsAreLocks);  *)
(* a thread evicts a block of another band only under the mutex.           *)
(* The argument about data: a block of the band holds all that was written *)
(* unless the file does not have it either (PresentIsFresh), a clean block *)
(* that holds it has it in the file (FreshIsSafe), and where neither file  *)
(* nor block has it, the band is told (LossIsKnown); both up to what fell  *)
(* into one of the two gaps of the code (dropped).                         *)
(*                                                                         *)
(* What order the list is in does not matter for any of this.              *)
(*                                                                         *)
(* The argument about the list: it links a line of blocks in both          *)
(* directions, those the bands know and those that wait to be adopted      *)
(* (ListIsLine); Touch is a detachment and a push to the front, each of    *)
(* which turns one line into another.                                      *)
(* The argument about the size: a thread that stops evicting above the     *)
(* limit has met locked blocks only, and then every block is the one its   *)
(* band's thread is at or flushes (OneBlockPerThread).                     *)
(***************************************************************************)
EXTENDS RasterBlockCache, FiniteSetTheorems, SequenceTheorems, WellFoundedInduction, TLAPS

Working == {"tryGet", "create", "evict", "adopt", "load", "use", "release", "dropFailed"}

\* What is where in each thread.
Shapes ==
    /\ hRBMutex \in Threads \cup {NULL}
    /\ papoBlocks \subseteq exists /\ fresh \subseteq exists /\ bDirty \subseteq exists
    /\ exists \subseteq Blocks /\ diskFresh \subseteq Blocks
    /\ nLockCount \in [Blocks -> Int]
    /\ eFlushBlockErr \subseteq Threads
    /\ pc \in [Threads -> PCs]
    /\ op \in [Threads -> {NULL} \cup Operations]
    /\ victim \in [Threads -> {NULL} \cup Blocks]
    /\ failed \in [Threads -> BOOLEAN]

\* The stages of a thread, and the block it works on, which is its own.
Stages ==
    \A t \in Threads :
        /\ pc[t] \in {"idle", "flush", "flushReport"} => op[t] = NULL
        /\ pc[t] \in Working => op[t] # NULL
        /\ op[t] # NULL => Band(op[t].block) = t
        /\ victim[t] # NULL <=> pc[t] \in {"write", "reread", "delete"}
        /\ pc[t] = "evict" => hRBMutex = t
        /\ hRBMutex = t => op[t] # NULL /\ pc[t] \in {"evict", "write", "reread", "delete"}
        /\ pc[t] = "create" => op[t].block \notin papoBlocks
        /\ pc[t] \in {"load", "use", "release"} => op[t].block \in papoBlocks
        /\ pc[t] \in {"adopt", "load", "dropFailed"} \/ hRBMutex = t => op[t].block \notin bDirty

\* Only an evicting thread, which holds the mutex, has a victim of another band.
Victims ==
    \A t \in Threads : victim[t] # NULL =>
        /\ victim[t] \notin papoBlocks
        /\ Band(victim[t]) # t => hRBMutex = t
        /\ \A u \in Threads : victim[u] = victim[t] => u = t
        /\ hRBMutex # t /\ op[t] # NULL => victim[t] \notin bDirty
        /\ pc[t] # "write" /\ victim[t] \in bDirty => FlushesCache(t) /\ failed[t]

\* A failure is kept until it is reported or left with the band.
Failures ==
    \A t \in Threads :
        /\ failed[t] => FlushesCache(t) \/ (pc[t] = "delete" /\ hRBMutex = t)
        /\ pc[t] = "reread" => FlushesCache(t) \/ hRBMutex = t

\* The owner is at its block.
InUse(b) == LET t == Band(b) IN
    /\ op[t] # NULL /\ op[t].block = b
    /\ pc[t] \in {"adopt", "load", "use", "release"} \/ hRBMutex = t

IsEvicted(b) == \E u \in Threads : victim[u] = b

\* Who has locked a block.
CountsAreLocks ==
    \A b \in Blocks :
        /\ InUse(b) => /\ ~ IsEvicted(b)
                       /\ nLockCount[b] = IF hRBMutex = Band(b) THEN 2 ELSE 1
        /\ ~ InUse(b) => nLockCount[b] = IF IsEvicted(b) THEN 1 ELSE 0

\* What has memory is with its band, with its owner or with a thread that
\* evicts it.
MemoryIsKnown ==
    \A b \in Blocks :
        /\ b \in exists => b \in papoBlocks \/ InUse(b) \/ IsEvicted(b)
        /\ InUse(b) => b \in exists

\* The owner has yet to fill the block.
Pending(b) == LET t == Band(b) IN
    /\ op[t] # NULL /\ op[t].block = b
    /\ pc[t] \in {"load", "dropFailed"} \/ (pc[t] = "use" /\ op[t].use \in JustInitialized)

PresentIsFresh == \A b \in papoBlocks : Pending(b) \/ b \in fresh \/ b \notin diskFresh

FreshIsSafe ==
    \A b \in fresh \ dropped :
        b \in diskFresh \/ b \in bDirty \/ \E u \in Threads : victim[u] = b /\ (failed[u] \/ pc[u] = "reread")

LossIsKnown ==
    \A b \in Blocks \ dropped : LET t == Band(b) IN
        b \in diskFresh \/ b \in fresh \/ t \in eFlushBlockErr \/ (FlushesCache(t) /\ failed[t])

LockInvariant == Shapes /\ Stages /\ Victims /\ Failures /\ CountsAreLocks /\ MemoryIsKnown
DataInvariant == PresentIsFresh /\ FreshIsSafe /\ LossIsKnown

-----------------------------------------------------------------------------
LEMMA Facts ==
    /\ NULL \notin Threads /\ NULL \notin Blocks /\ NULL \notin Operations
    /\ \A b \in Blocks : Band(b) \in Threads
    /\ \A x \in Operations : x.block \in Blocks /\ x.use \in Uses
    /\ \A u \in Threads, o \in Offsets : <<u, o>> \in Blocks /\ Band(<<u, o>>) = u
    /\ \A b \in Blocks, use \in Uses :
          LET x == [block |-> b, use |-> use] IN x \in Operations /\ x.block = b /\ x.use = use
BY CacheAssumption DEF Blocks, Operations, Band

LEMMA BeginLocks ==
    ASSUME LockInvariant, NEW t \in Threads, Begin(t)
    PROVE  LockInvariant'
<1>1. Shapes'
  BY Facts DEF LockInvariant, Shapes, Stages, MemoryIsKnown, PCs, Begin, Goto
<1>2. Stages'
  BY Facts DEF LockInvariant, Shapes, Stages, Victims, Working, Begin, Goto
<1>3. Victims'
  BY Facts DEF LockInvariant, Shapes, Stages, Victims, Failures, CountsAreLocks, FlushesCache, Begin, Goto
<1>4. Failures'
  BY Facts DEF LockInvariant, Shapes, Stages, Failures, FlushesCache, Begin, Goto
<1>5. CountsAreLocks'
  BY Facts DEF LockInvariant, Shapes, Stages, Victims, CountsAreLocks, InUse, IsEvicted, Begin, Goto
<1>6. MemoryIsKnown'
  BY Facts DEF LockInvariant, Shapes, Stages, Victims, CountsAreLocks, MemoryIsKnown, InUse, IsEvicted, Begin, Goto
<1> QED BY <1>1, <1>2, <1>3, <1>4, <1>5, <1>6 DEF LockInvariant

LEMMA ReportBeforeWriteLocks ==
    ASSUME LockInvariant, NEW t \in Threads, ReportBeforeWrite(t)
    PROVE  LockInvariant'
<1>1. Shapes'
  BY Facts DEF LockInvariant, Shapes, Stages, MemoryIsKnown, PCs, ReportBeforeWrite, Report, Forgive, Goto
<1>2. Stages'
  BY Facts DEF LockInvariant, Shapes, Stages, Victims, Working, ReportBeforeWrite, Report, Forgive, Goto
<1>3. Victims'
  BY Facts DEF LockInvariant, Shapes, Stages, Victims, Failures, CountsAreLocks, FlushesCache, ReportBeforeWrite, Report, Forgive, Goto
<1>4. Failures'
  BY Facts DEF LockInvariant, Shapes, Stages, Failures, FlushesCache, ReportBeforeWrite, Report, Forgive, Goto
<1>5. CountsAreLocks'
  BY Facts DEF LockInvariant, Shapes, Stages, Victims, CountsAreLocks, InUse, IsEvicted, ReportBeforeWrite, Report, Forgive, Goto
<1>6. MemoryIsKnown'
  BY Facts DEF LockInvariant, Shapes, Stages, Victims, CountsAreLocks, MemoryIsKnown, InUse, IsEvicted, ReportBeforeWrite, Report, Forgive, Goto
<1> QED BY <1>1, <1>2, <1>3, <1>4, <1>5, <1>6 DEF LockInvariant

LEMMA TryGetLocks ==
    ASSUME LockInvariant, NEW t \in Threads, TryGet(t)
    PROVE  LockInvariant'
<1>P. PICK b \in Blocks : op[t].block = b
  BY Facts DEF LockInvariant, Shapes, Stages, Working, TryGet
<1>0. /\ op[t] # NULL /\ op[t].block = b /\ b \in Blocks /\ Band(b) = t /\ op[t] \in Operations
      /\ op \in [Threads -> {NULL} \cup Operations] /\ pc \in [Threads -> PCs]
      /\ nLockCount \in [Blocks -> Int] /\ hRBMutex \in Threads \cup {NULL}
      /\ victim \in [Threads -> {NULL} \cup Blocks] /\ failed \in [Threads -> BOOLEAN]
  BY <1>P, Facts DEF LockInvariant, Shapes, Stages, Working, TryGet
<1>1. Shapes'
  BY Facts DEF LockInvariant, Shapes, Stages, MemoryIsKnown, PCs, TryGet, Goto, MutexFree
<1>2. Stages'
  BY Facts DEF LockInvariant, Shapes, Stages, Victims, Working, TryGet, Goto, MutexFree
<1>3. Victims'
  BY Facts DEF LockInvariant, Shapes, Stages, Victims, Failures, CountsAreLocks, FlushesCache, TryGet, Goto, MutexFree
<1>4. Failures'
  BY Facts DEF LockInvariant, Shapes, Stages, Failures, FlushesCache, TryGet, Goto, MutexFree
<1>5. CountsAreLocks'
  <2>1. CASE b \in papoBlocks
    <3>1. /\ nLockCount' = [nLockCount EXCEPT ![b] = @ + 1] /\ pc' = [pc EXCEPT ![t] = "use"]
          /\ UNCHANGED <<op, hRBMutex, victim>> /\ pc[t] = "tryGet"
      BY <1>0, <2>1 DEF TryGet, Goto
    <3>2. ~ InUse(b) /\ ~ IsEvicted(b) /\ InUse(b)'
      BY <1>0, <2>1, <3>1, Facts DEF LockInvariant, Stages, Victims, InUse, IsEvicted
    <3>3. hRBMutex # t
      BY <3>1, <1>0 DEF LockInvariant, Stages
    <3>4. \A c \in Blocks \ {b} : /\ InUse(c)' <=> InUse(c)
                                  /\ nLockCount'[c] = nLockCount[c]
      BY <1>0, <3>1, Facts DEF InUse
    <3>5. \A c \in Blocks : IsEvicted(c)' <=> IsEvicted(c)
      BY <3>1 DEF IsEvicted
    <3>6. nLockCount'[b] = nLockCount[b] + 1
      BY <1>0, <3>1
    <3> QED BY <1>0, <3>1, <3>2, <3>3, <3>4, <3>5, <3>6 DEF LockInvariant, CountsAreLocks
  <2>2. CASE b \notin papoBlocks
    <3>1. pc' = [pc EXCEPT ![t] = "create"] /\ UNCHANGED <<op, hRBMutex, victim, nLockCount>> /\ pc[t] = "tryGet"
      BY <1>0, <2>2 DEF TryGet, Goto
    <3>2. \A c \in Blocks : (InUse(c)' <=> InUse(c)) /\ (IsEvicted(c)' <=> IsEvicted(c))
      BY <1>0, <3>1, Facts DEF InUse, IsEvicted
    <3> QED BY <3>1, <3>2 DEF LockInvariant, CountsAreLocks
  <2> QED BY <2>1, <2>2
<1>6. MemoryIsKnown'
  BY Facts DEF LockInvariant, Shapes, Stages, Victims, CountsAreLocks, MemoryIsKnown, InUse, IsEvicted, TryGet, Goto, MutexFree
<1> QED BY <1>1, <1>2, <1>3, <1>4, <1>5, <1>6 DEF LockInvariant

LEMMA InternalizeLocks ==
    ASSUME LockInvariant, NEW t \in Threads, Internalize(t)
    PROVE  LockInvariant'
<1>P. PICK b \in Blocks : op[t].block = b
  BY Facts DEF LockInvariant, Shapes, Stages, Working, Internalize
<1>0. /\ op[t] # NULL /\ op[t].block = b /\ b \in Blocks /\ Band(b) = t /\ op[t] \in Operations
      /\ op \in [Threads -> {NULL} \cup Operations] /\ pc \in [Threads -> PCs]
      /\ nLockCount \in [Blocks -> Int] /\ hRBMutex \in Threads \cup {NULL}
      /\ victim \in [Threads -> {NULL} \cup Blocks] /\ failed \in [Threads -> BOOLEAN]
  BY <1>P, Facts DEF LockInvariant, Shapes, Stages, Working, Internalize
<1>A. /\ pc[t] = "create" /\ hRBMutex = NULL /\ b \notin papoBlocks
      /\ ~ InUse(b) /\ ~ IsEvicted(b) /\ b \notin exists
  <2>1. pc[t] = "create" /\ hRBMutex = NULL /\ b \notin papoBlocks
    BY <1>0 DEF Internalize, MutexFree, LockInvariant, Stages
  <2>2. ~ InUse(b)
    BY <1>0, <2>1, Facts DEF InUse
  <2>3. ~ IsEvicted(b)
    BY <1>0, <2>1, Facts DEF IsEvicted, LockInvariant, Stages, Victims
  <2> QED BY <1>0, <2>1, <2>2, <2>3 DEF LockInvariant, MemoryIsKnown
<1>B. UNCHANGED <<papoBlocks, diskFresh, eFlushBlockErr, victim, failed>>
  BY DEF Internalize
<1>C. \/ /\ exists' = exists \cup {b} /\ nLockCount' = [nLockCount EXCEPT ![b] = 2]
         /\ bDirty' = bDirty \ {b} /\ fresh' = fresh \ {b} /\ hRBMutex' = t
         /\ pc' = [pc EXCEPT ![t] = "evict"] /\ op' = op
      \/ /\ pc' = [pc EXCEPT ![t] = "idle"] /\ op' = [op EXCEPT ![t] = NULL]
         /\ UNCHANGED <<exists, nLockCount, bDirty, fresh, hRBMutex>>
  BY <1>0 DEF Internalize, Goto
<1>1. Shapes'
  <2>1. pc' \in [Threads -> PCs] /\ op' \in [Threads -> {NULL} \cup Operations]
    BY <1>0, <1>C DEF PCs
  <2>2. nLockCount' \in [Blocks -> Int] /\ hRBMutex' \in Threads \cup {NULL}
    BY <1>0, <1>C
  <2> QED BY <1>0, <1>B, <1>C, <2>1, <2>2 DEF LockInvariant, Shapes
<1>2. Stages'
  BY Facts DEF LockInvariant, Shapes, Stages, Victims, Working, Internalize, Goto, MutexFree
<1>3. Victims'
  BY Facts DEF LockInvariant, Shapes, Stages, Victims, Failures, CountsAreLocks, FlushesCache, Internalize, Goto, MutexFree
<1>4. Failures'
  <2>0. ASSUME NEW u \in Threads, pc'[u] = "reread" PROVE FlushesCache(u)' \/ hRBMutex' = u
    <3>1. u # t /\ pc'[u] = pc[u] /\ op'[u] = op[u] /\ (hRBMutex = u => hRBMutex' = u)
      BY <1>0, <1>A, <1>C, <2>0, Facts
    <3> QED BY <2>0, <3>1 DEF LockInvariant, Failures, FlushesCache
  <2> SUFFICES ASSUME NEW u \in Threads, failed[u]
               PROVE  FlushesCache(u)' \/ (pc'[u] = "delete" /\ hRBMutex' = u)
    BY <1>B, <2>0 DEF Failures
  <2>1. FlushesCache(u) \/ (pc[u] = "delete" /\ hRBMutex = u)
    BY DEF LockInvariant, Failures
  <2>2. u # t
    BY <1>0, <1>A, <2>1 DEF FlushesCache
  <2>3. pc'[u] = pc[u] /\ op'[u] = op[u] /\ hRBMutex # u
    BY <1>0, <1>A, <1>C, <2>2, Facts
  <2> QED BY <2>1, <2>3 DEF FlushesCache
<1>5. CountsAreLocks'
  <2>1. \A c \in Blocks : IsEvicted(c)' <=> IsEvicted(c)
    BY <1>B DEF IsEvicted
  <2>2. \A c \in Blocks \ {b} : InUse(c)' <=> InUse(c)
    BY <1>0, <1>A, <1>C, Facts DEF InUse
  <2>3. \A c \in Blocks \ {b} : nLockCount'[c] = nLockCount[c]
    BY <1>0, <1>C
  <2>4. ASSUME NEW c \in Blocks \ {b}, InUse(c) PROVE hRBMutex # Band(c) /\ hRBMutex' # Band(c)
    BY <1>0, <1>A, <1>C, <2>4, Facts DEF InUse
  <2>5. ASSUME InUse(b)' PROVE hRBMutex' = t /\ nLockCount'[b] = 2
    BY <1>0, <1>A, <1>C, <2>5, Facts DEF InUse
  <2>6. ASSUME ~ InUse(b)' PROVE nLockCount'[b] = nLockCount[b]
    BY <1>0, <1>A, <1>C, <2>6, Facts DEF InUse
  <2> QED BY <1>0, <1>A, <2>1, <2>2, <2>3, <2>4, <2>5, <2>6 DEF LockInvariant, CountsAreLocks
<1>6. MemoryIsKnown'
  <2>1. \A c \in Blocks : IsEvicted(c)' <=> IsEvicted(c)
    BY <1>B DEF IsEvicted
  <2>2. \A c \in Blocks \ {b} : (InUse(c)' <=> InUse(c)) /\ (c \in exists' <=> c \in exists)
    BY <1>0, <1>A, <1>C, Facts DEF InUse
  <2>3. InUse(b)' <=> b \in exists'
    BY <1>0, <1>A, <1>C, Facts DEF InUse
  <2> QED BY <1>B, <2>1, <2>2, <2>3 DEF LockInvariant, MemoryIsKnown
<1> QED BY <1>1, <1>2, <1>3, <1>4, <1>5, <1>6 DEF LockInvariant

LEMMA PickVictimLocks ==
    ASSUME LockInvariant, NEW t \in Threads, PickVictim(t)
    PROVE  LockInvariant'
<1>A. PICK v \in Blocks :
         /\ nLockCount[v] = 0
         /\ victim' = [victim EXCEPT ![t] = v]
         /\ nLockCount' = [nLockCount EXCEPT ![v] = @ + 1]
         /\ papoBlocks' = papoBlocks \ {v}
  BY DEF PickVictim, OldestUnlocked
<1>B. /\ pc[t] = "evict" /\ pc' = [pc EXCEPT ![t] = "write"]
      /\ UNCHANGED <<hRBMutex, exists, bDirty, fresh, diskFresh, eFlushBlockErr, op, failed>>
  BY DEF PickVictim, Goto
<1>C. /\ hRBMutex = t /\ victim[t] = NULL /\ ~ InUse(v) /\ ~ IsEvicted(v)
      /\ pc \in [Threads -> PCs] /\ victim \in [Threads -> {NULL} \cup Blocks]
      /\ op \in [Threads -> {NULL} \cup Operations] /\ nLockCount \in [Blocks -> Int]
  BY <1>A, <1>B DEF LockInvariant, Shapes, Stages, CountsAreLocks
<1>D. /\ \A u \in Threads \ {t} : pc'[u] = pc[u] /\ victim'[u] = victim[u]
      /\ pc'[t] = "write" /\ victim'[t] = v /\ v # NULL
  BY <1>A, <1>B, <1>C, Facts
<1>E. /\ \A c \in Blocks \ {v} : IsEvicted(c)' <=> IsEvicted(c)
      /\ \A c \in Blocks : InUse(c)' <=> InUse(c)
      /\ IsEvicted(v)'
  <2>1. \A c \in Blocks \ {v} : IsEvicted(c)' <=> IsEvicted(c)
    BY <1>C, <1>D, Facts DEF IsEvicted
  <2>2. \A c \in Blocks : InUse(c)' <=> InUse(c)
    BY <1>B, <1>C, <1>D, Facts DEF InUse
  <2> QED BY <1>D, <2>1, <2>2 DEF IsEvicted
<1>1. Shapes'
  BY <1>A, <1>B, <1>C DEF LockInvariant, Shapes, PCs
<1>2. Stages'
  <2>1. \A c : c = v => c \notin papoBlocks'
    BY <1>A
  <2>2. \A u \in Threads : pc[u] \in {"load", "use", "release"} => op[u].block # v
    BY <1>C, Facts DEF LockInvariant, Stages, Working, Shapes, InUse
  <2> SUFFICES ASSUME NEW u \in Threads
               PROVE  /\ pc'[u] \in {"idle", "flush", "flushReport"} => op'[u] = NULL
                      /\ pc'[u] \in Working => op'[u] # NULL
                      /\ op'[u] # NULL => Band(op'[u].block) = u
                      /\ victim'[u] # NULL <=> pc'[u] \in {"write", "reread", "delete"}
                      /\ pc'[u] = "evict" => hRBMutex' = u
                      /\ hRBMutex' = u => op'[u] # NULL /\ pc'[u] \in {"evict", "write", "reread", "delete"}
                      /\ pc'[u] = "create" => op'[u].block \notin papoBlocks'
                      /\ pc'[u] \in {"load", "use", "release"} => op'[u].block \in papoBlocks'
                      /\ pc'[u] \in {"adopt", "load", "dropFailed"} \/ hRBMutex' = u => op'[u].block \notin bDirty'
    BY DEF Stages
  <2>3. CASE u = t
    BY <1>B, <1>C, <1>D, <2>3 DEF LockInvariant, Stages, Working
  <2>4. CASE u # t
    BY <1>A, <1>B, <1>C, <1>D, <2>2, <2>4 DEF LockInvariant, Stages, Working
  <2> QED BY <2>3, <2>4
<1>3. Victims'
  <2>1. \A u \in Threads \ {t} : victim[u] # v
    BY <1>C DEF IsEvicted
  <2>2. failed' = failed /\ \A u \in Threads : FlushesCache(u)' <=> FlushesCache(u)
    BY <1>B, <1>C, <1>D DEF FlushesCache
  <2> SUFFICES ASSUME NEW u \in Threads, victim'[u] # NULL
               PROVE  /\ victim'[u] \notin papoBlocks'
                      /\ Band(victim'[u]) # u => hRBMutex' = u
                      /\ \A w \in Threads : victim'[w] = victim'[u] => w = u
                      /\ hRBMutex' # u /\ op'[u] # NULL => victim'[u] \notin bDirty'
                      /\ pc'[u] # "write" /\ victim'[u] \in bDirty' => FlushesCache(u)' /\ failed'[u]
    BY DEF Victims
  <2>3. CASE u = t
    BY <1>A, <1>B, <1>C, <1>D, <2>1, <2>3
  <2>4. CASE u # t
    <3>1. \A w \in Threads : victim'[w] = victim'[u] => w = u
      BY <1>C, <1>D, <2>1, <2>4 DEF LockInvariant, Victims
    <3> QED BY <1>A, <1>B, <1>C, <1>D, <2>2, <2>4, <3>1 DEF LockInvariant, Victims
  <2> QED BY <2>3, <2>4
<1>4. Failures'
  BY <1>B, <1>C, <1>D DEF LockInvariant, Failures, FlushesCache
<1>5. CountsAreLocks'
  <2>1. nLockCount'[v] = 1 /\ \A c \in Blocks \ {v} : nLockCount'[c] = nLockCount[c]
    BY <1>A, <1>C
  <2> QED BY <1>A, <1>B, <1>C, <1>E, <2>1 DEF LockInvariant, CountsAreLocks
<1>6. MemoryIsKnown'
  BY <1>A, <1>B, <1>E DEF LockInvariant, MemoryIsKnown
<1> QED BY <1>1, <1>2, <1>3, <1>4, <1>5, <1>6 DEF LockInvariant

LEMMA EndInternalizeLocks ==
    ASSUME LockInvariant, NEW t \in Threads, EndInternalize(t)
    PROVE  LockInvariant'
<1>P. PICK b \in Blocks : op[t].block = b
  BY Facts DEF LockInvariant, Shapes, Stages, Working, EndInternalize
<1>0. /\ op[t] # NULL /\ op[t].block = b /\ b \in Blocks /\ Band(b) = t /\ op[t] \in Operations
      /\ op \in [Threads -> {NULL} \cup Operations] /\ pc \in [Threads -> PCs]
      /\ nLockCount \in [Blocks -> Int] /\ hRBMutex \in Threads \cup {NULL}
      /\ victim \in [Threads -> {NULL} \cup Blocks] /\ failed \in [Threads -> BOOLEAN]
  BY <1>P, Facts DEF LockInvariant, Shapes, Stages, Working, EndInternalize
<1>A. /\ pc[t] = "evict" /\ hRBMutex = t /\ hRBMutex' = NULL
      /\ nLockCount' = [nLockCount EXCEPT ![b] = @ - 1] /\ pc' = [pc EXCEPT ![t] = "adopt"]
      /\ UNCHANGED <<exists, papoBlocks, bDirty, fresh, diskFresh, eFlushBlockErr, op, victim, failed>>
  BY <1>0 DEF EndInternalize, Goto, LockInvariant, Stages
<1>1. Shapes'
  BY Facts DEF LockInvariant, Shapes, Stages, MemoryIsKnown, PCs, EndInternalize, Goto
<1>2. Stages'
  BY <1>0, <1>A, Facts DEF LockInvariant, Stages, Working
<1>3. Victims'
  BY Facts DEF LockInvariant, Shapes, Stages, Victims, Failures, CountsAreLocks, FlushesCache, EndInternalize, Goto
<1>4. Failures'
  BY Facts DEF LockInvariant, Shapes, Stages, Failures, FlushesCache, EndInternalize, Goto
<1>5. CountsAreLocks'
  BY Facts DEF LockInvariant, Shapes, Stages, Victims, CountsAreLocks, InUse, IsEvicted, EndInternalize, Goto
<1>6. MemoryIsKnown'
  BY Facts DEF LockInvariant, Shapes, Stages, Victims, CountsAreLocks, MemoryIsKnown, InUse, IsEvicted, EndInternalize, Goto
<1> QED BY <1>1, <1>2, <1>3, <1>4, <1>5, <1>6 DEF LockInvariant

LEMMA AdoptBlockLocks ==
    ASSUME LockInvariant, NEW t \in Threads, AdoptBlock(t)
    PROVE  LockInvariant'
<1>P. PICK b \in Blocks : op[t].block = b
  BY Facts DEF LockInvariant, Shapes, Stages, Working, AdoptBlock
<1>0. /\ op[t] # NULL /\ op[t].block = b /\ b \in Blocks /\ Band(b) = t /\ op[t] \in Operations
      /\ op \in [Threads -> {NULL} \cup Operations] /\ pc \in [Threads -> PCs]
      /\ nLockCount \in [Blocks -> Int] /\ hRBMutex \in Threads \cup {NULL}
      /\ victim \in [Threads -> {NULL} \cup Blocks] /\ failed \in [Threads -> BOOLEAN]
  BY <1>P, Facts DEF LockInvariant, Shapes, Stages, Working, AdoptBlock
<1>A. /\ pc[t] = "adopt" /\ papoBlocks' = papoBlocks \cup {b}
      /\ pc' = [pc EXCEPT ![t] = IF op[t].use \in JustInitialized THEN "use" ELSE "load"]
      /\ UNCHANGED <<hRBMutex, exists, nLockCount, bDirty, fresh, diskFresh, eFlushBlockErr, op, victim, failed>>
  BY <1>0 DEF AdoptBlock, Goto
<1>B. InUse(b) /\ ~ IsEvicted(b) /\ b \in exists
  BY <1>0, <1>A DEF InUse, LockInvariant, CountsAreLocks, MemoryIsKnown
<1>1. Shapes'
  BY <1>0, <1>A, <1>B DEF LockInvariant, Shapes, PCs
<1>2. Stages'
  BY Facts DEF LockInvariant, Shapes, Stages, Victims, Working, AdoptBlock, Goto, MutexFree
<1>3. Victims'
  <2>1. \A u \in Threads : victim[u] # b
    BY <1>B DEF IsEvicted
  <2>2. \A u \in Threads : victim[u] # NULL =>
           /\ u # t /\ pc'[u] = pc[u]
           /\ FlushesCache(u)' <=> FlushesCache(u)
    BY <1>0, <1>A DEF LockInvariant, Stages, FlushesCache
  <2> QED BY <1>A, <2>1, <2>2 DEF LockInvariant, Victims
<1>4. Failures'
  BY Facts DEF LockInvariant, Shapes, Stages, Failures, FlushesCache, AdoptBlock, Goto, MutexFree
<1>5. CountsAreLocks'
  BY Facts DEF LockInvariant, Shapes, Stages, Victims, CountsAreLocks, InUse, IsEvicted, AdoptBlock, Goto, MutexFree
<1>6. MemoryIsKnown'
  BY Facts DEF LockInvariant, Shapes, Stages, Victims, CountsAreLocks, MemoryIsKnown, InUse, IsEvicted, AdoptBlock, Goto, MutexFree
<1> QED BY <1>1, <1>2, <1>3, <1>4, <1>5, <1>6 DEF LockInvariant

LEMMA LoadLocks ==
    ASSUME LockInvariant, NEW t \in Threads, Load(t)
    PROVE  LockInvariant'
<1>P. PICK b \in Blocks : op[t].block = b
  BY Facts DEF LockInvariant, Shapes, Stages, Working, Load
<1>0. /\ op[t] # NULL /\ op[t].block = b /\ b \in Blocks /\ Band(b) = t /\ op[t] \in Operations
      /\ op \in [Threads -> {NULL} \cup Operations] /\ pc \in [Threads -> PCs]
      /\ nLockCount \in [Blocks -> Int] /\ hRBMutex \in Threads \cup {NULL}
      /\ victim \in [Threads -> {NULL} \cup Blocks] /\ failed \in [Threads -> BOOLEAN]
  BY <1>P, Facts DEF LockInvariant, Shapes, Stages, Working, Load
<1>A. /\ pc[t] = "load"
      /\ UNCHANGED <<hRBMutex, exists, papoBlocks, bDirty, diskFresh, eFlushBlockErr, op, victim, failed>>
      /\ \/ pc' = [pc EXCEPT ![t] = "use"] /\ nLockCount' = nLockCount
         \/ /\ pc' = [pc EXCEPT ![t] = "dropFailed"]
            /\ nLockCount' = [nLockCount EXCEPT ![b] = @ - 1]
  BY <1>0 DEF Load, Goto
<1>1. Shapes'
  BY Facts DEF LockInvariant, Shapes, Stages, MemoryIsKnown, PCs, Load, Goto
<1>2. Stages'
  BY Facts DEF LockInvariant, Shapes, Stages, Victims, Working, Load, Goto
<1>3. Victims'
  BY Facts DEF LockInvariant, Shapes, Stages, Victims, Failures, CountsAreLocks, FlushesCache, Load, Goto
<1>4. Failures'
  BY Facts DEF LockInvariant, Shapes, Stages, Failures, FlushesCache, Load, Goto
<1>5. CountsAreLocks'
  <2>1. \A c \in Blocks : IsEvicted(c)' <=> IsEvicted(c)
    BY <1>A DEF IsEvicted
  <2>2. \A c \in Blocks \ {b} : (InUse(c)' <=> InUse(c)) /\ nLockCount'[c] = nLockCount[c]
    BY <1>0, <1>A, Facts DEF InUse
  <2>3. InUse(b) /\ hRBMutex # t
    BY <1>0, <1>A DEF InUse, LockInvariant, Stages
  <2>4. ~ IsEvicted(b) /\ nLockCount[b] = 1
    BY <1>0, <2>3 DEF LockInvariant, CountsAreLocks
  <2>5. CASE pc' = [pc EXCEPT ![t] = "use"]
    <3>1. InUse(b)' /\ nLockCount' = nLockCount
      BY <1>0, <1>A, <2>5 DEF InUse
    <3> QED BY <1>0, <1>A, <2>1, <2>2, <2>3, <2>4, <3>1 DEF LockInvariant, CountsAreLocks
  <2>6. CASE pc' = [pc EXCEPT ![t] = "dropFailed"]
    <3>1. ~ InUse(b)' /\ nLockCount'[b] = 0
      BY <1>0, <1>A, <2>3, <2>4, <2>6 DEF InUse
    <3> QED BY <1>0, <1>A, <2>1, <2>2, <2>4, <3>1 DEF LockInvariant, CountsAreLocks
  <2> QED BY <1>A, <2>5, <2>6
<1>6. MemoryIsKnown'
  BY Facts DEF LockInvariant, Shapes, Stages, Victims, CountsAreLocks, MemoryIsKnown, InUse, IsEvicted, Load, Goto
<1> QED BY <1>1, <1>2, <1>3, <1>4, <1>5, <1>6 DEF LockInvariant

LEMMA UseBlockLocks ==
    ASSUME LockInvariant, NEW t \in Threads, UseBlock(t)
    PROVE  LockInvariant'
<1>1. Shapes'
  BY Facts DEF LockInvariant, Shapes, Stages, MemoryIsKnown, PCs, UseBlock, Written, Goto
<1>2. Stages'
  BY Facts DEF LockInvariant, Shapes, Stages, Victims, Working, UseBlock, Goto
<1>3. Victims'
  BY Facts DEF LockInvariant, Shapes, Stages, Victims, Failures, CountsAreLocks, FlushesCache, UseBlock, Goto
<1>4. Failures'
  BY Facts DEF LockInvariant, Shapes, Stages, Failures, FlushesCache, UseBlock, Goto
<1>5. CountsAreLocks'
  BY Facts DEF LockInvariant, Shapes, Stages, Victims, CountsAreLocks, InUse, IsEvicted, UseBlock, Goto
<1>6. MemoryIsKnown'
  BY Facts DEF LockInvariant, Shapes, Stages, Victims, CountsAreLocks, MemoryIsKnown, InUse, IsEvicted, UseBlock, Goto
<1> QED BY <1>1, <1>2, <1>3, <1>4, <1>5, <1>6 DEF LockInvariant

LEMMA DropLockLocks ==
    ASSUME LockInvariant, NEW t \in Threads, DropLock(t)
    PROVE  LockInvariant'
<1>P. PICK b \in Blocks : op[t].block = b
  BY Facts DEF LockInvariant, Shapes, Stages, Working, DropLock
<1>0. /\ op[t] # NULL /\ op[t].block = b /\ b \in Blocks /\ Band(b) = t /\ op[t] \in Operations
      /\ op \in [Threads -> {NULL} \cup Operations] /\ pc \in [Threads -> PCs]
      /\ nLockCount \in [Blocks -> Int] /\ hRBMutex \in Threads \cup {NULL}
      /\ victim \in [Threads -> {NULL} \cup Blocks] /\ failed \in [Threads -> BOOLEAN]
  BY <1>P, Facts DEF LockInvariant, Shapes, Stages, Working, DropLock
<1>A. /\ pc[t] = "release" /\ hRBMutex # t
      /\ nLockCount' = [nLockCount EXCEPT ![b] = @ - 1]
      /\ op' = [op EXCEPT ![t] = NULL] /\ pc' = [pc EXCEPT ![t] = "idle"]
      /\ UNCHANGED <<hRBMutex, exists, papoBlocks, bDirty, fresh, diskFresh, eFlushBlockErr, victim, failed>>
  BY <1>0 DEF DropLock, Goto, LockInvariant, Stages
<1>1. Shapes'
  BY Facts DEF LockInvariant, Shapes, Stages, MemoryIsKnown, PCs, DropLock, Goto
<1>2. Stages'
  BY Facts DEF LockInvariant, Shapes, Stages, Victims, Working, DropLock, Goto
<1>3. Victims'
  BY Facts DEF LockInvariant, Shapes, Stages, Victims, Failures, CountsAreLocks, FlushesCache, DropLock, Goto
<1>4. Failures'
  <2>0. ASSUME NEW u \in Threads, pc'[u] = "reread" PROVE FlushesCache(u)' \/ hRBMutex' = u
    <3>1. u # t /\ pc'[u] = pc[u] /\ op'[u] = op[u] /\ (hRBMutex = u => hRBMutex' = u)
      BY <1>0, <1>A, <2>0, Facts
    <3> QED BY <2>0, <3>1 DEF LockInvariant, Failures, FlushesCache
  <2> SUFFICES ASSUME NEW u \in Threads, failed[u]
               PROVE  FlushesCache(u)' \/ (pc'[u] = "delete" /\ hRBMutex' = u)
    BY <1>A, <2>0 DEF Failures
  <2>1. FlushesCache(u) \/ (pc[u] = "delete" /\ hRBMutex = u)
    BY DEF LockInvariant, Failures
  <2>2. u # t
    BY <1>0, <1>A, <2>1 DEF FlushesCache
  <2> QED BY <1>0, <1>A, <2>1, <2>2 DEF FlushesCache
<1>5. CountsAreLocks'
  <2>1. \A c \in Blocks : IsEvicted(c)' <=> IsEvicted(c)
    BY <1>A DEF IsEvicted
  <2>2. \A c \in Blocks \ {b} : (InUse(c)' <=> InUse(c)) /\ nLockCount'[c] = nLockCount[c]
    BY <1>0, <1>A, Facts DEF InUse
  <2>3. InUse(b)
    BY <1>0, <1>A DEF InUse
  <2>4. ~ IsEvicted(b) /\ nLockCount[b] = 1
    BY <1>0, <1>A, <2>3 DEF LockInvariant, CountsAreLocks
  <2>5. ~ InUse(b)' /\ nLockCount'[b] = 0
    BY <1>0, <1>A, <2>4 DEF InUse
  <2> QED BY <2>1, <2>2, <2>4, <2>5, <1>A DEF LockInvariant, CountsAreLocks
<1>6. MemoryIsKnown'
  BY Facts DEF LockInvariant, Shapes, Stages, Victims, CountsAreLocks, MemoryIsKnown, InUse, IsEvicted, DropLock, Goto
<1> QED BY <1>1, <1>2, <1>3, <1>4, <1>5, <1>6 DEF LockInvariant

LEMMA DropFailedLocks ==
    ASSUME LockInvariant, NEW t \in Threads, DropFailed(t)
    PROVE  LockInvariant'
<1>P. PICK b \in Blocks : op[t].block = b
  BY Facts DEF LockInvariant, Shapes, Stages, Working, DropFailed, TakeOut
<1>0. /\ op[t] # NULL /\ op[t].block = b /\ b \in Blocks /\ Band(b) = t /\ op[t] \in Operations
      /\ op \in [Threads -> {NULL} \cup Operations] /\ pc \in [Threads -> PCs]
      /\ nLockCount \in [Blocks -> Int] /\ hRBMutex \in Threads \cup {NULL}
      /\ victim \in [Threads -> {NULL} \cup Blocks] /\ failed \in [Threads -> BOOLEAN]
  BY <1>P, Facts DEF LockInvariant, Shapes, Stages, Working, DropFailed, TakeOut
<1>A. /\ pc[t] = "dropFailed" /\ hRBMutex \in {NULL, t} /\ hRBMutex # t
      /\ ~ InUse(b) /\ b \notin bDirty /\ victim[t] = NULL
      /\ UNCHANGED <<hRBMutex, exists, bDirty, fresh, diskFresh, eFlushBlockErr, failed>>
  BY <1>0, Facts DEF DropFailed, TakeOut, MutexFree, LockInvariant, Stages, InUse
<1>B. \/ /\ b \in papoBlocks /\ ~ IsEvicted(b)
         /\ victim' = [victim EXCEPT ![t] = b] /\ nLockCount' = [nLockCount EXCEPT ![b] = @ + 1]
         /\ papoBlocks' = papoBlocks \ {b} /\ pc' = [pc EXCEPT ![t] = "write"] /\ op' = op
      \/ /\ b \notin papoBlocks /\ op' = [op EXCEPT ![t] = NULL] /\ pc' = [pc EXCEPT ![t] = "idle"]
         /\ UNCHANGED <<papoBlocks, nLockCount, victim>>
  BY <1>0, Facts DEF DropFailed, TakeOut, Goto, IsEvicted, LockInvariant, Victims
<1>C. \A u \in Threads \ {t} : /\ pc'[u] = pc[u] /\ op'[u] = op[u] /\ victim'[u] = victim[u]
                               /\ FlushesCache(u)' <=> FlushesCache(u)
  <2>1. \A u \in Threads \ {t} : pc'[u] = pc[u] /\ op'[u] = op[u] /\ victim'[u] = victim[u]
    BY <1>0, <1>B
  <2> QED BY <2>1 DEF FlushesCache
<1>1. Shapes'
  BY Facts DEF LockInvariant, Shapes, Stages, MemoryIsKnown, PCs, DropFailed, TakeOut, Goto, MutexFree
<1>2. Stages'
  BY Facts DEF LockInvariant, Shapes, Stages, Victims, Working, DropFailed, TakeOut, Goto, MutexFree
<1>3. Victims'
  <2>1. CASE victim' = [victim EXCEPT ![t] = b] /\ b \in papoBlocks /\ ~ IsEvicted(b)
    <3>1. \A u \in Threads \ {t} : victim[u] # b
      BY <2>1 DEF IsEvicted
    <3>2. /\ victim'[t] = b /\ pc'[t] = "write" /\ papoBlocks' = papoBlocks \ {b}
          /\ b # NULL
      BY <1>0, <1>B, <2>1, Facts
    <3> SUFFICES ASSUME NEW u \in Threads, victim'[u] # NULL
                 PROVE  /\ victim'[u] \notin papoBlocks'
                        /\ Band(victim'[u]) # u => hRBMutex' = u
                        /\ \A w \in Threads : victim'[w] = victim'[u] => w = u
                        /\ hRBMutex' # u /\ op'[u] # NULL => victim'[u] \notin bDirty'
                        /\ pc'[u] # "write" /\ victim'[u] \in bDirty' => FlushesCache(u)' /\ failed'[u]
      BY DEF Victims
    <3>3. CASE u = t
      BY <1>0, <1>A, <1>C, <3>1, <3>2, <3>3
    <3>4. CASE u # t
      <4>1. \A w \in Threads : victim'[w] = victim'[u] => w = u
        BY <1>C, <3>1, <3>2, <3>4 DEF LockInvariant, Victims
      <4> QED BY <1>A, <1>C, <3>2, <3>4, <4>1 DEF LockInvariant, Victims
    <3> QED BY <3>3, <3>4
  <2>2. CASE victim' = victim /\ papoBlocks' = papoBlocks
    <3>1. \A u \in Threads : victim[u] # NULL => u # t
      BY <1>A
    <3> QED BY <1>A, <1>C, <2>2, <3>1 DEF LockInvariant, Victims
  <2> QED BY <1>B, <2>1, <2>2
<1>4. Failures'
  <2>1. ~ failed[t] /\ pc'[t] # "reread"
    BY <1>0, <1>A, <1>B DEF LockInvariant, Failures, FlushesCache
  <2> QED BY <1>A, <1>C, <2>1 DEF LockInvariant, Failures
<1>5. CountsAreLocks'
  <2>1. \A c \in Blocks : InUse(c)' <=> InUse(c)
    BY <1>0, <1>A, <1>B, Facts DEF InUse
  <2>2. CASE victim' = [victim EXCEPT ![t] = b] /\ nLockCount' = [nLockCount EXCEPT ![b] = @ + 1] /\ ~ IsEvicted(b)
    <3>1. IsEvicted(b)' /\ \A c \in Blocks \ {b} : IsEvicted(c)' <=> IsEvicted(c)
      BY <1>0, <1>A, <2>2, Facts DEF IsEvicted
    <3>2. nLockCount'[b] = 1 /\ \A c \in Blocks \ {b} : nLockCount'[c] = nLockCount[c]
      BY <1>0, <1>A, <2>2 DEF LockInvariant, CountsAreLocks
    <3> QED BY <1>0, <1>A, <2>1, <3>1, <3>2 DEF LockInvariant, CountsAreLocks
  <2>3. CASE UNCHANGED <<nLockCount, victim>>
    <3>1. \A c \in Blocks : IsEvicted(c)' <=> IsEvicted(c)
      BY <2>3 DEF IsEvicted
    <3> QED BY <1>A, <2>1, <2>3, <3>1 DEF LockInvariant, CountsAreLocks
  <2> QED BY <1>B, <2>2, <2>3
<1>6. MemoryIsKnown'
  BY Facts DEF LockInvariant, Shapes, Stages, Victims, CountsAreLocks, MemoryIsKnown, InUse, IsEvicted, DropFailed, TakeOut, Goto, MutexFree
<1> QED BY <1>1, <1>2, <1>3, <1>4, <1>5, <1>6 DEF LockInvariant

LEMMA WriteVictimLocks ==
    ASSUME LockInvariant, NEW t \in Threads, WriteVictim(t)
    PROVE  LockInvariant'
<1>P. PICK b \in Blocks : victim[t] = b
  BY Facts DEF LockInvariant, Shapes, Stages, WriteVictim
<1>0. /\ victim[t] = b /\ b # NULL /\ pc[t] = "write"
      /\ pc \in [Threads -> PCs] /\ victim \in [Threads -> {NULL} \cup Blocks]
      /\ failed \in [Threads -> BOOLEAN]
      /\ UNCHANGED <<hRBMutex, exists, papoBlocks, nLockCount, fresh, eFlushBlockErr, op, victim>>
  BY <1>P, Facts DEF LockInvariant, Shapes, Stages, WriteVictim, Goto
<1>A. \/ /\ b \in bDirty /\ ~ (FlushesCache(t) /\ failed[t]) /\ bDirty' = bDirty \ {b}
         /\ Band(b) \notin eFlushBlockErr /\ failed' = failed /\ pc' = [pc EXCEPT ![t] = "delete"]
         /\ diskFresh' = IF b \in fresh THEN diskFresh \cup {b} ELSE diskFresh
      \/ /\ b \in bDirty /\ ~ (FlushesCache(t) /\ failed[t]) /\ bDirty' = bDirty \ {b}
         /\ failed' = [failed EXCEPT ![t] = TRUE] /\ diskFresh' = diskFresh /\ pc' = [pc EXCEPT ![t] = "delete"]
      \/ /\ b \in bDirty /\ ~ (FlushesCache(t) /\ failed[t]) /\ bDirty' = bDirty \ {b}
         /\ UNCHANGED <<failed, diskFresh>> /\ pc' = [pc EXCEPT ![t] = "reread"]
      \/ /\ ~ (b \in bDirty /\ ~ (FlushesCache(t) /\ failed[t]))
         /\ UNCHANGED <<bDirty, diskFresh, failed>> /\ pc' = [pc EXCEPT ![t] = "delete"]
  BY <1>0 DEF WriteVictim, Goto
<1>1. Shapes'
  <2>1. failed' \in [Threads -> BOOLEAN] /\ pc' \in [Threads -> PCs]
    BY <1>0, <1>A DEF PCs
  <2>2. bDirty' \subseteq bDirty /\ diskFresh' \subseteq diskFresh \cup {b}
    BY <1>A
  <2> QED BY <1>0, <2>1, <2>2 DEF LockInvariant, Shapes
<1>2. Stages'
  BY Facts DEF LockInvariant, Shapes, Stages, Victims, Working, WriteVictim, Goto
<1>3. Victims'
  BY Facts DEF LockInvariant, Shapes, Stages, Victims, Failures, CountsAreLocks, FlushesCache, WriteVictim, Goto
<1>4. Failures'
  <2>1. \A u \in Threads \ {t} : failed'[u] = failed[u] /\ pc'[u] = pc[u]
    BY <1>0, <1>A
  <2>2. pc'[t] = "delete" \/ (pc'[t] = "reread" /\ b \in bDirty /\ failed' = failed)
    BY <1>0, <1>A
  <2>3. \A u \in Threads : FlushesCache(u)' <=> FlushesCache(u)
    BY <1>0, <2>1, <2>2 DEF FlushesCache
  <2>4. failed'[t] \/ pc'[t] = "reread" => FlushesCache(t) \/ hRBMutex = t
    <3>1. CASE ~ FlushesCache(t) /\ hRBMutex # t
      <4>1. b \notin bDirty
        BY <1>0, <3>1 DEF LockInvariant, Victims, FlushesCache
      <4> QED BY <1>0, <1>A, <3>1, <4>1 DEF LockInvariant, Failures
    <3> QED BY <3>1
  <2>5. pc'[t] = "reread" /\ failed'[t] => FlushesCache(t)
    BY <1>0, <1>A DEF LockInvariant, Failures
  <2> QED BY <1>0, <2>1, <2>2, <2>3, <2>4, <2>5 DEF LockInvariant, Failures
<1>5. CountsAreLocks'
  BY Facts DEF LockInvariant, Shapes, Stages, Victims, CountsAreLocks, InUse, IsEvicted, WriteVictim, Goto
<1>6. MemoryIsKnown'
  BY Facts DEF LockInvariant, Shapes, Stages, Victims, CountsAreLocks, MemoryIsKnown, InUse, IsEvicted, WriteVictim, Goto
<1> QED BY <1>1, <1>2, <1>3, <1>4, <1>5, <1>6 DEF LockInvariant

LEMMA RereadErrorLocks ==
    ASSUME LockInvariant, NEW t \in Threads, RereadError(t)
    PROVE  LockInvariant'
<1>0. /\ pc[t] = "reread" /\ pc' = [pc EXCEPT ![t] = "delete"] /\ pc \in [Threads -> PCs]
      /\ failed \in [Threads -> BOOLEAN] /\ failed' \in [Threads -> BOOLEAN]
      /\ \A u \in Threads \ {t} : failed'[u] = failed[u]
      /\ UNCHANGED <<hRBMutex, exists, papoBlocks, nLockCount, bDirty, fresh, diskFresh, eFlushBlockErr, op, victim>>
  BY DEF LockInvariant, Shapes, RereadError, Goto
<1>A. \A u \in Threads : FlushesCache(u)' <=> FlushesCache(u)
  BY <1>0 DEF FlushesCache
<1>B. victim[t] # NULL /\ (FlushesCache(t) /\ failed[t] => failed'[t])
  BY DEF LockInvariant, Shapes, Stages, RereadError
<1>1. Shapes'
  BY <1>0 DEF LockInvariant, Shapes, PCs
<1>2. Stages'
  BY <1>0 DEF LockInvariant, Shapes, Stages, Working
<1>3. Victims'
  BY <1>0, <1>A, <1>B DEF LockInvariant, Victims
<1>4. Failures'
  BY <1>0, <1>A DEF LockInvariant, Failures
<1>5. CountsAreLocks'
  BY <1>0 DEF LockInvariant, CountsAreLocks, InUse, IsEvicted
<1>6. MemoryIsKnown'
  BY <1>0 DEF LockInvariant, MemoryIsKnown, InUse, IsEvicted
<1> QED BY <1>1, <1>2, <1>3, <1>4, <1>5, <1>6 DEF LockInvariant

LEMMA DeleteVictimLocks ==
    ASSUME LockInvariant, NEW t \in Threads, DeleteVictim(t)
    PROVE  LockInvariant'
<1>P. PICK b \in Blocks : victim[t] = b
  BY Facts DEF LockInvariant, Shapes, Stages, DeleteVictim
<1>0. /\ victim[t] = b /\ b # NULL /\ pc[t] = "delete" /\ MutexFree(t)
      /\ pc \in [Threads -> PCs] /\ victim \in [Threads -> {NULL} \cup Blocks]
      /\ failed \in [Threads -> BOOLEAN] /\ op \in [Threads -> {NULL} \cup Operations]
      /\ nLockCount \in [Blocks -> Int]
      /\ UNCHANGED <<hRBMutex, papoBlocks, diskFresh>>
  BY <1>P, Facts DEF LockInvariant, Shapes, Stages, DeleteVictim
<1>A. /\ nLockCount' = [nLockCount EXCEPT ![b] = @ - 1]
      /\ exists' = exists \ {b} /\ fresh' = fresh \ {b} /\ bDirty' = bDirty \ {b}
      /\ victim' = [victim EXCEPT ![t] = NULL]
      /\ eFlushBlockErr' = IF hRBMutex = t /\ failed[t] THEN eFlushBlockErr \cup {Band(b)} ELSE eFlushBlockErr
      /\ failed' = [failed EXCEPT ![t] = @ /\ FlushesCache(t)]
      /\ op' = [op EXCEPT ![t] = IF hRBMutex = t THEN @ ELSE NULL]
      /\ pc' = [pc EXCEPT ![t] = IF hRBMutex = t THEN "evict" ELSE IF FlushesCache(t) THEN "flush" ELSE "idle"]
  BY <1>0 DEF DeleteVictim, EndFlushBlock, Evicts, Goto
<1>1. Shapes'
  <2>1. failed' \in [Threads -> BOOLEAN]
    BY <1>0, <1>A DEF FlushesCache
  <2>2. pc' \in [Threads -> PCs] /\ op' \in [Threads -> {NULL} \cup Operations]
    BY <1>0, <1>A DEF PCs
  <2>3. victim' \in [Threads -> {NULL} \cup Blocks] /\ nLockCount' \in [Blocks -> Int]
    BY <1>0, <1>A
  <2>4. eFlushBlockErr' \subseteq Threads /\ b \notin papoBlocks
    BY <1>0, <1>A, Facts DEF LockInvariant, Shapes, Victims
  <2> QED BY <1>0, <1>A, <2>1, <2>2, <2>3, <2>4 DEF LockInvariant, Shapes
<1>2. Stages'
  BY Facts DEF LockInvariant, Shapes, Stages, Victims, Working, DeleteVictim, EndFlushBlock, Evicts, Goto, MutexFree
<1>3. Victims'
  BY Facts DEF LockInvariant, Shapes, Stages, Victims, Failures, CountsAreLocks, FlushesCache, DeleteVictim, EndFlushBlock, Evicts, Goto, MutexFree
<1>4. Failures'
  <2>1. \A u \in Threads \ {t} : failed'[u] = failed[u] /\ pc'[u] = pc[u] /\ op'[u] = op[u]
    BY <1>0, <1>A
  <2>2. failed'[t] => FlushesCache(t)
    BY <1>0, <1>A DEF FlushesCache
  <2>3. FlushesCache(t) => hRBMutex # t /\ FlushesCache(t)'
    BY <1>0, <1>A DEF LockInvariant, Stages, FlushesCache
  <2>4. \A u \in Threads \ {t} : FlushesCache(u)' <=> FlushesCache(u)
    BY <2>1 DEF FlushesCache
  <2>5. pc'[t] # "reread"
    BY <1>0, <1>A
  <2> QED BY <1>0, <2>1, <2>2, <2>3, <2>4, <2>5 DEF LockInvariant, Failures
<1>5. CountsAreLocks'
  BY Facts DEF LockInvariant, Shapes, Stages, Victims, CountsAreLocks, InUse, IsEvicted, DeleteVictim, EndFlushBlock, Evicts, Goto, MutexFree
<1>6. MemoryIsKnown'
  BY Facts DEF LockInvariant, Shapes, Stages, Victims, CountsAreLocks, MemoryIsKnown, InUse, IsEvicted, DeleteVictim, EndFlushBlock, Evicts, Goto, MutexFree
<1> QED BY <1>1, <1>2, <1>3, <1>4, <1>5, <1>6 DEF LockInvariant

LEMMA BeginFlushLocks ==
    ASSUME LockInvariant, NEW t \in Threads, BeginFlush(t)
    PROVE  LockInvariant'
<1>1. Shapes'
  BY Facts DEF LockInvariant, Shapes, Stages, MemoryIsKnown, PCs, BeginFlush, Goto
<1>2. Stages'
  BY Facts DEF LockInvariant, Shapes, Stages, Victims, Working, BeginFlush, Goto
<1>3. Victims'
  BY Facts DEF LockInvariant, Shapes, Stages, Victims, Failures, CountsAreLocks, FlushesCache, BeginFlush, Goto
<1>4. Failures'
  BY Facts DEF LockInvariant, Shapes, Stages, Failures, FlushesCache, BeginFlush, Goto
<1>5. CountsAreLocks'
  BY Facts DEF LockInvariant, Shapes, Stages, Victims, CountsAreLocks, InUse, IsEvicted, BeginFlush, Goto
<1>6. MemoryIsKnown'
  BY Facts DEF LockInvariant, Shapes, Stages, Victims, CountsAreLocks, MemoryIsKnown, InUse, IsEvicted, BeginFlush, Goto
<1> QED BY <1>1, <1>2, <1>3, <1>4, <1>5, <1>6 DEF LockInvariant

LEMMA FlushReportLocks ==
    ASSUME LockInvariant, NEW t \in Threads, FlushReport(t)
    PROVE  LockInvariant'
<1>1. Shapes'
  BY Facts DEF LockInvariant, Shapes, Stages, MemoryIsKnown, PCs, FlushReport, Report, Forgive, Goto
<1>2. Stages'
  BY Facts DEF LockInvariant, Shapes, Stages, Victims, Working, FlushReport, Report, Forgive, Goto
<1>3. Victims'
  BY Facts DEF LockInvariant, Shapes, Stages, Victims, Failures, CountsAreLocks, FlushesCache, FlushReport, Report, Forgive, Goto
<1>4. Failures'
  BY Facts DEF LockInvariant, Shapes, Stages, Failures, FlushesCache, FlushReport, Report, Forgive, Goto
<1>5. CountsAreLocks'
  BY Facts DEF LockInvariant, Shapes, Stages, Victims, CountsAreLocks, InUse, IsEvicted, FlushReport, Report, Forgive, Goto
<1>6. MemoryIsKnown'
  BY Facts DEF LockInvariant, Shapes, Stages, Victims, CountsAreLocks, MemoryIsKnown, InUse, IsEvicted, FlushReport, Report, Forgive, Goto
<1> QED BY <1>1, <1>2, <1>3, <1>4, <1>5, <1>6 DEF LockInvariant

LEMMA FlushNextLocks ==
    ASSUME LockInvariant, NEW t \in Threads, FlushNext(t)
    PROVE  LockInvariant'
<1>1. Shapes'
  BY Facts DEF LockInvariant, Shapes, Stages, MemoryIsKnown, PCs, FlushNext, TakeOut, Goto, MutexFree
<1>2. Stages'
  BY Facts DEF LockInvariant, Shapes, Stages, Victims, Working, FlushNext, TakeOut, Goto, MutexFree
<1>3. Victims'
  BY Facts DEF LockInvariant, Shapes, Stages, Victims, Failures, CountsAreLocks, FlushesCache, FlushNext, TakeOut, Goto, MutexFree
<1>4. Failures'
  BY Facts DEF LockInvariant, Shapes, Stages, Failures, FlushesCache, FlushNext, TakeOut, Goto, MutexFree
<1>5. CountsAreLocks'
  BY Facts DEF LockInvariant, Shapes, Stages, Victims, CountsAreLocks, InUse, IsEvicted, FlushNext, TakeOut, Goto, MutexFree
<1>6. MemoryIsKnown'
  BY Facts DEF LockInvariant, Shapes, Stages, Victims, CountsAreLocks, MemoryIsKnown, InUse, IsEvicted, FlushNext, TakeOut, Goto, MutexFree
<1> QED BY <1>1, <1>2, <1>3, <1>4, <1>5, <1>6 DEF LockInvariant

LEMMA EndFlushLocks ==
    ASSUME LockInvariant, NEW t \in Threads, EndFlush(t)
    PROVE  LockInvariant'
<1>1. Shapes'
  BY Facts DEF LockInvariant, Shapes, Stages, MemoryIsKnown, PCs, EndFlush, Forgive, Goto
<1>2. Stages'
  BY Facts DEF LockInvariant, Shapes, Stages, Victims, Working, EndFlush, Forgive, Goto
<1>3. Victims'
  BY Facts DEF LockInvariant, Shapes, Stages, Victims, Failures, CountsAreLocks, FlushesCache, EndFlush, Forgive, Goto
<1>4. Failures'
  BY Facts DEF LockInvariant, Shapes, Stages, Failures, FlushesCache, EndFlush, Forgive, Goto
<1>5. CountsAreLocks'
  BY Facts DEF LockInvariant, Shapes, Stages, Victims, CountsAreLocks, InUse, IsEvicted, EndFlush, Forgive, Goto
<1>6. MemoryIsKnown'
  BY Facts DEF LockInvariant, Shapes, Stages, Victims, CountsAreLocks, MemoryIsKnown, InUse, IsEvicted, EndFlush, Forgive, Goto
<1> QED BY <1>1, <1>2, <1>3, <1>4, <1>5, <1>6 DEF LockInvariant

LEMMA LocksInit == Init => LockInvariant
<1> SUFFICES ASSUME Init PROVE LockInvariant
  OBVIOUS
<1>1. Shapes
  BY Facts DEF Init, Shapes, PCs
<1>2. Stages /\ Victims /\ Failures
  BY Facts DEF Init, Stages, Victims, Failures, Working
<1>3. CountsAreLocks /\ MemoryIsKnown
  BY Facts DEF Init, CountsAreLocks, MemoryIsKnown, InUse, IsEvicted
<1> QED BY <1>1, <1>2, <1>3 DEF LockInvariant

LEMMA LocksStutter == LockInvariant /\ UNCHANGED vars => LockInvariant'
<1> SUFFICES ASSUME LockInvariant, UNCHANGED vars PROVE LockInvariant'
  OBVIOUS
<1>1. Shapes' /\ Stages'
  BY DEF LockInvariant, vars, Shapes, Stages
<1>2. Victims' /\ Failures'
  BY DEF LockInvariant, vars, Victims, Failures, FlushesCache
<1>3. CountsAreLocks' /\ MemoryIsKnown'
  BY DEF LockInvariant, vars, CountsAreLocks, MemoryIsKnown, InUse, IsEvicted
<1> QED BY <1>1, <1>2, <1>3 DEF LockInvariant

LEMMA LocksStep == LockInvariant /\ [Next]_vars => LockInvariant'
<1> SUFFICES ASSUME LockInvariant, NEW t \in Threads, Step(t) PROVE LockInvariant'
  BY LocksStutter DEF Next
<1>1. CASE Begin(t) \/ ReportBeforeWrite(t) \/ TryGet(t) \/ Internalize(t) \/ PickVictim(t) \/ EndInternalize(t)
  BY <1>1, BeginLocks, ReportBeforeWriteLocks, TryGetLocks, InternalizeLocks, PickVictimLocks, EndInternalizeLocks
<1>2. CASE AdoptBlock(t) \/ Load(t) \/ UseBlock(t) \/ DropLock(t) \/ DropFailed(t) \/ WriteVictim(t)
  BY <1>2, AdoptBlockLocks, LoadLocks, UseBlockLocks, DropLockLocks, DropFailedLocks, WriteVictimLocks
<1>3. CASE RereadError(t) \/ DeleteVictim(t) \/ BeginFlush(t) \/ FlushReport(t) \/ FlushNext(t) \/ EndFlush(t)
  BY <1>3, RereadErrorLocks, DeleteVictimLocks, BeginFlushLocks, FlushReportLocks, FlushNextLocks, EndFlushLocks
<1> QED BY <1>1, <1>2, <1>3 DEF Step

\* The inductive invariant of the locks, in every reachable state.
THEOREM LockInvariantHolds == Spec => []LockInvariant
BY LocksInit, LocksStep, PTL DEF Spec

\* A block stays allocated, locked once and, from AdoptBlock on, known to its
\* band while its owner is at it, and no thread evicts it: SafeLockBlock does
\* what it is for (gdalrasterblock.cpp:681).
THEOREM LockedBlocksAreKept == Spec => []LockedBlockIsKept
<1>1. LockInvariant => LockedBlockIsKept
  <2> SUFFICES ASSUME LockInvariant, NEW t \in Threads, pc[t] \in {"adopt", "load", "use", "release"}
               PROVE  LET b == op[t].block IN
                         /\ b \in exists /\ nLockCount[b] = 1
                         /\ pc[t] # "adopt" => b \in papoBlocks
                         /\ \A u \in Threads : victim[u] # b
    BY DEF LockedBlockIsKept
  <2>1. /\ op[t] # NULL /\ op[t] \in Operations /\ Band(op[t].block) = t /\ hRBMutex # t
        /\ pc[t] # "adopt" => op[t].block \in papoBlocks
    BY DEF LockInvariant, Shapes, Stages, Working
  <2>2. op[t].block \in Blocks /\ InUse(op[t].block)
    BY <2>1, Facts DEF InUse
  <2>3. ~ IsEvicted(op[t].block) /\ nLockCount[op[t].block] = 1 /\ op[t].block \in exists
    BY <2>1, <2>2 DEF LockInvariant, CountsAreLocks, MemoryIsKnown
  <2> QED BY <2>1, <2>3 DEF IsEvicted
<1> QED BY <1>1, LockInvariantHolds, PTL

-----------------------------------------------------------------------------
(***************************************************************************)
(* The data.                                                               *)
(***************************************************************************)

LEMMA BeginData ==
    ASSUME LockInvariant, DataInvariant, NEW t \in Threads, Begin(t)
    PROVE  DataInvariant'
<1>1. PresentIsFresh'
  BY Facts DEF LockInvariant, Shapes, Stages, Victims, CountsAreLocks, MemoryIsKnown, DataInvariant, PresentIsFresh, Pending, Begin, Goto
<1>2. FreshIsSafe'
  BY Facts DEF LockInvariant, Shapes, Stages, Victims, Failures, DataInvariant, FreshIsSafe, IsEvicted, Begin, Goto
<1>3. LossIsKnown'
  BY Facts DEF LockInvariant, Shapes, Stages, Victims, Failures, DataInvariant, LossIsKnown, FlushesCache, Begin, Goto
<1> QED BY <1>1, <1>2, <1>3 DEF DataInvariant

LEMMA ReportBeforeWriteData ==
    ASSUME LockInvariant, DataInvariant, NEW t \in Threads, ReportBeforeWrite(t)
    PROVE  DataInvariant'
<1>1. PresentIsFresh'
  BY Facts DEF LockInvariant, Shapes, Stages, Victims, CountsAreLocks, MemoryIsKnown, DataInvariant, PresentIsFresh, Pending, ReportBeforeWrite, Report, Forgive, Goto
<1>2. FreshIsSafe'
  BY Facts DEF LockInvariant, Shapes, Stages, Victims, Failures, DataInvariant, FreshIsSafe, IsEvicted, ReportBeforeWrite, Report, Forgive, Goto
<1>3. LossIsKnown'
  BY Facts DEF LockInvariant, Shapes, Stages, Victims, Failures, DataInvariant, LossIsKnown, FlushesCache, ReportBeforeWrite, Report, Forgive, Goto
<1> QED BY <1>1, <1>2, <1>3 DEF DataInvariant

LEMMA TryGetData ==
    ASSUME LockInvariant, DataInvariant, NEW t \in Threads, TryGet(t)
    PROVE  DataInvariant'
<1>1. PresentIsFresh'
  BY Facts DEF LockInvariant, Shapes, Stages, Victims, CountsAreLocks, MemoryIsKnown, DataInvariant, PresentIsFresh, Pending, TryGet, Goto, MutexFree
<1>2. FreshIsSafe'
  BY Facts DEF LockInvariant, Shapes, Stages, Victims, Failures, DataInvariant, FreshIsSafe, IsEvicted, TryGet, Goto, MutexFree
<1>3. LossIsKnown'
  BY Facts DEF LockInvariant, Shapes, Stages, Victims, Failures, DataInvariant, LossIsKnown, FlushesCache, TryGet, Goto, MutexFree
<1> QED BY <1>1, <1>2, <1>3 DEF DataInvariant

LEMMA InternalizeData ==
    ASSUME LockInvariant, DataInvariant, NEW t \in Threads, Internalize(t)
    PROVE  DataInvariant'
<1>P. PICK b \in Blocks : op[t].block = b
  BY Facts DEF LockInvariant, Shapes, Stages, Working, Internalize
<1>0. /\ op[t] # NULL /\ op[t].block = b /\ Band(b) = t /\ op[t] \in Operations
      /\ op \in [Threads -> {NULL} \cup Operations] /\ pc \in [Threads -> PCs]
      /\ ~ FlushesCache(t)
  BY <1>P, Facts DEF LockInvariant, Shapes, Stages, Working, FlushesCache, Internalize
<1>1. PresentIsFresh'
  BY Facts DEF LockInvariant, Shapes, Stages, Victims, CountsAreLocks, MemoryIsKnown, DataInvariant, PresentIsFresh, Pending, Internalize, Goto, MutexFree
<1>2. FreshIsSafe'
  BY Facts DEF LockInvariant, Shapes, Stages, Victims, Failures, DataInvariant, FreshIsSafe, IsEvicted, Internalize, Goto, MutexFree
<1>3. LossIsKnown'
  <2> SUFFICES ASSUME NEW c \in Blocks, c \notin dropped'
               PROVE  \/ c \in diskFresh' \/ c \in fresh' \/ Band(c) \in eFlushBlockErr'
                      \/ FlushesCache(Band(c))' /\ failed'[Band(c)]
    BY DEF LossIsKnown
  <2>1. c \in diskFresh \/ c \in fresh \/ Band(c) \in eFlushBlockErr \/ (FlushesCache(Band(c)) /\ failed[Band(c)])
    BY DEF DataInvariant, LossIsKnown, Internalize
  <2>2. b \notin fresh
    <3>1. pc[t] = "create" /\ hRBMutex = NULL /\ b \notin papoBlocks
      BY <1>0, Facts DEF Internalize, MutexFree, LockInvariant, Stages
    <3>2. ~ InUse(b) /\ ~ IsEvicted(b)
      BY <1>0, <3>1, Facts DEF InUse, IsEvicted, LockInvariant, Stages, Victims
    <3> QED BY <3>1, <3>2 DEF LockInvariant, MemoryIsKnown, Shapes
  <2>3. diskFresh' = diskFresh /\ fresh' \in {fresh, fresh \ {b}} /\ UNCHANGED <<eFlushBlockErr, failed>>
    BY <1>0 DEF Internalize
  <2>4. \A u \in Threads \ {t} : op'[u] = op[u] /\ pc'[u] = pc[u]
    BY <1>0 DEF Internalize, Goto
  <2> QED BY <1>0, <2>1, <2>2, <2>3, <2>4, Facts DEF FlushesCache
<1> QED BY <1>1, <1>2, <1>3 DEF DataInvariant

LEMMA PickVictimData ==
    ASSUME LockInvariant, DataInvariant, NEW t \in Threads, PickVictim(t)
    PROVE  DataInvariant'
<1>1. PresentIsFresh'
  BY Facts DEF LockInvariant, Shapes, Stages, Victims, CountsAreLocks, MemoryIsKnown, DataInvariant, PresentIsFresh, Pending, PickVictim, Goto
<1>2. FreshIsSafe'
  BY Facts DEF LockInvariant, Shapes, Stages, Victims, Failures, DataInvariant, FreshIsSafe, IsEvicted, PickVictim, Goto
<1>3. LossIsKnown'
  BY Facts DEF LockInvariant, Shapes, Stages, Victims, Failures, DataInvariant, LossIsKnown, FlushesCache, PickVictim, Goto
<1> QED BY <1>1, <1>2, <1>3 DEF DataInvariant

LEMMA EndInternalizeData ==
    ASSUME LockInvariant, DataInvariant, NEW t \in Threads, EndInternalize(t)
    PROVE  DataInvariant'
<1>1. PresentIsFresh'
  BY Facts DEF LockInvariant, Shapes, Stages, Victims, CountsAreLocks, MemoryIsKnown, DataInvariant, PresentIsFresh, Pending, EndInternalize, Goto
<1>2. FreshIsSafe'
  BY Facts DEF LockInvariant, Shapes, Stages, Victims, Failures, DataInvariant, FreshIsSafe, IsEvicted, EndInternalize, Goto
<1>3. LossIsKnown'
  BY Facts DEF LockInvariant, Shapes, Stages, Victims, Failures, DataInvariant, LossIsKnown, FlushesCache, EndInternalize, Goto
<1> QED BY <1>1, <1>2, <1>3 DEF DataInvariant

LEMMA AdoptBlockData ==
    ASSUME LockInvariant, DataInvariant, NEW t \in Threads, AdoptBlock(t)
    PROVE  DataInvariant'
<1>P. PICK b \in Blocks : op[t].block = b
  BY Facts DEF LockInvariant, Shapes, Stages, Working, AdoptBlock
<1>0. /\ op[t] # NULL /\ op[t].block = b /\ Band(b) = t /\ op[t] \in Operations
      /\ op \in [Threads -> {NULL} \cup Operations] /\ pc \in [Threads -> PCs]
      /\ ~ FlushesCache(t)
  BY <1>P, Facts DEF LockInvariant, Shapes, Stages, Working, FlushesCache, AdoptBlock
<1>1. PresentIsFresh'
  <2>1. /\ papoBlocks' = papoBlocks \cup {b} /\ UNCHANGED <<op, fresh, diskFresh>>
        /\ pc' = [pc EXCEPT ![t] = IF op[t].use \in JustInitialized THEN "use" ELSE "load"]
    BY <1>0 DEF AdoptBlock, Goto
  <2>2. Pending(b)'
    BY <1>0, <2>1 DEF Pending
  <2>3. \A c \in papoBlocks \ {b} : Pending(c) => Pending(c)'
    BY <1>0, <2>1 DEF Pending
  <2> QED BY <2>1, <2>2, <2>3 DEF DataInvariant, PresentIsFresh
<1>2. FreshIsSafe'
  BY Facts DEF LockInvariant, Shapes, Stages, Victims, Failures, DataInvariant, FreshIsSafe, IsEvicted, AdoptBlock, Goto, MutexFree
<1>3. LossIsKnown'
  BY Facts DEF LockInvariant, Shapes, Stages, Victims, Failures, DataInvariant, LossIsKnown, FlushesCache, AdoptBlock, Goto, MutexFree
<1> QED BY <1>1, <1>2, <1>3 DEF DataInvariant

LEMMA LoadData ==
    ASSUME LockInvariant, DataInvariant, NEW t \in Threads, Load(t)
    PROVE  DataInvariant'
<1>1. PresentIsFresh'
  BY Facts DEF LockInvariant, Shapes, Stages, Victims, CountsAreLocks, MemoryIsKnown, DataInvariant, PresentIsFresh, Pending, Load, Goto
<1>2. FreshIsSafe'
  BY Facts DEF LockInvariant, Shapes, Stages, Victims, Failures, DataInvariant, FreshIsSafe, IsEvicted, Load, Goto
<1>3. LossIsKnown'
  BY Facts DEF LockInvariant, Shapes, Stages, Victims, Failures, DataInvariant, LossIsKnown, FlushesCache, Load, Goto
<1> QED BY <1>1, <1>2, <1>3 DEF DataInvariant

LEMMA UseBlockData ==
    ASSUME LockInvariant, DataInvariant, NEW t \in Threads, UseBlock(t)
    PROVE  DataInvariant'
<1>P. PICK b \in Blocks : op[t].block = b
  BY Facts DEF LockInvariant, Shapes, Stages, Working, UseBlock
<1>0. /\ op[t] # NULL /\ op[t].block = b /\ Band(b) = t /\ op[t] \in Operations
      /\ op \in [Threads -> {NULL} \cup Operations] /\ pc \in [Threads -> PCs]
      /\ ~ FlushesCache(t)
  BY <1>P, Facts DEF LockInvariant, Shapes, Stages, Working, FlushesCache, UseBlock
<1>1. PresentIsFresh'
  BY Facts DEF LockInvariant, Shapes, Stages, Victims, CountsAreLocks, MemoryIsKnown, DataInvariant, PresentIsFresh, Pending, UseBlock, Written, JustInitialized, Goto
<1>2. FreshIsSafe'
  BY Facts DEF LockInvariant, Shapes, Stages, Victims, Failures, DataInvariant, FreshIsSafe, IsEvicted, UseBlock, Written, JustInitialized, Goto
<1>3. LossIsKnown'
  <2> SUFFICES ASSUME NEW c \in Blocks, c \notin dropped'
               PROVE  \/ c \in diskFresh' \/ c \in fresh' \/ Band(c) \in eFlushBlockErr'
                      \/ FlushesCache(Band(c))' /\ failed'[Band(c)]
    BY DEF LossIsKnown
  <2>2. /\ pc[t] = "use" /\ pc' = [pc EXCEPT ![t] = "release"] /\ b \in papoBlocks
        /\ UNCHANGED <<op, eFlushBlockErr, failed>>
    BY <1>0 DEF UseBlock, Goto, LockInvariant, Stages
  <2>3. FlushesCache(Band(c)) => FlushesCache(Band(c))'
    BY <1>0, <2>2, Facts DEF FlushesCache
  <2>0. fresh \subseteq fresh'
    BY <1>0 DEF UseBlock, Written
  <2>1. ASSUME c \notin dropped
        PROVE  c \in diskFresh \/ c \in fresh \/ Band(c) \in eFlushBlockErr \/ (FlushesCache(Band(c)) /\ failed[Band(c)])
    BY <2>1 DEF DataInvariant, LossIsKnown
  <2>4. CASE c = b /\ op[t].use \in {"read", "update"}
    <3>1. ~ Pending(b)
      BY <1>0, <2>2, <2>4 DEF Pending, JustInitialized
    <3>2. b \in fresh \/ b \notin diskFresh
      BY <2>2, <3>1 DEF DataInvariant, PresentIsFresh
    <3>3. c \notin dropped
      BY <1>0, <2>4 DEF UseBlock, Written
    <3>4. b \in fresh \/ t \in eFlushBlockErr
      BY <1>0, <2>1, <2>4, <3>2, <3>3
    <3> QED BY <1>0, <2>0, <2>2, <2>4, <3>4
  <2>5. CASE c = b /\ op[t].use \in {"overwrite", "continue"}
    BY <1>0, <2>5 DEF UseBlock, Written
  <2>6. CASE c # b
    <3>1. c \notin dropped /\ (c \in diskFresh => c \in diskFresh')
      BY <1>0, <2>6 DEF UseBlock, Written
    <3> QED BY <2>0, <2>1, <2>2, <2>3, <3>1
  <2> QED BY <1>0, <2>4, <2>5, <2>6, Facts DEF Uses
<1> QED BY <1>1, <1>2, <1>3 DEF DataInvariant

LEMMA DropLockData ==
    ASSUME LockInvariant, DataInvariant, NEW t \in Threads, DropLock(t)
    PROVE  DataInvariant'
<1>P. PICK b \in Blocks : op[t].block = b
  BY Facts DEF LockInvariant, Shapes, Stages, Working, DropLock
<1>0. /\ op[t] # NULL /\ op[t].block = b /\ Band(b) = t /\ op[t] \in Operations
      /\ op \in [Threads -> {NULL} \cup Operations] /\ pc \in [Threads -> PCs]
      /\ ~ FlushesCache(t)
  BY <1>P, Facts DEF LockInvariant, Shapes, Stages, Working, FlushesCache, DropLock
<1>1. PresentIsFresh'
  BY Facts DEF LockInvariant, Shapes, Stages, Victims, CountsAreLocks, MemoryIsKnown, DataInvariant, PresentIsFresh, Pending, DropLock, Goto
<1>2. FreshIsSafe'
  BY Facts DEF LockInvariant, Shapes, Stages, Victims, Failures, DataInvariant, FreshIsSafe, IsEvicted, DropLock, Goto
<1>3. LossIsKnown'
  <2> SUFFICES ASSUME NEW c \in Blocks, c \notin dropped'
               PROVE  \/ c \in diskFresh' \/ c \in fresh' \/ Band(c) \in eFlushBlockErr'
                      \/ FlushesCache(Band(c))' /\ failed'[Band(c)]
    BY DEF LossIsKnown
  <2>1. c \in diskFresh \/ c \in fresh \/ Band(c) \in eFlushBlockErr \/ (FlushesCache(Band(c)) /\ failed[Band(c)])
    BY DEF DataInvariant, LossIsKnown, DropLock
  <2>2. UNCHANGED <<diskFresh, fresh, eFlushBlockErr, failed>>
    BY DEF DropLock
  <2>3. \A u \in Threads \ {t} : op'[u] = op[u] /\ pc'[u] = pc[u]
    BY <1>0 DEF DropLock, Goto
  <2> QED BY <1>0, <2>1, <2>2, <2>3, Facts DEF FlushesCache
<1> QED BY <1>1, <1>2, <1>3 DEF DataInvariant

LEMMA DropFailedData ==
    ASSUME LockInvariant, DataInvariant, NEW t \in Threads, DropFailed(t)
    PROVE  DataInvariant'
<1>P. PICK b \in Blocks : op[t].block = b
  BY Facts DEF LockInvariant, Shapes, Stages, Working, DropFailed, TakeOut
<1>0. /\ op[t] # NULL /\ op[t].block = b /\ Band(b) = t /\ op[t] \in Operations
      /\ op \in [Threads -> {NULL} \cup Operations] /\ pc \in [Threads -> PCs]
      /\ ~ FlushesCache(t)
  BY <1>P, Facts DEF LockInvariant, Shapes, Stages, Working, FlushesCache, DropFailed, TakeOut
<1>1. PresentIsFresh'
  BY Facts DEF LockInvariant, Shapes, Stages, Victims, CountsAreLocks, MemoryIsKnown, DataInvariant, PresentIsFresh, Pending, DropFailed, TakeOut, Goto, MutexFree
<1>2. FreshIsSafe'
  BY Facts DEF LockInvariant, Shapes, Stages, Victims, Failures, DataInvariant, FreshIsSafe, IsEvicted, DropFailed, TakeOut, Goto, MutexFree
<1>3. LossIsKnown'
  <2> SUFFICES ASSUME NEW c \in Blocks, c \notin dropped'
               PROVE  \/ c \in diskFresh' \/ c \in fresh' \/ Band(c) \in eFlushBlockErr'
                      \/ FlushesCache(Band(c))' /\ failed'[Band(c)]
    BY DEF LossIsKnown
  <2>1. c \in diskFresh \/ c \in fresh \/ Band(c) \in eFlushBlockErr \/ (FlushesCache(Band(c)) /\ failed[Band(c)])
    BY DEF DataInvariant, LossIsKnown, DropFailed, TakeOut
  <2>2. UNCHANGED <<diskFresh, fresh, eFlushBlockErr, failed>>
    BY DEF DropFailed, TakeOut
  <2>3. \A u \in Threads \ {t} : op'[u] = op[u] /\ pc'[u] = pc[u]
    BY <1>0 DEF DropFailed, TakeOut, Goto
  <2> QED BY <1>0, <2>1, <2>2, <2>3, Facts DEF FlushesCache
<1> QED BY <1>1, <1>2, <1>3 DEF DataInvariant

LEMMA WriteVictimData ==
    ASSUME LockInvariant, DataInvariant, NEW t \in Threads, WriteVictim(t)
    PROVE  DataInvariant'
<1>1. PresentIsFresh'
  BY Facts DEF LockInvariant, Shapes, Stages, Victims, CountsAreLocks, MemoryIsKnown, DataInvariant, PresentIsFresh, Pending, WriteVictim, Goto
<1>2. FreshIsSafe'
  BY Facts DEF LockInvariant, Shapes, Stages, Victims, Failures, DataInvariant, FreshIsSafe, IsEvicted, WriteVictim, Goto
<1>3. LossIsKnown'
  BY Facts DEF LockInvariant, Shapes, Stages, Victims, Failures, DataInvariant, LossIsKnown, FlushesCache, WriteVictim, Goto
<1> QED BY <1>1, <1>2, <1>3 DEF DataInvariant

LEMMA RereadErrorData ==
    ASSUME LockInvariant, DataInvariant, NEW t \in Threads, RereadError(t)
    PROVE  DataInvariant'
<1>0. /\ pc[t] = "reread" /\ pc' = [pc EXCEPT ![t] = "delete"] /\ pc \in [Threads -> PCs]
      /\ failed \in [Threads -> BOOLEAN] /\ failed' \in {failed, [failed EXCEPT ![t] = TRUE]}
      /\ (~ failed'[t] => dropped' = dropped \cup ({victim[t]} \ diskFresh)) /\ dropped \subseteq dropped'
      /\ UNCHANGED <<papoBlocks, bDirty, fresh, diskFresh, eFlushBlockErr, op, victim>>
  BY DEF LockInvariant, Shapes, RereadError, Goto
<1>A. \A u \in Threads : (FlushesCache(u)' <=> FlushesCache(u)) /\ (failed[u] => failed'[u])
  BY <1>0 DEF FlushesCache
<1>1. PresentIsFresh'
  <2>1. \A b \in papoBlocks : Pending(b) => Pending(b)'
    BY <1>0 DEF Pending
  <2> QED BY <1>0, <2>1 DEF DataInvariant, PresentIsFresh
<1>2. FreshIsSafe'
  <2> SUFFICES ASSUME NEW b \in fresh, b \notin dropped'
               PROVE  b \in diskFresh \/ b \in bDirty \/ \E u \in Threads : victim[u] = b /\ (failed'[u] \/ pc'[u] = "reread")
    BY <1>0 DEF FreshIsSafe
  <2>1. b \in diskFresh \/ b \in bDirty \/ \E u \in Threads : victim[u] = b /\ (failed[u] \/ pc[u] = "reread")
    BY <1>0 DEF DataInvariant, FreshIsSafe
  <2>2. CASE b = victim[t]
    BY <1>0, <2>2
  <2>3. CASE b # victim[t]
    BY <1>0, <1>A, <2>1, <2>3
  <2> QED BY <2>2, <2>3
<1>3. LossIsKnown'
  BY <1>0, <1>A, Facts DEF DataInvariant, LossIsKnown
<1> QED BY <1>1, <1>2, <1>3 DEF DataInvariant

LEMMA DeleteVictimData ==
    ASSUME LockInvariant, DataInvariant, NEW t \in Threads, DeleteVictim(t)
    PROVE  DataInvariant'
<1>1. PresentIsFresh'
  BY Facts DEF LockInvariant, Shapes, Stages, Victims, CountsAreLocks, MemoryIsKnown, DataInvariant, PresentIsFresh, Pending, DeleteVictim, EndFlushBlock, Evicts, Goto, MutexFree
<1>2. FreshIsSafe'
  BY Facts DEF LockInvariant, Shapes, Stages, Victims, Failures, DataInvariant, FreshIsSafe, IsEvicted, DeleteVictim, EndFlushBlock, Evicts, Goto, MutexFree
<1>3. LossIsKnown'
  <2>P. PICK b \in Blocks : victim[t] = b
    BY Facts DEF LockInvariant, Shapes, Stages, DeleteVictim
  <2>0. /\ victim[t] = b /\ b # NULL /\ pc[t] = "delete"
        /\ pc \in [Threads -> PCs] /\ op \in [Threads -> {NULL} \cup Operations]
        /\ failed \in [Threads -> BOOLEAN] /\ Band(b) \in Threads
    BY <2>P, Facts DEF LockInvariant, Shapes, DeleteVictim
  <2>A. /\ fresh' = fresh \ {b} /\ diskFresh' = diskFresh
        /\ eFlushBlockErr' = IF hRBMutex = t /\ failed[t] THEN eFlushBlockErr \cup {Band(b)} ELSE eFlushBlockErr
        /\ failed' = [failed EXCEPT ![t] = @ /\ FlushesCache(t)]
        /\ op' = [op EXCEPT ![t] = IF hRBMutex = t THEN @ ELSE NULL]
        /\ pc' = [pc EXCEPT ![t] = IF hRBMutex = t THEN "evict" ELSE IF FlushesCache(t) THEN "flush" ELSE "idle"]
    BY <2>0 DEF DeleteVictim, EndFlushBlock, Evicts, Goto
  <2>B. FlushesCache(t) => hRBMutex # t /\ FlushesCache(t)' /\ Band(b) = t /\ failed'[t] = failed[t]
    BY <2>0, <2>A DEF LockInvariant, Stages, Victims, FlushesCache
  <2>C. \A u \in Threads : FlushesCache(u) /\ failed[u] => FlushesCache(u)' /\ failed'[u]
    <3> SUFFICES ASSUME NEW u \in Threads, FlushesCache(u), failed[u] PROVE FlushesCache(u)' /\ failed'[u]
      OBVIOUS
    <3>1. CASE u = t
      BY <2>B, <3>1
    <3>2. CASE u # t
      <4>1. op'[u] = op[u] /\ pc'[u] = pc[u] /\ failed'[u] = failed[u]
        BY <2>0, <2>A, <3>2
      <4> QED BY <4>1 DEF FlushesCache
    <3> QED BY <3>1, <3>2
  <2>D. dropped' = dropped
    BY DEF DeleteVictim
  <2> SUFFICES ASSUME NEW c \in Blocks, c \notin dropped'
               PROVE  \/ c \in diskFresh' \/ c \in fresh' \/ Band(c) \in eFlushBlockErr'
                      \/ FlushesCache(Band(c))' /\ failed'[Band(c)]
    BY DEF LossIsKnown
  <2>1. c \in diskFresh \/ c \in fresh \/ Band(c) \in eFlushBlockErr \/ (FlushesCache(Band(c)) /\ failed[Band(c)])
    BY <2>D DEF DataInvariant, LossIsKnown
  <2>2. CASE c # b \/ c \notin fresh \/ c \in diskFresh
    BY <2>1, <2>2, <2>A, <2>C, Facts
  <2>3. CASE c = b /\ c \in fresh /\ c \notin diskFresh
    <3>1. b \in bDirty \/ failed[t]
      BY <2>0, <2>3, <2>D DEF DataInvariant, FreshIsSafe, LockInvariant, Victims
    <3>2. CASE b \in bDirty
      <4>1. FlushesCache(t) /\ failed[t]
        BY <2>0, <3>2 DEF LockInvariant, Victims
      <4> QED BY <2>3, <2>B, <2>C, <4>1
    <3>3. CASE failed[t]
      <4>1. FlushesCache(t) \/ hRBMutex = t
        BY <3>3 DEF LockInvariant, Failures
      <4> QED BY <2>3, <2>A, <2>B, <2>C, <3>3, <4>1
    <3> QED BY <3>1, <3>2, <3>3
  <2> QED BY <2>2, <2>3
<1> QED BY <1>1, <1>2, <1>3 DEF DataInvariant

LEMMA BeginFlushData ==
    ASSUME LockInvariant, DataInvariant, NEW t \in Threads, BeginFlush(t)
    PROVE  DataInvariant'
<1>1. PresentIsFresh'
  BY Facts DEF LockInvariant, Shapes, Stages, Victims, CountsAreLocks, MemoryIsKnown, DataInvariant, PresentIsFresh, Pending, BeginFlush, Goto
<1>2. FreshIsSafe'
  BY Facts DEF LockInvariant, Shapes, Stages, Victims, Failures, DataInvariant, FreshIsSafe, IsEvicted, BeginFlush, Goto
<1>3. LossIsKnown'
  BY Facts DEF LockInvariant, Shapes, Stages, Victims, Failures, DataInvariant, LossIsKnown, FlushesCache, BeginFlush, Goto
<1> QED BY <1>1, <1>2, <1>3 DEF DataInvariant

LEMMA FlushReportData ==
    ASSUME LockInvariant, DataInvariant, NEW t \in Threads, FlushReport(t)
    PROVE  DataInvariant'
<1>1. PresentIsFresh'
  BY Facts DEF LockInvariant, Shapes, Stages, Victims, CountsAreLocks, MemoryIsKnown, DataInvariant, PresentIsFresh, Pending, FlushReport, Report, Forgive, Goto
<1>2. FreshIsSafe'
  BY Facts DEF LockInvariant, Shapes, Stages, Victims, Failures, DataInvariant, FreshIsSafe, IsEvicted, FlushReport, Report, Forgive, Goto
<1>3. LossIsKnown'
  BY Facts DEF LockInvariant, Shapes, Stages, Victims, Failures, DataInvariant, LossIsKnown, FlushesCache, FlushReport, Report, Forgive, Goto
<1> QED BY <1>1, <1>2, <1>3 DEF DataInvariant

LEMMA FlushNextData ==
    ASSUME LockInvariant, DataInvariant, NEW t \in Threads, FlushNext(t)
    PROVE  DataInvariant'
<1>1. PresentIsFresh'
  BY Facts DEF LockInvariant, Shapes, Stages, Victims, CountsAreLocks, MemoryIsKnown, DataInvariant, PresentIsFresh, Pending, FlushNext, TakeOut, Goto, MutexFree
<1>2. FreshIsSafe'
  BY Facts DEF LockInvariant, Shapes, Stages, Victims, Failures, DataInvariant, FreshIsSafe, IsEvicted, FlushNext, TakeOut, Goto, MutexFree
<1>3. LossIsKnown'
  BY Facts DEF LockInvariant, Shapes, Stages, Victims, Failures, DataInvariant, LossIsKnown, FlushesCache, FlushNext, TakeOut, Goto, MutexFree
<1> QED BY <1>1, <1>2, <1>3 DEF DataInvariant

LEMMA EndFlushData ==
    ASSUME LockInvariant, DataInvariant, NEW t \in Threads, EndFlush(t)
    PROVE  DataInvariant'
<1>1. PresentIsFresh'
  BY Facts DEF LockInvariant, Shapes, Stages, Victims, CountsAreLocks, MemoryIsKnown, DataInvariant, PresentIsFresh, Pending, EndFlush, Forgive, Goto
<1>2. FreshIsSafe'
  BY Facts DEF LockInvariant, Shapes, Stages, Victims, Failures, DataInvariant, FreshIsSafe, IsEvicted, EndFlush, Forgive, Goto
<1>3. LossIsKnown'
  BY Facts DEF LockInvariant, Shapes, Stages, Victims, Failures, DataInvariant, LossIsKnown, FlushesCache, EndFlush, Forgive, Goto
<1> QED BY <1>1, <1>2, <1>3 DEF DataInvariant

LEMMA DataInit == Init => DataInvariant
BY Facts DEF Init, DataInvariant, PresentIsFresh, FreshIsSafe, LossIsKnown

LEMMA DataStep == LockInvariant /\ DataInvariant /\ [Next]_vars => DataInvariant'
<1> SUFFICES ASSUME LockInvariant, DataInvariant, [Next]_vars PROVE DataInvariant'
  OBVIOUS
<1>1. CASE UNCHANGED vars
  BY <1>1 DEF vars, DataInvariant, PresentIsFresh, FreshIsSafe, LossIsKnown, Pending, FlushesCache
<1>2. ASSUME NEW t \in Threads, Step(t) PROVE DataInvariant'
  <2>1. CASE Begin(t) \/ ReportBeforeWrite(t) \/ TryGet(t) \/ Internalize(t) \/ PickVictim(t) \/ EndInternalize(t)
    BY <2>1, BeginData, ReportBeforeWriteData, TryGetData, InternalizeData, PickVictimData, EndInternalizeData
  <2>2. CASE AdoptBlock(t) \/ Load(t) \/ UseBlock(t) \/ DropLock(t) \/ DropFailed(t) \/ WriteVictim(t)
    BY <2>2, AdoptBlockData, LoadData, UseBlockData, DropLockData, DropFailedData, WriteVictimData
  <2>3. CASE RereadError(t) \/ DeleteVictim(t) \/ BeginFlush(t) \/ FlushReport(t) \/ FlushNext(t) \/ EndFlush(t)
    BY <2>3, RereadErrorData, DeleteVictimData, BeginFlushData, FlushReportData, FlushNextData, EndFlushData
  <2> QED BY <1>2, <2>1, <2>2, <2>3 DEF Step
<1> QED BY <1>1, <1>2 DEF Next

\* The inductive invariant of the data, in every reachable state.
THEOREM DataInvariantHolds == Spec => []DataInvariant
BY LockInvariantHolds, DataInit, DataStep, PTL DEF Spec

\* But for the two gaps, what neither the file nor a block holds any more is an
\* error the band will be told of, or is being told of (gdalrasterband.cpp,
\* SetFlushBlockErr).
THEOREM LossesAreReported == Spec => []OnlyDroppedIsLost
<1>1. DataInvariant => OnlyDroppedIsLost
  BY DEF DataInvariant, FreshIsSafe, LossIsKnown, OnlyDroppedIsLost, KeptOrReported
<1> QED BY <1>1, DataInvariantHolds, PTL

\* Whatever other threads evict, a thread finds in its block what it has
\* written, unless an error waits for it or the data fell into one of the two
\* gaps (rasterio.cpp, GetLockedBlockRef).
THEOREM WritesAreSeen == Spec => []ReadsSeeWrites
<1>1. LockInvariant /\ DataInvariant => ReadsSeeWrites
  <2> SUFFICES ASSUME LockInvariant, DataInvariant,
                      NEW t \in Threads, pc[t] = "use", op[t].use \notin JustInitialized
               PROVE  op[t].block \in fresh \cup dropped \/ t \in eFlushBlockErr
    BY DEF ReadsSeeWrites
  <2>1. /\ op[t] # NULL /\ op[t] \in Operations /\ Band(op[t].block) = t
        /\ op[t].block \in papoBlocks
    BY DEF LockInvariant, Shapes, Stages, Working
  <2>2. op[t].block \in Blocks /\ ~ Pending(op[t].block)
    BY <2>1, Facts DEF Pending
  <2>3. op[t].block \in fresh \/ op[t].block \notin diskFresh
    BY <2>1, <2>2 DEF DataInvariant, PresentIsFresh
  <2>4. ~ FlushesCache(t)
    BY <2>1 DEF FlushesCache
  <2> QED BY <2>1, <2>2, <2>3, <2>4 DEF DataInvariant, LossIsKnown
<1> QED BY <1>1, LockInvariantHolds, DataInvariantHolds, PTL

\* When FlushCache returns the band has no blocks, and each is in the file,
\* reported, in the hands of another thread, or fell into one of the two gaps
\* (GDALRasterBand::FlushCache).
THEOREM FlushesAreComplete == Spec => FlushLeavesNothingBehind
<1> DEFINE Complete ==
      \A t \in Threads : pc[t] = "flush" /\ pc'[t] = "idle" =>
          \A b \in Blocks : Band(b) = t =>
              /\ b \notin papoBlocks'
              /\ \/ b \in diskFresh' \cup dropped'
                 \/ t \in eFlushBlockErr'
                 \/ \E u \in Threads \ {t} : Evicts(u) /\ victim[u] = b
<1>1. LockInvariant /\ DataInvariant /\ [Next]_vars => [Complete]_vars
  <2> SUFFICES ASSUME LockInvariant, DataInvariant, Next,
                      NEW t \in Threads, pc[t] = "flush", pc'[t] = "idle",
                      NEW b \in Blocks, Band(b) = t
               PROVE  /\ b \notin papoBlocks'
                      /\ \/ b \in diskFresh' \cup dropped'
                         \/ t \in eFlushBlockErr'
                         \/ \E u \in Threads \ {t} : Evicts(u) /\ victim[u] = b
    OBVIOUS
  <2>1. PICK u \in Threads : Step(u)
    BY DEF Next
  <2>2. EndFlush(t)
    <3>1. pc \in [Threads -> PCs] /\ op[t] = NULL
      BY DEF LockInvariant, Shapes, Stages
    <3>2. u = t
      BY <2>1, <3>1 DEF Step, Begin, ReportBeforeWrite, TryGet, Internalize, PickVictim, EndInternalize, AdoptBlock,
         Load, UseBlock, DropLock, DropFailed, TakeOut, WriteVictim, RereadError, DeleteVictim, EndFlushBlock, BeginFlush,
         FlushReport, FlushNext, EndFlush, Goto
    <3> QED BY <2>1, <3>1, <3>2 DEF Step, Begin, ReportBeforeWrite, TryGet, Internalize, PickVictim, EndInternalize,
         AdoptBlock, Load, UseBlock, DropLock, DropFailed, TakeOut, WriteVictim, RereadError, DeleteVictim, BeginFlush,
         FlushReport, FlushNext, Goto
  <2>3. b \notin papoBlocks /\ papoBlocks' = papoBlocks /\ eFlushBlockErr' = eFlushBlockErr
    <3>1. \A o \in Offsets : <<t, o>> \notin papoBlocks
      BY <2>2 DEF EndFlush
    <3>2. PICK o \in Offsets : b = <<t, o>>
      BY DEF Blocks, Band
    <3> QED BY <2>2, <3>1, <3>2 DEF EndFlush
  <2>4. diskFresh \subseteq diskFresh' /\ (b \in dropped => b \in diskFresh' \/ b \in dropped' \/ b \in exists)
        /\ (failed[t] => b \in diskFresh' \/ b \in fresh \/ b \in bDirty)
    BY <2>2 DEF EndFlush, Forgive, LockInvariant, Shapes
  <2>5. b \in diskFresh' \cup dropped' \/ t \in eFlushBlockErr \/ b \in exists
    <3>1. b \in dropped \/ b \in diskFresh \/ b \in fresh \/ t \in eFlushBlockErr \/ failed[t]
      BY DEF DataInvariant, LossIsKnown
    <3> QED BY <2>4, <3>1 DEF LockInvariant, Shapes
  <2>6. ASSUME b \in exists PROVE \E w \in Threads \ {t} : Evicts(w) /\ victim[w] = b
    <3>1. op[t] = NULL /\ victim[t] = NULL
      BY DEF LockInvariant, Stages
    <3>2. IsEvicted(b)
      BY <2>3, <2>6, <3>1 DEF LockInvariant, MemoryIsKnown, InUse
    <3>3. PICK w \in Threads : victim[w] = b
      BY <3>2 DEF IsEvicted
    <3>4. w # t /\ victim[w] # NULL
      BY <3>1, <3>3, Facts
    <3> QED BY <3>3, <3>4 DEF LockInvariant, Victims, Evicts
  <2> QED BY <2>3, <2>5, <2>6
<1> QED BY <1>1, LockInvariantHolds, DataInvariantHolds, PTL DEF Spec, FlushLeavesNothingBehind

-----------------------------------------------------------------------------
(* The list.  Its pointers link the blocks of a line, each one once, and     *)
(* nothing around them (Links); the lemmas say what becomes of the line when *)
(* a block is detached or touched, and what Walk meets.                      *)

\* The blocks f[1] to f[n] in a line, each one once, and nothing around them.
Line(f, n) ==
    /\ n \in Nat
    /\ f \in [Int -> Blocks \cup {NULL}]
    /\ \A k \in Int : f[k] # NULL <=> k \in 1..n
    /\ \A j, k \in 1..n : f[j] = f[k] => j = k

\* The line as a sequence.
InOrder(f, n) == [k \in 1..n |-> f[k]]

Lists == [newest : Blocks \cup {NULL}, oldest : Blocks \cup {NULL},
          next : [Blocks -> Blocks \cup {NULL}], prev : [Blocks -> Blocks \cup {NULL}]]

\* The list whose blocks are those of the line.
Links(l, f, n) ==
    /\ l \in Lists
    /\ l.newest = f[1] /\ l.oldest = f[n]
    /\ \A k \in 1..n : l.next[f[k]] = f[k + 1] /\ l.prev[f[k]] = f[k - 1]
    /\ \A b \in Blocks : (\A k \in 1..n : f[k] # b) => l.next[b] = NULL /\ l.prev[b] = NULL

LEMMA BlocksAreFinite == IsFiniteSet(Blocks) /\ Cardinality(Blocks) \in Nat /\ NULL \notin Blocks
<1>1. IsFiniteSet(Threads \X Offsets)
  BY CacheAssumption, FS_Product
<1> QED BY <1>1, CacheAssumption, FS_CardinalityType DEF Blocks

\* A line of blocks has no more places than there are blocks.
LEMMA LineIsShort == ASSUME NEW f, NEW n, Line(f, n) PROVE n <= Cardinality(Blocks)
<1> DEFINE g == [k \in 1..n |-> f[k]]
<1>1. g \in Injection(1..n, Blocks)
  <2>1. \A k \in 1..n : f[k] \in Blocks
    BY DEF Line
  <2> QED BY <2>1 DEF Line, Injection, IsInjective
<1>2. Cardinality(1..n) <= Cardinality(Blocks)
  <2> HIDE DEF g
  <2> QED BY <1>1, BlocksAreFinite, FS_Injection
<1>3. Cardinality(1..n) = n
  BY FS_Interval DEF Line
<1> QED BY <1>2, <1>3

LEMMA LeastNatural ==
    ASSUME NEW T, T \subseteq Nat, T # {}
    PROVE  \E a \in T : \A b \in T : a <= b
<1> DEFINE R == OpToRel(<, Nat)
<1>1. PICK a \in T : \A b \in T : ~ (<<b, a>> \in R)
  <2>1. IsWellFoundedOn(R, Nat)
    BY NatLessThanWellFounded
  <2> HIDE DEF R
  <2> QED BY <2>1, WFMin
<1>2. \A b \in T : ~ (b < a)
  BY <1>1 DEF OpToRel
<1> QED BY <1>2

\* What Walk meets, step by step, is the line.
LEMMA WalkFollows ==
    ASSUME NEW f, NEW n, Line(f, n), NEW link \in [Blocks -> Blocks \cup {NULL}],
           \A k \in 1..n : link[f[k]] = f[k + 1]
    PROVE  Walk(f[1], link) = InOrder(f, n)
<1> DEFINE m == Cardinality(Blocks)
           Step1(g, k) == IF k = 0 THEN f[1] ELSE IF g[k - 1] = NULL THEN NULL ELSE link[g[k - 1]]
           at == CHOOSE g : g = [k \in 0 .. m |-> Step1(g, k)]
           h == [k \in 0 .. m |-> f[k + 1]]
<1>0. Walk(f[1], link) = [k \in 1 .. Cardinality({j \in 0 .. m : at[j] # NULL}) |-> at[k - 1]]
  BY DEF Walk
<1>M. m \in Nat /\ n \in Nat /\ n <= m
  BY BlocksAreFinite, LineIsShort DEF Line
<1> HIDE DEF m
<1>1. ASSUME NEW k \in 0 .. m PROVE h[k] = Step1(h, k)
  <2>1. CASE k = 0
    BY <1>1, <1>M, <2>1
  <2>2. CASE k # 0
    <3>1. k - 1 \in 0 .. m /\ k \in Int /\ h[k - 1] = f[k] /\ h[k] = f[k + 1]
      BY <1>1, <1>M, <2>2
    <3>2. CASE k \in 1..n
      BY <2>2, <3>1, <3>2 DEF Line
    <3>3. CASE k \notin 1..n
      <4>1. k + 1 \in Int /\ k + 1 \notin 1..n
        BY <1>1, <1>M, <2>2, <3>3
      <4>2. f[k] = NULL /\ f[k + 1] = NULL
        BY <3>1, <3>3, <4>1 DEF Line
      <4> QED BY <2>2, <3>1, <4>2
    <3> QED BY <3>2, <3>3
  <2> QED BY <2>1, <2>2
<1>2. at = [k \in 0 .. m |-> Step1(at, k)]
  <2>1. h = [k \in 0 .. m |-> Step1(h, k)]
    BY <1>1
  <2> HIDE DEF h, Step1
  <2> QED BY <2>1
<1>3. \A k \in 0 .. m : at[k] = Step1(at, k)
  <2> HIDE DEF at, Step1
  <2> QED BY <1>2
<1> HIDE DEF at
<1>4. \A k \in 0 .. m : at[k] = f[k + 1]
  <2> DEFINE T == {k \in 0 .. m : at[k] # f[k + 1]}
  <2> SUFFICES ASSUME T # {} PROVE FALSE
    OBVIOUS
  <2>1. PICK k \in T : \A j \in T : k <= j
    <3>1. T \subseteq Nat
      BY <1>M
    <3> HIDE DEF T
    <3> QED BY <3>1, LeastNatural
  <2>2. k \in 0 .. m /\ at[k] # h[k]
    BY <2>1
  <2>3. CASE k = 0
    BY <1>1, <1>3, <2>2, <2>3
  <2>4. CASE k # 0
    <3>1. k - 1 \in 0 .. m /\ k - 1 < k
      BY <1>M, <2>2, <2>4
    <3>2. at[k - 1] = h[k - 1]
      BY <2>1, <3>1
    <3>3. Step1(at, k) = Step1(h, k)
      BY <3>2
    <3> QED BY <1>1, <1>3, <2>2, <3>3
  <2> QED BY <2>3, <2>4
<1>5. {j \in 0 .. m : at[j] # NULL} = 0 .. n - 1
  <2>1. \A j \in 0 .. m : at[j] # NULL <=> j + 1 \in 1..n
    BY <1>4 DEF Line
  <2> QED BY <1>M, <2>1
<1>6. Cardinality(0 .. n - 1) = n
  BY <1>M, FS_Interval
<1>7. \A k \in 1 .. n : at[k - 1] = f[k]
  <2> SUFFICES ASSUME NEW k \in 1 .. n PROVE at[k - 1] = f[k]
    OBVIOUS
  <2>1. k - 1 \in 0 .. m /\ k - 1 + 1 = k
    BY <1>M
  <2> QED BY <1>4, <2>1
<1> QED BY <1>0, <1>5, <1>6, <1>7 DEF InOrder

\* The line turned round.
Turned(f, n) == [k \in Int |-> f[n + 1 - k]]

LEMMA TurnedIsLine ==
    ASSUME NEW f, NEW n, Line(f, n)
    PROVE  /\ Line(Turned(f, n), n)
           /\ \A k \in Int : Turned(f, n)[k] = f[n + 1 - k]
<1> DEFINE g == Turned(f, n)
<1>1. n \in Nat /\ f \in [Int -> Blocks \cup {NULL}]
  BY DEF Line
<1>2. g \in [Int -> Blocks \cup {NULL}] /\ \A k \in Int : g[k] = f[n + 1 - k] /\ n + 1 - k \in Int
  BY <1>1 DEF Turned
<1> HIDE DEF g
<1>3. \A k \in Int : n + 1 - k \in 1..n <=> k \in 1..n
  BY <1>1
<1>4. \A k \in Int : g[k] # NULL <=> k \in 1..n
  BY <1>2, <1>3 DEF Line
<1>5. ASSUME NEW j \in 1..n, NEW k \in 1..n, g[j] = g[k] PROVE j = k
  <2>1. n + 1 - j \in 1..n /\ n + 1 - k \in 1..n
    BY <1>3
  <2>2. n + 1 - j = n + 1 - k
    BY <1>2, <1>5, <2>1 DEF Line
  <2> QED BY <1>1, <2>2
<1> QED BY <1>1, <1>2, <1>4, <1>5 DEF Line, g

\* What Walk makes of the list, from either end.
LEMMA WalksMeetTheLine ==
    ASSUME NEW l, NEW f, NEW n, Line(f, n), Links(l, f, n)
    PROVE  /\ Walk(l.newest, l.next) = InOrder(f, n)
           /\ Walk(l.oldest, l.prev) = InOrder(Turned(f, n), n)
<1>1. /\ l.next \in [Blocks -> Blocks \cup {NULL}] /\ l.prev \in [Blocks -> Blocks \cup {NULL}]
      /\ l.newest = f[1] /\ l.oldest = f[n] /\ n \in Nat
  BY DEF Links, Lists, Line
<1>L. \A k \in 1..n : l.next[f[k]] = f[k + 1] /\ l.prev[f[k]] = f[k - 1]
  BY DEF Links
<1>2. Walk(l.newest, l.next) = InOrder(f, n)
  <2>1. PICK next \in [Blocks -> Blocks \cup {NULL}] :
           next = l.next /\ \A k \in 1..n : next[f[k]] = f[k + 1]
    BY <1>1, <1>L
  <2>2. Walk(f[1], next) = InOrder(f, n)
    BY <2>1, WalkFollows
  <2> QED BY <1>1, <2>1, <2>2
<1>3. PICK g : g = Turned(f, n) /\ Line(g, n) /\ \A k \in Int : g[k] = f[n + 1 - k]
  BY TurnedIsLine
<1>4. \A k \in 1..n : l.prev[g[k]] = g[k + 1]
  <2> SUFFICES ASSUME NEW k \in 1..n PROVE l.prev[g[k]] = g[k + 1]
    OBVIOUS
  <2>1. /\ k \in Int /\ k + 1 \in Int
    BY <1>1
  <2>2. PICK j \in 1..n : j = n + 1 - k /\ n + 1 - (k + 1) = j - 1
    BY <1>1
  <2>3. g[k] = f[j] /\ g[k + 1] = f[j - 1]
    BY <1>3, <2>1, <2>2
  <2> QED BY <1>L, <2>3
<1>5. g[1] = f[n]
  <2>1. n + 1 - 1 = n
    BY <1>1
  <2> QED BY <1>3, <2>1
<1>6. Walk(g[1], l.prev) = InOrder(g, n)
  BY <1>1, <1>3, <1>4, WalkFollows
<1> QED BY <1>1, <1>2, <1>3, <1>5, <1>6

\* The line without its place p.
Without(f, p) == [k \in Int |-> IF k < p THEN f[k] ELSE f[k + 1]]

LEMMA WithoutIsLine ==
    ASSUME NEW f, NEW n, Line(f, n), NEW p \in 1..n
    PROVE  /\ Line(Without(f, p), n - 1)
           /\ \A k \in Int : Without(f, p)[k] = IF k < p THEN f[k] ELSE f[k + 1]
           /\ \A k \in 1..n - 1 : Without(f, p)[k] # f[p]
<1> DEFINE g == Without(f, p)
<1>1. n \in Nat /\ f \in [Int -> Blocks \cup {NULL}] /\ p \in Int
  BY DEF Line
<1>2. g \in [Int -> Blocks \cup {NULL}] /\ \A k \in Int : g[k] = IF k < p THEN f[k] ELSE f[k + 1]
  BY <1>1 DEF Without
<1> HIDE DEF g
<1>3. ASSUME NEW k \in Int PROVE g[k] # NULL <=> k \in 1..n - 1
  <2>1. CASE k < p
    <3>1. k \in 1..n <=> k \in 1..n - 1
      BY <1>1, <2>1
    <3> QED BY <1>2, <2>1, <3>1 DEF Line
  <2>2. CASE ~ (k < p)
    <3>1. k + 1 \in Int /\ (k + 1 \in 1..n <=> k \in 1..n - 1)
      BY <1>1, <2>2
    <3> QED BY <1>2, <2>2, <3>1 DEF Line
  <2> QED BY <2>1, <2>2
<1> DEFINE place(k) == IF k < p THEN k ELSE k + 1
<1>4. \A k \in 1..n - 1 : place(k) \in 1..n /\ g[k] = f[place(k)] /\ place(k) # p
  BY <1>1, <1>2
<1>5. \A j, k \in 1..n - 1 : place(j) = place(k) => j = k
  BY <1>1
<1> HIDE DEF place
<1>6. \A j, k \in 1..n - 1 : g[j] = g[k] => j = k
  BY <1>4, <1>5 DEF Line
<1>7. \A k \in 1..n - 1 : g[k] # f[p]
  BY <1>4 DEF Line
<1>8. n - 1 \in Nat
  BY <1>1
<1> QED BY <1>2, <1>3, <1>6, <1>7, <1>8 DEF Line, g

LEMMA DetachLinks ==
    ASSUME NEW l, NEW f, NEW n, Line(f, n), Links(l, f, n), NEW p \in 1..n
    PROVE  Links(Detach(l, f[p]), Without(f, p), n - 1)
<1>1. PICK b \in Blocks, before \in Blocks \cup {NULL}, after \in Blocks \cup {NULL} :
         b = f[p] /\ before = f[p - 1] /\ after = f[p + 1] /\ b # NULL
         /\ b # before /\ b # after
  <2>1. /\ n \in Nat /\ p - 1 \in Int /\ p + 1 \in Int /\ p \in Int
        /\ f \in [Int -> Blocks \cup {NULL}]
    BY DEF Line
  <2>2. f[p] \in Blocks /\ f[p] # NULL
    BY <2>1 DEF Line
  <2>3. f[p] # f[p - 1]
    <3>1. CASE p - 1 \in 1..n
      BY <2>1, <3>1 DEF Line
    <3>2. CASE p - 1 \notin 1..n
      BY <2>1, <2>2, <3>2 DEF Line
    <3> QED BY <3>1, <3>2
  <2>4. f[p] # f[p + 1]
    <3>1. CASE p + 1 \in 1..n
      BY <2>1, <3>1 DEF Line
    <3>2. CASE p + 1 \notin 1..n
      BY <2>1, <2>2, <3>2 DEF Line
    <3> QED BY <3>1, <3>2
  <2> QED BY <2>1, <2>2, <2>3, <2>4
<1>2. PICK g : /\ g = Without(f, p) /\ Line(g, n - 1)
               /\ \A k \in Int : g[k] = IF k < p THEN f[k] ELSE f[k + 1]
               /\ \A k \in 1..n - 1 : g[k] # b
  BY <1>1, WithoutIsLine
<1>3. /\ n \in Nat /\ p \in Int /\ f \in [Int -> Blocks \cup {NULL}]
      /\ \A k \in Int : f[k] # NULL <=> k \in 1..n
      /\ \A j, k \in 1..n : f[j] = f[k] => j = k
  BY DEF Line
<1>4. /\ l \in Lists /\ l.newest = f[1] /\ l.oldest = f[n]
      /\ l.next[b] = after /\ l.prev[b] = before
      /\ \A k \in 1..n : l.next[f[k]] = f[k + 1] /\ l.prev[f[k]] = f[k - 1]
      /\ \A c \in Blocks : (\A k \in 1..n : f[k] # c) => l.next[c] = NULL /\ l.prev[c] = NULL
  BY <1>1 DEF Links
<1>5. PICK r : /\ r = Detach(l, b)
               /\ r.newest = (IF l.newest = b THEN after ELSE l.newest)
               /\ r.oldest = (IF l.oldest = b THEN before ELSE l.oldest)
               /\ \A c \in Blocks : r.next[c] = IF c = b THEN NULL
                                                ELSE IF c = before THEN after ELSE l.next[c]
               /\ \A c \in Blocks : r.prev[c] = IF c = b THEN NULL
                                                ELSE IF c = after THEN before ELSE l.prev[c]
               /\ r \in Lists
  <2>1. Detach(l, b).newest = (IF l.newest = b THEN after ELSE l.newest)
    BY <1>4 DEF Detach
  <2>2. Detach(l, b).oldest = (IF l.oldest = b THEN before ELSE l.oldest)
    BY <1>4 DEF Detach
  <2>3. \A c \in Blocks : Detach(l, b).next[c] = IF c = b THEN NULL
                                                 ELSE IF c = before THEN after ELSE l.next[c]
    BY <1>1, <1>4 DEF Detach
  <2>4. \A c \in Blocks : Detach(l, b).prev[c] = IF c = b THEN NULL
                                                 ELSE IF c = after THEN before ELSE l.prev[c]
    BY <1>1, <1>4 DEF Detach
  <2>5. Detach(l, b) \in Lists
    BY <1>4 DEF Detach, Lists
  <2> QED BY <2>1, <2>2, <2>3, <2>4, <2>5
<1>6. r.newest = g[1]
  <2>1. CASE p = 1
    <3>1. g[1] = f[1 + 1]
      BY <1>2, <2>1
    <3> QED BY <1>1, <1>4, <1>5, <2>1, <3>1
  <2>2. CASE p # 1
    <3>1. 1 \in 1..n /\ 1 < p
      BY <1>3, <2>2
    <3>2. f[1] # b
      BY <1>1, <1>3, <2>2, <3>1
    <3> QED BY <1>2, <1>4, <1>5, <3>1, <3>2
  <2> QED BY <2>1, <2>2
<1>7. r.oldest = g[n - 1]
  <2>0. n \in 1..n /\ n - 1 \in Int
    BY <1>3
  <2>1. CASE p = n
    BY <1>1, <1>2, <1>3, <1>4, <1>5, <2>0, <2>1
  <2>2. CASE p # n
    <3>1. ~ (n - 1 < p) /\ n - 1 + 1 = n
      BY <1>3, <2>2
    <3>2. f[n] # b
      BY <1>1, <1>3, <2>0, <2>2
    <3> QED BY <1>2, <1>4, <1>5, <2>0, <3>1, <3>2
  <2> QED BY <2>1, <2>2
<1>8. ASSUME NEW k \in 1..n - 1 PROVE r.next[g[k]] = g[k + 1] /\ r.prev[g[k]] = g[k - 1]
  <2>0. /\ k \in Int /\ k + 1 \in Int /\ k - 1 \in Int /\ k \in 1..n /\ k + 1 \in 1..n
        /\ g[k] \in Blocks /\ g[k] # b
    <3>1. k \in Int /\ k + 1 \in Int /\ k - 1 \in Int /\ k \in 1..n /\ k + 1 \in 1..n
      BY <1>3
    <3> QED BY <1>2, <3>1 DEF Line
  <2>1. CASE k < p
    <3>1. g[k] = f[k] /\ g[k - 1] = f[k - 1]
      BY <1>2, <1>3, <2>0, <2>1
    <3>2. l.next[f[k]] = f[k + 1] /\ l.prev[f[k]] = f[k - 1]
      BY <1>4, <2>0
    <3>3. f[k] # after
      <4>1. k # p + 1
        BY <1>3, <2>0, <2>1
      <4>2. CASE p + 1 \in 1..n
        BY <1>1, <1>3, <2>0, <4>1, <4>2
      <4>3. CASE p + 1 \notin 1..n
        <5>1. p + 1 \in Int
          BY <1>3
        <5> QED BY <1>1, <1>3, <2>0, <4>3, <5>1
      <4> QED BY <4>2, <4>3
    <3>4. r.prev[g[k]] = g[k - 1]
      BY <1>5, <2>0, <3>1, <3>2, <3>3
    <3>5. CASE k = p - 1
      <4>1. g[k + 1] = f[p + 1]
        <5>1. k + 1 = p /\ ~ (k + 1 < p)
          BY <1>3, <3>5
        <5> QED BY <1>2, <2>0, <5>1
      <4>2. f[k] = before
        BY <1>1, <3>5
      <4> QED BY <1>1, <1>5, <2>0, <3>1, <3>4, <4>1, <4>2
    <3>6. CASE k # p - 1
      <4>1. k + 1 < p /\ g[k + 1] = f[k + 1]
        <5>1. k + 1 < p
          BY <1>3, <2>0, <2>1, <3>6
        <5> QED BY <1>2, <2>0, <5>1
      <4>2. p - 1 \in 1..n
        BY <1>3, <2>0, <2>1
      <4>3. f[k] # before
        BY <1>1, <1>3, <2>0, <3>6, <4>2
      <4> QED BY <1>5, <2>0, <3>1, <3>2, <3>4, <4>1, <4>3
    <3> QED BY <3>5, <3>6
  <2>2. CASE ~ (k < p)
    <3>1. g[k] = f[k + 1] /\ g[k + 1] = f[k + 1 + 1]
      <4>1. ~ (k + 1 < p)
        BY <1>3, <2>0, <2>2
      <4> QED BY <1>2, <2>0, <2>2, <4>1
    <3>2. l.next[f[k + 1]] = f[k + 1 + 1] /\ l.prev[f[k + 1]] = f[k]
      <4>1. k + 1 - 1 = k
        BY <2>0
      <4> QED BY <1>4, <2>0, <4>1
    <3>3. f[k + 1] # before
      <4>1. k + 1 # p - 1
        BY <1>3, <2>0, <2>2
      <4>2. CASE p - 1 \in 1..n
        BY <1>1, <1>3, <2>0, <4>1, <4>2
      <4>3. CASE p - 1 \notin 1..n
        <5>1. p - 1 \in Int
          BY <1>3
        <5> QED BY <1>1, <1>3, <2>0, <4>3, <5>1
      <4> QED BY <4>2, <4>3
    <3>4. r.next[g[k]] = g[k + 1]
      BY <1>5, <2>0, <3>1, <3>2, <3>3
    <3>5. CASE k = p
      <4>1. f[k + 1] = after
        BY <1>1, <3>5
      <4>2. g[k - 1] = before
        <5>1. k - 1 < p /\ k - 1 = p - 1
          BY <1>3, <3>5
        <5> QED BY <1>1, <1>2, <2>0, <5>1
      <4> QED BY <1>5, <2>0, <3>1, <3>4, <4>1, <4>2
    <3>6. CASE k # p
      <4>1. ~ (k - 1 < p) /\ k - 1 + 1 = k
        BY <1>3, <2>0, <2>2, <3>6
      <4>2. g[k - 1] = f[k]
        BY <1>2, <2>0, <4>1
      <4>3. p + 1 \in 1..n
        BY <1>3, <2>0, <2>2, <3>6
      <4>4. f[k + 1] # after
        <5>1. k + 1 # p + 1
          BY <1>3, <2>0, <3>6
        <5> QED BY <1>1, <1>3, <2>0, <4>3, <5>1
      <4> QED BY <1>5, <2>0, <3>1, <3>2, <3>4, <4>2, <4>4
    <3> QED BY <3>5, <3>6
  <2> QED BY <2>1, <2>2
<1>9. ASSUME NEW c \in Blocks, \A k \in 1..n - 1 : g[k] # c
      PROVE  r.next[c] = NULL /\ r.prev[c] = NULL
  <2>1. CASE c = b
    BY <1>5, <2>1
  <2>2. CASE c # b
    <3>1. \A k \in 1..n : f[k] # c
      <4> SUFFICES ASSUME NEW k \in 1..n, f[k] = c PROVE FALSE
        OBVIOUS
      <4>1. CASE k < p
        <5>1. k \in 1..n - 1 /\ k \in Int
          BY <1>3, <4>1
        <5> QED BY <1>2, <1>9, <4>1, <5>1
      <4>2. CASE k = p
        BY <1>1, <2>2, <4>2
      <4>3. CASE k > p
        <5>1. k - 1 \in 1..n - 1 /\ k - 1 \in Int /\ ~ (k - 1 < p) /\ k - 1 + 1 = k
          BY <1>3, <4>3
        <5> QED BY <1>2, <1>9, <5>1
      <4> QED BY <1>3, <4>1, <4>2, <4>3
    <3>2. c # before /\ c # after
      <4>1. p - 1 \in Int /\ p + 1 \in Int /\ c # NULL
        BY <1>3, BlocksAreFinite
      <4> QED BY <1>1, <1>3, <3>1, <4>1
    <3> QED BY <1>4, <1>5, <2>2, <3>1, <3>2
  <2> QED BY <2>1, <2>2
<1> QED BY <1>1, <1>2, <1>5, <1>6, <1>7, <1>8, <1>9 DEF Links

\* The line with a block more in front.
InFront(f, b) == [k \in Int |-> IF k = 1 THEN b ELSE f[k - 1]]

LEMMA InFrontIsLine ==
    ASSUME NEW f, NEW n, Line(f, n), NEW b \in Blocks, \A k \in 1..n : f[k] # b
    PROVE  /\ Line(InFront(f, b), n + 1)
           /\ \A k \in Int : InFront(f, b)[k] = IF k = 1 THEN b ELSE f[k - 1]
<1> DEFINE g == InFront(f, b)
<1>1. n \in Nat /\ f \in [Int -> Blocks \cup {NULL}] /\ b # NULL
  BY BlocksAreFinite DEF Line
<1>2. g \in [Int -> Blocks \cup {NULL}] /\ \A k \in Int : g[k] = IF k = 1 THEN b ELSE f[k - 1]
  BY <1>1 DEF InFront
<1> HIDE DEF g
<1>3. ASSUME NEW k \in Int PROVE g[k] # NULL <=> k \in 1..n + 1
  <2>1. CASE k = 1
    BY <1>1, <1>2, <2>1
  <2>2. CASE k # 1
    <3>1. k - 1 \in Int /\ (k - 1 \in 1..n <=> k \in 1..n + 1)
      BY <1>1, <2>2
    <3> QED BY <1>2, <2>2, <3>1 DEF Line
  <2> QED BY <2>1, <2>2
<1>4. \A k \in 1..n + 1 : k # 1 => k - 1 \in 1..n /\ g[k] = f[k - 1] /\ g[k] # b
  BY <1>1, <1>2
<1>5. g[1] = b
  BY <1>2
<1>6. ASSUME NEW j \in 1..n + 1, NEW k \in 1..n + 1, g[j] = g[k] PROVE j = k
  <2>1. CASE j = 1 \/ k = 1
    BY <1>4, <1>5, <1>6, <2>1
  <2>2. CASE j # 1 /\ k # 1
    <3>1. j - 1 \in 1..n /\ k - 1 \in 1..n /\ f[j - 1] = f[k - 1]
      BY <1>4, <1>6, <2>2
    <3>2. j - 1 = k - 1
      BY <3>1 DEF Line
    <3> QED BY <1>1, <3>2
  <2> QED BY <2>1, <2>2
<1>7. n + 1 \in Nat
  BY <1>1
<1> QED BY <1>2, <1>3, <1>6, <1>7 DEF Line, g

\* The list with a block more in front.
Push(l, b) ==
    [newest |-> b,
     oldest |-> IF l.oldest = NULL THEN b ELSE l.oldest,
     next |-> [c \in Blocks |-> IF c = b THEN l.newest ELSE l.next[c]],
     prev |-> [c \in Blocks |-> IF c = b THEN NULL ELSE IF c = l.newest THEN b ELSE l.prev[c]]]

LEMMA PushLinks ==
    ASSUME NEW l, NEW f, NEW n, Line(f, n), Links(l, f, n),
           NEW b \in Blocks, \A k \in 1..n : f[k] # b
    PROVE  Links(Push(l, b), InFront(f, b), n + 1)
<1>1. PICK g : /\ g = InFront(f, b) /\ Line(g, n + 1)
               /\ \A k \in Int : g[k] = IF k = 1 THEN b ELSE f[k - 1]
  BY InFrontIsLine
<1>2. /\ n \in Nat /\ f \in [Int -> Blocks \cup {NULL}] /\ b # NULL
      /\ \A k \in Int : f[k] # NULL <=> k \in 1..n
      /\ \A j, k \in 1..n : f[j] = f[k] => j = k
  BY BlocksAreFinite DEF Line
<1>3. /\ l \in Lists /\ l.newest = f[1] /\ l.oldest = f[n]
      /\ \A k \in 1..n : l.next[f[k]] = f[k + 1] /\ l.prev[f[k]] = f[k - 1]
      /\ \A c \in Blocks : (\A k \in 1..n : f[k] # c) => l.next[c] = NULL /\ l.prev[c] = NULL
  BY DEF Links
<1>4. PICK r : /\ r = Push(l, b) /\ r.newest = b
               /\ r.oldest = (IF l.oldest = NULL THEN b ELSE l.oldest)
               /\ \A c \in Blocks : r.next[c] = IF c = b THEN l.newest ELSE l.next[c]
               /\ \A c \in Blocks : r.prev[c] = IF c = b THEN NULL
                                                ELSE IF c = l.newest THEN b ELSE l.prev[c]
               /\ r \in Lists
  <2>1. Push(l, b).newest = b /\ Push(l, b).oldest = (IF l.oldest = NULL THEN b ELSE l.oldest)
    BY DEF Push
  <2>2. \A c \in Blocks : Push(l, b).next[c] = IF c = b THEN l.newest ELSE l.next[c]
    BY DEF Push
  <2>3. \A c \in Blocks : Push(l, b).prev[c] = IF c = b THEN NULL
                                               ELSE IF c = l.newest THEN b ELSE l.prev[c]
    BY DEF Push
  <2>4. Push(l, b) \in Lists
    BY <1>3 DEF Push, Lists
  <2> QED BY <2>1, <2>2, <2>3, <2>4
<1>5. r.newest = g[1]
  BY <1>1, <1>4
<1>6. r.oldest = g[n + 1]
  <2>1. CASE n = 0
    BY <1>1, <1>2, <1>3, <1>4, <2>1
  <2>2. CASE n # 0
    <3>1. n \in 1..n /\ n + 1 - 1 = n /\ n + 1 # 1 /\ n + 1 \in Int /\ n \in Int
      BY <1>2, <2>2
    <3> QED BY <1>1, <1>2, <1>3, <1>4, <3>1
  <2> QED BY <2>1, <2>2
<1>7. ASSUME NEW k \in 1..n + 1 PROVE r.next[g[k]] = g[k + 1] /\ r.prev[g[k]] = g[k - 1]
  <2>0. k \in Int /\ k + 1 \in Int /\ k - 1 \in Int /\ k + 1 # 1 /\ k + 1 - 1 = k
    BY <1>2
  <2>1. CASE k = 1
    <3>1. g[k] = b /\ g[k + 1] = f[1]
      BY <1>1, <2>0, <2>1
    <3>2. g[k - 1] = NULL
      <4>1. k - 1 # 1 /\ k - 1 - 1 \in Int /\ k - 1 - 1 \notin 1..n
        BY <2>1
      <4> QED BY <1>1, <1>2, <2>0, <4>1
    <3> QED BY <1>3, <1>4, <3>1, <3>2
  <2>2. CASE k # 1
    <3>1. PICK j \in 1..n : j = k - 1
      BY <1>2, <2>2
    <3>2. g[k] = f[j] /\ g[k + 1] = f[j + 1] /\ f[j] \in Blocks /\ f[j] # b
      <4>1. j \in Int /\ j + 1 = k /\ f[j] # b
        BY <2>0, <3>1
      <4>2. g[k] = f[j] /\ g[k + 1] = f[j + 1]
        BY <1>1, <2>0, <2>2, <3>1, <4>1
      <4> QED BY <1>2, <4>1, <4>2
    <3>3. r.next[g[k]] = g[k + 1]
      BY <1>3, <1>4, <3>2
    <3>4. CASE j = 1
      <4>1. g[k - 1] = b
        BY <1>1, <2>0, <3>1, <3>4
      <4> QED BY <1>3, <1>4, <3>2, <3>3, <3>4, <4>1
    <3>5. CASE j # 1
      <4>1. g[k - 1] = f[j - 1]
        BY <1>1, <2>0, <3>1, <3>5
      <4>2. f[j] # f[1]
        <5>1. 1 \in 1..n
          BY <1>2
        <5> QED BY <1>2, <3>5, <5>1
      <4> QED BY <1>3, <1>4, <3>2, <3>3, <4>1, <4>2
    <3> QED BY <3>4, <3>5
  <2> QED BY <2>1, <2>2
<1>8. ASSUME NEW c \in Blocks, \A k \in 1..n + 1 : g[k] # c
      PROVE  r.next[c] = NULL /\ r.prev[c] = NULL
  <2>1. c # b
    <3>1. 1 \in 1..n + 1 /\ g[1] = b
      BY <1>1, <1>2
    <3> QED BY <1>8, <3>1
  <2>2. \A k \in 1..n : f[k] # c
    <3> SUFFICES ASSUME NEW k \in 1..n PROVE f[k] # c
      OBVIOUS
    <3>1. PICK j \in 1..n + 1 : j = k + 1 /\ j # 1 /\ j - 1 = k /\ j \in Int
      BY <1>2
    <3>2. g[j] = f[k]
      BY <1>1, <3>1
    <3> QED BY <1>8, <3>2
  <2>3. c # l.newest
    <3>1. c # NULL
      BY BlocksAreFinite
    <3> QED BY <1>2, <1>3, <2>2, <3>1
  <2> QED BY <1>3, <1>4, <2>1, <2>2, <2>3
<1> QED BY <1>1, <1>4, <1>5, <1>6, <1>7, <1>8 DEF Links

\* Detaching a block that is in no line changes nothing.
LEMMA DetachNothing ==
    ASSUME NEW l, NEW f, NEW n, Line(f, n), Links(l, f, n),
           NEW b \in Blocks, \A k \in 1..n : f[k] # b
    PROVE  Links(Detach(l, b), f, n)
<1>1. /\ l \in Lists /\ l.newest = f[1] /\ l.oldest = f[n] /\ l.next[b] = NULL /\ l.prev[b] = NULL
      /\ \A k \in 1..n : l.next[f[k]] = f[k + 1] /\ l.prev[f[k]] = f[k - 1]
      /\ \A c \in Blocks : (\A k \in 1..n : f[k] # c) => l.next[c] = NULL /\ l.prev[c] = NULL
  BY DEF Links
<1>2. n \in Nat /\ f[1] # b /\ f[n] # b /\ b # NULL /\ \A c \in Blocks : c # NULL
  BY BlocksAreFinite DEF Line
<1>3. Detach(l, b).newest = l.newest /\ Detach(l, b).oldest = l.oldest
  BY <1>1, <1>2 DEF Detach
<1>4. \A c \in Blocks : Detach(l, b).next[c] = l.next[c]
  BY <1>1, <1>2 DEF Detach
<1>5. \A c \in Blocks : Detach(l, b).prev[c] = l.prev[c]
  BY <1>1, <1>2 DEF Detach
<1>6. Detach(l, b) \in Lists
  BY <1>1 DEF Detach, Lists
<1>7. \A k \in 1..n : f[k] \in Blocks
  BY DEF Line
<1> QED BY <1>1, <1>3, <1>4, <1>5, <1>6, <1>7 DEF Links

\* Touch is Detach, and then a push to the front.
LEMMA TouchIsDetachAndPush ==
    ASSUME NEW l \in Lists, NEW b \in Blocks, l.newest # b,
           l.next[b] # b, l.prev[b] # b,
           l.next[b] = NULL \/ l.next[b] # l.newest
    PROVE  Touch(l, b) = Push(Detach(l, b), b)
<1>1. PICK before \in Blocks \cup {NULL}, after \in Blocks \cup {NULL} :
         before = l.prev[b] /\ after = l.next[b] /\ before # b /\ after # b
         /\ (after = NULL \/ after # l.newest) /\ NULL \notin Blocks
  BY BlocksAreFinite DEF Lists
<1> DEFINE tail == IF l.oldest = b THEN before ELSE l.oldest
           next == [c \in Blocks |-> CASE c = b -> NULL [] c = before -> after [] OTHER -> l.next[c]]
           prev == [c \in Blocks |-> CASE c = b -> NULL [] c = after -> before [] OTHER -> l.prev[c]]
           next2 == [c \in Blocks |-> CASE c = b -> l.newest [] c = before -> after [] OTHER -> l.next[c]]
           prev2 == [c \in Blocks |-> CASE c = b -> NULL [] c = l.newest -> b
                                        [] c = after -> before [] OTHER -> l.prev[c]]
<1>2. Detach(l, b) = [newest |-> l.newest, oldest |-> tail, next |-> next, prev |-> prev]
  BY <1>1 DEF Detach
<1>3. Touch(l, b) = [newest |-> b, oldest |-> IF tail = NULL THEN b ELSE tail,
                     next |-> next2, prev |-> prev2]
  BY <1>1 DEF Touch
<1>4. next2 = [c \in Blocks |-> IF c = b THEN l.newest ELSE next[c]]
  <2>1. \A c \in Blocks : next2[c] = IF c = b THEN l.newest ELSE next[c]
    BY <1>1
  <2> HIDE DEF next
  <2> QED BY <2>1
<1>5. prev2 = [c \in Blocks |-> IF c = b THEN NULL ELSE IF c = l.newest THEN b ELSE prev[c]]
  <2>1. \A c \in Blocks : prev2[c] = IF c = b THEN NULL ELSE IF c = l.newest THEN b ELSE prev[c]
    BY <1>1
  <2> HIDE DEF prev
  <2> QED BY <2>1
<1> HIDE DEF next, prev, next2, prev2, tail
<1> QED BY <1>2, <1>3, <1>4, <1>5 DEF Push

\* A block of the line, or a new one, comes to the front.
LEMMA TouchFirstLinks ==
    ASSUME NEW l, NEW f, NEW n, Line(f, n), Links(l, f, n), 1 \in 1..n
    PROVE  Touch(l, f[1]) = l
<1>1. l.newest = f[1]
  BY DEF Links
<1> QED BY <1>1 DEF Touch

LEMMA TouchListedLinks ==
    ASSUME NEW l, NEW f, NEW n, Line(f, n), Links(l, f, n), NEW p \in 1..n, p # 1
    PROVE  /\ Line(InFront(Without(f, p), f[p]), n)
           /\ Links(Touch(l, f[p]), InFront(Without(f, p), f[p]), n)
<1>1. /\ n \in Nat /\ p \in Int /\ p - 1 \in Int /\ p + 1 \in Int /\ 1 \in 1..n
      /\ p - 1 \in 1..n /\ f \in [Int -> Blocks \cup {NULL}]
      /\ \A k \in Int : f[k] # NULL <=> k \in 1..n
      /\ \A j, k \in 1..n : f[j] = f[k] => j = k
  BY DEF Line
<1>2. /\ l \in Lists /\ l.newest = f[1]
      /\ l.next[f[p]] = f[p + 1] /\ l.prev[f[p]] = f[p - 1]
  BY DEF Links
<1>3. f[p] \in Blocks /\ f[p] # f[1] /\ f[p] # f[p - 1]
  BY <1>1
<1>4. f[p + 1] # f[p] /\ (f[p + 1] = NULL \/ f[p + 1] # f[1])
  <2>1. CASE p + 1 \in 1..n
    <3>1. p + 1 # p /\ p + 1 # 1
      BY <1>1
    <3> QED BY <1>1, <2>1, <3>1
  <2>2. CASE p + 1 \notin 1..n
    BY <1>1, <1>3, <2>2, BlocksAreFinite
  <2> QED BY <2>1, <2>2
<1>5. Touch(l, f[p]) = Push(Detach(l, f[p]), f[p])
  BY <1>2, <1>3, <1>4, TouchIsDetachAndPush
<1>6. /\ Line(Without(f, p), n - 1) /\ \A k \in 1..n - 1 : Without(f, p)[k] # f[p]
      /\ Links(Detach(l, f[p]), Without(f, p), n - 1)
  BY WithoutIsLine, DetachLinks
<1>7. n - 1 + 1 = n
  BY <1>1
<1>8. Links(Push(Detach(l, f[p]), f[p]), InFront(Without(f, p), f[p]), n - 1 + 1)
  BY <1>3, <1>6, PushLinks
<1>9. Line(InFront(Without(f, p), f[p]), n - 1 + 1)
  BY <1>3, <1>6, InFrontIsLine
<1> QED BY <1>5, <1>7, <1>8, <1>9

LEMMA TouchNewLinks ==
    ASSUME NEW l, NEW f, NEW n, Line(f, n), Links(l, f, n),
           NEW b \in Blocks, \A k \in 1..n : f[k] # b
    PROVE  /\ Line(InFront(f, b), n + 1)
           /\ Links(Touch(l, b), InFront(f, b), n + 1)
<1>1. /\ l \in Lists /\ l.newest = f[1] /\ l.next[b] = NULL /\ l.prev[b] = NULL
  BY DEF Links
<1>2. f[1] # b /\ b # NULL
  BY BlocksAreFinite DEF Line
<1>3. Touch(l, b) = Push(Detach(l, b), b)
  BY <1>1, <1>2, TouchIsDetachAndPush
<1>4. Links(Detach(l, b), f, n)
  BY DetachNothing
<1>5. Links(Push(Detach(l, b), b), InFront(f, b), n + 1)
  BY <1>4, PushLinks
<1>6. Line(InFront(f, b), n + 1)
  BY InFrontIsLine
<1> QED BY <1>3, <1>5, <1>6

\* Which blocks are in the line afterwards.
LEMMA WithoutHolds ==
    ASSUME NEW f, NEW n, Line(f, n), NEW p \in 1..n, NEW c
    PROVE  (\E k \in 1..n - 1 : Without(f, p)[k] = c) <=> (c # f[p] /\ \E k \in 1..n : f[k] = c)
<1>1. PICK g : /\ g = Without(f, p)
               /\ \A k \in Int : g[k] = IF k < p THEN f[k] ELSE f[k + 1]
               /\ \A k \in 1..n - 1 : g[k] # f[p]
  BY WithoutIsLine
<1>2. n \in Nat /\ p \in Int
  BY DEF Line
<1>3. ASSUME NEW k \in 1..n - 1, g[k] = c PROVE c # f[p] /\ \E j \in 1..n : f[j] = c
  <2>1. k \in Int /\ k \in 1..n /\ k + 1 \in 1..n
    BY <1>2
  <2> QED BY <1>1, <1>3, <2>1
<1>4. ASSUME c # f[p], NEW k \in 1..n, f[k] = c PROVE \E j \in 1..n - 1 : g[j] = c
  <2>1. CASE k < p
    <3>1. k \in 1..n - 1 /\ k \in Int
      BY <1>2, <2>1
    <3> QED BY <1>1, <1>4, <2>1, <3>1
  <2>2. CASE k > p
    <3>1. k - 1 \in 1..n - 1 /\ k - 1 \in Int /\ ~ (k - 1 < p) /\ k - 1 + 1 = k
      BY <1>2, <2>2
    <3> QED BY <1>1, <1>4, <3>1
  <2>3. k # p
    BY <1>4
  <2> QED BY <1>2, <2>1, <2>2, <2>3
<1> QED BY <1>1, <1>3, <1>4

LEMMA InFrontHolds ==
    ASSUME NEW f, NEW n, Line(f, n), NEW b \in Blocks, \A k \in 1..n : f[k] # b, NEW c
    PROVE  (\E k \in 1..n + 1 : InFront(f, b)[k] = c) <=> (c = b \/ \E k \in 1..n : f[k] = c)
<1>1. PICK g : /\ g = InFront(f, b)
               /\ \A k \in Int : g[k] = IF k = 1 THEN b ELSE f[k - 1]
  BY InFrontIsLine
<1>2. n \in Nat
  BY DEF Line
<1>3. ASSUME NEW k \in 1..n + 1, g[k] = c PROVE c = b \/ \E j \in 1..n : f[j] = c
  <2>1. k \in Int /\ (k # 1 => k - 1 \in 1..n)
    BY <1>2
  <2> QED BY <1>1, <1>3, <2>1
<1>4. ASSUME NEW k \in 1..n, f[k] = c PROVE \E j \in 1..n + 1 : g[j] = c
  <2>1. k + 1 \in 1..n + 1 /\ k + 1 \in Int /\ k + 1 # 1 /\ k + 1 - 1 = k
    BY <1>2
  <2> QED BY <1>1, <1>4, <2>1
<1>5. 1 \in 1..n + 1 /\ g[1] = b
  BY <1>1, <1>2
<1> QED BY <1>1, <1>3, <1>4, <1>5

-----------------------------------------------------------------------------
(* What the steps do to the list, and which blocks are in it.               *)

\* A block that is being made is not known yet.
NewIsUnknown == \A t \in Threads : hRBMutex = t => op[t].block \notin papoBlocks

\* The blocks that are in the list: those the bands know, and one that waits to
\* be adopted.
Listed(b) == LET t == Band(b) IN
    b \in papoBlocks \/ (op[t] # NULL /\ op[t].block = b /\ pc[t] = "adopt")

ListIsLine ==
    \E n, f : /\ Line(f, n) /\ Links(list, f, n)
              /\ \A b \in Blocks : Listed(b) <=> \E k \in 1..n : f[k] = b

ListInvariant == NewIsUnknown /\ ListIsLine

\* What a step does to the list.
ListStays == list' = list /\ \A c \in Blocks : Listed(c)' <=> Listed(c)

ListMoves ==
    \/ ListStays
    \/ \E b \in Blocks : /\ list' = Touch(list, b)
                         /\ \A c \in Blocks : Listed(c)' <=> Listed(c) \/ c = b
    \/ \E b \in Blocks : /\ Listed(b)
                         /\ list' = Detach(list, b)
                         /\ \A c \in Blocks : Listed(c)' <=> Listed(c) /\ c # b

\* The victim of an eviction is found in the list.
LEMMA OldestUnlockedIsListed ==
    ASSUME ListInvariant, NEW b \in Blocks, OldestUnlocked(b)
    PROVE  Listed(b)
<1>1. PICK n, f, l : /\ l = list /\ Line(f, n) /\ Links(l, f, n)
                     /\ \A c \in Blocks : Listed(c) <=> \E k \in 1..n : f[k] = c
  BY DEF ListInvariant, ListIsLine
<1>2. Walk(l.oldest, l.prev) = InOrder(Turned(f, n), n)
  BY <1>1, WalksMeetTheLine
<1>3. PICK k \in 1..n : Turned(f, n)[k] = b
  BY <1>1, <1>2 DEF OldestUnlocked, InOrder
<1>4. n + 1 - k \in 1..n /\ k \in Int
  BY <1>1 DEF Line
<1>5. f[n + 1 - k] = b
  BY <1>3, <1>4 DEF Turned
<1> QED BY <1>1, <1>4, <1>5

\* The steps that leave the list alone.
LEMMA StepLeavesList ==
    ASSUME LockInvariant, ListInvariant, NEW t \in Threads,
           Begin(t) \/ ReportBeforeWrite(t) \/ Internalize(t) \/ Load(t) \/ UseBlock(t) \/ DropLock(t)
           \/ WriteVictim(t) \/ RereadError(t) \/ DeleteVictim(t) \/ BeginFlush(t) \/ FlushReport(t) \/ EndFlush(t)
    PROVE  ListStays /\ NewIsUnknown'
<1>0. /\ pc \in [Threads -> PCs] /\ op \in [Threads -> {NULL} \cup Operations]
      /\ hRBMutex \in Threads \cup {NULL}
  BY DEF LockInvariant, Shapes
<1>1. list' = list /\ papoBlocks' = papoBlocks
  BY DEF Begin, ReportBeforeWrite, Internalize, Load, UseBlock, DropLock, WriteVictim, RereadError, DeleteVictim,
         BeginFlush, FlushReport, EndFlush
<1>2. /\ pc[t] # "adopt" /\ pc'[t] # "adopt"
      /\ \A u \in Threads \ {t} : pc'[u] = pc[u] /\ op'[u] = op[u]
  <2>1. CASE Begin(t) \/ ReportBeforeWrite(t) \/ Internalize(t)
    BY <1>0, <2>1 DEF Begin, ReportBeforeWrite, Internalize, Goto
  <2>2. CASE Load(t) \/ UseBlock(t) \/ DropLock(t)
    BY <1>0, <2>2 DEF Load, UseBlock, DropLock, Goto
  <2>3. CASE WriteVictim(t) \/ RereadError(t)
    BY <1>0, <2>3 DEF WriteVictim, RereadError, Goto
  <2>4. CASE DeleteVictim(t)
    BY <1>0, <2>4 DEF DeleteVictim, EndFlushBlock, Goto
  <2>5. CASE BeginFlush(t) \/ FlushReport(t) \/ EndFlush(t)
    BY <1>0, <2>5 DEF BeginFlush, FlushReport, EndFlush, Goto
  <2> QED BY <2>1, <2>2, <2>3, <2>4, <2>5
<1>3. \A c \in Blocks : Listed(c)' <=> Listed(c)
  BY <1>1, <1>2, Facts DEF Listed
<1>4. NewIsUnknown'
  <2>1. CASE Internalize(t)
    <3>1. /\ pc[t] = "create" /\ op[t].block \notin papoBlocks /\ hRBMutex = NULL
      BY <2>1 DEF Internalize, LockInvariant, Stages, MutexFree
    <3>2. (hRBMutex' = t /\ op' = op) \/ hRBMutex' = hRBMutex
      BY <2>1 DEF Internalize
    <3> QED BY <1>1, <3>1, <3>2, Facts DEF NewIsUnknown
  <2>2. CASE ~ Internalize(t)
    <3>1. hRBMutex' = hRBMutex
      BY <2>2 DEF Begin, ReportBeforeWrite, Load, UseBlock, DropLock, WriteVictim, RereadError, DeleteVictim,
         BeginFlush, FlushReport, EndFlush
    <3>2. hRBMutex = t => op'[t] = op[t]
      <4>1. hRBMutex = t => pc[t] \in {"evict", "write", "reread", "delete"}
        BY DEF LockInvariant, Stages
      <4>2. CASE DeleteVictim(t)
        BY <1>0, <4>2 DEF DeleteVictim, EndFlushBlock, Evicts
      <4>3. CASE ~ DeleteVictim(t)
        BY <1>0, <2>2, <4>1, <4>3 DEF Begin, ReportBeforeWrite, Load, UseBlock, DropLock, WriteVictim, RereadError,
           BeginFlush, FlushReport, EndFlush
      <4> QED BY <4>2, <4>3
    <3> QED BY <1>1, <1>2, <3>1, <3>2 DEF ListInvariant, NewIsUnknown
  <2> QED BY <2>1, <2>2
<1> QED BY <1>1, <1>3, <1>4 DEF ListStays

LEMMA TryGetMoves ==
    ASSUME LockInvariant, ListInvariant, NEW t \in Threads, TryGet(t)
    PROVE  ListMoves /\ NewIsUnknown'
<1>0. /\ pc \in [Threads -> PCs] /\ pc[t] = "tryGet" /\ op[t].block \in Blocks
  BY Facts DEF LockInvariant, Shapes, Stages, Working, TryGet
<1>1. /\ UNCHANGED <<papoBlocks, op, hRBMutex>>
      /\ pc'[t] # "adopt" /\ \A u \in Threads \ {t} : pc'[u] = pc[u]
  BY <1>0 DEF TryGet, Goto
<1>2. \A c \in Blocks : Listed(c)' <=> Listed(c)
  BY <1>0, <1>1, Facts DEF Listed
<1>3. list' = list \/ (Listed(op[t].block) /\ list' = Touch(list, op[t].block))
  BY <1>0 DEF TryGet, Listed
<1>4. ListMoves
  BY <1>0, <1>2, <1>3 DEF ListMoves, ListStays
<1>5. NewIsUnknown'
  BY <1>1 DEF ListInvariant, NewIsUnknown
<1> QED BY <1>4, <1>5

LEMMA EndInternalizeMoves ==
    ASSUME LockInvariant, ListInvariant, NEW t \in Threads, EndInternalize(t)
    PROVE  ListMoves /\ NewIsUnknown'
<1>0. /\ pc \in [Threads -> PCs] /\ pc[t] = "evict" /\ op[t] # NULL
      /\ op[t].block \in Blocks /\ Band(op[t].block) = t
  BY Facts DEF LockInvariant, Shapes, Stages, Working, EndInternalize
<1>1. /\ UNCHANGED <<papoBlocks, op>> /\ hRBMutex' = NULL /\ list' = Touch(list, op[t].block)
      /\ pc'[t] = "adopt" /\ \A u \in Threads \ {t} : pc'[u] = pc[u]
  BY <1>0 DEF EndInternalize, Goto
<1>2. \A c \in Blocks : Listed(c)' <=> Listed(c) \/ c = op[t].block
  BY <1>0, <1>1, Facts DEF Listed
<1>3. ListMoves
  BY <1>0, <1>1, <1>2 DEF ListMoves
<1>4. NewIsUnknown'
  BY <1>1, Facts DEF NewIsUnknown
<1> QED BY <1>3, <1>4

LEMMA AdoptBlockMoves ==
    ASSUME LockInvariant, ListInvariant, NEW t \in Threads, AdoptBlock(t)
    PROVE  ListMoves /\ NewIsUnknown'
<1>0. /\ pc \in [Threads -> PCs] /\ pc[t] = "adopt" /\ op[t] # NULL
      /\ op[t].block \in Blocks /\ Band(op[t].block) = t
  BY Facts DEF LockInvariant, Shapes, Stages, Working, AdoptBlock
<1>1. /\ papoBlocks' = papoBlocks \cup {op[t].block} /\ UNCHANGED <<op, hRBMutex>>
      /\ list' = Touch(list, op[t].block)
      /\ pc'[t] # "adopt" /\ \A u \in Threads \ {t} : pc'[u] = pc[u]
  BY <1>0 DEF AdoptBlock, Goto
<1>2. \A c \in Blocks : Listed(c)' <=> Listed(c) \/ c = op[t].block
  BY <1>0, <1>1, Facts DEF Listed
<1>3. ListMoves
  BY <1>0, <1>1, <1>2 DEF ListMoves
<1>4. NewIsUnknown'
  <2> SUFFICES ASSUME NEW u \in Threads, hRBMutex = u PROVE op[u].block \notin papoBlocks'
    BY <1>1 DEF NewIsUnknown
  <2>1. u # t /\ op[u] # NULL /\ Band(op[u].block) = u
    BY <1>0 DEF LockInvariant, Stages
  <2> QED BY <1>0, <1>1, <2>1 DEF ListInvariant, NewIsUnknown
<1> QED BY <1>3, <1>4

\* A known or oldest unlocked block is taken out of its band and of the list.
LEMMA DetachMoves ==
    ASSUME LockInvariant, ListInvariant, NEW t \in Threads, NEW b \in Blocks,
           Listed(b),
           ~ (op[Band(b)] # NULL /\ op[Band(b)].block = b /\ pc[Band(b)] = "adopt"),
           list' = Detach(list, b), papoBlocks' = papoBlocks \ {b},
           pc' = [pc EXCEPT ![t] = "write"], pc[t] # "adopt", UNCHANGED <<op, hRBMutex>>
    PROVE  ListMoves /\ NewIsUnknown'
<1>0. pc \in [Threads -> PCs]
  BY DEF LockInvariant, Shapes
<1>1. pc'[t] # "adopt" /\ \A u \in Threads \ {t} : pc'[u] = pc[u]
  BY <1>0
<1>2. \A c \in Blocks : Listed(c)' <=> Listed(c) /\ c # b
  BY <1>1, Facts DEF Listed
<1>3. ListMoves
  BY <1>2 DEF ListMoves
<1>4. NewIsUnknown'
  BY DEF ListInvariant, NewIsUnknown
<1> QED BY <1>3, <1>4

LEMMA PickVictimMoves ==
    ASSUME LockInvariant, ListInvariant, NEW t \in Threads, PickVictim(t)
    PROVE  ListMoves /\ NewIsUnknown'
<1>1. PICK v \in Blocks : /\ OldestUnlocked(v) /\ papoBlocks' = papoBlocks \ {v} /\ list' = Detach(list, v)
  BY DEF PickVictim
<1>2. pc[t] = "evict" /\ pc' = [pc EXCEPT ![t] = "write"] /\ UNCHANGED <<op, hRBMutex>>
  BY DEF PickVictim, Goto
<1>3. Listed(v)
  BY <1>1, OldestUnlockedIsListed
<1>4. ~ InUse(v)
  BY <1>1 DEF OldestUnlocked, LockInvariant, CountsAreLocks
<1> QED BY <1>1, <1>2, <1>3, <1>4, DetachMoves DEF InUse

LEMMA TakeOutMoves ==
    ASSUME LockInvariant, ListInvariant, NEW t \in Threads, NEW b \in Blocks, Band(b) = t,
           pc[t] \in {"dropFailed", "flush"}, TakeOut(t, b), op' = op
    PROVE  ListMoves /\ NewIsUnknown'
<1>1. /\ b \in papoBlocks /\ papoBlocks' = papoBlocks \ {b} /\ list' = Detach(list, b)
      /\ pc' = [pc EXCEPT ![t] = "write"] /\ UNCHANGED <<op, hRBMutex>>
  BY DEF TakeOut, Goto
<1>2. Listed(b)
  BY <1>1 DEF Listed
<1> QED BY <1>1, <1>2, DetachMoves

LEMMA DropFailedMoves ==
    ASSUME LockInvariant, ListInvariant, NEW t \in Threads, DropFailed(t)
    PROVE  ListMoves /\ NewIsUnknown'
<1>0. /\ pc \in [Threads -> PCs] /\ op \in [Threads -> {NULL} \cup Operations]
      /\ pc[t] = "dropFailed" /\ op[t] # NULL
      /\ op[t].block \in Blocks /\ Band(op[t].block) = t /\ hRBMutex # t
  BY Facts DEF LockInvariant, Shapes, Stages, Working, DropFailed
<1>1. CASE TakeOut(t, op[t].block)
  <2>1. PICK b \in Blocks : b = op[t].block
    BY <1>0
  <2>2. op' = op
    BY <1>1 DEF TakeOut
  <2> QED BY <1>0, <1>1, <2>1, <2>2, TakeOutMoves
<1>2. CASE ~ TakeOut(t, op[t].block)
  <2>1. /\ UNCHANGED <<list, papoBlocks, hRBMutex>>
        /\ pc'[t] # "adopt" /\ \A u \in Threads \ {t} : pc'[u] = pc[u] /\ op'[u] = op[u]
    BY <1>0, <1>2 DEF DropFailed, Goto
  <2>2. \A c \in Blocks : Listed(c)' <=> Listed(c)
    BY <1>0, <2>1, Facts DEF Listed
  <2>3. NewIsUnknown'
    BY <1>0, <2>1 DEF ListInvariant, NewIsUnknown
  <2> QED BY <2>1, <2>2, <2>3 DEF ListMoves, ListStays
<1> QED BY <1>1, <1>2

LEMMA FlushNextMoves ==
    ASSUME LockInvariant, ListInvariant, NEW t \in Threads, FlushNext(t)
    PROVE  ListMoves /\ NewIsUnknown'
<1>1. PICK o \in Offsets : TakeOut(t, <<t, o>>)
  BY DEF FlushNext
<1>2. pc[t] = "flush" /\ op' = op
  BY <1>1 DEF FlushNext, TakeOut
<1>3. PICK b \in Blocks : b = <<t, o>> /\ Band(b) = t
  BY Facts
<1> QED BY <1>1, <1>2, <1>3, TakeOutMoves

LEMMA StepMoves ==
    ASSUME LockInvariant, ListInvariant, [Next]_vars
    PROVE  ListMoves /\ NewIsUnknown'
<1>1. CASE UNCHANGED vars
  BY <1>1 DEF vars, ListInvariant, NewIsUnknown, ListMoves, ListStays, Listed
<1>2. ASSUME NEW t \in Threads, Step(t) PROVE ListMoves /\ NewIsUnknown'
  <2>1. CASE \/ Begin(t) \/ ReportBeforeWrite(t) \/ Internalize(t) \/ Load(t) \/ UseBlock(t) \/ DropLock(t)
             \/ WriteVictim(t) \/ RereadError(t) \/ DeleteVictim(t) \/ BeginFlush(t) \/ FlushReport(t) \/ EndFlush(t)
    BY <2>1, StepLeavesList DEF ListMoves
  <2>2. CASE TryGet(t) \/ PickVictim(t) \/ EndInternalize(t) \/ AdoptBlock(t) \/ DropFailed(t) \/ FlushNext(t)
    BY <2>2, TryGetMoves, PickVictimMoves, EndInternalizeMoves, AdoptBlockMoves, DropFailedMoves, FlushNextMoves
  <2> QED BY <1>2, <2>1, <2>2 DEF Step
<1> QED BY <1>1, <1>2 DEF Next

\* The line after a block was touched: it is as before, or the block is new in
\* front, or has come to the front.
LEMMA TouchKeepsLine ==
    ASSUME NEW l, NEW f, NEW n, Line(f, n), Links(l, f, n), NEW b \in Blocks
    PROVE  \E m, g : /\ Line(g, m) /\ Links(Touch(l, b), g, m)
                     /\ \A c \in Blocks : (\E k \in 1..m : g[k] = c) <=> (c = b \/ \E k \in 1..n : f[k] = c)
<1>1. CASE \A k \in 1..n : f[k] # b
  <2>1. Line(InFront(f, b), n + 1) /\ Links(Touch(l, b), InFront(f, b), n + 1)
    BY <1>1, TouchNewLinks
  <2>2. ASSUME NEW c \in Blocks
        PROVE  (\E k \in 1..n + 1 : InFront(f, b)[k] = c) <=> (c = b \/ \E k \in 1..n : f[k] = c)
    BY <1>1, InFrontHolds
  <2> QED BY <2>1, <2>2
<1>2. ASSUME NEW p \in 1..n, f[p] = b
      PROVE  \E m, g : /\ Line(g, m) /\ Links(Touch(l, b), g, m)
                       /\ \A c \in Blocks : (\E k \in 1..m : g[k] = c) <=> (c = b \/ \E k \in 1..n : f[k] = c)
  <2>1. CASE p = 1
    BY <1>2, <2>1, TouchFirstLinks
  <2>2. CASE p # 1
    <3> DEFINE w == Without(f, p)
               g == InFront(w, b)
    <3>1. Line(w, n - 1) /\ \A k \in 1..n - 1 : w[k] # b
      BY <1>2, WithoutIsLine
    <3>2. Line(g, n) /\ Links(Touch(l, b), g, n)
      BY <1>2, <2>2, TouchListedLinks
    <3>3. n - 1 + 1 = n
      BY DEF Line
    <3>4. ASSUME NEW c PROVE (\E k \in 1..n - 1 : w[k] = c) <=> (c # b /\ \E k \in 1..n : f[k] = c)
      BY <1>2, WithoutHolds
    <3>5. ASSUME NEW c PROVE (\E k \in 1..n - 1 + 1 : g[k] = c) <=> (c = b \/ \E k \in 1..n - 1 : w[k] = c)
      <4> HIDE DEF w
      <4> QED BY <3>1, InFrontHolds
    <3> HIDE DEF w, g
    <3>6. \A c : (\E k \in 1..n : g[k] = c) <=> (c = b \/ \E k \in 1..n : f[k] = c)
      BY <1>2, <3>3, <3>4, <3>5
    <3> QED BY <3>2, <3>6
  <2> QED BY <2>1, <2>2
<1> QED BY <1>1, <1>2

LEMMA DetachKeepsLine ==
    ASSUME NEW l, NEW f, NEW n, Line(f, n), Links(l, f, n), NEW b \in Blocks, NEW p \in 1..n, f[p] = b
    PROVE  \E m, g : /\ Line(g, m) /\ Links(Detach(l, b), g, m)
                     /\ \A c \in Blocks : (\E k \in 1..m : g[k] = c) <=> (c # b /\ \E k \in 1..n : f[k] = c)
<1>1. Line(Without(f, p), n - 1) /\ Links(Detach(l, b), Without(f, p), n - 1)
  BY WithoutIsLine, DetachLinks
<1>2. ASSUME NEW c \in Blocks
      PROVE  (\E k \in 1..n - 1 : Without(f, p)[k] = c) <=> (c # b /\ \E k \in 1..n : f[k] = c)
  BY WithoutHolds
<1> QED BY <1>1, <1>2

LEMMA ListInit == Init => ListInvariant
<1> SUFFICES ASSUME Init PROVE ListInvariant
  OBVIOUS
<1>1. NewIsUnknown
  BY Facts DEF Init, NewIsUnknown
<1> DEFINE f == [k \in Int |-> NULL]
<1>2. Line(f, 0)
  BY DEF Line
<1>3. Links(list, f, 0)
  BY DEF Init, Links, Lists
<1>4. \A b \in Blocks : ~ Listed(b)
  BY Facts DEF Init, Listed
<1> HIDE DEF f
<1>5. \A b \in Blocks : Listed(b) <=> \E k \in 1..0 : f[k] = b
  BY <1>4
<1> QED BY <1>1, <1>2, <1>3, <1>5 DEF ListInvariant, ListIsLine

LEMMA ListStep == LockInvariant /\ ListInvariant /\ [Next]_vars => ListInvariant'
<1> SUFFICES ASSUME LockInvariant, ListInvariant, [Next]_vars PROVE ListInvariant'
  OBVIOUS
<1>1. ListMoves /\ NewIsUnknown'
  BY StepMoves
<1>2. PICK n, f, l, r : /\ l = list /\ r = list' /\ Line(f, n) /\ Links(l, f, n)
                        /\ \A c \in Blocks : Listed(c) <=> \E k \in 1..n : f[k] = c
  BY DEF ListInvariant, ListIsLine
<1>3. \E m, g : /\ Line(g, m) /\ Links(r, g, m)
                /\ \A c \in Blocks : Listed(c)' <=> \E k \in 1..m : g[k] = c
  <2>1. CASE ListStays
    BY <1>2, <2>1 DEF ListStays
  <2>2. ASSUME NEW b \in Blocks, r = Touch(l, b), \A c \in Blocks : Listed(c)' <=> Listed(c) \/ c = b
        PROVE  \E m, g : /\ Line(g, m) /\ Links(r, g, m)
                         /\ \A c \in Blocks : Listed(c)' <=> \E k \in 1..m : g[k] = c
    <3>1. PICK m, g : /\ Line(g, m) /\ Links(r, g, m)
                      /\ \A c \in Blocks : (\E k \in 1..m : g[k] = c) <=> (c = b \/ \E k \in 1..n : f[k] = c)
      BY <1>2, <2>2, TouchKeepsLine
    <3> QED BY <1>2, <2>2, <3>1
  <2>3. ASSUME NEW b \in Blocks, Listed(b), r = Detach(l, b),
               \A c \in Blocks : Listed(c)' <=> Listed(c) /\ c # b
        PROVE  \E m, g : /\ Line(g, m) /\ Links(r, g, m)
                         /\ \A c \in Blocks : Listed(c)' <=> \E k \in 1..m : g[k] = c
    <3>0. PICK p \in 1..n : f[p] = b
      BY <1>2, <2>3
    <3>1. PICK m, g : /\ Line(g, m) /\ Links(r, g, m)
                      /\ \A c \in Blocks : (\E k \in 1..m : g[k] = c) <=> (c # b /\ \E k \in 1..n : f[k] = c)
      BY <1>2, <2>3, <3>0, DetachKeepsLine
    <3> QED BY <1>2, <2>3, <3>1
  <2> QED BY <1>1, <1>2, <2>1, <2>2, <2>3 DEF ListMoves
<1> QED BY <1>1, <1>2, <1>3 DEF ListInvariant, ListIsLine

-----------------------------------------------------------------------------
(* The number of blocks.                                                    *)

\* What a thread evicts or flushes it has not deleted yet.
VictimsExist == \A t \in Threads : victim[t] # NULL => victim[t] \in exists

UsedIsCounted == nCacheUsed = Cardinality(exists)

SizeInvariant == VictimsExist /\ UsedIsCounted /\ CacheIsBounded

\* What is in the list has memory, and is locked while its band does not know it.
LEMMA ListedExists ==
    ASSUME LockInvariant, NEW b \in Blocks, Listed(b)
    PROVE  b \in exists /\ (b \notin papoBlocks => nLockCount[b] > 0)
<1>1. CASE b \in papoBlocks
  BY <1>1 DEF LockInvariant, Shapes
<1>2. CASE b \notin papoBlocks
  <2>1. InUse(b)
    BY <1>2 DEF Listed, InUse
  <2>2. nLockCount[b] = IF hRBMutex = Band(b) THEN 2 ELSE 1
    BY <2>1 DEF LockInvariant, CountsAreLocks
  <2>3. nLockCount[b] > 0
    BY <2>2
  <2> QED BY <2>1, <2>3 DEF LockInvariant, MemoryIsKnown
<1> QED BY <1>1, <1>2

\* When there is nothing to be flushed, every block in the list is locked.
LEMMA AllAreLocked ==
    ASSUME LockInvariant, ListInvariant, \A c \in Blocks : ~ OldestUnlocked(c),
           NEW b \in Blocks, Listed(b)
    PROVE  nLockCount[b] > 0
<1>1. PICK n, f, l : /\ l = list /\ Line(f, n) /\ Links(l, f, n)
                     /\ \A c \in Blocks : Listed(c) <=> \E k \in 1..n : f[k] = c
  BY DEF ListInvariant, ListIsLine
<1>2. PICK g : /\ g = Turned(f, n) /\ Line(g, n) /\ \A k \in Int : g[k] = f[n + 1 - k]
  BY <1>1, TurnedIsLine
<1>3. Walk(l.oldest, l.prev) = InOrder(g, n)
  BY <1>1, <1>2, WalksMeetTheLine
<1>4. n \in Nat /\ nLockCount \in [Blocks -> Int] /\ \A k \in 1..n : g[k] \in Blocks
  BY <1>1, <1>2 DEF Line, LockInvariant, Shapes
<1>5. \A c \in Blocks : nLockCount[c] >= 0
  BY DEF LockInvariant, CountsAreLocks
<1> DEFINE T == {k \in 1..n : nLockCount[g[k]] = 0}
<1>6. T = {}
  <2> SUFFICES ASSUME T # {} PROVE FALSE
    OBVIOUS
  <2>1. PICK k \in T : \A j \in T : k <= j
    <3>1. T \subseteq Nat
      OBVIOUS
    <3> HIDE DEF T
    <3> QED BY <3>1, LeastNatural
  <2>2. k \in 1..n /\ nLockCount[g[k]] = 0
    BY <2>1
  <2>3. \A j \in 1..k - 1 : j \in 1..n /\ nLockCount[g[j]] > 0
    <3> SUFFICES ASSUME NEW j \in 1..k - 1 PROVE j \in 1..n /\ nLockCount[g[j]] > 0
      OBVIOUS
    <3>1. j \in 1..n /\ ~ (k <= j)
      BY <1>4, <2>2
    <3>2. nLockCount[g[j]] # 0
      BY <2>1, <3>1
    <3> QED BY <1>4, <1>5, <3>1, <3>2
  <2>4. OldestUnlocked(g[k])
    <3> DEFINE s == InOrder(g, n)
    <3>1. DOMAIN s = 1..n /\ \A j \in 1..n : s[j] = g[j]
      BY DEF InOrder
    <3> HIDE DEF s
    <3>2. Walk(list.oldest, list.prev) = s
      BY <1>1, <1>3 DEF s
    <3> QED BY <2>2, <2>3, <3>1, <3>2 DEF OldestUnlocked
  <2> QED BY <1>4, <2>2, <2>4
<1>7. PICK k \in 1..n : f[k] = b
  BY <1>1
<1>8. n + 1 - k \in 1..n /\ n + 1 - k \in Int /\ n + 1 - (n + 1 - k) = k
  BY <1>4
<1>9. g[n + 1 - k] = b
  BY <1>2, <1>7, <1>8
<1> QED BY <1>4, <1>5, <1>6, <1>8, <1>9

\* Then there is no more than one block per thread: the one it is at, or the
\* one of its own that it flushes.
LEMMA OneBlockPerThread ==
    ASSUME LockInvariant, ListInvariant, NEW t \in Threads, pc[t] = "evict",
           \A c \in Blocks : ~ OldestUnlocked(c)
    PROVE  Cardinality(exists) <= Cardinality(Threads)
<1>1. /\ hRBMutex = t /\ victim[t] = NULL /\ exists \subseteq Blocks
  BY DEF LockInvariant, Shapes, Stages
<1>2. \A b \in exists : InUse(b) \/ IsEvicted(b)
  <2> SUFFICES ASSUME NEW b \in exists, ~ InUse(b), ~ IsEvicted(b) PROVE FALSE
    OBVIOUS
  <2>1. b \in Blocks /\ Listed(b)
    BY <1>1 DEF LockInvariant, MemoryIsKnown, Listed
  <2>2. nLockCount[b] > 0
    BY <2>1, AllAreLocked
  <2> QED BY <2>1, <2>2 DEF LockInvariant, CountsAreLocks
<1>3. \A b \in exists : IsEvicted(b) => victim[Band(b)] = b
  <2> SUFFICES ASSUME NEW b \in exists, NEW u \in Threads, victim[u] = b PROVE victim[Band(b)] = b
    BY DEF IsEvicted
  <2>1. b # NULL /\ u # t
    BY <1>1, Facts
  <2> QED BY <1>1, <2>1 DEF LockInvariant, Victims
<1>4. ASSUME NEW b \in exists, NEW c \in exists, Band(b) = Band(c), b # c PROVE FALSE
  <2>1. b \in Blocks /\ c \in Blocks /\ Band(b) \in Threads /\ b # NULL /\ c # NULL
    BY <1>1, Facts
  <2>2. (InUse(b) /\ victim[Band(b)] = c) \/ (InUse(c) /\ victim[Band(c)] = b)
    <3>1. ~ (InUse(b) /\ InUse(c))
      BY <1>4 DEF InUse
    <3>2. ~ (IsEvicted(b) /\ IsEvicted(c))
      BY <1>3, <1>4
    <3> QED BY <1>2, <1>3, <1>4, <3>1, <3>2
  <2>3. victim[Band(b)] # NULL => hRBMutex # Band(b) /\ pc[Band(b)] \in {"write", "reread", "delete"}
    BY <1>1, <2>1 DEF LockInvariant, Stages
  <2> QED BY <1>4, <2>1, <2>2, <2>3 DEF InUse
<1> DEFINE g == [b \in exists |-> Band(b)]
<1>5. g \in Injection(exists, Threads)
  <2>1. g \in [exists -> Threads]
    BY <1>1, Facts
  <2> QED BY <1>4, <2>1 DEF Injection, IsInjective
<1>6. IsFiniteSet(Threads)
  BY CacheAssumption
<1> HIDE DEF g
<1> QED BY <1>5, <1>6, FS_Injection

LEMMA ExistsIsFinite ==
    ASSUME LockInvariant
    PROVE  IsFiniteSet(exists) /\ Cardinality(exists) \in Nat
<1>1. IsFiniteSet(exists)
  BY BlocksAreFinite, FS_Subset DEF LockInvariant, Shapes
<1> QED BY <1>1, FS_CardinalityType

\* The steps that make and delete no block.
LEMMA StepKeepsSize ==
    ASSUME LockInvariant, SizeInvariant,
           UNCHANGED <<exists, nCacheUsed>>, hRBMutex' = hRBMutex,
           \A u \in Threads : victim'[u] # victim[u] => victim'[u] \in exists
    PROVE  SizeInvariant'
<1>1. VictimsExist'
  BY DEF SizeInvariant, VictimsExist
<1>2. UsedIsCounted'
  BY DEF SizeInvariant, UsedIsCounted
<1>3. CacheIsBounded'
  BY DEF SizeInvariant, CacheIsBounded
<1> QED BY <1>1, <1>2, <1>3 DEF SizeInvariant

LEMMA QuietSize ==
    ASSUME LockInvariant, SizeInvariant, NEW t \in Threads,
           Begin(t) \/ ReportBeforeWrite(t) \/ TryGet(t) \/ AdoptBlock(t) \/ Load(t) \/ UseBlock(t)
           \/ DropLock(t) \/ WriteVictim(t) \/ RereadError(t) \/ BeginFlush(t) \/ FlushReport(t) \/ EndFlush(t)
    PROVE  SizeInvariant'
<1>1. UNCHANGED <<exists, nCacheUsed, hRBMutex, victim>>
  BY DEF Begin, ReportBeforeWrite, TryGet, AdoptBlock, Load, UseBlock, DropLock, WriteVictim, RereadError,
         BeginFlush, FlushReport, EndFlush
<1> QED BY <1>1, StepKeepsSize

LEMMA TakeOutSize ==
    ASSUME LockInvariant, SizeInvariant, NEW t \in Threads, NEW b, TakeOut(t, b)
    PROVE  SizeInvariant'
<1>1. /\ UNCHANGED <<exists, nCacheUsed, hRBMutex>> /\ victim' = [victim EXCEPT ![t] = b]
      /\ b \in exists /\ victim \in [Threads -> {NULL} \cup Blocks]
  BY DEF TakeOut, LockInvariant, Shapes
<1>2. \A u \in Threads : victim'[u] # victim[u] => victim'[u] \in exists
  BY <1>1
<1> QED BY <1>1, <1>2, StepKeepsSize

LEMMA DropFailedSize ==
    ASSUME LockInvariant, SizeInvariant, NEW t \in Threads, DropFailed(t)
    PROVE  SizeInvariant'
<1>1. CASE TakeOut(t, op[t].block)
  <2>1. PICK b : b = op[t].block
    OBVIOUS
  <2> QED BY <1>1, <2>1, TakeOutSize
<1>2. CASE ~ TakeOut(t, op[t].block)
  <2>1. UNCHANGED <<exists, nCacheUsed, hRBMutex, victim>>
    BY <1>2 DEF DropFailed
  <2> QED BY <2>1, StepKeepsSize
<1> QED BY <1>1, <1>2

LEMMA FlushNextSize ==
    ASSUME LockInvariant, SizeInvariant, NEW t \in Threads, FlushNext(t)
    PROVE  SizeInvariant'
BY TakeOutSize DEF FlushNext

LEMMA PickVictimSize ==
    ASSUME LockInvariant, ListInvariant, SizeInvariant, NEW t \in Threads, PickVictim(t)
    PROVE  SizeInvariant'
<1>1. PICK v \in Blocks : OldestUnlocked(v) /\ victim' = [victim EXCEPT ![t] = v]
  BY DEF PickVictim
<1>2. v \in exists
  BY <1>1, OldestUnlockedIsListed, ListedExists
<1>3. UNCHANGED <<exists, nCacheUsed, hRBMutex>> /\ victim \in [Threads -> {NULL} \cup Blocks]
  BY DEF PickVictim, LockInvariant, Shapes
<1>4. \A u \in Threads : victim'[u] # victim[u] => victim'[u] \in exists
  BY <1>1, <1>2, <1>3
<1> QED BY <1>3, <1>4, StepKeepsSize

LEMMA InternalizeSize ==
    ASSUME LockInvariant, SizeInvariant, NEW t \in Threads, Internalize(t)
    PROVE  SizeInvariant'
<1>1. CASE UNCHANGED <<exists, nCacheUsed, hRBMutex>>
  <2>1. victim' = victim
    BY DEF Internalize
  <2> QED BY <1>1, <2>1, StepKeepsSize
<1>2. CASE ~ UNCHANGED <<exists, nCacheUsed, hRBMutex>>
  <2>1. PICK b \in Blocks : b = op[t].block
    BY Facts DEF LockInvariant, Shapes, Stages, Working, Internalize
  <2>2. /\ exists' = exists \cup {b} /\ nCacheUsed' = nCacheUsed + 1 /\ hRBMutex' = t /\ victim' = victim
    BY <1>2, <2>1 DEF Internalize
  <2>3. /\ pc[t] = "create" /\ Band(b) = t /\ b \notin papoBlocks /\ hRBMutex = NULL /\ victim[t] = NULL
    BY <2>1 DEF Internalize, MutexFree, LockInvariant, Stages, Working
  <2>4. ~ InUse(b) /\ ~ IsEvicted(b)
    BY <2>3, Facts DEF InUse, IsEvicted, LockInvariant, Victims
  <2>5. b \notin exists
    BY <2>3, <2>4 DEF LockInvariant, MemoryIsKnown
  <2>6. UsedIsCounted'
    BY <2>2, <2>5, ExistsIsFinite, FS_AddElement DEF SizeInvariant, UsedIsCounted
  <2>7. VictimsExist'
    BY <2>2 DEF SizeInvariant, VictimsExist
  <2>8. CacheIsBounded'
    BY <2>2, Facts DEF CacheIsBounded
  <2> QED BY <2>6, <2>7, <2>8 DEF SizeInvariant
<1> QED BY <1>1, <1>2

LEMMA EndInternalizeSize ==
    ASSUME LockInvariant, ListInvariant, SizeInvariant, NEW t \in Threads, EndInternalize(t)
    PROVE  SizeInvariant'
<1>1. /\ pc[t] = "evict" /\ UNCHANGED <<exists, nCacheUsed, victim>>
      /\ nCacheUsed <= CacheMax \/ \A c \in Blocks : ~ OldestUnlocked(c)
  BY DEF EndInternalize
<1>2. VictimsExist' /\ UsedIsCounted'
  BY <1>1 DEF SizeInvariant, VictimsExist, UsedIsCounted
<1>3. nCacheUsed <= CacheMax \/ nCacheUsed <= Cardinality(Threads)
  <2>1. CASE nCacheUsed <= CacheMax
    BY <2>1
  <2>2. CASE \A c \in Blocks : ~ OldestUnlocked(c)
    BY <1>1, <2>2, OneBlockPerThread DEF SizeInvariant, UsedIsCounted
  <2> QED BY <1>1, <2>1, <2>2
<1>4. CacheIsBounded'
  BY <1>1, <1>3 DEF CacheIsBounded
<1> QED BY <1>2, <1>4 DEF SizeInvariant

LEMMA DeleteVictimSize ==
    ASSUME LockInvariant, SizeInvariant, NEW t \in Threads, DeleteVictim(t)
    PROVE  SizeInvariant'
<1>1. PICK b : b = victim[t] /\ b # NULL
  BY DEF DeleteVictim, LockInvariant, Stages
<1>2. /\ exists' = exists \ {b} /\ nCacheUsed' = nCacheUsed - 1 /\ hRBMutex' = hRBMutex
      /\ victim' = [victim EXCEPT ![t] = NULL] /\ victim \in [Threads -> {NULL} \cup Blocks]
  BY <1>1 DEF DeleteVictim, LockInvariant, Shapes
<1>3. b \in exists
  BY <1>1 DEF SizeInvariant, VictimsExist
<1>4. UsedIsCounted'
  BY <1>2, <1>3, ExistsIsFinite, FS_RemoveElement DEF SizeInvariant, UsedIsCounted
<1>5. VictimsExist'
  <2> SUFFICES ASSUME NEW u \in Threads, victim'[u] # NULL PROVE victim'[u] \in exists'
    BY DEF VictimsExist
  <2>1. u # t /\ victim'[u] = victim[u]
    BY <1>2
  <2>2. victim[u] # b
    BY <1>1, <2>1 DEF LockInvariant, Victims
  <2> QED BY <1>2, <2>1, <2>2 DEF SizeInvariant, VictimsExist
<1>6. CacheIsBounded'
  <2>1. nCacheUsed \in Int /\ CacheMax \in Int /\ Cardinality(Threads) \in Int
    BY ExistsIsFinite, CacheAssumption, FS_CardinalityType DEF SizeInvariant, UsedIsCounted
  <2> QED BY <1>2, <2>1 DEF SizeInvariant, CacheIsBounded
<1> QED BY <1>4, <1>5, <1>6 DEF SizeInvariant

LEMMA SizeInit == Init => SizeInvariant
<1> SUFFICES ASSUME Init PROVE SizeInvariant
  OBVIOUS
<1>1. VictimsExist
  BY DEF Init, VictimsExist
<1>2. UsedIsCounted
  BY FS_EmptySet DEF Init, UsedIsCounted
<1>3. CacheIsBounded
  BY CacheAssumption DEF Init, CacheIsBounded
<1> QED BY <1>1, <1>2, <1>3 DEF SizeInvariant

LEMMA SizeStep == LockInvariant /\ ListInvariant /\ SizeInvariant /\ [Next]_vars => SizeInvariant'
<1> SUFFICES ASSUME LockInvariant, ListInvariant, SizeInvariant, [Next]_vars PROVE SizeInvariant'
  OBVIOUS
<1>1. CASE UNCHANGED vars
  BY <1>1, StepKeepsSize DEF vars
<1>2. ASSUME NEW t \in Threads, Step(t) PROVE SizeInvariant'
  <2>1. CASE \/ Begin(t) \/ ReportBeforeWrite(t) \/ TryGet(t) \/ AdoptBlock(t) \/ Load(t) \/ UseBlock(t)
             \/ DropLock(t) \/ WriteVictim(t) \/ RereadError(t) \/ BeginFlush(t) \/ FlushReport(t) \/ EndFlush(t)
    BY <2>1, QuietSize
  <2>2. CASE Internalize(t) \/ PickVictim(t) \/ EndInternalize(t)
    BY <2>2, InternalizeSize, PickVictimSize, EndInternalizeSize
  <2>3. CASE DropFailed(t) \/ DeleteVictim(t) \/ FlushNext(t)
    BY <2>3, DropFailedSize, DeleteVictimSize, FlushNextSize
  <2> QED BY <1>2, <2>1, <2>2, <2>3 DEF Step
<1> QED BY <1>1, <1>2 DEF Next

\* The list is a line in every reachable state, and the size of the cache is
\* what is allocated.
THEOREM ListInvariantHolds == Spec => [](ListInvariant /\ SizeInvariant)
<1>1. Init => ListInvariant /\ SizeInvariant
  BY ListInit, SizeInit
<1>2. LockInvariant /\ (ListInvariant /\ SizeInvariant) /\ [Next]_vars => (ListInvariant /\ SizeInvariant)'
  BY ListStep, SizeStep
<1> QED BY <1>1, <1>2, LockInvariantHolds, PTL DEF Spec

\* When no block is being made, the cache is within its limit, or it holds at
\* most one block per thread (GDALRasterBlock::Internalize).
THEOREM CacheStaysBounded == Spec => []CacheIsBounded
BY ListInvariantHolds, PTL DEF SizeInvariant

\* What is known of the calls and of dropped data, which nothing else rests on.
CallTypes ==
    /\ dropped \subseteq Blocks /\ writing \subseteq Threads
    /\ begun \subseteq {b \in Blocks : Band(b) \in writing}

LEMMA EndCallTypes ==
    ASSUME CallTypes, NEW t \in Threads, EndCall(t)
    PROVE  /\ writing' \subseteq Threads
           /\ begun' \subseteq {b \in Blocks : Band(b) \in writing'}
BY DEF CallTypes, EndCall

LEMMA CallStep == LockInvariant /\ CallTypes /\ [Next]_vars => CallTypes'
<1> SUFFICES ASSUME LockInvariant, CallTypes, [Next]_vars PROVE CallTypes'
  OBVIOUS
<1>1. CASE UNCHANGED vars
  BY <1>1 DEF vars, CallTypes
<1>2. ASSUME NEW t \in Threads, Step(t) PROVE CallTypes'
  <2>1. CASE Begin(t)
    <3>1. dropped' = dropped /\ \A o \in Offsets : <<t, o>> \in Blocks /\ Band(<<t, o>>) = t
      BY <2>1, Facts DEF Begin
    <3>2. PICK own \in SUBSET {b \in Blocks : Band(b) = t} :
              \/ EndCall(t)
              \/ writing' = writing \cup {t} /\ begun' = {c \in begun : Band(c) # t} \cup own
              \/ t \in writing /\ begun' = begun \cup own /\ writing' = writing
              \/ UNCHANGED <<writing, begun>>
      BY <2>1, <3>1 DEF Begin
    <3> QED BY <3>1, <3>2, EndCallTypes DEF CallTypes
  <2>2. CASE ReportBeforeWrite(t) \/ BeginFlush(t) \/ FlushReport(t) \/ EndFlush(t)
    BY <2>2, EndCallTypes DEF CallTypes, ReportBeforeWrite, Report, Forgive, BeginFlush, FlushReport, EndFlush
  <2>3. CASE Internalize(t) \/ DropFailed(t) \/ DeleteVictim(t)
    BY <2>3, EndCallTypes DEF CallTypes, Internalize, DropFailed, TakeOut, DeleteVictim, EndFlushBlock
  <2>4. CASE \/ TryGet(t) \/ PickVictim(t) \/ EndInternalize(t) \/ AdoptBlock(t) \/ Load(t) \/ DropLock(t)
             \/ WriteVictim(t) \/ FlushNext(t)
    BY <2>4 DEF CallTypes, TryGet, PickVictim, EndInternalize, AdoptBlock, Load, DropLock, WriteVictim,
       FlushNext, TakeOut
  <2>5. CASE UseBlock(t)
    <3>1. op[t].block \in Blocks
      BY <2>5, Facts DEF UseBlock, LockInvariant, Shapes, Stages, Working
    <3> QED BY <2>5, <3>1 DEF CallTypes, UseBlock, Written
  <2>6. CASE RereadError(t)
    <3>1. victim[t] \in Blocks
      BY <2>6, Facts DEF RereadError, LockInvariant, Shapes, Stages
    <3> QED BY <2>6, <3>1 DEF CallTypes, RereadError
  <2> QED BY <1>2, <2>1, <2>2, <2>3, <2>4, <2>5, <2>6 DEF Step
<1> QED BY <1>1, <1>2 DEF Next

LEMMA CallTypesHold == Spec => []CallTypes
<1>1. Init => CallTypes
  BY DEF Init, CallTypes
<1> QED BY <1>1, CallStep, LockInvariantHolds, PTL DEF Spec

\* The types of the state, and that the counter of the cache is the number of
\* blocks whose memory is allocated (nCacheUsed, gdalrasterblock.cpp).
THEOREM TypesHold == Spec => []TypeOK
<1>1. LockInvariant /\ ListInvariant /\ SizeInvariant /\ CallTypes => TypeOK
  <2> SUFFICES ASSUME LockInvariant, ListInvariant, SizeInvariant, CallTypes PROVE TypeOK
    OBVIOUS
  <2>1. list \in Lists
    BY DEF ListInvariant, ListIsLine, Links
  <2>2. nLockCount \in [Blocks -> 0 .. 2]
    <3>1. \A b \in Blocks : nLockCount[b] \in 0 .. 2
      BY DEF LockInvariant, CountsAreLocks
    <3> QED BY <3>1 DEF LockInvariant, Shapes
  <2> QED BY <2>1, <2>2 DEF TypeOK, Lists, LockInvariant, Shapes, SizeInvariant, UsedIsCounted, CallTypes
<1> QED BY <1>1, ListInvariantHolds, LockInvariantHolds, CallTypesHold, PTL

\* The sequence of a line.
LEMMA InOrderFacts ==
    ASSUME NEW f, NEW n, Line(f, n)
    PROVE  /\ n \in Nat
           /\ InOrder(f, n) \in Seq(Blocks) /\ Len(InOrder(f, n)) = n /\ DOMAIN InOrder(f, n) = 1..n
           /\ \A k \in 1..n : InOrder(f, n)[k] = f[k]
<1>1. n \in Nat /\ \A k \in 1..n : f[k] \in Blocks
  BY DEF Line
<1>2. InOrder(f, n) \in [1..n -> Blocks]
  BY <1>1 DEF InOrder
<1> QED BY <1>1, <1>2 DEF InOrder

\* The links hold, in both directions, exactly the blocks the bands know and
\* the ones that wait to be adopted, which are locked (GDALRasterBlock::Verify).
THEOREM ListIsComplete == Spec => []ListHoldsTheBlocks
<1>1. LockInvariant /\ ListInvariant => ListHoldsTheBlocks
  <2> SUFFICES ASSUME LockInvariant, ListInvariant PROVE ListHoldsTheBlocks
    OBVIOUS
  <2>1. PICK n, f, l : /\ l = list /\ Line(f, n) /\ Links(l, f, n)
                       /\ \A c \in Blocks : Listed(c) <=> \E k \in 1..n : f[k] = c
    BY DEF ListInvariant, ListIsLine
  <2>2. PICK s : /\ s = InOrder(f, n) /\ n \in Nat /\ s \in Seq(Blocks) /\ Len(s) = n /\ DOMAIN s = 1..n
                 /\ \A k \in 1..n : s[k] = f[k]
    BY <2>1, InOrderFacts
  <2>3. Walk(list.newest, list.next) = s /\ Walk(list.oldest, list.prev) = InOrder(Turned(f, n), n)
    <3>1. Walk(l.newest, l.next) = s /\ Walk(l.oldest, l.prev) = InOrder(Turned(f, n), n)
      BY <2>1, <2>2, WalksMeetTheLine
    <3> QED BY <2>1, <3>1
  <2>4. InOrder(Turned(f, n), n) = Reverse(s)
    <3>1. \A k \in 1..n : Turned(f, n)[k] = s[(n - k) + 1]
      <4> SUFFICES ASSUME NEW k \in 1..n PROVE Turned(f, n)[k] = s[(n - k) + 1]
        OBVIOUS
      <4>1. k \in Int /\ (n - k) + 1 \in 1..n /\ n + 1 - k = (n - k) + 1
        BY <2>2
      <4>2. Turned(f, n)[k] = f[(n - k) + 1]
        BY <4>1 DEF Turned
      <4> QED BY <2>2, <4>1, <4>2
    <3> QED BY <2>2, <3>1 DEF InOrder, Reverse
  <2>5. IsInjective(s)
    BY <2>1, <2>2 DEF IsInjective, Line
  <2>6. ToSet(s) = {b \in Blocks : Listed(b)}
    <3>1. \A b \in Blocks : b \in ToSet(s) <=> Listed(b)
      BY <2>1, <2>2 DEF ToSet
    <3>2. ToSet(s) \subseteq Blocks
      BY <2>2 DEF ToSet
    <3> QED BY <3>1, <3>2
  <2>7. /\ papoBlocks \subseteq ToSet(s) /\ ToSet(s) \subseteq exists
        /\ \A b \in ToSet(s) \ papoBlocks : nLockCount[b] > 0
    <3>1. papoBlocks \subseteq Blocks /\ \A b \in papoBlocks : Listed(b)
      BY DEF LockInvariant, Shapes, Listed
    <3> QED BY <2>6, <3>1, ListedExists
  <2> QED BY <2>3, <2>4, <2>5, <2>7 DEF ListHoldsTheBlocks
<1> QED BY <1>1, ListInvariantHolds, LockInvariantHolds, PTL

-----------------------------------------------------------------------------
(* The order of the list.                                                   *)

\* What is left of a sequence without the element at k, and where it is.
LEMMA RemoveAtFacts ==
    ASSUME NEW S, NEW s \in Seq(S), NEW k \in 1..Len(s)
    PROVE  /\ RemoveAt(s, k) \in Seq(S) /\ Len(RemoveAt(s, k)) = Len(s) - 1
           /\ \A j \in 1..Len(s) - 1 : RemoveAt(s, k)[j] = IF j < k THEN s[j] ELSE s[j + 1]
<1> DEFINE a == SubSeq(s, 1, k - 1)
           b == SubSeq(s, k + 1, Len(s))
<1>1. /\ a \in Seq(S) /\ Len(a) = k - 1
      /\ \A j \in 1..k - 1 : a[j] = s[j]
  OBVIOUS
<1>2. /\ b \in Seq(S) /\ Len(b) = Len(s) - k
      /\ \A j \in 1..Len(s) - k : b[j] = s[k + j]
  OBVIOUS
<1>3. RemoveAt(s, k) = a \o b
  BY DEF RemoveAt
<1> HIDE DEF a, b
<1>4. a \o b \in Seq(S) /\ Len(a \o b) = Len(s) - 1
  <2>1. a \in Seq(S) /\ b \in Seq(S) /\ Len(a) + Len(b) = Len(s) - 1
    BY <1>1, <1>2
  <2>2. a \o b \in Seq(S) /\ Len(a \o b) = Len(a) + Len(b)
    BY <2>1, ConcatProperties
  <2> QED BY <2>1, <2>2
<1>5. \A j \in 1..Len(s) - 1 : (a \o b)[j] = IF j < k THEN s[j] ELSE s[j + 1]
  <2> SUFFICES ASSUME NEW j \in 1..Len(s) - 1
               PROVE  (a \o b)[j] = IF j < k THEN s[j] ELSE s[j + 1]
    OBVIOUS
  <2>1. (a \o b)[j] = IF j <= k - 1 THEN a[j] ELSE b[j - (k - 1)]
    <3>1. j \in 1..Len(a) + Len(b) /\ Len(a) = k - 1
      BY <1>1, <1>2
    <3> QED BY <1>1, <1>2, <3>1, ConcatProperties
  <2>2. CASE j < k
    <3>1. j <= k - 1 /\ j \in 1..k - 1
      BY <2>2
    <3> QED BY <1>1, <2>1, <2>2, <3>1
  <2>3. CASE ~ (j < k)
    <3>1. /\ j - (k - 1) \in 1..Len(s) - k /\ k + (j - (k - 1)) = j + 1
          /\ ~ (j <= k - 1) /\ ~ (j < k)
      BY <2>3
    <3> QED BY <1>2, <2>1, <2>3, <3>1
  <2> QED BY <2>2, <2>3
<1> QED BY <1>3, <1>4, <1>5

\* A sequence with the length and the elements of a line is the line in order.
LEMMA OrderOfLine ==
    ASSUME NEW f, NEW n, Line(f, n), NEW s \in Seq(Blocks), Len(s) = n,
           \A k \in 1..n : s[k] = f[k]
    PROVE  s = InOrder(f, n)
<1>1. /\ InOrder(f, n) \in Seq(Blocks) /\ Len(InOrder(f, n)) = n
      /\ \A k \in 1..n : InOrder(f, n)[k] = f[k]
  BY InOrderFacts
<1> HIDE DEF InOrder
<1> QED BY <1>1, SeqEqual

\* Lines and sequences: without a place, and with a block more in front.
LEMMA RemoveFromLine ==
    ASSUME NEW f, NEW n, Line(f, n), NEW p \in 1..n
    PROVE  RemoveAt(InOrder(f, n), p) = InOrder(Without(f, p), n - 1)
<1>1. PICK s \in Seq(Blocks) : /\ s = InOrder(f, n) /\ n \in Nat /\ Len(s) = n
                               /\ \A k \in 1..n : s[k] = f[k]
  BY InOrderFacts
<1>2. PICK m \in Nat : m = n - 1 /\ p \in 1..Len(s)
  BY <1>1
<1>3. PICK r \in Seq(Blocks) : /\ r = RemoveAt(s, p) /\ Len(r) = m
                               /\ \A j \in 1..m : r[j] = IF j < p THEN s[j] ELSE s[j + 1]
  <2>1. /\ RemoveAt(s, p) \in Seq(Blocks) /\ Len(RemoveAt(s, p)) = Len(s) - 1
        /\ \A j \in 1..Len(s) - 1 : RemoveAt(s, p)[j] = IF j < p THEN s[j] ELSE s[j + 1]
    BY <1>2, RemoveAtFacts
  <2> HIDE DEF RemoveAt
  <2> QED BY <1>1, <1>2, <2>1
<1>4. PICK g : /\ g = Without(f, p) /\ Line(g, m)
               /\ \A k \in Int : g[k] = IF k < p THEN f[k] ELSE f[k + 1]
  BY <1>2, WithoutIsLine
<1>5. \A k \in 1..m : r[k] = g[k]
  <2>1. \A k \in 1..m : k \in Int /\ k \in 1..n /\ k + 1 \in 1..n
    BY <1>1, <1>2
  <2> SUFFICES ASSUME NEW k \in 1..m PROVE r[k] = g[k]
    OBVIOUS
  <2>2. r[k] = IF k < p THEN s[k] ELSE s[k + 1]
    BY <1>3
  <2>3. g[k] = IF k < p THEN f[k] ELSE f[k + 1]
    BY <1>4, <2>1
  <2> QED BY <1>1, <2>1, <2>2, <2>3
<1>6. r = InOrder(g, m)
  <2>1. Line(g, m) /\ Len(r) = m
    BY <1>3, <1>4
  <2> QED BY <1>5, <2>1, OrderOfLine, Zenon
<1> QED BY <1>1, <1>2, <1>3, <1>4, <1>6

LEMMA PutInFrontOfLine ==
    ASSUME NEW f, NEW n, Line(f, n), NEW b \in Blocks, \A k \in 1..n : f[k] # b
    PROVE  <<b>> \o InOrder(f, n) = InOrder(InFront(f, b), n + 1)
<1>1. PICK s \in Seq(Blocks) : /\ s = InOrder(f, n) /\ n \in Nat /\ Len(s) = n
                               /\ \A k \in 1..n : s[k] = f[k]
  BY InOrderFacts
<1>2. PICK m \in Nat : m = n + 1
  BY <1>1
<1>3. PICK a \in Seq(Blocks) : a = <<b>> /\ Len(a) = 1 /\ a[1] = b
  <2>1. <<b>> \in Seq(Blocks)
    OBVIOUS
  <2>2. Len(<<b>>) = 1
    OBVIOUS
  <2>3. <<b>>[1] = b
    OBVIOUS
  <2> QED BY <2>1, <2>2, <2>3
<1>4. PICK r \in Seq(Blocks) : /\ r = a \o s /\ Len(r) = m
                               /\ \A k \in 1..m : r[k] = IF k <= 1 THEN a[k] ELSE s[k - 1]
  <2>1. /\ a \o s \in Seq(Blocks) /\ Len(a \o s) = Len(a) + Len(s)
        /\ \A k \in 1..Len(a) + Len(s) : (a \o s)[k] = IF k <= Len(a) THEN a[k] ELSE s[k - Len(a)]
    BY ConcatProperties
  <2>2. Len(a) = 1 /\ Len(a) + Len(s) = m
    BY <1>1, <1>2, <1>3
  <2> QED BY <2>1, <2>2
<1>5. PICK g : /\ g = InFront(f, b) /\ Line(g, m)
               /\ \A k \in Int : g[k] = IF k = 1 THEN b ELSE f[k - 1]
  BY <1>2, InFrontIsLine
<1>6. \A k \in 1..m : r[k] = g[k]
  <2> SUFFICES ASSUME NEW k \in 1..m PROVE r[k] = g[k]
    OBVIOUS
  <2>1. CASE k = 1
    BY <1>3, <1>4, <1>5, <2>1
  <2>2. CASE k # 1
    <3>1. k \in Int /\ ~ (k <= 1) /\ k - 1 \in 1..n
      BY <1>1, <1>2, <2>2
    <3> QED BY <1>1, <1>4, <1>5, <2>2, <3>1
  <2> QED BY <2>1, <2>2
<1>7. r = InOrder(g, m)
  <2>1. Line(g, m) /\ Len(r) = m
    BY <1>4, <1>5
  <2> QED BY <1>6, <2>1, OrderOfLine
<1> QED BY <1>1, <1>2, <1>3, <1>4, <1>5, <1>7

\* The blocks from the newest to the oldest.
Order(l) == Walk(l.newest, l.next)

\* What a touch and a detachment make of the order.
LEMMA TouchOrders ==
    ASSUME NEW l, NEW f, NEW n, Line(f, n), Links(l, f, n), NEW b \in Blocks
    PROVE  \/ Order(Touch(l, b)) = Order(l)
           \/ b \notin ToSet(Order(l)) /\ Order(Touch(l, b)) = <<b>> \o Order(l)
           \/ \E k \in DOMAIN Order(l) : /\ Order(l)[k] = b
                                         /\ Order(Touch(l, b)) = <<b>> \o RemoveAt(Order(l), k)
<1>1. PICK s : /\ s = InOrder(f, n) /\ Order(l) = s /\ n \in Nat /\ s \in Seq(Blocks) /\ DOMAIN s = 1..n
               /\ \A k \in 1..n : s[k] = f[k]
  BY WalksMeetTheLine, InOrderFacts DEF Order
<1>2. CASE \A k \in 1..n : f[k] # b
  <2>1. Order(Touch(l, b)) = InOrder(InFront(f, b), n + 1)
    BY <1>2, TouchNewLinks, WalksMeetTheLine DEF Order
  <2>2. Order(Touch(l, b)) = <<b>> \o s
    BY <1>1, <1>2, <2>1, PutInFrontOfLine
  <2>3. b \notin ToSet(s)
    BY <1>1, <1>2 DEF ToSet
  <2> QED BY <1>1, <2>2, <2>3
<1>3. ASSUME NEW p \in 1..n, f[p] = b
      PROVE  \/ Order(Touch(l, b)) = s
             \/ \E k \in 1..n : s[k] = b /\ Order(Touch(l, b)) = <<b>> \o RemoveAt(s, k)
  <2>1. CASE p = 1
    BY <1>1, <1>3, <2>1, TouchFirstLinks
  <2>2. CASE p # 1
    <3>1. PICK w : w = Without(f, p) /\ Line(w, n - 1) /\ \A k \in 1..n - 1 : w[k] # b
      BY <1>3, WithoutIsLine
    <3>2. Line(InFront(w, b), n) /\ Links(Touch(l, b), InFront(w, b), n)
      BY <1>3, <2>2, <3>1, TouchListedLinks
    <3>3. Order(Touch(l, b)) = InOrder(InFront(w, b), n)
      BY <3>2, WalksMeetTheLine DEF Order
    <3>4. n - 1 + 1 = n
      BY <1>1
    <3>5. <<b>> \o InOrder(w, n - 1) = InOrder(InFront(w, b), n - 1 + 1)
      BY <3>1, PutInFrontOfLine
    <3>6. RemoveAt(s, p) = InOrder(w, n - 1)
      BY <1>1, <3>1, RemoveFromLine
    <3> QED BY <1>1, <1>3, <3>3, <3>4, <3>5, <3>6
  <2> QED BY <2>1, <2>2
<1> QED BY <1>1, <1>2, <1>3

LEMMA DetachOrders ==
    ASSUME NEW l, NEW f, NEW n, Line(f, n), Links(l, f, n), NEW p \in 1..n
    PROVE  /\ p \in DOMAIN Order(l) /\ Order(l)[p] = f[p]
           /\ Order(Detach(l, f[p])) = RemoveAt(Order(l), p)
<1>1. Order(l) = InOrder(f, n) /\ DOMAIN InOrder(f, n) = 1..n /\ InOrder(f, n)[p] = f[p]
  BY WalksMeetTheLine, InOrderFacts DEF Order
<1>2. Order(Detach(l, f[p])) = InOrder(Without(f, p), n - 1)
  BY WithoutIsLine, DetachLinks, WalksMeetTheLine DEF Order
<1> QED BY <1>1, <1>2, RemoveFromLine

LEMMA RecencyInit == Init => Recency!Init
<1> SUFFICES ASSUME Init PROVE Walk(list.newest, list.next) = << >>
  BY DEF Recency!Init
<1> DEFINE f == [k \in Int |-> NULL]
<1>1. Line(f, 0) /\ f[1] = NULL
  BY DEF Line
<1>2. PICK l : l = list /\ Links(l, f, 0)
  BY DEF Init, Links, Lists
<1> HIDE DEF f
<1>3. Walk(l.newest, l.next) = InOrder(f, 0)
  BY <1>1, <1>2, WalksMeetTheLine
<1>4. InOrder(f, 0) \in Seq(Blocks) /\ Len(InOrder(f, 0)) = 0
  BY <1>1, InOrderFacts
<1> QED BY <1>2, <1>3, <1>4

\* Whatever a step does to the list, the list by recency allows.
LEMMA RecencyStep ==
    ASSUME ListInvariant, ListMoves
    PROVE  [Recency!Next]_(Order(list))
<1>1. PICK n, f, l, r : /\ l = list /\ r = list' /\ Line(f, n) /\ Links(l, f, n)
                        /\ \A c \in Blocks : Listed(c) <=> \E k \in 1..n : f[k] = c
  BY DEF ListInvariant, ListIsLine
<1>2. PICK old, new : /\ old = Order(l) /\ new = Order(r)
                      /\ old = Walk(list.newest, list.next) /\ new = Walk(list.newest, list.next)'
                      /\ old = Order(list) /\ new = Order(list)'
  BY <1>1 DEF Order
<1>3. CASE list' = list
  BY <1>1, <1>2, <1>3
<1>4. ASSUME NEW b \in Blocks, list' = Touch(list, b) PROVE new = old \/ Recency!Next
  <2>1. r = Touch(l, b)
    BY <1>1, <1>4
  <2>2. \/ new = old
        \/ b \notin ToSet(old) /\ new = <<b>> \o old
        \/ \E k \in DOMAIN old : old[k] = b /\ new = <<b>> \o RemoveAt(old, k)
    <3>1. old = Order(l) /\ new = Order(Touch(l, b))
      BY <1>2, <2>1
    <3>2. \/ Order(Touch(l, b)) = Order(l)
          \/ b \notin ToSet(Order(l)) /\ Order(Touch(l, b)) = <<b>> \o Order(l)
          \/ \E k \in DOMAIN Order(l) : /\ Order(l)[k] = b
                                        /\ Order(Touch(l, b)) = <<b>> \o RemoveAt(Order(l), k)
      BY <1>1, TouchOrders, Zenon
    <3> QED BY <3>1, <3>2, Zenon
  <2>3. ASSUME b \notin ToSet(old), new = <<b>> \o old PROVE Recency!Insert(b)
    BY <1>2, <2>3 DEF Recency!Insert, ToSet, Recency!ToSet
  <2>4. ASSUME NEW k \in DOMAIN old, old[k] = b, new = <<b>> \o RemoveAt(old, k) PROVE Recency!Touch(b)
    BY <1>2, <2>4 DEF Recency!Touch, RemoveAt, Recency!RemoveAt
  <2> QED BY <2>2, <2>3, <2>4 DEF Recency!Next
<1>5. ASSUME NEW b \in Blocks, Listed(b), list' = Detach(list, b) PROVE Recency!Next
  <2>1. PICK p \in 1..n : f[p] = b
    BY <1>1, <1>5
  <2>2. p \in DOMAIN old /\ old[p] = b /\ new = RemoveAt(old, p)
    BY <1>1, <1>2, <1>5, <2>1, DetachOrders
  <2>3. Recency!Detach(b)
    BY <1>2, <2>2 DEF Recency!Detach, RemoveAt, Recency!RemoveAt
  <2> QED BY <2>3 DEF Recency!Next
<1> QED BY <1>2, <1>3, <1>4, <1>5 DEF ListMoves, ListStays

\* The links of the blocks, after every Touch and Detach of them, are the list
\* by recency that eviction goes by (GDALRasterBlock::Touch, Detach).
THEOREM PointersImplementRecencyList == Spec => ImplementsRecencyList
<1>1. LockInvariant /\ ListInvariant /\ [Next]_vars => [Recency!Next]_(Walk(list.newest, list.next))
  BY StepMoves, RecencyStep DEF Order
<1> QED BY <1>1, RecencyInit, LockInvariantHolds, ListInvariantHolds, PTL DEF Spec, ImplementsRecencyList, Recency!Spec

=============================================================================
