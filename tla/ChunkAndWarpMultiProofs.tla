---------------------- MODULE ChunkAndWarpMultiProofs ----------------------
(***************************************************************************)
(* Proofs about ChunkAndWarpMulti, for every region, block size and number *)
(* of chunks.                                                              *)
(*                                                                         *)
(* Two arguments meet in the theorem about success. The cuts of            *)
(* CollectChunkList tile: a half is never empty nor the whole              *)
(* (HalfIsAPart), so two parts cover what their window covers and nothing  *)
(* twice (PartsTile), and sorting only renumbers. The threads write: the   *)
(* parity of a chunk's number names its slot, so two running threads never *)
(* work on the same chunk, and where the calling thread is says which      *)
(* chunks are done.                                                        *)
(***************************************************************************)
EXTENDS ChunkAndWarpMulti, TLAPS

\* A quotient, multiplied again, is not larger than what was divided.
LEMMA QuotientBound ==
  ASSUME NEW n \in Nat, NEW b \in Nat \ {0}, n >= b
  PROVE  (n \div b) * b \in 1 .. n
<1>1. n \div b \in Nat /\ n % b \in 0 .. b - 1 /\ n = (b * (n \div b)) + (n % b)
  OBVIOUS
<1>2. n \div b # 0
  <2> SUFFICES ASSUME n \div b = 0 PROVE FALSE
    OBVIOUS
  <2>1. n = n % b
    BY <1>1
  <2> QED
    BY <1>1, <2>1
<1> DEFINE q == n \div b
<1> HIDE DEF q
<1>3. q \in Nat \ {0} /\ n % b \in Nat /\ n = b * q + (n % b)
  BY <1>1, <1>2 DEF q
<1>4. b * q \in Nat /\ b * q = q * b
  BY <1>3
<1>5. q * b >= b
  BY <1>3
<1> QED
  BY <1>3, <1>4, <1>5 DEF q

\* A half is neither empty nor the whole (lines 1084 to 1119).
LEMMA HalfIsAPart ==
  ASSUME NEW n \in Nat, n >= 2, NEW block \in Nat \ {0}
  PROVE  FirstPart(n, block) \in 1 .. n - 1
<1> DEFINE half == n \div 2
<1>1. half \in 1 .. n - 1
  OBVIOUS
<1> HIDE DEF half
<1>2. half >= block => (half \div block) * block \in 1 .. half
  BY <1>1, QuotientBound
<1>3. FirstPart(n, block) = IF optimizeSize /\ half > block
                            THEN (half \div block) * block ELSE half
  BY DEF FirstPart, half
<1> QED
  BY <1>1, <1>2, <1>3

InRegion(r) == r.x + r.w <= DstXSize /\ r.y + r.h <= DstYSize

\* The two parts of a window cover what it covers, and nothing twice.
LEMMA PartsTile ==
  ASSUME NEW r \in Windows, InRegion(r), r.w > 2 \/ r.h > 2
  PROVE  \E a, b \in Windows :
             /\ Parts(r) = {a, b}
             /\ InRegion(a) /\ InRegion(b)
             /\ a # b /\ Disjoint(a, b)
             /\ \A i, j \in Int : Covers(r, i, j) <=> Covers(a, i, j) \/ Covers(b, i, j)
<1>1. r.x \in Nat /\ r.y \in Nat /\ r.w \in Nat \ {0} /\ r.h \in Nat \ {0}
  BY DEF Windows
<1>2. CASE CutsWidth(r)
  <2> DEFINE n == FirstPart(r.w, BlockXSize)
             a == [r EXCEPT !.w = n]
             b == [r EXCEPT !.x = @ + n, !.w = @ - n]
  <2>1. r.w >= 2
    BY <1>1, <1>2 DEF CutsWidth
  <2>2. n \in 1 .. r.w - 1
    BY <1>1, <2>1, HalfIsAPart, WarpAssumption
  <2> HIDE DEF n
  <2>0. n \in Nat \ {0} /\ r.w - n \in Nat \ {0} /\ r.x + n \in Nat
    BY <1>1, <2>2
  <2>3. /\ a.x = r.x /\ a.y = r.y /\ a.w = n /\ a.h = r.h
        /\ b.x = r.x + n /\ b.y = r.y /\ b.w = r.w - n /\ b.h = r.h
    BY <2>2 DEF Windows
  <2>4. Parts(r) = {a, b}
    BY <1>2 DEF Parts, n
  <2>5. a \in Windows /\ b \in Windows
    BY <1>1, <2>0 DEF Windows
  <2> HIDE DEF a, b
  <2>6. InRegion(a) /\ InRegion(b)
    BY <1>1, <2>2, <2>3, WarpAssumption DEF InRegion
  <2>7. a.x # b.x
    BY <1>1, <2>2, <2>3
  <2>8. Disjoint(a, b)
    BY <1>1, <2>2, <2>3, WarpAssumption DEF Disjoint, Covers
  <2>9. \A i, j \in Int : Covers(r, i, j) <=> Covers(a, i, j) \/ Covers(b, i, j)
    BY <1>1, <2>2, <2>3 DEF Covers
  <2> QED
    BY <2>4, <2>5, <2>6, <2>7, <2>8, <2>9
<1>3. CASE ~CutsWidth(r)
  <2> DEFINE n == FirstPart(r.h, BlockYSize)
             a == [r EXCEPT !.h = n]
             b == [r EXCEPT !.y = @ + n, !.h = @ - n]
  <2>1. r.h >= 2
    BY <1>1, <1>3 DEF CutsWidth
  <2>2. n \in 1 .. r.h - 1
    BY <1>1, <2>1, HalfIsAPart, WarpAssumption
  <2> HIDE DEF n
  <2>0. n \in Nat \ {0} /\ r.h - n \in Nat \ {0} /\ r.y + n \in Nat
    BY <1>1, <2>2
  <2>3. /\ a.x = r.x /\ a.y = r.y /\ a.w = r.w /\ a.h = n
        /\ b.x = r.x /\ b.y = r.y + n /\ b.w = r.w /\ b.h = r.h - n
    BY <2>2 DEF Windows
  <2>4. Parts(r) = {a, b}
    BY <1>3 DEF Parts, n
  <2>5. a \in Windows /\ b \in Windows
    BY <1>1, <2>0 DEF Windows
  <2> HIDE DEF a, b
  <2>6. InRegion(a) /\ InRegion(b)
    BY <1>1, <2>2, <2>3, WarpAssumption DEF InRegion
  <2>7. a.y # b.y
    BY <1>1, <2>2, <2>3
  <2>8. Disjoint(a, b)
    BY <1>1, <2>2, <2>3, WarpAssumption DEF Disjoint, Covers
  <2>9. \A i, j \in Int : Covers(r, i, j) <=> Covers(a, i, j) \/ Covers(b, i, j)
    BY <1>1, <2>2, <2>3 DEF Covers
  <2> QED
    BY <2>4, <2>5, <2>6, <2>7, <2>8, <2>9
<1> QED
  BY <1>2, <1>3

-----------------------------------------------------------------------------
(* The tiling, through CollectChunkList and the sorting.                   *)

\* The windows in the three places are windows of the region.
LEMMA WindowsInRegion ==
  ASSUME TypeOK, Tiling
  PROVE  /\ \A r \in todo \cup skipped : r \in Windows /\ InRegion(r)
         /\ Count \in Nat
         /\ \A k \in 1 .. Count : chunkList[k] \in Windows /\ InRegion(chunkList[k])
<1>1. chunkList \in Seq(Windows) /\ todo \subseteq Windows /\ skipped \subseteq Windows
  BY DEF TypeOK
<1>2. Count \in Nat /\ \A k \in 1 .. Count : chunkList[k] \in Windows
  BY <1>1 DEF Count
<1> QED
  BY <1>1, <1>2 DEF Tiling, InRegion

\* A window left out stays covered by itself.
LEMMA SkipTiles ==
  ASSUME Tiling, NEW r, SkipWindow(r)
  PROVE  Tiling'
<1>1. /\ r \in todo /\ todo' = todo \ {r} /\ skipped' = skipped \cup {r}
      /\ chunkList' = chunkList /\ Count' = Count
  BY DEF SkipWindow, Count
<1>2. todo' \cup skipped' = todo \cup skipped
  BY <1>1
<1>3. \A a \in todo', b \in skipped' : Disjoint(a, b)
  BY <1>1 DEF Tiling
<1> QED
  BY <1>1, <1>2, <1>3 DEF Tiling

\* A chunk in the list is disjoint with the windows it was disjoint with.
LEMMA AddTiles ==
  ASSUME TypeOK, Tiling, NEW r, AddChunk(r)
  PROVE  Tiling'
<1> DEFINE n == Count
<1>1. /\ r \in todo /\ todo' = todo \ {r} /\ skipped' = skipped
      /\ chunkList' = Append(chunkList, r)
  BY DEF AddChunk
<1>2. /\ n \in Nat /\ Count' = n + 1
      /\ \A k \in 1 .. n : chunkList'[k] = chunkList[k]
      /\ chunkList'[n + 1] = r
  BY <1>1 DEF TypeOK, Count
<1>3. \A k \in 1 .. Count' : k \in 1 .. n \/ k = n + 1
  BY <1>2
<1> HIDE DEF n
<1>4. \A a \in todo \cup skipped : (Disjoint(a, r) /\ Disjoint(r, a)) \/ a = r
  BY <1>1 DEF Tiling, Disjoint
<1>5. \A k \in 1 .. n : Disjoint(chunkList[k], r) /\ Disjoint(r, chunkList[k])
  BY <1>1 DEF Tiling, Disjoint, n
<1>6. r \notin skipped
  <2> SUFFICES ASSUME r \in skipped PROVE FALSE
    OBVIOUS
  <2>1. Disjoint(r, r)
    BY <1>1 DEF Tiling
  <2>2. r \in Windows /\ InRegion(r)
    BY <1>1, WindowsInRegion
  <2>3. Covers(r, r.x, r.y) /\ r.x \in 0 .. DstXSize - 1 /\ r.y \in 0 .. DstYSize - 1
    BY <2>2, WarpAssumption DEF Covers, Windows, InRegion
  <2> QED
    BY <2>1, <2>3 DEF Disjoint
<1>7. \A k, m \in 1 .. Count' : k # m => Disjoint(chunkList'[k], chunkList'[m])
  BY <1>2, <1>3, <1>5 DEF Tiling, n
<1>8. \A k \in 1 .. Count' : \A a \in todo' \cup skipped' : Disjoint(a, chunkList'[k])
  BY <1>1, <1>2, <1>3, <1>4, <1>6 DEF Tiling, n
<1>9. \A i \in 0 .. DstXSize - 1, j \in 0 .. DstYSize - 1 :
           \/ \E a \in todo' \cup skipped' : Covers(a, i, j)
           \/ \E k \in 1 .. Count' : Covers(chunkList'[k], i, j)
  <2> TAKE i \in 0 .. DstXSize - 1, j \in 0 .. DstYSize - 1
  <2>1. CASE Covers(r, i, j)
    BY <1>2, <2>1
  <2>2. CASE \E a \in todo \cup skipped : a # r /\ Covers(a, i, j)
    BY <1>1, <2>2
  <2>3. CASE \E k \in 1 .. n : Covers(chunkList[k], i, j)
    BY <1>2, <2>3
  <2> QED
    BY <2>1, <2>2, <2>3 DEF Tiling, n
<1>10. \A w \in todo' \cup skipped' \cup {chunkList'[k] : k \in 1 .. Count'} :
           w.x + w.w <= DstXSize /\ w.y + w.h <= DstYSize
  <2>1. \A k \in 1 .. n : chunkList'[k] \in {chunkList[m] : m \in 1 .. n}
    BY <1>2
  <2>2. \A k \in 1 .. Count' : chunkList'[k] \in {chunkList[m] : m \in 1 .. n} \cup {r}
    BY <1>2, <1>3, <2>1
  <2>3. todo' \cup skipped' \cup {chunkList'[k] : k \in 1 .. Count'}
            \subseteq todo \cup skipped \cup {chunkList[m] : m \in 1 .. n}
    BY <1>1, <2>2
  <2> QED
    BY <2>3 DEF Tiling, n
<1>11. /\ \A a, b \in todo' : a # b => Disjoint(a, b)
       /\ \A a \in todo', b \in skipped' : Disjoint(a, b)
  BY <1>1 DEF Tiling
<1> QED
  BY <1>7, <1>8, <1>9, <1>10, <1>11 DEF Tiling

\* The two recursive calls: what is disjoint with a window is disjoint with
\* its parts.
LEMMA SplitTiles ==
  ASSUME TypeOK, Tiling, NEW r, SplitWindow(r)
  PROVE  Tiling' /\ Parts(r) \subseteq Windows
<1>1. /\ r \in todo /\ todo' = (todo \ {r}) \cup Parts(r)
      /\ skipped' = skipped /\ chunkList' = chunkList
      /\ r.w > 2 \/ r.h > 2
      /\ Count' = Count
  BY DEF SplitWindow, Count
<1>2. r \in Windows /\ InRegion(r)
  BY <1>1, WindowsInRegion
<1>3. PICK a, b \in Windows :
             /\ Parts(r) = {a, b}
             /\ InRegion(a) /\ InRegion(b)
             /\ a # b /\ Disjoint(a, b)
             /\ \A i, j \in Int : Covers(r, i, j) <=> Covers(a, i, j) \/ Covers(b, i, j)
  BY <1>1, <1>2, PartsTile
<1>4. \A i \in 0 .. DstXSize - 1, j \in 0 .. DstYSize - 1 :
             Covers(r, i, j) <=> Covers(a, i, j) \/ Covers(b, i, j)
  BY <1>3, WarpAssumption
<1>5. todo' = (todo \ {r}) \cup {a, b}
  BY <1>1, <1>3
<1>6. \A c : /\ Disjoint(r, c) => Disjoint(a, c) /\ Disjoint(b, c) /\ Disjoint(c, a) /\ Disjoint(c, b)
             /\ Disjoint(c, r) => Disjoint(a, c) /\ Disjoint(b, c) /\ Disjoint(c, a) /\ Disjoint(c, b)
  BY <1>4 DEF Disjoint
<1>7. Disjoint(b, a)
  BY <1>3 DEF Disjoint
<1>8. \A c, d \in todo' : c # d => Disjoint(c, d)
  BY <1>1, <1>3, <1>5, <1>6, <1>7 DEF Tiling
<1>9. \A c \in todo', d \in skipped' : Disjoint(c, d)
  BY <1>1, <1>5, <1>6 DEF Tiling
<1>10. \A k \in 1 .. Count' : \A c \in todo' \cup skipped' : Disjoint(c, chunkList'[k])
  BY <1>1, <1>5, <1>6 DEF Tiling
<1>11. \A w \in todo' \cup skipped' \cup {chunkList'[k] : k \in 1 .. Count'} :
           w.x + w.w <= DstXSize /\ w.y + w.h <= DstYSize
  BY <1>1, <1>3, <1>5 DEF Tiling, InRegion
<1>12. \A i \in 0 .. DstXSize - 1, j \in 0 .. DstYSize - 1 :
           \/ \E c \in todo' \cup skipped' : Covers(c, i, j)
           \/ \E k \in 1 .. Count' : Covers(chunkList'[k], i, j)
  <2> TAKE i \in 0 .. DstXSize - 1, j \in 0 .. DstYSize - 1
  <2>1. CASE Covers(r, i, j)
    BY <1>4, <1>5, <2>1
  <2>2. CASE ~ Covers(r, i, j)
    BY <1>1, <1>5, <2>2 DEF Tiling
  <2> QED
    BY <2>1, <2>2
<1>13. \A k, m \in 1 .. Count' : k # m => Disjoint(chunkList'[k], chunkList'[m])
  BY <1>1 DEF Tiling
<1> QED
  BY <1>3, <1>8, <1>9, <1>10, <1>11, <1>12, <1>13 DEF Tiling

\* qsort only renumbers the chunks.
LEMMA SortTiles ==
  ASSUME TypeOK, Tiling, SortChunks
  PROVE  Tiling' /\ chunkList' \in Seq(Windows) /\ Count' = Count
<1> DEFINE n == Count
<1>1. PICK p \in Bijection(1 .. n, 1 .. n) : chunkList' = [i \in 1 .. n |-> chunkList[p[i]]]
  BY DEF SortChunks
<1>2. /\ n \in Nat
      /\ \A k \in 1 .. n : chunkList[k] \in Windows
  BY WindowsInRegion
<1> HIDE DEF n
<1>3. /\ \A k \in 1 .. n : p[k] \in 1 .. n
      /\ \A k, m \in 1 .. n : p[k] = p[m] => k = m
      /\ \A k \in 1 .. n : \E m \in 1 .. n : p[m] = k
  BY <1>1 DEF Bijection, Injection, Surjection, IsInjective
<1>4. chunkList' \in Seq(Windows) /\ Count' = n
  <2>1. \A k \in 1 .. n : chunkList[p[k]] \in Windows
    BY <1>2, <1>3
  <2>2. chunkList' \in Seq(Windows) /\ Len(chunkList') = n
    BY <1>1, <1>2, <2>1
  <2> QED
    BY <2>2 DEF Count
<1>5. /\ \A k \in 1 .. n : \E m \in 1 .. n : chunkList'[k] = chunkList[m]
      /\ \A m \in 1 .. n : \E k \in 1 .. n : chunkList'[k] = chunkList[m]
      /\ \A k, m \in 1 .. n : k # m => Disjoint(chunkList'[k], chunkList'[m])
  BY <1>1, <1>3 DEF Tiling, n
<1>6. UNCHANGED <<todo, skipped>>
  BY DEF SortChunks
<1> QED
  BY <1>4, <1>5, <1>6 DEF Tiling, n

-----------------------------------------------------------------------------
(* The threads. First what the proofs of all actions use.                  *)

ThreadInvariant ==
    TypeOK /\ Owners /\ SlotsBelong /\ Progress /\ NoChunkIsWrittenTwice /\ ReturnLeavesNoThread

\* No step of a thread moves a window.
LEMMA TilingFrame ==
  ASSUME Tiling, UNCHANGED collectVars
  PROVE  Tiling'
BY DEF Tiling, collectVars, Count

\* Two threads that run work on two chunks.
LEMMA OwnChunk ==
  ASSUME ThreadInvariant, NEW s \in Slots, NEW u \in Slots, s # u,
         hThreadHandle[s], hThreadHandle[u]
  PROVE  panChunkInfo[s] # panChunkInfo[u]
BY DEF ThreadInvariant, SlotsBelong

\* The turn that only joins finds the slot of its chunk free.
LEMMA NothingToLaunchKeeps ==
  ASSUME ThreadInvariant, NothingToLaunch
  PROVE  ThreadInvariant'
<1> USE DEF NothingToLaunch, ThreadInvariant, collectVars, mainVars, slotVars, threadVars, mutexes
<1>1. Count' = Count /\ Count \in Nat
  BY DEF TypeOK, Count
<1>2. TypeOK'
  BY <1>1 DEF TypeOK, MainStates
<1>3. Owners'
  BY WarpAssumption DEF TypeOK, Owners, Slots
<1>4. SlotsBelong'
  BY <1>1 DEF TypeOK, SlotsBelong, Slots, Progress
<1>5. Progress'
  <2>1. /\ iChunk = Count /\ pc = "launch" /\ eErr = CE_None
        /\ ~ hThreadHandle[iChunk % 2]
        /\ todo = {} /\ result = Nothing
        /\ \A k \in 1 .. Count : k < iChunk => writes[k] = 1
    BY DEF Progress
  <2>2. CASE iChunk > 0
    <3>1. hThreadHandle[(iChunk - 1) % 2] /\ panChunkInfo[(iChunk - 1) % 2] = iChunk
      BY <2>2 DEF Progress
    <3> QED
      BY <1>1, <2>1, <2>2, <3>1 DEF Progress
  <2>3. CASE iChunk = 0
    BY <1>1, <2>1, <2>3 DEF Progress
  <2> QED
    BY <1>1, <2>1, <2>2, <2>3
<1>6. NoChunkIsWrittenTwice' /\ ReturnLeavesNoThread'
  BY <1>3, WarpAssumption DEF TypeOK, NoChunkIsWrittenTwice, ReturnLeavesNoThread, SlotsBelong, Owners, Slots
<1> QED
  BY <1>2, <1>3, <1>4, <1>5, <1>6

\* hCondMutex is taken by the calling thread.
LEMMA LockCondKeeps ==
  ASSUME ThreadInvariant, LockCond
  PROVE  ThreadInvariant'
<1> USE DEF LockCond, ThreadInvariant, collectVars, mainVars, slotVars, threadVars, mutexes
<1>1. Count' = Count /\ Count \in Nat
  BY DEF TypeOK, Count
<1>2. TypeOK'
  BY <1>1 DEF TypeOK, MainStates
<1>3. Owners'
  BY WarpAssumption DEF TypeOK, Owners, Slots
<1>4. SlotsBelong'
  BY <1>1 DEF TypeOK, SlotsBelong, Slots, Progress
<1>5. Progress'
  BY <1>1, WarpAssumption DEF TypeOK, Progress, SlotsBelong, Slots
<1>6. NoChunkIsWrittenTwice' /\ ReturnLeavesNoThread'
  BY <1>3, WarpAssumption DEF TypeOK, NoChunkIsWrittenTwice, ReturnLeavesNoThread, SlotsBelong, Owners, Slots
<1> QED
  BY <1>2, <1>3, <1>4, <1>5, <1>6

\* The flag is set: the second chunk's turn begins.
LEMMA TestTakenKeeps ==
  ASSUME ThreadInvariant, TestTaken
  PROVE  ThreadInvariant'
<1> USE DEF TestTaken, ThreadInvariant, collectVars, mainVars, slotVars, threadVars, mutexes
<1>1. Count' = Count /\ Count \in Nat
  BY DEF TypeOK, Count
<1>2. TypeOK'
  <2>1. iChunk = 0 /\ iChunk \in 0 .. Count /\ (iChunk' = iChunk \/ iChunk' = iChunk + 1)
    BY DEF TypeOK, Progress
  <2>0. Count >= 1
    BY <1>1 DEF TypeOK, Progress, SlotsBelong, Slots
  <2>2. pc' \in MainStates \ {"collect"} /\ pc # "collect" /\ condMutex' \in {Free, Main}
    BY DEF TypeOK, MainStates
  <2>3. UNCHANGED <<collectVars, eErr, result, slotVars, threadVars, bIOMutexTaken, ioMutex, warpMutex, writes>>
    OBVIOUS
  <2>4. iChunk' \in 0 .. Count
    BY <1>1, <2>0, <2>1
  <2> HIDE DEF TestTaken
  <2> QED
    BY <1>1, <2>2, <2>3, <2>4 DEF TypeOK
<1>3. Owners'
  BY WarpAssumption DEF TypeOK, Owners, Slots
<1>4. SlotsBelong'
  BY <1>1 DEF TypeOK, SlotsBelong, Slots, Progress
<1>5. Progress'
  BY <1>1, WarpAssumption DEF TypeOK, Progress, SlotsBelong, Slots
<1>6. NoChunkIsWrittenTwice' /\ ReturnLeavesNoThread'
  BY <1>3, WarpAssumption DEF TypeOK, NoChunkIsWrittenTwice, ReturnLeavesNoThread, SlotsBelong, Owners, Slots
<1> QED
  BY <1>2, <1>3, <1>4, <1>5, <1>6

\* Waiting gives hCondMutex back.
LEMMA CondWaitKeeps ==
  ASSUME ThreadInvariant, CondWait
  PROVE  ThreadInvariant'
<1> USE DEF CondWait, ThreadInvariant, collectVars, mainVars, slotVars, threadVars, mutexes
<1>1. Count' = Count /\ Count \in Nat
  BY DEF TypeOK, Count
<1>2. TypeOK'
  BY <1>1 DEF TypeOK, MainStates
<1>3. Owners'
  BY WarpAssumption DEF TypeOK, Owners, Slots
<1>4. SlotsBelong'
  BY <1>1 DEF TypeOK, SlotsBelong, Slots, Progress
<1>5. Progress'
  BY <1>1, WarpAssumption DEF TypeOK, Progress, SlotsBelong, Slots
<1>6. NoChunkIsWrittenTwice' /\ ReturnLeavesNoThread'
  BY <1>3, WarpAssumption DEF TypeOK, NoChunkIsWrittenTwice, ReturnLeavesNoThread, SlotsBelong, Owners, Slots
<1> QED
  BY <1>2, <1>3, <1>4, <1>5, <1>6

\* A spurious wakeup changes nothing but the place.
LEMMA SpuriousWakeupKeeps ==
  ASSUME ThreadInvariant, SpuriousWakeup
  PROVE  ThreadInvariant'
<1> USE DEF SpuriousWakeup, ThreadInvariant, collectVars, mainVars, slotVars, threadVars, mutexes
<1>1. Count' = Count /\ Count \in Nat
  BY DEF TypeOK, Count
<1>2. TypeOK'
  BY <1>1 DEF TypeOK, MainStates
<1>3. Owners'
  BY WarpAssumption DEF TypeOK, Owners, Slots
<1>4. SlotsBelong'
  BY <1>1 DEF TypeOK, SlotsBelong, Slots, Progress
<1>5. Progress'
  BY <1>1, WarpAssumption DEF TypeOK, Progress, SlotsBelong, Slots
<1>6. NoChunkIsWrittenTwice' /\ ReturnLeavesNoThread'
  BY <1>3, WarpAssumption DEF TypeOK, NoChunkIsWrittenTwice, ReturnLeavesNoThread, SlotsBelong, Owners, Slots
<1> QED
  BY <1>2, <1>3, <1>4, <1>5, <1>6

\* A slot is used again only without a thread handle.
LEMMA LaunchThreadKeeps ==
  ASSUME ThreadInvariant, LaunchThread
  PROVE  ThreadInvariant'
<1> USE DEF ThreadInvariant, collectVars, mainVars, slotVars, threadVars, mutexes
<1> DEFINE s == iChunk % 2
<1>1. Count' = Count /\ Count \in Nat /\ iChunk \in 0 .. Count
  BY DEF TypeOK, Count, LaunchThread
<1>2. s \in Slots /\ (s = 0 <=> iChunk # 1 /\ s # 1)
  BY <1>1 DEF Slots
<1>3. /\ pc = "launch" /\ iChunk < Count /\ ~ hThreadHandle[s]
      /\ threadPc[s] \in {"none", "ended"}
      /\ eErr = CE_None /\ todo = {} /\ result = Nothing
  BY <1>2 DEF LaunchThread, Progress, SlotsBelong
<1>4. /\ panChunkInfo' = [panChunkInfo EXCEPT ![s] = iChunk + 1]
      /\ hasCond' = [hasCond EXCEPT ![s] = (iChunk = 0)]
      /\ bIOMutexTaken' = [bIOMutexTaken EXCEPT ![s] = FALSE]
      /\ UNCHANGED <<collectVars, iChunk, result, chunk, threadErr, mutexes, writes>>
  BY DEF LaunchThread
<1>0. /\ panChunkInfo' \in [Slots -> 0 .. Count]
      /\ hasCond' \in [Slots -> BOOLEAN]
      /\ bIOMutexTaken' \in [Slots -> BOOLEAN]
  <2>1. iChunk + 1 \in 0 .. Count
    BY <1>1, <1>3
  <2> HIDE DEF s
  <2> QED
    BY <1>4, <2>1 DEF TypeOK
<1>5. CASE /\ hThreadHandle' = [hThreadHandle EXCEPT ![s] = TRUE]
           /\ threadPc' = [threadPc EXCEPT ![s] = "start"]
           /\ pc' = IF iChunk = 0 THEN "lockCond" ELSE "join"
           /\ UNCHANGED eErr
  <2>1. TypeOK'
    <3>1. threadPc' \in [Slots -> ThreadStates] /\ hThreadHandle' \in [Slots -> BOOLEAN]
      BY <1>2, <1>5 DEF TypeOK, ThreadStates
    <3>2. pc' \in MainStates \ {"collect"}
      BY <1>5 DEF MainStates
    <3> QED
      BY <1>0, <1>1, <1>3, <1>4, <1>5, <3>1, <3>2 DEF TypeOK
  <2>2. Owners'
    BY <1>2, <1>3, <1>4, <1>5 DEF TypeOK, Owners
  <2>3. writes[iChunk + 1] = 0
    BY <1>1, <1>3 DEF Progress
  <2>4. SlotsBelong'
    BY <1>1, <1>2, <1>3, <1>4, <1>5, <2>3 DEF TypeOK, SlotsBelong
  <2>5. ASSUME iChunk = 0 PROVE Progress'
    <3>1. /\ s = 0 /\ pc' = "lockCond" /\ ~ hThreadHandle[1]
          /\ \A k \in 1 .. Count : k > 0 => writes[k] = 0
      BY <1>3, <1>5, <2>5 DEF Progress
    <3>2. hThreadHandle'[0] /\ panChunkInfo'[0] = 1 /\ ~ hThreadHandle'[1]
      BY <1>4, <1>5, <2>5, <3>1 DEF TypeOK, Slots
    <3> QED
      BY <1>1, <1>3, <1>4, <1>5, <2>5, <3>1, <3>2 DEF Progress
  <2>6. ASSUME iChunk > 0 PROVE Progress'
    <3>1. (iChunk - 1) % 2 # s /\ (iChunk - 1) % 2 \in Slots
      BY <1>1, <2>6 DEF Slots
    <3>2. /\ hThreadHandle[(iChunk - 1) % 2] /\ panChunkInfo[(iChunk - 1) % 2] = iChunk
          /\ \A k \in 1 .. Count : (k < iChunk => writes[k] = 1) /\ (k > iChunk => writes[k] = 0)
      BY <1>3, <2>6 DEF Progress
    <3>3. /\ hThreadHandle'[(iChunk - 1) % 2] /\ panChunkInfo'[(iChunk - 1) % 2] = iChunk
          /\ hThreadHandle'[s] /\ panChunkInfo'[s] = iChunk + 1
      BY <1>2, <1>4, <1>5, <3>1, <3>2 DEF TypeOK
    <3>4. pc' = "join"
      BY <1>5, <2>6
    <3> HIDE DEF s
    <3>5. Progress'
      BY <1>1, <1>3, <1>4, <1>5, <2>6, <3>2, <3>3, <3>4 DEF Progress, s
    <3> QED
      BY <3>5
  <2>7. Progress'
    BY <1>1, <2>5, <2>6
  <2>8. NoChunkIsWrittenTwice' /\ ReturnLeavesNoThread'
    BY <1>4, <1>5 DEF NoChunkIsWrittenTwice, ReturnLeavesNoThread
  <2> QED
    BY <2>1, <2>2, <2>4, <2>7, <2>8
<1>6. CASE /\ hThreadHandle' = [hThreadHandle EXCEPT ![s] = FALSE]
           /\ eErr' = CE_Failure
           /\ pc' = "joinAll"
           /\ UNCHANGED threadPc
  <2>1. TypeOK'
    <3>1. hThreadHandle' \in [Slots -> BOOLEAN]
      BY <1>2, <1>6 DEF TypeOK
    <3>2. pc' \in MainStates \ {"collect"}
      BY <1>6 DEF MainStates
    <3> QED
      BY <1>0, <1>1, <1>3, <1>4, <1>6, <3>1, <3>2 DEF TypeOK
  <2>2. Owners'
    BY <1>2, <1>3, <1>4, <1>6 DEF TypeOK, Owners
  <2>3. SlotsBelong'
    BY <1>1, <1>2, <1>3, <1>4, <1>6 DEF TypeOK, SlotsBelong
  <2>4. Progress'
    BY <1>3, <1>4, <1>6, WarpAssumption DEF Progress
  <2>5. NoChunkIsWrittenTwice' /\ ReturnLeavesNoThread'
    BY <1>4, <1>6 DEF NoChunkIsWrittenTwice, ReturnLeavesNoThread
  <2> QED
    BY <2>1, <2>2, <2>3, <2>4, <2>5
<1> QED
  BY <1>5, <1>6 DEF LaunchThread

\* The thread that is joined has written its chunk, or its status ends the loop.
LEMMA JoinThreadKeeps ==
  ASSUME ThreadInvariant, JoinThread
  PROVE  ThreadInvariant'
<1> USE DEF ThreadInvariant, collectVars, mainVars, slotVars, threadVars, mutexes
<1> DEFINE s == (iChunk - 1) % 2
<1>1. Count' = Count /\ Count \in Nat /\ iChunk \in 1 .. Count
  BY DEF TypeOK, Count, JoinThread, Progress
<1>2. s \in Slots /\ iChunk % 2 \in Slots /\ iChunk % 2 # s /\ (iChunk + 1) % 2 = s
  BY <1>1 DEF Slots
<1>3. /\ pc = "join" /\ threadPc[s] = "ended"
      /\ hThreadHandle[s] /\ panChunkInfo[s] = iChunk
      /\ eErr = CE_None /\ todo = {} /\ result = Nothing
      /\ hThreadHandle[iChunk % 2] <=> iChunk < Count
      /\ iChunk < Count => panChunkInfo[iChunk % 2] = iChunk + 1
      /\ \A k \in 1 .. Count : (k < iChunk => writes[k] = 1) /\ (k > iChunk + 1 => writes[k] = 0)
  BY DEF JoinThread, Progress
<1>4. /\ hThreadHandle' = [hThreadHandle EXCEPT ![s] = FALSE]
      /\ eErr' = threadErr[s]
      /\ UNCHANGED <<collectVars, result, panChunkInfo, hasCond, threadVars, bIOMutexTaken, mutexes, writes>>
  BY DEF JoinThread
<1>5. threadErr[s] \in {CE_None, CE_Failure} /\ (threadErr[s] = CE_None => writes[iChunk] = 1)
  BY <1>2, <1>3 DEF TypeOK, SlotsBelong
<1>6. SlotsBelong'
  BY <1>1, <1>2, <1>3, <1>4 DEF TypeOK, SlotsBelong
<1>7. CASE pc' = "joinAll" /\ (threadErr[s] # CE_None \/ iChunk = Count) /\ UNCHANGED iChunk
  <2>1. TypeOK'
    BY <1>1, <1>2, <1>3, <1>4, <1>5, <1>7 DEF TypeOK, MainStates
  <2>2. Owners'
    BY <1>3, <1>4, <1>7 DEF Owners
  <2>3. Progress'
    BY <1>1, <1>3, <1>4, <1>5, <1>7 DEF Progress
  <2>4. NoChunkIsWrittenTwice' /\ ReturnLeavesNoThread'
    BY <1>4, <1>7 DEF NoChunkIsWrittenTwice, ReturnLeavesNoThread
  <2> QED
    BY <1>6, <2>1, <2>2, <2>3, <2>4
<1>8. CASE pc' = "launch" /\ threadErr[s] = CE_None /\ iChunk # Count /\ iChunk' = iChunk + 1
  <2>1. TypeOK'
    <3>1. hThreadHandle' \in [Slots -> BOOLEAN]
      BY <1>2, <1>4 DEF TypeOK
    <3>2. pc' \in MainStates \ {"collect"} /\ iChunk' \in 0 .. Count
      BY <1>1, <1>8 DEF MainStates
    <3>3. eErr' \in {CE_None, CE_Failure}
      BY <1>4, <1>5
    <3> QED
      BY <1>1, <1>3, <1>4, <3>1, <3>2, <3>3 DEF TypeOK
  <2>2. Owners'
    BY <1>3, <1>4, <1>8 DEF Owners
  <2>3. /\ ~ hThreadHandle'[iChunk' % 2]
        /\ hThreadHandle'[(iChunk' - 1) % 2] /\ panChunkInfo'[(iChunk' - 1) % 2] = iChunk'
    <3>1. (iChunk' - 1) % 2 = iChunk % 2 /\ iChunk' % 2 = s
      BY <1>1, <1>2, <1>8
    <3> HIDE DEF s
    <3> QED
      BY <1>1, <1>2, <1>3, <1>4, <1>8, <3>1 DEF TypeOK
  <2>4. \A k \in 1 .. Count' : (k < iChunk' => writes'[k] = 1) /\ (k > iChunk' => writes'[k] = 0)
    BY <1>1, <1>3, <1>4, <1>5, <1>8
  <2>5. Progress'
    BY <1>1, <1>3, <1>4, <1>5, <1>8, <2>3, <2>4 DEF Progress
  <2>6. NoChunkIsWrittenTwice' /\ ReturnLeavesNoThread'
    BY <1>4, <1>8 DEF NoChunkIsWrittenTwice, ReturnLeavesNoThread
  <2> QED
    BY <1>6, <2>1, <2>2, <2>5, <2>6
<1> QED
  BY <1>4, <1>7, <1>8 DEF JoinThread

\* The threads that still have a handle have ended.
LEMMA ReturnKeeps ==
  ASSUME ThreadInvariant, Return
  PROVE  ThreadInvariant'
<1> USE DEF Return, ThreadInvariant, collectVars, mainVars, slotVars, threadVars, mutexes
<1>1. Count' = Count /\ Count \in Nat
  BY DEF TypeOK, Count
<1>2. TypeOK'
  BY <1>1 DEF TypeOK, MainStates
<1>3. Owners'
  BY WarpAssumption DEF TypeOK, Owners, Slots
<1>4. SlotsBelong'
  BY <1>1 DEF TypeOK, SlotsBelong, Slots, Progress
<1>5. Progress'
  BY <1>1, WarpAssumption DEF TypeOK, Progress, SlotsBelong, Slots
<1>6. NoChunkIsWrittenTwice' /\ ReturnLeavesNoThread'
  BY <1>3, WarpAssumption DEF TypeOK, NoChunkIsWrittenTwice, ReturnLeavesNoThread, SlotsBelong, Owners, Slots
<1> QED
  BY <1>2, <1>3, <1>4, <1>5, <1>6

\* The thread copies its chunk's number before its slot is used again.
LEMMA ReadChunkInfoKeeps ==
  ASSUME ThreadInvariant, NEW s \in Slots, ReadChunkInfo(s)
  PROVE  ThreadInvariant'
<1> USE DEF ReadChunkInfo, ThreadInvariant, collectVars, mainVars, slotVars, threadVars, mutexes
<1>1. Count' = Count /\ Count \in Nat
  BY DEF TypeOK, Count
<1>0. hThreadHandle[s]
  BY DEF SlotsBelong
<1>2. TypeOK'
  BY <1>1 DEF TypeOK, ThreadStates
<1>3. Owners'
  BY WarpAssumption DEF TypeOK, Owners, Slots
<1>4. SlotsBelong'
  BY <1>1, OwnChunk DEF TypeOK, SlotsBelong
<1>5. Progress'
  BY <1>1 DEF TypeOK, Progress, SlotsBelong, Slots
<1>6. NoChunkIsWrittenTwice' /\ ReturnLeavesNoThread'
  BY <1>1, <1>3 DEF TypeOK, NoChunkIsWrittenTwice, ReturnLeavesNoThread, SlotsBelong, Owners, Slots, Progress
<1> QED
  BY <1>2, <1>3, <1>4, <1>5, <1>6

\* hIOMutex has one owner.
LEMMA AcquireIOKeeps ==
  ASSUME ThreadInvariant, NEW s \in Slots, AcquireIO(s)
  PROVE  ThreadInvariant'
<1> USE DEF AcquireIO, ThreadInvariant, collectVars, mainVars, slotVars, threadVars, mutexes
<1>1. Count' = Count /\ Count \in Nat
  BY DEF TypeOK, Count
<1>0. hThreadHandle[s]
  BY DEF SlotsBelong
<1>2. TypeOK'
  BY <1>1 DEF TypeOK, ThreadStates
<1>3. Owners'
  BY WarpAssumption DEF TypeOK, Owners, Slots
<1>4. SlotsBelong'
  BY <1>1, OwnChunk DEF TypeOK, SlotsBelong
<1>5. Progress'
  BY <1>1 DEF TypeOK, Progress, SlotsBelong, Slots
<1>6. NoChunkIsWrittenTwice' /\ ReturnLeavesNoThread'
  BY <1>1, <1>3 DEF TypeOK, NoChunkIsWrittenTwice, ReturnLeavesNoThread, SlotsBelong, Owners, Slots, Progress
<1> QED
  BY <1>2, <1>3, <1>4, <1>5, <1>6

\* The signal moves only a caller that waits.
LEMMA SignalKeeps ==
  ASSUME ThreadInvariant, NEW s \in Slots, Signal(s)
  PROVE  ThreadInvariant'
<1> USE DEF Signal, ThreadInvariant, collectVars, mainVars, slotVars, threadVars, mutexes
<1>1. Count' = Count /\ Count \in Nat
  BY DEF TypeOK, Count
<1>0. hThreadHandle[s]
  BY DEF SlotsBelong
<1>2. TypeOK'
  <2>1. pc' \in MainStates /\ (pc' = "collect" <=> pc = "collect")
    BY DEF TypeOK, MainStates
  <2>2. threadPc' \in [Slots -> ThreadStates] /\ bIOMutexTaken' \in [Slots -> BOOLEAN]
    BY DEF TypeOK, ThreadStates
  <2>3. UNCHANGED <<collectVars, iChunk, eErr, result, slotVars, chunk, threadErr, mutexes, writes>>
    OBVIOUS
  <2> HIDE DEF Signal
  <2> QED
    BY <1>1, <2>1, <2>2, <2>3 DEF TypeOK
<1>3. Owners'
  BY WarpAssumption DEF TypeOK, Owners, Slots
<1>4. SlotsBelong'
  BY <1>1, OwnChunk DEF TypeOK, SlotsBelong
<1>5. Progress'
  BY <1>1 DEF TypeOK, Progress, SlotsBelong, Slots
<1>6. NoChunkIsWrittenTwice' /\ ReturnLeavesNoThread'
  BY <1>1, <1>3 DEF TypeOK, NoChunkIsWrittenTwice, ReturnLeavesNoThread, SlotsBelong, Owners, Slots, Progress
<1> QED
  BY <1>2, <1>3, <1>4, <1>5, <1>6

\* A failed read keeps hIOMutex or goes on without; the chunk stays unwritten.
LEMMA ReadInputKeeps ==
  ASSUME ThreadInvariant, NEW s \in Slots, ReadInput(s)
  PROVE  ThreadInvariant'
<1> USE DEF ThreadInvariant, collectVars, mainVars, slotVars, threadVars, mutexes
<1>1. Count' = Count /\ Count \in Nat
  BY DEF TypeOK, Count, ReadInput
<1>2. hThreadHandle[s] /\ panChunkInfo[s] \in 1 .. Count /\ chunk[s] = panChunkInfo[s]
      /\ writes[panChunkInfo[s]] = 0
  BY DEF SlotsBelong, ReadInput
<1>3. pc # "collect" /\ ~ (pc \in {"joinAll", "returned"} /\ eErr = CE_None) /\ pc # "returned"
  BY <1>2 DEF Progress, ReadInput, ReturnLeavesNoThread
<1>4. CASE /\ ioMutex' = Free
           /\ threadPc' = [threadPc EXCEPT ![s] = "acquireWarp"]
           /\ \E err \in {CE_None, CE_Failure} : threadErr' = [threadErr EXCEPT ![s] = err]
  <2>1. TypeOK'
    <3>1. PICK err \in {CE_None, CE_Failure} : threadErr' = [threadErr EXCEPT ![s] = err]
      BY <1>4
    <3> QED
      BY <1>1, <1>4, <3>1 DEF ReadInput, TypeOK, ThreadStates
  <2>2. Owners'
    BY <1>4, WarpAssumption DEF ReadInput, TypeOK, Owners, Slots
  <2>3. SlotsBelong'
    BY <1>1, <1>2, <1>4, OwnChunk DEF ReadInput, TypeOK, SlotsBelong
  <2>4. Progress' /\ NoChunkIsWrittenTwice' /\ ReturnLeavesNoThread'
    BY <1>1, <1>3, <1>4 DEF ReadInput, TypeOK, Progress, NoChunkIsWrittenTwice, ReturnLeavesNoThread
  <2> QED
    BY <2>1, <2>2, <2>3, <2>4
<1>5. CASE /\ threadPc' = [threadPc EXCEPT ![s] = "releaseIO"]
           /\ threadErr' = [threadErr EXCEPT ![s] = CE_Failure]
           /\ UNCHANGED ioMutex
  <2>1. TypeOK'
    BY <1>1, <1>5 DEF ReadInput, TypeOK, ThreadStates
  <2>2. Owners'
    BY <1>5, WarpAssumption DEF ReadInput, TypeOK, Owners, Slots
  <2>3. SlotsBelong'
    <3>1. /\ threadPc' = [threadPc EXCEPT ![s] = "releaseIO"]
          /\ threadErr' = [threadErr EXCEPT ![s] = CE_Failure]
          /\ UNCHANGED <<hThreadHandle, panChunkInfo, chunk, writes>>
      BY <1>5 DEF ReadInput
    <3>2. /\ threadPc'[s] = "releaseIO" /\ threadErr'[s] # CE_None
          /\ \A u \in Slots \ {s} : threadPc'[u] = threadPc[u] /\ threadErr'[u] = threadErr[u]
      BY <3>1, WarpAssumption DEF TypeOK
    <3> QED
      BY <1>1, <1>2, <3>1, <3>2 DEF SlotsBelong
  <2>4. Progress' /\ NoChunkIsWrittenTwice' /\ ReturnLeavesNoThread'
    BY <1>1, <1>3, <1>5 DEF ReadInput, TypeOK, Progress, NoChunkIsWrittenTwice, ReturnLeavesNoThread
  <2> QED
    BY <2>1, <2>2, <2>3, <2>4
<1> QED
  BY <1>4, <1>5 DEF ReadInput

\* hWarpMutex has one owner.
LEMMA AcquireWarpKeeps ==
  ASSUME ThreadInvariant, NEW s \in Slots, AcquireWarp(s)
  PROVE  ThreadInvariant'
<1> USE DEF AcquireWarp, ThreadInvariant, collectVars, mainVars, slotVars, threadVars, mutexes
<1>1. Count' = Count /\ Count \in Nat
  BY DEF TypeOK, Count
<1>0. hThreadHandle[s]
  BY DEF SlotsBelong
<1>2. TypeOK'
  BY <1>1 DEF TypeOK, ThreadStates
<1>3. Owners'
  BY WarpAssumption DEF TypeOK, Owners, Slots
<1>4. SlotsBelong'
  BY <1>1, OwnChunk DEF TypeOK, SlotsBelong
<1>5. Progress'
  BY <1>1 DEF TypeOK, Progress, SlotsBelong, Slots
<1>6. NoChunkIsWrittenTwice' /\ ReturnLeavesNoThread'
  BY <1>1, <1>3 DEF TypeOK, NoChunkIsWrittenTwice, ReturnLeavesNoThread, SlotsBelong, Owners, Slots, Progress
<1> QED
  BY <1>2, <1>3, <1>4, <1>5, <1>6

\* Computing writes nothing.
LEMMA PerformWarpKeeps ==
  ASSUME ThreadInvariant, NEW s \in Slots, PerformWarp(s)
  PROVE  ThreadInvariant'
<1> USE DEF ThreadInvariant, collectVars, mainVars, slotVars, threadVars, mutexes
<1>1. Count' = Count /\ Count \in Nat
  BY DEF TypeOK, Count, PerformWarp
<1>2. hThreadHandle[s] /\ panChunkInfo[s] \in 1 .. Count /\ chunk[s] = panChunkInfo[s]
      /\ writes[panChunkInfo[s]] = 0
  BY DEF SlotsBelong, PerformWarp
<1>3. pc # "collect" /\ ~ (pc \in {"joinAll", "returned"} /\ eErr = CE_None) /\ pc # "returned"
  BY <1>2 DEF Progress, PerformWarp, ReturnLeavesNoThread
<1>4. PICK err \in {CE_None, CE_Failure} : threadErr' = [threadErr EXCEPT ![s] = err]
  BY DEF PerformWarp, TypeOK
<1>5. TypeOK'
  BY <1>1, <1>4 DEF PerformWarp, TypeOK, ThreadStates
<1>6. Owners'
  BY <1>4, WarpAssumption DEF PerformWarp, TypeOK, Owners, Slots
<1>7. SlotsBelong'
  BY <1>1, <1>2, <1>4, OwnChunk DEF PerformWarp, TypeOK, SlotsBelong
<1>8. Progress' /\ NoChunkIsWrittenTwice' /\ ReturnLeavesNoThread'
  BY <1>1, <1>3, <1>4 DEF PerformWarp, TypeOK, Progress, NoChunkIsWrittenTwice, ReturnLeavesNoThread
<1> QED
  BY <1>5, <1>6, <1>7, <1>8

\* hIOMutex is taken again for writing.
LEMMA ReacquireIOKeeps ==
  ASSUME ThreadInvariant, NEW s \in Slots, ReacquireIO(s)
  PROVE  ThreadInvariant'
<1> USE DEF ReacquireIO, ThreadInvariant, collectVars, mainVars, slotVars, threadVars, mutexes
<1>1. Count' = Count /\ Count \in Nat
  BY DEF TypeOK, Count
<1>0. hThreadHandle[s]
  BY DEF SlotsBelong
<1>2. TypeOK'
  BY <1>1 DEF TypeOK, ThreadStates
<1>3. Owners'
  BY WarpAssumption DEF TypeOK, Owners, Slots
<1>4. SlotsBelong'
  BY <1>1, OwnChunk DEF TypeOK, SlotsBelong
<1>5. Progress'
  BY <1>1 DEF TypeOK, Progress, SlotsBelong, Slots
<1>6. NoChunkIsWrittenTwice' /\ ReturnLeavesNoThread'
  BY <1>1, <1>3 DEF TypeOK, NoChunkIsWrittenTwice, ReturnLeavesNoThread, SlotsBelong, Owners, Slots, Progress
<1> QED
  BY <1>2, <1>3, <1>4, <1>5, <1>6

\* A chunk is written by the only thread that works on it, for the first time.
LEMMA WriteOutputKeeps ==
  ASSUME ThreadInvariant, NEW s \in Slots, WriteOutput(s)
  PROVE  ThreadInvariant'
<1> USE DEF ThreadInvariant, collectVars, mainVars, slotVars, threadVars, mutexes
<1>1. Count' = Count /\ Count \in Nat
  BY DEF TypeOK, Count, WriteOutput
<1>2. hThreadHandle[s] /\ panChunkInfo[s] \in 1 .. Count /\ chunk[s] = panChunkInfo[s]
      /\ writes[panChunkInfo[s]] = 0
  BY DEF SlotsBelong, WriteOutput
<1>3. pc # "collect" /\ ~ (pc \in {"joinAll", "returned"} /\ eErr = CE_None) /\ pc # "returned"
  BY <1>2 DEF Progress, WriteOutput, ReturnLeavesNoThread
<1>4. CASE /\ threadErr[s] = CE_None
           /\ writes' = [writes EXCEPT ![chunk[s]] = @ + 1]
           /\ \E err \in {CE_None, CE_Failure} : threadErr' = [threadErr EXCEPT ![s] = err]
  <2>0. PICK err \in {CE_None, CE_Failure} : threadErr' = [threadErr EXCEPT ![s] = err]
    BY <1>4
  <2>1. writes \in [1 .. Count -> Nat]
    BY <1>3 DEF TypeOK
  <2>2. writes' = [writes EXCEPT ![panChunkInfo[s]] = 1]
    <3>1. writes[chunk[s]] + 1 = 1
      BY <1>2
    <3> QED
      BY <1>2, <1>4, <3>1
  <2>3. TypeOK'
    BY <1>1, <1>2, <1>3, <1>4, <2>0, <2>1, <2>2 DEF WriteOutput, TypeOK, ThreadStates
  <2>4. Owners'
    BY <1>4, WarpAssumption DEF WriteOutput, TypeOK, Owners, Slots
  <2>5. SlotsBelong'
    <3>1. /\ threadPc' = [threadPc EXCEPT ![s] = "releaseIO"]
          /\ UNCHANGED <<hThreadHandle, panChunkInfo, chunk>>
          /\ \A u \in Slots \ {s} : threadPc'[u] = threadPc[u] /\ threadErr'[u] = threadErr[u]
      BY <1>4, <2>0 DEF WriteOutput, TypeOK
    <3>2. writes'[panChunkInfo[s]] = 1
      BY <1>2, <2>1, <2>2
    <3>3. \A u \in Slots : u # s /\ hThreadHandle[u]
                              => writes'[panChunkInfo[u]] = writes[panChunkInfo[u]]
      BY <1>2, <2>1, <2>2, OwnChunk
    <3> QED
      BY <1>1, <1>2, <3>1, <3>2, <3>3 DEF TypeOK, SlotsBelong
  <2>6. \A k \in 1 .. Count : writes[k] = 1 => writes'[k] = 1
    BY <2>1, <2>2
  <2>7. \A k \in 1 .. Count : k # panChunkInfo[s] => writes'[k] = writes[k]
    BY <2>1, <2>2
  <2>8. /\ pc = "launch" => panChunkInfo[s] <= iChunk
        /\ pc \in {"lockCond", "testTaken", "condWait", "waiting"} => panChunkInfo[s] <= 1
        /\ pc = "join" => panChunkInfo[s] <= iChunk + 1
    BY <1>2 DEF Progress, Slots, TypeOK
  <2>9. Progress'
    <3>1. UNCHANGED <<pc, iChunk, eErr, result, hThreadHandle, panChunkInfo, todo>>
      BY DEF WriteOutput
    <3>2. iChunk \in Nat /\ panChunkInfo[s] \in Nat
      BY <1>1, <1>2 DEF TypeOK
    <3>3. pc = "launch" =>
             \A k \in 1 .. Count : (k < iChunk => writes'[k] = 1) /\ (k > iChunk => writes'[k] = 0)
      BY <2>6, <2>7, <2>8, <3>2 DEF Progress
    <3>4. pc \in {"lockCond", "testTaken", "condWait", "waiting"} =>
             \A k \in 1 .. Count : k > 1 => writes'[k] = 0
      BY <2>7, <2>8, <3>2 DEF Progress
    <3>5. pc = "join" =>
             \A k \in 1 .. Count : (k < iChunk => writes'[k] = 1) /\ (k > iChunk + 1 => writes'[k] = 0)
      BY <2>6, <2>7, <2>8, <3>2 DEF Progress
    <3> QED
      BY <1>1, <1>3, <3>1, <3>3, <3>4, <3>5 DEF Progress
  <2>10. NoChunkIsWrittenTwice' /\ ReturnLeavesNoThread'
    BY <1>3, <2>1, <2>2 DEF WriteOutput, TypeOK, NoChunkIsWrittenTwice, ReturnLeavesNoThread
  <2> QED
    BY <2>3, <2>4, <2>5, <2>9, <2>10
<1>5. CASE threadErr' = [threadErr EXCEPT ![s] = CE_Failure] /\ UNCHANGED writes
  <2>1. TypeOK'
    BY <1>1, <1>5 DEF WriteOutput, TypeOK, ThreadStates
  <2>2. Owners'
    BY <1>5, WarpAssumption DEF WriteOutput, TypeOK, Owners, Slots
  <2>3. SlotsBelong'
    <3>1. /\ threadPc' = [threadPc EXCEPT ![s] = "releaseIO"]
          /\ threadErr' = [threadErr EXCEPT ![s] = CE_Failure]
          /\ UNCHANGED <<hThreadHandle, panChunkInfo, chunk, writes>>
      BY <1>5 DEF WriteOutput
    <3>2. /\ threadPc'[s] = "releaseIO" /\ threadErr'[s] # CE_None
          /\ \A u \in Slots \ {s} : threadPc'[u] = threadPc[u] /\ threadErr'[u] = threadErr[u]
      BY <3>1, WarpAssumption DEF TypeOK
    <3> QED
      BY <1>1, <1>2, <3>1, <3>2 DEF SlotsBelong
  <2>4. Progress' /\ NoChunkIsWrittenTwice' /\ ReturnLeavesNoThread'
    BY <1>1, <1>3, <1>5 DEF WriteOutput, TypeOK, Progress, NoChunkIsWrittenTwice, ReturnLeavesNoThread
  <2> QED
    BY <2>1, <2>2, <2>3, <2>4
<1> QED
  BY <1>4, <1>5 DEF WriteOutput

\* A thread that ends gives hIOMutex back.
LEMMA ReleaseIOKeeps ==
  ASSUME ThreadInvariant, NEW s \in Slots, ReleaseIO(s)
  PROVE  ThreadInvariant'
<1> USE DEF ReleaseIO, ThreadInvariant, collectVars, mainVars, slotVars, threadVars, mutexes
<1>1. Count' = Count /\ Count \in Nat
  BY DEF TypeOK, Count
<1>0. hThreadHandle[s]
  BY DEF SlotsBelong
<1>2. TypeOK'
  BY <1>1 DEF TypeOK, ThreadStates
<1>3. Owners'
  BY WarpAssumption DEF TypeOK, Owners, Slots
<1>4. SlotsBelong'
  BY <1>1, OwnChunk DEF TypeOK, SlotsBelong
<1>5. Progress'
  BY <1>1 DEF TypeOK, Progress, SlotsBelong, Slots
<1>6. NoChunkIsWrittenTwice' /\ ReturnLeavesNoThread'
  BY <1>1, <1>3 DEF TypeOK, NoChunkIsWrittenTwice, ReturnLeavesNoThread, SlotsBelong, Owners, Slots, Progress
<1> QED
  BY <1>2, <1>3, <1>4, <1>5, <1>6

-----------------------------------------------------------------------------
(* The invariant.                                                          *)

\* While the windows are collected no thread runs and nothing is written.
LEMMA CollectKeeps ==
  ASSUME WarpInvariant, CollectStep
  PROVE  WarpInvariant'
<1> USE DEF mainVars, slotVars, threadVars, mutexes
<1>1. ThreadInvariant /\ Tiling
  BY DEF WarpInvariant, ThreadInvariant
<1>2. CASE SortChunks
  <2>1. Tiling' /\ chunkList' \in Seq(Windows) /\ Count' = Count
    BY <1>1, <1>2, SortTiles DEF ThreadInvariant
  <2>2. Count \in Nat
    BY <1>1 DEF ThreadInvariant, TypeOK, Count
  <2>3. iChunk = 0 /\ \A s \in Slots : threadPc[s] = "none" /\ ~ hThreadHandle[s]
    BY <1>1, <1>2 DEF SortChunks, ThreadInvariant, Progress
  <2>4. writes' = [i \in 1 .. Count |-> 0] /\ pc' = "launch"
    BY <1>2 DEF SortChunks
  <2>5. TypeOK'
    BY <1>1, <1>2, <2>1, <2>2, <2>4 DEF SortChunks, ThreadInvariant, TypeOK, MainStates
  <2>6. Owners' /\ SlotsBelong'
    BY <1>1, <1>2, <2>3 DEF SortChunks, ThreadInvariant, Owners, SlotsBelong
  <2>7. Progress'
    BY <1>1, <1>2, <2>1, <2>2, <2>3, <2>4 DEF SortChunks, ThreadInvariant, Progress, Slots
  <2>8. NoChunkIsWrittenTwice' /\ ReturnLeavesNoThread'
    BY <2>2, <2>4 DEF NoChunkIsWrittenTwice, ReturnLeavesNoThread
  <2> QED
    BY <2>1, <2>5, <2>6, <2>7, <2>8 DEF WarpInvariant
<1>3. ASSUME NEW r \in todo, SkipWindow(r) \/ SplitWindow(r) \/ AddChunk(r)
      PROVE  WarpInvariant'
  <2>1. Tiling' /\ todo' \subseteq Windows /\ skipped' \subseteq Windows /\ chunkList' \in Seq(Windows)
    <3>1. CASE SkipWindow(r)
      BY <1>1, <3>1, SkipTiles DEF SkipWindow, ThreadInvariant, TypeOK
    <3>2. CASE SplitWindow(r)
      <4>1. Tiling' /\ Parts(r) \subseteq Windows
        BY <1>1, <3>2, SplitTiles DEF ThreadInvariant
      <4> QED
        BY <1>1, <3>2, <4>1 DEF SplitWindow, ThreadInvariant, TypeOK
    <3>3. CASE AddChunk(r)
      <4>1. Tiling'
        BY <1>1, <3>3, AddTiles DEF ThreadInvariant
      <4> QED
        BY <1>1, <3>3, <4>1 DEF AddChunk, ThreadInvariant, TypeOK
    <3> QED
      BY <1>3, <3>1, <3>2, <3>3
  <2>2. /\ pc = "collect" /\ optimizeSize' = optimizeSize
        /\ UNCHANGED <<mainVars, slotVars, threadVars, bIOMutexTaken, mutexes, writes>>
    BY <1>3 DEF SkipWindow, SplitWindow, AddChunk
  <2>3. /\ iChunk = 0 /\ writes = << >>
        /\ \A s \in Slots : threadPc[s] = "none" /\ ~ hThreadHandle[s]
    BY <1>1, <2>2 DEF ThreadInvariant, Progress
  <2>4. Count \in Nat /\ Count' \in Nat /\ Count <= Count'
    <3>1. chunkList \in Seq(Windows)
      BY <1>1 DEF ThreadInvariant, TypeOK
    <3>2. chunkList' = chunkList \/ chunkList' = Append(chunkList, r)
      BY <1>3 DEF SkipWindow, SplitWindow, AddChunk
    <3>3. r \in Windows
      BY <1>1 DEF ThreadInvariant, TypeOK
    <3> QED
      BY <3>1, <3>2, <3>3 DEF Count
  <2>5. TypeOK'
    BY <1>1, <2>1, <2>2, <2>4 DEF ThreadInvariant, TypeOK
  <2>6. Owners' /\ SlotsBelong' /\ Progress' /\ NoChunkIsWrittenTwice' /\ ReturnLeavesNoThread'
    BY <1>1, <2>2, <2>3 DEF ThreadInvariant, Owners, SlotsBelong, Progress,
                            NoChunkIsWrittenTwice, ReturnLeavesNoThread
  <2> QED
    BY <2>1, <2>5, <2>6 DEF WarpInvariant
<1> QED
  BY <1>2, <1>3 DEF CollectStep

\* The call begins with one window, the region.
LEMMA WarpInvariantInit == Init => WarpInvariant
<1> SUFFICES ASSUME Init PROVE WarpInvariant
  OBVIOUS
<1> USE WarpAssumption DEF Init, Slots
<1>1. Region \in Windows /\ Count = 0 /\ chunkList = << >>
  BY DEF Region, Windows, Count
<1>2. TypeOK
  <2>1. writes \in [{} -> Nat]
    OBVIOUS
  <2> QED
    BY <1>1, <2>1 DEF TypeOK, MainStates, ThreadStates
<1>3. Tiling
  BY <1>1 DEF Tiling, Covers, Region
<1>4. Owners
  BY DEF Owners
<1>5. SlotsBelong
  BY DEF SlotsBelong
<1>6. Progress
  BY DEF Progress
<1>7. NoChunkIsWrittenTwice /\ ReturnLeavesNoThread
  BY DEF NoChunkIsWrittenTwice, ReturnLeavesNoThread
<1> QED
  BY <1>2, <1>3, <1>4, <1>5, <1>6, <1>7 DEF WarpInvariant

\* Every step preserves the invariant.
LEMMA WarpInvariantNext == WarpInvariant /\ [Next]_vars => WarpInvariant'
<1> SUFFICES ASSUME WarpInvariant, [Next]_vars
             PROVE  WarpInvariant'
  OBVIOUS
<1>1. ThreadInvariant /\ Tiling
  BY DEF WarpInvariant, ThreadInvariant
<1>2. ThreadInvariant' /\ Tiling' => WarpInvariant'
  BY DEF WarpInvariant, ThreadInvariant
<1>3. CASE CollectStep
  BY <1>3, CollectKeeps
<1>4. CASE MainStep \/ SpuriousWakeup
  <2>1. UNCHANGED collectVars
    BY <1>4 DEF MainStep, LaunchThread, NothingToLaunch, LockCond, TestTaken, CondWait,
                SpuriousWakeup, JoinThread, Return, collectVars
  <2>2. ThreadInvariant'
    BY <1>1, <1>4, LaunchThreadKeeps, NothingToLaunchKeeps, LockCondKeeps, TestTakenKeeps,
       CondWaitKeeps, SpuriousWakeupKeeps, JoinThreadKeeps, ReturnKeeps DEF MainStep
  <2> QED
    BY <1>1, <1>2, <2>1, <2>2, TilingFrame
<1>5. ASSUME NEW s \in Slots, ThreadStep(s)
      PROVE  WarpInvariant'
  <2>1. UNCHANGED collectVars
    BY <1>5 DEF ThreadStep, ReadChunkInfo, AcquireIO, Signal, ReadInput, AcquireWarp,
                PerformWarp, ReacquireIO, WriteOutput, ReleaseIO, collectVars
  <2>2. ThreadInvariant'
    BY <1>1, <1>5, ReadChunkInfoKeeps, AcquireIOKeeps, SignalKeeps, ReadInputKeeps,
       AcquireWarpKeeps, PerformWarpKeeps, ReacquireIOKeeps, WriteOutputKeeps, ReleaseIOKeeps
       DEF ThreadStep
  <2> QED
    BY <1>1, <1>2, <2>1, <2>2, TilingFrame
<1>6. CASE UNCHANGED vars
  <2>1. UNCHANGED collectVars
    BY <1>6 DEF vars, collectVars
  <2>2. ThreadInvariant'
    BY <1>1, <1>6 DEF vars, collectVars, mainVars, slotVars, threadVars, mutexes, ThreadInvariant,
       TypeOK, Owners, SlotsBelong, Progress, NoChunkIsWrittenTwice, ReturnLeavesNoThread, Count
  <2> QED
    BY <1>1, <1>2, <2>1, <2>2, TilingFrame
<1> QED
  BY <1>3, <1>4, <1>5, <1>6 DEF Next

\* Types, the tiling, the owners of the mutexes, the slots and the progress of
\* the calling thread, in every reachable state.
THEOREM WarpInvariantHolds == Spec => []WarpInvariant
BY WarpInvariantInit, WarpInvariantNext, PTL DEF Spec

\* The variables keep their types; iChunk never passes the number of chunks.
THEOREM WarpTypes == Spec => []TypeOK
<1>1. WarpInvariant => TypeOK
  BY DEF WarpInvariant
<1> QED
  BY <1>1, WarpInvariantHolds, PTL

\* Success stands for an output in which every pixel of a chunk was written
\* exactly once and every other pixel belongs to a window that was left out.
THEOREM SuccessIsWhole == Spec => []SuccessWritesEachPixelOnce
<1>1. WarpInvariant => SuccessWritesEachPixelOnce
  <2> SUFFICES ASSUME WarpInvariant, result = CE_None,
                      NEW i \in 0 .. DstXSize - 1, NEW j \in 0 .. DstYSize - 1
               PROVE  \/ /\ \E r \in skipped : Covers(r, i, j)
                         /\ \A k \in 1 .. Count : ~ Covers(chunkList[k], i, j)
                      \/ \E k \in 1 .. Count :
                             /\ Covers(chunkList[k], i, j) /\ writes[k] = 1
                             /\ \A m \in 1 .. Count \ {k} : ~ Covers(chunkList[m], i, j)
    BY DEF SuccessWritesEachPixelOnce
  <2>1. todo = {} /\ \A k \in 1 .. Count : writes[k] = 1
    BY WarpAssumption DEF WarpInvariant, Progress
  <2>2. CASE \E k \in 1 .. Count : Covers(chunkList[k], i, j)
    <3>1. PICK k \in 1 .. Count : Covers(chunkList[k], i, j)
      BY <2>2
    <3>2. \A m \in 1 .. Count \ {k} : ~ Covers(chunkList[m], i, j)
      BY <3>1 DEF WarpInvariant, Tiling, Disjoint
    <3> QED
      BY <2>1, <3>1, <3>2
  <2>3. CASE ~ \E k \in 1 .. Count : Covers(chunkList[k], i, j)
    BY <2>1, <2>3 DEF WarpInvariant, Tiling
  <2> QED
    BY <2>2, <2>3
<1> QED
  BY <1>1, WarpInvariantHolds, PTL

\* Whatever fails, no chunk is written twice.
THEOREM ChunksAreWrittenOnce == Spec => []NoChunkIsWrittenTwice
<1>1. WarpInvariant => NoChunkIsWrittenTwice
  BY DEF WarpInvariant
<1> QED
  BY <1>1, WarpInvariantHolds, PTL

\* One thread at a time reads or writes, and one computes.
THEOREM MutualExclusion == Spec => []SectionsAreExclusive
<1>1. WarpInvariant => SectionsAreExclusive
  BY DEF WarpInvariant, Owners, SectionsAreExclusive, Slots
<1> QED
  BY <1>1, WarpInvariantHolds, PTL

\* Nothing of a call goes on after it: the chunk list may be freed.
THEOREM NothingRunsOn == Spec => []ReturnLeavesNoThread
<1>1. WarpInvariant => ReturnLeavesNoThread
  BY DEF WarpInvariant
<1> QED
  BY <1>1, WarpInvariantHolds, PTL

-----------------------------------------------------------------------------
(* The refinement of WarpCall, as far as safety goes.                      *)

\* A call starts with no chunks, nothing written and no result.
LEMMA PromiseInit == Init => Promise!Init
BY DEF Init, Promise!Init

\* Every step is a step of WarpCall or leaves its view unchanged.
LEMMA PromiseStep == WarpInvariant /\ WarpInvariant' /\ [Next]_vars
                       => [Promise!Next]_(Promise!vars)
<1> SUFFICES ASSUME WarpInvariant, WarpInvariant', [Next]_vars
             PROVE  [Promise!Next]_(Promise!vars)
  OBVIOUS
<1> USE DEF Promise!vars
<1>1. Count \in Nat /\ Count' \in Nat
  <2>1. chunkList \in Seq(Windows) /\ chunkList' \in Seq(Windows)
    BY DEF WarpInvariant, TypeOK
  <2> QED
    BY <2>1 DEF Count
<1>2. CASE SortChunks
  <2>1. result = Nothing /\ writes = << >> /\ UNCHANGED result
    BY <1>2 DEF SortChunks, WarpInvariant, Progress
  <2>2. {k \in DOMAIN writes : writes[k] > 0} = {}
    BY <2>1
  <2>3. {k \in DOMAIN writes' : writes'[k] > 0} = {}
    BY <1>2 DEF SortChunks
  <2>4. (IF pc = "collect" THEN 0 ELSE Count)' \in Nat
    BY <1>1
  <2> QED
    BY <2>1, <2>2, <2>3, <2>4 DEF Promise!Next, Promise!Divide
<1>3. CASE Return
  <2>1. /\ result = Nothing /\ result' = eErr /\ pc = "joinAll" /\ pc' = "returned"
        /\ UNCHANGED <<writes, chunkList>>
    BY <1>3 DEF Return, WarpInvariant, Progress, collectVars
  <2>2. Count' = Count
    BY <2>1 DEF Count
  <2>3. CASE eErr = CE_None
    <3>1. \A k \in 1 .. Count : writes[k] = 1
      BY <2>1, <2>3 DEF WarpInvariant, Progress
    <3>2. DOMAIN writes = 1 .. Count
      BY <2>1 DEF WarpInvariant, TypeOK
    <3>3. {k \in DOMAIN writes : writes[k] > 0} = 1 .. Count
      BY <3>1, <3>2
    <3> QED
      BY <2>1, <2>2, <2>3, <3>3 DEF Promise!Next, Promise!Succeed
  <2>4. CASE eErr = CE_Failure
    BY <2>1, <2>2, <2>4 DEF Promise!Next, Promise!Fail
  <2> QED
    BY <2>3, <2>4 DEF WarpInvariant, TypeOK
<1>4. ASSUME NEW s \in Slots, WriteOutput(s)
      PROVE  [Promise!Next]_(Promise!vars)
  <2>1. hThreadHandle[s] /\ panChunkInfo[s] \in 1 .. Count /\ chunk[s] = panChunkInfo[s]
        /\ writes[panChunkInfo[s]] = 0
    BY <1>4 DEF WarpInvariant, SlotsBelong, WriteOutput
  <2>2. pc # "collect" /\ pc # "returned" /\ result = Nothing
    BY <1>4, <2>1 DEF WarpInvariant, Progress, WriteOutput, ReturnLeavesNoThread
  <2>3. UNCHANGED <<pc, result, chunkList>> /\ Count' = Count
    BY <1>4 DEF WriteOutput, mainVars, collectVars, Count
  <2>4. CASE UNCHANGED writes
    BY <2>3, <2>4
  <2>5. CASE writes' = [writes EXCEPT ![chunk[s]] = @ + 1]
    <3>0. PICK c : c = panChunkInfo[s]
      OBVIOUS
    <3>1. writes \in [1 .. Count -> Nat]
      BY <2>2 DEF WarpInvariant, TypeOK
    <3>2. DOMAIN writes' = 1 .. Count /\ \A k \in 1 .. Count : writes'[k] = IF k = c THEN 1 ELSE writes[k]
      BY <2>1, <2>5, <3>0, <3>1
    <3>3. c \notin {k \in DOMAIN writes : writes[k] > 0}
      BY <2>1, <3>0
    <3>4. {k \in DOMAIN writes' : writes'[k] > 0} = {k \in DOMAIN writes : writes[k] > 0} \cup {c}
      BY <2>1, <3>0, <3>1, <3>2
    <3>5. c \in 1 .. (IF pc = "collect" THEN 0 ELSE Count)
      BY <2>1, <2>2, <3>0
    <3>6. Promise!WriteChunk(c)
      BY <2>2, <2>3, <3>3, <3>4 DEF Promise!WriteChunk
    <3>7. \E i \in 1 .. (IF pc = "collect" THEN 0 ELSE Count) : Promise!WriteChunk(i)
      BY <3>5, <3>6, Zenon
    <3>8. Promise!Next
      BY <3>7, Zenon DEF Promise!Next
    <3> QED
      BY <3>8
  <2> QED
    BY <1>4, <2>4, <2>5 DEF WriteOutput
<1>5. CASE \/ \E r \in todo : SkipWindow(r) \/ SplitWindow(r) \/ AddChunk(r)
           \/ LaunchThread \/ NothingToLaunch \/ LockCond \/ TestTaken \/ CondWait
           \/ JoinThread \/ SpuriousWakeup
           \/ \E s \in Slots : \/ ReadChunkInfo(s) \/ AcquireIO(s) \/ Signal(s) \/ ReadInput(s)
                               \/ AcquireWarp(s) \/ PerformWarp(s) \/ ReacquireIO(s) \/ ReleaseIO(s)
           \/ UNCHANGED vars
  <2>1. UNCHANGED <<result, writes>>
    BY <1>5 DEF SkipWindow, SplitWindow, AddChunk, LaunchThread, NothingToLaunch, LockCond,
         TestTaken, CondWait, JoinThread, SpuriousWakeup, ReadChunkInfo, AcquireIO, Signal,
         ReadInput, AcquireWarp, PerformWarp, ReacquireIO, ReleaseIO, vars, mainVars
  <2>2. \/ pc = "collect" /\ pc' = "collect"
        \/ pc # "collect" /\ pc' # "collect" /\ UNCHANGED chunkList
    <3>1. CASE \E r \in todo : SkipWindow(r) \/ SplitWindow(r) \/ AddChunk(r)
      BY <3>1 DEF SkipWindow, SplitWindow, AddChunk, mainVars
    <3>2. CASE LaunchThread \/ NothingToLaunch \/ LockCond \/ TestTaken \/ CondWait
               \/ JoinThread \/ SpuriousWakeup
      BY <3>2 DEF LaunchThread, NothingToLaunch, LockCond, TestTaken, CondWait, JoinThread,
                  SpuriousWakeup, collectVars
    <3>3. ASSUME NEW s \in Slots,
                 \/ ReadChunkInfo(s) \/ AcquireIO(s) \/ Signal(s) \/ ReadInput(s)
                 \/ AcquireWarp(s) \/ PerformWarp(s) \/ ReacquireIO(s) \/ ReleaseIO(s)
          PROVE  pc # "collect" /\ pc' # "collect" /\ UNCHANGED chunkList
      <4>1. threadPc[s] # "none"
        BY <3>3 DEF ReadChunkInfo, AcquireIO, Signal, ReadInput, AcquireWarp, PerformWarp,
                    ReacquireIO, ReleaseIO
      <4>2. pc # "collect"
        BY <4>1 DEF WarpInvariant, Progress
      <4> QED
        BY <3>3, <4>2 DEF ReadChunkInfo, AcquireIO, Signal, ReadInput, AcquireWarp, PerformWarp,
                          ReacquireIO, ReleaseIO, mainVars, collectVars
    <3>4. CASE UNCHANGED vars
      BY <3>4 DEF vars, collectVars, mainVars
    <3> QED
      BY <1>5, <3>1, <3>2, <3>3, <3>4
  <2>3. UNCHANGED (IF pc = "collect" THEN 0 ELSE Count)
    BY <2>2 DEF Count
  <2> QED
    BY <2>1, <2>3
<1>6. CASE CollectStep
  BY <1>2, <1>5, <1>6, Zenon DEF CollectStep
<1>7. CASE MainStep
  BY <1>3, <1>5, <1>7, Zenon DEF MainStep
<1>8. CASE \E s \in Slots : ThreadStep(s)
  BY <1>4, <1>5, <1>8, Zenon DEF ThreadStep
<1>9. CASE SpuriousWakeup \/ UNCHANGED vars
  BY <1>5, <1>9
<1>10. Next \/ UNCHANGED vars
  OBVIOUS
<1> QED
  BY <1>6, <1>7, <1>8, <1>9, <1>10, Zenon DEF Next

\* ChunkAndWarpMulti implements the safety part of WarpCall: chunks are written
\* one by one and once, and the result is CE_None only after the last.
THEOREM MultiImplementsCall == Spec => Promise!Init /\ [][Promise!Next]_(Promise!vars)
BY PromiseInit, PromiseStep, WarpInvariantHolds, PTL DEF Spec

=============================================================================
