-------------------------- MODULE WorkerRunProofs --------------------------
(***************************************************************************)
(* Proofs about WorkerRun, for any number of tasks, tries and runs.        *)
(*                                                                         *)
(* WorkerInvariant is inductive.  The heart of the argument is that a run  *)
(* which is not overlapped is the only active one (SoloIsAlone), so every  *)
(* other run's step leaves it alone, and that a settled task is mentioned  *)
(* neither in dados.csv nor by any R process (SettledIsSafe), so no later  *)
(* run reaches its products.  One lemma per action follows: its step <1>2  *)
(* says where the run is and where it goes, the conjuncts of the invariant *)
(* that the action disturbs come next, one by one, and the others last.    *)
(***************************************************************************)
EXTENDS WorkerRun, TLAPS

\* A run that has had the sandbox to itself so far is the only active one.
LEMMA SoloIsAlone ==
  ASSUME TypeOK, OverlapIsMutual, NEW t \in Tasks, Active(t)
  PROVE  \A u \in Tasks \ {t} : Solo(u) => ~Active(u)
BY DEF OverlapIsMutual, Solo

\* A step of one run that takes it to a place of the script.
LEMMA PlaceTypes ==
  ASSUME TypeOK, NEW t \in Tasks, pc' = [pc EXCEPT ![t] = pc'[t]], pc'[t] \in PCs
  PROVE  pc' \in [Tasks -> PCs]
BY DEF TypeOK

\* A step of one active run that only moves it along leaves the overlaps known.
LEMMA OverlapFrame ==
  ASSUME TypeOK, OverlapIsMutual, NEW t \in Tasks, Active(t), NEW p,
         pc' = [pc EXCEPT ![t] = p], UNCHANGED overlapped
  PROVE  OverlapIsMutual'
<1>1. \A u \in Tasks : Active(u)' => Active(u)
  BY DEF TypeOK, Active
<1> QED
  BY <1>1 DEF OverlapIsMutual

\* No step that at most removes dados.csv and forgets rows, and settles no run,
\* endangers the products of a settled one.
LEMMA SettledFrame ==
  ASSUME SettledIsSafe,
         dados' = dados \/ dados' = <<>>,
         \A u \in Tasks : row'[u] = row[u] \/ row'[u] = NoTask,
         \A u \in Tasks : Solo(u)' /\ pc'[u] = "ended" /\ status'[u] = 0
                             => Solo(u) /\ pc[u] = "ended" /\ status[u] = 0
  PROVE  SettledIsSafe'
<1> SUFFICES ASSUME NEW u \in Tasks, Solo(u)', pc'[u] = "ended", status'[u] = 0
             PROVE  /\ \A i \in DOMAIN dados' : dados'[i] # u
                    /\ \A v \in Tasks : row'[v] # u
  BY DEF SettledIsSafe
<1>1. /\ \A i \in DOMAIN dados : dados[i] # u
      /\ \A v \in Tasks : row[v] # u
  BY DEF SettledIsSafe
<1>2. \A i \in DOMAIN dados' : dados'[i] # u
  <2>1. CASE dados' = dados
    BY <1>1, <2>1
  <2>2. CASE dados' = <<>>
    BY <2>2
  <2> QED BY <2>1, <2>2
<1>3. \A v \in Tasks : row'[v] # u
  BY <1>1, WorkerAssumption
<1> QED BY <1>2, <1>3

\* What R takes for its image is a task, never a second header line.
LEMMA RReadsARow ==
  ASSUME TypeOK, HeaderComesFirst, Readable
  PROVE  2 \in DOMAIN dados /\ dados[2] \in Tasks
<1>1. 2 \in DOMAIN dados /\ dados[2] \in Lines
  BY DEF TypeOK, Readable
<1> QED
  BY <1>1 DEF HeaderComesFirst

\* echo > followed by echo >> gives a file of exactly two lines.
LEMMA RowAfterHeader ==
  ASSUME NEW t \in Tasks, NEW first \in {Header, NoTask}
  PROVE  Append(<<first>>, t) = <<first, t>>
<1> DEFINE lines == Append(<<first>>, t)
<1>1. <<first>> \in Seq(Lines) /\ t \in Lines
  BY DEF Lines
<1>2. /\ Len(lines) = 2 /\ lines[1] = first /\ lines[2] = t
      /\ lines \in Seq(Lines)
  BY <1>1
<1> HIDE DEF lines
<1>3. lines = <<first, t>>
  BY <1>2
<1> QED
  BY <1>3 DEF lines

\* Starting run.sh (bin/run.sh:168) keeps the invariant: it makes both sides of
\* an overlap known.
LEMMA StartRunKeeps ==
  ASSUME WorkerInvariant, NEW t \in Tasks, StartRun(t)
  PROVE  WorkerInvariant'
<1> USE DEF StartRun, Goto, Exit, sandbox, outputs, local
<1>1. /\ TypeOK
      /\ TriesAreBounded
      /\ HeaderComesFirst
      /\ OverlapIsMutual
      /\ RowsAreOfR
      /\ SoloDados
      /\ SoloRunReadsItsOwnRow
      /\ SoloRunRemovesWhatItSaw
      /\ SoloProducts
      /\ SoloSuccessHasItsProducts
      /\ SettledIsSafe
      /\ StoppedCollectors
  BY DEF WorkerInvariant
<1>2. ~Active(t)
  OBVIOUS
<1>3. TypeOK'
  <2>1. pc' \in [Tasks -> PCs]
    BY <1>1 DEF TypeOK, PCs
  <2>2. run' \in [Tasks -> 0..MaxRuns]
    BY <1>1, WorkerAssumption DEF TypeOK
  <2>3. /\ tries' \in [Tasks -> Nat]
        /\ status' \in [Tasks -> {NoStatus, 0, 1, 124}]
    BY <1>1 DEF TypeOK
  <2>4. overlapped' \in [Tasks -> BOOLEAN]
    BY <1>1 DEF TypeOK, Active
  <2> QED
    BY <1>1, <2>1, <2>2, <2>3, <2>4 DEF TypeOK
<1>4. TriesAreBounded'
  BY <1>1, WorkerAssumption DEF TypeOK, Active, TriesAreBounded
<1>5. SettledIsSafe'
  BY <1>1, SettledFrame DEF Solo, TypeOK, Active
<1>6. /\ HeaderComesFirst'
      /\ OverlapIsMutual'
      /\ RowsAreOfR'
  <2>1. HeaderComesFirst'
    BY <1>1, <1>2 DEF TypeOK, HeaderComesFirst
  <2>2. OverlapIsMutual'
    <3>1. \A u \in Tasks : Active(u)' <=> u = t \/ Active(u)
      BY <1>1 DEF TypeOK, Active
    <3>2. overlapped' = [u \in Tasks |-> IF u = t THEN \E v \in Tasks : Active(v)
                                                   ELSE overlapped[u] \/ Active(u)]
      OBVIOUS
    <3> HIDE DEF StartRun
    <3> SUFFICES ASSUME NEW u \in Tasks, NEW v \in Tasks, u # v, Active(u)', Active(v)'
                 PROVE  overlapped'[u]
      BY DEF OverlapIsMutual
    <3>3. CASE u = t
      BY <3>1, <3>2, <3>3
    <3>4. CASE u # t
      BY <3>1, <3>2, <3>4
    <3> QED
      BY <3>3, <3>4
  <2>3. RowsAreOfR'
    <3>1. \A u \in Tasks : pc'[u] = IF u = t THEN "header" ELSE pc[u]
      BY <1>1 DEF TypeOK
    <3>2. pc[t] \notin InR
      BY <1>2 DEF Active, InR
    <3>3. UNCHANGED row
      OBVIOUS
    <3> QED
      BY <1>1, <3>1, <3>2, <3>3 DEF RowsAreOfR, InR
  <2> QED BY <2>1, <2>2, <2>3
<1>7. /\ SoloDados'
      /\ SoloRunReadsItsOwnRow'
      /\ SoloRunRemovesWhatItSaw'
  BY <1>1, <1>2 DEF TypeOK, Active, SoloDados, Solo, BeforeR, InR, AfterMv, SoloRunReadsItsOwnRow, SoloRunRemovesWhatItSaw, R_RASTER_TMP_DIR, TMP_DIR_PATH
<1>8. /\ SoloProducts'
      /\ SoloSuccessHasItsProducts'
      /\ StoppedCollectors'
  BY <1>1, <1>2 DEF TypeOK, Active, SoloProducts, Solo, AfterMv, SoloSuccessHasItsProducts, StoppedCollectors, Kinds
<1> QED
  BY <1>3, <1>4, <1>5, <1>6, <1>7, <1>8 DEF WorkerInvariant

\* creatingDadosCSV truncates dados.csv (run.sh:62): nothing older is read,
\* whether or not the header is written.
LEMMA TruncateKeeps ==
  ASSUME WorkerInvariant, NEW t \in Tasks, NEW line \in {Header, NoTask},
         Goto(t, "header", "row"), dados' = <<line>>,
         UNCHANGED <<scratch, collectors, outputs, local>>
  PROVE  WorkerInvariant'
<1> USE DEF Goto, Exit, sandbox, outputs, local
<1>1. /\ TypeOK
      /\ TriesAreBounded
      /\ HeaderComesFirst
      /\ OverlapIsMutual
      /\ RowsAreOfR
      /\ SoloDados
      /\ SoloRunReadsItsOwnRow
      /\ SoloRunRemovesWhatItSaw
      /\ SoloProducts
      /\ SoloSuccessHasItsProducts
      /\ SettledIsSafe
      /\ StoppedCollectors
  BY DEF WorkerInvariant
<1>2. /\ Active(t)
      /\ \A u \in Tasks \ {t} : Solo(u) => ~Active(u)
      /\ pc' = [pc EXCEPT ![t] = pc'[t]]
      /\ pc[t] = "header" /\ pc'[t] = "row"
  <2>1. Active(t)
    BY <1>1 DEF Active, TypeOK, Kinds
  <2>2. pc' = [pc EXCEPT ![t] = pc'[t]] /\ pc[t] = "header" /\ pc'[t] = "row"
    BY <1>1 DEF TypeOK, PCs, Kinds
  <2> QED BY <1>1, <2>1, <2>2, SoloIsAlone
<1>3. TypeOK'
  <2>1. pc' \in [Tasks -> PCs]
    BY <1>1, <1>2, PlaceTypes DEF PCs
  <2>2. dados' \in Seq(Lines)
    <3>1. line \in Lines
      BY DEF Lines
    <3> QED BY <3>1
  <2> QED
    BY <1>1, <2>1, <2>2 DEF TypeOK
<1>4. OverlapIsMutual'
  BY <1>1, <1>2, OverlapFrame
<1>5. SettledIsSafe'
  <2> SUFFICES ASSUME NEW u \in Tasks, Solo(u), pc'[u] = "ended", status[u] = 0
               PROVE  /\ \A i \in DOMAIN dados' : dados'[i] # u
                      /\ \A v \in Tasks : row[v] # u
    BY DEF SettledIsSafe, Solo
  <2>1. pc[u] = "ended"
    BY <1>1, <1>2 DEF TypeOK
  <2>2. \A v \in Tasks : row[v] # u
    BY <1>1, <2>1 DEF SettledIsSafe
  <2>3. dados' = <<line>> /\ line # u
    BY WorkerAssumption
  <2> QED
    BY <2>2, <2>3
<1>6. /\ TriesAreBounded'
      /\ HeaderComesFirst'
      /\ RowsAreOfR'
  BY <1>1, <1>2 DEF TypeOK, Active, TriesAreBounded, HeaderComesFirst, RowsAreOfR, InR
<1>7. /\ SoloDados'
      /\ SoloRunReadsItsOwnRow'
      /\ SoloRunRemovesWhatItSaw'
  <2>1. SoloDados'
    BY <1>1, <1>2 DEF TypeOK, Active, SoloDados, Solo, BeforeR, InR, AfterMv
  <2>2. SoloRunReadsItsOwnRow'
    BY <1>1, <1>2 DEF TypeOK, Active, SoloRunReadsItsOwnRow, Solo, InR, BeforeR
  <2>3. SoloRunRemovesWhatItSaw'
    BY <1>1, <1>2 DEF TypeOK, Active, SoloRunRemovesWhatItSaw, Solo, R_RASTER_TMP_DIR, TMP_DIR_PATH
  <2> QED BY <2>1, <2>2, <2>3
<1>8. /\ SoloProducts'
      /\ SoloSuccessHasItsProducts'
      /\ StoppedCollectors'
  BY <1>1, <1>2 DEF TypeOK, Active, SoloProducts, Solo, AfterMv, SoloSuccessHasItsProducts, StoppedCollectors, Kinds
<1> QED
  BY <1>3, <1>4, <1>5, <1>6, <1>7, <1>8 DEF WorkerInvariant

\* creatingDadosCSV appends the row (run.sh:63): a lone run now has its two lines.
LEMMA AppendRowKeeps ==
  ASSUME WorkerInvariant, NEW t \in Tasks, AppendRow(t)
  PROVE  WorkerInvariant'
<1> USE DEF AppendRow, Goto, Exit, sandbox, outputs, local
<1>1. /\ TypeOK
      /\ TriesAreBounded
      /\ HeaderComesFirst
      /\ OverlapIsMutual
      /\ RowsAreOfR
      /\ SoloDados
      /\ SoloRunReadsItsOwnRow
      /\ SoloRunRemovesWhatItSaw
      /\ SoloProducts
      /\ SoloSuccessHasItsProducts
      /\ SettledIsSafe
      /\ StoppedCollectors
  BY DEF WorkerInvariant
<1>2. /\ Active(t)
      /\ \A u \in Tasks \ {t} : Solo(u) => ~Active(u)
      /\ pc' = [pc EXCEPT ![t] = pc'[t]]
      /\ pc[t] = "row" /\ pc'[t] = "prepare"
  <2>1. Active(t)
    BY <1>1 DEF Active, TypeOK, Kinds
  <2>2. pc' = [pc EXCEPT ![t] = pc'[t]] /\ pc[t] = "row" /\ pc'[t] = "prepare"
    BY <1>1 DEF TypeOK, PCs, Kinds
  <2> QED BY <1>1, <2>1, <2>2, SoloIsAlone
<1>3. TypeOK'
  <2>1. pc' \in [Tasks -> PCs]
    BY <1>1, <1>2, PlaceTypes DEF PCs
  <2>2. dados' \in Seq(Lines)
    <3>1. t \in Lines /\ dados \in Seq(Lines)
      BY <1>1 DEF TypeOK, Lines
    <3> QED BY <3>1
  <2> QED
    BY <1>1, <2>1, <2>2 DEF TypeOK
<1>4. HeaderComesFirst'
  <2>1. Len(dados) \in Nat /\ DOMAIN dados = 1..Len(dados)
    BY <1>1 DEF TypeOK
  <2>2. /\ Len(dados') = Len(dados) + 1 /\ DOMAIN dados' = 1..(Len(dados) + 1)
        /\ \A i \in DOMAIN dados : dados'[i] = dados[i]
        /\ dados'[Len(dados) + 1] = t
    BY <1>1 DEF TypeOK
  <2> QED
    BY <1>1, <2>1, <2>2, WorkerAssumption DEF HeaderComesFirst
<1>5. OverlapIsMutual'
  BY <1>1, <1>2, OverlapFrame
<1>6. SoloDados'
  <2>1. Solo(t) => dados \in {<<Header>>, <<NoTask>>}
    BY <1>1, <1>2 DEF SoloDados
  <2>2. Solo(t) => dados' \in {<<Header, t>>, <<NoTask, t>>}
    <3>1. /\ Append(<<Header>>, t) = <<Header, t>>
          /\ Append(<<NoTask>>, t) = <<NoTask, t>>
      BY RowAfterHeader
    <3> QED BY <2>1, <3>1
  <2> QED
    BY <1>1, <1>2, <2>2 DEF TypeOK, Active, SoloDados, Solo, BeforeR, InR, AfterMv
<1>7. SettledIsSafe'
  <2> SUFFICES ASSUME NEW u \in Tasks, Solo(u), pc'[u] = "ended", status[u] = 0
               PROVE  /\ \A i \in DOMAIN dados' : dados'[i] # u
                      /\ \A v \in Tasks : row[v] # u
    BY DEF SettledIsSafe, Solo
  <2>1. pc[u] = "ended" /\ u # t
    BY <1>1, <1>2 DEF TypeOK
  <2>2. /\ \A i \in DOMAIN dados : dados[i] # u
        /\ \A v \in Tasks : row[v] # u
    BY <1>1, <2>1 DEF SettledIsSafe
  <2>3. \A i \in DOMAIN dados' : dados'[i] # u
    BY <1>1, <2>1, <2>2 DEF TypeOK
  <2> QED
    BY <2>2, <2>3
<1>8. /\ TriesAreBounded'
      /\ RowsAreOfR'
      /\ SoloRunReadsItsOwnRow'
  BY <1>1, <1>2 DEF TypeOK, Active, TriesAreBounded, RowsAreOfR, InR, SoloRunReadsItsOwnRow, Solo, BeforeR
<1>9. /\ SoloRunRemovesWhatItSaw'
      /\ SoloProducts'
      /\ SoloSuccessHasItsProducts'
  BY <1>1, <1>2 DEF TypeOK, Active, SoloRunRemovesWhatItSaw, Solo, R_RASTER_TMP_DIR, TMP_DIR_PATH, SoloProducts, AfterMv, SoloSuccessHasItsProducts
<1>10. StoppedCollectors'
  BY <1>1, <1>2 DEF TypeOK, Active, StoppedCollectors, Kinds
<1> QED
  BY <1>3, <1>4, <1>5, <1>6, <1>7, <1>8, <1>9, <1>10 DEF WorkerInvariant

\* A run that cannot write its row ends with 1 (run.sh:154-161).
LEMMA AppendRowFailsKeeps ==
  ASSUME WorkerInvariant, NEW t \in Tasks, AppendRowFails(t)
  PROVE  WorkerInvariant'
<1> USE DEF AppendRowFails, Goto, Exit, sandbox, outputs, local
<1>1. /\ TypeOK
      /\ TriesAreBounded
      /\ HeaderComesFirst
      /\ OverlapIsMutual
      /\ RowsAreOfR
      /\ SoloDados
      /\ SoloRunReadsItsOwnRow
      /\ SoloRunRemovesWhatItSaw
      /\ SoloProducts
      /\ SoloSuccessHasItsProducts
      /\ SettledIsSafe
      /\ StoppedCollectors
  BY DEF WorkerInvariant
<1>2. /\ Active(t)
      /\ \A u \in Tasks \ {t} : Solo(u) => ~Active(u)
      /\ pc' = [pc EXCEPT ![t] = pc'[t]]
      /\ pc[t] \in {"header", "row"} /\ pc'[t] = "ended"
  <2>1. Active(t)
    BY <1>1 DEF Active, TypeOK, Kinds
  <2>2. pc' = [pc EXCEPT ![t] = pc'[t]] /\ pc[t] \in {"header", "row"} /\ pc'[t] = "ended"
    BY <1>1 DEF TypeOK, PCs, Kinds
  <2> QED BY <1>1, <2>1, <2>2, SoloIsAlone
<1>3. TypeOK'
  BY <1>1, <1>2, WorkerAssumption DEF TypeOK, PCs, Kinds, TmpDirs, NoStatus
<1>4. OverlapIsMutual'
  BY <1>1, <1>2, OverlapFrame
<1>5. SettledIsSafe'
  BY <1>1, <1>2, SettledFrame DEF Solo, TypeOK
<1>6. /\ TriesAreBounded'
      /\ HeaderComesFirst'
      /\ RowsAreOfR'
  BY <1>1, <1>2 DEF TypeOK, Active, TriesAreBounded, HeaderComesFirst, RowsAreOfR, InR
<1>7. /\ SoloDados'
      /\ SoloRunReadsItsOwnRow'
      /\ SoloRunRemovesWhatItSaw'
  BY <1>1, <1>2 DEF TypeOK, Active, SoloDados, Solo, BeforeR, InR, AfterMv, SoloRunReadsItsOwnRow, SoloRunRemovesWhatItSaw, R_RASTER_TMP_DIR, TMP_DIR_PATH
<1>8. /\ SoloProducts'
      /\ SoloSuccessHasItsProducts'
      /\ StoppedCollectors'
  BY <1>1, <1>2 DEF TypeOK, Active, SoloProducts, Solo, AfterMv, SoloSuccessHasItsProducts, StoppedCollectors, Kinds
<1> QED
  BY <1>3, <1>4, <1>5, <1>6, <1>7, <1>8 DEF WorkerInvariant

\* prepareEnvAndCollectUsage makes the raster directory (run.sh:67-73).
LEMMA PrepareEnvKeeps ==
  ASSUME WorkerInvariant, NEW t \in Tasks, PrepareEnv(t)
  PROVE  WorkerInvariant'
<1> USE DEF PrepareEnv, Goto, Exit, sandbox, outputs, local
<1>1. /\ TypeOK
      /\ TriesAreBounded
      /\ HeaderComesFirst
      /\ OverlapIsMutual
      /\ RowsAreOfR
      /\ SoloDados
      /\ SoloRunReadsItsOwnRow
      /\ SoloRunRemovesWhatItSaw
      /\ SoloProducts
      /\ SoloSuccessHasItsProducts
      /\ SettledIsSafe
      /\ StoppedCollectors
  BY DEF WorkerInvariant
<1>2. /\ Active(t)
      /\ \A u \in Tasks \ {t} : Solo(u) => ~Active(u)
      /\ pc' = [pc EXCEPT ![t] = pc'[t]]
      /\ pc[t] = "prepare" /\ pc'[t] = "collectCpu"
  <2>1. Active(t)
    BY <1>1 DEF Active, TypeOK, Kinds
  <2>2. pc' = [pc EXCEPT ![t] = pc'[t]] /\ pc[t] = "prepare" /\ pc'[t] = "collectCpu"
    BY <1>1 DEF TypeOK, PCs, Kinds
  <2> QED BY <1>1, <2>1, <2>2, SoloIsAlone
<1>3. TypeOK'
  BY <1>1, <1>2, WorkerAssumption DEF TypeOK, PCs, Kinds, TmpDirs, NoStatus
<1>4. OverlapIsMutual'
  BY <1>1, <1>2, OverlapFrame
<1>5. SettledIsSafe'
  BY <1>1, <1>2, SettledFrame DEF Solo, TypeOK
<1>6. /\ TriesAreBounded'
      /\ HeaderComesFirst'
      /\ RowsAreOfR'
  BY <1>1, <1>2 DEF TypeOK, Active, TriesAreBounded, HeaderComesFirst, RowsAreOfR, InR
<1>7. /\ SoloDados'
      /\ SoloRunReadsItsOwnRow'
      /\ SoloRunRemovesWhatItSaw'
  BY <1>1, <1>2 DEF TypeOK, Active, SoloDados, Solo, BeforeR, InR, AfterMv, SoloRunReadsItsOwnRow, SoloRunRemovesWhatItSaw, R_RASTER_TMP_DIR, TMP_DIR_PATH
<1>8. /\ SoloProducts'
      /\ SoloSuccessHasItsProducts'
      /\ StoppedCollectors'
  BY <1>1, <1>2 DEF TypeOK, Active, SoloProducts, Solo, AfterMv, SoloSuccessHasItsProducts, StoppedCollectors, Kinds
<1> QED
  BY <1>3, <1>4, <1>5, <1>6, <1>7, <1>8 DEF WorkerInvariant

\* prepareEnvAndCollectUsage starts a collector (run.sh:75-81); its run has
\* stopped none yet.
LEMMA CollectUsageKeeps ==
  ASSUME WorkerInvariant, NEW t \in Tasks, NEW kind \in Kinds, CollectUsage(t, kind)
  PROVE  WorkerInvariant'
<1> USE DEF CollectUsage, Goto, Exit, sandbox, outputs, local
<1>1. /\ TypeOK
      /\ TriesAreBounded
      /\ HeaderComesFirst
      /\ OverlapIsMutual
      /\ RowsAreOfR
      /\ SoloDados
      /\ SoloRunReadsItsOwnRow
      /\ SoloRunRemovesWhatItSaw
      /\ SoloProducts
      /\ SoloSuccessHasItsProducts
      /\ SettledIsSafe
      /\ StoppedCollectors
  BY DEF WorkerInvariant
<1>2. /\ Active(t)
      /\ \A u \in Tasks \ {t} : Solo(u) => ~Active(u)
      /\ pc' = [pc EXCEPT ![t] = pc'[t]]
      /\ \/ pc[t] = "collectCpu" /\ pc'[t] = "collectMemory"
         \/ pc[t] = "collectMemory" /\ pc'[t] = "try"
  <2>1. pc \in [Tasks -> PCs]
    BY <1>1 DEF TypeOK
  <2>2. CASE kind = "cpu" /\ pc[t] = "collectCpu" /\ pc' = [pc EXCEPT ![t] = "collectMemory"]
    <3>1. pc'[t] = "collectMemory"
      BY <2>1, <2>2
    <3>2. Active(t)
      BY <2>2 DEF Active
    <3> QED
      BY <1>1, <2>2, <3>1, <3>2, SoloIsAlone
  <2>3. CASE kind = "memory" /\ pc[t] = "collectMemory" /\ pc' = [pc EXCEPT ![t] = "try"]
    <3>1. pc'[t] = "try"
      BY <2>1, <2>3
    <3>2. Active(t)
      BY <2>3 DEF Active
    <3> QED
      BY <1>1, <2>3, <3>1, <3>2, SoloIsAlone
  <2> QED
    BY <2>2, <2>3
<1>3. TypeOK'
  <2>1. pc' \in [Tasks -> PCs]
    BY <1>1, <1>2, PlaceTypes DEF PCs
  <2>2. run[t] \in Nat
    BY <1>1 DEF TypeOK
  <2>3. collectors' \subseteq [task : Tasks, run : Nat, kind : Kinds]
    BY <1>1, <2>2 DEF TypeOK
  <2> QED
    BY <1>1, <2>1, <2>2, <2>3 DEF TypeOK
<1>4. TriesAreBounded'
  BY <1>1, <1>2, WorkerAssumption DEF TypeOK, TriesAreBounded
<1>5. OverlapIsMutual'
  BY <1>1, <1>2, OverlapFrame
<1>6. SettledIsSafe'
  BY <1>1, <1>2, SettledFrame DEF Solo, TypeOK
<1>7. /\ HeaderComesFirst'
      /\ RowsAreOfR'
      /\ SoloDados'
  <2>1. HeaderComesFirst'
    BY <1>1, <1>2 DEF TypeOK, HeaderComesFirst
  <2>2. RowsAreOfR'
    BY <1>1, <1>2 DEF TypeOK, RowsAreOfR, InR
  <2>3. SoloDados'
    BY <1>1, <1>2 DEF TypeOK, Active, SoloDados, Solo, BeforeR, InR, AfterMv
  <2> QED BY <2>1, <2>2, <2>3
<1>8. /\ SoloRunReadsItsOwnRow'
      /\ SoloRunRemovesWhatItSaw'
      /\ SoloProducts'
  BY <1>1, <1>2 DEF TypeOK, Active, SoloRunReadsItsOwnRow, Solo, InR, BeforeR, SoloRunRemovesWhatItSaw, R_RASTER_TMP_DIR, TMP_DIR_PATH, SoloProducts, AfterMv
<1>9. /\ SoloSuccessHasItsProducts'
      /\ StoppedCollectors'
  BY <1>1, <1>2 DEF TypeOK, Active, SoloSuccessHasItsProducts, Solo, AfterMv, StoppedCollectors, Kinds
<1> QED
  BY <1>3, <1>4, <1>5, <1>6, <1>7, <1>8, <1>9 DEF WorkerInvariant

\* A turn of the loop of executeRScript (run.sh:88-92) uses up one try.
LEMMA NextTryKeeps ==
  ASSUME WorkerInvariant, NEW t \in Tasks, NextTry(t)
  PROVE  WorkerInvariant'
<1> USE DEF NextTry, Goto, Exit, sandbox, outputs, local
<1>1. /\ TypeOK
      /\ TriesAreBounded
      /\ HeaderComesFirst
      /\ OverlapIsMutual
      /\ RowsAreOfR
      /\ SoloDados
      /\ SoloRunReadsItsOwnRow
      /\ SoloRunRemovesWhatItSaw
      /\ SoloProducts
      /\ SoloSuccessHasItsProducts
      /\ SettledIsSafe
      /\ StoppedCollectors
  BY DEF WorkerInvariant
<1>2. /\ Active(t)
      /\ \A u \in Tasks \ {t} : Solo(u) => ~Active(u)
      /\ pc' = [pc EXCEPT ![t] = pc'[t]]
      /\ pc[t] = "try" /\ pc'[t] = "launched"
  <2>1. Active(t)
    BY <1>1 DEF Active, TypeOK, Kinds
  <2>2. pc' = [pc EXCEPT ![t] = pc'[t]] /\ pc[t] = "try" /\ pc'[t] = "launched"
    BY <1>1 DEF TypeOK, PCs, Kinds
  <2> QED BY <1>1, <2>1, <2>2, SoloIsAlone
<1>3. TypeOK'
  BY <1>1, <1>2, WorkerAssumption DEF TypeOK, PCs, Kinds, TmpDirs, NoStatus
<1>4. TriesAreBounded'
  BY <1>1, <1>2, WorkerAssumption DEF TypeOK, TriesAreBounded
<1>5. OverlapIsMutual'
  BY <1>1, <1>2, OverlapFrame
<1>6. SettledIsSafe'
  BY <1>1, <1>2, SettledFrame DEF Solo, TypeOK
<1>7. /\ HeaderComesFirst'
      /\ RowsAreOfR'
      /\ SoloDados'
  BY <1>1, <1>2 DEF TypeOK, Active, HeaderComesFirst, RowsAreOfR, InR, SoloDados, Solo, BeforeR, AfterMv
<1>8. /\ SoloRunReadsItsOwnRow'
      /\ SoloRunRemovesWhatItSaw'
      /\ SoloProducts'
  <2>1. SoloRunReadsItsOwnRow'
    BY <1>1, <1>2 DEF TypeOK, Active, SoloRunReadsItsOwnRow, Solo, InR, BeforeR
  <2>2. SoloRunRemovesWhatItSaw'
    BY <1>1, <1>2 DEF TypeOK, Active, SoloRunRemovesWhatItSaw, Solo, R_RASTER_TMP_DIR, TMP_DIR_PATH
  <2>3. SoloProducts'
    BY <1>1, <1>2 DEF TypeOK, Active, SoloProducts, Solo, AfterMv
  <2> QED BY <2>1, <2>2, <2>3
<1>9. /\ SoloSuccessHasItsProducts'
      /\ StoppedCollectors'
  BY <1>1, <1>2 DEF TypeOK, Active, SoloSuccessHasItsProducts, Solo, AfterMv, StoppedCollectors, Kinds
<1> QED
  BY <1>3, <1>4, <1>5, <1>6, <1>7, <1>8, <1>9 DEF WorkerInvariant

\* R reads dados.csv (Algoritmo_29112017.R:30): a lone run its own row, and no
\* run the row of a settled task.
LEMMA RReadsKeeps ==
  ASSUME WorkerInvariant, NEW t \in Tasks, RReads(t)
  PROVE  WorkerInvariant'
<1> USE DEF RReads, Goto, Exit, sandbox, outputs, local
<1>1. /\ TypeOK
      /\ TriesAreBounded
      /\ HeaderComesFirst
      /\ OverlapIsMutual
      /\ RowsAreOfR
      /\ SoloDados
      /\ SoloRunReadsItsOwnRow
      /\ SoloRunRemovesWhatItSaw
      /\ SoloProducts
      /\ SoloSuccessHasItsProducts
      /\ SettledIsSafe
      /\ StoppedCollectors
  BY DEF WorkerInvariant
<1>2. /\ Active(t)
      /\ \A u \in Tasks \ {t} : Solo(u) => ~Active(u)
      /\ pc' = [pc EXCEPT ![t] = pc'[t]]
      /\ pc[t] = "launched" /\ pc'[t] = "computing"
  <2>1. Active(t)
    BY <1>1 DEF Active, TypeOK, Kinds
  <2>2. pc' = [pc EXCEPT ![t] = pc'[t]] /\ pc[t] = "launched" /\ pc'[t] = "computing"
    BY <1>1 DEF TypeOK, PCs, Kinds
  <2> QED BY <1>1, <2>1, <2>2, SoloIsAlone
<1>3. TypeOK'
  <2>1. pc' \in [Tasks -> PCs]
    BY <1>1, <1>2, PlaceTypes DEF PCs
  <2>2. dados[2] \in Tasks \cup {NoTask}
    BY <1>1, RReadsARow
  <2>3. row' \in [Tasks -> Tasks \cup {NoTask}]
    BY <1>1, <2>2 DEF TypeOK
  <2>4. oneRow' \in [Tasks -> BOOLEAN]
    BY <1>1 DEF TypeOK
  <2>5. scratch' \in [TmpDirs -> {"absent", "clean", "dirty"}]
    BY <1>1 DEF TypeOK, TmpDirs
  <2> QED
    BY <1>1, <2>1, <2>2, <2>3, <2>4, <2>5 DEF TypeOK
<1>4. OverlapIsMutual'
  BY <1>1, <1>2, OverlapFrame
<1>5. SoloRunReadsItsOwnRow'
  <2>1. Solo(t) => dados[2] = t /\ Len(dados) = 2
    BY <1>1, <1>2 DEF SoloDados, BeforeR
  <2>2. Solo(t)' => row'[t] = t /\ oneRow'[t]
    <3>1. row \in [Tasks -> Tasks \cup {NoTask}] /\ oneRow \in [Tasks -> BOOLEAN]
      BY <1>1 DEF TypeOK
    <3>2. row'[t] = dados[2] /\ (Len(dados) = 2 => oneRow'[t])
      BY <3>1
    <3> QED
      BY <2>1, <3>2 DEF Solo
  <2> QED
    BY <1>1, <1>2, <2>2 DEF SoloRunReadsItsOwnRow, TypeOK, Active, Solo
<1>6. SettledIsSafe'
  <2> SUFFICES ASSUME NEW u \in Tasks, Solo(u), pc'[u] = "ended", status[u] = 0
               PROVE  /\ \A i \in DOMAIN dados : dados[i] # u
                      /\ \A v \in Tasks : row'[v] # u
    BY DEF SettledIsSafe, Solo
  <2>1. pc[u] = "ended"
    BY <1>1, <1>2 DEF TypeOK
  <2>2. /\ \A i \in DOMAIN dados : dados[i] # u
        /\ \A v \in Tasks : row[v] # u
    BY <1>1, <2>1 DEF SettledIsSafe
  <2>3. dados[2] # u
    BY <1>1, <2>2, RReadsARow
  <2> QED
    BY <1>1, <2>2, <2>3 DEF TypeOK
<1>7. /\ TriesAreBounded'
      /\ HeaderComesFirst'
      /\ RowsAreOfR'
  BY <1>1, <1>2 DEF TypeOK, Active, TriesAreBounded, HeaderComesFirst, RowsAreOfR, InR
<1>8. SoloDados'
  <2>1. Solo(t) => dados = <<Header, t>>
    <3>1. Solo(t) => dados \in {<<Header, t>>, <<NoTask, t>>}
      BY <1>1, <1>2 DEF SoloDados, BeforeR
    <3>2. dados[1] = Header /\ <<NoTask, t>>[1] = NoTask
      BY DEF Readable
    <3> QED BY <3>1, <3>2, WorkerAssumption
  <2> QED
    BY <1>1, <1>2, <2>1 DEF TypeOK, Active, SoloDados, Solo, BeforeR, InR, AfterMv
<1>9. /\ SoloRunRemovesWhatItSaw'
      /\ SoloProducts'
  BY <1>1, <1>2 DEF TypeOK, Active, SoloDados, Solo, BeforeR, InR, AfterMv, SoloRunRemovesWhatItSaw, R_RASTER_TMP_DIR, TMP_DIR_PATH, SoloProducts
<1>10. /\ SoloSuccessHasItsProducts'
       /\ StoppedCollectors'
  BY <1>1, <1>2 DEF TypeOK, Active, SoloSuccessHasItsProducts, Solo, AfterMv, StoppedCollectors, Kinds
<1> QED
  BY <1>3, <1>4, <1>5, <1>6, <1>7, <1>8, <1>9, <1>10 DEF WorkerInvariant

\* R writes into the directory of its row: never that of a settled task.
LEMMA RWritesKeeps ==
  ASSUME WorkerInvariant, NEW t \in Tasks, RWrites(t)
  PROVE  WorkerInvariant'
<1> USE DEF RWrites, Goto, Exit, sandbox, outputs, local
<1>1. /\ TypeOK
      /\ TriesAreBounded
      /\ HeaderComesFirst
      /\ OverlapIsMutual
      /\ RowsAreOfR
      /\ SoloDados
      /\ SoloRunReadsItsOwnRow
      /\ SoloRunRemovesWhatItSaw
      /\ SoloProducts
      /\ SoloSuccessHasItsProducts
      /\ SettledIsSafe
      /\ StoppedCollectors
  BY DEF WorkerInvariant
<1>2. /\ Active(t)
      /\ \A u \in Tasks \ {t} : Solo(u) => ~Active(u)
      /\ pc' = [pc EXCEPT ![t] = pc'[t]]
      /\ pc[t] = "computing" /\ pc'[t] = "writing"
  <2>1. Active(t)
    BY <1>1 DEF Active, TypeOK, Kinds
  <2>2. pc' = [pc EXCEPT ![t] = pc'[t]] /\ pc[t] = "computing" /\ pc'[t] = "writing"
    BY <1>1 DEF TypeOK, PCs, Kinds
  <2> QED BY <1>1, <2>1, <2>2, SoloIsAlone
<1>3. TypeOK'
  <2>1. pc' \in [Tasks -> PCs]
    BY <1>1, <1>2, PlaceTypes DEF PCs
  <2>2. run[t] \in Nat
    BY <1>1, WorkerAssumption DEF TypeOK
  <2>3. products' \in [Tasks -> [state : {"none", "partial", "complete"},
                                  by : Tasks \cup {NoTask}, run : Nat]]
    BY <1>1, <2>2 DEF TypeOK
  <2> QED
    BY <1>1, <2>1, <2>2, <2>3 DEF TypeOK
<1>4. OverlapIsMutual'
  BY <1>1, <1>2, OverlapFrame
<1>5. SoloSuccessHasItsProducts'
  <2> SUFFICES ASSUME NEW u \in Tasks, Solo(u), pc'[u] = "ended", status'[u] = 0
               PROVE  /\ products'[u] = [state |-> "complete", by |-> u, run |-> run[u]]
                      /\ archived'[u] = <<Header, u>>
    BY DEF SoloSuccessHasItsProducts, Solo
  <2>1. pc[u] = "ended" /\ status[u] = 0
    BY <1>1, <1>2 DEF TypeOK
  <2>2. /\ products[u] = [state |-> "complete", by |-> u, run |-> run[u]]
        /\ archived[u] = <<Header, u>>
    BY <1>1, <2>1 DEF SoloSuccessHasItsProducts
  <2>3. row[t] # u
    BY <1>1, <2>1 DEF SettledIsSafe
  <2>4. products'[u] = products[u]
    BY <1>1, <2>3 DEF TypeOK
  <2> QED
    BY <2>2, <2>4
<1>6. SettledIsSafe'
  BY <1>1, <1>2, SettledFrame DEF Solo, TypeOK
<1>7. StoppedCollectors'
  BY <1>1, <1>2 DEF TypeOK, Active, StoppedCollectors, Kinds
<1>8. /\ TriesAreBounded'
      /\ HeaderComesFirst'
      /\ RowsAreOfR'
  BY <1>1, <1>2 DEF TypeOK, Active, TriesAreBounded, HeaderComesFirst, RowsAreOfR, InR
<1>9. /\ SoloDados'
      /\ SoloRunReadsItsOwnRow'
      /\ SoloRunRemovesWhatItSaw'
  BY <1>1, <1>2 DEF TypeOK, Active, SoloDados, Solo, BeforeR, InR, AfterMv, SoloRunReadsItsOwnRow, SoloRunRemovesWhatItSaw, R_RASTER_TMP_DIR, TMP_DIR_PATH
<1>10. SoloProducts'
  BY <1>1, <1>2 DEF TypeOK, Active, SoloProducts, Solo, AfterMv
<1> QED
  BY <1>3, <1>4, <1>5, <1>6, <1>7, <1>8, <1>9, <1>10 DEF WorkerInvariant

\* R ends with 0: the products of a lone run are complete and its own.
LEMMA RSucceedsKeeps ==
  ASSUME WorkerInvariant, NEW t \in Tasks, RSucceeds(t)
  PROVE  WorkerInvariant'
<1> USE DEF RSucceeds, Goto, Exit, sandbox, outputs, local
<1>1. /\ TypeOK
      /\ TriesAreBounded
      /\ HeaderComesFirst
      /\ OverlapIsMutual
      /\ RowsAreOfR
      /\ SoloDados
      /\ SoloRunReadsItsOwnRow
      /\ SoloRunRemovesWhatItSaw
      /\ SoloProducts
      /\ SoloSuccessHasItsProducts
      /\ SettledIsSafe
      /\ StoppedCollectors
  BY DEF WorkerInvariant
<1>2. /\ Active(t)
      /\ \A u \in Tasks \ {t} : Solo(u) => ~Active(u)
      /\ pc' = [pc EXCEPT ![t] = pc'[t]]
      /\ pc[t] = "writing" /\ pc'[t] = "move"
  <2>1. Active(t)
    BY <1>1 DEF Active, TypeOK, Kinds
  <2>2. pc' = [pc EXCEPT ![t] = pc'[t]] /\ pc[t] = "writing" /\ pc'[t] = "move"
    BY <1>1 DEF TypeOK, PCs, Kinds
  <2> QED BY <1>1, <2>1, <2>2, SoloIsAlone
<1>3. TypeOK'
  <2>1. pc' \in [Tasks -> PCs]
    BY <1>1, <1>2, PlaceTypes DEF PCs
  <2>2. run[t] \in Nat
    BY <1>1, WorkerAssumption DEF TypeOK
  <2>3. [state |-> IF SharesOutput(t) THEN "partial" ELSE "complete",
               by |-> t, run |-> run[t]]
            \in [state : {"none", "partial", "complete"}, by : Tasks \cup {NoTask}, run : Nat]
    BY <2>2
  <2>4. products' \in [Tasks -> [state : {"none", "partial", "complete"},
                                  by : Tasks \cup {NoTask}, run : Nat]]
    BY <1>1, <2>3 DEF TypeOK
  <2>5. row' \in [Tasks -> Tasks \cup {NoTask}]
    BY <1>1 DEF TypeOK
  <2>6. oneRow' \in [Tasks -> BOOLEAN]
    BY <1>1 DEF TypeOK
  <2> QED
    BY <1>1, <2>1, <2>2, <2>3, <2>4, <2>5, <2>6 DEF TypeOK
<1>4. OverlapIsMutual'
  BY <1>1, <1>2, OverlapFrame
<1>5. SoloProducts'
  <2>1. Solo(t) => row[t] = t /\ ~SharesOutput(t)
    BY <1>1, <1>2 DEF SoloRunReadsItsOwnRow, InR, SharesOutput, OverlapIsMutual, Active, Solo
  <2>2. Solo(t) => products'[t] = [state |-> "complete", by |-> t, run |-> run[t]]
    BY <1>1, <2>1 DEF TypeOK
  <2> QED
    BY <1>1, <1>2, <2>2 DEF SoloProducts, Solo, AfterMv, Active, TypeOK
<1>6. SoloSuccessHasItsProducts'
  <2> SUFFICES ASSUME NEW u \in Tasks, Solo(u), pc'[u] = "ended", status'[u] = 0
               PROVE  /\ products'[u] = [state |-> "complete", by |-> u, run |-> run[u]]
                      /\ archived'[u] = <<Header, u>>
    BY DEF SoloSuccessHasItsProducts, Solo
  <2>1. pc[u] = "ended" /\ status[u] = 0
    BY <1>1, <1>2 DEF TypeOK
  <2>2. /\ products[u] = [state |-> "complete", by |-> u, run |-> run[u]]
        /\ archived[u] = <<Header, u>>
    BY <1>1, <2>1 DEF SoloSuccessHasItsProducts
  <2>3. row[t] # u
    BY <1>1, <2>1 DEF SettledIsSafe
  <2>4. products'[u] = products[u]
    BY <1>1, <2>3 DEF TypeOK
  <2> QED
    BY <2>2, <2>4
<1>7. SettledIsSafe'
  BY <1>1, <1>2, SettledFrame DEF Solo, TypeOK
<1>8. /\ TriesAreBounded'
      /\ HeaderComesFirst'
      /\ RowsAreOfR'
  BY <1>1, <1>2 DEF TypeOK, Active, TriesAreBounded, HeaderComesFirst, RowsAreOfR, InR
<1>9. /\ SoloDados'
      /\ SoloRunReadsItsOwnRow'
      /\ SoloRunRemovesWhatItSaw'
  BY <1>1, <1>2 DEF TypeOK, Active, SoloDados, Solo, BeforeR, InR, AfterMv, SoloRunReadsItsOwnRow, SoloRunRemovesWhatItSaw, R_RASTER_TMP_DIR, TMP_DIR_PATH
<1>10. StoppedCollectors'
  BY <1>1, <1>2 DEF TypeOK, Active, StoppedCollectors, Kinds
<1> QED
  BY <1>3, <1>4, <1>5, <1>6, <1>7, <1>8, <1>9, <1>10 DEF WorkerInvariant

\* R fails (run.sh:93-108): the next try, or the end with a status that is not 0.
LEMMA RFailsKeeps ==
  ASSUME WorkerInvariant, NEW t \in Tasks, NEW rc \in {1, 124}, RFails(t, rc)
  PROVE  WorkerInvariant'
<1> USE DEF RFails, Goto, Exit, sandbox, outputs, local
<1>1. /\ TypeOK
      /\ TriesAreBounded
      /\ HeaderComesFirst
      /\ OverlapIsMutual
      /\ RowsAreOfR
      /\ SoloDados
      /\ SoloRunReadsItsOwnRow
      /\ SoloRunRemovesWhatItSaw
      /\ SoloProducts
      /\ SoloSuccessHasItsProducts
      /\ SettledIsSafe
      /\ StoppedCollectors
  BY DEF WorkerInvariant
<1>2. /\ Active(t)
      /\ \A u \in Tasks \ {t} : Solo(u) => ~Active(u)
      /\ pc' = [pc EXCEPT ![t] = pc'[t]]
      /\ pc[t] \in {"computing", "writing", "launched"}
      /\ \/ pc'[t] = "ended" /\ status' = [status EXCEPT ![t] = rc]
         \/ pc'[t] = "try" /\ UNCHANGED status /\ tries[t] < MAX_TRIES
  <2>1. pc[t] \in {"computing", "writing", "launched"} /\ Active(t)
    BY DEF Active
  <2>2. tries[t] \in Nat /\ MAX_TRIES \in Nat
    BY <1>1, WorkerAssumption DEF TypeOK
  <2>3. \/ /\ pc' = [pc EXCEPT ![t] = "ended"]
           /\ status' = [status EXCEPT ![t] = rc]
        \/ /\ tries[t] < MAX_TRIES
           /\ pc' = [pc EXCEPT ![t] = "try"]
           /\ UNCHANGED status
    BY <2>2
  <2>4. /\ pc' = [pc EXCEPT ![t] = pc'[t]]
        /\ \/ pc'[t] = "ended" /\ status' = [status EXCEPT ![t] = rc]
           \/ pc'[t] = "try" /\ UNCHANGED status /\ tries[t] < MAX_TRIES
    BY <1>1, <2>3 DEF TypeOK
  <2> QED BY <1>1, <2>1, <2>4, SoloIsAlone
<1>3. TypeOK'
  <2>1. pc' \in [Tasks -> PCs]
    BY <1>1, <1>2, PlaceTypes DEF PCs
  <2>2. status' \in [Tasks -> {NoStatus, 0, 1, 124}]
    <3>1. status \in [Tasks -> {NoStatus, 0, 1, 124}]
      BY <1>1 DEF TypeOK
    <3> HIDE DEF RFails, Goto, Exit, sandbox, outputs
    <3> QED
      BY <1>2, <3>1
  <2>3. row' \in [Tasks -> Tasks \cup {NoTask}]
    BY <1>1 DEF TypeOK
  <2>4. oneRow' \in [Tasks -> BOOLEAN]
    BY <1>1 DEF TypeOK
  <2> QED
    BY <1>1, <2>1, <2>2, <2>3, <2>4 DEF TypeOK
<1>4. OverlapIsMutual'
  BY <1>1, <1>2, OverlapFrame
<1>5. SettledIsSafe'
  BY <1>1, <1>2, SettledFrame DEF Solo, TypeOK
<1>6. StoppedCollectors'
  BY <1>1, <1>2 DEF TypeOK, Active, StoppedCollectors, Kinds
<1>7. /\ TriesAreBounded'
      /\ HeaderComesFirst'
      /\ RowsAreOfR'
  BY <1>1, <1>2 DEF TypeOK, Active, TriesAreBounded, HeaderComesFirst, RowsAreOfR, InR
<1>8. /\ SoloDados'
      /\ SoloRunReadsItsOwnRow'
      /\ SoloRunRemovesWhatItSaw'
  BY <1>1, <1>2 DEF TypeOK, Active, SoloDados, Solo, BeforeR, InR, AfterMv, SoloRunReadsItsOwnRow, SoloRunRemovesWhatItSaw, R_RASTER_TMP_DIR, TMP_DIR_PATH
<1>9. /\ SoloProducts'
      /\ SoloSuccessHasItsProducts'
  <2>1. SoloProducts'
    BY <1>1, <1>2 DEF TypeOK, Active, SoloProducts, Solo, AfterMv
  <2>2. SoloSuccessHasItsProducts'
    BY <1>1, <1>2 DEF TypeOK, Active, SoloSuccessHasItsProducts, Solo
  <2> QED BY <2>1, <2>2
<1> QED
  BY <1>3, <1>4, <1>5, <1>6, <1>7, <1>8, <1>9 DEF WorkerInvariant

\* mvDadosCSV (run.sh:111-115) archives the two lines of a lone run.
LEMMA MvDadosKeeps ==
  ASSUME WorkerInvariant, NEW t \in Tasks, MvDados(t)
  PROVE  WorkerInvariant'
<1> USE DEF MvDados, Goto, Exit, sandbox, outputs, local
<1>1. /\ TypeOK
      /\ TriesAreBounded
      /\ HeaderComesFirst
      /\ OverlapIsMutual
      /\ RowsAreOfR
      /\ SoloDados
      /\ SoloRunReadsItsOwnRow
      /\ SoloRunRemovesWhatItSaw
      /\ SoloProducts
      /\ SoloSuccessHasItsProducts
      /\ SettledIsSafe
      /\ StoppedCollectors
  BY DEF WorkerInvariant
<1>2. /\ Active(t)
      /\ \A u \in Tasks \ {t} : Solo(u) => ~Active(u)
      /\ pc' = [pc EXCEPT ![t] = pc'[t]]
      /\ pc[t] = "move" /\ pc'[t] = "killCpu"
  <2>1. Active(t)
    BY <1>1 DEF Active, TypeOK, Kinds
  <2>2. pc' = [pc EXCEPT ![t] = pc'[t]] /\ pc[t] = "move" /\ pc'[t] = "killCpu"
    BY <1>1 DEF TypeOK, PCs, Kinds
  <2> QED BY <1>1, <2>1, <2>2, SoloIsAlone
<1>3. TypeOK'
  <2>1. pc' \in [Tasks -> PCs]
    BY <1>1, <1>2, PlaceTypes DEF PCs
  <2>2. CASE dados = <<>>
    BY <1>1, <2>1, <2>2 DEF TypeOK
  <2>3. CASE dados # <<>>
    <3>1. dados' \in Seq(Lines)
      BY <2>3
    <3>2. archived' \in [Tasks -> Seq(Lines)]
      <4>1. /\ archived \in [Tasks -> Seq(Lines)]
            /\ dados \in Seq(Lines)
        BY <1>1 DEF TypeOK
      <4> QED
        BY <2>3, <4>1
    <3> QED
      BY <1>1, <2>1, <3>1, <3>2 DEF TypeOK
  <2> QED
    BY <2>2, <2>3
<1>4. HeaderComesFirst'
  <2>1. dados' = dados \/ dados' = <<>>
    OBVIOUS
  <2> QED
    BY <1>1, <2>1 DEF HeaderComesFirst
<1>5. OverlapIsMutual'
  BY <1>1, <1>2, OverlapFrame
<1>6. SoloDados'
  <2>1. Solo(t) => dados = <<Header, t>> /\ dados # <<>>
    BY <1>1, <1>2 DEF SoloDados
  <2>2. Solo(t) => dados' = <<>> /\ archived' = [archived EXCEPT ![t] = <<Header, t>>]
    BY <2>1
  <2>3. Solo(t) => dados' = <<>> /\ archived'[t] = <<Header, t>>
    BY <1>1, <2>2 DEF TypeOK
  <2> QED
    BY <1>1, <1>2, <2>3 DEF SoloDados, Solo, Active, BeforeR, InR, AfterMv, TypeOK
<1>7. SettledIsSafe'
  BY <1>1, <1>2, SettledFrame DEF Solo, TypeOK
<1>8. /\ TriesAreBounded'
      /\ RowsAreOfR'
      /\ SoloRunReadsItsOwnRow'
  BY <1>1, <1>2 DEF TypeOK, Active, TriesAreBounded, RowsAreOfR, InR, SoloRunReadsItsOwnRow, Solo, BeforeR
<1>9. /\ SoloRunRemovesWhatItSaw'
      /\ SoloProducts'
      /\ SoloSuccessHasItsProducts'
  BY <1>1, <1>2 DEF TypeOK, Active, SoloRunRemovesWhatItSaw, Solo, R_RASTER_TMP_DIR, TMP_DIR_PATH, SoloProducts, AfterMv, SoloSuccessHasItsProducts
<1>10. StoppedCollectors'
  BY <1>1, <1>2 DEF TypeOK, Active, StoppedCollectors, Kinds
<1> QED
  BY <1>3, <1>4, <1>5, <1>6, <1>7, <1>8, <1>9, <1>10 DEF WorkerInvariant

\* killCollectScripts (run.sh:117-121) removes every collector of a name.
LEMMA KillCollectorsKeeps ==
  ASSUME WorkerInvariant, NEW t \in Tasks, NEW kind \in Kinds, KillCollectors(t, kind)
  PROVE  WorkerInvariant'
<1> USE DEF KillCollectors, Goto, Exit, sandbox, outputs, local
<1>1. /\ TypeOK
      /\ TriesAreBounded
      /\ HeaderComesFirst
      /\ OverlapIsMutual
      /\ RowsAreOfR
      /\ SoloDados
      /\ SoloRunReadsItsOwnRow
      /\ SoloRunRemovesWhatItSaw
      /\ SoloProducts
      /\ SoloSuccessHasItsProducts
      /\ SettledIsSafe
      /\ StoppedCollectors
  BY DEF WorkerInvariant
<1>2. /\ Active(t)
      /\ \A u \in Tasks \ {t} : Solo(u) => ~Active(u)
      /\ pc' = [pc EXCEPT ![t] = pc'[t]]
      /\ \/ kind = "cpu" /\ pc[t] = "killCpu" /\ pc'[t] = "killMemory"
         \/ kind = "memory" /\ pc[t] = "killMemory" /\ pc'[t] = "sweep"
  <2>1. pc \in [Tasks -> PCs]
    BY <1>1 DEF TypeOK
  <2>2. CASE kind = "cpu" /\ pc[t] = "killCpu" /\ pc' = [pc EXCEPT ![t] = "killMemory"]
    <3>1. pc'[t] = "killMemory"
      BY <2>1, <2>2
    <3>2. Active(t)
      BY <2>2 DEF Active
    <3> QED
      BY <1>1, <2>2, <3>1, <3>2, SoloIsAlone
  <2>3. CASE kind = "memory" /\ pc[t] = "killMemory" /\ pc' = [pc EXCEPT ![t] = "sweep"]
    <3>1. pc'[t] = "sweep"
      BY <2>1, <2>3
    <3>2. Active(t)
      BY <2>3 DEF Active
    <3> QED
      BY <1>1, <2>3, <3>1, <3>2, SoloIsAlone
  <2> QED
    BY <2>2, <2>3
<1>3. TypeOK'
  <2>1. pc' \in [Tasks -> PCs]
    BY <1>1, <1>2, PlaceTypes DEF PCs
  <2>2. collectors' \subseteq [task : Tasks, run : Nat, kind : Kinds]
    BY <1>1 DEF TypeOK
  <2> QED
    BY <1>1, <2>1, <2>2 DEF TypeOK
<1>4. OverlapIsMutual'
  BY <1>1, <1>2, OverlapFrame
<1>5. SettledIsSafe'
  BY <1>1, <1>2, SettledFrame DEF Solo, TypeOK
<1>6. /\ TriesAreBounded'
      /\ HeaderComesFirst'
      /\ RowsAreOfR'
  BY <1>1, <1>2 DEF TypeOK, Active, TriesAreBounded, HeaderComesFirst, RowsAreOfR, InR
<1>7. /\ SoloDados'
      /\ SoloRunReadsItsOwnRow'
      /\ SoloRunRemovesWhatItSaw'
  BY <1>1, <1>2 DEF TypeOK, Active, SoloDados, Solo, BeforeR, InR, AfterMv, SoloRunReadsItsOwnRow, SoloRunRemovesWhatItSaw, R_RASTER_TMP_DIR, TMP_DIR_PATH
<1>8. /\ SoloProducts'
      /\ SoloSuccessHasItsProducts'
      /\ StoppedCollectors'
  BY <1>1, <1>2 DEF TypeOK, Active, SoloProducts, Solo, AfterMv, SoloSuccessHasItsProducts, StoppedCollectors, Kinds
<1> QED
  BY <1>3, <1>4, <1>5, <1>6, <1>7, <1>8 DEF WorkerInvariant

\* cleanRasterEnv tests for the raster directory (run.sh:49).
LEMMA CheckRasterEnvKeeps ==
  ASSUME WorkerInvariant, NEW t \in Tasks, CheckRasterEnv(t)
  PROVE  WorkerInvariant'
<1> USE DEF CheckRasterEnv, Goto, Exit, sandbox, outputs, local
<1>1. /\ TypeOK
      /\ TriesAreBounded
      /\ HeaderComesFirst
      /\ OverlapIsMutual
      /\ RowsAreOfR
      /\ SoloDados
      /\ SoloRunReadsItsOwnRow
      /\ SoloRunRemovesWhatItSaw
      /\ SoloProducts
      /\ SoloSuccessHasItsProducts
      /\ SettledIsSafe
      /\ StoppedCollectors
  BY DEF WorkerInvariant
<1>2. /\ Active(t)
      /\ \A u \in Tasks \ {t} : Solo(u) => ~Active(u)
      /\ pc' = [pc EXCEPT ![t] = pc'[t]]
      /\ pc[t] = "sweep" /\ pc'[t] \in {"describe", "remove"}
  <2>1. Active(t)
    BY <1>1 DEF Active, TypeOK, Kinds
  <2>2. pc' = [pc EXCEPT ![t] = pc'[t]] /\ pc[t] = "sweep" /\ pc'[t] \in {"describe", "remove"}
    BY <1>1 DEF TypeOK, PCs, Kinds
  <2> QED BY <1>1, <2>1, <2>2, SoloIsAlone
<1>3. TypeOK'
  BY <1>1, <1>2, WorkerAssumption DEF TypeOK, PCs, Kinds, TmpDirs, NoStatus
<1>4. OverlapIsMutual'
  BY <1>1, <1>2, OverlapFrame
<1>5. SettledIsSafe'
  BY <1>1, <1>2, SettledFrame DEF Solo, TypeOK
<1>6. /\ TriesAreBounded'
      /\ HeaderComesFirst'
      /\ RowsAreOfR'
  BY <1>1, <1>2 DEF TypeOK, Active, TriesAreBounded, HeaderComesFirst, RowsAreOfR, InR
<1>7. /\ SoloDados'
      /\ SoloRunReadsItsOwnRow'
      /\ SoloRunRemovesWhatItSaw'
  BY <1>1, <1>2 DEF TypeOK, Active, SoloDados, Solo, BeforeR, InR, AfterMv, SoloRunReadsItsOwnRow, SoloRunRemovesWhatItSaw, R_RASTER_TMP_DIR, TMP_DIR_PATH
<1>8. /\ SoloProducts'
      /\ SoloSuccessHasItsProducts'
      /\ StoppedCollectors'
  BY <1>1, <1>2 DEF TypeOK, Active, SoloProducts, Solo, AfterMv, SoloSuccessHasItsProducts, StoppedCollectors, Kinds
<1> QED
  BY <1>3, <1>4, <1>5, <1>6, <1>7, <1>8 DEF WorkerInvariant

\* cleanRasterEnv removes the directory (run.sh:50), or fails the run, which is
\* never a lone one.
LEMMA RemoveRasterEnvKeeps ==
  ASSUME WorkerInvariant, NEW t \in Tasks, RemoveRasterEnv(t)
  PROVE  WorkerInvariant'
<1> USE DEF RemoveRasterEnv, Goto, Exit, sandbox, outputs, local
<1>1. /\ TypeOK
      /\ TriesAreBounded
      /\ HeaderComesFirst
      /\ OverlapIsMutual
      /\ RowsAreOfR
      /\ SoloDados
      /\ SoloRunReadsItsOwnRow
      /\ SoloRunRemovesWhatItSaw
      /\ SoloProducts
      /\ SoloSuccessHasItsProducts
      /\ SettledIsSafe
      /\ StoppedCollectors
  BY DEF WorkerInvariant
<1>2. /\ Active(t)
      /\ \A u \in Tasks \ {t} : Solo(u) => ~Active(u)
      /\ pc' = [pc EXCEPT ![t] = pc'[t]]
      /\ pc[t] = "remove" /\ pc'[t] \in {"ended", "describe"}
  <2>1. Active(t)
    BY <1>1 DEF Active, TypeOK, Kinds
  <2>2. pc' = [pc EXCEPT ![t] = pc'[t]] /\ pc[t] = "remove" /\ pc'[t] \in {"ended", "describe"}
    BY <1>1 DEF TypeOK, PCs, Kinds
  <2> QED BY <1>1, <2>1, <2>2, SoloIsAlone
<1>3. TypeOK'
  <2>1. pc' \in [Tasks -> PCs]
    BY <1>1, <1>2, PlaceTypes DEF PCs
  <2>2. status' = status \/ status' = [status EXCEPT ![t] = 1]
    BY <1>1
  <2>3. status' \in [Tasks -> {NoStatus, 0, 1, 124}]
    <3>1. status \in [Tasks -> {NoStatus, 0, 1, 124}]
      BY <1>1 DEF TypeOK
    <3> HIDE DEF RemoveRasterEnv, Goto, Exit, sandbox, outputs
    <3> QED
      BY <2>2, <3>1
  <2>4. scratch' \in [TmpDirs -> {"absent", "clean", "dirty"}]
    BY <1>1 DEF TypeOK, TmpDirs
  <2> QED
    BY <1>1, <2>1, <2>2, <2>3, <2>4 DEF TypeOK
<1>4. OverlapIsMutual'
  BY <1>1, <1>2, OverlapFrame
<1>5. SoloSuccessHasItsProducts'
  <2> SUFFICES ASSUME NEW u \in Tasks, Solo(u), pc'[u] = "ended", status'[u] = 0
               PROVE  /\ products'[u] = [state |-> "complete", by |-> u, run |-> run[u]]
                      /\ archived'[u] = <<Header, u>>
    BY DEF SoloSuccessHasItsProducts, Solo
  <2>1. pc[u] = "ended" /\ status[u] = 0
    BY <1>1, <1>2 DEF TypeOK
  <2> QED
    BY <1>1, <2>1 DEF SoloSuccessHasItsProducts
<1>6. SettledIsSafe'
  BY <1>1, <1>2, SettledFrame DEF Solo, TypeOK
<1>7. /\ TriesAreBounded'
      /\ HeaderComesFirst'
      /\ RowsAreOfR'
  BY <1>1, <1>2 DEF TypeOK, Active, TriesAreBounded, HeaderComesFirst, RowsAreOfR, InR
<1>8. /\ SoloDados'
      /\ SoloRunReadsItsOwnRow'
      /\ SoloRunRemovesWhatItSaw'
  <2>1. SoloDados'
    BY <1>1, <1>2 DEF TypeOK, Active, SoloDados, Solo, BeforeR, InR, AfterMv
  <2>2. SoloRunReadsItsOwnRow'
    BY <1>1, <1>2 DEF TypeOK, Active, SoloRunReadsItsOwnRow, Solo, InR, BeforeR
  <2>3. SoloRunRemovesWhatItSaw'
    BY <1>1, <1>2 DEF TypeOK, Active, SoloRunRemovesWhatItSaw, Solo, R_RASTER_TMP_DIR, TMP_DIR_PATH
  <2> QED BY <2>1, <2>2, <2>3
<1>9. /\ SoloProducts'
      /\ StoppedCollectors'
  <2>1. SoloProducts'
    BY <1>1, <1>2 DEF TypeOK, Active, SoloProducts, Solo, AfterMv
  <2>2. StoppedCollectors'
    BY <1>1, <1>2 DEF TypeOK, Active, StoppedCollectors, Kinds, Solo, AfterMv
  <2> QED BY <2>1, <2>2
<1> QED
  BY <1>3, <1>4, <1>5, <1>6, <1>7, <1>8, <1>9 DEF WorkerInvariant

\* The last block is appended and the run ends with 0 (run.sh:123-152, 163-166):
\* the only step that settles a run.
LEMMA GenerateMetadataKeeps ==
  ASSUME WorkerInvariant, NEW t \in Tasks, GenerateMetadata(t)
  PROVE  WorkerInvariant'
<1> USE DEF GenerateMetadata, Goto, Exit, sandbox, outputs, local
<1>1. /\ TypeOK
      /\ TriesAreBounded
      /\ HeaderComesFirst
      /\ OverlapIsMutual
      /\ RowsAreOfR
      /\ SoloDados
      /\ SoloRunReadsItsOwnRow
      /\ SoloRunRemovesWhatItSaw
      /\ SoloProducts
      /\ SoloSuccessHasItsProducts
      /\ SettledIsSafe
      /\ StoppedCollectors
  BY DEF WorkerInvariant
<1>2. /\ Active(t)
      /\ \A u \in Tasks \ {t} : Solo(u) => ~Active(u)
      /\ pc' = [pc EXCEPT ![t] = pc'[t]]
      /\ pc[t] = "describe" /\ pc'[t] = "ended"
  <2>1. Active(t)
    BY <1>1 DEF Active, TypeOK, Kinds
  <2>2. pc' = [pc EXCEPT ![t] = pc'[t]] /\ pc[t] = "describe" /\ pc'[t] = "ended"
    BY <1>1 DEF TypeOK, PCs, Kinds
  <2> QED BY <1>1, <2>1, <2>2, SoloIsAlone
<1>3. TypeOK'
  <2>1. pc' \in [Tasks -> PCs]
    BY <1>1, <1>2, PlaceTypes DEF PCs
  <2>2. /\ described' \in [Tasks -> Nat]
        /\ status' \in [Tasks -> {NoStatus, 0, 1, 124}]
    BY <1>1 DEF TypeOK
  <2> QED
    BY <1>1, <2>1, <2>2 DEF TypeOK
<1>4. OverlapIsMutual'
  BY <1>1, <1>2, OverlapFrame
<1>5. SoloSuccessHasItsProducts'
  <2> SUFFICES ASSUME NEW u \in Tasks, Solo(u), pc'[u] = "ended", status'[u] = 0
               PROVE  /\ products'[u] = [state |-> "complete", by |-> u, run |-> run[u]]
                      /\ archived'[u] = <<Header, u>>
    BY DEF SoloSuccessHasItsProducts, Solo
  <2>1. CASE u = t
    BY <1>1, <1>2, <2>1 DEF SoloProducts, SoloDados, AfterMv
  <2>2. CASE u # t
    BY <1>1, <1>2, <2>2 DEF SoloSuccessHasItsProducts, TypeOK
  <2> QED
    BY <2>1, <2>2
<1>6. SettledIsSafe'
  <2> SUFFICES ASSUME NEW u \in Tasks, Solo(u), pc'[u] = "ended", status'[u] = 0
               PROVE  /\ \A i \in DOMAIN dados : dados[i] # u
                      /\ \A v \in Tasks : row[v] # u
    BY DEF SettledIsSafe, Solo
  <2>1. CASE u = t
    <3>1. dados = <<>>
      BY <1>1, <1>2, <2>1 DEF SoloDados, AfterMv
    <3>2. \A v \in Tasks : pc[v] \notin InR
      BY <1>1, <1>2, <2>1 DEF OverlapIsMutual, Solo, Active, InR
    <3> QED
      BY <1>1, <3>1, <3>2, WorkerAssumption DEF RowsAreOfR
  <2>2. CASE u # t
    BY <1>1, <1>2, <2>2 DEF SettledIsSafe, TypeOK
  <2> QED
    BY <2>1, <2>2
<1>7. /\ TriesAreBounded'
      /\ HeaderComesFirst'
      /\ RowsAreOfR'
  BY <1>1, <1>2 DEF TypeOK, Active, TriesAreBounded, HeaderComesFirst, RowsAreOfR, InR
<1>8. /\ SoloDados'
      /\ SoloRunReadsItsOwnRow'
      /\ SoloRunRemovesWhatItSaw'
  BY <1>1, <1>2 DEF TypeOK, Active, SoloDados, Solo, BeforeR, InR, AfterMv, SoloRunReadsItsOwnRow, SoloRunRemovesWhatItSaw, R_RASTER_TMP_DIR, TMP_DIR_PATH
<1>9. /\ SoloProducts'
      /\ StoppedCollectors'
  BY <1>1, <1>2 DEF TypeOK, Active, SoloProducts, Solo, AfterMv, StoppedCollectors, Kinds
<1> QED
  BY <1>3, <1>4, <1>5, <1>6, <1>7, <1>8, <1>9 DEF WorkerInvariant

\* The last block cannot be appended: the run ends with 1.
LEMMA GenerateMetadataFailsKeeps ==
  ASSUME WorkerInvariant, NEW t \in Tasks, GenerateMetadataFails(t)
  PROVE  WorkerInvariant'
<1> USE DEF GenerateMetadataFails, Goto, Exit, sandbox, outputs, local
<1>1. /\ TypeOK
      /\ TriesAreBounded
      /\ HeaderComesFirst
      /\ OverlapIsMutual
      /\ RowsAreOfR
      /\ SoloDados
      /\ SoloRunReadsItsOwnRow
      /\ SoloRunRemovesWhatItSaw
      /\ SoloProducts
      /\ SoloSuccessHasItsProducts
      /\ SettledIsSafe
      /\ StoppedCollectors
  BY DEF WorkerInvariant
<1>2. /\ Active(t)
      /\ \A u \in Tasks \ {t} : Solo(u) => ~Active(u)
      /\ pc' = [pc EXCEPT ![t] = pc'[t]]
      /\ pc[t] = "describe" /\ pc'[t] = "ended"
  <2>1. Active(t)
    BY <1>1 DEF Active, TypeOK, Kinds
  <2>2. pc' = [pc EXCEPT ![t] = pc'[t]] /\ pc[t] = "describe" /\ pc'[t] = "ended"
    BY <1>1 DEF TypeOK, PCs, Kinds
  <2> QED BY <1>1, <2>1, <2>2, SoloIsAlone
<1>3. TypeOK'
  BY <1>1, <1>2, WorkerAssumption DEF TypeOK, PCs, Kinds, TmpDirs, NoStatus
<1>4. OverlapIsMutual'
  BY <1>1, <1>2, OverlapFrame
<1>5. SettledIsSafe'
  BY <1>1, <1>2, SettledFrame DEF Solo, TypeOK
<1>6. /\ TriesAreBounded'
      /\ HeaderComesFirst'
      /\ RowsAreOfR'
  BY <1>1, <1>2 DEF TypeOK, Active, TriesAreBounded, HeaderComesFirst, RowsAreOfR, InR
<1>7. /\ SoloDados'
      /\ SoloRunReadsItsOwnRow'
      /\ SoloRunRemovesWhatItSaw'
  BY <1>1, <1>2 DEF TypeOK, Active, SoloDados, Solo, BeforeR, InR, AfterMv, SoloRunReadsItsOwnRow, SoloRunRemovesWhatItSaw, R_RASTER_TMP_DIR, TMP_DIR_PATH
<1>8. /\ SoloProducts'
      /\ SoloSuccessHasItsProducts'
      /\ StoppedCollectors'
  BY <1>1, <1>2 DEF TypeOK, Active, SoloProducts, Solo, AfterMv, SoloSuccessHasItsProducts, StoppedCollectors, Kinds
<1> QED
  BY <1>3, <1>4, <1>5, <1>6, <1>7, <1>8 DEF WorkerInvariant

\* A restart of the machine settles nothing, and stops every collector.
LEMMA RestartKeeps ==
  ASSUME WorkerInvariant, Restart
  PROVE  WorkerInvariant'
<1> USE DEF Restart, Goto, Exit, sandbox, outputs, local
<1>1. /\ TypeOK
      /\ TriesAreBounded
      /\ HeaderComesFirst
      /\ OverlapIsMutual
      /\ RowsAreOfR
      /\ SoloDados
      /\ SoloRunReadsItsOwnRow
      /\ SoloRunRemovesWhatItSaw
      /\ SoloProducts
      /\ SoloSuccessHasItsProducts
      /\ SettledIsSafe
      /\ StoppedCollectors
  BY DEF WorkerInvariant
<1>2. TRUE
  OBVIOUS
<1>3. TypeOK'
  BY <1>1, <1>2, WorkerAssumption DEF TypeOK, PCs, Kinds, TmpDirs, NoStatus
<1>4. SettledIsSafe'
  BY <1>1, SettledFrame DEF Solo, TypeOK, Active
<1>5. /\ TriesAreBounded'
      /\ HeaderComesFirst'
      /\ OverlapIsMutual'
  BY <1>1, <1>2 DEF TypeOK, Active, TriesAreBounded, HeaderComesFirst, OverlapIsMutual
<1>6. /\ RowsAreOfR'
      /\ SoloDados'
      /\ SoloRunReadsItsOwnRow'
  BY <1>1, <1>2 DEF TypeOK, Active, RowsAreOfR, InR, SoloDados, Solo, BeforeR, AfterMv, SoloRunReadsItsOwnRow
<1>7. /\ SoloRunRemovesWhatItSaw'
      /\ SoloProducts'
      /\ SoloSuccessHasItsProducts'
  BY <1>1, <1>2 DEF TypeOK, Active, SoloRunRemovesWhatItSaw, Solo, R_RASTER_TMP_DIR, TMP_DIR_PATH, SoloProducts, AfterMv, SoloSuccessHasItsProducts
<1>8. StoppedCollectors'
  BY <1>1, <1>2 DEF TypeOK, Active, StoppedCollectors, Kinds
<1> QED
  BY <1>3, <1>4, <1>5, <1>6, <1>7, <1>8 DEF WorkerInvariant

-----------------------------------------------------------------------------
\* The machine before the first run satisfies the invariant.
LEMMA WorkerInvariantInit == Init => WorkerInvariant
<1> SUFFICES ASSUME Init
             PROVE  WorkerInvariant
  OBVIOUS
<1> USE DEF Init
<1>1. TypeOK
  BY WorkerAssumption DEF TypeOK, PCs, TmpDirs, NoStatus, Nothing
<1>2. TriesAreBounded /\ HeaderComesFirst /\ OverlapIsMutual /\ RowsAreOfR
  BY WorkerAssumption DEF TriesAreBounded, HeaderComesFirst, OverlapIsMutual, RowsAreOfR, Active
<1>3. SoloDados /\ SoloRunReadsItsOwnRow /\ SoloRunRemovesWhatItSaw /\ SoloProducts
  BY DEF SoloDados, SoloRunReadsItsOwnRow, SoloRunRemovesWhatItSaw, SoloProducts,
         BeforeR, InR, AfterMv
<1>4. SoloSuccessHasItsProducts /\ SettledIsSafe /\ StoppedCollectors
  BY DEF SoloSuccessHasItsProducts, SettledIsSafe, StoppedCollectors
<1> QED
  BY <1>1, <1>2, <1>3, <1>4 DEF WorkerInvariant

\* Every command of run.sh keeps the invariant.
LEMMA RunShKeeps ==
  ASSUME WorkerInvariant, NEW t \in Tasks, RunSh(t)
  PROVE  WorkerInvariant'
<1>1. CASE WriteHeader(t) \/ WriteHeaderFails(t)
  BY <1>1, TruncateKeeps DEF WriteHeader, WriteHeaderFails
<1>2. CASE AppendRow(t)
  BY <1>2, AppendRowKeeps
<1>3. CASE AppendRowFails(t)
  BY <1>3, AppendRowFailsKeeps
<1>4. CASE PrepareEnv(t)
  BY <1>4, PrepareEnvKeeps
<1>5. CASE \E kind \in Kinds : CollectUsage(t, kind)
  BY <1>5, CollectUsageKeeps
<1>6. CASE NextTry(t)
  BY <1>6, NextTryKeeps
<1>7. CASE RReads(t)
  BY <1>7, RReadsKeeps
<1>8. CASE RWrites(t)
  BY <1>8, RWritesKeeps
<1>9. CASE RSucceeds(t)
  BY <1>9, RSucceedsKeeps
<1>10. CASE \E rc \in {1, 124} : RFails(t, rc)
  BY <1>10, RFailsKeeps
<1>11. CASE MvDados(t)
  BY <1>11, MvDadosKeeps
<1>12. CASE \E kind \in Kinds : KillCollectors(t, kind)
  BY <1>12, KillCollectorsKeeps
<1>13. CASE CheckRasterEnv(t)
  BY <1>13, CheckRasterEnvKeeps
<1>14. CASE RemoveRasterEnv(t)
  BY <1>14, RemoveRasterEnvKeeps
<1>15. CASE GenerateMetadata(t)
  BY <1>15, GenerateMetadataKeeps
<1>16. CASE GenerateMetadataFails(t)
  BY <1>16, GenerateMetadataFailsKeeps
<1> QED
  BY <1>1, <1>2, <1>3, <1>4, <1>5, <1>6, <1>7, <1>8, <1>9,
     <1>10, <1>11, <1>12, <1>13, <1>14, <1>15, <1>16 DEF RunSh

\* Every step of the system keeps the invariant, and so does a stutter.
LEMMA WorkerInvariantNext == WorkerInvariant /\ [Next]_vars => WorkerInvariant'
<1> SUFFICES ASSUME WorkerInvariant, [Next]_vars
             PROVE  WorkerInvariant'
  OBVIOUS
<1>1. CASE Restart
  BY <1>1, RestartKeeps
<1>2. ASSUME NEW t \in Tasks, StartRun(t)
      PROVE  WorkerInvariant'
  BY <1>2, StartRunKeeps
<1>3. ASSUME NEW t \in Tasks, RunSh(t)
      PROVE  WorkerInvariant'
  BY <1>3, RunShKeeps
<1>4. CASE UNCHANGED vars
  <2> USE <1>4 DEF vars, sandbox, outputs, local
  <2>1. TypeOK'
    BY DEF WorkerInvariant, TypeOK
  <2>2. TriesAreBounded'
    BY DEF WorkerInvariant, TriesAreBounded
  <2>3. HeaderComesFirst'
    BY DEF WorkerInvariant, HeaderComesFirst
  <2>4. OverlapIsMutual'
    BY DEF WorkerInvariant, OverlapIsMutual, Active
  <2>5. RowsAreOfR'
    BY DEF WorkerInvariant, RowsAreOfR
  <2>6. SoloDados'
    BY DEF WorkerInvariant, SoloDados, Solo
  <2>7. SoloRunReadsItsOwnRow'
    BY DEF WorkerInvariant, SoloRunReadsItsOwnRow, Solo
  <2>8. SoloRunRemovesWhatItSaw'
    BY DEF WorkerInvariant, SoloRunRemovesWhatItSaw, Solo
  <2>9. SoloProducts'
    BY DEF WorkerInvariant, SoloProducts, Solo
  <2>10. SoloSuccessHasItsProducts'
    BY DEF WorkerInvariant, SoloSuccessHasItsProducts, Solo
  <2>11. SettledIsSafe'
    BY DEF WorkerInvariant, SettledIsSafe, Solo
  <2>12. StoppedCollectors'
    BY DEF WorkerInvariant, StoppedCollectors
  <2> QED
    BY <2>1, <2>2, <2>3, <2>4, <2>5, <2>6, <2>7, <2>8, <2>9,
       <2>10, <2>11, <2>12 DEF WorkerInvariant
<1> QED
  BY <1>1, <1>2, <1>3, <1>4 DEF Next

\* The inductive invariant holds in every reachable state.
THEOREM WorkerInvariantHolds == Spec => []WorkerInvariant
<1>1. Init => WorkerInvariant
  BY WorkerInvariantInit
<1>2. WorkerInvariant /\ [Next]_vars => WorkerInvariant'
  BY WorkerInvariantNext
<1> QED
  BY <1>1, <1>2, PTL DEF Spec

\* The variables keep their types; in particular R never takes the header of
\* dados.csv for an image, although rows of several runs mix in the file.
THEOREM TypeCorrect == Spec => []TypeOK
<1>1. WorkerInvariant => TypeOK
  BY DEF WorkerInvariant
<1> QED
  BY <1>1, WorkerInvariantHolds, PTL

\* Whatever failed, interrupted or overlapping runs have left in the sandbox, a
\* run that has it to itself makes R work on its own image and on no other, and
\* cleanRasterEnv does not fail it.
THEOREM LoneRunsAreUndisturbed == Spec => []SoloRunIsUndisturbed
<1>1. WorkerInvariant => SoloRunIsUndisturbed
  BY DEF WorkerInvariant, SoloRunIsUndisturbed
<1> QED
  BY <1>1, WorkerInvariantHolds, PTL

\* Exit status 0 of a run without company stands for the complete products of its
\* own image, and no later or overlapping run of any OTHER task spoils them.
THEOREM LoneSuccessKeepsItsProducts == Spec => []SoloSuccessHasItsProducts
<1>1. WorkerInvariant => SoloSuccessHasItsProducts
  BY DEF WorkerInvariant
<1> QED
  BY <1>1, WorkerInvariantHolds, PTL

\* After exit status 0 no collector of the task is left, whoever started it.
THEOREM SuccessLeavesNoCollector == Spec => []SuccessStopsItsCollectors
<1>1. WorkerInvariant => SuccessStopsItsCollectors
  BY DEF WorkerInvariant, SuccessStopsItsCollectors, StoppedCollectors
<1> QED
  BY <1>1, WorkerInvariantHolds, PTL
=============================================================================
