----------------------------- MODULE WorkerRun -----------------------------
(***************************************************************************)
(* The worker phase: bin/run.sh processes the image of one task.           *)
(*                                                                         *)
(* Each task has its own input, output and metadata directories, but every *)
(* run works in the same sandbox: one dados.csv next to the R code that    *)
(* tells R which image to process, one raster directory under /mnt, and    *)
(* background collectors that are stopped by their NAME.  run.sh takes no  *)
(* lock.  A run that exits early skips the rest of the script and leaves   *)
(* dados.csv, the raster directory and its collectors behind, and the next *)
(* run, of the same task or of another one, starts from there.             *)
(*                                                                         *)
(* The R process is abstracted to what it does to the products of the      *)
(* image it was told to process; WorkerOutputs has the detail.             *)
(***************************************************************************)
EXTENDS Naturals, Sequences

CONSTANTS Tasks,
          Header,       \* the first line of dados.csv
          NoTask,       \* no task; as a line of dados.csv: one cut short
          MAX_TRIES,    \* run.sh:21
          MaxRuns       \* bound: how often run.sh is started for one task

ASSUME WorkerAssumption ==
    /\ Header \notin Tasks /\ NoTask \notin Tasks /\ Header # NoTask
    /\ MAX_TRIES \in Nat \ {0} /\ MaxRuns \in Nat \ {0}

R_RASTER_TMP_DIR == "/mnt/rasterTmp"
TMP_DIR_PATH == "/tmp"             \* what executeRScript passes to R as its tmpdir
TmpDirs == {R_RASTER_TMP_DIR, TMP_DIR_PATH}

NoStatus == 255

VARIABLES
    \* the sandbox, shared by all runs
    dados,        \* the lines of dados.csv; <<>> when there is no such file
    scratch,      \* each temporary directory: "absent", "clean" or "dirty"
    collectors,   \* the collector scripts that are running
    \* the directories of each task
    products,     \* the products in its output directory
    archived,     \* the dados.csv in its output directory
    described,    \* the blocks of outputDescription.txt
    \* the current or last run of each task
    pc, run, tries, status,
    row,          \* the image its R process works on
    oneRow,       \* did R find exactly one row in dados.csv?
    overlapped    \* history: did it ever run together with another one?

sandbox == <<dados, scratch, collectors>>
outputs == <<products, archived, described>>
local   == <<run, tries, status, row, oneRow, overlapped>>
vars    == <<sandbox, outputs, pc, local>>

Kinds == {"cpu", "memory"}
Nothing == [state |-> "none", by |-> NoTask, run |-> 0]

Init == /\ dados = <<>>
        /\ scratch = [d \in TmpDirs |-> IF d = TMP_DIR_PATH THEN "clean" ELSE "absent"]
        /\ collectors = {}
        /\ products = [t \in Tasks |-> Nothing]
        /\ archived = [t \in Tasks |-> <<>>]
        /\ described = [t \in Tasks |-> 0]
        /\ pc = [t \in Tasks |-> "idle"]
        /\ run = [t \in Tasks |-> 0]
        /\ tries = [t \in Tasks |-> 0]
        /\ status = [t \in Tasks |-> NoStatus]
        /\ row = [t \in Tasks |-> NoTask]
        /\ oneRow = [t \in Tasks |-> FALSE]
        /\ overlapped = [t \in Tasks |-> FALSE]

Active(t) == pc[t] \notin {"idle", "ended"}

Goto(t, here, there) == pc[t] = here /\ pc' = [pc EXCEPT ![t] = there]

\* exit: the script ends, whatever is left of it.
Exit(t, code) == /\ pc' = [pc EXCEPT ![t] = "ended"]
                 /\ status' = [status EXCEPT ![t] = code]

-----------------------------------------------------------------------------
(***************************************************************************)
(* Up to the R script                                                      *)
(***************************************************************************)

\* run.sh starts; getFileNames only computes names and always succeeds.
StartRun(t) ==
    /\ ~Active(t) /\ run[t] < MaxRuns
    /\ pc' = [pc EXCEPT ![t] = "header"]
    /\ run' = [run EXCEPT ![t] = @ + 1]
    /\ tries' = [tries EXCEPT ![t] = 0]
    /\ status' = [status EXCEPT ![t] = NoStatus]
    /\ overlapped' = [u \in Tasks |-> IF u = t THEN \E v \in Tasks : Active(v)
                                               ELSE overlapped[u] \/ Active(u)]
    /\ UNCHANGED <<sandbox, outputs, row, oneRow>>

\* Mutant: the header is appended as well.
WriteHeader_Appends(t) ==
    /\ Goto(t, "header", "row")
    /\ dados' = Append(dados, Header)
    /\ UNCHANGED <<scratch, collectors, outputs, local>>

\* creatingDadosCSV: echo "File images;..." > dados.csv truncates the file.
WriteHeader(t) ==
    /\ Goto(t, "header", "row")
    /\ dados' = <<Header>>
    /\ UNCHANGED <<scratch, collectors, outputs, local>>

\* The header is cut short (disk full) after the file was truncated; only the
\* status of the next command is looked at.
WriteHeaderFails(t) ==
    /\ Goto(t, "header", "row")
    /\ dados' = <<NoTask>>
    /\ UNCHANGED <<scratch, collectors, outputs, local>>

\* creatingDadosCSV: echo "$INPUT_DIR_PATH;..." >> dados.csv.
AppendRow(t) ==
    /\ Goto(t, "row", "prepare")
    /\ dados' = Append(dados, t)
    /\ UNCHANGED <<scratch, collectors, outputs, local>>

\* The row cannot be written, or neither line can, the file being out of reach:
\* checkProcessOutput ends the run.
AppendRowFails(t) ==
    /\ pc[t] \in {"header", "row"}
    /\ Exit(t, 1)
    /\ UNCHANGED <<sandbox, outputs, run, tries, row, oneRow, overlapped>>

\* prepareEnvAndCollectUsage: an empty raster directory, made or cleaned.
PrepareEnv(t) ==
    /\ Goto(t, "prepare", "collectCpu")
    /\ scratch' = [scratch EXCEPT ![R_RASTER_TMP_DIR] = "clean"]
    /\ UNCHANGED <<dados, collectors, outputs, local>>

\* prepareEnvAndCollectUsage: the two endless collectors in the background.
CollectUsage(t, kind) ==
    /\ \/ kind = "cpu" /\ Goto(t, "collectCpu", "collectMemory")
       \/ kind = "memory" /\ Goto(t, "collectMemory", "try")
    /\ collectors' = collectors \cup {[task |-> t, run |-> run[t], kind |-> kind]}
    /\ UNCHANGED <<dados, scratch, outputs, local>>

-----------------------------------------------------------------------------
(***************************************************************************)
(* executeRScript                                                          *)
(***************************************************************************)

\* One turn of the loop: cleanRasterEnv, then R is started.
NextTry(t) ==
    /\ Goto(t, "try", "launched")
    /\ tries' = [tries EXCEPT ![t] = @ + 1]
    /\ scratch' = [scratch EXCEPT ![R_RASTER_TMP_DIR] = "absent"]
    /\ UNCHANGED <<dados, collectors, outputs, run, status, row, oneRow, overlapped>>

Readable == Len(dados) >= 2 /\ dados[1] = Header

\* Mutant: dados.csv is read as a file without a header.
RReads_NoHeader(t) ==
    /\ Goto(t, "launched", "computing")
    /\ Readable
    /\ row' = [row EXCEPT ![t] = dados[1]]
    /\ oneRow' = [oneRow EXCEPT ![t] = Len(dados) = 2]
    /\ scratch' = [scratch EXCEPT ![TMP_DIR_PATH] = "dirty"]
    /\ UNCHANGED <<dados, collectors, outputs, run, tries, status, overlapped>>

\* R reads dados.csv once, at its start, and works on the first row; its
\* rasters spill to the temporary directory it was given.
RReads(t) ==
    /\ Goto(t, "launched", "computing")
    /\ Readable
    /\ row' = [row EXCEPT ![t] = dados[2]]
    /\ oneRow' = [oneRow EXCEPT ![t] = Len(dados) = 2]
    /\ scratch' = [scratch EXCEPT ![TMP_DIR_PATH] = "dirty"]
    /\ UNCHANGED <<dados, collectors, outputs, run, tries, status, overlapped>>

\* R starts writing into the output directory of the row.
RWrites(t) ==
    /\ Goto(t, "computing", "writing")
    /\ products' = [products EXCEPT ![row[t]] =
                       [state |-> "partial", by |-> t, run |-> run[t]]]
    /\ UNCHANGED <<sandbox, archived, described, local>>

\* Does another R process write the products of the same image?
SharesOutput(t) == \E u \in Tasks \ {t} : pc[u] = "writing" /\ row[u] = row[t]

\* R ends with 0, and the loop breaks.  It cannot when dados.csv had several
\* rows: the path of the albedo file is then a vector (Algoritmo:304).
RSucceeds(t) ==
    /\ Goto(t, "writing", "move")
    /\ oneRow[t]
    /\ products' = [products EXCEPT ![row[t]] =
                       [state |-> IF SharesOutput(t) THEN "partial" ELSE "complete",
                        by |-> t, run |-> run[t]]]
    /\ row' = [row EXCEPT ![t] = NoTask]
    /\ oneRow' = [oneRow EXCEPT ![t] = FALSE]
    /\ UNCHANGED <<sandbox, archived, described, run, tries, status, overlapped>>

\* Mutant: the loop just ends after the last try, and run.sh goes on.
RFails_GoesOn(t, rc) ==
    /\ \/ pc[t] \in {"computing", "writing"}
       \/ pc[t] = "launched" /\ rc = 1
    /\ pc' = [pc EXCEPT ![t] = IF tries[t] >= MAX_TRIES THEN "move" ELSE "try"]
    /\ row' = [row EXCEPT ![t] = NoTask]
    /\ oneRow' = [oneRow EXCEPT ![t] = FALSE]
    /\ UNCHANGED <<sandbox, outputs, run, tries, status, overlapped>>

\* R fails (1) or runs out of time (124): try again, or exit with the tries
\* used up, past everything that would clean up.
RFails(t, rc) ==
    /\ \/ pc[t] \in {"computing", "writing"}
       \/ pc[t] = "launched" /\ rc = 1
    /\ IF tries[t] >= MAX_TRIES
       THEN Exit(t, rc)
       ELSE pc' = [pc EXCEPT ![t] = "try"] /\ UNCHANGED status
    /\ row' = [row EXCEPT ![t] = NoTask]
    /\ oneRow' = [oneRow EXCEPT ![t] = FALSE]
    /\ UNCHANGED <<sandbox, outputs, run, tries, overlapped>>

-----------------------------------------------------------------------------
(***************************************************************************)
(* After the R script                                                      *)
(***************************************************************************)

\* mvDadosCSV; when another run has moved the file already, mv fails and
\* nobody looks at its status.
MvDados(t) ==
    /\ Goto(t, "move", "killCpu")
    /\ IF dados = <<>>
       THEN UNCHANGED <<dados, archived>>
       ELSE archived' = [archived EXCEPT ![t] = dados] /\ dados' = <<>>
    /\ UNCHANGED <<scratch, collectors, products, described, local>>

\* Mutant: kill only the collectors this run has started, by their ids.
KillCollectors_OfThisRun(t, kind) ==
    /\ \/ kind = "cpu" /\ Goto(t, "killCpu", "killMemory")
       \/ kind = "memory" /\ Goto(t, "killMemory", "sweep")
    /\ collectors' = collectors \ {[task |-> t, run |-> run[t], kind |-> kind]}
    /\ UNCHANGED <<dados, scratch, outputs, local>>

\* killCollectScripts: every process of that name, whoever started it.
KillCollectors(t, kind) ==
    /\ \/ kind = "cpu" /\ Goto(t, "killCpu", "killMemory")
       \/ kind = "memory" /\ Goto(t, "killMemory", "sweep")
    /\ collectors' = {c \in collectors : c.kind # kind}
    /\ UNCHANGED <<dados, scratch, outputs, local>>

\* cleanRasterEnv: is there a raster directory?
CheckRasterEnv(t) ==
    /\ Goto(t, "sweep", IF scratch[R_RASTER_TMP_DIR] = "absent" THEN "describe" ELSE "remove")
    /\ UNCHANGED <<sandbox, outputs, local>>

\* ... then rm -r; when the directory is gone by now, rm fails and so does
\* the run, with its products in place.
RemoveRasterEnv(t) ==
    /\ pc[t] = "remove"
    /\ IF scratch[R_RASTER_TMP_DIR] = "absent"
       THEN Exit(t, 1) /\ UNCHANGED scratch
       ELSE /\ Goto(t, "remove", "describe")
            /\ scratch' = [scratch EXCEPT ![R_RASTER_TMP_DIR] = "absent"]
            /\ UNCHANGED status
    /\ UNCHANGED <<dados, collectors, outputs, run, tries, row, oneRow, overlapped>>

\* generateMetadataFile appends a block, and run.sh ends with 0.
GenerateMetadata(t) ==
    /\ pc[t] = "describe"
    /\ Exit(t, 0)
    /\ described' = [described EXCEPT ![t] = @ + 1]
    /\ UNCHANGED <<sandbox, products, archived, run, tries, row, oneRow, overlapped>>

\* The last line cannot be appended: checkProcessOutput ends the run.
GenerateMetadataFails(t) ==
    /\ pc[t] = "describe"
    /\ Exit(t, 1)
    /\ UNCHANGED <<sandbox, outputs, run, tries, row, oneRow, overlapped>>

-----------------------------------------------------------------------------
\* The machine restarts: every process is gone, every file stays.
Restart ==
    /\ \E t \in Tasks : Active(t)
    /\ pc' = [t \in Tasks |-> IF Active(t) THEN "idle" ELSE pc[t]]
    /\ collectors' = {}
    /\ row' = [t \in Tasks |-> NoTask]
    /\ oneRow' = [t \in Tasks |-> FALSE]
    /\ UNCHANGED <<dados, scratch, outputs, run, tries, status, overlapped>>

RunSh(t) ==
    \/ WriteHeader(t) \/ WriteHeaderFails(t) \/ AppendRow(t) \/ AppendRowFails(t)
    \/ PrepareEnv(t) \/ (\E kind \in Kinds : CollectUsage(t, kind))
    \/ NextTry(t) \/ RReads(t) \/ RWrites(t) \/ RSucceeds(t)
    \/ (\E rc \in {1, 124} : RFails(t, rc))
    \/ MvDados(t) \/ (\E kind \in Kinds : KillCollectors(t, kind))
    \/ CheckRasterEnv(t) \/ RemoveRasterEnv(t)
    \/ GenerateMetadata(t) \/ GenerateMetadataFails(t)

Next == Restart \/ \E t \in Tasks : StartRun(t) \/ RunSh(t)

Spec == Init /\ [][Next]_vars

-----------------------------------------------------------------------------
(***************************************************************************)
(* Properties                                                              *)
(***************************************************************************)
PCs == {"idle", "header", "row", "prepare", "collectCpu", "collectMemory", "try",
        "launched", "computing", "writing", "move", "killCpu", "killMemory",
        "sweep", "remove", "describe", "ended"}

Lines == Tasks \cup {Header, NoTask}

\* Values of the variables.
TypeOK ==
    /\ dados \in Seq(Lines)
    /\ scratch \in [TmpDirs -> {"absent", "clean", "dirty"}]
    /\ collectors \subseteq [task : Tasks, run : Nat, kind : Kinds]
    /\ products \in [Tasks -> [state : {"none", "partial", "complete"},
                               by : Tasks \cup {NoTask}, run : Nat]]
    /\ archived \in [Tasks -> Seq(Lines)]
    /\ described \in [Tasks -> Nat]
    /\ pc \in [Tasks -> PCs]
    /\ run \in [Tasks -> 0..MaxRuns]
    /\ tries \in [Tasks -> Nat]
    /\ status \in [Tasks -> {NoStatus, 0, 1, 124}]
    /\ row \in [Tasks -> Tasks \cup {NoTask}]
    /\ oneRow \in [Tasks -> BOOLEAN]
    /\ overlapped \in [Tasks -> BOOLEAN]

Solo(t) == ~overlapped[t]

\* A run that has the sandbox to itself is told to process its own image,
\* whatever failed, interrupted or overlapping runs have left behind.
SoloRunReadsItsOwnRow ==
    \A t \in Tasks : Solo(t) /\ pc[t] \in {"computing", "writing"}
                        => row[t] = t /\ oneRow[t]

\* Such a run is also never failed by the sandbox: the raster directory it
\* has seen is still there when it removes it.
SoloRunRemovesWhatItSaw ==
    \A t \in Tasks : Solo(t) /\ pc[t] = "remove"
                        => scratch[R_RASTER_TMP_DIR] # "absent"

\* Both: nothing that is left in the sandbox disturbs a run without company.
SoloRunIsUndisturbed == SoloRunReadsItsOwnRow /\ SoloRunRemovesWhatItSaw

\* When it exits with 0, its output directory holds the complete products of
\* its own image made by this very run, and the dados.csv they were made
\* from, until the task is run again, whatever other runs do meanwhile.
SoloSuccessHasItsProducts ==
    \A t \in Tasks : Solo(t) /\ pc[t] = "ended" /\ status[t] = 0
        => /\ products[t] = [state |-> "complete", by |-> t, run |-> run[t]]
           /\ archived[t] = <<Header, t>>

\* A run that exits with 0, overlapped or not, leaves no collector of its
\* task running, also none that leaked from an earlier failed run of it.
SuccessStopsItsCollectors ==
    \A t \in Tasks : pc[t] = "ended" /\ status[t] = 0
                        => \A c \in collectors : c.task # t

(***************************************************************************)
(* The inductive invariant behind these four.                              *)
(***************************************************************************)
BeforeR  == {"prepare", "collectCpu", "collectMemory", "try", "launched"}
InR      == {"computing", "writing"}
AfterMv  == {"killCpu", "killMemory", "sweep", "remove", "describe"}

\* The loop of executeRScript starts R only while tries are left.
TriesAreBounded ==
    \A t \in Tasks :
        /\ pc[t] \in {"header", "row", "prepare", "collectCpu", "collectMemory"} => tries[t] = 0
        /\ pc[t] = "try" => tries[t] < MAX_TRIES
        /\ tries[t] <= MAX_TRIES

\* Only the first line of dados.csv can be the header, or one cut short.
HeaderComesFirst == \A i \in DOMAIN dados : i > 1 => dados[i] \in Tasks

\* Runs that are active together know it.
OverlapIsMutual ==
    \A t, u \in Tasks : t # u /\ Active(t) /\ Active(u) => overlapped[t]

\* Only a running R process works on an image.
RowsAreOfR == \A t \in Tasks : pc[t] \notin InR => row[t] = NoTask

\* What a run without company finds in dados.csv at each of its steps.
SoloDados ==
    \A t \in Tasks : Solo(t) =>
        /\ pc[t] = "row" => dados \in {<<Header>>, <<NoTask>>}
        /\ pc[t] \in BeforeR => dados \in {<<Header, t>>, <<NoTask, t>>}
        /\ pc[t] \in InR \cup {"move"} => dados = <<Header, t>>
        /\ pc[t] \in AfterMv => dados = <<>> /\ archived[t] = <<Header, t>>

\* The products of such a run once its R process has succeeded.
SoloProducts ==
    \A t \in Tasks : Solo(t) /\ pc[t] \in AfterMv \cup {"move"}
        => products[t] = [state |-> "complete", by |-> t, run |-> run[t]]

\* No other run can touch the products of a successful run afterwards.
SettledIsSafe ==
    \A t \in Tasks : Solo(t) /\ pc[t] = "ended" /\ status[t] = 0
        => /\ \A i \in DOMAIN dados : dados[i] # t
           /\ \A u \in Tasks : row[u] # t

\* The collectors a run has stopped stay stopped.
StoppedCollectors ==
    \A t \in Tasks, c \in collectors : c.task = t =>
        /\ pc[t] = "killMemory" => c.kind # "cpu"
        /\ pc[t] \notin {"sweep", "remove", "describe"}
        /\ ~(pc[t] = "ended" /\ status[t] = 0)

WorkerInvariant ==
    /\ TypeOK
    /\ TriesAreBounded
    /\ HeaderComesFirst
    /\ OverlapIsMutual
    /\ RowsAreOfR
    /\ SoloDados
    /\ SoloRunReadsItsOwnRow
    /\ SoloRunRemovesWhatItSaw
    /\ SoloProducts
    /\ SoloSuccessHasItsProducts
    /\ SettledIsSafe
    /\ StoppedCollectors
=============================================================================
