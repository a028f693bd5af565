--------------------------- MODULE WorkerOutputs ---------------------------
(***************************************************************************)
(* The life of the nine products in the output directory of a worker run.  *)
(*                                                                         *)
(* executeRScript (bin/run.sh) runs Algoritmo_29112017.R at most MAX_TRIES *)
(* times, through scripts/executeRScript.sh, which folds R's exit status   *)
(* to 0, 124 (a timed block timed out) or 1.  The R script writes each     *)
(* product twice: writeRaster puts the raw layer on disk, and the layer is *)
(* then read back and written again under its own name by nc_create, which *)
(* truncates the file, and ncvar_put.  R may stop at any point of that,    *)
(* and the next attempt, or the next run in the same directory, starts     *)
(* over what is left.  generateMetadataFile then looks for the products.   *)
(*                                                                         *)
(* Around it run.sh checks the status of its other steps: one that fails   *)
(* before R has started, or after R has succeeded, ends the run with 1.    *)
(***************************************************************************)
EXTENDS Naturals, Sequences

CONSTANTS Layers,         \* products of phase 1, in the order writeRaster writes them
          RewriteOrder,   \* the same, in the order they are rewritten
          Evapo,          \* products of phase 2, in the order both happen
          Listed,         \* suffixes generateMetadataFile looks for
          MAX_TRIES,
          MaxRuns         \* bound: how often run.sh is started in the directory

NameSet(names) == {names[i] : i \in DOMAIN names}

ASSUME OutputsAssumption ==
    /\ MAX_TRIES \in Nat \ {0} /\ MaxRuns \in Nat \ {0}
    /\ \A names \in {Layers, RewriteOrder, Evapo} : names \in Seq(NameSet(names))
    /\ Layers # <<>> /\ Len(Layers) = Len(RewriteOrder)
    /\ NameSet(Layers) = NameSet(RewriteOrder)
    /\ NameSet(Layers) \cap NameSet(Evapo) = {}

Products == NameSet(Layers) \cup NameSet(Evapo)

Raw(names)   == [i \in DOMAIN names |-> [name |-> names[i], as |-> "raw"]]
Final(names) == [i \in DOMAIN names |-> [name |-> names[i], as |-> "final"]]

\* Every write of one R process, in program order.
Writes == Raw(Layers) \o Final(RewriteOrder) \o Raw(Evapo) \o Final(Evapo)

VARIABLES run,        \* runs of run.sh so far
          try,        \* the loop variable i of executeRScript
          phase,      \* where run.sh is
          done,       \* writes the R process has finished
          open,       \* is it in the middle of a write?
          rc,         \* what executeRScript.sh answers for the attempt
          file,       \* content of each product's file
          writer,     \* the attempt <<run, try>> that wrote it last
          exit,       \* exit status of run.sh
          metadata    \* the blocks appended to outputDescription.txt

vars == <<run, try, phase, done, open, rc, file, writer, exit, metadata>>

NoStatus == 255   \* not an exit status of run.sh: it has not ended yet

Init == /\ run = 1
        /\ try = 1
        /\ phase = "prepare"
        /\ done = 0
        /\ open = FALSE
        /\ rc = NoStatus
        /\ file = [p \in Products |-> "absent"]
        /\ writer = [p \in Products |-> <<0, 0>>]
        /\ exit = NoStatus
        /\ metadata = <<>>

-----------------------------------------------------------------------------
(***************************************************************************)
(* The R process                                                           *)
(***************************************************************************)

\* writeRaster opens the file of a layer, or nc_create truncates it.  A layer
\* is rewritten from its raw content: nc_open and ncvar_get come first.
OpenFile ==
    /\ phase = "rscript" /\ ~open /\ done < Len(Writes)
    /\ LET w == Writes[done + 1] IN
          /\ w.as = "final" => file[w.name] = "raw"
          /\ file' = [file EXCEPT ![w.name] = "broken"]
          /\ writer' = [writer EXCEPT ![w.name] = <<run, try>>]
    /\ open' = TRUE
    /\ UNCHANGED <<run, try, phase, done, rc, exit, metadata>>

\* The content is complete and the file is closed.
CloseFile ==
    /\ phase = "rscript" /\ open
    /\ LET w == Writes[done + 1] IN file' = [file EXCEPT ![w.name] = w.as]
    /\ done' = done + 1
    /\ open' = FALSE
    /\ UNCHANGED <<run, try, phase, rc, writer, exit, metadata>>

REnds(status) ==
    /\ phase' = "tried"
    /\ rc' = status
    /\ UNCHANGED <<run, try, done, open, file, writer, exit, metadata>>

\* The script runs to its end.
RFinishes == phase = "rscript" /\ done = Len(Writes) /\ REnds(0)

\* evalWithTimeout guards the computation and the raw writes of phase 1, and
\* the whole of phase 2; the rewriting of the phase 1 products is not timed.
Timed == \/ done < Len(Layers)
         \/ done = Len(Layers) /\ ~open
         \/ done >= 2 * Len(Layers)

\* A TimeoutException in a timed block: quit("no", 124, FALSE).
RTimesOut == phase = "rscript" /\ Timed /\ REnds(124)

\* Mutant: executeRScript.sh loses the status of Rscript.
RFails_StatusLost == phase = "rscript" /\ REnds(0)

\* An R error, quit("no", 1, FALSE) for a cloudy image, or R is killed: any
\* status but 0 and 124 becomes 1 in executeRScript.sh.
RFails == phase = "rscript" /\ REnds(1)

-----------------------------------------------------------------------------
(***************************************************************************)
(* bin/run.sh                                                              *)
(***************************************************************************)

\* exit: run.sh is over, whatever is left of it.
Exit(status) == /\ phase' = "exited"
                /\ exit' = status

\* creatingDadosCSV and prepareEnvAndCollectUsage.
Prepare == /\ phase = "prepare"
           /\ phase' = "rscript"
           /\ UNCHANGED <<run, try, done, open, rc, file, writer, exit, metadata>>

\* The row of dados.csv cannot be written: checkProcessOutput ends the run
\* before R has started.
PrepareFails == /\ phase = "prepare"
                /\ Exit(1)
                /\ UNCHANGED <<run, try, done, open, rc, file, writer, metadata>>

\* Mutant: -gt instead of -ge MAX_TRIES.
Retry_OnceMore == /\ phase = "tried" /\ rc # 0 /\ try <= MAX_TRIES
                  /\ phase' = "rscript"
                  /\ try' = try + 1
                  /\ done' = 0
                  /\ open' = FALSE
                  /\ rc' = NoStatus
                  /\ UNCHANGED <<run, file, writer, exit, metadata>>

\* The loop of executeRScript tries again after any failure.
Retry == /\ phase = "tried" /\ rc # 0 /\ try < MAX_TRIES
         /\ phase' = "rscript"
         /\ try' = try + 1
         /\ done' = 0
         /\ open' = FALSE
         /\ rc' = NoStatus
         /\ UNCHANGED <<run, file, writer, exit, metadata>>

\* Mutant: a time-out ends the run whatever the number of the try.
GiveUp_AtFirstTimeout ==
    /\ phase = "tried" /\ rc # 0 /\ (rc = 124 \/ try >= MAX_TRIES)
    /\ Exit(IF rc = 124 THEN 124 ELSE 1)
    /\ UNCHANGED <<run, try, done, open, rc, file, writer, metadata>>

\* exit 124 or exit 1 after the last try.
GiveUp == /\ phase = "tried" /\ rc # 0 /\ try >= MAX_TRIES
          /\ Exit(IF rc = 124 THEN 124 ELSE 1)
          /\ UNCHANGED <<run, try, done, open, rc, file, writer, metadata>>

\* break: the products are there.  What mvDadosCSV and killCollectScripts
\* answer is not looked at.
Succeed == /\ phase = "tried" /\ rc = 0
           /\ phase' = "clean"
           /\ UNCHANGED <<run, try, done, open, rc, file, writer, exit, metadata>>

\* cleanRasterEnv finds no raster directory, or removes it.
CleanRasterEnv == /\ phase = "clean"
                  /\ phase' = "describe"
                  /\ UNCHANGED <<run, try, done, open, rc, file, writer, exit, metadata>>

\* rm -r fails: the run ends with 1 over the products of a try that has
\* succeeded.
CleanRasterEnvFails == /\ phase = "clean"
                       /\ Exit(1)
                       /\ UNCHANGED <<run, try, done, open, rc, file, writer, metadata>>

\* The block of outputDescription.txt: for each suffix the path find answers,
\* an empty one when there is no such file.
Block(lines, whole) == [run |-> run, whole |-> whole,
                        found |-> {p \in Products \cap lines : file[p] # "absent"}]

\* generateMetadataFile appends a block, and run.sh ends with 0.
GenerateMetadata ==
    /\ phase = "describe"
    /\ metadata' = Append(metadata, Block(Listed, TRUE))
    /\ Exit(0)
    /\ UNCHANGED <<run, try, done, open, rc, file, writer>>

\* The last line cannot be appended, and maybe none of them could: the run ends
\* with 1, like above.
GenerateMetadataFails ==
    /\ phase = "describe"
    /\ \/ UNCHANGED metadata
       \/ \E lastLine \in Listed :
             metadata' = Append(metadata, Block(Listed \ {lastLine}, FALSE))
    /\ Exit(1)
    /\ UNCHANGED <<run, try, done, open, rc, file, writer>>

\* run.sh is started again in the same output directory.
StartAgain == /\ phase = "exited" /\ run < MaxRuns
              /\ run' = run + 1
              /\ try' = 1
              /\ phase' = "prepare"
              /\ done' = 0
              /\ open' = FALSE
              /\ rc' = NoStatus
              /\ exit' = NoStatus
              /\ UNCHANGED <<file, writer, metadata>>

RProcess == OpenFile \/ CloseFile \/ RFinishes \/ RTimesOut \/ RFails
Shell == \/ Prepare \/ PrepareFails
         \/ Retry \/ GiveUp \/ Succeed
         \/ CleanRasterEnv \/ CleanRasterEnvFails
         \/ GenerateMetadata \/ GenerateMetadataFails

Next == RProcess \/ Shell \/ StartAgain

\* A command of run.sh ends and the next one starts; R computes, is timed out
\* or fails.  Nobody is obliged to start run.sh again.
Spec == Init /\ [][Next]_vars /\ WF_vars(RProcess) /\ WF_vars(Shell)

-----------------------------------------------------------------------------
(***************************************************************************)
(* Properties                                                              *)
(***************************************************************************)
FileStates == {"absent", "broken", "raw", "final"}

\* Values of the variables; the attempt number never passes MAX_TRIES.
TypeOK == /\ run \in 1..MaxRuns
          /\ try \in 1..MAX_TRIES
          /\ phase \in {"prepare", "rscript", "tried", "clean", "describe", "exited"}
          /\ done \in 0..Len(Writes)
          /\ open \in BOOLEAN
          /\ rc \in {NoStatus, 0, 1, 124}
          /\ file \in [Products -> FileStates]
          /\ writer \in [Products -> (0..MaxRuns) \X (0..MAX_TRIES)]
          /\ exit \in {NoStatus, 0, 1, 124}
          /\ metadata \in Seq([run : 1..MaxRuns, whole : BOOLEAN, found : SUBSET Listed])

Usable == \A p \in Products : file[p] = "final" /\ writer[p] = <<run, try>>

\* A run that exits with 0 leaves complete products only, all of one and the
\* same attempt: no file of a run or attempt that was cut short survives.
ExitZeroMeansUsableProducts == exit = 0 => Usable

\* Exit status 124 means that the LAST try ran out of time, not an earlier one
\* that an error has followed; 1 means that the last try failed, or that run.sh
\* itself did: before R was started, the products then being what earlier runs
\* have left, or after a try that succeeded, the products then being usable.
FailureIsOfTheLastStep ==
    /\ exit = 124 => try = MAX_TRIES /\ rc = 124
    /\ exit = 1 => \/ try = MAX_TRIES /\ rc = 1
                   \/ try = 1 /\ rc = NoStatus /\ \A p \in Products : writer[p][1] < run
                   \/ rc = 0 /\ Usable

\* executeRScript keeps the contract of OutputContract, and comes to its end.
Contract == INSTANCE OutputContract WITH
                outcome <- IF phase \in {"prepare", "rscript", "tried"} THEN "running"
                           ELSE IF rc = 0 THEN "ok"
                           ELSE IF exit = 124 THEN "timeout" ELSE "error",
                usable <- Usable

KeepsContract == Contract!Spec

\* run.sh:132-133 and 146-147: the metadata names a file for the land surface
\* albedo and for the land surface temperature, like for every other product.
MetadataFindsEveryProduct ==
    \A i \in DOMAIN metadata : metadata[i].whole => metadata[i].found = Listed
=============================================================================
