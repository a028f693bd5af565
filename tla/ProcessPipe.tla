---------------------------- MODULE ProcessPipe ----------------------------
(***************************************************************************)
(* How the input downloader runs an external program.                      *)
(*                                                                         *)
(* USGSNasaRepository starts curl, tar and get-station-data.sh with a      *)
(* ProcessBuilder that redirects nothing, so both output streams of the    *)
(* child are pipes with a bounded buffer.  Every call site waits for the   *)
(* child to END before it reads: executeProcess and searchForImagesInRange *)
(* read the standard output after waitFor, runGetStationData and           *)
(* unpackTargz never read it, and nobody ever reads the standard error.    *)
(*                                                                         *)
(* None of them looks at the exit status before it reads: what a program   *)
(* that breaks off has printed until then is taken for its answer.         *)
(***************************************************************************)
EXTENDS Naturals

CONSTANTS Capacity,   \* units a pipe holds before a write to it blocks
          MaxSize     \* bound on what a program prints on one stream

ASSUME SizesAreNat == Capacity \in Nat /\ MaxSize \in Nat

Streams == {"out", "err"}

VARIABLES size,       \* what the program prints on each stream if it comes to its end
          collects,   \* TRUE: executeProcess; FALSE: runGetStationData, unpackTargz
          parent,     \* the calling thread
          child,      \* the program
          toWrite,    \* what the program has not printed
          buffered,   \* what each pipe holds
          taken       \* standard output read by getProcessOutput

vars == <<size, collects, parent, child, toWrite, buffered, taken>>

Over == {"ended", "broken"}
Empty == [s \in Streams |-> 0]

Init == /\ size \in [Streams -> 0..MaxSize]
        /\ collects \in BOOLEAN
        /\ parent = "starting"
        /\ child = "none"
        /\ toWrite = size
        /\ buffered = Empty
        /\ taken = 0

(***************************************************************************)
(* The calling thread.                                                     *)
(***************************************************************************)

\* builder.start() succeeds, and the thread goes into p.waitFor().
Start == /\ parent = "starting"
         /\ parent' = "waiting"
         /\ child' = "running"
         /\ UNCHANGED <<size, collects, toWrite, buffered, taken>>

\* builder.start() throws: executeProcess answers with an empty string, the
\* other call sites rethrow.
StartFails == /\ parent = "starting"
              /\ parent' = "failed"
              /\ UNCHANGED <<size, collects, child, toWrite, buffered, taken>>

\* Mutant: waitFor with a timeout, whose answer nobody looks at.
WaitFor_TimesOut ==
    /\ parent = "waiting"
    /\ parent' = IF collects THEN "reading" ELSE "returned"
    /\ UNCHANGED <<size, collects, child, toWrite, buffered, taken>>

\* p.waitFor() returns once the program is over, in whatever way.
WaitFor == /\ parent = "waiting"
           /\ child \in Over
           /\ parent' = IF collects THEN "reading" ELSE "returned"
           /\ UNCHANGED <<size, collects, child, toWrite, buffered, taken>>

\* One turn of the readLine loop of getProcessOutput.
Read == /\ parent = "reading"
        /\ buffered["out"] > 0
        /\ taken' = taken + 1
        /\ buffered' = [buffered EXCEPT !["out"] = @ - 1]
        /\ UNCHANGED <<size, collects, parent, child, toWrite>>

\* Mutant: one readLine instead of a loop.
EndOfFile_OneLine ==
    /\ parent = "reading"
    /\ parent' = "returned"
    /\ UNCHANGED <<size, collects, child, toWrite, buffered, taken>>

\* readLine answers null: no writer is left and the pipe is empty.
EndOfFile == /\ parent = "reading"
             /\ child \in Over
             /\ buffered["out"] = 0
             /\ parent' = "returned"
             /\ UNCHANGED <<size, collects, child, toWrite, buffered, taken>>

(***************************************************************************)
(* The program.  A write to a full pipe blocks: the action is disabled.    *)
(***************************************************************************)
Write(s) == /\ child = "running"
            /\ toWrite[s] > 0
            /\ buffered[s] < Capacity
            /\ toWrite' = [toWrite EXCEPT ![s] = @ - 1]
            /\ buffered' = [buffered EXCEPT ![s] = @ + 1]
            /\ UNCHANGED <<size, collects, parent, child, taken>>

End == /\ child = "running"
       /\ \A s \in Streams : toWrite[s] = 0
       /\ child' = "ended"
       /\ UNCHANGED <<size, collects, parent, toWrite, buffered, taken>>

\* The connection is lost, the disk is full, the program is killed: the rest is
\* never printed.
BreakOff == /\ child = "running"
            /\ child' = "broken"
            /\ UNCHANGED <<size, collects, parent, toWrite, buffered, taken>>

Caller == Start \/ StartFails \/ WaitFor \/ Read \/ EndOfFile
Program == End \/ \E s \in Streams : Write(s)

Next == Caller \/ Program \/ BreakOff

\* The thread runs whenever it can, and the program (curl with the server's
\* answer at hand, tar, a shell script) keeps printing until it ends, unless it
\* breaks off, which nothing says it ever does.
Spec == Init /\ [][Next]_vars /\ WF_vars(Caller) /\ WF_vars(Program)

-----------------------------------------------------------------------------
(***************************************************************************)
(* Properties                                                              *)
(***************************************************************************)

\* The values the variables of a call take; a pipe never holds more than its
\* capacity.
TypeOK == /\ size \in [Streams -> 0..MaxSize]
          /\ collects \in BOOLEAN
          /\ parent \in {"starting", "waiting", "reading", "returned", "failed"}
          /\ child \in {"none", "running", "ended", "broken"}
          /\ toWrite \in [Streams -> 0..MaxSize]
          /\ buffered \in [Streams -> 0..Capacity]
          /\ taken \in 0..MaxSize

Fits == \A s \in Streams : size[s] <= Capacity

\* executeProcess hands its caller all that curl has printed, and that is the
\* whole answer unless curl broke off: never because the caller read too early
\* or stopped reading too soon.
AnswerIsAllThatWasPrinted ==
    parent = "returned" =>
        /\ taken = IF collects THEN size["out"] - toWrite["out"] ELSE 0
        /\ child = "ended" => toWrite = Empty

\* Waiting before reading hangs for good on more output than a pipe holds,
\* on either stream: such a call does not return, whatever the schedule,
\* unless the program breaks off, and then with no more than a pipe holds.
OversizedCallNeverReturns ==
    ~Fits => /\ child # "ended"
             /\ parent = "returned" => child = "broken" /\ taken <= Capacity

\* And it hangs ONLY on such output: a program whose output fits is never
\* blocked on a pipe, although nobody reads it while it runs.
FittingProgramNeverBlocks ==
    Fits => \A s \in Streams : toWrite[s] > 0 => buffered[s] < Capacity

\* The inductive invariant behind the three properties above.  Nothing is lost
\* or invented between the program and the caller; the caller reads nothing
\* before the program is over; and the program comes to its end only when what
\* it printed fits in the pipes.
PipeInvariant ==
    /\ TypeOK
    /\ \A s \in Streams :
          toWrite[s] + buffered[s] + (IF s = "out" THEN taken ELSE 0) = size[s]
    /\ buffered["out"] + taken <= Capacity
    /\ child = "none" <=> parent \in {"starting", "failed"}
    /\ parent \in {"reading", "returned"} => child \in Over
    /\ parent = "reading" => collects
    /\ taken > 0 => collects /\ child \in Over
    /\ child = "ended" => Fits /\ \A s \in Streams : toWrite[s] = 0
    /\ parent = "returned" /\ collects => buffered["out"] = 0

\* The call implements ProcessCall, with its liveness: a call whose output
\* fits in the pipes returns with all of it, unless it fails to start or the
\* program breaks off; a call whose program has broken off returns too.
Call == INSTANCE ProcessCall WITH
            broken <- child = "broken",
            status <- IF parent \in {"returned", "failed"} THEN parent ELSE "pending",
            result <- IF parent = "returned" THEN taken ELSE 0

ImplementsProcessCall == Call!Spec
=============================================================================
