------------------------- MODULE ProcessPipeProofs -------------------------
(***************************************************************************)
(* For every capacity of a pipe and every amount of output: a call hands   *)
(* over all that was printed, returns only when the output fits in the     *)
(* pipes or the program broke off, never blocks a program whose output     *)
(* fits, and takes only steps that ProcessCall allows.                     *)
(***************************************************************************)
EXTENDS ProcessPipe, TLAPS

\* PipeInvariant holds of the freshly configured call.
LEMMA PipeInvariantInit == Init => PipeInvariant
BY SizesAreNat DEF Init, PipeInvariant, TypeOK, Streams, Empty, Fits

\* Every step of the caller and of the program preserves PipeInvariant.
LEMMA PipeInvariantNext == PipeInvariant /\ [Next]_vars => PipeInvariant'
<1> SUFFICES ASSUME PipeInvariant, [Next]_vars
             PROVE  PipeInvariant'
  OBVIOUS
<1> USE SizesAreNat DEF PipeInvariant, TypeOK, Fits, Over
<1>1. CASE Start
  BY <1>1 DEF Start
<1>2. CASE StartFails
  BY <1>2 DEF StartFails
<1>3. CASE WaitFor
  BY <1>3 DEF WaitFor
<1>9. CASE BreakOff
  BY <1>9 DEF BreakOff
<1>4. CASE Read
  <2>1. /\ taken' = taken + 1
        /\ buffered' = [buffered EXCEPT !["out"] = @ - 1]
        /\ buffered["out"] > 0
        /\ parent = "reading"
        /\ UNCHANGED <<size, collects, parent, child, toWrite>>
    BY <1>4 DEF Read
  <2>2. taken < size["out"]
    BY <2>1 DEF Streams
  <2>3. TypeOK'
    BY <2>1, <2>2 DEF Streams
  <2>4. \A s \in Streams :
          toWrite'[s] + buffered'[s] + (IF s = "out" THEN taken' ELSE 0) = size'[s]
    BY <2>1 DEF Streams
  <2> QED
    BY <2>1, <2>3, <2>4
<1>5. CASE EndOfFile
  BY <1>5 DEF EndOfFile
<1>6. CASE End
  <2>1. Fits'
    BY <1>6 DEF End, Streams
  <2> QED
    BY <1>6, <2>1 DEF End
<1>7. ASSUME NEW s \in Streams, Write(s)
      PROVE  PipeInvariant'
  <2>1. /\ toWrite' = [toWrite EXCEPT ![s] = @ - 1]
        /\ buffered' = [buffered EXCEPT ![s] = @ + 1]
        /\ toWrite[s] > 0 /\ buffered[s] < Capacity
        /\ child = "running"
        /\ UNCHANGED <<size, collects, parent, child, taken>>
    BY <1>7 DEF Write
  <2>2. TypeOK'
    BY <2>1
  <2>3. \A u \in Streams :
          toWrite'[u] + buffered'[u] + (IF u = "out" THEN taken' ELSE 0) = size'[u]
    BY <2>1
  <2> QED
    BY <2>1, <2>2, <2>3
<1>8. CASE UNCHANGED vars
  BY <1>8 DEF vars
<1> QED
  BY <1>1, <1>2, <1>3, <1>4, <1>5, <1>6, <1>7, <1>8, <1>9 DEF Next, Caller, Program

\* Nothing is lost between the program and the caller, and the program ends
\* only when its output fits (executeProcess, runGetStationData).
THEOREM PipeInvariantHolds == Spec => []PipeInvariant
BY PipeInvariantInit, PipeInvariantNext, PTL DEF Spec

\* The variables of a call keep their types; no pipe overflows.
THEOREM TypeCorrect == Spec => []TypeOK
<1>1. PipeInvariant => TypeOK
  BY DEF PipeInvariant
<1> QED
  BY <1>1, PipeInvariantHolds, PTL

\* executeProcess returns all that the program has printed, which is its whole
\* standard output unless it broke off.
THEOREM AnswersAreComplete == Spec => []AnswerIsAllThatWasPrinted
<1>1. PipeInvariant => AnswerIsAllThatWasPrinted
  <2> SUFFICES ASSUME PipeInvariant, parent = "returned"
               PROVE  /\ taken = IF collects THEN size["out"] - toWrite["out"] ELSE 0
                      /\ child = "ended" => toWrite = Empty
    BY DEF AnswerIsAllThatWasPrinted
  <2>1. "out" \in Streams
    BY DEF Streams
  <2>2. toWrite["out"] \in Nat /\ taken \in Nat /\ buffered["out"] \in Nat /\ size["out"] \in Nat
    BY <2>1, SizesAreNat DEF PipeInvariant, TypeOK
  <2>3. toWrite["out"] + buffered["out"] + taken = size["out"]
    BY <2>1 DEF PipeInvariant
  <2>4. buffered["out"] = 0 => taken = size["out"] - toWrite["out"]
    BY <2>2, <2>3
  <2>5. ~(taken > 0) => taken = 0
    BY <2>2
  <2>6. collects => buffered["out"] = 0
    BY DEF PipeInvariant
  <2>7. ~collects => ~(taken > 0)
    BY DEF PipeInvariant
  <2>8. taken = IF collects THEN size["out"] - toWrite["out"] ELSE 0
    BY <2>4, <2>5, <2>6, <2>7, Zenon
  <2>9. child = "ended" => toWrite = Empty
    BY DEF PipeInvariant, TypeOK, Empty
  <2> QED
    BY <2>8, <2>9
<1> QED
  BY <1>1, PipeInvariantHolds, PTL

\* Unless the program breaks off, a call never returns when the program prints
\* more than a pipe holds: p.waitFor() before reading is a deadlock for every
\* larger output.
THEOREM OversizedCallsHang == Spec => []OversizedCallNeverReturns
<1>1. PipeInvariant => OversizedCallNeverReturns
  <2> SUFFICES ASSUME PipeInvariant, ~Fits
               PROVE  /\ child # "ended"
                      /\ parent = "returned" => child = "broken" /\ taken <= Capacity
    BY DEF OversizedCallNeverReturns
  <2>1. buffered["out"] \in Nat /\ taken \in Nat
    BY SizesAreNat DEF PipeInvariant, TypeOK, Streams
  <2> QED
    BY <2>1, SizesAreNat DEF PipeInvariant, Over
<1> QED
  BY <1>1, PipeInvariantHolds, PTL

\* A program whose output fits in the pipes is never blocked on one.
THEOREM FittingProgramsRun == Spec => []FittingProgramNeverBlocks
<1>1. PipeInvariant => FittingProgramNeverBlocks
  <2> SUFFICES ASSUME PipeInvariant, Fits, NEW s \in Streams, toWrite[s] > 0
               PROVE  buffered[s] < Capacity
    BY DEF FittingProgramNeverBlocks
  <2>1. toWrite[s] + buffered[s] + (IF s = "out" THEN taken ELSE 0) = size[s]
    BY DEF PipeInvariant
  <2>2. toWrite[s] \in Nat /\ buffered[s] \in Nat /\ taken \in Nat /\ size[s] \in Nat
    BY SizesAreNat DEF PipeInvariant, TypeOK
  <2>3. size[s] <= Capacity
    BY DEF Fits
  <2> QED
    BY <2>1, <2>2, <2>3, SizesAreNat
<1> QED
  BY <1>1, PipeInvariantHolds, PTL

-----------------------------------------------------------------------------
\* The initial states of a call are initial states of ProcessCall.
LEMMA CallInit == Init => Call!Init
BY DEF Init, Call!Init, Streams, Call!Streams

\* Every step of a call is a step of ProcessCall or leaves its view unchanged.
LEMMA CallStep == PipeInvariant /\ AnswerIsAllThatWasPrinted' /\ PipeInvariant' /\ [Next]_vars
                    => [Call!Next]_(Call!callVars)
<1> SUFFICES ASSUME PipeInvariant, AnswerIsAllThatWasPrinted', PipeInvariant', [Next]_vars
             PROVE  [Call!Next]_(Call!callVars)
  OBVIOUS
<1> USE DEF Call!callVars
<1>0. UNCHANGED <<size, collects>>
  BY DEF Next, Caller, Program, vars, Start, StartFails, WaitFor, Read,
         EndOfFile, End, BreakOff, Write
<1>1. CASE StartFails
  BY <1>1 DEF StartFails, Call!Next, Call!Fail, PipeInvariant
<1>2. CASE parent' = "returned" /\ parent # "returned"
  <2>0. child' = child
    BY <1>2 DEF Next, Caller, Program, vars, Start, StartFails, WaitFor, Read,
                EndOfFile, End, BreakOff, Write, PipeInvariant, Over
  <2>1. parent # "failed" /\ child' \in Over
    BY <1>2 DEF Next, Caller, Program, vars, Start, StartFails, WaitFor, Read,
                EndOfFile, End, BreakOff, Write, PipeInvariant
  <2>2. taken' = IF collects THEN size["out"] - toWrite'["out"] ELSE 0
    BY <1>0, <1>2 DEF AnswerIsAllThatWasPrinted
  <2>3. /\ taken' \in Nat /\ toWrite'["out"] \in Nat /\ buffered'["out"] \in Nat
        /\ buffered'["out"] + taken' <= Capacity /\ size["out"] \in Nat
    BY <1>0, SizesAreNat DEF PipeInvariant, TypeOK, Streams
  <2>4. CASE child' = "ended"
    <3>1. Fits' /\ toWrite'["out"] = 0
      BY <2>4 DEF PipeInvariant, Streams
    <3>2. Call!Fits
      BY <1>0, <3>1 DEF Fits, Call!Fits, Streams, Call!Streams
    <3> QED
      BY <1>0, <1>2, <2>0, <2>1, <2>2, <2>3, <2>4, <3>1, <3>2 DEF Call!Next, Call!Return
  <2>5. CASE child' = "broken"
    BY <1>0, <1>2, <2>0, <2>1, <2>2, <2>3, <2>5, SizesAreNat DEF Call!Next, Call!ReturnPart
  <2> QED
    BY <2>1, <2>4, <2>5 DEF Over
<1>3. CASE BreakOff
  BY <1>3 DEF BreakOff, PipeInvariant, Over, Call!Next, Call!Break
<1>4. CASE ~StartFails /\ ~BreakOff /\ ~(parent' = "returned" /\ parent # "returned")
  BY <1>0, <1>4 DEF Next, Caller, Program, vars, Start, WaitFor, Read,
                    EndOfFile, End, Write, PipeInvariant
<1> QED
  BY <1>1, <1>2, <1>3, <1>4

\* ProcessPipe implements the safety part of ProcessCall; the liveness part
\* is left to TLC.
THEOREM PipeImplementsCall ==
    Spec => Call!Init /\ [][Call!Next]_(Call!callVars)
BY CallInit, CallStep, PipeInvariantHolds, AnswersAreComplete, PTL DEF Spec
=============================================================================
