------------------------------ MODULE WarpCall ------------------------------
(***************************************************************************)
(* What a caller of GDALWarpOperation::ChunkAndWarpImage or of             *)
(* ChunkAndWarpMulti relies on: the output region is cut into chunks, each *)
(* chunk is written at most once, and the call returns CE_None only after  *)
(* every one of them has been written. "Externally this method operates    *)
(* the same as ChunkAndWarpImage()", says the comment of the second.       *)
(***************************************************************************)
EXTENDS Naturals

CONSTANTS
    Nothing,    \* the result of a call that has not returned
    CE_None, CE_Failure

VARIABLES
    count,      \* the number of chunks, 0 before they are known
    written,    \* the numbers of the chunks in the output
    result      \* what the call has returned

vars == <<count, written, result>>

Init ==
    /\ count = 0
    /\ written = {}
    /\ result = Nothing

\* The chunks are collected.
Divide ==
    /\ result = Nothing
    /\ written = {}
    /\ count' \in Nat
    /\ UNCHANGED <<written, result>>

\* One chunk is written, for the first and only time.
WriteChunk(i) ==
    /\ result = Nothing
    /\ i \notin written
    /\ written' = written \cup {i}
    /\ UNCHANGED <<count, result>>

Succeed ==
    /\ result = Nothing
    /\ written = 1 .. count
    /\ result' = CE_None
    /\ UNCHANGED <<count, written>>

Fail ==
    /\ result = Nothing
    /\ result' = CE_Failure
    /\ UNCHANGED <<count, written>>

Next == Divide \/ Succeed \/ Fail \/ \E i \in 1 .. count : WriteChunk(i)

Spec == Init /\ [][Next]_vars /\ WF_vars(Succeed \/ Fail)

=============================================================================
