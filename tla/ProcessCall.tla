---------------------------- MODULE ProcessCall ----------------------------
(***************************************************************************)
(* What the input downloader may rely on when it runs an external program  *)
(* (curl, tar, get-station-data.sh): the abstract specification that       *)
(* ProcessPipe implements.                                                 *)
(*                                                                         *)
(* A call either fails to start, which gives no output, or returns after   *)
(* the program is over.  When the program comes to its end the caller has  *)
(* its whole standard output, if it collects it, and that happens exactly  *)
(* when what the program prints on each stream fits in the buffer of a     *)
(* pipe: nobody reads a stream before.  A program that breaks off gives    *)
(* what it has printed, at most what a pipe holds, and nobody can tell.    *)
(***************************************************************************)
EXTENDS Naturals

CONSTANTS Capacity,   \* units a pipe holds before a write to it blocks
          MaxSize     \* bound on what a program prints on one stream

Streams == {"out", "err"}

VARIABLES size,       \* what the program prints on each stream if it comes to its end
          collects,   \* does the caller read the standard output?
          broken,     \* has the program broken off?
          status,     \* of the call: "pending", "returned" or "failed"
          result      \* units of standard output handed to the caller

callVars == <<size, collects, broken, status, result>>

Fits == \A s \in Streams : size[s] <= Capacity

Init == /\ size \in [Streams -> 0..MaxSize]
        /\ collects \in BOOLEAN
        /\ broken = FALSE
        /\ status = "pending"
        /\ result = 0

Fail == /\ status = "pending"
        /\ ~broken
        /\ status' = "failed"
        /\ UNCHANGED <<size, collects, broken, result>>

Break == /\ status = "pending"
         /\ ~broken
         /\ broken' = TRUE
         /\ UNCHANGED <<size, collects, status, result>>

\* The program came to its end.
Return == /\ status = "pending"
          /\ ~broken
          /\ Fits
          /\ status' = "returned"
          /\ result' = IF collects THEN size["out"] ELSE 0
          /\ UNCHANGED <<size, collects, broken>>

\* The program broke off.
ReturnPart == /\ status = "pending"
              /\ broken
              /\ status' = "returned"
              /\ result' \in 0..size["out"]
              /\ result' <= IF collects THEN Capacity ELSE 0
              /\ UNCHANGED <<size, collects, broken>>

Next == Fail \/ Break \/ Return \/ ReturnPart

Spec == /\ Init
        /\ [][Next]_callVars
        /\ WF_callVars(Return)
        /\ WF_callVars(ReturnPart)
=============================================================================
