--------------------------- MODULE OutputContract ---------------------------
(***************************************************************************)
(* What the rest of the worker relies on from the function executeRScript  *)
(* of bin/run.sh: the abstract specification that WorkerOutputs implements *)
(* run by run.                                                             *)
(*                                                                         *)
(* While the function runs, the products in the output directory may be    *)
(* anything.  It lets run.sh go on only when the products are usable, and  *)
(* they stay so until the next run, whatever becomes of the rest of        *)
(* run.sh; otherwise run.sh exits with 124 (the last attempt timed out) or *)
(* 1 (it failed, or run.sh did not come as far as the function).           *)
(***************************************************************************)
VARIABLES outcome,   \* "running", "ok", "error" (exit 1) or "timeout" (exit 124)
          usable     \* are all products complete and of one attempt?

contractVars == <<outcome, usable>>

Init == outcome = "running" /\ usable = FALSE

\* R rewrites the products.
Work == /\ outcome = "running"
        /\ usable' \in BOOLEAN
        /\ UNCHANGED outcome

Succeed == /\ outcome = "running"
           /\ usable
           /\ outcome' = "ok"
           /\ UNCHANGED usable

GiveUp == /\ outcome = "running"
          /\ outcome' \in {"error", "timeout"}
          /\ UNCHANGED usable

\* run.sh is started again in the same output directory; what a run before
\* has left there does not count as the products of this one.
StartAgain == /\ outcome # "running"
              /\ outcome' = "running"
              /\ usable' = FALSE

Next == Work \/ Succeed \/ GiveUp \/ StartAgain

Spec == Init /\ [][Next]_contractVars
            /\ WF_contractVars(Succeed \/ GiveUp)
=============================================================================
