---------------------------- MODULE MCWorkerRun ----------------------------
(***************************************************************************)
(* WorkerRun with interchangeable tasks.                                   *)
(***************************************************************************)
EXTENDS WorkerRun, TLC

AnyOrder == Permutations(Tasks)
=============================================================================
