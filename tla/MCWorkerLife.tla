---------------------------- MODULE MCWorkerLife ----------------------------
(***************************************************************************)
(* Model-checking instance of WorkerLife.                                  *)
(***************************************************************************)
EXTENDS WorkerLife

=============================================================================
