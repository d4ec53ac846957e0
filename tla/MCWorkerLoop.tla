---------------------------- MODULE MCWorkerLoop ----------------------------
(***************************************************************************)
(* WorkerLoop with one goal and a short journal.                           *)
(***************************************************************************)
EXTENDS WorkerLoop

CONSTANT g1
=============================================================================
