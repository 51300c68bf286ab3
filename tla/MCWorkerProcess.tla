--------------------------- MODULE MCWorkerProcess ---------------------------
(* WorkerProcess with two or three workers. *)
EXTENDS WorkerProcess
=============================================================================
