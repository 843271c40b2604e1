---------------------------- MODULE MC_WorkerPool ----------------------------
(* The worker pool on a small instance. *)
EXTENDS WorkerPool
=============================================================================
