---------------------------- MODULE MCWorkerPool ----------------------------
(***************************************************************************)
(* Two pools of up to three workers, one after the other on one thread.    *)
(***************************************************************************)
EXTENDS WorkerPool
=============================================================================
