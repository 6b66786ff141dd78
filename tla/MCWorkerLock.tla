----------------------------- MODULE MCWorkerLock -----------------------------
(* Small instances of WorkerLock. *)
EXTENDS WorkerLock

CONSTANTS w1, w2, i1, i2
=============================================================================
