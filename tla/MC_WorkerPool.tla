---------------------------- MODULE MC_WorkerPool ----------------------------
(* Instances of the worker pool; all processes but p1 share a worker id. *)
EXTENDS WorkerPool

CONSTANTS p1, w1, w2

MCIdOf == [p \in Procs |-> IF p = p1 THEN w1 ELSE w2]
=============================================================================
