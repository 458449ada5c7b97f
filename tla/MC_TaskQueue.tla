---------------------------- MODULE MC_TaskQueue ----------------------------
(* Instances of the queue: the process p1 has a worker id of its own, all  *)
(* others share one (two daemons started with the same --worker-id, or the *)
(* zombie and the successor of a restarted one).                           *)
EXTENDS TaskQueueRefinement

CONSTANTS p1, w1, w2

MCIdOf == [p \in Procs |-> IF p = p1 THEN w1 ELSE w2]
=============================================================================
