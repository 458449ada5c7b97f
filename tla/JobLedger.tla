------------------------------ MODULE JobLedger ------------------------------
(***************************************************************************)
(* What the task queue promises to the code that submits work, with no     *)
(* workers, clocks or rows: a job is granted to one generation of workers  *)
(* after another; only the latest generation may settle it, a job is given *)
(* up only after MaxAttempts grants, and neither outcome is ever revised.  *)
(* TaskQueue.tla implements this module (see TaskQueueRefinement.tla).     *)
(***************************************************************************)
EXTENDS Naturals

CONSTANTS Keys,         \* the jobs, named by their idempotency keys
          MaxAttempts   \* grants a job gets before a failure is final

VARIABLES phase,    \* phase[k]: "none", "open", "settled" or "abandoned"
          grant,    \* grant[k]: the generation the job was last granted to
          result    \* result[k]: the generation whose output was kept, or 0

ledgerVars == <<phase, grant, result>>

LedgerInit == /\ phase  = [k \in Keys |-> "none"]
              /\ grant  = [k \in Keys |-> 0]
              /\ result = [k \in Keys |-> 0]

Submit(k) == /\ phase[k] = "none"
             /\ phase' = [phase EXCEPT ![k] = "open"]
             /\ UNCHANGED <<grant, result>>

Grant(k) == /\ phase[k] = "open"
            /\ grant' = [grant EXCEPT ![k] = @ + 1]
            /\ UNCHANGED <<phase, result>>

Settle(k) == /\ phase[k] = "open"
             /\ grant[k] > 0
             /\ phase'  = [phase EXCEPT ![k] = "settled"]
             /\ result' = [result EXCEPT ![k] = grant[k]]
             /\ UNCHANGED grant

Abandon(k) == /\ phase[k] = "open"
              /\ grant[k] >= MaxAttempts
              /\ phase' = [phase EXCEPT ![k] = "abandoned"]
              /\ UNCHANGED <<grant, result>>

LedgerNext == \E k \in Keys : Submit(k) \/ Grant(k) \/ Settle(k) \/ Abandon(k)

LedgerSpec == LedgerInit /\ [][LedgerNext]_ledgerVars
=============================================================================
