------------------------- MODULE TaskQueueRefinement -------------------------
(***************************************************************************)
(* The queue driven by fenced workers implements the job ledger.           *)
(***************************************************************************)
EXTENDS TaskQueue

PhaseOf(state) == CASE state = "absent" -> "none"
                    [] state \in {"pending", "claimed"} -> "open"
                    [] state = "done" -> "settled"
                    [] state = "dead" -> "abandoned"

Phase  == [k \in Keys |-> PhaseOf(row[k].state)]
Grants == [k \in Keys |-> row[k].leaseEpoch]
Result == [k \in Keys |-> row[k].output]

Ledger == INSTANCE JobLedger WITH phase <- Phase, grant <- Grants, result <- Result

\* A submitter of work sees the ledger: results of the latest lease only,
\* outcomes that are never revised, giving up only after MaxAttempts leases.
ImplementsLedger == Ledger!LedgerSpec
=============================================================================
