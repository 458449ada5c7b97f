----------------------------- MODULE WorkerPool -----------------------------
(***************************************************************************)
(* The worker daemon of src/omni_hub/cli/worker.py: several processes loop *)
(* over claim, adapter run, (gated lanes) a staged proposal, and complete  *)
(* or fail, while a person decides on proposals.  Each call on a store is  *)
(* a step of its own; a process may stall between any two of them until    *)
(* its lease lapses, and may die at any of them.                           *)
(*                                                                         *)
(* A lease runs its adapter once, so the proposal of a run (its id is a    *)
(* fresh uuid) and the event-log entries of a run are named by the lease.  *)
(***************************************************************************)
EXTENDS TaskQueue

CONSTANT Gated   \* the lane is in _GATED_LANES (claude, codex, openhands)

ASSUME GatedAssumption == Gated \in BOOLEAN

VARIABLES at,        \* at[p]: where process p is in its loop
          mine,      \* mine[p]: task and lease_epoch the loop body works with
          staged,    \* proposals written by ProposalStore.store
          approved,  \* proposals in state approved
          rejected,  \* proposals in state rejected
          byWorker,  \* proposals whose decided_by is a worker
          logged,    \* logged[kind]: runs with an event of that kind
          crashed    \* history: runs whose process died

poolVars == <<at, mine, staged, approved, rejected, byWorker, logged, crashed>>
allVars == <<vars, poolVars>>
storeVars == <<staged, approved, rejected, byWorker>>

Places == {"idle", "running", "failing", "staging", "completing",
           "reportDone", "reportFailed", "rejecting"}
Kinds == {"completed", "failed", "lost"}

PoolInit ==
    /\ Init
    /\ at = [p \in Procs |-> "idle"]
    /\ mine = [p \in Procs |-> NoLease]
    /\ staged = {} /\ approved = {} /\ rejected = {} /\ byWorker = {}
    /\ logged = [kind \in Kinds |-> {}]
    /\ crashed = {}

Pending == staged \ (approved \cup rejected)

Goto(p, place) == at' = [at EXCEPT ![p] = place]
Log(kind, p) == logged' = [logged EXCEPT ![kind] = @ \cup {mine[p]}]

-----------------------------------------------------------------------------
(* The loop of one process. *)

\* queue.claim returned a task; current_epoch is snapshot.
Take(p, k) ==
    /\ at[p] = "idle"
    /\ Claim(p, k)
    /\ mine' = [mine EXCEPT ![p] = lease'[p]]
    /\ Goto(p, "running")
    /\ UNCHANGED <<storeVars, logged, crashed>>

\* adapter.run raised, or returned an artifact with an error.
RunFails(p) ==
    /\ at[p] = "running"
    /\ Goto(p, "failing")
    /\ UNCHANGED <<vars, mine, storeVars, logged, crashed>>

RunSucceeds(p) ==
    /\ at[p] = "running"
    /\ Goto(p, IF Gated THEN "staging" ELSE "completing")
    /\ UNCHANGED <<vars, mine, storeVars, logged, crashed>>

\* Mutant: the task is completed first, its proposal is written afterwards.
CompleteThenStage(p) ==
    \/ /\ at[p] = "staging"
       /\ Goto(p, "completing")
       /\ UNCHANGED <<vars, mine, storeVars, logged, crashed>>
    \/ /\ at[p] = "reportDone"
       /\ staged' = staged \cup {mine[p]}
       /\ UNCHANGED <<vars, at, mine, approved, rejected, byWorker, logged, crashed>>

\* proposal_store.store of a fresh pending proposal.
Stage(p) ==
    /\ at[p] = "staging"
    /\ staged' = staged \cup {mine[p]}
    /\ Goto(p, "completing")
    /\ UNCHANGED <<vars, mine, approved, rejected, byWorker, logged, crashed>>

\* queue.complete with the fence; LeaseLost leads to the except branch.
ReportSuccess(p) ==
    /\ at[p] = "completing"
    /\ \/ Complete(p) /\ Goto(p, "reportDone")
       \/ LoseLease(p) /\ Goto(p, "rejecting")
    /\ UNCHANGED <<mine, storeVars, logged, crashed>>

LogCompleted(p) ==
    /\ at[p] = "reportDone"
    /\ Log("completed", p)
    /\ Goto(p, "idle")
    /\ UNCHANGED <<vars, mine, storeVars, crashed>>

\* Mutant: LeaseLost is swallowed and the run is logged as completed.
IgnoreLeaseLost(p) ==
    /\ at[p] = "rejecting"
    /\ Log("completed", p)
    /\ Goto(p, "idle")
    /\ UNCHANGED <<vars, mine, storeVars, crashed>>

\* The LeaseLost branch: reject the own proposal, whatever its state is by
\* now, and log the loss.
RejectOwn(p) ==
    /\ at[p] = "rejecting"
    /\ LET own == {mine[p]} \cap staged
       IN  /\ approved' = approved \ own
           /\ rejected' = rejected \cup own
           /\ byWorker' = byWorker \cup own
    /\ Log("lost", p)
    /\ Goto(p, "idle")
    /\ UNCHANGED <<vars, mine, staged, crashed>>

\* Mutant: _safe_fail without claimed_by and lease_epoch.
ReportFailureUnfenced(p) ==
    /\ at[p] = "failing"
    /\ SetFailed(mine[p].task)
    /\ DropLease(p)
    /\ Goto(p, "reportFailed")
    /\ UNCHANGED <<mine, storeVars, logged, crashed>>

\* _safe_fail: queue.fail with the fence.
ReportFailure(p) ==
    /\ at[p] = "failing"
    /\ \/ Fail(p) /\ Goto(p, "reportFailed") /\ UNCHANGED logged
       \/ LoseLease(p) /\ Log("lost", p) /\ Goto(p, "idle")
    /\ UNCHANGED <<mine, storeVars, crashed>>

LogFailed(p) ==
    /\ at[p] = "reportFailed"
    /\ Log("failed", p)
    /\ Goto(p, "idle")
    /\ UNCHANGED <<vars, mine, storeVars, crashed>>

\* The process dies at any point of the loop body and is started again.
Die(p) ==
    /\ at[p] # "idle"
    /\ \/ Crash(p)
       \/ /\ lease[p] = NoLease
          /\ mine[p].epoch <= MaxLapses
          /\ UNCHANGED vars
    /\ crashed' = crashed \cup {mine[p]}
    /\ Goto(p, "idle")
    /\ UNCHANGED <<mine, storeVars, logged>>

-----------------------------------------------------------------------------
(* The person at propose-approve and propose-reject: any proposal, in any  *)
(* state.  Only state, reason and decided_by change, so the read and the   *)
(* write of _decide are one step here.                                     *)

Approve(x) ==
    /\ x \in staged
    /\ approved' = approved \cup {x}
    /\ rejected' = rejected \ {x}
    /\ byWorker' = byWorker \ {x}
    /\ UNCHANGED <<vars, at, mine, staged, logged, crashed>>

Reject(x) ==
    /\ x \in staged
    /\ approved' = approved \ {x}
    /\ rejected' = rejected \cup {x}
    /\ byWorker' = byWorker \ {x}
    /\ UNCHANGED <<vars, at, mine, staged, logged, crashed>>

Environment == /\ \E k \in Keys : \/ \E later \in BOOLEAN : Enqueue(k, later)
                                  \/ Mature(k)
                                  \/ Lapse(k)
               /\ UNCHANGED poolVars

Body(p) == \/ RunFails(p) \/ RunSucceeds(p) \/ Stage(p)
           \/ ReportSuccess(p) \/ LogCompleted(p) \/ RejectOwn(p)
           \/ ReportFailure(p) \/ LogFailed(p)

PoolNext == \/ Environment
            \/ \E p \in Procs : \/ \E k \in Keys : Take(p, k)
                                \/ Body(p)
                                \/ Die(p)
            \/ \E x \in staged : Approve(x) \/ Reject(x)

PoolSpec == PoolInit /\ [][PoolNext]_allVars

\* Time passes, an idle worker polls, and the adapter call, bounded by
\* --task-timeout-sec, ends and is reported.
PoolFairness ==
    /\ \A k \in Keys : /\ WF_allVars(Mature(k) /\ UNCHANGED poolVars)
                       /\ WF_allVars(Lapse(k) /\ UNCHANGED poolVars)
    /\ \A p \in Procs : /\ WF_allVars(\E k \in Keys : Take(p, k))
                        /\ WF_allVars(Body(p))

FairPoolSpec == PoolSpec /\ PoolFairness

-----------------------------------------------------------------------------
(* Properties. *)

PoolTypeOK ==
    /\ TypeOK
    /\ at \in [Procs -> Places]
    /\ mine \in [Procs -> Lease \cup {NoLease}]
    /\ staged \subseteq Lease
    /\ approved \subseteq staged /\ rejected \subseteq staged
    /\ approved \cap rejected = {}
    /\ byWorker \subseteq rejected
    /\ logged \in [Kinds -> SUBSET Lease]
    /\ crashed \subseteq Lease

\* The proposal behind the output of a done task exists: it was written before
\* the task was completed, by the run whose output was kept.
DoneHasProposal ==
    Gated => \A k \in Keys : row[k].state = "done" =>
                [task |-> k, epoch |-> row[k].output] \in staged

\* The event log tells the truth about outcomes: a completed event only for
\* the run whose output the task keeps, and never a failed event with it.
LogMatchesQueue ==
    \A x \in logged["completed"] :
        /\ row[x.task].state = "done" /\ row[x.task].output = x.epoch
        /\ x \notin logged["failed"] \cup logged["lost"]

InProgress(x) == \E p \in Procs : at[p] # "idle" /\ mine[p] = x

KeptOutput(x) == row[x.task].state = "done" /\ row[x.task].output = x.epoch

Orphan(x) == x \in Pending /\ ~KeptOutput(x) /\ ~InProgress(x)

\* A proposal whose output was dropped does not wait for a person, unless the
\* process that should have closed it died.
OrphansOnlyFromCrashes == \A x \in staged : Orphan(x) => x \in crashed

\* The proposal table and the queue agree, although they share no transaction: no
\* output without its proposal, and no proposal waits for an output that was
\* dropped.
ProposalsMatchQueue == DoneHasProposal /\ OrphansOnlyFromCrashes

\* The daemon never touches the queue but through fenced calls.
QueueBehaviour == Spec
=============================================================================
