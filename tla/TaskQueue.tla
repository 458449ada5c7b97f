------------------------------ MODULE TaskQueue ------------------------------
(***************************************************************************)
(* The durable task queue of src/omni_hub/queue.py: one SQLite table whose *)
(* rows are claimed, completed and failed by worker processes, each call   *)
(* one write transaction.  One lane is modelled: claim() filters on the    *)
(* lane, so two lanes share no row.                                        *)
(*                                                                         *)
(* Time is abstracted to the events the code can observe: a row whose      *)
(* available_at lies ahead is in `waiting` until it comes of age, a claim  *)
(* older than the visibility timeout is in `lapsed`, and `earlier` keeps   *)
(* the order of the available_at columns.  lease[p] is what process p      *)
(* remembers of its claim: the task and the lease_epoch it was given.      *)
(***************************************************************************)
EXTENDS Naturals

CONSTANTS Keys,          \* tasks, named by their idempotency keys
          Procs,         \* worker processes
          WorkerIds,     \* values of --worker-id
          IdOf,          \* IdOf[p]: the worker id process p runs under
          MaxAttempts,   \* max_attempts of every task
          MaxLapses,     \* bound: only leases up to this epoch lapse or crash
          NoWorker,      \* NULL in the claimed_by column
          NoLease        \* process p holds no task

ASSUME QueueAssumption ==
    /\ IdOf \in [Procs -> WorkerIds]
    /\ NoWorker \notin WorkerIds
    /\ MaxAttempts \in Nat
    /\ MaxLapses \in Nat
    /\ NoLease \notin [task : Keys, epoch : Nat]

VARIABLES row,       \* row[k]: the columns of the row of k
          waiting,   \* rows whose available_at is still in the future
          lapsed,    \* claimed rows past the visibility timeout
          earlier,   \* earlier[k]: rows whose available_at precedes that of k
          lease      \* lease[p]: the claim process p is working on

queueVars == <<row, waiting, lapsed, earlier>>
vars == <<row, waiting, lapsed, earlier, lease>>

States == {"absent", "pending", "claimed", "done", "dead"}

\* output is the lease_epoch found in output_json, 0 when there is none.
Row == [state : States, attempts : Nat, claimedBy : WorkerIds \cup {NoWorker},
        leaseEpoch : Nat, output : Nat]

Lease == [task : Keys, epoch : Nat]

Inserted == {k \in Keys : row[k].state # "absent"}

Init == /\ row = [k \in Keys |-> [state |-> "absent", attempts |-> 0,
                                  claimedBy |-> NoWorker, leaseEpoch |-> 0,
                                  output |-> 0]]
        /\ waiting = {}
        /\ lapsed = {}
        /\ earlier = [k \in Keys |-> {}]
        /\ lease = [p \in Procs |-> NoLease]

-----------------------------------------------------------------------------
(* The order of the available_at columns. *)

\* k's available_at is now the latest of those that have elapsed.
Stamp(k) == earlier' = [j \in Keys |-> IF j = k THEN Inserted \ (waiting \cup {k})
                                       ELSE earlier[j] \ {k}]

\* Mutant: claims whose worker went silent are never handed out again.
EligiblePendingOnly == {k \in Keys : row[k].state = "pending" /\ k \notin waiting}

\* The WHERE clause of claim().
Eligible == {k \in Keys : \/ row[k].state = "pending" /\ k \notin waiting
                          \/ row[k].state = "claimed" /\ k \in lapsed}

\* ORDER BY available_at LIMIT 1.
Head(k) == k \in Eligible /\ earlier[k] \cap Eligible = {}

-----------------------------------------------------------------------------
(* Submitting a task, and the passage of time. *)

\* enqueue(): a second call with the same key returns the row it finds.
\* later: available_at was given and lies in the future.
Enqueue(k, later) ==
    /\ row[k].state = "absent"
    /\ row' = [row EXCEPT ![k].state = "pending"]
    /\ waiting' = IF later THEN waiting \cup {k} ELSE waiting
    /\ Stamp(k)
    /\ UNCHANGED <<lapsed, lease>>

\* available_at of k elapses.
Mature(k) ==
    /\ k \in waiting
    /\ waiting' = waiting \ {k}
    /\ Stamp(k)
    /\ UNCHANGED <<row, lapsed, lease>>

\* claimed_at of k falls behind now - visibility_timeout.
Lapse(k) ==
    /\ row[k].state = "claimed"
    /\ k \notin lapsed
    /\ row[k].leaseEpoch <= MaxLapses
    /\ lapsed' = lapsed \cup {k}
    /\ UNCHANGED <<row, waiting, earlier, lease>>

-----------------------------------------------------------------------------
(* The write transactions. *)

\* Mutant: taking over a silent worker's claim does not start a new epoch.
ClaimRowSameEpoch(k, id) ==
    /\ Head(k)
    /\ row' = [row EXCEPT ![k].state = "claimed",
                          ![k].claimedBy = id,
                          ![k].leaseEpoch = IF k \in lapsed THEN @ ELSE @ + 1,
                          ![k].attempts = @ + 1]
    /\ lapsed' = lapsed \ {k}
    /\ UNCHANGED <<waiting, earlier>>

\* claim(): takes the oldest eligible row and starts a new lease on it.
ClaimRow(k, id) ==
    /\ Head(k)
    /\ row' = [row EXCEPT ![k].state = "claimed",
                          ![k].claimedBy = id,
                          ![k].leaseEpoch = @ + 1,
                          ![k].attempts = @ + 1]
    /\ lapsed' = lapsed \ {k}
    /\ UNCHANGED <<waiting, earlier>>

\* Mutant: the output is not stored with the state.
SetDoneOnly(k, output) ==
    /\ row' = [row EXCEPT ![k].state = "done"]
    /\ lapsed' = lapsed \ {k}
    /\ UNCHANGED <<waiting, earlier>>

\* complete() sets state and output_json, nothing else.
SetDone(k, output) ==
    /\ row' = [row EXCEPT ![k].state = "done", ![k].output = output]
    /\ lapsed' = lapsed \ {k}
    /\ UNCHANGED <<waiting, earlier>>

\* fail(): the last attempt is final (claimed_by is left as it is);
\* before it the row is rescheduled, at once or after a backoff.
SetFailed(k) ==
    /\ lapsed' = lapsed \ {k}
    /\ \/ /\ row[k].attempts >= MaxAttempts
          /\ row' = [row EXCEPT ![k].state = "dead"]
          /\ UNCHANGED <<waiting, earlier>>
       \/ /\ row[k].attempts < MaxAttempts
          /\ row' = [row EXCEPT ![k].state = "pending", ![k].claimedBy = NoWorker]
          /\ waiting' \in {waiting \ {k}, waiting \cup {k}}
          /\ Stamp(k)

\* Mutant: any claimed row passes.
HoldsAnyClaim(k, id, epoch) == row[k].state = "claimed"

\* The fence: WHERE state = 'claimed' AND claimed_by = ? AND lease_epoch = ?.
Holds(k, id, epoch) == /\ row[k].state = "claimed"
                       /\ row[k].claimedBy = id
                       /\ row[k].leaseEpoch = epoch

Current(p) == lease[p] # NoLease /\ Holds(lease[p].task, IdOf[p], lease[p].epoch)

-----------------------------------------------------------------------------
(* The worker processes. *)

Claim(p, k) ==
    /\ lease[p] = NoLease
    /\ ClaimRow(k, IdOf[p])
    /\ lease' = [lease EXCEPT ![p] = [task |-> k, epoch |-> row'[k].leaseEpoch]]

DropLease(p) == lease' = [lease EXCEPT ![p] = NoLease]

Complete(p) ==
    /\ Current(p)
    /\ SetDone(lease[p].task, lease[p].epoch)
    /\ DropLease(p)

Fail(p) ==
    /\ Current(p)
    /\ SetFailed(lease[p].task)
    /\ DropLease(p)

\* complete() or fail() of a process that was overtaken: LeaseLost, no write.
LoseLease(p) ==
    /\ lease[p] # NoLease
    /\ ~Current(p)
    /\ DropLease(p)
    /\ UNCHANGED queueVars

\* The process dies and forgets its claim; a new one runs under the same id.
Crash(p) ==
    /\ lease[p] # NoLease
    /\ lease[p].epoch <= MaxLapses
    /\ DropLease(p)
    /\ UNCHANGED queueVars

Next == \/ \E k \in Keys : \/ \E later \in BOOLEAN : Enqueue(k, later)
                           \/ Mature(k)
                           \/ Lapse(k)
        \/ \E p \in Procs : \/ \E k \in Keys : Claim(p, k)
                            \/ Complete(p)
                            \/ Fail(p)
                            \/ LoseLease(p)
                            \/ Crash(p)

Spec == Init /\ [][Next]_vars

-----------------------------------------------------------------------------
(* The calls that are not fenced by the lease epoch. *)

\* complete(claimed_by=...) without lease_epoch.
HolderComplete(p) ==
    /\ lease[p] # NoLease
    /\ row[lease[p].task].state = "claimed"
    /\ row[lease[p].task].claimedBy = IdOf[p]
    /\ SetDone(lease[p].task, lease[p].epoch)
    /\ DropLease(p)

\* task-complete and task-fail of the command line: WHERE id = ? only.
OperatorComplete(k) ==
    /\ row[k].state # "absent"
    /\ SetDone(k, 0)
    /\ UNCHANGED lease

OperatorFail(k) ==
    /\ row[k].state # "absent"
    /\ SetFailed(k)
    /\ UNCHANGED lease

LegacyNext == \/ Next
              \/ \E p \in Procs : HolderComplete(p)
              \/ \E k \in Keys : OperatorComplete(k) \/ OperatorFail(k)

LegacySpec == Init /\ [][LegacyNext]_vars

-----------------------------------------------------------------------------
(* Properties. *)

TypeOK == /\ row \in [Keys -> Row]
          /\ waiting \subseteq Keys
          /\ lapsed \subseteq Keys
          /\ earlier \in [Keys -> SUBSET Keys]
          /\ lease \in [Procs -> Lease \cup {NoLease}]

\* Two processes never both pass the fence for one task, not even two
\* processes (or two incarnations of one) that run under the same worker id.
SingleHolder ==
    \A p, q \in Procs :
        Current(p) /\ Current(q) /\ lease[p].task = lease[q].task => p = q

\* The output kept in a done row is that of its last lease: a worker that was
\* overtaken never gets its result in.
OutputOfLastLease ==
    \A k \in Keys : row[k].state = "done" => /\ row[k].output = row[k].leaseEpoch
                                             /\ row[k].output > 0

\* A task is given up only by a failure reported after its last attempt.
DeadOnlyWhenExhausted ==
    \A k \in Keys : row[k].state = "dead" => /\ row[k].attempts >= MaxAttempts
                                             /\ row[k].output = 0

Stale(p) == /\ lease[p] # NoLease
            /\ lease[p].epoch < row[lease[p].task].leaseEpoch

\* LeaseLost: a worker that lost its lease "MUST NOT silently overwrite the
\* new holder's progress" (queue.py): the step that ends its run writes nothing.
StaleLeaseWritesNothing ==
    [][\A p \in Procs : Stale(p) /\ lease'[p] = NoLease => UNCHANGED queueVars]_vars

\* done and dead are terminal.
OutcomeIsFinal ==
    [][\A k \in Keys : row[k].state \in {"done", "dead"} => row'[k] = row[k]]_vars

\* Every task that was enqueued is eventually done or dead, whatever workers
\* crash or stall up to the bound MaxLapses.
EveryTaskSettles ==
    \A k \in Keys : (row[k].state # "absent") ~> (row[k].state \in {"done", "dead"})
=============================================================================
