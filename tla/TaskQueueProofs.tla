--------------------------- MODULE TaskQueueProofs ---------------------------
(***************************************************************************)
(* Proofs about TaskQueue.tla, for any number of tasks and workers, any    *)
(* sharing of worker ids, any retry budget and any bound on lapses.        *)
(*                                                                         *)
(* The argument: a lease is a pair of a task and an epoch.  claim() is the *)
(* only call that makes one, and it makes it with an epoch no lease of     *)
(* that task has had before, since epochs never exceed the one in the row. *)
(* So two processes never hold equal leases, the fence lets at most one    *)
(* through, and what it lets through belongs to the latest epoch.          *)
(***************************************************************************)
EXTENDS TaskQueueRefinement, TLAPS

\* No lease is ahead of its row.
LeaseBehindRow ==
    \A p \in Procs : lease[p] # NoLease =>
        /\ lease[p].epoch > 0
        /\ lease[p].epoch <= row[lease[p].task].leaseEpoch

\* Leases are never equal, whatever worker ids their processes run under.
LeasesDiffer ==
    \A p, q \in Procs : /\ lease[p] # NoLease
                        /\ lease[p] = lease[q]
                        => p = q

\* The counters and the output of a row agree with its state.
RowConsistent ==
    \A k \in Keys : /\ row[k].attempts = row[k].leaseEpoch
                    /\ row[k].state \in {"claimed", "done"} => row[k].leaseEpoch > 0
                    /\ row[k].output = IF row[k].state = "done"
                                       THEN row[k].leaseEpoch ELSE 0
                    /\ row[k].state = "dead" => row[k].attempts >= MaxAttempts

\* What keeps the fence safe, whoever else writes to the rows.
FenceInv == TypeOK /\ LeaseBehindRow /\ LeasesDiffer

QueueInv == FenceInv /\ RowConsistent

-----------------------------------------------------------------------------
(* Every write transaction changes one row in a typed way. *)

\* The types the fields of a row and of a lease have.
LEMMA TypeFacts ==
    ASSUME TypeOK
    PROVE  /\ \A k \in Keys : /\ row[k] \in Row
                              /\ row[k].state \in States
                              /\ row[k].attempts \in Nat
                              /\ row[k].claimedBy \in WorkerIds \cup {NoWorker}
                              /\ row[k].leaseEpoch \in Nat
                              /\ row[k].output \in Nat
           /\ \A p \in Procs : lease[p] # NoLease =>
                 /\ lease[p] \in Lease
                 /\ lease[p].task \in Keys
                 /\ lease[p].epoch \in Nat
BY DEF TypeOK, Row, Lease

\* Stamp keeps the order relation well typed.
LEMMA StampType ==
    ASSUME TypeOK, NEW k \in Keys, Stamp(k)
    PROVE  earlier' \in [Keys -> SUBSET Keys]
BY DEF TypeOK, Stamp, Inserted

\* TypeOK is preserved by every step.
LEMMA TypeStep ==
    ASSUME TypeOK, [Next]_vars
    PROVE  TypeOK'
<1> USE QueueAssumption
<1>1. ASSUME NEW k \in Keys, NEW later \in BOOLEAN, Enqueue(k, later)
      PROVE  TypeOK'
  BY <1>1, TypeFacts, StampType DEF TypeOK, Enqueue, Row, States
<1>2. ASSUME NEW k \in Keys, Mature(k) \/ Lapse(k)
      PROVE  TypeOK'
  BY <1>2, StampType DEF TypeOK, Mature, Lapse
<1>3. ASSUME NEW p \in Procs, NEW k \in Keys, Claim(p, k)
      PROVE  TypeOK'
  <2>1. row' \in [Keys -> Row]
    BY <1>3, TypeFacts DEF TypeOK, Claim, ClaimRow, Row, States
  <2>2. row'[k].leaseEpoch \in Nat
    BY <2>1 DEF Row
  <2>3. lease' \in [Procs -> Lease \cup {NoLease}]
    BY <1>3, <2>2 DEF TypeOK, Claim, Lease
  <2> QED BY <1>3, <2>1, <2>3 DEF TypeOK, Claim, ClaimRow
<1>4. ASSUME NEW p \in Procs, Complete(p)
      PROVE  TypeOK'
  BY <1>4, TypeFacts DEF TypeOK, Complete, SetDone, Current, DropLease, Row, States
<1>5. ASSUME NEW p \in Procs, Fail(p)
      PROVE  TypeOK'
  <2> DEFINE k == lease[p].task
  <2>1. k \in Keys
    BY <1>5, TypeFacts DEF Fail, Current
  <2> HIDE DEF k
  <2>2. /\ row' \in [Keys -> Row]
        /\ waiting' \subseteq Keys
    <3>1. SetFailed(k)
      BY <1>5 DEF Fail, k
    <3>2. row[k] \in Row /\ row \in [Keys -> Row]
      BY <2>1, TypeFacts DEF TypeOK
    <3>3. /\ [row[k] EXCEPT !.state = "dead"] \in Row
          /\ [row[k] EXCEPT !.state = "pending", !.claimedBy = NoWorker] \in Row
      BY <3>2 DEF Row, States
    <3>4. row' \in [Keys -> Row]
      BY <2>1, <3>1, <3>2, <3>3 DEF SetFailed
    <3>5. waiting' \subseteq Keys
      BY <2>1, <3>1 DEF TypeOK, SetFailed
    <3> QED BY <3>4, <3>5
  <2>3. earlier' \in [Keys -> SUBSET Keys]
    BY <1>5, <2>1, StampType DEF TypeOK, Fail, SetFailed, k
  <2> QED BY <1>5, <2>2, <2>3 DEF TypeOK, Fail, SetFailed, DropLease
<1>6. ASSUME NEW p \in Procs, LoseLease(p) \/ Crash(p)
      PROVE  TypeOK'
  BY <1>6 DEF TypeOK, LoseLease, Crash, DropLease, queueVars
<1>7. CASE UNCHANGED vars
  BY <1>7 DEF TypeOK, vars
<1> QED BY <1>1, <1>2, <1>3, <1>4, <1>5, <1>6, <1>7 DEF Next

\* Every state of the queue is well typed.
THEOREM QueueTypeOK == Spec => []TypeOK
<1>1. Init => TypeOK
  BY QueueAssumption DEF Init, TypeOK, Row, States
<1>2. TypeOK /\ [Next]_vars => TypeOK'
  BY TypeStep
<1> QED BY <1>1, <1>2, PTL DEF Spec

-----------------------------------------------------------------------------
(* The invariant that makes the fence safe. *)

\* A claim hands out a lease that is ahead of every other lease of its task.
LEMMA ClaimStep ==
    ASSUME FenceInv, NEW p \in Procs, NEW k \in Keys, Claim(p, k)
    PROVE  LeaseBehindRow' /\ LeasesDiffer' /\ (RowConsistent => RowConsistent')
<1> DEFINE new == [task |-> k, epoch |-> row[k].leaseEpoch + 1]
<1>1. /\ lease' = [lease EXCEPT ![p] = new]
      /\ \A j \in Keys \ {k} : row'[j] = row[j]
      /\ row'[k].state = "claimed"
      /\ row'[k].leaseEpoch = row[k].leaseEpoch + 1
      /\ row'[k].attempts = row[k].attempts + 1
      /\ row'[k].output = row[k].output
  <2>1. /\ \A j \in Keys \ {k} : row'[j] = row[j]
        /\ row'[k].state = "claimed"
        /\ row'[k].leaseEpoch = row[k].leaseEpoch + 1
        /\ row'[k].attempts = row[k].attempts + 1
        /\ row'[k].output = row[k].output
    BY TypeFacts DEF FenceInv, TypeOK, Claim, ClaimRow, Row
  <2> QED BY <2>1 DEF Claim
<1>2. row[k].state \in {"pending", "claimed"}
  BY DEF Claim, ClaimRow, Head, Eligible
<1>3. new # NoLease /\ new \in Lease
  BY TypeFacts, QueueAssumption DEF FenceInv, Lease
<1>4. ASSUME NEW q \in Procs PROVE lease[q] # new
  <2>1. CASE lease[q] = NoLease
    BY <1>3, <2>1
  <2>2. ASSUME lease[q] # NoLease, lease[q].task = k
        PROVE  lease[q].epoch # row[k].leaseEpoch + 1
    BY <2>2, TypeFacts DEF FenceInv, LeaseBehindRow
  <2> QED BY <2>1, <2>2
<1>5. LeaseBehindRow'
  <2> SUFFICES ASSUME NEW q \in Procs, lease'[q] # NoLease
               PROVE  /\ lease'[q].epoch > 0
                      /\ lease'[q].epoch <= row'[lease'[q].task].leaseEpoch
    BY DEF LeaseBehindRow
  <2>1. CASE q = p
    BY <1>1, <2>1, TypeFacts DEF FenceInv, TypeOK
  <2>2. CASE q # p
    <3>1. lease'[q] = lease[q] /\ lease[q].task \in Keys
      BY <1>1, <2>2, TypeFacts DEF FenceInv, TypeOK
    <3>2. row[lease[q].task].leaseEpoch <= row'[lease[q].task].leaseEpoch
      BY <1>1, <3>1, TypeFacts DEF FenceInv
    <3> QED BY <1>1, <3>1, <3>2, TypeFacts DEF FenceInv, LeaseBehindRow
  <2> QED BY <2>1, <2>2
<1>6. LeasesDiffer'
  BY <1>1, <1>3, <1>4 DEF FenceInv, TypeOK, LeasesDiffer
<1>7. RowConsistent => RowConsistent'
  BY <1>1, <1>2, TypeFacts DEF FenceInv, RowConsistent
<1> QED BY <1>5, <1>6, <1>7

\* Ending a run gives the lease back and leaves every epoch as it was.
LEMMA FinishStep ==
    ASSUME FenceInv, NEW p \in Procs, Complete(p) \/ Fail(p)
    PROVE  LeaseBehindRow' /\ LeasesDiffer' /\ (RowConsistent => RowConsistent')
<1> DEFINE k == lease[p].task
<1>1. k \in Keys /\ lease[p] # NoLease
  BY TypeFacts DEF FenceInv, Complete, Fail, Current
<1>2. /\ \A j \in Keys \ {k} : row'[j] = row[j]
      /\ row'[k].leaseEpoch = row[k].leaseEpoch
      /\ row'[k].attempts = row[k].attempts
      /\ \/ row'[k].state = "done" /\ row'[k].output = lease[p].epoch
         \/ /\ row'[k].state = "dead" /\ row'[k].output = row[k].output
            /\ row[k].attempts >= MaxAttempts
         \/ row'[k].state = "pending" /\ row'[k].output = row[k].output
  BY <1>1, TypeFacts DEF FenceInv, TypeOK, Row, Complete, SetDone, Fail, SetFailed
<1>3. row[k].state = "claimed" /\ row[k].leaseEpoch = lease[p].epoch
  BY DEF Complete, Fail, Current, Holds
<1>4. lease' = [lease EXCEPT ![p] = NoLease]
  BY DEF Complete, Fail, DropLease
<1>5. LeaseBehindRow'
  <2> SUFFICES ASSUME NEW q \in Procs, lease'[q] # NoLease
               PROVE  /\ lease'[q].epoch > 0
                      /\ lease'[q].epoch <= row'[lease'[q].task].leaseEpoch
    BY DEF LeaseBehindRow
  <2>1. lease'[q] = lease[q] /\ lease[q] # NoLease
    BY <1>4 DEF FenceInv, TypeOK
  <2>2. lease[q].task \in Keys
    BY <2>1, TypeFacts DEF FenceInv
  <2>3. row'[lease[q].task].leaseEpoch = row[lease[q].task].leaseEpoch
    BY <1>2, <2>2
  <2> QED BY <2>1, <2>3 DEF FenceInv, LeaseBehindRow
<1>6. LeasesDiffer'
  BY <1>4 DEF FenceInv, TypeOK, LeasesDiffer
<1>7. RowConsistent => RowConsistent'
  BY <1>1, <1>2, <1>3, TypeFacts DEF FenceInv, RowConsistent
<1> QED BY <1>5, <1>6, <1>7

\* Every step of the queue keeps the leases apart and the counters consistent.
LEMMA QueueInvStep ==
    ASSUME QueueInv, [Next]_vars
    PROVE  QueueInv'
<1>1. TypeOK'
  BY TypeStep DEF QueueInv, FenceInv
<1>2. ASSUME NEW k \in Keys, NEW later \in BOOLEAN, Enqueue(k, later)
      PROVE  LeaseBehindRow' /\ LeasesDiffer' /\ RowConsistent'
  <2>1. /\ \A j \in Keys \ {k} : row'[j] = row[j]
        /\ row'[k].state = "pending"
        /\ row'[k].leaseEpoch = row[k].leaseEpoch
        /\ row'[k].attempts = row[k].attempts
        /\ row'[k].output = row[k].output
        /\ lease' = lease
    BY <1>2, TypeFacts DEF QueueInv, FenceInv, TypeOK, Row, Enqueue
  <2>2. row[k].state = "absent"
    BY <1>2 DEF Enqueue
  <2> QED BY <2>1, <2>2, TypeFacts
          DEF QueueInv, FenceInv, LeaseBehindRow, LeasesDiffer, RowConsistent
<1>3. ASSUME NEW p \in Procs, NEW k \in Keys, Claim(p, k)
      PROVE  LeaseBehindRow' /\ LeasesDiffer' /\ RowConsistent'
  BY <1>3, ClaimStep DEF QueueInv
<1>4. ASSUME NEW p \in Procs, Complete(p) \/ Fail(p)
      PROVE  LeaseBehindRow' /\ LeasesDiffer' /\ RowConsistent'
  BY <1>4, FinishStep DEF QueueInv
<1>5. ASSUME NEW p \in Procs, LoseLease(p) \/ Crash(p)
      PROVE  LeaseBehindRow' /\ LeasesDiffer' /\ RowConsistent'
  <2>1. row' = row /\ lease' = [lease EXCEPT ![p] = NoLease]
    BY <1>5 DEF LoseLease, Crash, DropLease, queueVars
  <2> QED BY <2>1, TypeFacts
          DEF QueueInv, FenceInv, TypeOK, LeaseBehindRow, LeasesDiffer, RowConsistent
<1>6. ASSUME row' = row, lease' = lease
      PROVE  LeaseBehindRow' /\ LeasesDiffer' /\ RowConsistent'
  BY <1>6 DEF QueueInv, FenceInv, LeaseBehindRow, LeasesDiffer, RowConsistent
<1>7. ASSUME NEW k \in Keys, Mature(k) \/ Lapse(k)
      PROVE  row' = row /\ lease' = lease
  BY <1>7 DEF Mature, Lapse
<1>8. CASE UNCHANGED vars
  BY <1>1, <1>6, <1>8 DEF vars, QueueInv, FenceInv
<1> QED BY <1>1, <1>2, <1>3, <1>4, <1>5, <1>6, <1>7, <1>8 DEF Next, QueueInv, FenceInv

\* QueueInv is inductive: it holds in every state of the queue.
THEOREM QueueInvariant == Spec => []QueueInv
<1>1. Init => QueueInv
  <2> SUFFICES ASSUME Init PROVE QueueInv
    OBVIOUS
  <2>1. TypeOK
    BY QueueAssumption DEF Init, TypeOK, Row, States
  <2> QED BY <2>1 DEF QueueInv, FenceInv, Init, LeaseBehindRow, LeasesDiffer, RowConsistent
<1>2. QueueInv /\ [Next]_vars => QueueInv'
  BY QueueInvStep
<1> QED BY <1>1, <1>2, PTL DEF Spec

-----------------------------------------------------------------------------
(* What follows from it. *)

\* At most one process passes the fence of a task (claim() and the WHERE
\* clause of complete()), even among processes with the same worker id.
THEOREM QueueSingleHolder == Spec => []SingleHolder
<1>1. QueueInv => SingleHolder
  BY TypeFacts DEF QueueInv, FenceInv, LeasesDiffer, SingleHolder, Current, Holds, Lease
<1> QED BY <1>1, QueueInvariant, PTL

\* The calls with one fencing argument or none keep leases behind their rows
\* and apart: they write no epoch and hand out no lease.
LEMMA FenceInvStep ==
    ASSUME FenceInv, [LegacyNext]_vars
    PROVE  FenceInv'
<1>1. ASSUME row' \in [Keys -> Row], waiting' \subseteq Keys, lapsed' \subseteq Keys,
             earlier' \in [Keys -> SUBSET Keys],
             \A k \in Keys : row[k].leaseEpoch <= row'[k].leaseEpoch,
             lease' = lease \/ \E p \in Procs : lease' = [lease EXCEPT ![p] = NoLease]
      PROVE  FenceInv'
  <2>1. TypeOK'
    BY <1>1 DEF FenceInv, TypeOK
  <2>2. ASSUME NEW q \in Procs, lease'[q] # NoLease PROVE lease'[q] = lease[q]
    BY <1>1, <2>2 DEF FenceInv, TypeOK
  <2>3. LeaseBehindRow'
    <3> SUFFICES ASSUME NEW q \in Procs, lease'[q] # NoLease
                 PROVE  /\ lease'[q].epoch > 0
                        /\ lease'[q].epoch <= row'[lease'[q].task].leaseEpoch
      BY DEF LeaseBehindRow
    <3> DEFINE k == lease[q].task
    <3>1. /\ lease'[q] = lease[q] /\ k \in Keys /\ lease[q].epoch \in Nat
          /\ lease[q].epoch > 0 /\ lease[q].epoch <= row[k].leaseEpoch
      BY <2>2, TypeFacts DEF FenceInv, LeaseBehindRow
    <3>2. row[k].leaseEpoch \in Nat /\ row'[k].leaseEpoch \in Nat
      BY <1>1, <3>1, TypeFacts DEF FenceInv, Row
    <3> QED BY <1>1, <3>1, <3>2
  <2>4. LeasesDiffer'
    BY <2>2 DEF FenceInv, LeasesDiffer
  <2> QED BY <2>1, <2>3, <2>4 DEF FenceInv
<1>2. ASSUME NEW k \in Keys, NEW output \in Nat, SetDone(k, output) \/ SetFailed(k)
      PROVE  /\ row' \in [Keys -> Row] /\ waiting' \subseteq Keys /\ lapsed' \subseteq Keys
             /\ earlier' \in [Keys -> SUBSET Keys]
             /\ \A j \in Keys : row[j].leaseEpoch <= row'[j].leaseEpoch
  <2>1. row' \in [Keys -> Row] /\ waiting' \subseteq Keys /\ lapsed' \subseteq Keys
    BY <1>2, TypeFacts, QueueAssumption
       DEF FenceInv, TypeOK, SetDone, SetFailed, Row, States
  <2>2. earlier' \in [Keys -> SUBSET Keys]
    BY <1>2, StampType DEF FenceInv, TypeOK, SetDone, SetFailed
  <2>3. \A j \in Keys : row[j].leaseEpoch <= row'[j].leaseEpoch
    <3>1. \A j \in Keys : row'[j].leaseEpoch = row[j].leaseEpoch
      BY <1>2, TypeFacts DEF FenceInv, TypeOK, SetDone, SetFailed, Row
    <3> QED BY <3>1, TypeFacts DEF FenceInv
  <2> QED BY <2>1, <2>2, <2>3
<1>3. ASSUME NEW p \in Procs, HolderComplete(p) PROVE FenceInv'
  <2>1. lease[p].task \in Keys /\ lease[p].epoch \in Nat
    BY <1>3, TypeFacts DEF FenceInv, HolderComplete
  <2> QED BY <1>1, <1>2, <1>3, <2>1 DEF HolderComplete, DropLease
<1>4. ASSUME NEW k \in Keys, OperatorComplete(k) \/ OperatorFail(k) PROVE FenceInv'
  BY <1>1, <1>2, <1>4 DEF OperatorComplete, OperatorFail
<1>5. ASSUME [Next]_vars PROVE FenceInv'
  <2>1. TypeOK'
    BY <1>5, TypeStep DEF FenceInv
  <2>2. ASSUME NEW p \in Procs, NEW k \in Keys, Claim(p, k) PROVE FenceInv'
    BY <2>1, <2>2, ClaimStep DEF FenceInv
  <2>3. ASSUME NEW p \in Procs, Complete(p) \/ Fail(p) PROVE FenceInv'
    BY <2>1, <2>3, FinishStep DEF FenceInv
  <2>4. ASSUME NEW k \in Keys, NEW later \in BOOLEAN, Enqueue(k, later) PROVE FenceInv'
    <3>1. lease' = lease /\ \A j \in Keys : row'[j].leaseEpoch = row[j].leaseEpoch
      BY <2>4, TypeFacts DEF FenceInv, TypeOK, Row, Enqueue
    <3> QED BY <2>1, <3>1, TypeFacts DEF FenceInv, LeaseBehindRow, LeasesDiffer
  <2>5. ASSUME row' = row, lease' = lease PROVE FenceInv'
    BY <2>1, <2>5 DEF FenceInv, LeaseBehindRow, LeasesDiffer
  <2>6. ASSUME NEW p \in Procs, LoseLease(p) \/ Crash(p) PROVE FenceInv'
    <3>1. row' = row /\ lease' = [lease EXCEPT ![p] = NoLease]
      BY <2>6 DEF LoseLease, Crash, DropLease, queueVars
    <3> QED BY <2>1, <3>1 DEF FenceInv, TypeOK, LeaseBehindRow, LeasesDiffer
  <2> QED BY <1>5, <2>2, <2>3, <2>4, <2>5, <2>6 DEF Next, Mature, Lapse, vars
<1> QED BY <1>3, <1>4, <1>5 DEF LegacyNext

\* The fence holds also beside callers that do not use it: task-complete and
\* task-fail of the command line (WHERE id = ?) and complete() with claimed_by
\* alone never let two processes pass it for one task.
THEOREM LegacySingleHolder == LegacySpec => []SingleHolder
<1>1. Init => FenceInv
  <2> SUFFICES ASSUME Init PROVE FenceInv
    OBVIOUS
  <2>1. TypeOK
    BY QueueAssumption DEF Init, TypeOK, Row, States
  <2> QED BY <2>1 DEF FenceInv, Init, LeaseBehindRow, LeasesDiffer
<1>2. FenceInv /\ [LegacyNext]_vars => FenceInv'
  BY FenceInvStep
<1>3. FenceInv => SingleHolder
  BY TypeFacts DEF FenceInv, LeasesDiffer, SingleHolder, Current, Holds, Lease
<1> QED BY <1>1, <1>2, <1>3, PTL DEF LegacySpec

\* The output of a done row is that of its last lease.
THEOREM QueueOutputOfLastLease == Spec => []OutputOfLastLease
<1>1. QueueInv => OutputOfLastLease
  BY TypeFacts DEF QueueInv, FenceInv, RowConsistent, OutputOfLastLease
<1> QED BY <1>1, QueueInvariant, PTL

\* A dead row has used up its attempts and keeps no output.
THEOREM QueueDeadOnlyWhenExhausted == Spec => []DeadOnlyWhenExhausted
<1>1. QueueInv => DeadOnlyWhenExhausted
  BY TypeFacts DEF QueueInv, FenceInv, RowConsistent, DeadOnlyWhenExhausted
<1> QED BY <1>1, QueueInvariant, PTL

\* No step touches a settled row.
LEMMA FinalStep ==
    ASSUME TypeOK, [Next]_vars, NEW k \in Keys, row[k].state \in {"done", "dead"}
    PROVE  row'[k] = row[k]
<1>1. ASSUME NEW j \in Keys, NEW later \in BOOLEAN, Enqueue(j, later)
      PROVE  row'[k] = row[k]
  BY <1>1 DEF TypeOK, Enqueue
<1>2. ASSUME NEW p \in Procs, NEW j \in Keys, Claim(p, j)
      PROVE  row'[k] = row[k]
  <2>1. row[j].state \in {"pending", "claimed"}
    BY <1>2 DEF Claim, ClaimRow, Head, Eligible
  <2> QED BY <1>2, <2>1 DEF TypeOK, Claim, ClaimRow
<1>3. ASSUME NEW p \in Procs, Complete(p) \/ Fail(p)
      PROVE  row'[k] = row[k]
  <2>1. lease[p].task # k
    BY <1>3 DEF Complete, Fail, Current, Holds
  <2> QED BY <1>3, <2>1 DEF TypeOK, Complete, SetDone, Fail, SetFailed
<1> QED BY <1>1, <1>2, <1>3
        DEF Next, Mature, Lapse, LoseLease, Crash, queueVars, vars

\* done and dead are terminal: nothing claims or reports on such a row.
THEOREM QueueOutcomeIsFinal == Spec => OutcomeIsFinal
<1> DEFINE Final(k) == row[k].state \in {"done", "dead"} => row'[k] = row[k]
<1>1. TypeOK /\ [Next]_vars => [\A k \in Keys : Final(k)]_vars
  BY FinalStep
<1> QED BY <1>1, QueueTypeOK, PTL DEF Spec, OutcomeIsFinal

\* A worker that was overtaken cannot write: the step that ends its run
\* leaves the table as it is.
THEOREM QueueStaleLeaseWritesNothing == Spec => StaleLeaseWritesNothing
<1> DEFINE Harmless(p) == Stale(p) /\ lease'[p] = NoLease => UNCHANGED queueVars
<1>1. ASSUME TypeOK, [Next]_vars, NEW p \in Procs PROVE Harmless(p)
  <2> SUFFICES ASSUME Stale(p), lease'[p] = NoLease PROVE UNCHANGED queueVars
    OBVIOUS
  <2>1. ASSUME lease' = lease PROVE FALSE
    BY <2>1 DEF Stale
  <2>2. ASSUME NEW q \in Procs, NEW k \in Keys, Claim(q, k) PROVE FALSE
    <3>1. lease[q] = NoLease /\ q # p
      BY <2>2 DEF Claim, Stale
    <3> QED BY <1>1, <2>2, <3>1 DEF Claim, TypeOK, Stale
  <2>3. ASSUME NEW q \in Procs, Complete(q) \/ Fail(q) PROVE FALSE
    <3>1. CASE q = p
      BY <1>1, <2>3, <3>1, TypeFacts DEF Complete, Fail, Current, Holds, Stale
    <3>2. CASE q # p
      BY <1>1, <2>3, <3>2 DEF Complete, Fail, DropLease, TypeOK, Stale
    <3> QED BY <3>1, <3>2
  <2> QED BY <1>1, <2>1, <2>2, <2>3
          DEF Next, Enqueue, Mature, Lapse, LoseLease, Crash, vars, queueVars
<1>2. TypeOK /\ [Next]_vars => [\A p \in Procs : Harmless(p)]_vars
  BY <1>1
<1> QED BY <1>2, QueueTypeOK, PTL DEF Spec, StaleLeaseWritesNothing

-----------------------------------------------------------------------------
(* The queue implements the job ledger. *)

\* The ledger's view of one task.
LEMMA MappedFields ==
    ASSUME NEW k \in Keys
    PROVE  /\ Phase[k] = PhaseOf(row[k].state)
           /\ Grants[k] = row[k].leaseEpoch
           /\ Result[k] = row[k].output
BY DEF Phase, Grants, Result

\* A write to the row of one task changes the mapped ledger at that task only.
LEMMA MappedRow ==
    ASSUME NEW k \in Keys, \A j \in Keys \ {k} : row'[j] = row[j]
    PROVE  /\ Phase' = [Phase EXCEPT ![k] = PhaseOf(row'[k].state)]
           /\ Grants' = [Grants EXCEPT ![k] = row'[k].leaseEpoch]
           /\ Result' = [Result EXCEPT ![k] = row'[k].output]
           /\ PhaseOf(row'[k].state) = PhaseOf(row[k].state) => Phase' = Phase
           /\ row'[k].leaseEpoch = row[k].leaseEpoch => Grants' = Grants
           /\ row'[k].output = row[k].output => Result' = Result
<1>1. Phase' = [j \in Keys |-> PhaseOf(row'[j].state)]
  BY DEF Phase
<1>2. Grants' = [j \in Keys |-> row'[j].leaseEpoch]
  BY DEF Grants
<1>3. Result' = [j \in Keys |-> row'[j].output]
  BY DEF Result
<1> QED BY <1>1, <1>2, <1>3 DEF Phase, Grants, Result

\* The table of PhaseOf.
LEMMA PhaseTable ==
    /\ PhaseOf("absent") = "none"
    /\ PhaseOf("pending") = "open"
    /\ PhaseOf("claimed") = "open"
    /\ PhaseOf("done") = "settled"
    /\ PhaseOf("dead") = "abandoned"
BY DEF PhaseOf

\* Every step of the queue is a step of the ledger or changes nothing in it.
LEMMA LedgerStep ==
    ASSUME QueueInv, [Next]_vars
    PROVE  Ledger!LedgerNext \/ UNCHANGED Ledger!ledgerVars
<1> USE DEF QueueInv, FenceInv
<1>1. ASSUME row' = row
      PROVE  UNCHANGED Ledger!ledgerVars
  BY <1>1 DEF Ledger!ledgerVars, Phase, Grants, Result
<1>2. ASSUME NEW k \in Keys, NEW later \in BOOLEAN, Enqueue(k, later)
      PROVE  Ledger!Submit(k)
  <2>1. /\ row[k].state = "absent"
        /\ \A j \in Keys \ {k} : row'[j] = row[j]
        /\ row'[k].state = "pending"
        /\ row'[k].leaseEpoch = row[k].leaseEpoch
        /\ row'[k].output = row[k].output
    BY <1>2, TypeFacts DEF TypeOK, Row, Enqueue
  <2>2. /\ Phase' = [Phase EXCEPT ![k] = "open"]
        /\ UNCHANGED <<Grants, Result>>
    BY <2>1, MappedRow, PhaseTable
  <2> QED BY <2>1, <2>2, MappedFields, PhaseTable DEF Ledger!Submit
<1>3. ASSUME NEW p \in Procs, NEW k \in Keys, Claim(p, k)
      PROVE  Ledger!Grant(k)
  <2>1. row[k].state \in {"pending", "claimed"}
    BY <1>3 DEF Claim, ClaimRow, Head, Eligible
  <2>2. /\ \A j \in Keys \ {k} : row'[j] = row[j]
        /\ row'[k].state = "claimed"
        /\ row'[k].leaseEpoch = row[k].leaseEpoch + 1
        /\ row'[k].output = row[k].output
    BY <1>3, TypeFacts DEF TypeOK, Row, Claim, ClaimRow
  <2>3. /\ PhaseOf(row[k].state) = "open"
        /\ UNCHANGED <<Phase, Result>>
        /\ Grants' = [Grants EXCEPT ![k] = row[k].leaseEpoch + 1]
    BY <2>1, <2>2, MappedRow, PhaseTable
  <2> QED BY <2>3, MappedFields DEF Ledger!Grant
<1>4. ASSUME NEW p \in Procs, Complete(p)
      PROVE  lease[p].task \in Keys /\ Ledger!Settle(lease[p].task)
  <2> DEFINE k == lease[p].task
  <2>1. /\ k \in Keys
        /\ row[k].state = "claimed"
        /\ row[k].leaseEpoch = lease[p].epoch
        /\ row[k].leaseEpoch > 0
    BY <1>4, TypeFacts DEF RowConsistent, Complete, Current, Holds
  <2>2. /\ \A j \in Keys \ {k} : row'[j] = row[j]
        /\ row'[k].state = "done"
        /\ row'[k].leaseEpoch = row[k].leaseEpoch
        /\ row'[k].output = row[k].leaseEpoch
    BY <1>4, <2>1, TypeFacts DEF TypeOK, Row, Complete, SetDone
  <2> HIDE DEF k
  <2>3. /\ Phase' = [Phase EXCEPT ![k] = "settled"]
        /\ Grants' = Grants
        /\ Result' = [Result EXCEPT ![k] = row[k].leaseEpoch]
    BY <2>1, <2>2, MappedRow, PhaseTable
  <2>4. Ledger!Settle(k)
    BY <2>1, <2>3, MappedFields, PhaseTable DEF Ledger!Settle
  <2> QED BY <2>1, <2>4 DEF k
<1>5. ASSUME NEW p \in Procs, Fail(p)
      PROVE  /\ lease[p].task \in Keys
             /\ Ledger!Abandon(lease[p].task) \/ UNCHANGED Ledger!ledgerVars
  <2> DEFINE k == lease[p].task
  <2>1. /\ k \in Keys
        /\ row[k].state = "claimed"
        /\ row[k].attempts = row[k].leaseEpoch
    BY <1>5, TypeFacts DEF RowConsistent, Fail, Current, Holds
  <2>2. /\ \A j \in Keys \ {k} : row'[j] = row[j]
        /\ row'[k].leaseEpoch = row[k].leaseEpoch
        /\ row'[k].output = row[k].output
        /\ \/ row[k].attempts >= MaxAttempts /\ row'[k].state = "dead"
           \/ row'[k].state = "pending"
    BY <1>5, <2>1, TypeFacts DEF TypeOK, Row, Fail, SetFailed
  <2> HIDE DEF k
  <2>3. UNCHANGED <<Grants, Result>>
    BY <2>1, <2>2, MappedRow
  <2>4. ASSUME row[k].attempts >= MaxAttempts, row'[k].state = "dead"
        PROVE  Ledger!Abandon(k)
    <3>1. Phase' = [Phase EXCEPT ![k] = "abandoned"]
      BY <2>1, <2>2, <2>4, MappedRow, PhaseTable
    <3> QED BY <2>1, <2>3, <2>4, <3>1, MappedFields, PhaseTable DEF Ledger!Abandon
  <2>5. ASSUME row'[k].state = "pending"
        PROVE  UNCHANGED Ledger!ledgerVars
    <3>1. Phase' = Phase
      BY <2>1, <2>2, <2>5, MappedRow, PhaseTable
    <3> QED BY <2>3, <3>1 DEF Ledger!ledgerVars
  <2> QED BY <2>1, <2>2, <2>4, <2>5 DEF k
<1>6. \/ row' = row
      \/ \E k \in Keys, later \in BOOLEAN : Enqueue(k, later)
      \/ \E p \in Procs, k \in Keys : Claim(p, k)
      \/ \E p \in Procs : Complete(p) \/ Fail(p)
  BY DEF Next, Mature, Lapse, LoseLease, Crash, queueVars, vars
<1> QED BY <1>1, <1>2, <1>3, <1>4, <1>5, <1>6 DEF Ledger!LedgerNext

\* TaskQueue implements JobLedger: whoever submits work sees one result, of
\* the latest lease, that is never revised.
THEOREM QueueImplementsLedger == Spec => ImplementsLedger
<1>1. Init => Ledger!LedgerInit
  BY PhaseTable DEF Init, Ledger!LedgerInit, Phase, Grants, Result
<1>2. QueueInv /\ [Next]_vars => [Ledger!LedgerNext]_(Ledger!ledgerVars)
  BY LedgerStep
<1> QED BY <1>1, <1>2, QueueInvariant, PTL DEF Spec, ImplementsLedger, Ledger!LedgerSpec
=============================================================================
