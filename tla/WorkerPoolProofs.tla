-------------------------- MODULE WorkerPoolProofs --------------------------
(***************************************************************************)
(* Proofs about WorkerPool.tla, for any number of tasks and daemons.       *)
(*                                                                         *)
(* The argument: a run of the loop body is named by its lease, no two runs *)
(* under way have equal names, and no finished run shares its name with    *)
(* one under way, because names come from claim() with a fresh epoch.  So  *)
(* what one run stages and logs is never mistaken for the work of another. *)
(***************************************************************************)
EXTENDS WorkerPool, TaskQueueProofs

Holding == {"running", "failing", "staging", "completing"}

\* The loop holds a lease exactly until it has reported.
LoopHoldsLease ==
    \A p \in Procs : /\ at[p] \in Holding => lease[p] = mine[p]
                     /\ at[p] \notin Holding => lease[p] = NoLease
                     /\ at[p] # "idle" => mine[p] \in Lease

RunsDiffer == \A p, q \in Procs : at[p] # "idle" /\ at[q] # "idle" /\ mine[p] = mine[q] => p = q

Behind(x) == x.epoch <= row[x.task].leaseEpoch

RunsBehindRow == /\ \A p \in Procs : at[p] # "idle" => Behind(mine[p])
                 /\ \A x \in staged : Behind(x)
                 /\ \A kind \in Kinds : \A x \in logged[kind] : Behind(x)

LoggedRunsEnded == \A kind \in Kinds : \A x \in logged[kind] : ~InProgress(x)

\* What the place in the loop says about the stores.
PlaceTellsStores ==
    \A p \in Procs : /\ at[p] \in {"running", "failing", "reportFailed"} => mine[p] \notin staged
                     /\ at[p] = "completing" /\ Gated => mine[p] \in staged
                     /\ at[p] = "reportDone" => KeptOutput(mine[p])

\* Every proposal is decided, kept, still in the hands of its run, or orphaned
\* by a crash.
StagedIsCovered ==
    \A x \in staged : x \in approved \cup rejected \cup crashed \/ KeptOutput(x) \/ InProgress(x)

LoopInv == /\ PoolTypeOK
           /\ LoopHoldsLease /\ RunsDiffer /\ RunsBehindRow /\ LoggedRunsEnded
           /\ PlaceTellsStores /\ DoneHasProposal /\ LogMatchesQueue /\ StagedIsCovered

PoolInv == QueueInv /\ LoopInv

-----------------------------------------------------------------------------
(* Seen from the queue. *)

\* Every step of the pool is a step of the queue, or leaves it alone.
LEMMA PoolStepIsQueueStep ==
    ASSUME [PoolNext]_allVars
    PROVE  [Next]_vars
<1>1. CASE Environment
  BY <1>1 DEF Environment, Next
<1>2. ASSUME NEW p \in Procs, NEW k \in Keys, Take(p, k) PROVE Next
  BY <1>2 DEF Take, Next
<1>3. ASSUME NEW p \in Procs, Body(p) PROVE Next \/ UNCHANGED vars
  BY <1>3 DEF Body, RunFails, RunSucceeds, Stage, ReportSuccess, LogCompleted,
              RejectOwn, ReportFailure, LogFailed, Next
<1>4. ASSUME NEW p \in Procs, Die(p) PROVE Next \/ UNCHANGED vars
  BY <1>4 DEF Die, Next
<1>5. ASSUME NEW x \in staged, Approve(x) \/ Reject(x) PROVE UNCHANGED vars
  BY <1>5 DEF Approve, Reject
<1>6. CASE UNCHANGED allVars
  BY <1>6 DEF allVars
<1> QED BY <1>1, <1>2, <1>3, <1>4, <1>5, <1>6 DEF PoolNext

\* The daemon touches the queue only through its fenced calls: the pool
\* implements the task queue, so all that is proved of fenced workers holds.
THEOREM PoolQueueBehaviour == PoolSpec => QueueBehaviour
<1>1. PoolInit => Init
  BY DEF PoolInit
<1>2. [PoolNext]_allVars => [Next]_vars
  BY PoolStepIsQueueStep
<1> QED BY <1>1, <1>2, PTL DEF PoolSpec, Spec, QueueBehaviour

\* Epochs only grow, and settled rows stay.
LEMMA RowsOnlyGrow ==
    ASSUME QueueInv, [Next]_vars, NEW x \in Lease
    PROVE  /\ Behind(x) => Behind(x)'
           /\ KeptOutput(x) => KeptOutput(x)'
<1> DEFINE k == x.task
<1>1. k \in Keys /\ x.epoch \in Nat
  BY DEF Lease
<1>2. row[k].leaseEpoch \in Nat /\ row[k].leaseEpoch <= row'[k].leaseEpoch /\ row'[k].leaseEpoch \in Nat
  <2>1. TypeOK'
    BY TypeStep DEF QueueInv, FenceInv
  <2>2. row[k].leaseEpoch \in Nat /\ row'[k].leaseEpoch \in Nat
    BY <1>1, <2>1 DEF TypeOK, Row, QueueInv, FenceInv
  <2>3. ASSUME NEW j \in Keys, NEW p \in Procs, Claim(p, j) PROVE row[k].leaseEpoch <= row'[k].leaseEpoch
    BY <1>1, <2>2, <2>3 DEF QueueInv, FenceInv, TypeOK, Row, Claim, ClaimRow
  <2>4. ASSUME row'[k].leaseEpoch = row[k].leaseEpoch PROVE row[k].leaseEpoch <= row'[k].leaseEpoch
    BY <2>2, <2>4
  <2>5. ASSUME NEW j \in Keys, NEW later \in BOOLEAN, Enqueue(j, later) PROVE row'[k].leaseEpoch = row[k].leaseEpoch
    BY <1>1, <2>5, TypeFacts DEF QueueInv, FenceInv, TypeOK, Row, Enqueue
  <2>6. ASSUME NEW p \in Procs, Complete(p) \/ Fail(p) PROVE row'[k].leaseEpoch = row[k].leaseEpoch
    <3>1. lease[p].task \in Keys
      BY <2>6, TypeFacts DEF QueueInv, FenceInv, Complete, Fail, Current
    <3>2. /\ \A j \in Keys \ {lease[p].task} : row'[j] = row[j]
          /\ row'[lease[p].task].leaseEpoch = row[lease[p].task].leaseEpoch
      BY <2>6, <3>1, TypeFacts DEF QueueInv, FenceInv, TypeOK, Row, Complete, SetDone, Fail, SetFailed
    <3> QED BY <1>1, <3>2
  <2>7. \/ row' = row
        \/ \E j \in Keys, later \in BOOLEAN : Enqueue(j, later)
        \/ \E p \in Procs, j \in Keys : Claim(p, j)
        \/ \E p \in Procs : Complete(p) \/ Fail(p)
    BY DEF Next, Mature, Lapse, LoseLease, Crash, queueVars, vars
  <2> QED BY <2>2, <2>3, <2>4, <2>5, <2>6, <2>7
<1>3. Behind(x) => Behind(x)'
  BY <1>1, <1>2 DEF Behind
<1>4. KeptOutput(x) => KeptOutput(x)'
  BY <1>1, FinalStep DEF KeptOutput, QueueInv, FenceInv
<1> QED BY <1>3, <1>4

\* The same for all leases, with the types of what the loop remembers.
LEMMA PoolFacts ==
    ASSUME PoolInv
    PROVE  /\ TypeOK
           /\ \A p \in Procs : at[p] # "idle" => mine[p] \in Lease /\ mine[p] # NoLease
           /\ staged \subseteq Lease
           /\ \A kind \in Kinds : logged[kind] \subseteq Lease
           /\ \A x \in Lease : x.task \in Keys /\ x.epoch \in Nat
           /\ "idle" \in Places
<1>1. /\ TypeOK
      /\ staged \subseteq Lease
      /\ \A kind \in Kinds : logged[kind] \subseteq Lease
  BY DEF PoolInv, QueueInv, FenceInv, LoopInv, PoolTypeOK
<1>2. \A p \in Procs : at[p] # "idle" => mine[p] \in Lease /\ mine[p] # NoLease
  BY QueueAssumption DEF PoolInv, LoopInv, LoopHoldsLease, Lease
<1>3. \A x \in Lease : x.task \in Keys /\ x.epoch \in Nat
  BY DEF Lease
<1> QED BY <1>1, <1>2, <1>3 DEF Places

\* A run stays behind its row, and a kept output is kept.
LEMMA PoolGrows ==
    ASSUME PoolInv, [Next]_vars
    PROVE  \A x \in Lease :
              /\ x.epoch <= row[x.task].leaseEpoch => x.epoch <= row'[x.task].leaseEpoch
              /\ row[x.task].state = "done" /\ row[x.task].output = x.epoch
                    => row'[x.task].state = "done" /\ row'[x.task].output = x.epoch
BY RowsOnlyGrow DEF PoolInv, Behind, KeptOutput

-----------------------------------------------------------------------------
(* One lemma per group of actions. *)

\* What holds of the stores when a step settles no row and changes neither the
\* proposals nor the log.
LEMMA StoresStay ==
    ASSUME PoolInv, [Next]_vars, UNCHANGED <<staged, logged>>,
           \A k \in Keys : row'[k].state = "done" => row[k].state = "done"
    PROVE  DoneHasProposal' /\ LogMatchesQueue'
<1>1. \A k \in Keys : row[k].state = "done" => row'[k] = row[k]
  BY FinalStep DEF PoolInv, QueueInv, FenceInv
<1>2. DoneHasProposal'
  BY <1>1 DEF PoolInv, LoopInv, DoneHasProposal
<1>3. \A x \in logged["completed"] : x.task \in Keys
  BY PoolFacts DEF Kinds
<1>4. LogMatchesQueue'
  BY <1>1, <1>3 DEF PoolInv, LoopInv, LogMatchesQueue
<1> QED BY <1>2, <1>4

\* Submissions and the passage of time do not concern the loop.
LEMMA EnvironmentStep ==
    ASSUME PoolInv, Environment
    PROVE  LoopInv'
<1>1. [Next]_vars
  BY DEF Environment, Next
<1>2. UNCHANGED poolVars /\ lease' = lease
  BY DEF Environment, Enqueue, Mature, Lapse
<1>3. \A k \in Keys : row'[k].state = "done" => row[k].state = "done"
  <2>1. ASSUME NEW j \in Keys, NEW later \in BOOLEAN, Enqueue(j, later), NEW k \in Keys,
               row'[k].state = "done"
        PROVE  row[k].state = "done"
    BY <2>1, PoolFacts DEF TypeOK, Enqueue
  <2> QED BY <2>1 DEF Environment, Mature, Lapse
<1>4. PoolTypeOK'
  BY <1>1, <1>2, TypeStep, PoolFacts DEF PoolInv, LoopInv, PoolTypeOK, poolVars
<1>5. LoopHoldsLease' /\ RunsDiffer' /\ LoggedRunsEnded'
  BY <1>2 DEF PoolInv, LoopInv, LoopHoldsLease, RunsDiffer, LoggedRunsEnded, InProgress, poolVars
<1>6. RunsBehindRow'
  BY <1>1, <1>2, PoolFacts, PoolGrows DEF PoolInv, LoopInv, RunsBehindRow, poolVars, Behind
<1>7. PlaceTellsStores' /\ StagedIsCovered'
  BY <1>1, <1>2, PoolFacts, PoolGrows DEF PoolInv, LoopInv, PlaceTellsStores, StagedIsCovered, poolVars, InProgress, KeptOutput
<1>8. DoneHasProposal' /\ LogMatchesQueue'
  BY <1>1, <1>2, <1>3, StoresStay DEF poolVars
<1> QED BY <1>4, <1>5, <1>6, <1>7, <1>8 DEF LoopInv

\* claim() starts a run whose name nobody has had.
LEMMA TakeStep ==
    ASSUME PoolInv, NEW p \in Procs, NEW k \in Keys, Take(p, k)
    PROVE  LoopInv'
<1> DEFINE new == [task |-> k, epoch |-> row[k].leaseEpoch + 1]
<1>1. [Next]_vars
  BY DEF Take, Next
<1>2. /\ at[p] = "idle"
      /\ at' = [at EXCEPT ![p] = "running"]
      /\ lease' = [lease EXCEPT ![p] = new]
      /\ mine' = [mine EXCEPT ![p] = new]
      /\ UNCHANGED <<storeVars, logged, crashed>>
      /\ row'[k].state = "claimed"
      /\ row'[k].leaseEpoch = row[k].leaseEpoch + 1
      /\ \A j \in Keys \ {k} : row'[j] = row[j]
  <2>1. /\ row'[k].state = "claimed"
        /\ row'[k].leaseEpoch = row[k].leaseEpoch + 1
        /\ \A j \in Keys \ {k} : row'[j] = row[j]
    BY PoolFacts, TypeFacts DEF Take, Claim, ClaimRow, TypeOK, Row
  <2>2. lease' = [lease EXCEPT ![p] = new] /\ lease'[p] = new
    BY <2>1, PoolFacts DEF Take, Claim, TypeOK
  <2> QED BY <2>1, <2>2 DEF Take, Goto
<1>3. new \in Lease /\ row[k].leaseEpoch \in Nat
  BY PoolFacts, TypeFacts DEF Lease
<1>4. ASSUME NEW x \in Lease, Behind(x) PROVE x # new
  BY <1>3, <1>4, PoolFacts DEF Behind
<1>5. at \in [Procs -> Places] /\ mine \in [Procs -> Lease \cup {NoLease}]
  BY DEF PoolInv, LoopInv, PoolTypeOK
<1>6. /\ at'[p] = "running" /\ mine'[p] = new /\ lease'[p] = new
      /\ \A q \in Procs \ {p} : at'[q] = at[q] /\ mine'[q] = mine[q] /\ lease'[q] = lease[q]
  BY <1>2, <1>5, PoolFacts DEF TypeOK
<1>7. PoolTypeOK'
  BY <1>1, <1>2, <1>3, TypeStep, PoolFacts DEF PoolInv, LoopInv, PoolTypeOK, Places, storeVars
<1>8. LoopHoldsLease'
  BY <1>3, <1>6 DEF PoolInv, LoopInv, LoopHoldsLease, Holding
<1>9. RunsDiffer'
  BY <1>4, <1>6, PoolFacts DEF PoolInv, LoopInv, RunsDiffer, RunsBehindRow
<1>10. new.task = k /\ new.epoch <= row'[k].leaseEpoch
  BY <1>2, <1>3
<1>11. RunsBehindRow'
  BY <1>1, <1>2, <1>6, <1>10, PoolFacts, PoolGrows DEF PoolInv, LoopInv, RunsBehindRow, storeVars, Behind
<1>12. LoggedRunsEnded'
  BY <1>2, <1>4, <1>6, PoolFacts DEF PoolInv, LoopInv, LoggedRunsEnded, InProgress, RunsBehindRow
<1>13. PlaceTellsStores'
  BY <1>1, <1>2, <1>4, <1>6, PoolFacts, PoolGrows DEF PoolInv, LoopInv, PlaceTellsStores, RunsBehindRow, storeVars, KeptOutput
<1>14. StagedIsCovered'
  <2>1. \A x : InProgress(x) => InProgress(x)'
    BY <1>2, <1>6 DEF InProgress
  <2> QED BY <1>1, <1>2, <2>1, PoolFacts, PoolGrows DEF PoolInv, LoopInv, StagedIsCovered, storeVars, KeptOutput
<1>15. DoneHasProposal' /\ LogMatchesQueue'
  BY <1>1, <1>2, StoresStay DEF storeVars
<1> QED BY <1>7, <1>8, <1>9, <1>11, <1>12, <1>13, <1>14, <1>15 DEF LoopInv

\* A run that moves on, keeping its lease as long as it needs it.
LEMMA MoveStep ==
    ASSUME PoolInv, NEW p \in Procs, NEW place \in Places,
           at[p] # "idle", Goto(p, place), mine' = mine,
           place \in Holding => at[p] \in Holding /\ lease' = lease,
           place \notin Holding => lease' = [lease EXCEPT ![p] = NoLease]
    PROVE  /\ at' \in [Procs -> Places]
           /\ at'[p] = place
           /\ \A q \in Procs \ {p} : at'[q] = at[q]
           /\ LoopHoldsLease' /\ RunsDiffer'
           /\ \A x : InProgress(x)' => InProgress(x)
           /\ \A x : InProgress(x) /\ x # mine[p] => InProgress(x)'
           /\ \A x : InProgress(x) /\ place # "idle" => InProgress(x)'
           /\ place = "idle" => ~InProgress(mine[p])'
<1>1. at \in [Procs -> Places]
  BY DEF PoolInv, LoopInv, PoolTypeOK
<1>2. at' \in [Procs -> Places] /\ at'[p] = place /\ \A q \in Procs \ {p} : at'[q] = at[q]
  BY <1>1 DEF Goto
<1>3. LoopHoldsLease'
  <2>1. \A q \in Procs \ {p} : lease'[q] = lease[q]
    BY PoolFacts DEF TypeOK
  <2>2. place \in Holding => lease'[p] = mine'[p]
    BY DEF PoolInv, LoopInv, LoopHoldsLease
  <2>3. place \notin Holding => lease'[p] = NoLease
    BY PoolFacts DEF TypeOK
  <2>4. mine'[p] \in Lease
    BY PoolFacts
  <2> QED BY <1>2, <2>1, <2>2, <2>3, <2>4 DEF PoolInv, LoopInv, LoopHoldsLease
<1>4. RunsDiffer'
  BY <1>2 DEF PoolInv, LoopInv, RunsDiffer
<1>5. \A x : InProgress(x)' => InProgress(x)
  BY <1>2 DEF InProgress
<1>6. \A x : InProgress(x) /\ x # mine[p] => InProgress(x)'
  BY <1>2 DEF InProgress
<1>7. \A x : InProgress(x) /\ place # "idle" => InProgress(x)'
  BY <1>2 DEF InProgress
<1>8. place = "idle" => ~InProgress(mine[p])'
  BY <1>2 DEF InProgress, PoolInv, LoopInv, RunsDiffer
<1> QED BY <1>2, <1>3, <1>4, <1>5, <1>6, <1>7, <1>8

\* The adapter ends; no store is touched.
LEMMA AdapterStep ==
    ASSUME PoolInv, NEW p \in Procs, RunFails(p) \/ RunSucceeds(p)
    PROVE  LoopInv'
<1>1. /\ at[p] = "running" /\ UNCHANGED <<vars, mine, storeVars, logged, crashed>>
      /\ \E there \in {"failing", "staging", "completing"} :
            Goto(p, there) /\ (there = "completing" => ~Gated)
  BY GatedAssumption DEF RunFails, RunSucceeds
<1>2. PICK there \in {"failing", "staging", "completing"} :
            Goto(p, there) /\ (there = "completing" => ~Gated)
  BY <1>1
<1>3. there \in Places /\ there \in Holding /\ at[p] \in Holding /\ there # "idle"
  BY <1>1 DEF Places, Holding
<1>4. lease' = lease /\ row' = row /\ [Next]_vars
  BY <1>1 DEF vars
<1>5. /\ at' \in [Procs -> Places]
      /\ at'[p] = there
      /\ \A q \in Procs \ {p} : at'[q] = at[q]
      /\ LoopHoldsLease' /\ RunsDiffer'
      /\ \A x : InProgress(x)' <=> InProgress(x)
  BY <1>1, <1>2, <1>3, <1>4, MoveStep
<1>6. PoolTypeOK'
  BY <1>1, <1>4, <1>5, TypeStep, PoolFacts DEF PoolInv, LoopInv, PoolTypeOK, storeVars
<1>7. RunsBehindRow' /\ LoggedRunsEnded'
  BY <1>1, <1>4, <1>5 DEF PoolInv, LoopInv, RunsBehindRow, LoggedRunsEnded, Behind, storeVars
<1>8. PlaceTellsStores'
  BY <1>1, <1>2, <1>4, <1>5 DEF PoolInv, LoopInv, PlaceTellsStores, KeptOutput, storeVars
<1>9. StagedIsCovered'
  BY <1>1, <1>4, <1>5 DEF PoolInv, LoopInv, StagedIsCovered, KeptOutput, storeVars
<1>10. DoneHasProposal' /\ LogMatchesQueue'
  BY <1>1, <1>4 DEF PoolInv, LoopInv, DoneHasProposal, LogMatchesQueue, storeVars
<1> QED BY <1>5, <1>6, <1>7, <1>8, <1>9, <1>10 DEF LoopInv

\* The proposal is written while the run is under way.
LEMMA StageStep ==
    ASSUME PoolInv, NEW p \in Procs, Stage(p)
    PROVE  LoopInv'
<1>1. /\ at[p] = "staging" /\ Goto(p, "completing") /\ staged' = staged \cup {mine[p]}
      /\ UNCHANGED <<vars, mine, approved, rejected, byWorker, logged, crashed>>
  BY DEF Stage
<1>2. "completing" \in Places /\ "completing" \in Holding /\ at[p] \in Holding
  BY <1>1 DEF Places, Holding
<1>3. lease' = lease /\ row' = row /\ [Next]_vars
  BY <1>1 DEF vars
<1>4. /\ at' \in [Procs -> Places]
      /\ at'[p] = "completing"
      /\ \A q \in Procs \ {p} : at'[q] = at[q]
      /\ LoopHoldsLease' /\ RunsDiffer'
      /\ \A x : InProgress(x)' <=> InProgress(x)
  BY <1>1, <1>2, <1>3, MoveStep
<1>5. mine[p] \in Lease /\ InProgress(mine[p])
  BY <1>1, PoolFacts DEF InProgress
<1>6. PoolTypeOK'
  BY <1>1, <1>3, <1>4, <1>5, TypeStep, PoolFacts DEF PoolInv, LoopInv, PoolTypeOK
<1>7. RunsBehindRow' /\ LoggedRunsEnded'
  BY <1>1, <1>3, <1>4 DEF PoolInv, LoopInv, RunsBehindRow, LoggedRunsEnded, Behind
<1>8. PlaceTellsStores'
  <2> SUFFICES ASSUME NEW q \in Procs
               PROVE  /\ at'[q] \in {"running", "failing", "reportFailed"} => mine[q] \notin staged'
                      /\ at'[q] = "completing" /\ Gated => mine[q] \in staged'
                      /\ at'[q] = "reportDone" => KeptOutput(mine[q])
    BY <1>1, <1>3 DEF PlaceTellsStores, KeptOutput
  <2>1. CASE q = p
    BY <1>1, <1>4, <2>1
  <2>2. CASE q # p
    BY <1>1, <1>4, <2>2 DEF PoolInv, LoopInv, PlaceTellsStores, RunsDiffer
  <2> QED BY <2>1, <2>2
<1>9. StagedIsCovered'
  BY <1>1, <1>3, <1>4, <1>5 DEF PoolInv, LoopInv, StagedIsCovered, KeptOutput
<1>10. DoneHasProposal' /\ LogMatchesQueue'
  BY <1>1, <1>3 DEF PoolInv, LoopInv, DoneHasProposal, LogMatchesQueue
<1> QED BY <1>4, <1>6, <1>7, <1>8, <1>9, <1>10 DEF LoopInv

\* The task is settled with the epoch of the run, or the lease is found lost.
LEMMA ReportSuccessStep ==
    ASSUME PoolInv, NEW p \in Procs, ReportSuccess(p)
    PROVE  LoopInv'
<1>1. /\ at[p] = "completing" /\ UNCHANGED <<mine, storeVars, logged, crashed>>
      /\ lease' = [lease EXCEPT ![p] = NoLease]
      /\ [Next]_vars
  BY DEF ReportSuccess, Complete, LoseLease, DropLease, Next
<1>2. mine[p] \in Lease /\ lease[p] = mine[p] /\ (Gated => mine[p] \in staged)
  BY <1>1, PoolFacts DEF PoolInv, LoopInv, LoopHoldsLease, Holding, PlaceTellsStores
<1>3. PICK place \in {"reportDone", "rejecting"} :
         /\ Goto(p, place)
         /\ \/ place = "reportDone" /\ Complete(p)
            \/ place = "rejecting" /\ LoseLease(p)
  BY DEF ReportSuccess
<1>4. place \in Places /\ place \notin Holding /\ place # "idle"
  BY DEF Places, Holding
<1>5. /\ at' \in [Procs -> Places]
      /\ at'[p] = place
      /\ \A q \in Procs \ {p} : at'[q] = at[q]
      /\ LoopHoldsLease' /\ RunsDiffer'
      /\ \A x : InProgress(x)' <=> InProgress(x)
  BY <1>1, <1>3, <1>4, MoveStep
<1>6. /\ place = "reportDone" => /\ row'[mine[p].task].state = "done"
                                 /\ row'[mine[p].task].output = mine[p].epoch
      /\ \A k \in Keys : k # mine[p].task => row'[k] = row[k]
      /\ place = "rejecting" => row' = row
  BY <1>2, <1>3, PoolFacts, TypeFacts DEF Complete, SetDone, LoseLease, queueVars, TypeOK, Row
<1>7. PoolTypeOK'
  BY <1>1, <1>5, TypeStep, PoolFacts DEF PoolInv, LoopInv, PoolTypeOK, storeVars
<1>8. RunsBehindRow' /\ LoggedRunsEnded'
  BY <1>1, <1>5, PoolFacts, PoolGrows DEF PoolInv, LoopInv, RunsBehindRow, LoggedRunsEnded, Behind, storeVars
<1>9. PlaceTellsStores'
  <2> SUFFICES ASSUME NEW q \in Procs
               PROVE  /\ at'[q] \in {"running", "failing", "reportFailed"} => mine[q] \notin staged
                      /\ at'[q] = "completing" /\ Gated => mine[q] \in staged
                      /\ at'[q] = "reportDone" => /\ row'[mine[q].task].state = "done"
                                                  /\ row'[mine[q].task].output = mine[q].epoch
    BY <1>1 DEF PlaceTellsStores, KeptOutput, storeVars
  <2>1. CASE q = p
    BY <1>3, <1>5, <1>6, <2>1
  <2>2. CASE q # p
    BY <1>1, <1>5, <2>2, PoolFacts, PoolGrows DEF PoolInv, LoopInv, PlaceTellsStores, KeptOutput
  <2> QED BY <2>1, <2>2
<1>10. StagedIsCovered'
  BY <1>1, <1>5, PoolFacts, PoolGrows DEF PoolInv, LoopInv, StagedIsCovered, KeptOutput, storeVars
<1>11. DoneHasProposal'
  <2> SUFFICES ASSUME Gated, NEW k \in Keys, row'[k].state = "done"
               PROVE  [task |-> k, epoch |-> row'[k].output] \in staged
    BY <1>1 DEF DoneHasProposal, storeVars
  <2>1. CASE place = "reportDone" /\ k = mine[p].task
    BY <1>2, <1>6, <2>1 DEF Lease
  <2>2. CASE ~(place = "reportDone" /\ k = mine[p].task)
    BY <1>3, <1>6, <2>2 DEF PoolInv, LoopInv, DoneHasProposal
  <2> QED BY <2>1, <2>2
<1>12. LogMatchesQueue'
  BY <1>1, PoolFacts, PoolGrows DEF PoolInv, LoopInv, LogMatchesQueue, storeVars, Kinds
<1> QED BY <1>5, <1>7, <1>8, <1>9, <1>10, <1>11, <1>12 DEF LoopInv

\* The end of a run that has reported: one event, no change of the queue.
LEMMA LogStep ==
    ASSUME PoolInv, NEW p \in Procs, LogCompleted(p) \/ LogFailed(p) \/ RejectOwn(p)
    PROVE  LoopInv'
<1>1. /\ at[p] \in {"reportDone", "reportFailed", "rejecting"} /\ Goto(p, "idle")
      /\ UNCHANGED <<vars, mine, staged, crashed>>
  BY DEF LogCompleted, LogFailed, RejectOwn, storeVars
<1>2. /\ at[p] # "idle" /\ lease[p] = NoLease /\ mine[p] \in Lease /\ InProgress(mine[p])
      /\ "idle" \notin Holding
  BY <1>1, PoolFacts DEF Holding, PoolInv, LoopInv, LoopHoldsLease, InProgress
<1>3. /\ lease' = [lease EXCEPT ![p] = NoLease] /\ lease' = lease /\ row' = row /\ [Next]_vars
  BY <1>1, <1>2, PoolFacts DEF vars, TypeOK
<1>4. /\ at' \in [Procs -> Places]
      /\ at'[p] = "idle"
      /\ \A q \in Procs \ {p} : at'[q] = at[q]
      /\ LoopHoldsLease' /\ RunsDiffer'
      /\ \A x : InProgress(x)' => InProgress(x)
      /\ \A x : InProgress(x) /\ x # mine[p] => InProgress(x)'
      /\ ~InProgress(mine[p])'
  BY <1>1, <1>2, <1>3, PoolFacts, MoveStep
<1>5. PICK kind \in Kinds :
         /\ logged' = [logged EXCEPT ![kind] = @ \cup {mine[p]}]
         /\ kind = "completed" => KeptOutput(mine[p])
  BY DEF LogCompleted, LogFailed, RejectOwn, Log, Kinds, PoolInv, LoopInv, PlaceTellsStores
<1>6. /\ logged' \in [Kinds -> SUBSET Lease]
      /\ \A other \in Kinds : logged'[other] = IF other = kind THEN logged[other] \cup {mine[p]}
                                                  ELSE logged[other]
  BY <1>2, <1>5 DEF PoolInv, LoopInv, PoolTypeOK
<1>7. /\ approved \cup rejected \subseteq approved' \cup rejected'
      /\ approved' \subseteq staged /\ rejected' \subseteq staged
      /\ approved' \cap rejected' = {} /\ byWorker' \subseteq rejected'
      /\ mine[p] \in staged => mine[p] \in approved' \cup rejected' \/ KeptOutput(mine[p])
  BY <1>1 DEF LogCompleted, LogFailed, RejectOwn, storeVars, PoolInv, LoopInv, PoolTypeOK, PlaceTellsStores
<1>8. PoolTypeOK'
  BY <1>1, <1>3, <1>4, <1>6, <1>7, TypeStep, PoolFacts DEF PoolInv, LoopInv, PoolTypeOK
<1>9. RunsBehindRow' /\ LoggedRunsEnded'
  BY <1>1, <1>2, <1>3, <1>4, <1>6 DEF PoolInv, LoopInv, RunsBehindRow, LoggedRunsEnded, Behind
<1>10. PlaceTellsStores'
  BY <1>1, <1>3, <1>4 DEF PoolInv, LoopInv, PlaceTellsStores, KeptOutput
<1>11. StagedIsCovered'
  BY <1>1, <1>3, <1>4, <1>7 DEF PoolInv, LoopInv, StagedIsCovered, KeptOutput
<1>12. DoneHasProposal'
  BY <1>1, <1>3 DEF PoolInv, LoopInv, DoneHasProposal
<1>13. LogMatchesQueue'
  <2>1. \A other \in Kinds : mine[p] \notin logged[other]
    BY <1>2 DEF PoolInv, LoopInv, LoggedRunsEnded
  <2> QED BY <1>3, <1>5, <1>6, <2>1 DEF PoolInv, LoopInv, LogMatchesQueue, KeptOutput, Kinds
<1> QED BY <1>4, <1>8, <1>9, <1>10, <1>11, <1>12, <1>13 DEF LoopInv

\* A run that ends or goes on without settling its task and without touching
\* the proposals; what it may add to the log is not a completion.
LEMMA UnsettledStep ==
    ASSUME PoolInv, [Next]_vars, NEW p \in Procs, NEW place \in {"idle", "reportFailed"},
           at[p] # "idle", Goto(p, place), lease' = [lease EXCEPT ![p] = NoLease],
           UNCHANGED <<mine, storeVars>>,
           \A k \in Keys : row'[k].state = "done" => row[k].state = "done",
           place = "reportFailed" => logged' = logged /\ mine[p] \notin staged,
           mine[p] \notin staged \/ mine[p] \in crashed',
           crashed \subseteq crashed' /\ crashed' \subseteq crashed \cup {mine[p]},
           logged' = logged \/ logged' = [logged EXCEPT !["lost"] = @ \cup {mine[p]}]
    PROVE  LoopInv'
<1>1. mine[p] \in Lease /\ InProgress(mine[p]) /\ place \in Places /\ place \notin Holding
  BY PoolFacts DEF InProgress, Places, Holding
<1>2. /\ at' \in [Procs -> Places]
      /\ at'[p] = place
      /\ \A q \in Procs \ {p} : at'[q] = at[q]
      /\ LoopHoldsLease' /\ RunsDiffer'
      /\ \A x : InProgress(x)' => InProgress(x)
      /\ \A x : InProgress(x) /\ x # mine[p] => InProgress(x)'
      /\ \A x : InProgress(x) /\ place # "idle" => InProgress(x)'
      /\ place = "idle" => ~InProgress(mine[p])'
  BY <1>1, MoveStep
<1>3. /\ logged' \in [Kinds -> SUBSET Lease]
      /\ \A kind \in Kinds : logged'[kind] \subseteq logged[kind] \cup {mine[p]}
      /\ place = "reportFailed" => \A kind \in Kinds : logged'[kind] = logged[kind]
      /\ logged'["completed"] = logged["completed"] /\ "completed" \in Kinds
  BY <1>1 DEF PoolInv, LoopInv, PoolTypeOK, Kinds
<1>4. PoolTypeOK'
  BY <1>1, <1>2, <1>3, TypeStep, PoolFacts DEF PoolInv, LoopInv, PoolTypeOK, storeVars
<1>5. RunsBehindRow'
  BY <1>1, <1>2, <1>3, PoolFacts, PoolGrows DEF PoolInv, LoopInv, RunsBehindRow, Behind, storeVars
<1>6. LoggedRunsEnded'
  BY <1>1, <1>2, <1>3 DEF PoolInv, LoopInv, LoggedRunsEnded
<1>7. PlaceTellsStores'
  <2> SUFFICES ASSUME NEW q \in Procs
               PROVE  /\ at'[q] \in {"running", "failing", "reportFailed"} => mine[q] \notin staged
                      /\ at'[q] = "completing" /\ Gated => mine[q] \in staged
                      /\ at'[q] = "reportDone" => /\ row'[mine[q].task].state = "done"
                                                  /\ row'[mine[q].task].output = mine[q].epoch
    BY DEF PlaceTellsStores, KeptOutput, storeVars
  <2>1. CASE q = p
    BY <1>2, <2>1
  <2>2. CASE q # p
    BY <1>2, <2>2, PoolFacts, PoolGrows DEF PoolInv, LoopInv, PlaceTellsStores, KeptOutput
  <2> QED BY <2>1, <2>2
<1>8. StagedIsCovered'
  BY <1>1, <1>2, PoolFacts, PoolGrows DEF PoolInv, LoopInv, StagedIsCovered, KeptOutput, storeVars
<1>9. DoneHasProposal'
  BY FinalStep, PoolFacts DEF PoolInv, LoopInv, DoneHasProposal, storeVars
<1>10. LogMatchesQueue'
  <2> SUFFICES ASSUME NEW x \in logged["completed"]
               PROVE  /\ row'[x.task].state = "done" /\ row'[x.task].output = x.epoch
                      /\ x \notin logged'["failed"] \cup logged'["lost"]
    BY <1>3 DEF LogMatchesQueue
  <2>1. x \in Lease /\ x # mine[p]
    BY <1>1, <1>3, PoolFacts DEF PoolInv, LoopInv, LoggedRunsEnded
  <2>2. row'[x.task].state = "done" /\ row'[x.task].output = x.epoch
    BY <2>1, PoolGrows DEF PoolInv, LoopInv, LogMatchesQueue
  <2> QED BY <1>3, <2>1, <2>2 DEF PoolInv, LoopInv, LogMatchesQueue, Kinds
<1> QED BY <1>2, <1>4, <1>5, <1>6, <1>7, <1>8, <1>9, <1>10 DEF LoopInv

\* A failure is reported, or the lease is found lost.
LEMMA ReportFailureStep ==
    ASSUME PoolInv, NEW p \in Procs, ReportFailure(p)
    PROVE  LoopInv'
<1>1. /\ at[p] = "failing" /\ UNCHANGED <<mine, storeVars, crashed>>
      /\ lease' = [lease EXCEPT ![p] = NoLease] /\ [Next]_vars
  BY DEF ReportFailure, Fail, LoseLease, DropLease, Next
<1>2. mine[p] \notin staged
  BY <1>1 DEF PoolInv, LoopInv, PlaceTellsStores
<1>3. CASE LoseLease(p) /\ Log("lost", p) /\ Goto(p, "idle")
  <2>1. row' = row
    BY <1>3 DEF LoseLease, queueVars
  <2> QED BY <1>1, <1>2, <1>3, <2>1, UnsettledStep DEF Log
<1>4. CASE Fail(p) /\ Goto(p, "reportFailed") /\ UNCHANGED logged
  <2>1. ASSUME NEW k \in Keys, row'[k].state = "done" PROVE row[k].state = "done"
    <3>1. lease[p].task \in Keys
      BY <1>4, PoolFacts, TypeFacts DEF Fail, Current
    <3>2. /\ \A j \in Keys \ {lease[p].task} : row'[j] = row[j]
          /\ row'[lease[p].task].state \in {"dead", "pending"}
      BY <1>4, <3>1, PoolFacts, TypeFacts DEF Fail, SetFailed, TypeOK, Row
    <3> QED BY <2>1, <3>2
  <2> QED BY <1>1, <1>2, <1>4, <2>1, UnsettledStep
<1> QED BY <1>3, <1>4 DEF ReportFailure

\* A process that dies leaves its run among the crashed ones.
LEMMA DieStep ==
    ASSUME PoolInv, NEW p \in Procs, Die(p)
    PROVE  LoopInv'
<1>1. /\ at[p] # "idle" /\ UNCHANGED <<mine, storeVars, logged>>
      /\ crashed' = crashed \cup {mine[p]} /\ Goto(p, "idle")
      /\ row' = row /\ [Next]_vars
  BY DEF Die, Crash, Next, vars, queueVars
<1>2. lease' = [lease EXCEPT ![p] = NoLease]
  BY PoolFacts DEF Die, Crash, DropLease, vars, TypeOK
<1> QED BY <1>1, <1>2, UnsettledStep

\* A person decides.
LEMMA DecideStep ==
    ASSUME PoolInv, NEW x \in staged, Approve(x) \/ Reject(x)
    PROVE  LoopInv'
<1>1. UNCHANGED <<vars, at, mine, staged, logged, crashed>> /\ row' = row /\ lease' = lease
  BY DEF Approve, Reject, vars
<1>2. /\ approved \cup rejected \subseteq approved' \cup rejected'
      /\ approved' \subseteq staged /\ rejected' \subseteq staged
      /\ approved' \cap rejected' = {} /\ byWorker' \subseteq rejected'
  BY DEF Approve, Reject, PoolInv, LoopInv, PoolTypeOK
<1>3. PoolTypeOK'
  BY <1>1, <1>2, TypeStep, PoolFacts DEF PoolInv, LoopInv, PoolTypeOK
<1>4. LoopHoldsLease' /\ RunsDiffer' /\ RunsBehindRow' /\ LoggedRunsEnded'
  BY <1>1 DEF PoolInv, LoopInv, LoopHoldsLease, RunsDiffer, RunsBehindRow, LoggedRunsEnded, InProgress, Behind
<1>5. PlaceTellsStores' /\ DoneHasProposal' /\ LogMatchesQueue'
  BY <1>1 DEF PoolInv, LoopInv, PlaceTellsStores, DoneHasProposal, LogMatchesQueue, KeptOutput
<1>6. StagedIsCovered'
  BY <1>1, <1>2 DEF PoolInv, LoopInv, StagedIsCovered, InProgress, KeptOutput
<1> QED BY <1>3, <1>4, <1>5, <1>6 DEF LoopInv

-----------------------------------------------------------------------------
(* The theorems. *)

\* The stores agree with each other wherever daemons stall and die.
THEOREM PoolInvariant == PoolSpec => []PoolInv
<1>1. PoolInit => PoolInv
  <2> SUFFICES ASSUME PoolInit PROVE PoolInv
    OBVIOUS
  <2>1. TypeOK
    BY QueueAssumption DEF PoolInit, Init, TypeOK, Row, States
  <2>2. QueueInv
    BY <2>1 DEF PoolInit, QueueInv, FenceInv, Init, LeaseBehindRow, LeasesDiffer, RowConsistent
  <2>3. PoolTypeOK /\ LoopHoldsLease
    BY <2>1 DEF PoolInit, Init, PoolTypeOK, LoopHoldsLease, Places, Kinds, Holding
  <2>4. RunsDiffer /\ RunsBehindRow /\ LoggedRunsEnded /\ PlaceTellsStores /\ StagedIsCovered
    BY DEF PoolInit, RunsDiffer, RunsBehindRow, LoggedRunsEnded, PlaceTellsStores, StagedIsCovered
  <2>5. DoneHasProposal /\ LogMatchesQueue
    BY DEF PoolInit, Init, DoneHasProposal, LogMatchesQueue, Kinds
  <2> QED BY <2>2, <2>3, <2>4, <2>5 DEF PoolInv, LoopInv
<1>2. PoolInv /\ [PoolNext]_allVars => PoolInv'
  <2> SUFFICES ASSUME PoolInv, [PoolNext]_allVars PROVE PoolInv'
    OBVIOUS
  <2>1. QueueInv'
    BY PoolStepIsQueueStep, QueueInvStep DEF PoolInv
  <2>2. LoopInv'
    <3>1. ASSUME NEW p \in Procs, Body(p) PROVE LoopInv'
      BY <3>1, AdapterStep, StageStep, ReportSuccessStep, LogStep, ReportFailureStep DEF Body
    <3>2. CASE UNCHANGED allVars
      BY <3>2 DEF allVars, vars, poolVars, PoolInv, LoopInv, PoolTypeOK, TypeOK, LoopHoldsLease, RunsDiffer,
                  RunsBehindRow, Behind, LoggedRunsEnded, InProgress, PlaceTellsStores,
                  KeptOutput, DoneHasProposal, LogMatchesQueue, StagedIsCovered
    <3> QED BY <3>1, <3>2, EnvironmentStep, TakeStep, DieStep, DecideStep DEF PoolNext
  <2> QED BY <2>1, <2>2 DEF PoolInv
<1> QED BY <1>1, <1>2, PTL DEF PoolSpec

\* Stores and loops are well typed.
THEOREM PoolTypes == PoolSpec => []PoolTypeOK
<1>1. PoolInv => PoolTypeOK
  BY DEF PoolInv, LoopInv
<1> QED BY <1>1, PoolInvariant, PTL

\* In a gated lane, whatever a daemon survives, a done task has the proposal
\* of the run that settled it.
THEOREM PoolDoneHasProposal == PoolSpec => []DoneHasProposal
<1>1. PoolInv => DoneHasProposal
  BY DEF PoolInv, LoopInv
<1> QED BY <1>1, PoolInvariant, PTL

\* A completed event is that of the run whose output the queue keeps, and of no
\* run that is also logged as failed or lost.
THEOREM PoolLogMatchesQueue == PoolSpec => []LogMatchesQueue
<1>1. PoolInv => LogMatchesQueue
  BY DEF PoolInv, LoopInv
<1> QED BY <1>1, PoolInvariant, PTL

\* A proposal that waits for a person although its output was dropped comes
\* from a crashed run.
THEOREM PoolOrphansOnlyFromCrashes == PoolSpec => []OrphansOnlyFromCrashes
<1>1. PoolInv => OrphansOnlyFromCrashes
  BY DEF PoolInv, LoopInv, StagedIsCovered, OrphansOnlyFromCrashes, Orphan, Pending
<1> QED BY <1>1, PoolInvariant, PTL

\* Both together: the proposal table and the queue agree wherever daemons stall
\* or die.
THEOREM PoolProposalsMatchQueue == PoolSpec => []ProposalsMatchQueue
<1>1. DoneHasProposal /\ OrphansOnlyFromCrashes => ProposalsMatchQueue
  BY DEF ProposalsMatchQueue
<1> QED BY <1>1, PoolDoneHasProposal, PoolOrphansOnlyFromCrashes, PTL
=============================================================================
