---------------------------- MODULE OperationGate ----------------------------
(***************************************************************************)
(* One request on its way through the control plane: OperationRunner.run   *)
(* (src/omni_hub/runner.py) asks the policy (policy.py), looks the handler *)
(* up (registry.py), runs it and appends to the audit file (audit.py) as   *)
(* it goes.  A request comes from the command line or MCP and runs once,   *)
(* or it is the packet of a queued task (workers/builtin.py), and then     *)
(* every attempt of the task is an operation with an id of its own.        *)
(*                                                                         *)
(* Daemons stall and die between any two appends; the queue lets only the  *)
(* latest attempt report (TaskQueue.tla).  No caller sets the explicit     *)
(* approval and sandbox flags of a spec, so they are left out.  Previews   *)
(* are requested at the command line only, of operations that honour them. *)
(* A packet that names no operation never reaches the runner.              *)
(***************************************************************************)
EXTENDS Naturals

CONSTANTS Runners,        \* processes that run operations
          MaxAttempts,    \* tasks.max_attempts
          MaxOps,         \* bound: operations started
          Sandboxed       \* OperationRunner.sandbox_enabled

ASSUME GateAssumption == MaxAttempts \in Nat \ {0} /\ MaxOps \in Nat /\ Sandboxed \in BOOLEAN

VARIABLES request,   \* what is asked for
          task,      \* state of the task of a queued request
          lapsed,    \* its claim is older than the visibility timeout
          ops,       \* operations started so far, the newest is number ops
          op,        \* op[r]: the operation that r works on
          at,        \* at[r]: what r does next
          answer,    \* answer[r]: OperationStatus that r has to report
          trail,     \* trail[o]: event types in the audit file for operation o
          effect     \* effect[o]: what the handler has changed in operation o

opVars == <<request, task, lapsed, ops, op, at, answer, trail, effect>>

RiskLevel == 0 .. 4   \* READ_ONLY .. SANDBOX_EXECUTION
AutoApproveUntil == 1
RequireApprovalFrom == 3
RequireSandboxFrom == 4

Request == {q \in [risk : RiskLevel, listed : BOOLEAN, approved : BOOLEAN,
                   known : BOOLEAN, queued : BOOLEAN, dryRun : BOOLEAN] :
              q.dryRun => ~q.queued /\ q.risk = 1 /\ q.known}

Operations == 1 .. MaxOps

GateOpen == "policy_evaluated"
Started == {"operation_started", "operation_previewed"}
Succeeded == {"operation_succeeded", "operation_preview_succeeded"}
Refused == {"operation_waiting_approval", "operation_blocked"}
Terminal == Succeeded \cup Refused \cup {"operation_failed"}

OpInit == /\ request \in Request
          /\ task = "pending" /\ lapsed = FALSE
          /\ ops = 0
          /\ op = [r \in Runners |-> 0]
          /\ at = [r \in Runners |-> "idle"]
          /\ answer = [r \in Runners |-> "none"]
          /\ trail = [o \in Operations |-> {}]
          /\ effect = [o \in Operations |-> "none"]

-----------------------------------------------------------------------------
(* PolicyEngine.evaluate, with the default thresholds. *)

\* Mutant: the threshold is off by one.
RequiresApprovalLate(q) ==
    /\ ~q.dryRun
    /\ \/ q.risk > RequireApprovalFrom
       \/ q.risk = 2 /\ ~q.listed

RequiresApproval(q) ==
    /\ ~q.dryRun
    /\ \/ q.risk >= RequireApprovalFrom
       \/ q.risk = 2 /\ ~q.listed            \* EXTERNAL_SEND
       \/ q.risk < 2 /\ q.risk > AutoApproveUntil

RequiresSandbox(q) == q.risk >= RequireSandboxFrom

-----------------------------------------------------------------------------
(* OperationRunner.run, one append to the audit file at a time. *)

RecordEvent(r, event) == trail' = [trail EXCEPT ![op[r]] = @ \cup {event}]
GoTo(r, place) == at' = [at EXCEPT ![r] = place]
Answer(r, status) == answer' = [answer EXCEPT ![r] = status]

\* A daemon claims the task, or the command line is called.
Begin(r) ==
    /\ at[r] = "idle" /\ ops < MaxOps
    /\ IF request.queued THEN task = "pending" \/ (task = "claimed" /\ lapsed) ELSE ops = 0
    /\ ops' = ops + 1
    /\ op' = [op EXCEPT ![r] = ops + 1]
    /\ task' = "claimed" /\ lapsed' = FALSE
    /\ GoTo(r, "evaluate") /\ Answer(r, "none")
    /\ UNCHANGED <<request, trail, effect>>

Evaluate(r) ==
    /\ at[r] = "evaluate"
    /\ RecordEvent(r, GateOpen)
    /\ GoTo(r, "decide")
    /\ UNCHANGED <<request, task, lapsed, ops, op, answer, effect>>

Stop(r, status, event) == RecordEvent(r, event) /\ Answer(r, status) /\ GoTo(r, "report")

StartedEvent == IF request.dryRun THEN "operation_previewed" ELSE "operation_started"

\* Mutant: an operation is logged when it is over.
DecideUnlogged(r) ==
    /\ at[r] = "decide"
    /\ RequiresApproval(request) => request.approved
    /\ RequiresSandbox(request) => Sandboxed
    /\ request.known
    /\ GoTo(r, "handle")
    /\ UNCHANGED <<request, task, lapsed, ops, op, answer, trail, effect>>

Decide(r) ==
    /\ at[r] = "decide"
    /\ LET waits == RequiresApproval(request) /\ ~request.approved
           blocked == RequiresSandbox(request) /\ ~Sandboxed
       IN  \/ waits /\ Stop(r, "waiting_approval", "operation_waiting_approval")
           \/ ~waits /\ blocked /\ Stop(r, "blocked", "operation_blocked")
           \/ ~waits /\ ~blocked /\ ~request.known /\ Stop(r, "failed", "operation_failed")
           \/ /\ ~waits /\ ~blocked /\ request.known
              /\ RecordEvent(r, StartedEvent)
              /\ GoTo(r, "handle")
              /\ UNCHANGED answer
    /\ UNCHANGED <<request, task, lapsed, ops, op, effect>>

\* The handler returns with all its changes made, or raises with some; a
\* preview makes none.
Handle(r) ==
    /\ at[r] = "handle"
    /\ \/ /\ Answer(r, "succeeded")
          /\ effect' = [effect EXCEPT ![op[r]] = IF request.dryRun THEN @ ELSE "whole"]
       \/ /\ Answer(r, "failed")
          /\ effect' \in {[effect EXCEPT ![op[r]] = change] :
                            change \in IF request.dryRun THEN {"none"} ELSE {"none", "partial"}}
    /\ GoTo(r, "finish")
    /\ UNCHANGED <<request, task, lapsed, ops, op, trail>>

Finish(r) ==
    /\ at[r] = "finish"
    /\ RecordEvent(r, CASE answer[r] = "failed" -> "operation_failed"
                   [] answer[r] # "failed" /\ request.dryRun -> "operation_preview_succeeded"
                   [] OTHER -> "operation_succeeded")
    /\ GoTo(r, "report")
    /\ UNCHANGED <<request, task, lapsed, ops, op, answer, effect>>

\* Mutant: only a result with an error text is an error.
IsErrorByText(status) == status = "failed"

\* BuiltinAdapter.run turns every status but succeeded into an artifact error.
IsError(status) == status # "succeeded"

\* The daemon completes or fails the task, if it still holds the lease; the
\* command line prints the result.
Report(r) ==
    /\ at[r] = "report"
    /\ IF request.queued /\ task = "claimed" /\ op[r] = ops
       THEN task' = CASE ~IsError(answer[r]) -> "done"
                      [] IsError(answer[r]) /\ ops >= MaxAttempts -> "dead"
                      [] OTHER -> "pending"
       ELSE UNCHANGED task
    /\ GoTo(r, "idle")
    /\ UNCHANGED <<request, lapsed, ops, op, answer, trail, effect>>

\* The process dies; a handler may have changed anything by then.
Die(r) ==
    /\ at[r] # "idle"
    /\ \/ /\ at[r] = "handle" /\ ~request.dryRun
          /\ effect' \in {[effect EXCEPT ![op[r]] = change] : change \in {"partial", "whole"}}
       \/ UNCHANGED effect
    /\ GoTo(r, "idle")
    /\ UNCHANGED <<request, task, lapsed, ops, op, answer, trail>>

Lapse == /\ request.queued /\ task = "claimed" /\ ~lapsed
         /\ lapsed' = TRUE
         /\ UNCHANGED <<request, task, ops, op, at, answer, trail, effect>>

OpNext == \/ \E r \in Runners : \/ Begin(r) \/ Evaluate(r) \/ Decide(r) \/ Handle(r)
                                \/ Finish(r) \/ Report(r) \/ Die(r)
          \/ Lapse

OpSpec == OpInit /\ [][OpNext]_opVars

-----------------------------------------------------------------------------
(* Properties. *)

OpTypeOK == /\ request \in Request
            /\ task \in {"pending", "claimed", "done", "dead"}
            /\ lapsed \in BOOLEAN
            /\ ops \in 0 .. MaxOps
            /\ op \in [Runners -> 0 .. ops]
            /\ at \in [Runners -> {"idle", "evaluate", "decide", "handle", "finish", "report"}]
            /\ answer \in [Runners -> {"none", "waiting_approval", "blocked", "failed", "succeeded"}]
            /\ trail \in [Operations -> SUBSET ({GateOpen} \cup Started \cup Terminal)]
            /\ effect \in [Operations -> {"none", "partial", "whole"}]

\* The audit file accounts for every change, whatever dies when: an operation
\* that has changed anything was logged as started before, one that is logged as
\* succeeded has made its changes (none, for a preview), one that is logged as
\* refused has made none, and no operation has two outcomes.
TrailTellsEffects ==
    \A o \in Operations :
        /\ effect[o] # "none" => {GateOpen, "operation_started"} \subseteq trail[o]
        /\ "operation_succeeded" \in trail[o] => effect[o] = "whole"
        /\ Refused \cap trail[o] # {} => effect[o] = "none" /\ Started \cap trail[o] = {}
        /\ \A first, second \in Terminal \cap trail[o] : first = second

\* What has changed anything was local, allowlisted or approved by a person, and
\* sandboxed code ran in a sandbox - in any attempt of a task, retries of one
\* that was refused included.
NothingRunsUngated ==
    (\E o \in Operations : effect[o] # "none") =>
        /\ request.risk <= 1 \/ request.approved \/ (request.risk = 2 /\ request.listed)
        /\ request.risk = 4 => Sandboxed

\* The queue and the audit file agree on how a task ended: done with a logged
\* success of its last attempt, dead with a logged failure or refusal of it.
TaskTellsTrail ==
    /\ task = "done" => "operation_succeeded" \in trail[ops]
    /\ task = "dead" => trail[ops] \cap (Refused \cup {"operation_failed"}) # {}
=============================================================================
