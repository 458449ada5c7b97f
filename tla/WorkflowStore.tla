--------------------------- MODULE WorkflowStore ---------------------------
(***************************************************************************)
(* One workflow run in the SQLite tables of src/omni_hub/workflow.py: its  *)
(* row, its steps and the signals sent to it.  Python's sqlite3 opens a    *)
(* transaction at the first UPDATE, not at a SELECT, so advance_cursor and *)
(* consume_signals are a read and a later write; everything else is one    *)
(* statement.  Kernels are the processes that drive the run.               *)
(***************************************************************************)
EXTENDS Naturals, FiniteSets

CONSTANTS Kernels,      \* processes that advance the run and consume signals
          Steps,        \* steps of the run
          MaxSignals,   \* bound: signals sent
          MaxCalls      \* bound: starts of a step, and advances of the cursor

ASSUME WorkflowAssumption == MaxSignals \in Nat /\ MaxCalls \in Nat

VARIABLES state,       \* workflows.state
          cursor,      \* workflows.cursor
          stepState,   \* stepState[s]: steps.state
          attempts,    \* attempts[s]: steps.attempts
          sent,        \* signals in the table, numbered as they were created
          consumed,    \* signals with consumed_at set
          pos,         \* pos[k]: "idle", "advance", "mark" or "return"
          seenCursor,  \* seenCursor[k]: the cursor k has read
          batch,       \* batch[k]: the signals k has read
          advances,    \* history: calls of advance_cursor that wrote
          starts,      \* history: starts[s]: calls that counted an attempt
          deliveries,  \* history: deliveries[i]: how often signal i was returned
          dropped,     \* history: signals of a kernel that died before returning
          overlapped   \* history: two calls have been under way at once

rowVars == <<state, cursor, stepState, attempts>>
kernelVars == <<pos, seenCursor, batch>>
historyVars == <<advances, starts, deliveries, dropped, overlapped>>
workflowVars == <<rowVars, sent, consumed, kernelVars, historyVars>>

WorkflowState == {"pending", "running", "suspended", "done", "failed", "cancelled"}
StepState == {"pending", "running", "done", "failed", "compensating", "compensated"}
Signals == 1 .. MaxSignals

WorkflowInit == /\ state = "pending" /\ cursor = 0
                /\ stepState = [s \in Steps |-> "pending"]
                /\ attempts = [s \in Steps |-> 0]
                /\ sent = 0 /\ consumed = {}
                /\ pos = [k \in Kernels |-> "idle"]
                /\ seenCursor = [k \in Kernels |-> 0]
                /\ batch = [k \in Kernels |-> {}]
                /\ advances = 0
                /\ starts = [s \in Steps |-> 0]
                /\ deliveries = [i \in Signals |-> 0]
                /\ dropped = {}
                /\ overlapped = FALSE

Move(k, from, to) == pos[k] = from /\ pos' = [pos EXCEPT ![k] = to]

Call(k, to) == /\ Move(k, "idle", to)
               /\ overlapped' = (overlapped \/ \E other \in Kernels : pos[other] # "idle")

-----------------------------------------------------------------------------
(* The row of the run. *)

\* suspend, resume and complete, from whatever state the run is in.
SetState(s) ==
    /\ s \in {"suspended", "running", "done", "failed", "cancelled"}
    /\ state' = s
    /\ UNCHANGED <<cursor, stepState, attempts, sent, consumed, kernelVars, historyVars>>

\* update_step: a start passes increment_attempts, "attempts = attempts + 1".
UpdateStep(step, s) ==
    /\ s = "running" => starts[step] < MaxCalls
    /\ stepState' = [stepState EXCEPT ![step] = s]
    /\ IF s = "running"
       THEN /\ attempts' = [attempts EXCEPT ![step] = @ + 1]
            /\ starts' = [starts EXCEPT ![step] = @ + 1]
       ELSE UNCHANGED <<attempts, starts>>
    /\ UNCHANGED <<state, cursor, sent, consumed, kernelVars, advances, deliveries, dropped, overlapped>>

\* advance_cursor: SELECT cursor ...
ReadCursor(k) ==
    /\ Call(k, "advance")
    /\ advances < MaxCalls
    /\ seenCursor' = [seenCursor EXCEPT ![k] = cursor]
    /\ UNCHANGED <<rowVars, sent, consumed, batch, advances, starts, deliveries, dropped>>

\* Mutant: the cursor that was read is written back.
WriteCursorAsRead(k) ==
    /\ Move(k, "advance", "idle")
    /\ cursor' = seenCursor[k]
    /\ state' \in {state, "running"}
    /\ advances' = advances + 1
    /\ UNCHANGED <<stepState, attempts, sent, consumed, seenCursor, batch, starts, deliveries, dropped, overlapped>>

\* ... then UPDATE cursor, and state when to_state is given.
WriteCursor(k) ==
    /\ Move(k, "advance", "idle")
    /\ cursor' = seenCursor[k] + 1
    /\ state' \in {state, "running"}
    /\ advances' = advances + 1
    /\ UNCHANGED <<stepState, attempts, sent, consumed, seenCursor, batch, starts, deliveries, dropped, overlapped>>

-----------------------------------------------------------------------------
(* Signals. *)

SendSignal ==
    /\ sent < MaxSignals
    /\ sent' = sent + 1
    /\ UNCHANGED <<rowVars, consumed, kernelVars, historyVars>>

\* consume_signals: SELECT ... WHERE consumed_at IS NULL.
ReadSignals(k) ==
    /\ Call(k, "mark")
    /\ batch' = [batch EXCEPT ![k] = (1 .. sent) \ consumed]
    /\ UNCHANGED <<rowVars, sent, consumed, seenCursor, advances, starts, deliveries, dropped>>

\* Mutant: everything in the table is marked, not what was read.
MarkAll(k) ==
    /\ Move(k, "mark", "return")
    /\ consumed' = 1 .. sent
    /\ UNCHANGED <<rowVars, sent, seenCursor, batch, historyVars>>

\* UPDATE ... WHERE signal_id = ?, for each row read, and COMMIT.
MarkSignals(k) ==
    /\ Move(k, "mark", "return")
    /\ consumed' = consumed \cup batch[k]
    /\ UNCHANGED <<rowVars, sent, seenCursor, batch, historyVars>>

ReturnSignals(k) ==
    /\ Move(k, "return", "idle")
    /\ deliveries' = [i \in Signals |-> IF i \in batch[k] THEN deliveries[i] + 1 ELSE deliveries[i]]
    /\ batch' = [batch EXCEPT ![k] = {}]
    /\ UNCHANGED <<rowVars, sent, consumed, seenCursor, advances, starts, dropped, overlapped>>

\* The kernel dies; an uncommitted transaction is rolled back.
Die(k) ==
    /\ pos[k] # "idle" /\ Move(k, pos[k], "idle")
    /\ dropped' = IF pos[k] = "return" THEN dropped \cup batch[k] ELSE dropped
    /\ batch' = [batch EXCEPT ![k] = {}]
    /\ UNCHANGED <<rowVars, sent, consumed, seenCursor, advances, starts, deliveries, overlapped>>

WorkflowNext ==
    \/ \E s \in WorkflowState : SetState(s)
    \/ \E step \in Steps, s \in StepState : UpdateStep(step, s)
    \/ SendSignal
    \/ \E k \in Kernels : \/ ReadCursor(k) \/ WriteCursor(k)
                          \/ ReadSignals(k) \/ MarkSignals(k) \/ ReturnSignals(k)
                          \/ Die(k)

WorkflowSpec == WorkflowInit /\ [][WorkflowNext]_workflowVars

-----------------------------------------------------------------------------
(* Properties. *)

WorkflowTypeOK ==
    /\ state \in WorkflowState
    /\ cursor \in 0 .. MaxCalls
    /\ stepState \in [Steps -> StepState]
    /\ attempts \in [Steps -> 0 .. MaxCalls]
    /\ sent \in 0 .. MaxSignals
    /\ consumed \subseteq 1 .. sent
    /\ pos \in [Kernels -> {"idle", "advance", "mark", "return"}]
    /\ seenCursor \in [Kernels -> 0 .. MaxCalls]
    /\ batch \in [Kernels -> SUBSET (1 .. sent)]

\* A signal that is no longer offered was handed to somebody: consumed means
\* returned, about to be returned, or lost with a kernel that died.
NoSignalForgotten ==
    \A i \in consumed : \/ deliveries[i] > 0
                        \/ \E k \in Kernels : pos[k] = "return" /\ i \in batch[k]
                        \/ i \in dropped

\* As long as no two calls overlap, whatever dies in between, the cursor is the
\* number of advances ("we rely on SQLite WAL + BEGIN IMMEDIATE for atomicity",
\* workflow.py) and no signal is returned twice.
ExactWhenAlone == ~overlapped => /\ cursor = advances
                                 /\ \A i \in Signals : deliveries[i] <= 1

\* consume_signals is an "atomic claim of all unconsumed signals" (workflow.py):
\* no signal is returned twice.
DeliveredOnce == \A i \in Signals : deliveries[i] <= 1
=============================================================================
