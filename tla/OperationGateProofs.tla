------------------------- MODULE OperationGateProofs -------------------------
(***************************************************************************)
(* Proofs about OperationGate.tla, for any number of runners, attempts and *)
(* operations, with and without a sandbox, about the requests of           *)
(* Operations.tla, for any number of domains and runs, and about the       *)
(* cascade of Retrieval.tla, for any sources, plans and number of          *)
(* processes.                                                              *)
(*                                                                         *)
(* The argument of the gate: an operation id is used by one run of         *)
(* OperationRunner, and the place that run has reached says exactly what   *)
(* is in the audit file for it, so an outcome is appended once and after   *)
(* the start.                                                              *)
(*                                                                         *)
(* The argument of the cascade: the scans of a timeout sort the calls into *)
(* completed and late ones while the threads go on, and only a call that   *)
(* ends between the scans is in neither; a batch is put into the cache     *)
(* while its cascade still waits, at most one wait after it was made.      *)
(*                                                                         *)
(* The argument of the requests: what matters of a handler is whether its  *)
(* refusals come before its writes, what it writes without being asked to, *)
(* and what a preview and a second run leave.  Each of these is kept by    *)
(* When, Unless and \o, so it is shown of every handler of the registry    *)
(* from its parts; every entry names an operation as what it is; and a     *)
(* store that changed was written by a step that was due.                  *)
(***************************************************************************)
EXTENDS OperationGate, Operations, Retrieval, TLAPS

Allowed == /\ RequiresApproval(request) => request.approved
           /\ RequiresSandbox(request) => Sandboxed

\* Operations that have not begun have left no trace.
Untouched == \A o \in Operations : o > ops => trail[o] = {} /\ effect[o] = "none"

\* One runner works on an operation.
OneRunner ==
    /\ \A r \in Runners : at[r] # "idle" => op[r] \in Operations /\ op[r] <= ops
    /\ \A r, q \in Runners : at[r] # "idle" /\ at[q] # "idle" /\ op[r] = op[q] => r = q

\* What the place of a runner says of the events and changes of its operation.
Place(place, status, events, change) ==
    /\ place = "evaluate" => events = {} /\ change = "none"
    /\ place = "decide" => events = {GateOpen} /\ change = "none"
    /\ place = "handle" => events = {GateOpen, StartedEvent} /\ change = "none" /\ Allowed
    /\ place = "finish" => /\ events = {GateOpen, StartedEvent} /\ Allowed
                           /\ status \in {"succeeded", "failed"}
                           /\ status = "succeeded" /\ ~request.dryRun => change = "whole"
    /\ place = "report" =>
          IF status = "succeeded"
          THEN ~request.dryRun => "operation_succeeded" \in events
          ELSE events \cap (Refused \cup {"operation_failed"}) # {}

PlaceTellsTrail ==
    \A r \in Runners :
        at[r] # "idle" => Place(at[r], answer[r], trail[op[r]], effect[op[r]])

\* What the events of one operation say of its changes.
Tells(events, change) ==
    /\ change # "none" => {GateOpen, "operation_started"} \subseteq events
    /\ "operation_succeeded" \in events => change = "whole"
    /\ Refused \cap events # {} => change = "none" /\ Started \cap events = {}
    /\ \A first, second \in Terminal \cap events : first = second

ChangesAreAllowed == \A o \in Operations : effect[o] # "none" => Allowed

TaskEnded == task \in {"done", "dead"} => ops \in Operations

OpInv == /\ OpTypeOK /\ Untouched /\ OneRunner /\ PlaceTellsTrail /\ ChangesAreAllowed
         /\ TrailTellsEffects /\ TaskEnded /\ TaskTellsTrail

-----------------------------------------------------------------------------

\* What typing says of the parts of a state.
LEMMA OpTypeFacts ==
    ASSUME OpTypeOK
    PROVE  /\ ops \in Nat /\ ops <= MaxOps /\ MaxOps \in Nat
           /\ \A r \in Runners : op[r] \in 0 .. ops
           /\ request.risk \in RiskLevel
           /\ \A field \in {"listed", "approved", "known", "queued", "dryRun"} :
                 request[field] \in BOOLEAN
           /\ request.dryRun => ~request.queued /\ request.risk = 1
BY GateAssumption DEF OpTypeOK, Request

LEMMA OpInvInit == OpInit => OpInv
<1> SUFFICES ASSUME OpInit PROVE OpInv
  OBVIOUS
<1>1. OpTypeOK
  <2>1. ops \in 0 .. MaxOps /\ op \in [Runners -> 0 .. ops]
    BY GateAssumption DEF OpInit
  <2>2. /\ request \in Request /\ task \in {"pending", "claimed", "done", "dead"}
        /\ lapsed \in BOOLEAN
    BY DEF OpInit
  <2> QED BY <2>1, <2>2 DEF OpInit, OpTypeOK
<1>2. Untouched /\ ChangesAreAllowed /\ TrailTellsEffects
  BY DEF OpInit, Untouched, ChangesAreAllowed, TrailTellsEffects
<1>3. OneRunner /\ PlaceTellsTrail
  BY DEF OpInit, OneRunner, PlaceTellsTrail
<1>4. TaskEnded /\ TaskTellsTrail
  BY DEF OpInit, TaskEnded, TaskTellsTrail
<1> QED BY <1>1, <1>2, <1>3, <1>4 DEF OpInv

\* The types of events and changes.
Events == {GateOpen} \cup Started \cup Terminal
Changes == {"none", "partial", "whole"}
RunnerPlaces == {"idle", "evaluate", "decide", "handle", "finish", "report"}
Statuses == {"none", "waiting_approval", "blocked", "failed", "succeeded"}

\* A runner that goes on with its operation: whatever it appends and changes
\* concerns no other operation.
LEMMA OwnStep ==
    ASSUME OpInv,
           NEW r \in Runners, at[r] # "idle",
           NEW place \in RunnerPlaces, NEW status \in Statuses,
           NEW events \in SUBSET Events, NEW change \in Changes,
           at' = [at EXCEPT ![r] = place],
           answer' = [answer EXCEPT ![r] = status],
           trail' = [trail EXCEPT ![op[r]] = events],
           effect' = [effect EXCEPT ![op[r]] = change],
           UNCHANGED <<request, lapsed, ops, op>>,
           task' \in {"pending", "claimed", "done", "dead"},
           task' # task => TaskEnded' /\ TaskTellsTrail',
           trail[op[r]] \subseteq events,
           place # "idle" => Place(place, status, events, change),
           Tells(events, change),
           change # "none" => Allowed
    PROVE  OpInv'
<1> DEFINE o == op[r]
<1>1. /\ OpTypeOK /\ Untouched /\ OneRunner /\ PlaceTellsTrail /\ ChangesAreAllowed
      /\ TrailTellsEffects /\ TaskEnded /\ TaskTellsTrail
  BY DEF OpInv
<1>2. o \in Operations /\ o <= ops
  BY <1>1 DEF OneRunner
<1> HIDE DEF o
<1>3. /\ trail'[o] = events /\ effect'[o] = change
      /\ \A other \in Operations \ {o} : trail'[other] = trail[other] /\ effect'[other] = effect[other]
  BY <1>1, <1>2 DEF o, OpTypeOK
<1>4. OpTypeOK'
  BY <1>1 DEF OpTypeOK, Events, Changes, RunnerPlaces, Statuses
<1>5. Untouched'
  <2>1. ops \in Nat /\ \A other \in Operations : other \in Nat
    BY <1>1, OpTypeFacts DEF Operations
  <2> QED BY <1>1, <1>2, <1>3, <2>1 DEF Untouched
<1>6. OneRunner'
  BY <1>1, <1>2 DEF OneRunner, OpTypeOK, o
<1>7. PlaceTellsTrail'
  <2> SUFFICES ASSUME NEW q \in Runners, at'[q] # "idle"
               PROVE  Place(at[q], answer[q], trail[op[q]], effect[op[q]])'
    BY DEF PlaceTellsTrail
  <2>1. CASE q = r
    <3>1. at'[q] = place /\ answer'[q] = status /\ op'[q] = o
      BY <1>1, <2>1 DEF OpTypeOK, o
    <3>2. place # "idle"
      BY <2>1, <3>1
    <3>3. Place(place, status, events, change)
      BY <3>2
    <3>4. trail'[op'[q]] = events /\ effect'[op'[q]] = change
      BY <1>3, <3>1
    <3> QED BY <3>1, <3>3, <3>4 DEF Place, Allowed, StartedEvent, RequiresApproval, RequiresSandbox
  <2>2. CASE q # r
    <3>1. at'[q] = at[q] /\ answer'[q] = answer[q] /\ op'[q] = op[q]
      BY <1>1, <2>2 DEF OpTypeOK
    <3>2. op[q] \in Operations \ {o}
      BY <1>1, <2>2, <3>1 DEF OneRunner, o
    <3>3. Place(at[q], answer[q], trail[op[q]], effect[op[q]])
      BY <1>1, <3>1 DEF PlaceTellsTrail
    <3>4. trail'[op'[q]] = trail[op[q]] /\ effect'[op'[q]] = effect[op[q]]
      BY <1>3, <3>1, <3>2
    <3> QED BY <3>1, <3>3, <3>4
          DEF Place, Allowed, StartedEvent, RequiresApproval, RequiresSandbox
  <2> QED BY <2>1, <2>2
<1>8. ChangesAreAllowed'
  BY <1>1, <1>2, <1>3 DEF ChangesAreAllowed, Allowed, RequiresApproval, RequiresSandbox, Operations
<1>9. TrailTellsEffects'
  BY <1>1, <1>2, <1>3 DEF TrailTellsEffects, Tells
<1>10. TaskEnded' /\ TaskTellsTrail'
  <2>1. \A other \in Operations : trail[other] \subseteq trail'[other]
    BY <1>3 DEF o
  <2>2. task' = task => TaskEnded' /\ TaskTellsTrail'
    BY <1>1, <2>1 DEF TaskEnded, TaskTellsTrail
  <2> QED BY <2>2
<1> QED BY <1>4, <1>5, <1>6, <1>7, <1>8, <1>9, <1>10 DEF OpInv

\* What a runner that is under way knows of its operation.
LEMMA Underway ==
    ASSUME OpInv, NEW r \in Runners, at[r] # "idle"
    PROVE  /\ op[r] \in Operations /\ op[r] <= ops
           /\ trail[op[r]] \subseteq Events /\ effect[op[r]] \in Changes
           /\ answer[r] \in Statuses
           /\ trail = [trail EXCEPT ![op[r]] = trail[op[r]]]
           /\ effect = [effect EXCEPT ![op[r]] = effect[op[r]]]
           /\ answer = [answer EXCEPT ![r] = answer[r]]
           /\ Place(at[r], answer[r], trail[op[r]], effect[op[r]])
           /\ Tells(trail[op[r]], effect[op[r]])
           /\ effect[op[r]] # "none" => Allowed
           /\ task \in {"pending", "claimed", "done", "dead"}
<1>1. op[r] \in Operations /\ op[r] <= ops
  BY DEF OpInv, OneRunner
<1>2. Place(at[r], answer[r], trail[op[r]], effect[op[r]])
  BY DEF OpInv, PlaceTellsTrail
<1>3. Tells(trail[op[r]], effect[op[r]])
  BY <1>1 DEF OpInv, TrailTellsEffects, Tells
<1>4. effect[op[r]] # "none" => Allowed
  BY <1>1 DEF OpInv, ChangesAreAllowed
<1> QED BY <1>1, <1>2, <1>3, <1>4 DEF OpInv, OpTypeOK, Events, Changes, Statuses

LEMMA EvaluateKeepsInv ==
    ASSUME OpInv, NEW r \in Runners, Evaluate(r)
    PROVE  OpInv'
<1>1. at[r] = "evaluate"
  BY DEF Evaluate
<1>2. trail[op[r]] = {} /\ effect[op[r]] = "none"
  BY <1>1, Underway DEF Place
<1>3. trail' = [trail EXCEPT ![op[r]] = {GateOpen}]
  BY <1>2 DEF Evaluate, RecordEvent
<1>4. at' = [at EXCEPT ![r] = "decide"]
  BY DEF Evaluate, GoTo
<1>5. /\ effect' = [effect EXCEPT ![op[r]] = "none"]
      /\ answer' = [answer EXCEPT ![r] = answer[r]]
  BY <1>1, <1>2, Underway DEF Evaluate
<1>6. Tells({GateOpen}, "none")
  BY DEF Tells, GateOpen, Refused, Terminal, Succeeded
<1>7. Place("decide", answer[r], {GateOpen}, "none")
  BY DEF Place
<1> QED BY <1>1, <1>2, <1>3, <1>4, <1>5, <1>6, <1>7, Underway, OwnStep
      DEF Evaluate, Events, Changes, RunnerPlaces

\* The names of the events are different.
LEMMA EventNames ==
    /\ GateOpen \notin Terminal \cup Started
    /\ Started \cap Terminal = {}
    /\ StartedEvent \in Started
    /\ StartedEvent = "operation_started" <=> ~request.dryRun
BY DEF GateOpen, Terminal, Started, Succeeded, Refused, StartedEvent

\* A run that ends before the handler has changed nothing.
LEMMA StopTells ==
    ASSUME NEW event \in Refused \cup {"operation_failed"}
    PROVE  Tells({GateOpen, event}, "none")
BY DEF Tells, GateOpen, Refused, Terminal, Succeeded, Started

LEMMA DecideKeepsInv ==
    ASSUME OpInv, NEW r \in Runners, Decide(r)
    PROVE  OpInv'
<1>1. at[r] = "decide"
  BY DEF Decide
<1>2. trail[op[r]] = {GateOpen} /\ effect[op[r]] = "none"
  BY <1>1, Underway DEF Place
<1>3. effect' = [effect EXCEPT ![op[r]] = "none"]
  BY <1>1, <1>2, Underway DEF Decide
<1>4. ASSUME NEW status \in Statuses \ {"succeeded"},
             NEW event \in Refused \cup {"operation_failed"},
             Stop(r, status, event)
      PROVE  OpInv'
  <2>1. trail' = [trail EXCEPT ![op[r]] = {GateOpen, event}]
    BY <1>2, <1>4 DEF Stop, RecordEvent
  <2>2. Place("report", status, {GateOpen, event}, "none")
    BY <1>4 DEF Place
  <2>3. at' = [at EXCEPT ![r] = "report"] /\ answer' = [answer EXCEPT ![r] = status]
    BY <1>4 DEF Stop, GoTo, Answer
  <2>4. {GateOpen, event} \subseteq Events
    BY DEF Events, Terminal
  <2>5. Tells({GateOpen, event}, "none")
    BY StopTells
  <2> QED BY <1>1, <1>2, <1>3, <2>1, <2>2, <2>3, <2>4, <2>5, Underway, OwnStep
        DEF Decide, Changes, RunnerPlaces
<1>5. ASSUME Allowed, RecordEvent(r, StartedEvent), GoTo(r, "handle"), UNCHANGED answer
      PROVE  OpInv'
  <2>1. trail' = [trail EXCEPT ![op[r]] = {GateOpen, StartedEvent}]
    BY <1>2, <1>5 DEF RecordEvent
  <2>2. Place("handle", answer[r], {GateOpen, StartedEvent}, "none")
    BY <1>5 DEF Place
  <2>3. {GateOpen, StartedEvent} \subseteq Events
    BY EventNames DEF Events
  <2>4. Tells({GateOpen, StartedEvent}, "none")
    BY EventNames DEF Tells, Terminal, Succeeded, Refused, Started, GateOpen
  <2>5. at' = [at EXCEPT ![r] = "handle"] /\ answer' = [answer EXCEPT ![r] = answer[r]]
    BY <1>1, <1>5, Underway DEF GoTo
  <2> QED BY <1>1, <1>2, <1>3, <2>1, <2>2, <2>3, <2>4, <2>5, Underway, OwnStep
        DEF Decide, Changes, RunnerPlaces
<1>6. CASE Stop(r, "waiting_approval", "operation_waiting_approval")
  BY <1>4, <1>6 DEF Statuses, Refused
<1>7. CASE Stop(r, "blocked", "operation_blocked")
  BY <1>4, <1>7 DEF Statuses, Refused
<1>8. CASE Stop(r, "failed", "operation_failed")
  BY <1>4, <1>8 DEF Statuses
<1> QED BY <1>5, <1>6, <1>7, <1>8 DEF Decide, Allowed

LEMMA HandleKeepsInv ==
    ASSUME OpInv, NEW r \in Runners, Handle(r)
    PROVE  OpInv'
<1>1. at[r] = "handle"
  BY DEF Handle
<1>2. trail[op[r]] = {GateOpen, StartedEvent} /\ effect[op[r]] = "none" /\ Allowed
  BY <1>1, Underway DEF Place
<1>3. PICK change \in Changes, status \in {"succeeded", "failed"} :
         /\ effect' = [effect EXCEPT ![op[r]] = change]
         /\ answer' = [answer EXCEPT ![r] = status]
         /\ status = "succeeded" /\ ~request.dryRun => change = "whole"
         /\ change # "none" => ~request.dryRun
  <2>1. CASE /\ Answer(r, "succeeded")
             /\ effect' = [effect EXCEPT ![op[r]] = IF request.dryRun THEN @ ELSE "whole"]
    <3>1. effect' = [effect EXCEPT ![op[r]] = IF request.dryRun THEN "none" ELSE "whole"]
      BY <1>2, <2>1
    <3> QED BY <2>1, <3>1 DEF Answer, Changes
  <2>2. CASE /\ Answer(r, "failed")
             /\ effect' \in {[effect EXCEPT ![op[r]] = change] :
                               change \in IF request.dryRun THEN {"none"} ELSE {"none", "partial"}}
    BY <2>2 DEF Answer, Changes
  <2> QED BY <2>1, <2>2 DEF Handle
<1>4. Place("finish", status, {GateOpen, StartedEvent}, change)
  BY <1>2, <1>3 DEF Place
<1>5. Tells({GateOpen, StartedEvent}, change)
  BY <1>3, EventNames DEF Tells, Terminal, Succeeded, Refused, Started, GateOpen
<1>6. trail' = [trail EXCEPT ![op[r]] = {GateOpen, StartedEvent}]
  BY <1>1, <1>2, Underway DEF Handle
<1>7. {GateOpen, StartedEvent} \subseteq Events
  BY EventNames DEF Events
<1>8. at' = [at EXCEPT ![r] = "finish"] /\ UNCHANGED <<request, task, lapsed, ops, op>>
  BY DEF Handle, GoTo
<1>9. status \in Statuses /\ "finish" \in RunnerPlaces /\ "finish" # "idle"
  BY DEF Statuses, RunnerPlaces
<1>10. task' \in {"pending", "claimed", "done", "dead"}
  BY <1>1, <1>8, Underway
<1> QED BY <1>1, <1>2, <1>3, <1>4, <1>5, <1>6, <1>7, <1>8, <1>9, <1>10, OwnStep

LEMMA FinishKeepsInv ==
    ASSUME OpInv, NEW r \in Runners, Finish(r)
    PROVE  OpInv'
<1> DEFINE event == CASE answer[r] = "failed" -> "operation_failed"
                      [] answer[r] # "failed" /\ request.dryRun -> "operation_preview_succeeded"
                      [] OTHER -> "operation_succeeded"
           events == {GateOpen, StartedEvent, event}
<1>1. at[r] = "finish"
  BY DEF Finish
<1>2. /\ trail[op[r]] = {GateOpen, StartedEvent} /\ Allowed
      /\ answer[r] \in {"succeeded", "failed"}
      /\ answer[r] = "succeeded" /\ ~request.dryRun => effect[op[r]] = "whole"
  BY <1>1, Underway DEF Place
<1>3. request.dryRun \in BOOLEAN
  BY OpTypeFacts DEF OpInv
<1>4. /\ answer[r] = "failed" => event = "operation_failed"
      /\ answer[r] = "succeeded" /\ request.dryRun => event = "operation_preview_succeeded"
      /\ answer[r] = "succeeded" /\ ~request.dryRun => event = "operation_succeeded"
      /\ event \in Succeeded \cup {"operation_failed"}
  <2>1. CASE answer[r] = "failed"
    BY <2>1
  <2>2. CASE answer[r] = "succeeded" /\ request.dryRun
    BY <2>2 DEF Succeeded
  <2>3. CASE answer[r] = "succeeded" /\ ~request.dryRun
    BY <2>3 DEF Succeeded
  <2> QED BY <1>2, <1>3, <2>1, <2>2, <2>3
<1>5. trail' = [trail EXCEPT ![op[r]] = events]
  <2>1. trail' = [trail EXCEPT ![op[r]] = trail[op[r]] \cup {event}]
    BY DEF Finish, RecordEvent
  <2>2. trail[op[r]] \cup {event} = events
    BY <1>2
  <2> QED BY <2>1, <2>2
<1> HIDE DEF event
<1>6. Place("report", answer[r], events, effect[op[r]])
  BY <1>2, <1>4 DEF Place
<1>7. Tells(events, effect[op[r]])
  <2>1. effect[op[r]] # "none" => StartedEvent = "operation_started"
    BY <1>1, <1>2, EventNames, Underway DEF Tells, GateOpen
  <2>2. event = "operation_succeeded" => effect[op[r]] = "whole"
    BY <1>2, <1>3, <1>4
  <2>3. Terminal \cap events = {event}
    BY <1>4, EventNames DEF Terminal
  <2>4. Refused \cap events = {}
    BY <1>4, <2>3 DEF Terminal, Refused, Succeeded
  <2>5. "operation_succeeded" \in events => event = "operation_succeeded"
    BY <2>3 DEF Terminal, Succeeded
  <2> QED BY <2>1, <2>2, <2>3, <2>4, <2>5 DEF Tells
<1>8. /\ at' = [at EXCEPT ![r] = "report"] /\ UNCHANGED <<request, task, lapsed, ops, op>>
      /\ answer' = [answer EXCEPT ![r] = answer[r]]
      /\ effect' = [effect EXCEPT ![op[r]] = effect[op[r]]]
  BY <1>1, Underway DEF Finish, GoTo
<1>9. events \subseteq Events /\ "report" \in RunnerPlaces
  BY <1>4, EventNames DEF Events, RunnerPlaces, Terminal
<1>10. task' \in {"pending", "claimed", "done", "dead"}
  BY <1>1, <1>8, Underway
<1>11. trail[op[r]] \subseteq events
  BY <1>2
<1>12. /\ answer[r] \in Statuses /\ effect[op[r]] \in Changes
       /\ effect[op[r]] # "none" => Allowed
  BY <1>1, Underway
<1> HIDE DEF events
<1> QED BY <1>1, <1>5, <1>6, <1>7, <1>8, <1>9, <1>10, <1>11, <1>12, OwnStep

LEMMA ReportKeepsInv ==
    ASSUME OpInv, NEW r \in Runners, Report(r)
    PROVE  OpInv'
<1>1. at[r] = "report"
  BY DEF Report
<1>2. /\ at' = [at EXCEPT ![r] = "idle"] /\ UNCHANGED <<request, lapsed, ops, op>>
      /\ answer' = [answer EXCEPT ![r] = answer[r]]
      /\ effect' = [effect EXCEPT ![op[r]] = effect[op[r]]]
      /\ trail' = [trail EXCEPT ![op[r]] = trail[op[r]]]
      /\ trail' = trail
  BY <1>1, Underway DEF Report, GoTo
<1>3. task' \in {"pending", "claimed", "done", "dead"}
  BY <1>1, Underway DEF Report
<1>4. task' # task => TaskEnded' /\ TaskTellsTrail'
  <2> SUFFICES ASSUME task' # task PROVE TaskEnded' /\ TaskTellsTrail'
    OBVIOUS
  <2>1. /\ request.queued /\ op[r] = ops
        /\ task' = "done" => answer[r] = "succeeded"
        /\ task' = "dead" => answer[r] # "succeeded"
    <3>1. /\ request.queued /\ op[r] = ops
          /\ task' = CASE ~IsError(answer[r]) -> "done"
                       [] IsError(answer[r]) /\ ops >= MaxAttempts -> "dead"
                       [] OTHER -> "pending"
      BY DEF Report
    <3>2. CASE IsError(answer[r])
      BY <3>1, <3>2 DEF IsError
    <3>3. CASE ~IsError(answer[r])
      BY <3>1, <3>3 DEF IsError
    <3> QED BY <3>2, <3>3
  <2>2. ops \in Operations
    BY <1>1, <2>1, Underway
  <2>3. ~request.dryRun
    BY <2>1, OpTypeFacts DEF OpInv
  <2>4. /\ answer[r] = "succeeded" => "operation_succeeded" \in trail[ops]
        /\ answer[r] # "succeeded" => trail[ops] \cap (Refused \cup {"operation_failed"}) # {}
    BY <1>1, <2>1, <2>3, Underway DEF Place
  <2> QED BY <1>2, <2>1, <2>2, <2>4 DEF TaskEnded, TaskTellsTrail
<1>5. "idle" \in RunnerPlaces
  BY DEF RunnerPlaces
<1> QED BY <1>1, <1>2, <1>3, <1>4, <1>5, Underway, OwnStep

LEMMA DieKeepsInv ==
    ASSUME OpInv, NEW r \in Runners, Die(r)
    PROVE  OpInv'
<1>1. at[r] # "idle"
  BY DEF Die
<1>2. /\ at' = [at EXCEPT ![r] = "idle"] /\ UNCHANGED <<request, task, lapsed, ops, op>>
      /\ answer' = [answer EXCEPT ![r] = answer[r]]
      /\ trail' = [trail EXCEPT ![op[r]] = trail[op[r]]]
      /\ task' \in {"pending", "claimed", "done", "dead"} /\ "idle" \in RunnerPlaces
  BY <1>1, Underway DEF Die, GoTo, RunnerPlaces
<1>3. PICK change \in Changes :
         /\ effect' = [effect EXCEPT ![op[r]] = change]
         /\ change = effect[op[r]] \/ (at[r] = "handle" /\ ~request.dryRun)
  <2>1. CASE UNCHANGED effect
    BY <1>1, <2>1, Underway
  <2>2. CASE /\ at[r] = "handle" /\ ~request.dryRun
             /\ effect' \in {[effect EXCEPT ![op[r]] = change] : change \in {"partial", "whole"}}
    BY <2>2 DEF Changes
  <2> QED BY <2>1, <2>2 DEF Die
<1>4. Tells(trail[op[r]], change) /\ (change # "none" => Allowed)
  <2>1. CASE change = effect[op[r]]
    BY <1>1, <2>1, Underway
  <2>2. CASE at[r] = "handle" /\ ~request.dryRun
    <3>1. trail[op[r]] = {GateOpen, "operation_started"} /\ Allowed
      BY <2>2, EventNames, Underway DEF Place
    <3> QED BY <3>1 DEF Tells, Terminal, Succeeded, Refused, GateOpen
  <2> QED BY <1>3, <2>1, <2>2
<1> QED BY <1>1, <1>2, <1>3, <1>4, Underway, OwnStep

LEMMA BeginKeepsInv ==
    ASSUME OpInv, NEW r \in Runners, Begin(r)
    PROVE  OpInv'
<1> DEFINE o == ops + 1
<1>1. /\ OpTypeOK /\ Untouched /\ OneRunner /\ PlaceTellsTrail /\ ChangesAreAllowed
      /\ TrailTellsEffects
  BY DEF OpInv
<1>2. ops \in Nat /\ ops < MaxOps /\ MaxOps \in Nat /\ o \in Operations
  BY <1>1, OpTypeFacts DEF Begin, Operations
<1>3. /\ ops' = o /\ op' = [op EXCEPT ![r] = o] /\ at' = [at EXCEPT ![r] = "evaluate"]
      /\ answer' = [answer EXCEPT ![r] = "none"] /\ task' = "claimed" /\ lapsed' = FALSE
      /\ UNCHANGED <<request, trail, effect>>
  BY DEF Begin, GoTo, Answer
<1>4. trail[o] = {} /\ effect[o] = "none"
  BY <1>1, <1>2 DEF Untouched
<1>5. OpTypeOK'
  <2>1. op' \in [Runners -> 0 .. ops']
    BY <1>1, <1>2, <1>3 DEF OpTypeOK
  <2>2. ops' \in 0 .. MaxOps
    BY <1>2, <1>3
  <2> QED BY <1>1, <1>3, <2>1, <2>2 DEF OpTypeOK
<1>6. Untouched'
  BY <1>1, <1>2, <1>3 DEF Untouched, Operations
<1>7. /\ op'[r] = o /\ at'[r] = "evaluate"
      /\ \A q \in Runners \ {r} : op'[q] = op[q] /\ at'[q] = at[q] /\ answer'[q] = answer[q]
  BY <1>1, <1>3 DEF OpTypeOK
<1>8. OneRunner'
  BY <1>1, <1>2, <1>3, <1>7, OpTypeFacts DEF OneRunner, Operations
<1>9. PlaceTellsTrail'
  <2> SUFFICES ASSUME NEW q \in Runners, at'[q] # "idle"
               PROVE  Place(at[q], answer[q], trail[op[q]], effect[op[q]])'
    BY DEF PlaceTellsTrail
  <2>1. CASE q = r
    BY <1>3, <1>4, <1>7, <2>1 DEF Place
  <2>2. CASE q # r
    <3>1. Place(at[q], answer[q], trail[op[q]], effect[op[q]])
      BY <1>1, <1>7, <2>2 DEF PlaceTellsTrail
    <3> QED BY <1>3, <1>7, <2>2, <3>1
          DEF Place, Allowed, StartedEvent, RequiresApproval, RequiresSandbox
  <2> QED BY <2>1, <2>2
<1>10. ChangesAreAllowed' /\ TrailTellsEffects'
  BY <1>1, <1>3 DEF ChangesAreAllowed, TrailTellsEffects, Allowed, RequiresApproval, RequiresSandbox
<1>11. TaskEnded' /\ TaskTellsTrail'
  BY <1>3 DEF TaskEnded, TaskTellsTrail
<1> QED BY <1>5, <1>6, <1>8, <1>9, <1>10, <1>11 DEF OpInv

\* Time that passes, and steps of others, change nothing the invariant speaks of.
LEMMA LapseKeepsInv ==
    ASSUME OpInv, Lapse \/ UNCHANGED opVars
    PROVE  OpInv'
<1>1. UNCHANGED <<request, task, ops, op, at, answer, trail, effect>> /\ lapsed' \in BOOLEAN
  BY DEF Lapse, opVars, OpInv, OpTypeOK
<1>2. OpTypeOK'
  BY <1>1 DEF OpInv, OpTypeOK
<1>3. Untouched' /\ OneRunner'
  BY <1>1 DEF OpInv, Untouched, OneRunner
<1>4. PlaceTellsTrail' /\ ChangesAreAllowed'
  BY <1>1 DEF OpInv, PlaceTellsTrail, ChangesAreAllowed, Place, Allowed, StartedEvent,
              RequiresApproval, RequiresSandbox
<1>5. TrailTellsEffects' /\ TaskEnded' /\ TaskTellsTrail'
  BY <1>1 DEF OpInv, TrailTellsEffects, TaskEnded, TaskTellsTrail
<1> QED BY <1>2, <1>3, <1>4, <1>5 DEF OpInv

LEMMA OpInvStep == OpInv /\ [OpNext]_opVars => OpInv'
<1> SUFFICES ASSUME OpInv, [OpNext]_opVars PROVE OpInv'
  OBVIOUS
<1>1. CASE Lapse \/ UNCHANGED opVars
  BY <1>1, LapseKeepsInv
<1>2. ASSUME NEW r \in Runners, Begin(r) PROVE OpInv'
  BY <1>2, BeginKeepsInv
<1>3. ASSUME NEW r \in Runners, Evaluate(r) PROVE OpInv'
  BY <1>3, EvaluateKeepsInv
<1>4. ASSUME NEW r \in Runners, Decide(r) PROVE OpInv'
  BY <1>4, DecideKeepsInv
<1>5. ASSUME NEW r \in Runners, Handle(r) PROVE OpInv'
  BY <1>5, HandleKeepsInv
<1>6. ASSUME NEW r \in Runners, Finish(r) PROVE OpInv'
  BY <1>6, FinishKeepsInv
<1>7. ASSUME NEW r \in Runners, Report(r) PROVE OpInv'
  BY <1>7, ReportKeepsInv
<1>8. ASSUME NEW r \in Runners, Die(r) PROVE OpInv'
  BY <1>8, DieKeepsInv
<1> QED BY <1>1, <1>2, <1>3, <1>4, <1>5, <1>6, <1>7, <1>8 DEF OpNext

-----------------------------------------------------------------------------

\* The strengthening behind the theorems: the audit file holds for every
\* operation exactly what the place of its runner says.
THEOREM OpInvariant == OpSpec => []OpInv
<1>1. OpInit => OpInv
  BY OpInvInit
<1>2. OpInv /\ [OpNext]_opVars => OpInv'
  BY OpInvStep
<1> QED BY <1>1, <1>2, PTL DEF OpSpec

\* Every reachable state of the gate is well typed.
THEOREM OpTypes == OpSpec => []OpTypeOK
<1>1. OpInv => OpTypeOK
  BY DEF OpInv
<1> QED BY <1>1, OpInvariant, PTL

\* The audit file accounts for every change of every operation, for any number
\* of runners that stall and die.
THEOREM OpTrailTellsEffects == OpSpec => []TrailTellsEffects
<1>1. OpInv => TrailTellsEffects
  BY DEF OpInv
<1> QED BY <1>1, OpInvariant, PTL

\* For any number of attempts: what changed anything was local, allowlisted or
\* approved, and sandboxed where it has to be.
THEOREM OpNothingRunsUngated == OpSpec => []NothingRunsUngated
<1>1. OpInv => NothingRunsUngated
  <2> SUFFICES ASSUME OpInv, NEW o \in Operations, effect[o] # "none"
               PROVE  /\ request.risk <= 1 \/ request.approved \/ (request.risk = 2 /\ request.listed)
                      /\ request.risk = 4 => Sandboxed
    BY DEF NothingRunsUngated
  <2>1. Allowed
    BY DEF OpInv, ChangesAreAllowed
  <2>2. request.dryRun => request.risk = 1
    BY OpTypeFacts DEF OpInv
  <2>3. request.risk \in 0 .. 4
    BY OpTypeFacts DEF OpInv, RiskLevel
  <2> QED BY <2>1, <2>2, <2>3 DEF Allowed, RequiresApproval, RequiresSandbox,
             RequireApprovalFrom, RequireSandboxFrom, AutoApproveUntil
<1> QED BY <1>1, OpInvariant, PTL

\* For any number of attempts, queue and audit file agree on how a task ended.
THEOREM OpTaskTellsTrail == OpSpec => []TaskTellsTrail
<1>1. OpInv => TaskTellsTrail
  BY DEF OpInv
<1> QED BY <1>1, OpInvariant, PTL

-----------------------------------------------------------------------------
(* The retrieval cascade.  Processes meet only in the cache, so the        *)
(* invariant speaks of one cascade; of the cache it says what a row is, and *)
(* nothing at all of time, which may pass anywhere.                         *)

CallStates == {"unknown", "hit", "deferred", "running", "done", "failed", "told"}
CallRec == [state : CallStates, batch : Nat]

Asking == {"waiting", "picking", "marking", "collecting"}
Answers == UNION {[sources -> Nat] : sources \in SUBSET STRING}

Phases == {"idle", "looking", "answered"} \cup Asking

SeekRec == [at : Phases, plan : Seq(STRING), cached : BOOLEAN,
            next : Nat \ {0}, since : Nat, impatient : BOOLEAN, call : Seq(CallRec),
            completed : SUBSET Nat, errors : SUBSET Nat, told : Answers]

Good(w) == {i \in DOMAIN w.call : w.call[i].state \in {"hit", "told"}}

\* What the state of a call says of its source.
CallsAreTrue(w) ==
    \A i \in DOMAIN w.call :
       LET c == w.call[i]
       IN  /\ c.state = "unknown" => i \in w.errors
           /\ c.state \in {"hit", "told"} => i \notin w.errors
           /\ c.state # "unknown" => w.plan[i] \in Registered

\* What was told is what the calls brought.
ToldIsBrought(w) ==
    /\ DOMAIN w.told = {w.plan[i] : i \in Good(w)}
    /\ \A s \in DOMAIN w.told : \E i \in Good(w) : w.plan[i] = s /\ w.told[s] = w.call[i].batch

\* What a cascade has done so far.
Progress(w) ==
    /\ w.at = "looking" => /\ Len(w.call) = w.next - 1 /\ w.completed = {}
                           /\ w.errors = {i \in DOMAIN w.plan : w.plan[i] \notin Registered}
                           /\ \A i \in DOMAIN w.call : w.call[i].state \in {"unknown", "hit", "deferred"}
    /\ w.at \in Asking \cup {"answered"} => /\ Len(w.call) = Len(w.plan)
                                            /\ \A i \in DOMAIN w.call : w.call[i].state # "deferred"
    /\ w.at \in {"waiting", "picking"} => \A i \in w.errors : w.call[i].state = "unknown"
    /\ w.at \in Asking => \A i \in w.completed : w.call[i].state \in {"done", "failed"} /\ i \notin w.errors
    /\ w.at \in {"picking", "marking"} => w.impatient
    /\ w.at = "marking" => \A i \in DOMAIN w.call : i < w.next /\ w.call[i].state = "running" => i \in w.errors
    /\ w.at \in {"collecting", "answered"} =>
          \A i \in DOMAIN w.call \ (Good(w) \cup w.errors) :
             /\ w.call[i].state \in {"done", "failed"}
             /\ w.impatient \/ (w.at = "collecting" /\ i \in w.completed)

SeekOK(w) ==
    /\ w \in SeekRec
    /\ w.completed \subseteq DOMAIN w.call /\ w.errors \subseteq DOMAIN w.plan
    /\ Len(w.call) <= Len(w.plan)
    /\ CallsAreTrue(w) /\ ToldIsBrought(w) /\ Progress(w)

CacheOK(entries) ==
    /\ DOMAIN entries \subseteq Registered
    /\ \A s \in DOMAIN entries : entries[s].batch \in Nat /\ entries[s].expires \in Nat

RetrievalInv == /\ now \in Nat /\ asks \in Nat
                /\ seek = [p \in Seekers |-> seek[p]]
                /\ CacheOK(cache)
                /\ \A p \in Seekers : SeekOK(seek[p])

LEMMA NoSources == <<>> \in Answers /\ DOMAIN <<>> = {}
<1>1. DOMAIN <<>> = {} /\ <<>> = [s \in {} |-> 0]
  OBVIOUS
<1>2. [s \in {} |-> 0] \in [{} -> Nat] /\ {} \in SUBSET STRING
  OBVIOUS
<1> QED BY <1>1, <1>2 DEF Answers

LEMMA NoSeekOK == SeekOK(NoSeek)
<1>1. <<>> \in Seq(STRING) /\ <<>> \in Seq(CallRec) /\ Len(<<>>) = 0
  OBVIOUS
<1>2. NoSeek \in SeekRec
  BY <1>1, NoSources DEF NoSeek, SeekRec, Phases
<1>3. /\ NoSeek.at = "idle" /\ NoSeek.plan = <<>> /\ NoSeek.call = <<>> /\ NoSeek.told = <<>>
      /\ NoSeek.completed = {} /\ NoSeek.errors = {}
  BY DEF NoSeek
<1>4. DOMAIN NoSeek.call = {} /\ DOMAIN NoSeek.plan = {} /\ DOMAIN NoSeek.told = {}
  BY <1>3, NoSources
<1>5. CallsAreTrue(NoSeek) /\ Progress(NoSeek)
  BY <1>3, <1>4 DEF CallsAreTrue, Progress, Asking
<1>6. ToldIsBrought(NoSeek)
  BY <1>4 DEF ToldIsBrought, Good
<1> QED BY <1>1, <1>2, <1>3, <1>4, <1>5, <1>6 DEF SeekOK, Asking

LEMMA WithAnswer ==
    ASSUME NEW f \in Answers, NEW s \in STRING, NEW v \in Nat
    PROVE  /\ With(f, s, v) \in Answers
           /\ DOMAIN With(f, s, v) = DOMAIN f \cup {s}
           /\ With(f, s, v)[s] = v
           /\ \A r \in DOMAIN f \ {s} : With(f, s, v)[r] = f[r]
<1>1. PICK sources \in SUBSET STRING : f \in [sources -> Nat]
  BY DEF Answers
<1>2. With(f, s, v) \in [sources \cup {s} -> Nat] /\ sources \cup {s} \in SUBSET STRING
  BY <1>1 DEF With
<1> QED BY <1>1, <1>2 DEF Answers, With

LEMMA RetrievalInvInit == RetrievalInit => RetrievalInv
<1> SUFFICES ASSUME RetrievalInit PROVE RetrievalInv
  OBVIOUS
<1>1. CacheOK(cache)
  BY NoSources DEF RetrievalInit, CacheOK
<1>2. ASSUME NEW p \in Seekers
      PROVE  SeekOK(seek[p])
  BY NoSeekOK DEF RetrievalInit
<1> QED BY <1>1, <1>2 DEF RetrievalInit, RetrievalInv

\* The types that a step reads.
LEMMA SeekTypes ==
    ASSUME NEW w, SeekOK(w)
    PROVE  /\ w \in SeekRec /\ w.plan \in Seq(STRING) /\ w.call \in Seq(CallRec) /\ w.told \in Answers
           /\ w.since \in Nat /\ w.next \in Nat \ {0} /\ w.errors \subseteq Nat /\ w.completed \subseteq Nat
           /\ w.impatient \in BOOLEAN /\ w.cached \in BOOLEAN
           /\ Len(w.plan) \in Nat /\ DOMAIN w.plan = 1 .. Len(w.plan)
           /\ Len(w.call) \in Nat /\ DOMAIN w.call = 1 .. Len(w.call)
           /\ DOMAIN w.call \subseteq DOMAIN w.plan
           /\ \A i \in DOMAIN w.call : w.call[i] \in CallRec /\ w.plan[i] \in STRING
           /\ \A i \in DOMAIN w.plan : w.plan[i] \in STRING
BY DEF SeekOK, SeekRec

LEMMA RetrievalNumbers == \A s \in Registered : Ttl[s] \in Nat
BY RetrievalAssumption

\* What no call has gained or lost is told as before.
LEMMA ToldAsBefore ==
    ASSUME NEW w, NEW v, ToldIsBrought(w), v.told = w.told, v.plan = w.plan, Good(v) = Good(w),
           \A i \in Good(w) : v.call[i].batch = w.call[i].batch
    PROVE  ToldIsBrought(v)
BY DEF ToldIsBrought

LEMMA SeekStep ==
    ASSUME RetrievalInv, NEW p \in Seekers, NEW plan \in Cascades[p], NEW cached \in BOOLEAN, Seek(p, plan, cached)
    PROVE  RetrievalInv'
<1>1. plan \in Seq(STRING) /\ DOMAIN plan = 1 .. Len(plan) /\ Len(plan) \in Nat
  BY RetrievalAssumption
<1> DEFINE wrong == {i \in DOMAIN plan : plan[i] \notin Registered}
           v == [NoSeek EXCEPT !.at = "looking", !.plan = plan, !.cached = cached, !.since = now,
                       !.errors = wrong]
<1>2. /\ v.at = "looking" /\ v.plan = plan /\ v.errors = wrong /\ v.next = 1 /\ v.call = <<>> /\ v.told = <<>>
      /\ v.completed = {}
  BY DEF NoSeek
<1>3. <<>> \in Seq(CallRec) /\ Len(<<>>) = 0 /\ DOMAIN <<>> = {}
  BY NoSources
<1>4. v \in SeekRec
  <2>1. wrong \in SUBSET Nat
    BY <1>1
  <2> HIDE DEF wrong
  <2>2. NoSeek \in SeekRec /\ 1 \in Nat \ {0} /\ now \in Nat
    BY NoSeekOK DEF SeekOK, RetrievalInv
  <2> QED BY <1>1, <2>1, <2>2 DEF SeekRec, Phases
<1>5. UNCHANGED <<now, cache>> /\ asks' \in Nat /\ seek' = [seek EXCEPT ![p] = v]
  BY DEF Seek, RetrievalInv
<1> HIDE DEF v
<1>6. CallsAreTrue(v) /\ Progress(v) /\ ToldIsBrought(v)
  BY <1>2, <1>3 DEF CallsAreTrue, Progress, ToldIsBrought, Asking, Good
<1>7. SeekOK(v)
  BY <1>1, <1>2, <1>3, <1>4, <1>6 DEF SeekOK, Asking
<1> QED BY <1>5, <1>7 DEF RetrievalInv

LEMMA LookUpStep ==
    ASSUME RetrievalInv, NEW p \in Seekers, LookUp(p)
    PROVE  RetrievalInv'
<1>1. PICK w : w = seek[p]
  OBVIOUS
<1>2. SeekOK(w) /\ w.at = "looking" /\ w.next \in DOMAIN w.plan
  BY <1>1 DEF RetrievalInv, LookUp
<1>3. w \in SeekRec
  BY <1>2, SeekTypes
<1>4. now \in Nat
  BY DEF RetrievalInv
<1> DEFINE i == w.next
           s == w.plan[i]
           After(c, told) == [w EXCEPT !.next = i + 1, !.since = now, !.call = Append(w.call, c), !.told = told]
<1>5. i \in Nat \ {0} /\ s \in STRING /\ Len(w.call) = i - 1 /\ DOMAIN w.call = 1 .. (i - 1)
      /\ i \in 1 .. Len(w.plan) /\ w.call \in Seq(CallRec) /\ w.told \in Answers
      /\ w.errors = {j \in DOMAIN w.plan : w.plan[j] \notin Registered} /\ w.completed = {}
  BY <1>2, SeekTypes DEF SeekOK, Progress
<1>6. PICK c, told : /\ seek' = [seek EXCEPT ![p] = After(c, told)] /\ UNCHANGED <<now, asks, cache>>
                     /\ \/ c = Call("unknown", 0) /\ told = w.told /\ i \in w.errors
                        \/ /\ c = Call("hit", cache[s].batch) /\ told = With(w.told, s, cache[s].batch)
                           /\ i \notin w.errors /\ s \in DOMAIN cache
                        \/ c = Call("deferred", 0) /\ told = w.told /\ i \notin w.errors
  <2>1. CASE i \in w.errors
    BY <1>1, <2>1 DEF LookUp, RetrievalInv
  <2>2. CASE i \notin w.errors
    <3>1. /\ UNCHANGED <<now, asks, cache>>
          /\ \E stamp \in Stamps(p) :
                IF w.cached /\ Fresh(s, stamp)
                THEN seek' = [seek EXCEPT ![p].next = i + 1, ![p].since = now,
                                 ![p].call = Append(w.call, Call("hit", cache[s].batch)),
                                 ![p].told = With(w.told, s, cache[s].batch)]
                ELSE seek' = [seek EXCEPT ![p].next = i + 1, ![p].since = now,
                                 ![p].call = Append(w.call, Call("deferred", 0)), ![p].told = w.told]
      BY <1>1, <2>2 DEF LookUp
    <3>2. PICK stamp \in Stamps(p) :
             IF w.cached /\ Fresh(s, stamp)
                THEN seek' = [seek EXCEPT ![p] = After(Call("hit", cache[s].batch), With(w.told, s, cache[s].batch))]
                ELSE seek' = [seek EXCEPT ![p] = After(Call("deferred", 0), w.told)]
      BY <1>1, <3>1 DEF RetrievalInv
    <3>3. CASE w.cached /\ Fresh(s, stamp)
      BY <2>2, <3>1, <3>2, <3>3 DEF Fresh
    <3>4. CASE ~(w.cached /\ Fresh(s, stamp))
      BY <2>2, <3>1, <3>2, <3>4
    <3> QED BY <3>3, <3>4
  <2> QED BY <2>1, <2>2
<1> DEFINE v == After(c, told)
<1>7. /\ c \in CallRec
      /\ c.state \in {"unknown", "hit", "deferred"}
      /\ c.state = "unknown" <=> i \in w.errors
  BY <1>6 DEF Call, CallRec, CallStates, RetrievalInv, CacheOK
<1>8. c.state # "unknown" => s \in Registered
  BY <1>2, <1>5, <1>7
<1>9. /\ c.state = "hit" => told = With(w.told, s, c.batch) /\ c.batch \in Nat
      /\ c.state # "hit" => told = w.told
  BY <1>6, <1>7 DEF Call, CallRec
<1> HIDE DEF s
<1>10. told \in Answers
  <2>1. CASE c.state = "hit"
    <3>1. s \in STRING /\ w.told \in Answers /\ c.batch \in Nat /\ told = With(w.told, s, c.batch)
      BY <1>5, <1>9, <2>1
    <3> QED BY <3>1, WithAnswer
  <2>2. CASE c.state # "hit"
    BY <1>5, <1>9, <2>2
  <2> QED BY <2>1, <2>2
<1>11. /\ Append(w.call, c) \in Seq(CallRec) /\ Len(Append(w.call, c)) = i /\ Append(w.call, c)[i] = c
       /\ \A j \in 1 .. (i - 1) : Append(w.call, c)[j] = w.call[j]
  BY <1>5, <1>7
<1>12. /\ v \in SeekRec /\ v.at = "looking" /\ v.plan = w.plan /\ v.next = i + 1
       /\ v.call = Append(w.call, c) /\ v.completed = {} /\ v.errors = w.errors /\ v.told = told
  <2> DEFINE calls == Append(w.call, c)
  <2>1. calls \in Seq(CallRec) /\ told \in Answers /\ i + 1 \in Nat \ {0}
    BY <1>5, <1>10, <1>11
  <2>2. v = [w EXCEPT !.next = i + 1, !.since = now, !.call = calls, !.told = told]
    OBVIOUS
  <2> HIDE DEF calls, v
  <2>3. v \in SeekRec /\ v.at = w.at /\ v.plan = w.plan /\ v.next = i + 1
        /\ v.call = calls /\ v.completed = w.completed /\ v.errors = w.errors /\ v.told = told
    BY <1>3, <1>4, <2>1, <2>2 DEF SeekRec, Phases
  <2> QED BY <1>2, <1>5, <2>3 DEF calls
<1>13. /\ DOMAIN v.call = 1 .. i /\ v.call[i] = c /\ \A j \in 1 .. (i - 1) : v.call[j] = w.call[j]
  BY <1>5, <1>11, <1>12
<1> HIDE DEF v
<1>14. CallsAreTrue(v)
  <2> SUFFICES ASSUME NEW j \in 1 .. i
               PROVE  /\ v.call[j].state = "unknown" => j \in v.errors
                      /\ v.call[j].state \in {"hit", "told"} => j \notin v.errors
                      /\ v.call[j].state # "unknown" => v.plan[j] \in Registered
    BY <1>13 DEF CallsAreTrue
  <2>1. CASE j = i
    BY <1>6, <1>7, <1>8, <1>12, <1>13, <2>1 DEF s
  <2>2. CASE j # i
    <3>1. j \in DOMAIN w.call /\ v.call[j] = w.call[j]
      BY <1>5, <1>13, <2>2
    <3> QED BY <1>2, <1>12, <3>1 DEF SeekOK, CallsAreTrue
  <2> QED BY <2>1, <2>2
<1>15. ToldIsBrought(v)
  <2>1. CASE c.state = "hit"
    <3>1. Good(v) = Good(w) \cup {i}
      BY <1>5, <1>13, <2>1 DEF Good
    <3>2. v.told = With(w.told, s, c.batch) /\ DOMAIN v.told = DOMAIN w.told \cup {s}
          /\ v.told[s] = c.batch /\ \A r \in DOMAIN w.told \ {s} : v.told[r] = w.told[r]
      <4>1. s \in STRING /\ w.told \in Answers /\ c.batch \in Nat /\ v.told = With(w.told, s, c.batch)
        BY <1>5, <1>9, <1>12, <2>1
      <4> QED BY <4>1, WithAnswer
    <3>3. ToldIsBrought(w)
      BY <1>2 DEF SeekOK
    <3>4. \A j \in Good(w) : v.call[j].batch = w.call[j].batch
      BY <1>5, <1>13 DEF Good
    <3>5. DOMAIN v.told = {v.plan[j] : j \in Good(v)}
      BY <1>12, <3>1, <3>2, <3>3 DEF ToldIsBrought, s
    <3>6. ASSUME NEW r \in DOMAIN v.told
          PROVE  \E j \in Good(v) : v.plan[j] = r /\ v.told[r] = v.call[j].batch
      <4>1. CASE r = s
        BY <1>12, <1>13, <3>1, <3>2, <4>1 DEF s
      <4>2. CASE r # s
        <5>1. r \in DOMAIN w.told /\ v.told[r] = w.told[r]
          BY <3>2, <4>2
        <5>2. PICK j \in Good(w) : w.plan[j] = r /\ w.told[r] = w.call[j].batch
          BY <3>3, <5>1 DEF ToldIsBrought
        <5> QED BY <1>12, <3>1, <3>4, <5>1, <5>2
      <4> QED BY <4>1, <4>2
    <3> QED BY <3>5, <3>6 DEF ToldIsBrought
  <2>2. CASE c.state # "hit"
    <3>1. Good(v) = Good(w) /\ \A j \in Good(w) : v.call[j].batch = w.call[j].batch
      BY <1>5, <1>7, <1>13, <2>2 DEF Good
    <3> QED BY <1>2, <1>9, <1>12, <2>2, <3>1, ToldAsBefore DEF SeekOK
  <2> QED BY <2>1, <2>2
<1>16. Progress(v)
  BY <1>2, <1>5, <1>7, <1>11, <1>12, <1>13 DEF Progress, SeekOK, Asking
<1>17. SeekOK(v)
  BY <1>2, <1>5, <1>11, <1>12, <1>14, <1>15, <1>16 DEF SeekOK, Asking
<1> QED BY <1>6, <1>17 DEF RetrievalInv, v

\* A step that gives the calls of one cascade other states, or has looked at one
\* of them, and leaves what was told alone.
LEMMA QuietStep ==
    ASSUME NEW w, NEW v, SeekOK(w), v \in SeekRec,
           v.plan = w.plan, v.told = w.told, DOMAIN v.call = DOMAIN w.call,
           v.errors \subseteq DOMAIN v.plan, v.completed \subseteq DOMAIN v.call,
           CallsAreTrue(v), Progress(v),
           Good(v) = Good(w), \A i \in Good(w) : v.call[i].batch = w.call[i].batch
    PROVE  SeekOK(v)
<1>1. ToldIsBrought(v)
  BY ToldAsBefore DEF SeekOK
<1>2. v.call \in Seq(CallRec) /\ w.call \in Seq(CallRec)
  BY DEF SeekOK, SeekRec
<1>3. Len(v.call) = Len(w.call)
  BY <1>2
<1> QED BY <1>1, <1>3 DEF SeekOK

LEMMA DispatchStep ==
    ASSUME RetrievalInv, NEW p \in Seekers, Dispatch(p)
    PROVE  RetrievalInv'
<1>1. PICK w : w = seek[p]
  OBVIOUS
<1> DEFINE sent(c) == IF c.state = "deferred" THEN Call("running", 0) ELSE c
           calls == [i \in DOMAIN w.call |-> sent(w.call[i])]
           v == [w EXCEPT !.at = IF CallsOf(p, "deferred") = {} THEN "answered" ELSE "waiting",
                          !.since = now, !.call = calls]
<1>2. SeekOK(w) /\ w.at = "looking" /\ w.next > Len(w.plan)
  BY <1>1 DEF RetrievalInv, Dispatch
<1>3. seek' = [seek EXCEPT ![p] = v] /\ UNCHANGED <<now, asks, cache>>
  BY <1>1 DEF Dispatch, RetrievalInv
<1>4. /\ w \in SeekRec /\ w.call \in Seq(CallRec) /\ Len(w.plan) \in Nat
      /\ Len(w.call) \in Nat /\ DOMAIN w.call = 1 .. Len(w.call) /\ DOMAIN w.plan = 1 .. Len(w.plan)
      /\ w.next \in Nat \ {0}
      /\ \A i \in DOMAIN w.call : w.call[i] \in CallRec
  BY <1>2, SeekTypes
<1>5. Len(w.call) = Len(w.plan) /\ w.completed = {}
      /\ \A i \in DOMAIN w.call : w.call[i].state \in {"unknown", "hit", "deferred"}
  BY <1>2, <1>4 DEF SeekOK, Progress
<1>6. Call("running", 0) \in CallRec /\ Call("running", 0).state = "running"
  BY DEF Call, CallRec, CallStates
<1>7. /\ calls \in Seq(CallRec) /\ DOMAIN calls = DOMAIN w.call /\ Len(calls) = Len(w.call)
      /\ \A i \in DOMAIN w.call : /\ w.call[i].state = "deferred" => calls[i].state = "running"
                                  /\ w.call[i].state # "deferred" => calls[i] = w.call[i]
  <2>1. \A i \in DOMAIN w.call : sent(w.call[i]) \in CallRec
    BY <1>4, <1>6
  <2> QED BY <1>4, <1>6, <2>1
<1>8. (CallsOf(p, "deferred") = {} => \A i \in DOMAIN w.call : w.call[i].state # "deferred") /\ now \in Nat
  BY <1>1 DEF CallsOf, RetrievalInv
<1> HIDE DEF calls
<1>9. /\ v \in SeekRec /\ v.plan = w.plan /\ v.told = w.told /\ v.call = calls
      /\ v.errors = w.errors /\ v.completed = {} /\ v.at \in {"answered", "waiting"}
      /\ v.at = "answered" => \A i \in DOMAIN w.call : w.call[i].state # "deferred"
  BY <1>4, <1>5, <1>7, <1>8 DEF SeekRec, Phases, Asking
<1> HIDE DEF v
<1>10. CallsAreTrue(v)
  BY <1>2, <1>5, <1>7, <1>9 DEF SeekOK, CallsAreTrue
<1>11. Good(v) = Good(w)
  BY <1>7, <1>9 DEF Good
<1>12. \A i \in Good(w) : v.call[i].batch = w.call[i].batch
  BY <1>7, <1>9 DEF Good
<1>13. Progress(v)
  <2>1. \A i \in v.errors : w.call[i].state = "unknown"
    <3>1. \A i \in w.errors : i \in DOMAIN w.call /\ w.plan[i] \notin Registered
      BY <1>2, <1>4, <1>5 DEF SeekOK, Progress
    <3> QED BY <1>2, <1>9, <3>1 DEF SeekOK, CallsAreTrue
  <2>2. \A i \in v.errors : v.call[i].state = "unknown"
    BY <1>2, <1>4, <1>5, <1>7, <1>9, <2>1 DEF SeekOK
  <2>3. v.at = "answered" => \A i \in DOMAIN v.call \ (Good(v) \cup v.errors) : FALSE
    BY <1>2, <1>5, <1>7, <1>9 DEF Good, SeekOK, CallsAreTrue
  <2>4. Len(v.call) = Len(v.plan) /\ \A i \in DOMAIN v.call : v.call[i].state # "deferred"
    BY <1>5, <1>7, <1>9
  <2> QED BY <1>9, <2>2, <2>3, <2>4 DEF Progress, Asking
<1>14. SeekOK(v)
  BY <1>2, <1>7, <1>8, <1>9, <1>10, <1>11, <1>12, <1>13, QuietStep, RetrievalNumbers DEF SeekOK
<1> QED BY <1>3, <1>14 DEF RetrievalInv

LEMMA SourceEndsStep ==
    ASSUME RetrievalInv, NEW p \in Seekers, NEW i \in DOMAIN seek[p].call, NEW state \in {"done", "failed"},
           SourceEnds(p, i, state)
    PROVE  RetrievalInv'
<1>1. PICK w : w = seek[p]
  OBVIOUS
<1> DEFINE c == Call(state, IF state = "done" THEN now ELSE 0)
           calls == [w.call EXCEPT ![i] = c]
           v == [w EXCEPT !.call = calls]
<1>2. SeekOK(w) /\ w.at \in {"waiting", "picking", "marking"} /\ i \in DOMAIN w.call /\ w.call[i].state = "running"
  BY <1>1 DEF RetrievalInv, SourceEnds, CallsOf
<1>3. seek' = [seek EXCEPT ![p] = v] /\ UNCHANGED <<now, asks, cache>>
  BY <1>1 DEF SourceEnds, RetrievalInv
<1>4. /\ w \in SeekRec /\ w.call \in Seq(CallRec)
      /\ Len(w.call) \in Nat /\ DOMAIN w.call = 1 .. Len(w.call)
  BY <1>2, SeekTypes
<1>5. now \in Nat
  BY DEF RetrievalInv
<1>6. c \in CallRec /\ c.state = state /\ (state = "done" => c.batch = now)
  BY <1>5 DEF Call, CallRec, CallStates
<1> HIDE DEF c
<1>7. /\ calls \in Seq(CallRec) /\ DOMAIN calls = DOMAIN w.call /\ Len(calls) = Len(w.call)
      /\ calls[i] = c /\ \A j \in DOMAIN w.call \ {i} : calls[j] = w.call[j]
  BY <1>2, <1>4, <1>6
<1> HIDE DEF calls
<1>8. /\ v \in SeekRec /\ v.plan = w.plan /\ v.told = w.told /\ v.call = calls
      /\ v.errors = w.errors /\ v.completed = w.completed /\ v.at = w.at /\ v.next = w.next
      /\ v.impatient = w.impatient
  BY <1>4, <1>7 DEF SeekRec, Phases
<1> HIDE DEF v
<1>9. CallsAreTrue(v)
  <2>1. ASSUME NEW j \in DOMAIN w.call, j # i
        PROVE  /\ v.call[j].state = "unknown" => j \in v.errors
               /\ v.call[j].state \in {"hit", "told"} => j \notin v.errors
               /\ v.call[j].state # "unknown" => v.plan[j] \in Registered
    BY <1>2, <1>7, <1>8, <2>1 DEF SeekOK, CallsAreTrue
  <2>2. v.plan[i] \in Registered
    BY <1>2, <1>8 DEF SeekOK, CallsAreTrue
  <2> QED BY <1>5, <1>6, <1>7, <1>8, <2>1, <2>2 DEF CallsAreTrue
<1>10. Good(v) = Good(w) /\ \A j \in Good(w) : v.call[j].batch = w.call[j].batch
  BY <1>2, <1>6, <1>7, <1>8 DEF Good
<1>11. Progress(v)
  <2>1. Progress(w)
    BY <1>2 DEF SeekOK
  <2>2. w.at \in {"waiting", "picking"} => i \notin w.errors
    BY <1>2, <2>1 DEF Progress
  <2>3. i \notin w.completed
    BY <1>2, <2>1 DEF Progress, Asking
  <2>4. \A j \in w.errors \cup w.completed : j \in DOMAIN w.call
    BY <1>2, <1>4, SeekTypes DEF SeekOK, Progress, Asking
  <2> QED BY <1>2, <1>6, <1>7, <1>8, <2>1, <2>2, <2>3, <2>4 DEF Progress, Asking
<1>12. SeekOK(v)
  BY <1>2, <1>5, <1>7, <1>8, <1>9, <1>10, <1>11, QuietStep DEF SeekOK
<1> QED BY <1>3, <1>12 DEF RetrievalInv

\* A step of p that leaves its calls as they are.
LEMMA ScanStep ==
    ASSUME RetrievalInv, NEW p \in Seekers, UNCHANGED now, UNCHANGED cache, asks' \in Nat,
           seek' = [q \in Seekers |-> seek'[q]], \A q \in Seekers \ {p} : seek'[q] = seek[q],
           NEW w, w = seek[p], NEW v, v = seek'[p], v \in SeekRec,
           v.plan = w.plan, v.told = w.told, v.call = w.call, w.errors \subseteq v.errors,
           v.errors \subseteq DOMAIN v.plan, v.completed \subseteq DOMAIN v.call,
           \A i \in v.errors \ w.errors : i \notin Good(w),
           Progress(v)
    PROVE  RetrievalInv'
<1>1. SeekOK(w) /\ now \in Nat
  BY DEF RetrievalInv
<1>2. CallsAreTrue(v)
  <2> SUFFICES ASSUME NEW i \in DOMAIN v.call
               PROVE  LET c == v.call[i]
                      IN  /\ c.state = "unknown" => i \in v.errors
                          /\ c.state \in {"hit", "told"} => i \notin v.errors
                          /\ c.state # "unknown" => v.plan[i] \in Registered
    BY DEF CallsAreTrue
  <2>1. w.call[i].state \in {"hit", "told"} => i \notin v.errors
    BY <1>1 DEF SeekOK, CallsAreTrue, Good
  <2> QED BY <1>1, <2>1 DEF SeekOK, CallsAreTrue
<1>3. Good(v) = Good(w)
  BY DEF Good
<1>4. SeekOK(v)
  BY <1>1, <1>2, <1>3, QuietStep
<1> QED BY <1>4 DEF RetrievalInv

LEMMA AllDoneStep ==
    ASSUME RetrievalInv, NEW p \in Seekers, AllDone(p)
    PROVE  RetrievalInv'
<1>1. PICK w : w = seek[p]
  OBVIOUS
<1> DEFINE ended == CallsOf(p, "done") \cup CallsOf(p, "failed")
           v == [w EXCEPT !.at = "collecting", !.next = 1, !.since = now, !.completed = ended]
<1>2. SeekOK(w) /\ w.at = "waiting"
  BY <1>1 DEF RetrievalInv, AllDone
<1>3. seek' = [seek EXCEPT ![p] = v] /\ UNCHANGED <<now, asks, cache>>
  BY <1>1 DEF AllDone, RetrievalInv
<1>4. /\ w \in SeekRec /\ DOMAIN w.call \subseteq Nat
      /\ \A i \in DOMAIN w.call : w.call[i].state \in CallStates
  BY <1>2, SeekTypes DEF CallRec
<1>5. /\ ended \subseteq DOMAIN w.call
      /\ \A i \in DOMAIN w.call : /\ w.call[i].state # "running"
                                  /\ i \in ended <=> w.call[i].state \in {"done", "failed"}
  BY <1>1 DEF AllDone, CallsOf
<1> HIDE DEF ended
<1>6. /\ v \in SeekRec /\ v.plan = w.plan /\ v.told = w.told /\ v.call = w.call
      /\ v.errors = w.errors /\ v.completed = ended /\ v.at = "collecting"
  <2>1. "collecting" \in Phases /\ 1 \in Nat \ {0} /\ ended \in SUBSET Nat /\ now \in Nat
    BY <1>4, <1>5 DEF Phases, Asking, RetrievalInv
  <2>2. v = [w EXCEPT !.at = "collecting", !.next = 1, !.since = now, !.completed = ended]
    OBVIOUS
  <2> HIDE DEF v
  <2>3. v \in SeekRec
    BY <2>1, <2>2, <1>4 DEF SeekRec
  <2> QED BY <2>1, <2>2, <2>3, <1>4 DEF SeekRec
<1> HIDE DEF v
<1>7. Progress(w) /\ CallsAreTrue(w) /\ w.errors \subseteq DOMAIN w.plan
  BY <1>2 DEF SeekOK
<1>8. /\ Len(w.call) = Len(w.plan) /\ \A i \in DOMAIN w.call : w.call[i].state # "deferred"
      /\ \A i \in w.errors : w.call[i].state = "unknown"
  BY <1>2, <1>7 DEF Progress, Asking
<1>9. \A i \in DOMAIN w.call \ (Good(w) \cup w.errors) : w.call[i].state \in {"done", "failed"}
  BY <1>4, <1>5, <1>7, <1>8 DEF CallsAreTrue, Good, CallStates
<1>10. Progress(v)
  <2>1. Good(v) = Good(w)
    BY <1>6 DEF Good
  <2>2. \A i \in v.completed : v.call[i].state \in {"done", "failed"} /\ i \notin v.errors
    BY <1>5, <1>6, <1>8
  <2> QED BY <1>5, <1>6, <1>8, <1>9, <2>1, <2>2 DEF Progress, Asking
<1>11. v = seek'[p]
  BY <1>3 DEF RetrievalInv
<1>12. seek' = [q \in Seekers |-> seek'[q]] /\ \A q \in Seekers \ {p} : seek'[q] = seek[q]
  BY <1>3 DEF RetrievalInv
<1>13. asks' \in Nat
  BY <1>3 DEF RetrievalInv
<1> QED BY <1>1, <1>3, <1>5, <1>6, <1>7, <1>10, <1>11, <1>12, <1>13, ScanStep

LEMMA TimesOutStep ==
    ASSUME RetrievalInv, NEW p \in Seekers, TimesOut(p)
    PROVE  RetrievalInv'
<1>1. PICK w : w = seek[p]
  OBVIOUS
<1> DEFINE v == [w EXCEPT !.at = "picking", !.next = 1, !.since = now, !.impatient = TRUE]
<1>2. SeekOK(w) /\ w.at = "waiting"
  BY <1>1 DEF RetrievalInv, TimesOut
<1>3. seek' = [seek EXCEPT ![p] = v] /\ UNCHANGED <<now, asks, cache>>
  BY <1>1 DEF TimesOut, RetrievalInv
<1>4. w \in SeekRec
  BY <1>2, SeekTypes
<1>5. /\ v \in SeekRec /\ v.plan = w.plan /\ v.told = w.told /\ v.call = w.call
      /\ v.errors = w.errors /\ v.completed = w.completed /\ v.at = "picking" /\ v.impatient
  <2>1. "picking" \in Phases /\ 1 \in Nat \ {0} /\ now \in Nat
    BY <1>4 DEF Phases, Asking, RetrievalInv
  <2>2. v = [w EXCEPT !.at = "picking", !.next = 1, !.since = now, !.impatient = TRUE]
    OBVIOUS
  <2> HIDE DEF v
  <2>3. v \in SeekRec
    BY <2>1, <2>2, <1>4 DEF SeekRec
  <2> QED BY <2>1, <2>2, <2>3, <1>4 DEF SeekRec
<1>6. v = seek'[p] /\ seek' = [q \in Seekers |-> seek'[q]] /\ \A q \in Seekers \ {p} : seek'[q] = seek[q]
  BY <1>3 DEF RetrievalInv
<1> HIDE DEF v
<1>7. Progress(v)
  BY <1>2, <1>5 DEF SeekOK, Progress, Asking
<1>8. asks' \in Nat
  BY <1>3 DEF RetrievalInv
<1> QED BY <1>1, <1>2, <1>3, <1>5, <1>6, <1>7, <1>8, ScanStep DEF SeekOK

LEMMA PickStep ==
    ASSUME RetrievalInv, NEW p \in Seekers, Pick(p)
    PROVE  RetrievalInv'
<1>1. PICK w : w = seek[p]
  OBVIOUS
<1> DEFINE picked == IF w.call[w.next].state \in {"done", "failed"} THEN w.completed \cup {w.next} ELSE w.completed
           v == [w EXCEPT !.next = w.next + 1, !.completed = picked]
<1>2. SeekOK(w) /\ w.at = "picking" /\ w.next \in DOMAIN w.call
  BY <1>1 DEF RetrievalInv, Pick
<1>3. w \in SeekRec /\ w.next \in Nat \ {0} /\ w.completed \subseteq Nat
  BY <1>2, SeekTypes
<1>4. seek' = [seek EXCEPT ![p] = v] /\ UNCHANGED <<now, asks, cache>>
  BY <1>1, <1>3 DEF Pick, RetrievalInv, SeekRec
<1>5. Progress(w)
  BY <1>2 DEF SeekOK
<1>6. /\ picked \subseteq DOMAIN w.call /\ picked \subseteq Nat
      /\ \A i \in picked : w.call[i].state \in {"done", "failed"}
      /\ \A i \in w.errors : w.call[i].state = "unknown"
  BY <1>2, <1>3, <1>5 DEF SeekOK, Progress, Asking
<1> HIDE DEF picked
<1>7. /\ v \in SeekRec /\ v.plan = w.plan /\ v.told = w.told /\ v.call = w.call
      /\ v.errors = w.errors /\ v.completed = picked /\ v.at = "picking" /\ v.impatient = w.impatient
  <2>1. w.next + 1 \in Nat \ {0} /\ picked \in SUBSET Nat /\ w.at = "picking"
    BY <1>2, <1>3, <1>6 DEF Phases, Asking
  <2>2. v = [w EXCEPT !.next = w.next + 1, !.completed = picked]
    OBVIOUS
  <2> HIDE DEF v
  <2>3. v \in SeekRec
    BY <2>1, <2>2, <1>3 DEF SeekRec
  <2> QED BY <2>1, <2>2, <2>3, <1>3 DEF SeekRec
<1>8. v = seek'[p] /\ seek' = [q \in Seekers |-> seek'[q]] /\ \A q \in Seekers \ {p} : seek'[q] = seek[q]
  BY <1>4 DEF RetrievalInv
<1> HIDE DEF v
<1>9. Progress(v)
  <2>1. \A i \in picked : i \notin w.errors
    BY <1>6
  <2> QED BY <1>2, <1>5, <1>6, <1>7, <2>1 DEF Progress, Asking
<1>10. asks' \in Nat
  BY <1>4 DEF RetrievalInv
<1> QED BY <1>1, <1>2, <1>4, <1>6, <1>7, <1>8, <1>9, <1>10, ScanStep DEF SeekOK

LEMMA MarkLateStep ==
    ASSUME RetrievalInv, NEW p \in Seekers, MarkLate(p)
    PROVE  RetrievalInv'
<1>1. PICK w : w = seek[p]
  OBVIOUS
<1> DEFINE late == IF w.call[w.next].state = "running" THEN w.errors \cup {w.next} ELSE w.errors
           v == [w EXCEPT !.next = w.next + 1, !.errors = late]
<1>2. SeekOK(w) /\ w.at = "marking" /\ w.next \in DOMAIN w.call
  BY <1>1 DEF RetrievalInv, MarkLate
<1>3. w \in SeekRec /\ w.next \in Nat \ {0} /\ w.errors \subseteq Nat /\ DOMAIN w.call \subseteq DOMAIN w.plan
      /\ DOMAIN w.call \subseteq Nat
  BY <1>2, SeekTypes
<1>4. seek' = [seek EXCEPT ![p] = v] /\ UNCHANGED <<now, asks, cache>>
  BY <1>1, <1>3 DEF MarkLate, RetrievalInv, SeekRec
<1>5. Progress(w) /\ w.errors \subseteq DOMAIN w.plan
  BY <1>2 DEF SeekOK
<1>6. /\ late \subseteq DOMAIN w.plan /\ late \subseteq Nat /\ w.errors \subseteq late
      /\ \A i \in late \ w.errors : i = w.next /\ w.call[i].state = "running"
      /\ w.call[w.next].state = "running" => w.next \in late
  BY <1>2, <1>3, <1>5
<1> HIDE DEF late
<1>7. /\ v \in SeekRec /\ v.plan = w.plan /\ v.told = w.told /\ v.call = w.call
      /\ v.errors = late /\ v.completed = w.completed /\ v.at = "marking" /\ v.impatient = w.impatient
      /\ v.next = w.next + 1
  <2>1. w.next + 1 \in Nat \ {0} /\ late \in SUBSET Nat /\ w.at = "marking"
    BY <1>2, <1>3, <1>6 DEF Phases, Asking
  <2>2. v = [w EXCEPT !.next = w.next + 1, !.errors = late]
    OBVIOUS
  <2> HIDE DEF v
  <2>3. v \in SeekRec
    BY <2>1, <2>2, <1>3 DEF SeekRec
  <2> QED BY <2>1, <2>2, <2>3, <1>3 DEF SeekRec
<1>8. v = seek'[p] /\ seek' = [q \in Seekers |-> seek'[q]] /\ \A q \in Seekers \ {p} : seek'[q] = seek[q]
  BY <1>4 DEF RetrievalInv
<1> HIDE DEF v
<1>9. Progress(v)
  <2>1. ASSUME NEW i \in w.completed
        PROVE  w.call[i].state \in {"done", "failed"} /\ i \notin late
    BY <1>2, <1>5, <1>6 DEF Progress, Asking
  <2>2. ASSUME NEW i \in DOMAIN w.call, i < w.next + 1, w.call[i].state = "running"
        PROVE  i \in late
    BY <1>2, <1>3, <1>5, <1>6, <2>2 DEF Progress
  <2> QED BY <1>2, <1>5, <1>7, <2>1, <2>2 DEF Progress, Asking
<1>10. asks' \in Nat /\ w.at \in Asking /\ \A i \in late \ w.errors : i \notin Good(w)
  BY <1>2, <1>4, <1>6 DEF RetrievalInv, Asking, Good
<1> QED BY <1>1, <1>2, <1>4, <1>6, <1>7, <1>8, <1>9, <1>10, ScanStep DEF SeekOK

LEMMA EndScanStep ==
    ASSUME RetrievalInv, NEW p \in Seekers, EndScan(p)
    PROVE  RetrievalInv'
<1>1. PICK w : w = seek[p]
  OBVIOUS
<1> DEFINE place == IF w.at = "picking" THEN "marking" ELSE "collecting"
           v == [w EXCEPT !.next = 1, !.since = now, !.at = place]
<1>2. SeekOK(w) /\ w.at \in {"picking", "marking"} /\ w.next > Len(w.call)
  BY <1>1 DEF RetrievalInv, EndScan
<1>3. /\ w \in SeekRec /\ w.next \in Nat \ {0} /\ Len(w.call) \in Nat /\ DOMAIN w.call = 1 .. Len(w.call)
      /\ \A i \in DOMAIN w.call : w.call[i].state \in CallStates
  BY <1>2, SeekTypes DEF CallRec
<1>4. seek' = [seek EXCEPT ![p] = v] /\ UNCHANGED <<now, asks, cache>>
  BY <1>1 DEF EndScan, RetrievalInv
<1>5. Progress(w) /\ CallsAreTrue(w)
  BY <1>2 DEF SeekOK
<1>6. place \in Asking /\ (w.at = "picking" => place = "marking") /\ (w.at = "marking" => place = "collecting")
  BY DEF Asking
<1> HIDE DEF place
<1>7. /\ v \in SeekRec /\ v.plan = w.plan /\ v.told = w.told /\ v.call = w.call
      /\ v.errors = w.errors /\ v.completed = w.completed /\ v.at = place /\ v.impatient = w.impatient
      /\ v.next = 1
  <2>1. place \in Phases /\ 1 \in Nat \ {0} /\ now \in Nat
    BY <1>6 DEF Phases, Asking, RetrievalInv
  <2>2. v = [w EXCEPT !.next = 1, !.since = now, !.at = place]
    OBVIOUS
  <2> HIDE DEF v
  <2>3. v \in SeekRec
    BY <2>1, <2>2, <1>3 DEF SeekRec
  <2> QED BY <2>1, <2>2, <2>3, <1>3 DEF SeekRec
<1>8. v = seek'[p] /\ seek' = [q \in Seekers |-> seek'[q]] /\ \A q \in Seekers \ {p} : seek'[q] = seek[q]
  BY <1>4 DEF RetrievalInv
<1> HIDE DEF v
<1>9. Progress(v)
  <2>1. Good(v) = Good(w)
    BY <1>7 DEF Good
  <2>2. /\ Len(w.call) = Len(w.plan) /\ w.impatient
        /\ \A i \in DOMAIN w.call : w.call[i].state # "deferred"
        /\ \A i \in w.completed : w.call[i].state \in {"done", "failed"} /\ i \notin w.errors
    BY <1>2, <1>5 DEF Progress, Asking
  <2>3. CASE w.at = "picking"
    <3>1. \A i \in DOMAIN v.call : i < v.next /\ v.call[i].state = "running" => i \in v.errors
      BY <1>3, <1>7
    <3> QED BY <1>6, <1>7, <2>2, <2>3, <3>1 DEF Progress, Asking
  <2>4. CASE w.at = "marking"
    <3>1. \A i \in DOMAIN w.call : w.call[i].state = "running" => i \in w.errors
      BY <1>2, <1>3, <1>5, <2>4 DEF Progress
    <3>2. \A i \in DOMAIN w.call \ (Good(w) \cup w.errors) : w.call[i].state \in {"done", "failed"}
      BY <1>3, <1>5, <2>2, <3>1 DEF CallsAreTrue, Good, CallStates
    <3> QED BY <1>6, <1>7, <2>1, <2>2, <2>4, <3>2 DEF Progress, Asking
  <2> QED BY <1>2, <2>3, <2>4
<1>10. asks' \in Nat
  BY <1>4 DEF RetrievalInv
<1> QED BY <1>1, <1>2, <1>4, <1>7, <1>8, <1>9, <1>10, ScanStep DEF SeekOK

LEMMA AnsweredStep ==
    ASSUME RetrievalInv, NEW p \in Seekers, Answered(p)
    PROVE  RetrievalInv'
<1>1. PICK w : w = seek[p]
  OBVIOUS
<1> DEFINE v == [w EXCEPT !.at = "answered", !.since = 0]
<1>2. SeekOK(w) /\ w.at = "collecting" /\ w.completed = {} /\ now \in Nat
  BY <1>1 DEF RetrievalInv, Answered
<1>3. w \in SeekRec
  BY <1>2, SeekTypes
<1>4. seek' = [seek EXCEPT ![p] = v] /\ UNCHANGED <<now, asks, cache>>
  BY <1>1 DEF Answered, RetrievalInv
<1>5. /\ v \in SeekRec /\ v.plan = w.plan /\ v.told = w.told /\ v.call = w.call /\ v.since = 0
      /\ v.errors = w.errors /\ v.completed = {} /\ v.at = "answered" /\ v.impatient = w.impatient
  <2>1. "answered" \in Phases
    BY DEF Phases
  <2>2. v = [w EXCEPT !.at = "answered", !.since = 0]
    OBVIOUS
  <2> HIDE DEF v
  <2>3. v \in SeekRec
    BY <1>3, <2>1, <2>2 DEF SeekRec
  <2> QED BY <1>2, <1>3, <2>2, <2>3 DEF SeekRec
<1> HIDE DEF v
<1>6. Good(v) = Good(w)
  BY <1>5 DEF Good
<1>7. \A i \in DOMAIN w.call : w.call[i] \in CallRec
  BY <1>2, SeekTypes
<1>8. CallsAreTrue(v)
  <2>1. \A i \in DOMAIN w.call : w.call[i].batch \in Nat
    BY <1>7 DEF CallRec
  <2> QED BY <1>2, <1>5, <2>1 DEF SeekOK, CallsAreTrue
<1>9. Progress(v)
  <2>1. Progress(w)
    BY <1>2 DEF SeekOK
  <2>2. \A i \in DOMAIN w.call \ (Good(w) \cup w.errors) :
           w.call[i].state \in {"done", "failed"} /\ w.impatient
    BY <1>2, <2>1 DEF Progress
  <2> QED BY <1>2, <1>5, <1>6, <2>1, <2>2 DEF Progress, Asking
<1>10. SeekOK(v)
  BY <1>2, <1>5, <1>6, <1>8, <1>9, QuietStep DEF SeekOK, Asking
<1> QED BY <1>4, <1>10 DEF RetrievalInv

LEMMA SeekerDiesStep ==
    ASSUME RetrievalInv, NEW p \in Seekers, SeekerDies(p)
    PROVE  RetrievalInv'
<1>1. seek' = [seek EXCEPT ![p] = NoSeek] /\ UNCHANGED <<now, asks, cache>>
  BY DEF SeekerDies
<1>2. SeekOK(NoSeek)
  BY NoSeekOK DEF RetrievalInv
<1> QED BY <1>1, <1>2 DEF RetrievalInv

LEMMA TickStep ==
    ASSUME RetrievalInv, Tick
    PROVE  RetrievalInv'
<1>1. now \in Nat /\ now' = now + 1 /\ UNCHANGED <<asks, cache, seek>>
  BY DEF RetrievalInv, Tick
<1> QED BY <1>1 DEF RetrievalInv

LEMMA CollectStep ==
    ASSUME RetrievalInv, NEW p \in Seekers, Collect(p)
    PROVE  RetrievalInv'
<1>1. PICK w : w = seek[p]
  OBVIOUS
<1>2. SeekOK(w) /\ now \in Nat
  BY <1>1 DEF RetrievalInv
<1>3. PICK i \in w.completed :
         /\ w.at = "collecting"
         /\ IF w.call[i].state = "failed"
            THEN /\ seek' = [seek EXCEPT ![p].completed = @ \ {i}, ![p].errors = @ \cup {i}, ![p].since = now]
                 /\ UNCHANGED cache
            ELSE /\ seek' = [seek EXCEPT ![p].completed = @ \ {i},
                                ![p].told = With(w.told, w.plan[i], w.call[i].batch),
                                ![p].call[i].state = "told", ![p].since = now]
                 /\ \/ w.cached /\ \E stamp \in Stamps(p) : Keep(w.plan[i], w.call[i].batch, stamp)
                    \/ UNCHANGED cache
         /\ UNCHANGED <<now, asks>>
  BY <1>1 DEF Collect
<1>4. /\ w \in SeekRec /\ w.errors \subseteq Nat /\ w.completed \subseteq Nat
      /\ w.call \in Seq(CallRec) /\ Len(w.call) \in Nat /\ DOMAIN w.call = 1 .. Len(w.call)
      /\ DOMAIN w.call \subseteq DOMAIN w.plan /\ w.told \in Answers /\ w.since \in Nat
      /\ \A j \in DOMAIN w.call : w.call[j] \in CallRec /\ w.plan[j] \in STRING
  BY <1>2, SeekTypes
<1>5. Progress(w) /\ CallsAreTrue(w) /\ ToldIsBrought(w)
      /\ w.completed \subseteq DOMAIN w.call /\ w.errors \subseteq DOMAIN w.plan
  BY <1>2 DEF SeekOK
<1>6. /\ i \in DOMAIN w.call /\ i \in DOMAIN w.plan /\ i \in Nat
      /\ w.call[i].state \in {"done", "failed"} /\ i \notin w.errors /\ i \notin Good(w)
  BY <1>3, <1>4, <1>5 DEF Progress, Asking, Good
<1>7. CASE w.call[i].state = "failed"
  <2> DEFINE left == w.completed \ {i}
             failed == w.errors \cup {i}
             v == [w EXCEPT !.completed = left, !.errors = failed, !.since = now]
  <2>1. seek' = [seek EXCEPT ![p] = v] /\ UNCHANGED <<now, asks, cache>>
    BY <1>1, <1>3, <1>4, <1>7 DEF RetrievalInv, SeekRec
  <2>2. left \in SUBSET Nat /\ failed \in SUBSET Nat
    BY <1>4, <1>6
  <2>3. v = [w EXCEPT !.completed = left, !.errors = failed, !.since = now]
    OBVIOUS
  <2> HIDE DEF v
  <2>4. v \in SeekRec
    BY <1>2, <1>4, <2>2, <2>3 DEF SeekRec
  <2>5. /\ v.plan = w.plan /\ v.told = w.told /\ v.call = w.call
        /\ v.errors = failed /\ v.completed = left /\ v.at = "collecting" /\ v.impatient = w.impatient
    BY <1>3, <1>4, <2>3 DEF SeekRec
  <2>6. v = seek'[p] /\ seek' = [q \in Seekers |-> seek'[q]] /\ \A q \in Seekers \ {p} : seek'[q] = seek[q]
    BY <2>1 DEF RetrievalInv
  <2>7. Progress(v)
    <3>1. Good(v) = Good(w)
      BY <2>5 DEF Good
    <3>2. \A j \in v.completed : v.call[j].state \in {"done", "failed"} /\ j \notin v.errors
      BY <1>3, <1>5, <2>5 DEF Progress, Asking
    <3>3. \A j \in DOMAIN v.call \ (Good(v) \cup v.errors) :
             v.call[j].state \in {"done", "failed"} /\ (v.impatient \/ j \in v.completed)
      BY <1>3, <1>5, <2>5, <3>1 DEF Progress
    <3>4. Len(v.call) = Len(v.plan) /\ \A j \in DOMAIN v.call : v.call[j].state # "deferred"
      BY <1>3, <1>5, <2>5 DEF Progress, Asking
    <3> QED BY <2>5, <3>2, <3>3, <3>4 DEF Progress, Asking
  <2>8. asks' \in Nat
    BY <1>3 DEF RetrievalInv
  <2>9. failed \subseteq DOMAIN w.plan /\ left \subseteq DOMAIN w.call /\ w.errors \subseteq failed
        /\ \A j \in failed \ w.errors : j \notin Good(w)
    BY <1>5, <1>6
  <2> HIDE DEF left, failed
  <2> QED BY <1>1, <2>1, <2>4, <2>5, <2>6, <2>7, <2>8, <2>9, ScanStep
<1>8. CASE w.call[i].state = "done"
  <2> DEFINE s == w.plan[i]
             b == w.call[i].batch
             left == w.completed \ {i}
             told == With(w.told, s, b)
             c == [w.call[i] EXCEPT !.state = "told"]
             calls == [w.call EXCEPT ![i] = c]
             v == [w EXCEPT !.completed = left, !.told = told, !.call = calls, !.since = now]
  <2>1. seek' = [seek EXCEPT ![p] = v] /\ UNCHANGED <<now, asks>>
        /\ ((\E stamp \in Stamps(p) : Keep(s, b, stamp)) \/ UNCHANGED cache)
    <3>1. seek' = [seek EXCEPT ![p].completed = @ \ {i}, ![p].told = told, ![p].call[i].state = "told",
                               ![p].since = now]
          /\ UNCHANGED <<now, asks>> /\ ((\E stamp \in Stamps(p) : Keep(s, b, stamp)) \/ UNCHANGED cache)
      BY <1>3, <1>8
    <3> HIDE DEF told, s, b
    <3>2. seek' = [seek EXCEPT ![p] = [w EXCEPT !.completed = left, !.told = told, !.call = calls, !.since = now]]
      BY <1>1, <1>4, <1>6, <3>1 DEF RetrievalInv, SeekRec
    <3> QED BY <3>1, <3>2
  <2>2. s \in STRING /\ s \in Registered /\ b \in Nat
    BY <1>4, <1>5, <1>6, <1>8 DEF CallsAreTrue, CallRec
  <2>4. c \in CallRec /\ c.state = "told" /\ c.batch = b
    BY <1>4, <1>6 DEF CallRec, CallStates
  <2> HIDE DEF c
  <2>5. /\ calls \in Seq(CallRec) /\ DOMAIN calls = DOMAIN w.call /\ Len(calls) = Len(w.call)
        /\ calls[i] = c /\ \A j \in DOMAIN w.call \ {i} : calls[j] = w.call[j]
    BY <1>4, <1>6, <2>4
  <2>6. /\ told \in Answers /\ DOMAIN told = DOMAIN w.told \cup {s} /\ told[s] = b
        /\ \A r \in DOMAIN w.told \ {s} : told[r] = w.told[r]
    <3> HIDE DEF s, b
    <3> QED BY <1>4, <2>2, WithAnswer
  <2>7. v = [w EXCEPT !.completed = left, !.told = told, !.call = calls, !.since = now]
    OBVIOUS
  <2>8. left \in SUBSET Nat
    BY <1>4
  <2> HIDE DEF v, told, calls, s, b
  <2>9. v \in SeekRec
    BY <1>2, <1>4, <2>5, <2>6, <2>7, <2>8 DEF SeekRec
  <2>10. /\ v.plan = w.plan /\ v.told = told /\ v.call = calls
         /\ v.errors = w.errors /\ v.completed = left /\ v.at = "collecting" /\ v.impatient = w.impatient
    BY <1>3, <1>4, <2>7 DEF SeekRec
  <2>11. Good(v) = Good(w) \cup {i}
    BY <1>6, <2>4, <2>5, <2>10 DEF Good
  <2>12. CallsAreTrue(v)
    <3>1. ASSUME NEW j \in DOMAIN w.call, j # i
          PROVE  /\ v.call[j].state = "unknown" => j \in v.errors
                 /\ v.call[j].state \in {"hit", "told"} => j \notin v.errors
                 /\ v.call[j].state # "unknown" => v.plan[j] \in Registered
      BY <1>5, <2>5, <2>10, <3>1 DEF CallsAreTrue
    <3> QED BY <1>6, <2>2, <2>4, <2>5, <2>10, <3>1 DEF CallsAreTrue, s
  <2>13. ToldIsBrought(v)
    <3>1. DOMAIN v.told = {v.plan[j] : j \in Good(v)}
      BY <1>5, <2>6, <2>10, <2>11 DEF ToldIsBrought, s
    <3>2. ASSUME NEW r \in DOMAIN v.told
          PROVE  \E j \in Good(v) : v.plan[j] = r /\ v.told[r] = v.call[j].batch
      <4>1. CASE r = s
        BY <2>4, <2>5, <2>6, <2>10, <2>11, <4>1 DEF s
      <4>2. CASE r # s
        <5>1. r \in DOMAIN w.told /\ v.told[r] = w.told[r]
          BY <2>6, <2>10, <4>2
        <5>2. PICK j \in Good(w) : w.plan[j] = r /\ w.told[r] = w.call[j].batch
          BY <1>5, <5>1 DEF ToldIsBrought
        <5>3. j \in DOMAIN w.call \ {i}
          BY <1>6 DEF Good
        <5> QED BY <2>5, <2>10, <2>11, <5>1, <5>2, <5>3
      <4> QED BY <4>1, <4>2
    <3> QED BY <3>1, <3>2 DEF ToldIsBrought
  <2>14. Progress(v)
    <3>1. \A j \in v.completed : v.call[j].state \in {"done", "failed"} /\ j \notin v.errors
      BY <1>3, <1>5, <2>5, <2>10 DEF Progress, Asking
    <3>2. \A j \in DOMAIN v.call \ (Good(v) \cup v.errors) :
             v.call[j].state \in {"done", "failed"} /\ (v.impatient \/ j \in v.completed)
      BY <1>3, <1>5, <2>5, <2>10, <2>11 DEF Progress
    <3>3. Len(v.call) = Len(v.plan)
      BY <1>3, <1>5, <2>5, <2>10 DEF Progress, Asking
    <3>4. \A j \in DOMAIN v.call : v.call[j].state # "deferred"
      BY <1>3, <1>5, <2>4, <2>5, <2>10 DEF Progress, Asking
    <3> QED BY <2>10, <3>1, <3>2, <3>3, <3>4 DEF Progress, Asking
  <2>15. SeekOK(v)
    BY <1>2, <1>3, <1>5, <2>5, <2>9, <2>10, <2>12, <2>13, <2>14 DEF SeekOK, Asking
  <2>16. CacheOK(cache')
    <3>1. CASE UNCHANGED cache
      BY <3>1 DEF RetrievalInv
    <3>2. ASSUME NEW stamp \in Stamps(p), Keep(s, b, stamp)
          PROVE  CacheOK(cache')
      <4>1. PICK row : row = [batch |-> b, expires |-> stamp + Ttl[s]]
        OBVIOUS
      <4>2. row.batch = b /\ row.expires = stamp + Ttl[s]
        BY <4>1
      <4>3. /\ DOMAIN cache' = DOMAIN cache \cup {s} /\ cache'[s] = row
            /\ \A r \in DOMAIN cache \ {s} : cache'[r] = cache[r]
        BY <3>2, <4>1 DEF Keep, With
      <4>4. row.batch \in Nat /\ row.expires \in Nat
        <5>1. Ttl[s] \in Nat /\ stamp \in Nat
          BY <1>1, <1>2, <1>4, <2>2, RetrievalNumbers DEF Stamps
        <5> QED BY <2>2, <4>2, <5>1
      <4> QED BY <2>2, <4>3, <4>4 DEF RetrievalInv, CacheOK
    <3> QED BY <2>1, <3>1, <3>2
  <2> QED BY <2>1, <2>15, <2>16 DEF RetrievalInv
<1> QED BY <1>6, <1>7, <1>8

LEMMA RetrievalInvStep == RetrievalInv /\ [RetrievalNext]_retrievalVars => RetrievalInv'
<1> SUFFICES ASSUME RetrievalInv, [RetrievalNext]_retrievalVars PROVE RetrievalInv'
  OBVIOUS
<1>1. CASE UNCHANGED retrievalVars
  BY <1>1 DEF retrievalVars, RetrievalInv
<1>2. CASE RetrievalNext
  BY <1>2, TickStep, SeekStep, LookUpStep, DispatchStep, AllDoneStep, TimesOutStep, PickStep, MarkLateStep,
     EndScanStep, SourceEndsStep, CollectStep, AnsweredStep, SeekerDiesStep DEF RetrievalNext
<1> QED BY <1>1, <1>2

\* The invariant of the cascades, with any number of processes at one cache.
THEOREM RetrievalInvariant == RetrievalSpec => []RetrievalInv
BY RetrievalInvInit, RetrievalInvStep, PTL DEF RetrievalSpec

\* Whatever is asked, however long anything takes, whenever sources answer and
\* whoever dies in between, an answer accounts for its plan and tells of each
\* source what that source, or the cache, gave.
THEOREM AnswersAddUp == RetrievalSpec => []AnswerAddsUp
<1>1. RetrievalInv => AnswerAddsUp
  <2> SUFFICES ASSUME RetrievalInv, NEW p \in Seekers, seek[p].at = "answered"
               PROVE  LET w == seek[p]
                          ok == CallsOf(p, "hit") \cup CallsOf(p, "told")
                          silent == DOMAIN w.plan \ (ok \cup w.errors)
                      IN  /\ ok \cap w.errors = {}
                          /\ silent # {} => w.impatient
                          /\ \A i \in silent : w.call[i].state \in {"done", "failed"}
                          /\ DOMAIN w.told = {w.plan[i] : i \in ok}
                          /\ \A s \in DOMAIN w.told : \E i \in ok : w.plan[i] = s /\ w.told[s] = w.call[i].batch
    BY DEF AnswerAddsUp
  <2>1. PICK w : w = seek[p]
    OBVIOUS
  <2>2. SeekOK(w) /\ w.at = "answered"
    BY <2>1 DEF RetrievalInv
  <2>3. Good(w) = CallsOf(p, "hit") \cup CallsOf(p, "told")
    BY <2>1 DEF Good, CallsOf
  <2>4. DOMAIN w.plan = DOMAIN w.call
    BY <2>2, SeekTypes DEF SeekOK, Progress
  <2>5. Good(w) \cap w.errors = {}
    BY <2>2 DEF SeekOK, CallsAreTrue, Good
  <2>6. \A i \in DOMAIN w.plan \ (Good(w) \cup w.errors) : w.call[i].state \in {"done", "failed"} /\ w.impatient
    BY <2>2, <2>4 DEF SeekOK, Progress
  <2>7. ToldIsBrought(w)
    BY <2>2 DEF SeekOK
  <2> QED BY <2>1, <2>3, <2>5, <2>6, <2>7 DEF ToldIsBrought
<1> QED BY <1>1, RetrievalInvariant, PTL


-----------------------------------------------------------------------------
(* The handlers of Handlers.tla, the entries of Frontends.tla and the      *)
(* requests of Operations.tla.  A handler is a sequence of steps, put      *)
(* together from a few openings with When, Unless and \o.                  *)

IsStep(x) == x = [do |-> x.do, on |-> x.on, when |-> x.when, unless |-> x.unless]
IsSeq(s) == \E S : s \in Seq(S)
Handler(s) == IsSeq(s) /\ \A i \in DOMAIN s : IsStep(s[i])

Writes(step) == step.do \in {"put", "add"}
Halting(step) == step.do \in {"need", "raise"}

\* What a request that is refused may have changed.
Outside == {"layout", "users", "cache"}

\* A handler that cannot be refused.
Calm(s) == \A i \in DOMAIN s : ~Halting(s[i])

\* It writes nothing but these stores without one of these options.
Keeps(options, stores, s) ==
    \A i \in DOMAIN s : Writes(s[i]) => s[i].on \in stores \/ s[i].when \cap options # {}

\* It is refused before it writes.
Early(s) ==
    \A i, j \in DOMAIN s : i < j /\ Writes(s[i]) /\ s[i].on \notin Outside => ~Halting(s[j])

\* It writes nothing in a preview.
Spares(s) == \A i \in DOMAIN s : Writes(s[i]) => "dry_run" \in s[i].unless

\* A packet with what the scheduler gives it is not refused and adds only findings and runs.
Repeatable(s) ==
    \A i \in DOMAIN s : /\ s[i].do # "raise"
                        /\ s[i].do = "need" => s[i].on \in PacketFacts
                        /\ s[i].do = "add" => s[i].on \in {"proposals", "runs"}

\* Of the commands of the memory tool, what stops an edit comes after what a creation writes.
EditsComeLast(s) ==
    \A i, j \in DOMAIN s :
        i < j /\ Writes(s[i]) /\ Halting(s[j]) => "create" \in s[i].when /\ "edit" \in s[j].when

\* The operations that a caller may ask for as a read.
ReadingOps ==
    {"summarize_text", "list_vault_notes", "read_vault_note", "list_proposals", "list_tasks",
     "task_stats", "search_memory", "memory_stats", "memory_recall", "memory_tool", "wiki_status",
     "wiki_search", "wiki_graph_query", "wiki_doctor", "wiki_dream", "wiki_lint", "context_pack_build",
     "claims_list", "claims_show", "claims_stats", "projection_list", "projection_snapshots",
     "workflow_list", "workflow_show", "workflow_query", "event_log_dump", "event_log_list",
     "retrieve_cascade", "fetch_url_reader", "retrieve_doctor", "research_kb_status",
     "research_kb_search", "research_kb_read", "researchflow_skill_inventory", "skill_sync",
     "list_skills", "get_skill", "recommend_skills", "analyze_skills", "optimizer_list_skill_versions",
     "optimizer_list_runs", "eval_list", "eval_show", "ab_test_list", "ab_test_show", "ab_test_stats",
     "judge_evaluate", "meta_cross_skill_scan", "inbox_classify", "channel_list", "channel_health",
     "api_management_status", "app_report_build", "app_route_task", "app_intent_route", "calendar_list",
     "task_list_personal", "schedule_plan", "user_list", "user_memory_recall", "user_memory_archival",
     "project_list", "project_show", "finance_screen", "finance_watch_list", "finance_portfolio_stats"}

\* The options with which they write after all.
WritesWith(name) ==
    IF name \in {"wiki_dream", "wiki_lint", "context_pack_build"} THEN {"persist"}
    ELSE IF name = "skill_sync" THEN {"apply"}
    ELSE IF name = "app_report_build" THEN {"persist", "narrate"}
    ELSE IF name = "memory_tool" THEN {"create", "edit"}
    ELSE {}

\* The operations that are only asked for as writes.
WritingOps ==
    {"write_markdown", "capture_url", "propose_knowledge", "digest_proposal", "approve_proposal",
     "reject_proposal", "enqueue_task", "claim_task", "complete_task", "fail_task",
     "optimizer_register_skill_version", "optimizer_record_run", "build_daily_report",
     "build_weekly_report", "build_monthly_report", "memory_remember_core", "memory_forget_core",
     "memory_promote_recall", "wiki_init", "wiki_propose_research", "wiki_apply_proposal",
     "wiki_ingest", "wiki_supersede", "wiki_conflict_resolve", "wiki_reindex", "projection_rebuild",
     "projection_rollback", "workflow_signal", "workflow_resume", "wiki_log_append", "schedule_tick",
     "register_skill", "disable_skill", "harness_preference_add", "harness_compile",
     "harness_compile_skill", "harness_redundancy_scan", "argilla_export_proposals",
     "argilla_sync_feedback", "eval_run", "eval_promote", "user_enroll", "user_approve",
     "user_set_persona", "task_done", "finance_watch_create", "project_plan", "pptx_build",
     "calendar_add", "task_add", "order_propose", "skill_stubs_sync", "ab_test_run"}

\* The operations of the tools that are announced as read only.
ToolReaders ==
    {"list_tasks", "task_stats", "list_proposals", "search_memory", "memory_stats", "wiki_status", "wiki_search",
     "wiki_doctor", "claims_list", "claims_show", "claims_stats"}

\* The operations with a preview, and those of the schedule.
Previews == {"wiki_apply_proposal", "wiki_supersede"}
ScheduledOps ==
    {"harness_redundancy_scan", "wiki_lint", "wiki_dream", "wiki_doctor", "harness_compile", "harness_compile_skill",
     "build_daily_report", "build_weekly_report", "build_monthly_report"}

\* What is shown of the handler of an operation.
Sound(name, s) ==
    /\ Handler(s)
    /\ name \notin StopHalfway \cup {"memory_tool"} => Early(s)
    /\ name \in ReadingOps => Keeps(WritesWith(name), KeptByReaders, s)
    /\ name \in ToolReaders => Keeps({}, {}, s)
    /\ name \in Previews => Spares(s)
    /\ name \in ScheduledOps => Repeatable(s)
    /\ name = "memory_tool" => EditsComeLast(s)

\* What a caller may ask for: a write, or one of the reading operations with the
\* options that make it write named as such.
EntrySound(e) ==
    /\ e.op \in ReadingOps \cup WritingOps
    /\ "always" \in e.writing \/ (e.op \in ReadingOps /\ e.writing = WritesWith(e.op))
    /\ "dry_run" \in e.options => e.op \in Previews

ToolSound(e) == EntrySound(e) /\ (ReadOnlyHint(e) => e.op \in ToolReaders)

-----------------------------------------------------------------------------
(* What When, Unless and \o keep of these. *)

\* Two sequences, one after the other.
LEMMA ConcatIsSeq ==
  ASSUME NEW s, NEW t, IsSeq(s), IsSeq(t)
  PROVE /\ IsSeq(s \o t) /\ Len(s) \in Nat /\ Len(t) \in Nat /\ DOMAIN s = 1 .. Len(s) /\ DOMAIN t = 1 .. Len(t)
        /\ DOMAIN (s \o t) = 1 .. Len(s) + Len(t)
        /\ \A i \in 1 .. Len(s) + Len(t) : (s \o t)[i] = IF i <= Len(s) THEN s[i] ELSE t[i - Len(s)]
<1>1. PICK S : s \in Seq(S) BY DEF IsSeq
<1>2. PICK T : t \in Seq(T) BY DEF IsSeq
<1>3. s \in Seq(S \cup T) BY <1>1
<1>4. t \in Seq(S \cup T) BY <1>2
<1>5. s \o t \in Seq(S \cup T) BY <1>3, <1>4
<1> QED BY <1>3, <1>4, <1>5 DEF IsSeq

\* Two handlers, one after the other, have what both have; the first may only be followed
\* by one that can be refused when it has written nothing of its own.
LEMMA ConcatHandlers ==
  ASSUME NEW s, NEW t, Handler(s), Handler(t)
  PROVE /\ Handler(s \o t)
        /\ Calm(s) /\ Calm(t) => Calm(s \o t)
        /\ \A o, st : Keeps(o, st, s) /\ Keeps(o, st, t) => Keeps(o, st, s \o t)
        /\ Early(s) /\ Early(t) /\ (Calm(t) \/ Keeps({}, Outside, s)) => Early(s \o t)
        /\ Spares(s) /\ Spares(t) => Spares(s \o t)
        /\ Repeatable(s) /\ Repeatable(t) => Repeatable(s \o t)
<1> DEFINE u == s \o t
<1>1. /\ IsSeq(u) /\ Len(s) \in Nat /\ Len(t) \in Nat /\ DOMAIN s = 1 .. Len(s) /\ DOMAIN t = 1 .. Len(t)
      /\ DOMAIN u = 1 .. Len(s) + Len(t)
      /\ \A i \in 1 .. Len(s) + Len(t) : u[i] = IF i <= Len(s) THEN s[i] ELSE t[i - Len(s)]
  BY ConcatIsSeq DEF Handler
<1> HIDE DEF u
<1>2. \A i \in DOMAIN u : (i \in DOMAIN s /\ u[i] = s[i]) \/ (i - Len(s) \in DOMAIN t /\ u[i] = t[i - Len(s)])
  BY <1>1
<1>3. Handler(u) BY <1>1, <1>2 DEF Handler
<1>4. Calm(s) /\ Calm(t) => Calm(u) BY <1>2 DEF Calm
<1>5. ASSUME NEW o, NEW st, Keeps(o, st, s), Keeps(o, st, t) PROVE Keeps(o, st, u)
  BY <1>2, <1>5 DEF Keeps
<1>6. ASSUME Early(s), Early(t), Calm(t) \/ Keeps({}, Outside, s) PROVE Early(u)
  <2> SUFFICES ASSUME NEW i \in DOMAIN u, NEW j \in DOMAIN u, i < j, Writes(u[i]), u[i].on \notin Outside
               PROVE  ~Halting(u[j])
    BY DEF Early
  <2>1. CASE j <= Len(s) BY <1>1, <1>6, <2>1 DEF Early
  <2>2. CASE i <= Len(s) /\ j > Len(s)
    <3>1. i \in DOMAIN s /\ u[i] = s[i] BY <1>1, <2>2
    <3>2. ~Keeps({}, Outside, s) BY <3>1 DEF Keeps
    <3>3. j - Len(s) \in DOMAIN t /\ u[j] = t[j - Len(s)] BY <1>1, <2>2
    <3> QED BY <1>6, <3>2, <3>3 DEF Calm
  <2>3. CASE i > Len(s)
    <3>1. /\ i - Len(s) \in DOMAIN t /\ u[i] = t[i - Len(s)] /\ j - Len(s) \in DOMAIN t /\ u[j] = t[j - Len(s)]
          /\ i - Len(s) < j - Len(s)
      BY <1>1, <2>3
    <3> QED BY <1>6, <3>1 DEF Early
  <2> QED BY <1>1, <2>1, <2>2, <2>3
<1>7. Spares(s) /\ Spares(t) => Spares(u) BY <1>2 DEF Spares
<1>8. Repeatable(s) /\ Repeatable(t) => Repeatable(u) BY <1>2 DEF Repeatable
<1> QED BY <1>3, <1>4, <1>5, <1>6, <1>7, <1>8 DEF u

\* A condition on every step takes nothing away, and an option of it counts as asked for.
LEMMA WhenHandlers ==
  ASSUME NEW f, NEW s, Handler(s)
  PROVE /\ Handler(When(f, s))
        /\ Calm(s) => Calm(When(f, s))
        /\ \A o, st : Keeps(o, st, s) \/ f \in o => Keeps(o, st, When(f, s))
        /\ Early(s) => Early(When(f, s))
        /\ Spares(s) => Spares(When(f, s))
        /\ Repeatable(s) => Repeatable(When(f, s))
<1> DEFINE w == When(f, s)
           Later(x) == [x EXCEPT !.when = x.when \cup {f}]
<1>1. PICK S : s \in Seq(S) BY DEF Handler, IsSeq
<1>2. w \in Seq({Later(x) : x \in S}) BY <1>1 DEF When
<1>3. DOMAIN w = DOMAIN s /\ \A i \in DOMAIN s : w[i] = Later(s[i]) BY DEF When
<1>4. \A x : IsStep(x) => /\ IsStep(Later(x)) /\ Later(x).do = x.do /\ Later(x).on = x.on
                          /\ Later(x).when = x.when \cup {f} /\ Later(x).unless = x.unless
  BY DEF IsStep
<1> HIDE DEF w, Later
<1>5. \A i \in DOMAIN s : /\ IsStep(w[i]) /\ w[i].do = s[i].do /\ w[i].on = s[i].on
                          /\ w[i].when = s[i].when \cup {f} /\ w[i].unless = s[i].unless
  BY <1>3, <1>4 DEF Handler
<1>6. Handler(w) BY <1>2, <1>3, <1>5 DEF Handler, IsSeq
<1>7. Calm(s) => Calm(w) BY <1>3, <1>5 DEF Calm, Halting
<1>8. ASSUME NEW o, NEW st, Keeps(o, st, s) \/ f \in o PROVE Keeps(o, st, w)
  BY <1>3, <1>5, <1>8 DEF Keeps, Writes
<1>9. Early(s) => Early(w) BY <1>3, <1>5 DEF Early, Writes, Halting
<1>10. Spares(s) => Spares(w) BY <1>3, <1>5 DEF Spares, Writes
<1>11. Repeatable(s) => Repeatable(w) BY <1>3, <1>5 DEF Repeatable
<1> QED BY <1>6, <1>7, <1>8, <1>9, <1>10, <1>11 DEF w

\* An exception to every step takes nothing away.
LEMMA UnlessHandlers ==
  ASSUME NEW f, NEW s, Handler(s)
  PROVE /\ Handler(Unless(f, s))
        /\ Calm(s) => Calm(Unless(f, s))
        /\ \A o, st : Keeps(o, st, s) => Keeps(o, st, Unless(f, s))
        /\ Early(s) => Early(Unless(f, s))
        /\ Spares(s) \/ f = "dry_run" => Spares(Unless(f, s))
        /\ Repeatable(s) => Repeatable(Unless(f, s))
<1> DEFINE w == Unless(f, s)
           Later(x) == [x EXCEPT !.unless = x.unless \cup {f}]
<1>1. PICK S : s \in Seq(S) BY DEF Handler, IsSeq
<1>2. w \in Seq({Later(x) : x \in S}) BY <1>1 DEF Unless
<1>3. DOMAIN w = DOMAIN s /\ \A i \in DOMAIN s : w[i] = Later(s[i]) BY DEF Unless
<1>4. \A x : IsStep(x) => /\ IsStep(Later(x)) /\ Later(x).do = x.do /\ Later(x).on = x.on
                          /\ Later(x).when = x.when /\ Later(x).unless = x.unless \cup {f}
  BY DEF IsStep
<1> HIDE DEF w, Later
<1>5. \A i \in DOMAIN s : /\ IsStep(w[i]) /\ w[i].do = s[i].do /\ w[i].on = s[i].on
                          /\ w[i].when = s[i].when /\ w[i].unless = s[i].unless \cup {f}
  BY <1>3, <1>4 DEF Handler
<1>6. Handler(w) BY <1>2, <1>3, <1>5 DEF Handler, IsSeq
<1>7. Calm(s) => Calm(w) BY <1>3, <1>5 DEF Calm, Halting
<1>8. ASSUME NEW o, NEW st, Keeps(o, st, s) PROVE Keeps(o, st, w)
  BY <1>3, <1>5, <1>8 DEF Keeps, Writes
<1>9. Early(s) => Early(w) BY <1>3, <1>5 DEF Early, Writes, Halting
<1>10. Spares(s) \/ f = "dry_run" => Spares(w) BY <1>3, <1>5 DEF Spares, Writes
<1>11. Repeatable(s) => Repeatable(w) BY <1>3, <1>5 DEF Repeatable
<1> QED BY <1>6, <1>7, <1>8, <1>9, <1>10, <1>11 DEF w

\* The fields of a step.
LEMMA MadeSteps ==
  \A d, x : /\ IsStep(Step(d, x)) /\ Step(d, x).do = d /\ Step(d, x).on = x
            /\ Step(d, x).when = {} /\ Step(d, x).unless = {}
BY DEF IsStep, Step

\* A handler that is written out.
LEMMA Tuples ==
  /\ Handler(<<>>)
  /\ \A x : IsStep(x) => Handler(<<x>>)
  /\ \A x, y : IsStep(x) /\ IsStep(y) => Handler(<<x, y>>)
  /\ \A x, y, z : IsStep(x) /\ IsStep(y) /\ IsStep(z) => Handler(<<x, y, z>>)
  /\ \A x, y, z, u : IsStep(x) /\ IsStep(y) /\ IsStep(z) /\ IsStep(u) => Handler(<<x, y, z, u>>)
  /\ \A x, y, z, u, v : IsStep(x) /\ IsStep(y) /\ IsStep(z) /\ IsStep(u) /\ IsStep(v) => Handler(<<x, y, z, u, v>>)
<1>0. Handler(<<>>)
  <2>1. <<>> \in Seq({}) OBVIOUS
  <2> QED BY <2>1 DEF Handler, IsSeq
<1>1. ASSUME NEW x, IsStep(x) PROVE Handler(<<x>>)
  <2>1. <<x>> \in Seq({x}) OBVIOUS
  <2>2. IsSeq(<<x>>) BY <2>1 DEF IsSeq
  <2> QED BY <1>1, <2>2 DEF Handler
<1>2. ASSUME NEW x, NEW y, IsStep(x), IsStep(y) PROVE Handler(<<x, y>>)
  <2>1. <<x, y>> \in Seq({x, y}) OBVIOUS
  <2>2. IsSeq(<<x, y>>) BY <2>1 DEF IsSeq
  <2> QED BY <1>2, <2>2 DEF Handler
<1>3. ASSUME NEW x, NEW y, NEW z, IsStep(x), IsStep(y), IsStep(z) PROVE Handler(<<x, y, z>>)
  <2>1. <<x, y, z>> \in Seq({x, y, z}) OBVIOUS
  <2>2. IsSeq(<<x, y, z>>) BY <2>1 DEF IsSeq
  <2> QED BY <1>3, <2>2 DEF Handler
<1>4. ASSUME NEW x, NEW y, NEW z, NEW u, IsStep(x), IsStep(y), IsStep(z), IsStep(u) PROVE Handler(<<x, y, z, u>>)
  <2>1. <<x, y, z, u>> \in Seq({x, y, z, u}) OBVIOUS
  <2>2. IsSeq(<<x, y, z, u>>) BY <2>1 DEF IsSeq
  <2> QED BY <1>4, <2>2 DEF Handler
<1>5. ASSUME NEW x, NEW y, NEW z, NEW u, NEW v, IsStep(x), IsStep(y), IsStep(z), IsStep(u), IsStep(v)
      PROVE Handler(<<x, y, z, u, v>>)
  <2>1. <<x, y, z, u, v>> \in Seq({x, y, z, u, v}) OBVIOUS
  <2>2. IsSeq(<<x, y, z, u, v>>) BY <2>1 DEF IsSeq
  <2> QED BY <1>5, <2>2 DEF Handler
<1> QED BY <1>0, <1>1, <1>2, <1>3, <1>4, <1>5

\* The openings of the handlers.
LEMMA Openings ==
  /\ Handler(Reads) /\ Early(Reads) /\ Spares(Reads) /\ Repeatable(Reads) /\ \A o, st : Keeps(o, st, Reads)
  /\ Handler(Given) /\ Early(Given) /\ Spares(Given) /\ Repeatable(Given) /\ \A o, st : Keeps(o, st, Given)
  /\ Handler(Finds) /\ Early(Finds) /\ Spares(Finds) /\ \A o, st : Keeps(o, st, Finds)
BY MadeSteps, Tuples
   DEF Reads, Given, Finds, Need, Early, Spares, Repeatable, Keeps, Writes, Halting, Step, PacketFacts

\* Operations of which Sound says more than that their refusals come first.
MoreIsSaidOf == ReadingOps \cup ToolReaders \cup Previews \cup ScheduledOps

Opening(s) == s = Reads \/ s = Given \/ s = Finds \/ s = Given \o Finds

\* An operation that only looks things up.
LEMMA OpeningsAreSound ==
  /\ \A name : Sound(name, Reads) /\ Sound(name, Given)
  /\ \A name, s : name \notin ScheduledOps /\ Opening(s) => Sound(name, s)
<1>1. \A s : Keeps({}, {}, s) => EditsComeLast(s) BY DEF Keeps, EditsComeLast
<1>2. \A name : Sound(name, Reads) /\ Sound(name, Given) BY <1>1, Openings DEF Sound
<1>3. \A name : name \notin ScheduledOps => Sound(name, Finds) /\ Sound(name, Given \o Finds)
  BY <1>1, Openings, ConcatHandlers DEF Sound
<1> QED BY <1>2, <1>3 DEF Opening

\* An operation that is asked for as a write has to be refused early.
LEMMA WritersAreSound == \A name, s : name \notin MoreIsSaidOf /\ Handler(s) /\ Early(s) => Sound(name, s)
BY DEF Sound, MoreIsSaidOf, ReadingOps

\* Parts of handlers that ask before they write, and that write without asking.
Asks(s) == Handler(s) /\ \A i \in DOMAIN s : ~Writes(s[i])
Acts(s) == Handler(s) /\ Calm(s)

\* Who only asks keeps to everything.
LEMMA AskingIsHarmless ==
  ASSUME NEW s, Asks(s)
  PROVE  Handler(s) /\ Early(s) /\ Spares(s) /\ \A o, st : Keeps(o, st, s)
BY DEF Asks, Early, Spares, Keeps

\* Asking and acting are put together from asking and acting.
LEMMA AsksAndActs ==
  /\ \A s, t : Asks(s) /\ Asks(t) => Asks(s \o t)
  /\ \A s, t : Acts(s) /\ Acts(t) => Acts(s \o t)
  /\ \A f, s : Asks(s) => Asks(When(f, s)) /\ Asks(Unless(f, s))
  /\ \A f, s : Acts(s) => Acts(When(f, s)) /\ Acts(Unless(f, s))
<1>1. \A s : Handler(s) => (Asks(s) <=> Keeps({}, {}, s)) BY DEF Asks, Keeps
<1>2. ASSUME NEW s, NEW t, Asks(s), Asks(t) PROVE Asks(s \o t)
  <2>1. Handler(s) /\ Handler(t) BY <1>2 DEF Asks
  <2>2. Handler(s \o t) /\ Keeps({}, {}, s \o t) BY <1>1, <1>2, <2>1, ConcatHandlers
  <2> QED BY <1>1, <2>2
<1>3. ASSUME NEW s, NEW t, Acts(s), Acts(t) PROVE Acts(s \o t) BY <1>3, ConcatHandlers DEF Acts
<1>4. ASSUME NEW f, NEW s, Asks(s) PROVE Asks(When(f, s)) /\ Asks(Unless(f, s))
  <2>1. Handler(s) BY <1>4 DEF Asks
  <2>2. Handler(When(f, s)) /\ Keeps({}, {}, When(f, s)) BY <1>1, <1>4, <2>1, WhenHandlers
  <2>3. Handler(Unless(f, s)) /\ Keeps({}, {}, Unless(f, s)) BY <1>1, <1>4, <2>1, UnlessHandlers
  <2> QED BY <1>1, <2>2, <2>3
<1>5. ASSUME NEW f, NEW s, Acts(s) PROVE Acts(When(f, s)) /\ Acts(Unless(f, s))
  BY <1>5, WhenHandlers, UnlessHandlers DEF Acts
<1> QED BY <1>2, <1>3, <1>4, <1>5

\* To ask first and to act last is to be refused early.
LEMMA EarlyRules ==
  /\ \A s, t : Asks(s) /\ Handler(t) /\ Early(t) => Handler(s \o t) /\ Early(s \o t)
  /\ \A s, t : Handler(s) /\ Early(s) /\ Acts(t) => Handler(s \o t) /\ Early(s \o t)
  /\ \A s : Asks(s) \/ Acts(s) => Handler(s) /\ Early(s)
BY ConcatHandlers, AskingIsHarmless DEF Acts, Calm, Early

\* The smallest parts of a handler.
LEMMA SmallParts ==
  /\ Asks(Reads) /\ Asks(Given) /\ Asks(Finds)
  /\ \A x : Asks(<<Need(x)>>) /\ Acts(<<Put(x)>>) /\ Acts(<<Add(x)>>)
  /\ \A x, y : Asks(<<Need(x), Need(y)>>) /\ Acts(<<Put(x), Put(y)>>) /\ Acts(<<Put(x), Add(y)>>)
  /\ Asks(<<Reply>>)
<1>1. \A x : Handler(<<Need(x)>>) /\ Handler(<<Put(x)>>) /\ Handler(<<Add(x)>>)
  BY MadeSteps, Tuples DEF Need, Put, Add
<1>2. \A x, y : Handler(<<Need(x), Need(y)>>) /\ Handler(<<Put(x), Put(y)>>) /\ Handler(<<Put(x), Add(y)>>)
  BY MadeSteps, Tuples DEF Need, Put, Add
<1>3. Handler(<<Reply>>) BY MadeSteps, Tuples DEF Reply
<1>4. \A x : /\ \A i \in DOMAIN <<Need(x)>> : ~Writes(<<Need(x)>>[i])
             /\ \A i \in DOMAIN <<Put(x)>> : ~Halting(<<Put(x)>>[i])
             /\ \A i \in DOMAIN <<Add(x)>> : ~Halting(<<Add(x)>>[i])
  BY DEF Writes, Halting, Need, Put, Add, Step
<1>5. \A x, y : /\ \A i \in DOMAIN <<Need(x), Need(y)>> : ~Writes(<<Need(x), Need(y)>>[i])
                /\ \A i \in DOMAIN <<Put(x), Put(y)>> : ~Halting(<<Put(x), Put(y)>>[i])
                /\ \A i \in DOMAIN <<Put(x), Add(y)>> : ~Halting(<<Put(x), Add(y)>>[i])
  BY DEF Writes, Halting, Need, Put, Add, Step
<1>6. \A i \in DOMAIN <<Reply>> : ~Writes(<<Reply>>[i]) BY DEF Writes, Reply, Step
<1>7. \A x : Asks(<<Need(x)>>) /\ Acts(<<Put(x)>>) /\ Acts(<<Add(x)>>) BY <1>1, <1>4 DEF Asks, Acts, Calm
<1>8. \A x, y : Asks(<<Need(x), Need(y)>>) /\ Acts(<<Put(x), Put(y)>>) /\ Acts(<<Put(x), Add(y)>>)
  BY <1>2, <1>5 DEF Asks, Acts, Calm
<1>9. Asks(<<Reply>>) BY <1>3, <1>6 DEF Asks
<1>10. Asks(<<>>) BY Tuples DEF Asks
<1>11. Asks(Reads) /\ Asks(Given) /\ Asks(Finds) BY <1>7, <1>10 DEF Reads, Given, Finds
<1> QED BY <1>7, <1>8, <1>9, <1>11

\* What a handler says it writes is kept by its parts.
LEMMA KeepsRules ==
  /\ \A o, st, s : Asks(s) => Keeps(o, st, s)
  /\ \A o, st, s, t : Handler(s) /\ Handler(t) /\ Keeps(o, st, s) /\ Keeps(o, st, t) => Keeps(o, st, s \o t)
  /\ \A o, st, f, s : Handler(s) /\ (Keeps(o, st, s) \/ f \in o) => Keeps(o, st, When(f, s))
  /\ \A o, st, f, s : Handler(s) /\ Keeps(o, st, s) => Keeps(o, st, Unless(f, s))
  /\ \A o, st, x : x \in st => Keeps(o, st, <<Put(x)>>) /\ Keeps(o, st, <<Add(x)>>)
<1>1. \A o, st, x : x \in st => Keeps(o, st, <<Put(x)>>) /\ Keeps(o, st, <<Add(x)>>)
  BY DEF Keeps, Writes, Put, Add, Step
<1> QED BY <1>1, AskingIsHarmless, ConcatHandlers, WhenHandlers, UnlessHandlers

-----------------------------------------------------------------------------
(* The groups of handlers, one after the other.                          *)

LEMMA CaptureHandlersAreSound == \A name \in DOMAIN CaptureHandlers : Sound(name, CaptureHandlers[name])
<1>1. \A name \in DOMAIN CaptureHandlers \ {"summarize_text"} :
         name \notin MoreIsSaidOf /\ Handler(CaptureHandlers[name]) /\ Early(CaptureHandlers[name])
  <2>1. {"write_markdown", "capture_url"} \cap MoreIsSaidOf = {}
    BY DEF MoreIsSaidOf, ReadingOps, ToolReaders, Previews, ScheduledOps
  <2>2. Handler(CaptureHandlers.write_markdown) /\ Early(CaptureHandlers.write_markdown)
    <3>1. Handler(CaptureHandlers.write_markdown) BY MadeSteps, Tuples DEF CaptureHandlers, Need, Put
    <3> QED BY <3>1 DEF CaptureHandlers, Early, Writes, Halting, Need, Put, Step
  <2>3. Handler(CaptureHandlers.capture_url) /\ Early(CaptureHandlers.capture_url)
    BY SmallParts, AsksAndActs, EarlyRules DEF CaptureHandlers
  <2>4. DOMAIN CaptureHandlers \ {"summarize_text"} = {"write_markdown", "capture_url"} BY DEF CaptureHandlers
  <2> QED BY <2>1, <2>2, <2>3, <2>4
<1>2. CaptureHandlers.summarize_text = Reads BY DEF CaptureHandlers
<1> QED BY <1>1, <1>2, OpeningsAreSound, WritersAreSound

LEMMA QueueHandlersAreSound == \A name \in DOMAIN QueueHandlers : Sound(name, QueueHandlers[name])
<1>1. \A name \in DOMAIN QueueHandlers \ {"list_tasks"} : Handler(QueueHandlers[name]) /\ Early(QueueHandlers[name])
  <2>1. Handler(QueueHandlers.enqueue_task) /\ Early(QueueHandlers.enqueue_task)
    BY SmallParts, AsksAndActs, EarlyRules DEF QueueHandlers
  <2>2. Handler(QueueHandlers.claim_task) /\ Early(QueueHandlers.claim_task)
    BY SmallParts, AsksAndActs, EarlyRules DEF QueueHandlers, IfFound
  <2>3. /\ Handler(QueueHandlers.complete_task) /\ Early(QueueHandlers.complete_task)
        /\ Handler(QueueHandlers.fail_task) /\ Early(QueueHandlers.fail_task)
    BY SmallParts, AsksAndActs, EarlyRules DEF QueueHandlers
  <2>4. DOMAIN QueueHandlers \ {"list_tasks"} = {"enqueue_task", "claim_task", "complete_task", "fail_task"}
    BY DEF QueueHandlers
  <2> QED BY <2>1, <2>2, <2>3, <2>4
<1>2. (DOMAIN QueueHandlers \ {"list_tasks"}) \cap MoreIsSaidOf = {}
  BY DEF QueueHandlers, MoreIsSaidOf, ReadingOps, ToolReaders, Previews, ScheduledOps
<1>3. QueueHandlers.list_tasks = Reads BY DEF QueueHandlers
<1> QED BY <1>1, <1>2, <1>3, OpeningsAreSound, WritersAreSound

\* A creation cannot be refused after it wrote, unless it were an edit as well.
LEMMA MemoryToolAsksBeforeItsOwnWrite ==
  EditsComeLast(MemoryHandlers.memory_tool)
<1> DEFINE checks == Given \o <<Need("known_command"), Need("path_inside")>> \o When("view", Finds)
           creates == When("create", <<Put("agent_memory")>>)
           edits == When("edit", <<Need("found"), Put("agent_memory")>>)
           first == checks \o creates
           s == first \o edits
<1>1. Asks(checks) /\ Acts(creates) BY SmallParts, AsksAndActs
<1>2. Handler(<<Need("found"), Put("agent_memory")>>) BY MadeSteps, Tuples DEF Need, Put
<1>3. Handler(edits) /\ Handler(checks) /\ Handler(creates) BY <1>1, <1>2, WhenHandlers DEF Asks, Acts
<1>4. /\ DOMAIN creates = {1} /\ "create" \in creates[1].when
  BY DEF When, Put, Step
<1>5. /\ DOMAIN edits = {1, 2} /\ \A k \in {1, 2} : "edit" \in edits[k].when
      /\ ~Halting(edits[2]) 
  BY DEF When, Need, Put, Step, Halting
<1> HIDE DEF checks, creates, edits
<1>0. /\ Len(checks) \in Nat /\ Len(creates) \in Nat /\ DOMAIN checks = 1 .. Len(checks)
      /\ DOMAIN creates = 1 .. Len(creates)
      /\ DOMAIN first = 1 .. Len(checks) + Len(creates)
      /\ \A k \in 1 .. Len(checks) + Len(creates) :
            first[k] = IF k <= Len(checks) THEN checks[k] ELSE creates[k - Len(checks)]
  BY <1>3, ConcatIsSeq DEF Handler
<1>6. \A i \in DOMAIN first : Writes(first[i]) => "create" \in first[i].when
  <2> SUFFICES ASSUME NEW i \in DOMAIN first, Writes(first[i]) PROVE "create" \in first[i].when
    OBVIOUS
  <2>1. ~(i <= Len(checks)) BY <1>0, <1>1 DEF Asks
  <2>2. i - Len(checks) \in DOMAIN creates /\ first[i] = creates[i - Len(checks)] BY <1>0, <2>1
  <2> QED BY <1>4, <2>2
<1>7. Handler(first) BY <1>3, ConcatHandlers
<1>8. \A i \in DOMAIN first : Halting(first[i]) => \A k \in DOMAIN first : k < i => ~Writes(first[k])
  BY <1>0, <1>1 DEF Asks, Acts, Calm
<1> HIDE DEF first
<1>9. ASSUME NEW i \in DOMAIN s, NEW j \in DOMAIN s, i < j, Writes(s[i]), Halting(s[j])
      PROVE  "create" \in s[i].when /\ "edit" \in s[j].when
  <2>1. /\ Len(first) \in Nat /\ Len(edits) \in Nat /\ DOMAIN first = 1 .. Len(first)
        /\ DOMAIN edits = 1 .. Len(edits)
        /\ DOMAIN s = 1 .. Len(first) + Len(edits)
        /\ \A k \in 1 .. Len(first) + Len(edits) : s[k] = IF k <= Len(first) THEN first[k] ELSE edits[k - Len(first)]
    BY <1>3, <1>7, ConcatIsSeq DEF Handler
  <2>2. j > Len(first) BY <1>8, <1>9, <2>1
  <2>3. j - Len(first) \in DOMAIN edits /\ s[j] = edits[j - Len(first)] BY <2>1, <2>2
  <2>4. j - Len(first) = 1 BY <1>5, <1>9, <2>3
  <2>5. i <= Len(first) BY <1>9, <2>1, <2>4
  <2>6. i \in DOMAIN first /\ s[i] = first[i] BY <2>1, <2>5
  <2> QED BY <1>5, <1>6, <1>9, <2>3, <2>4, <2>6
<1>10. MemoryHandlers.memory_tool = s BY DEF MemoryHandlers, first, checks, creates, edits
<1> QED BY <1>9, <1>10 DEF EditsComeLast
LEMMA MemoryHandlersAreSound == \A name \in DOMAIN MemoryHandlers : Sound(name, MemoryHandlers[name])
<1>1. Sound("memory_tool", MemoryHandlers.memory_tool)
  <2> DEFINE checks == Given \o <<Need("known_command"), Need("path_inside")>> \o When("view", Finds)
             creates == When("create", <<Put("agent_memory")>>)
             edits == When("edit", <<Need("found"), Put("agent_memory")>>)
  <2>1. Asks(checks) /\ Acts(creates) BY SmallParts, AsksAndActs
  <2>2. Handler(checks) /\ Handler(creates) /\ Handler(edits)
    BY <2>1, MadeSteps, Tuples, WhenHandlers DEF Asks, Acts, Need, Put
  <2>3. Handler(<<Put("agent_memory")>>) /\ Handler(<<Need("found"), Put("agent_memory")>>)
    BY MadeSteps, Tuples DEF Need, Put
  <2>4. LET o == {"create", "edit"}
        IN  Keeps(o, KeptByReaders, checks) /\ Keeps(o, KeptByReaders, creates) /\ Keeps(o, KeptByReaders, edits)
    BY <2>1, <2>3, KeepsRules
  <2> HIDE DEF checks, creates, edits
  <2>5. LET s == checks \o creates \o edits IN Handler(s) /\ Keeps({"create", "edit"}, KeptByReaders, s)
    BY <2>2, <2>4, ConcatHandlers
  <2>6. MemoryHandlers.memory_tool = checks \o creates \o edits BY DEF MemoryHandlers, checks, creates, edits
  <2> QED BY <2>5, <2>6, MemoryToolAsksBeforeItsOwnWrite
       DEF Sound, WritesWith, ToolReaders, Previews, ScheduledOps
<1>2. Sound("memory_recall", MemoryHandlers.memory_recall)
  <2> DEFINE counts == When("recall_tier", When("query", IfFound(<<Put("recall_counts")>>)))
  <2>1. Acts(counts) BY SmallParts, AsksAndActs DEF IfFound
  <2>2. Keeps({}, KeptByReaders, counts) BY SmallParts, AsksAndActs, KeepsRules DEF IfFound, KeptByReaders, Acts
  <2> HIDE DEF counts
  <2>3. LET s == <<Need("known_tier")>> \o counts IN Handler(s) /\ Early(s) /\ Keeps({}, KeptByReaders, s)
    BY <2>1, <2>2, SmallParts, EarlyRules, KeepsRules DEF Acts
  <2>4. MemoryHandlers.memory_recall = <<Need("known_tier")>> \o counts BY DEF MemoryHandlers, counts
  <2> QED BY <2>3, <2>4 DEF Sound, WritesWith, ToolReaders, Previews, ScheduledOps
<1>3. LET group == {"memory_remember_core", "memory_forget_core", "memory_promote_recall"}
      IN  /\ \A name \in group : Handler(MemoryHandlers[name]) /\ Early(MemoryHandlers[name])
          /\ group \cap MoreIsSaidOf = {}
  <2>1. /\ Handler(MemoryHandlers.memory_remember_core) /\ Early(MemoryHandlers.memory_remember_core)
        /\ Handler(MemoryHandlers.memory_forget_core) /\ Early(MemoryHandlers.memory_forget_core)
        /\ Handler(MemoryHandlers.memory_promote_recall) /\ Early(MemoryHandlers.memory_promote_recall)
    BY SmallParts, EarlyRules DEF MemoryHandlers
  <2> QED BY <2>1 DEF MoreIsSaidOf, ReadingOps, ToolReaders, Previews, ScheduledOps
<1>4. DOMAIN MemoryHandlers = {"memory_tool", "memory_recall", "memory_remember_core", "memory_forget_core",
                               "memory_promote_recall"}
  BY DEF MemoryHandlers
<1> QED BY <1>1, <1>2, <1>3, <1>4, WritersAreSound

LEMMA RetrievalHandlersAreSound == \A name \in DOMAIN RetrievalHandlers : Sound(name, RetrievalHandlers[name])
<1> DEFINE caches == When("use_cache", <<Put("cache")>>)
           evidence == When("run_id", <<Put("evidence")>>) \o Unless("run_id", <<Add("evidence")>>)
           keeps == When("persist_evidence", evidence)
<1>1. Acts(caches) /\ Acts(evidence) /\ Acts(keeps) BY SmallParts, AsksAndActs
<1>2. Keeps({}, KeptByReaders, caches) BY SmallParts, KeepsRules DEF KeptByReaders, Acts
<1>3. /\ Keeps({}, KeptByReaders, When("run_id", <<Put("evidence")>>))
      /\ Keeps({}, KeptByReaders, Unless("run_id", <<Add("evidence")>>))
  BY SmallParts, KeepsRules DEF KeptByReaders, Acts
<1>4. Handler(When("run_id", <<Put("evidence")>>)) /\ Handler(Unless("run_id", <<Add("evidence")>>))
  BY SmallParts, AsksAndActs DEF Acts
<1>5. Keeps({}, KeptByReaders, evidence) BY <1>3, <1>4, KeepsRules
<1>6. Keeps({}, KeptByReaders, keeps) BY <1>1, <1>5, KeepsRules DEF Acts
<1> HIDE DEF caches, evidence, keeps
<1>7. LET s == Given \o caches \o keeps IN Handler(s) /\ Early(s) /\ Keeps({}, KeptByReaders, s)
  <2>1. LET s == Given \o caches IN Handler(s) /\ Early(s) /\ Keeps({}, KeptByReaders, s)
    BY <1>1, <1>2, SmallParts, EarlyRules, KeepsRules DEF Acts
  <2> QED BY <2>1, <1>1, <1>6, EarlyRules, KeepsRules DEF Acts
<1>8. RetrievalHandlers.retrieve_cascade = Given \o caches \o keeps BY DEF RetrievalHandlers, caches, evidence, keeps
<1>9. Sound("retrieve_cascade", RetrievalHandlers.retrieve_cascade)
  BY <1>7, <1>8 DEF Sound, WritesWith, ToolReaders, Previews, ScheduledOps
<1>10. DOMAIN RetrievalHandlers = {"retrieve_cascade", "retrieve_doctor"} /\ RetrievalHandlers.retrieve_doctor = Reads
  BY DEF RetrievalHandlers
<1> QED BY <1>9, <1>10, OpeningsAreSound

\* A proposal is applied to a page after all that can refuse it.
LEMMA ApplyingAsksFirst == Handler(ApplySteps) /\ Early(ApplySteps)
<1>1. ApplySteps = <<Put("layout"), Need("found"), Need("wiki_update"), Need("decided"), Need("inside_wiki")>>
                   \o (<<Put("pages"), Add("log")>>
                       \o (<<Put("index"), Put("claims")>> \o <<Add("preference"), Put("fts")>>))
  BY DEF ApplySteps
<1>2. Acts(<<Put("pages"), Add("log")>>) /\ Acts(<<Put("index"), Put("claims")>>) BY SmallParts
<1>3. Acts(<<Add("preference"), Put("fts")>>)
  <2>1. Handler(<<Add("preference"), Put("fts")>>) BY MadeSteps, Tuples DEF Add, Put
  <2>2. Calm(<<Add("preference"), Put("fts")>>) BY DEF Calm, Halting, Add, Put, Step
  <2> QED BY <2>1, <2>2 DEF Acts
<1>4. LET s == <<Put("layout"), Need("found"), Need("wiki_update"), Need("decided"), Need("inside_wiki")>>
      IN  Handler(s) /\ Early(s)
  <2>1. Handler(<<Put("layout"), Need("found"), Need("wiki_update"), Need("decided"), Need("inside_wiki")>>)
    BY MadeSteps, Tuples DEF Put, Need
  <2> QED BY <2>1 DEF Early, Writes, Halting, Outside, Put, Need, Step
<1> QED BY <1>1, <1>2, <1>3, <1>4, AsksAndActs, EarlyRules

LEMMA ProposalHandlersAreSound == \A name \in DOMAIN ProposalHandlers : Sound(name, ProposalHandlers[name])
<1>1. \A name \in DOMAIN ProposalHandlers \
           {"propose_knowledge", "digest_proposal", "approve_proposal", "reject_proposal"} :
         name \notin ScheduledOps /\ Opening(ProposalHandlers[name])
  BY DEF ProposalHandlers, Opening, ScheduledOps
<1>2. \A name \in {"propose_knowledge", "digest_proposal", "approve_proposal", "reject_proposal"} :
         Handler(ProposalHandlers[name])
  BY MadeSteps, Tuples, ConcatHandlers DEF ProposalHandlers, Given, Finds, Need, Put, Add
<1>3. \A name \in {"propose_knowledge", "digest_proposal", "approve_proposal", "reject_proposal"} :
         Early(ProposalHandlers[name])
  BY DEF ProposalHandlers, Early, Writes, Halting, Outside, Given, Finds, Need, Put, Add, Step
<1>4. {"propose_knowledge", "digest_proposal", "approve_proposal", "reject_proposal"} \cap MoreIsSaidOf = {}
  BY DEF MoreIsSaidOf, ReadingOps, ToolReaders, Previews, ScheduledOps
<1> QED BY <1>1, <1>2, <1>3, <1>4, OpeningsAreSound, WritersAreSound DEF ProposalHandlers

LEMMA OptimizerHandlersAreSound == \A name \in DOMAIN OptimizerHandlers : Sound(name, OptimizerHandlers[name])
<1>1. \A name \in DOMAIN OptimizerHandlers \ {"optimizer_register_skill_version", "optimizer_record_run"} :
         name \notin ScheduledOps /\ Opening(OptimizerHandlers[name])
  BY DEF OptimizerHandlers, Opening, ScheduledOps
<1>2. \A name \in {"optimizer_register_skill_version", "optimizer_record_run"} : Handler(OptimizerHandlers[name])
  BY MadeSteps, Tuples, ConcatHandlers DEF OptimizerHandlers, Given, Finds, Need, Put, Add
<1>3. \A name \in {"optimizer_register_skill_version", "optimizer_record_run"} : Early(OptimizerHandlers[name])
  BY DEF OptimizerHandlers, Early, Writes, Halting, Outside, Given, Finds, Need, Put, Add, Step
<1>4. {"optimizer_register_skill_version", "optimizer_record_run"} \cap MoreIsSaidOf = {}
  BY DEF MoreIsSaidOf, ReadingOps, ToolReaders, Previews, ScheduledOps
<1> QED BY <1>1, <1>2, <1>3, <1>4, OpeningsAreSound, WritersAreSound DEF OptimizerHandlers

LEMMA ReportHandlersAreSound == \A name \in DOMAIN ReportHandlers : Sound(name, ReportHandlers[name])
<1>1. \A name \in DOMAIN ReportHandlers \ {"build_daily_report", "build_weekly_report", "build_monthly_report"} :
         name \notin ScheduledOps /\ Opening(ReportHandlers[name])
  BY DEF ReportHandlers, Opening, ScheduledOps
<1>2. Sound("build_daily_report", ReportHandlers.build_daily_report)
  <2>1. Handler(ReportHandlers.build_daily_report)
    BY MadeSteps, Tuples, ConcatHandlers DEF ReportHandlers, Given, Finds, Need, Put, Add
  <2>2. Early(ReportHandlers.build_daily_report)
    BY DEF ReportHandlers, Early, Writes, Halting, Outside, Given, Finds, Need, Put, Add, Step
  <2>3. Repeatable(ReportHandlers.build_daily_report)
    BY DEF ReportHandlers, Repeatable, PacketFacts, Given, Finds, Need, Put, Add, Step
  <2> QED BY <2>1, <2>2, <2>3 DEF Sound, ReadingOps, ToolReaders, Previews
<1>3. Sound("build_weekly_report", ReportHandlers.build_weekly_report)
  <2>1. Handler(ReportHandlers.build_weekly_report)
    BY MadeSteps, Tuples, ConcatHandlers DEF ReportHandlers, Given, Finds, Need, Put, Add
  <2>2. Early(ReportHandlers.build_weekly_report)
    BY DEF ReportHandlers, Early, Writes, Halting, Outside, Given, Finds, Need, Put, Add, Step
  <2>3. Repeatable(ReportHandlers.build_weekly_report)
    BY DEF ReportHandlers, Repeatable, PacketFacts, Given, Finds, Need, Put, Add, Step
  <2> QED BY <2>1, <2>2, <2>3 DEF Sound, ReadingOps, ToolReaders, Previews
<1>4. Sound("build_monthly_report", ReportHandlers.build_monthly_report)
  <2>1. Handler(ReportHandlers.build_monthly_report)
    BY MadeSteps, Tuples, ConcatHandlers DEF ReportHandlers, Given, Finds, Need, Put, Add
  <2>2. Early(ReportHandlers.build_monthly_report)
    BY DEF ReportHandlers, Early, Writes, Halting, Outside, Given, Finds, Need, Put, Add, Step
  <2>3. Repeatable(ReportHandlers.build_monthly_report)
    BY DEF ReportHandlers, Repeatable, PacketFacts, Given, Finds, Need, Put, Add, Step
  <2> QED BY <2>1, <2>2, <2>3 DEF Sound, ReadingOps, ToolReaders, Previews
<1> QED BY <1>1, <1>2, <1>3, <1>4, OpeningsAreSound DEF ReportHandlers

LEMMA FetchHandlersAreSound == \A name \in DOMAIN FetchHandlers : Sound(name, FetchHandlers[name])
<1>1. \A name \in DOMAIN FetchHandlers : name \notin ScheduledOps /\ Opening(FetchHandlers[name])
  BY DEF FetchHandlers, Opening, ScheduledOps
<1> QED BY <1>1, OpeningsAreSound DEF FetchHandlers

LEMMA ResearchHandlersAreSound == \A name \in DOMAIN ResearchHandlers : Sound(name, ResearchHandlers[name])
<1>1. \A name \in DOMAIN ResearchHandlers : name \notin ScheduledOps /\ Opening(ResearchHandlers[name])
  BY DEF ResearchHandlers, Opening, ScheduledOps
<1> QED BY <1>1, OpeningsAreSound DEF ResearchHandlers

LEMMA ClaimHandlersAreSound == \A name \in DOMAIN ClaimHandlers : Sound(name, ClaimHandlers[name])
<1>1. \A name \in DOMAIN ClaimHandlers \ {"wiki_reindex"} : name \notin ScheduledOps /\ Opening(ClaimHandlers[name])
  BY DEF ClaimHandlers, Opening, ScheduledOps
<1>2. \A name \in {"wiki_reindex"} : Handler(ClaimHandlers[name])
  BY MadeSteps, Tuples, ConcatHandlers DEF ClaimHandlers, Given, Finds, Need, Put, Add
<1>3. \A name \in {"wiki_reindex"} : Early(ClaimHandlers[name])
  BY DEF ClaimHandlers, Early, Writes, Halting, Outside, Given, Finds, Need, Put, Add, Step
<1>4. {"wiki_reindex"} \cap MoreIsSaidOf = {}
  BY DEF MoreIsSaidOf, ReadingOps, ToolReaders, Previews, ScheduledOps
<1> QED BY <1>1, <1>2, <1>3, <1>4, OpeningsAreSound, WritersAreSound DEF ClaimHandlers

LEMMA ProjectionHandlersAreSound == \A name \in DOMAIN ProjectionHandlers : Sound(name, ProjectionHandlers[name])
<1>1. \A name \in DOMAIN ProjectionHandlers \ {"projection_rebuild", "projection_rollback"} :
         name \notin ScheduledOps /\ Opening(ProjectionHandlers[name])
  BY DEF ProjectionHandlers, Opening, ScheduledOps
<1>2. \A name \in {"projection_rebuild", "projection_rollback"} : Handler(ProjectionHandlers[name])
  BY MadeSteps, Tuples, ConcatHandlers DEF ProjectionHandlers, Given, Finds, Need, Put, Add
<1>3. \A name \in {"projection_rebuild", "projection_rollback"} : Early(ProjectionHandlers[name])
  BY DEF ProjectionHandlers, Early, Writes, Halting, Outside, Given, Finds, Need, Put, Add, Step
<1>4. {"projection_rebuild", "projection_rollback"} \cap MoreIsSaidOf = {}
  BY DEF MoreIsSaidOf, ReadingOps, ToolReaders, Previews, ScheduledOps
<1> QED BY <1>1, <1>2, <1>3, <1>4, OpeningsAreSound, WritersAreSound DEF ProjectionHandlers

LEMMA WorkflowHandlersAreSound == \A name \in DOMAIN WorkflowHandlers : Sound(name, WorkflowHandlers[name])
<1>1. \A name \in DOMAIN WorkflowHandlers \ {"workflow_signal", "workflow_resume", "workflow_query"} :
         name \notin ScheduledOps /\ Opening(WorkflowHandlers[name])
  BY DEF WorkflowHandlers, Opening, ScheduledOps
<1>2. \A name \in {"workflow_signal", "workflow_resume"} : Handler(WorkflowHandlers[name])
  BY MadeSteps, Tuples, ConcatHandlers DEF WorkflowHandlers, Given, Finds, Need, Put, Add
<1>3. \A name \in {"workflow_signal", "workflow_resume"} : Early(WorkflowHandlers[name])
  BY DEF WorkflowHandlers, Early, Writes, Halting, Outside, Given, Finds, Need, Put, Add, Step
<1>4. {"workflow_signal", "workflow_resume"} \cap MoreIsSaidOf = {}
  BY DEF MoreIsSaidOf, ReadingOps, ToolReaders, Previews, ScheduledOps
<1>5. Sound("workflow_query", WorkflowHandlers.workflow_query)
  <2>1. Handler(WorkflowHandlers.workflow_query)
    BY MadeSteps, Tuples, ConcatHandlers DEF WorkflowHandlers, Given, Finds, Need, Put, Add
  <2>2. Early(WorkflowHandlers.workflow_query)
    BY DEF WorkflowHandlers, Early, Writes, Halting, Outside, Given, Finds, Need, Put, Add, Step
  <2>3. Keeps({}, KeptByReaders, WorkflowHandlers.workflow_query)
    BY DEF WorkflowHandlers, Keeps, Writes, KeptByReaders, Given, Finds, Need, Put, Add, Step
  <2> QED BY <2>1, <2>2, <2>3 DEF Sound, WritesWith, ToolReaders, Previews, ScheduledOps
<1> QED BY <1>1, <1>2, <1>3, <1>4, <1>5, OpeningsAreSound, WritersAreSound DEF WorkflowHandlers

LEMMA TickHandlersAreSound == \A name \in DOMAIN TickHandlers : Sound(name, TickHandlers[name])
<1>1. \A name \in {"schedule_tick"} : Handler(TickHandlers[name])
  BY MadeSteps, Tuples, ConcatHandlers DEF TickHandlers, Given, Finds, Need, Put, Add
<1>2. \A name \in {"schedule_tick"} : Early(TickHandlers[name])
  BY DEF TickHandlers, Early, Writes, Halting, Outside, Given, Finds, Need, Put, Add, Step
<1>3. {"schedule_tick"} \cap MoreIsSaidOf = {}
  BY DEF MoreIsSaidOf, ReadingOps, ToolReaders, Previews, ScheduledOps
<1> QED BY <1>1, <1>2, <1>3, OpeningsAreSound, WritersAreSound DEF TickHandlers

LEMMA HarnessHandlersAreSound == \A name \in DOMAIN HarnessHandlers : Sound(name, HarnessHandlers[name])
<1>1. HarnessHandlers.harness_redundancy_scan = Reads
  BY DEF HarnessHandlers
<1>2. \A name \in {"harness_preference_add"} : Handler(HarnessHandlers[name])
  BY MadeSteps, Tuples, ConcatHandlers DEF HarnessHandlers, Given, Finds, Need, Put, Add
<1>3. \A name \in {"harness_preference_add"} : Early(HarnessHandlers[name])
  BY DEF HarnessHandlers, Early, Writes, Halting, Outside, Given, Finds, Need, Put, Add, Step
<1>4. {"harness_preference_add"} \cap MoreIsSaidOf = {}
  BY DEF MoreIsSaidOf, ReadingOps, ToolReaders, Previews, ScheduledOps
<1>5. Sound("harness_compile", HarnessHandlers.harness_compile)
  <2>1. Handler(HarnessHandlers.harness_compile)
    BY MadeSteps, Tuples, ConcatHandlers DEF HarnessHandlers, Given, Finds, Need, Put, Add
  <2>2. Early(HarnessHandlers.harness_compile)
    BY DEF HarnessHandlers, Early, Writes, Halting, Outside, Given, Finds, Need, Put, Add, Step
  <2>3. Repeatable(HarnessHandlers.harness_compile)
    BY DEF HarnessHandlers, Repeatable, PacketFacts, Given, Finds, Need, Put, Add, Step
  <2> QED BY <2>1, <2>2, <2>3 DEF Sound, ReadingOps, ToolReaders, Previews
<1>6. Sound("harness_compile_skill", HarnessHandlers.harness_compile_skill)
  <2>1. Handler(HarnessHandlers.harness_compile_skill)
    BY MadeSteps, Tuples, ConcatHandlers DEF HarnessHandlers, Given, Finds, Need, Put, Add
  <2>2. Early(HarnessHandlers.harness_compile_skill)
    BY DEF HarnessHandlers, Early, Writes, Halting, Outside, Given, Finds, Need, Put, Add, Step
  <2>3. Repeatable(HarnessHandlers.harness_compile_skill)
    BY DEF HarnessHandlers, Repeatable, PacketFacts, Given, Finds, Need, Put, Add, Step
  <2> QED BY <2>1, <2>2, <2>3 DEF Sound, ReadingOps, ToolReaders, Previews
<1> QED BY <1>1, <1>2, <1>3, <1>4, <1>5, <1>6, OpeningsAreSound, WritersAreSound DEF HarnessHandlers

LEMMA UserHandlersAreSound == \A name \in DOMAIN UserHandlers : Sound(name, UserHandlers[name])
<1>1. \A name \in DOMAIN UserHandlers \ {"user_enroll", "user_approve", "user_set_persona", "user_list"} :
         name \notin ScheduledOps /\ Opening(UserHandlers[name])
  BY DEF UserHandlers, Opening, ScheduledOps
<1>2. \A name \in {"user_enroll", "user_approve", "user_set_persona"} : Handler(UserHandlers[name])
  BY MadeSteps, Tuples, ConcatHandlers DEF UserHandlers, Given, Finds, Need, Put, Add
<1>3. \A name \in {"user_enroll", "user_approve", "user_set_persona"} : Early(UserHandlers[name])
  BY DEF UserHandlers, Early, Writes, Halting, Outside, Given, Finds, Need, Put, Add, Step
<1>4. {"user_enroll", "user_approve", "user_set_persona"} \cap MoreIsSaidOf = {}
  BY DEF MoreIsSaidOf, ReadingOps, ToolReaders, Previews, ScheduledOps
<1>5. Sound("user_list", UserHandlers.user_list)
  <2>1. Handler(UserHandlers.user_list)
    BY MadeSteps, Tuples, ConcatHandlers DEF UserHandlers, Given, Finds, Need, Put, Add
  <2>2. Early(UserHandlers.user_list)
    BY DEF UserHandlers, Early, Writes, Halting, Outside, Given, Finds, Need, Put, Add, Step
  <2>3. Keeps({}, KeptByReaders, UserHandlers.user_list)
    BY DEF UserHandlers, Keeps, Writes, KeptByReaders, Given, Finds, Need, Put, Add, Step
  <2> QED BY <2>1, <2>2, <2>3 DEF Sound, WritesWith, ToolReaders, Previews, ScheduledOps
<1> QED BY <1>1, <1>2, <1>3, <1>4, <1>5, OpeningsAreSound, WritersAreSound DEF UserHandlers

LEMMA PersonalHandlersAreSound == \A name \in DOMAIN PersonalHandlers : Sound(name, PersonalHandlers[name])
<1>1. \A name \in DOMAIN PersonalHandlers \ {"task_done"} :
         name \notin ScheduledOps /\ Opening(PersonalHandlers[name])
  BY DEF PersonalHandlers, Opening, ScheduledOps
<1>2. \A name \in {"task_done"} : Handler(PersonalHandlers[name])
  BY MadeSteps, Tuples, ConcatHandlers DEF PersonalHandlers, Given, Finds, Need, Put, Add
<1>3. \A name \in {"task_done"} : Early(PersonalHandlers[name])
  BY DEF PersonalHandlers, Early, Writes, Halting, Outside, Given, Finds, Need, Put, Add, Step
<1>4. {"task_done"} \cap MoreIsSaidOf = {}
  BY DEF MoreIsSaidOf, ReadingOps, ToolReaders, Previews, ScheduledOps
<1> QED BY <1>1, <1>2, <1>3, <1>4, OpeningsAreSound, WritersAreSound DEF PersonalHandlers

LEMMA FinanceHandlersAreSound == \A name \in DOMAIN FinanceHandlers : Sound(name, FinanceHandlers[name])
<1>1. \A name \in DOMAIN FinanceHandlers \ {"finance_watch_create"} :
         name \notin ScheduledOps /\ Opening(FinanceHandlers[name])
  BY DEF FinanceHandlers, Opening, ScheduledOps
<1>2. \A name \in {"finance_watch_create"} : Handler(FinanceHandlers[name])
  BY MadeSteps, Tuples, ConcatHandlers DEF FinanceHandlers, Given, Finds, Need, Put, Add
<1>3. \A name \in {"finance_watch_create"} : Early(FinanceHandlers[name])
  BY DEF FinanceHandlers, Early, Writes, Halting, Outside, Given, Finds, Need, Put, Add, Step
<1>4. {"finance_watch_create"} \cap MoreIsSaidOf = {}
  BY DEF MoreIsSaidOf, ReadingOps, ToolReaders, Previews, ScheduledOps
<1> QED BY <1>1, <1>2, <1>3, <1>4, OpeningsAreSound, WritersAreSound DEF FinanceHandlers

LEMMA PlanningHandlersAreSound == \A name \in DOMAIN PlanningHandlers : Sound(name, PlanningHandlers[name])
<1>1. \A name \in DOMAIN PlanningHandlers \ {"calendar_add", "task_add"} :
         name \notin ScheduledOps /\ Opening(PlanningHandlers[name])
  BY DEF PlanningHandlers, Opening, ScheduledOps
<1>2. \A name \in {"calendar_add", "task_add"} : Handler(PlanningHandlers[name])
  BY MadeSteps, Tuples, ConcatHandlers DEF PlanningHandlers, Given, Finds, Need, Put, Add
<1>3. \A name \in {"calendar_add", "task_add"} : Early(PlanningHandlers[name])
  BY DEF PlanningHandlers, Early, Writes, Halting, Outside, Given, Finds, Need, Put, Add, Step
<1>4. {"calendar_add", "task_add"} \cap MoreIsSaidOf = {}
  BY DEF MoreIsSaidOf, ReadingOps, ToolReaders, Previews, ScheduledOps
<1> QED BY <1>1, <1>2, <1>3, <1>4, OpeningsAreSound, WritersAreSound DEF PlanningHandlers

LEMMA OrderHandlersAreSound == \A name \in DOMAIN OrderHandlers : Sound(name, OrderHandlers[name])
<1>1. \A name \in DOMAIN OrderHandlers \ {"order_propose"} : name \notin ScheduledOps /\ Opening(OrderHandlers[name])
  BY DEF OrderHandlers, Opening, ScheduledOps
<1>2. \A name \in {"order_propose"} : Handler(OrderHandlers[name])
  BY MadeSteps, Tuples, ConcatHandlers DEF OrderHandlers, Given, Finds, Need, Put, Add
<1>3. \A name \in {"order_propose"} : Early(OrderHandlers[name])
  BY DEF OrderHandlers, Early, Writes, Halting, Outside, Given, Finds, Need, Put, Add, Step
<1>4. {"order_propose"} \cap MoreIsSaidOf = {}
  BY DEF MoreIsSaidOf, ReadingOps, ToolReaders, Previews, ScheduledOps
<1> QED BY <1>1, <1>2, <1>3, <1>4, OpeningsAreSound, WritersAreSound DEF OrderHandlers

LEMMA JudgeHandlersAreSound == \A name \in DOMAIN JudgeHandlers : Sound(name, JudgeHandlers[name])
<1>1. \A name \in DOMAIN JudgeHandlers \ {"judge_evaluate"} : name \notin ScheduledOps /\ Opening(JudgeHandlers[name])
  BY DEF JudgeHandlers, Opening, ScheduledOps
<1>2. Sound("judge_evaluate", JudgeHandlers.judge_evaluate)
  <2>1. Handler(JudgeHandlers.judge_evaluate)
    BY MadeSteps, Tuples, ConcatHandlers DEF JudgeHandlers, Given, Finds, Need, Put, Add
  <2>2. Early(JudgeHandlers.judge_evaluate)
    BY DEF JudgeHandlers, Early, Writes, Halting, Outside, Given, Finds, Need, Put, Add, Step
  <2>3. Keeps({}, KeptByReaders, JudgeHandlers.judge_evaluate)
    BY DEF JudgeHandlers, Keeps, Writes, KeptByReaders, Given, Finds, Need, Put, Add, Step
  <2> QED BY <2>1, <2>2, <2>3 DEF Sound, WritesWith, ToolReaders, Previews, ScheduledOps
<1> QED BY <1>1, <1>2, OpeningsAreSound DEF JudgeHandlers

LEMMA AbHandlersAreSound == \A name \in DOMAIN AbHandlers : Sound(name, AbHandlers[name])
<1>1. \A name \in DOMAIN AbHandlers \ {"ab_test_run"} : name \notin ScheduledOps /\ Opening(AbHandlers[name])
  BY DEF AbHandlers, Opening, ScheduledOps
<1>2. \A name \in {"ab_test_run"} : Handler(AbHandlers[name])
  BY MadeSteps, Tuples, ConcatHandlers DEF AbHandlers, Given, Finds, Need, Put, Add
<1>3. \A name \in {"ab_test_run"} : Early(AbHandlers[name])
  BY DEF AbHandlers, Early, Writes, Halting, Outside, Given, Finds, Need, Put, Add, Step
<1>4. {"ab_test_run"} \cap MoreIsSaidOf = {}
  BY DEF MoreIsSaidOf, ReadingOps, ToolReaders, Previews, ScheduledOps
<1> QED BY <1>1, <1>2, <1>3, <1>4, OpeningsAreSound, WritersAreSound DEF AbHandlers

LEMMA WikiHandlersAreSound == \A name \in DOMAIN WikiHandlers : Sound(name, WikiHandlers[name])
<1>1. Sound("wiki_apply_proposal", WikiHandlers.wiki_apply_proposal)
  <2> DEFINE checks == Given \o When("dry_run", Finds)
             acts == Unless("dry_run", ApplySteps)
  <2>1. Asks(checks) BY SmallParts, AsksAndActs
  <2>2. Handler(acts) /\ Early(acts) /\ Spares(acts) BY ApplyingAsksFirst, UnlessHandlers
  <2> HIDE DEF checks, acts
  <2>3. LET s == checks \o acts IN Handler(s) /\ Early(s) /\ Spares(s)
    BY <2>1, <2>2, AskingIsHarmless, ConcatHandlers, EarlyRules
  <2>4. WikiHandlers.wiki_apply_proposal = checks \o acts BY DEF WikiHandlers, checks, acts
  <2> QED BY <2>3, <2>4 DEF Sound, ReadingOps, ToolReaders, ScheduledOps
<1>2. Handler(WikiHandlers.wiki_init) /\ Early(WikiHandlers.wiki_init) BY SmallParts, EarlyRules DEF WikiHandlers
<1>3. Handler(WikiHandlers.wiki_propose_research) /\ Early(WikiHandlers.wiki_propose_research)
  <2>1. Handler(<<Put("layout"), Need("found"), Add("proposals")>>) BY MadeSteps, Tuples DEF Put, Need, Add
  <2>2. Early(<<Put("layout"), Need("found"), Add("proposals")>>)
    BY DEF Early, Writes, Halting, Outside, Put, Need, Add, Step
  <2> QED BY <2>1, <2>2, SmallParts, EarlyRules DEF WikiHandlers
<1>4. {"wiki_init", "wiki_propose_research"} \cap MoreIsSaidOf = {}
  BY DEF MoreIsSaidOf, ReadingOps, ToolReaders, Previews, ScheduledOps
<1>5. /\ WikiHandlers.wiki_status = Reads /\ WikiHandlers.wiki_search = Given
      /\ DOMAIN WikiHandlers = {"wiki_init", "wiki_status", "wiki_search", "wiki_propose_research",
                                "wiki_apply_proposal"}
  BY DEF WikiHandlers
<1> QED BY <1>1, <1>2, <1>3, <1>4, <1>5, OpeningsAreSound, WritersAreSound

\* A claim is superseded after all that can refuse it.
LEMMA SupersedingAsksFirst == Handler(SupersedeSteps) /\ Early(SupersedeSteps)
<1> DEFINE checks == <<Need("distinct"), Need("ledger")>> \o When("expected_version", <<Need("version_matches")>>)
           acts == <<Need("both_there"), Put("claims"), Add("log")>>
           tail == When("on_a_page", <<Put("index")>>)
<1>1. Asks(checks) /\ Acts(tail) BY SmallParts, AsksAndActs
<1>2. Handler(acts) BY MadeSteps, Tuples DEF Need, Put, Add
<1>3. Early(acts) BY DEF Early, Writes, Halting, Outside, Put, Need, Add, Step
<1> HIDE DEF checks, acts, tail
<1>4. Handler(checks \o acts) /\ Early(checks \o acts) BY <1>1, <1>2, <1>3, EarlyRules
<1>5. SupersedeSteps = checks \o acts \o tail BY DEF SupersedeSteps, checks, acts, tail
<1> QED BY <1>1, <1>4, <1>5, EarlyRules

LEMMA StewardHandlersAreSound == \A name \in DOMAIN StewardHandlers : Sound(name, StewardHandlers[name])
<1> DEFINE found == When("persist", IfFound(<<Add("proposals")>>))
           rules == <<Need("known_rules")>>
           kept == Unless("keep_state", <<Put("dream_state")>>)
<1>1. Asks(rules) /\ Acts(found) /\ Acts(kept) BY SmallParts, AsksAndActs DEF IfFound
<1>2. Handler(rules) /\ Handler(found) /\ Handler(kept) /\ Handler(IfFound(<<Add("proposals")>>))
  BY <1>1, SmallParts, AsksAndActs DEF Asks, Acts, IfFound
<1>3. /\ Keeps({"persist"}, KeptByReaders, rules) /\ Keeps({"persist"}, KeptByReaders, found)
      /\ Keeps({"persist"}, KeptByReaders, kept)
  <2>1. Keeps({"persist"}, KeptByReaders, rules) BY <1>1, KeepsRules
  <2>2. Keeps({"persist"}, KeptByReaders, found) BY <1>2, KeepsRules
  <2>3. Handler(<<Put("dream_state")>>) BY SmallParts DEF Acts
  <2>4. Keeps({"persist"}, KeptByReaders, <<Put("dream_state")>>) BY KeepsRules DEF KeptByReaders
  <2>5. Keeps({"persist"}, KeptByReaders, kept) BY <2>3, <2>4, KeepsRules
  <2> QED BY <2>1, <2>2, <2>5
<1>4. Repeatable(rules) /\ Repeatable(found) /\ Repeatable(kept)
  <2>1. Repeatable(rules) BY DEF Repeatable, Need, Step, PacketFacts
  <2>2. Repeatable(<<Add("proposals")>>) /\ Repeatable(<<Put("dream_state")>>) BY DEF Repeatable, Add, Put, Step
  <2>3. Handler(<<Add("proposals")>>) /\ Handler(<<Put("dream_state")>>) BY SmallParts DEF Acts
  <2>4. Repeatable(found) BY <1>2, <2>2, <2>3, WhenHandlers DEF IfFound
  <2>5. Repeatable(kept) BY <2>2, <2>3, UnlessHandlers
  <2> QED BY <2>1, <2>4, <2>5
<1> HIDE DEF found, rules, kept
<1>5. LET s == rules \o found
      IN  Handler(s) /\ Early(s) /\ Keeps({"persist"}, KeptByReaders, s) /\ Repeatable(s)
  BY <1>1, <1>2, <1>3, <1>4, EarlyRules, KeepsRules, ConcatHandlers
<1>6. LET s == rules \o found \o kept
      IN  Handler(s) /\ Early(s) /\ Keeps({"persist"}, KeptByReaders, s) /\ Repeatable(s)
  BY <1>1, <1>2, <1>3, <1>4, <1>5, EarlyRules, KeepsRules, ConcatHandlers
<1>7. StewardHandlers.wiki_lint = rules \o found /\ StewardHandlers.wiki_dream = rules \o found \o kept
  BY DEF StewardHandlers, rules, found, kept
<1>8. Sound("wiki_lint", StewardHandlers.wiki_lint) /\ Sound("wiki_dream", StewardHandlers.wiki_dream)
  BY <1>5, <1>6, <1>7 DEF Sound, WritesWith, ToolReaders, Previews
<1>9. Sound("wiki_supersede", StewardHandlers.wiki_supersede)
  <2> DEFINE acts == Unless("dry_run", SupersedeSteps)
  <2>1. Handler(acts) /\ Early(acts) /\ Spares(acts) BY SupersedingAsksFirst, UnlessHandlers
  <2> HIDE DEF acts
  <2>2. LET s == Given \o acts IN Handler(s) /\ Early(s) /\ Spares(s)
    BY <2>1, SmallParts, AskingIsHarmless, ConcatHandlers, EarlyRules
  <2>3. StewardHandlers.wiki_supersede = Given \o acts BY DEF StewardHandlers, acts
  <2> QED BY <2>2, <2>3 DEF Sound, ReadingOps, ToolReaders, ScheduledOps
<1>10. Sound("wiki_conflict_resolve", StewardHandlers.wiki_conflict_resolve)
  <2> DEFINE checks == Given \o <<Need("found"), Need("contradiction")>>
             supersedes == When("supersede", SupersedeSteps)
             marks == <<Need("known_decision"), Need("claim_there"), Put("claims")>>
             both == When("keep_both", <<Need("other_claim_there"), Put("claims")>>)
             one == Unless("keep_both", <<Put("index")>>)
             ends == <<Put("proposals"), Add("log")>>
  <2>1. Handler(checks) /\ Handler(one) /\ Handler(ends) BY SmallParts, AsksAndActs DEF Asks, Acts
  <2>2. Handler(supersedes) BY SupersedingAsksFirst, WhenHandlers
  <2>3. Handler(marks) BY MadeSteps, Tuples DEF Need, Put
  <2>4. Handler(<<Need("other_claim_there"), Put("claims")>>) BY MadeSteps, Tuples DEF Need, Put
  <2>5. Handler(both) BY <2>4, WhenHandlers
  <2> HIDE DEF checks, supersedes, marks, both, one, ends
  <2>6. Handler(marks \o both \o one) BY <2>1, <2>3, <2>5, ConcatHandlers
  <2>7. Handler(Unless("supersede", marks \o both \o one)) BY <2>6, UnlessHandlers
  <2>8. Handler(checks \o supersedes \o Unless("supersede", marks \o both \o one) \o ends)
    BY <2>1, <2>2, <2>7, ConcatHandlers
  <2>9. StewardHandlers.wiki_conflict_resolve
           = checks \o supersedes \o Unless("supersede", marks \o both \o one) \o ends
    BY DEF StewardHandlers, checks, supersedes, marks, both, one, ends
  <2> QED BY <2>8, <2>9 DEF Sound, StopHalfway, ReadingOps, ToolReaders, Previews, ScheduledOps
<1>11. Handler(StewardHandlers.wiki_ingest) /\ Early(StewardHandlers.wiki_ingest)
  <2> DEFINE acts == <<Put("layout"), Need("found"), Put("evidence_files"), Add("proposals"), Add("log")>>
  <2>1. Handler(acts) BY MadeSteps, Tuples DEF Put, Need, Add
  <2>2. Early(acts) BY DEF Early, Writes, Halting, Outside, Put, Need, Add, Step
  <2> HIDE DEF acts
  <2>3. StewardHandlers.wiki_ingest = Given \o acts BY DEF StewardHandlers, acts
  <2> QED BY <2>1, <2>2, <2>3, SmallParts, EarlyRules
<1>12. "wiki_ingest" \notin MoreIsSaidOf BY DEF MoreIsSaidOf, ReadingOps, ToolReaders, Previews, ScheduledOps
<1>13. /\ StewardHandlers.wiki_doctor = Reads
       /\ DOMAIN StewardHandlers = {"wiki_ingest", "wiki_dream", "wiki_lint", "wiki_doctor", "wiki_supersede",
                                    "wiki_conflict_resolve"}
  BY DEF StewardHandlers
<1> QED BY <1>8, <1>9, <1>10, <1>11, <1>12, <1>13, OpeningsAreSound, WritersAreSound

LEMMA LogHandlersAreSound == \A name \in DOMAIN LogHandlers : Sound(name, LogHandlers[name])
<1>1. Sound("context_pack_build", LogHandlers.context_pack_build)
  <2> DEFINE checks == Given \o <<Need("known_tier")>>
             packs == When("persist", <<Add("packs")>>)
  <2>1. Asks(checks) /\ Acts(packs) /\ Handler(<<Add("packs")>>) BY SmallParts, AsksAndActs DEF Acts
  <2>2. Keeps({"persist"}, KeptByReaders, checks) /\ Keeps({"persist"}, KeptByReaders, packs) BY <2>1, KeepsRules
  <2> HIDE DEF checks, packs
  <2>3. LET s == checks \o packs IN Handler(s) /\ Early(s) /\ Keeps({"persist"}, KeptByReaders, s)
    BY <2>1, <2>2, EarlyRules, KeepsRules DEF Asks, Acts
  <2>4. LogHandlers.context_pack_build = checks \o packs BY DEF LogHandlers, checks, packs
  <2> QED BY <2>3, <2>4 DEF Sound, WritesWith, ToolReaders, Previews, ScheduledOps
<1>2. Sound("skill_sync", LogHandlers.skill_sync)
  <2> DEFINE s == When("apply", <<Put("skills")>>)
  <2>1. Acts(s) /\ Handler(<<Put("skills")>>) BY SmallParts, AsksAndActs DEF Acts
  <2>2. Keeps({"apply"}, KeptByReaders, s) BY <2>1, KeepsRules
  <2> HIDE DEF s
  <2>3. Handler(s) /\ Early(s) BY <2>1, EarlyRules
  <2>4. LogHandlers.skill_sync = s BY DEF LogHandlers, s
  <2> QED BY <2>2, <2>3, <2>4 DEF Sound, WritesWith, ToolReaders, Previews, ScheduledOps
<1>3. Handler(LogHandlers.wiki_log_append) /\ Early(LogHandlers.wiki_log_append)
  BY SmallParts, EarlyRules DEF LogHandlers
<1>4. "wiki_log_append" \notin MoreIsSaidOf BY DEF MoreIsSaidOf, ReadingOps, ToolReaders, Previews, ScheduledOps
<1>5. /\ LogHandlers.event_log_dump = Reads /\ LogHandlers.event_log_list = Reads
      /\ DOMAIN LogHandlers = {"wiki_log_append", "context_pack_build", "event_log_dump", "event_log_list",
                               "skill_sync"}
  BY DEF LogHandlers
<1> QED BY <1>1, <1>2, <1>3, <1>4, <1>5, OpeningsAreSound, WritersAreSound

LEMMA SkillHandlersAreSound == \A name \in DOMAIN SkillHandlers : Sound(name, SkillHandlers[name])
<1>1. Handler(SkillHandlers.register_skill) /\ Early(SkillHandlers.register_skill)
  BY SmallParts, AsksAndActs, EarlyRules DEF SkillHandlers
<1>2. Handler(SkillHandlers.disable_skill) /\ Early(SkillHandlers.disable_skill)
  BY SmallParts, AsksAndActs, EarlyRules DEF SkillHandlers
<1>3. {"register_skill", "disable_skill"} \cap MoreIsSaidOf = {}
  BY DEF MoreIsSaidOf, ReadingOps, ToolReaders, Previews, ScheduledOps
<1>4. \A name \in DOMAIN SkillHandlers \ {"register_skill", "disable_skill"} :
         name \notin ScheduledOps /\ Opening(SkillHandlers[name])
  BY DEF SkillHandlers, Opening, ScheduledOps
<1>5. {"register_skill", "disable_skill"} \subseteq DOMAIN SkillHandlers BY DEF SkillHandlers
<1> QED BY <1>1, <1>2, <1>3, <1>4, <1>5, OpeningsAreSound, WritersAreSound

LEMMA ArgillaHandlersAreSound == \A name \in DOMAIN ArgillaHandlers : Sound(name, ArgillaHandlers[name])
<1>1. Handler(ArgillaHandlers.argilla_export_proposals) /\ Early(ArgillaHandlers.argilla_export_proposals)
  <2>1. Handler(ArgillaHandlers.argilla_export_proposals) BY MadeSteps, Tuples DEF ArgillaHandlers, Need, Put
  <2> QED BY <2>1 DEF ArgillaHandlers, Early, Writes, Halting, Need, Put, Step
<1>2. Handler(ArgillaHandlers.argilla_sync_feedback)
  <2> DEFINE checks == Given \o <<Need("inside_workspace")>>
             rows1 == IfFound(<<Put("proposals"), Add("preference")>>)
             torn == When("a_line_is_torn", <<Raise>>)
  <2>1. Handler(checks) /\ Handler(rows1) BY SmallParts, AsksAndActs DEF Asks, Acts, IfFound
  <2>2. Handler(<<Raise>>) BY MadeSteps, Tuples DEF Raise
  <2>3. Handler(torn) BY <2>2, WhenHandlers
  <2> HIDE DEF checks, rows1, torn
  <2>4. Handler(checks \o rows1 \o torn) BY <2>1, <2>3, ConcatHandlers
  <2>5. ArgillaHandlers.argilla_sync_feedback = checks \o rows1 \o torn BY DEF ArgillaHandlers, checks, rows1, torn
  <2> QED BY <2>4, <2>5
<1>3. {"argilla_export_proposals", "argilla_sync_feedback"} \cap MoreIsSaidOf = {}
  BY DEF MoreIsSaidOf, ReadingOps, ToolReaders, Previews, ScheduledOps
<1>4. DOMAIN ArgillaHandlers = {"argilla_export_proposals", "argilla_sync_feedback"} BY DEF ArgillaHandlers
<1>5. Sound("argilla_sync_feedback", ArgillaHandlers.argilla_sync_feedback)
  BY <1>2, <1>3 DEF Sound, StopHalfway, MoreIsSaidOf
<1>6. Sound("argilla_export_proposals", ArgillaHandlers.argilla_export_proposals) BY <1>1, <1>3, WritersAreSound
<1> QED BY <1>4, <1>5, <1>6

LEMMA EvalHandlersAreSound == \A name \in DOMAIN EvalHandlers : Sound(name, EvalHandlers[name])
<1>1. Handler(EvalHandlers.eval_run) /\ Early(EvalHandlers.eval_run)
  BY SmallParts, AsksAndActs, EarlyRules DEF EvalHandlers
<1>2. Handler(EvalHandlers.eval_promote) /\ Early(EvalHandlers.eval_promote)
  BY SmallParts, AsksAndActs, EarlyRules DEF EvalHandlers
<1>3. {"eval_run", "eval_promote"} \cap MoreIsSaidOf = {}
  BY DEF MoreIsSaidOf, ReadingOps, ToolReaders, Previews, ScheduledOps
<1>4. /\ EvalHandlers.eval_list = Reads /\ EvalHandlers.eval_show = Given
      /\ DOMAIN EvalHandlers = {"eval_list", "eval_show", "eval_run", "eval_promote"}
  BY DEF EvalHandlers
<1> QED BY <1>1, <1>2, <1>3, <1>4, OpeningsAreSound, WritersAreSound

LEMMA ProjectHandlersAreSound == \A name \in DOMAIN ProjectHandlers : Sound(name, ProjectHandlers[name])
<1>1. Handler(ProjectHandlers.project_plan) /\ Early(ProjectHandlers.project_plan)
  BY SmallParts, AsksAndActs, EarlyRules DEF ProjectHandlers
<1>2. Handler(ProjectHandlers.pptx_build) /\ Early(ProjectHandlers.pptx_build)
  BY SmallParts, AsksAndActs, EarlyRules DEF ProjectHandlers
<1>3. {"project_plan", "pptx_build"} \cap MoreIsSaidOf = {}
  BY DEF MoreIsSaidOf, ReadingOps, ToolReaders, Previews, ScheduledOps
<1>4. /\ ProjectHandlers.inbox_classify = Given
      /\ DOMAIN ProjectHandlers = {"inbox_classify", "project_plan", "pptx_build"}
  BY DEF ProjectHandlers
<1> QED BY <1>1, <1>2, <1>3, <1>4, OpeningsAreSound, WritersAreSound

LEMMA ChannelHandlersAreSound == \A name \in DOMAIN ChannelHandlers : Sound(name, ChannelHandlers[name])
<1>1. Asks(ChannelHandlers.channel_health) BY SmallParts, AsksAndActs DEF ChannelHandlers
<1>2. Sound("channel_health", ChannelHandlers.channel_health)
  BY <1>1, AskingIsHarmless DEF Sound, ScheduledOps
<1>3. ChannelHandlers.channel_list = Reads /\ DOMAIN ChannelHandlers = {"channel_list", "channel_health"}
  BY DEF ChannelHandlers
<1> QED BY <1>2, <1>3, OpeningsAreSound

LEMMA AppHandlersAreSound == \A name \in DOMAIN AppHandlers : Sound(name, AppHandlers[name])
<1>1. Sound("app_report_build", AppHandlers.app_report_build)
  <2> DEFINE checks == <<Need("known_period")>>
             stays == When("persist", <<Add("app_reports")>>)
             narrates == When("narrate", <<Put("queue"), Raise>>)
             o == {"persist", "narrate"}
  <2>1. Asks(checks) /\ Acts(stays) /\ Handler(<<Add("app_reports")>>) BY SmallParts, AsksAndActs DEF Acts
  <2>2. Handler(<<Put("queue"), Raise>>) BY MadeSteps, Tuples DEF Put, Raise
  <2>3. Keeps(o, KeptByReaders, checks) /\ Keeps(o, KeptByReaders, stays) /\ Keeps(o, KeptByReaders, narrates)
    BY <2>1, <2>2, KeepsRules
  <2>4. Handler(checks) /\ Handler(stays) /\ Handler(narrates) BY <2>1, <2>2, WhenHandlers DEF Asks, Acts
  <2> HIDE DEF checks, stays, narrates
  <2>5. LET s == checks \o stays \o narrates IN Handler(s) /\ Keeps(o, KeptByReaders, s)
    BY <2>3, <2>4, KeepsRules, ConcatHandlers
  <2>6. AppHandlers.app_report_build = checks \o stays \o narrates BY DEF AppHandlers, checks, stays, narrates
  <2> QED BY <2>5, <2>6 DEF Sound, WritesWith, StopHalfway, ToolReaders, Previews, ScheduledOps
<1>2. Handler(AppHandlers.skill_stubs_sync) /\ Early(AppHandlers.skill_stubs_sync)
  BY SmallParts, EarlyRules DEF AppHandlers
<1>3. "skill_stubs_sync" \notin MoreIsSaidOf
  BY DEF MoreIsSaidOf, ReadingOps, ToolReaders, Previews, ScheduledOps
<1>4. /\ AppHandlers.app_route_task = Given /\ AppHandlers.app_intent_route = Given
      /\ DOMAIN AppHandlers = {"app_report_build", "app_route_task", "app_intent_route", "skill_stubs_sync"}
  BY DEF AppHandlers
<1> QED BY <1>1, <1>2, <1>3, <1>4, OpeningsAreSound, WritersAreSound


-----------------------------------------------------------------------------
(* Every operation, and every way to ask for one.                          *)

\* Every handler of the registry is sound.
LEMMA EveryHandlerIsSound == \A name \in DOMAIN Registry : Sound(name, Registry[name])
<1>1. \A table \in HandlerTables : \A name \in DOMAIN table : Sound(name, table[name])
  BY CaptureHandlersAreSound, ProposalHandlersAreSound, QueueHandlersAreSound, OptimizerHandlersAreSound,
     ReportHandlersAreSound, MemoryHandlersAreSound, RetrievalHandlersAreSound, FetchHandlersAreSound,
     ResearchHandlersAreSound, WikiHandlersAreSound, StewardHandlersAreSound, ClaimHandlersAreSound,
     ProjectionHandlersAreSound, WorkflowHandlersAreSound, LogHandlersAreSound, TickHandlersAreSound,
     SkillHandlersAreSound, HarnessHandlersAreSound, ArgillaHandlersAreSound, EvalHandlersAreSound,
     UserHandlersAreSound, PersonalHandlersAreSound, FinanceHandlersAreSound, ProjectHandlersAreSound,
     PlanningHandlersAreSound, OrderHandlersAreSound, ChannelHandlersAreSound, AppHandlersAreSound,
     JudgeHandlersAreSound, AbHandlersAreSound
     DEF HandlerTables
<1>2. ASSUME NEW name \in DOMAIN Registry PROVE Sound(name, Registry[name])
  <2>1. PICK table \in HandlerTables : name \in DOMAIN table BY DEF Registry
  <2> DEFINE of == CHOOSE t \in HandlerTables : name \in DOMAIN t
  <2>2. of \in HandlerTables /\ name \in DOMAIN of BY <2>1
  <2>3. Registry[name] = of[name] BY DEF Registry
  <2> QED BY <1>1, <2>2, <2>3
<1> QED BY <1>2

\* What is asked for has a handler.
LEMMA EveryOperationIsRegistered == ReadingOps \cup WritingOps \subseteq DOMAIN Registry
<1>0. \A table \in HandlerTables : DOMAIN table \subseteq DOMAIN Registry BY DEF Registry
<1>1. {"summarize_text", "write_markdown", "capture_url"} \subseteq DOMAIN Registry
  BY <1>0 DEF HandlerTables, CaptureHandlers
<1>2. {"list_vault_notes", "read_vault_note", "propose_knowledge", "digest_proposal",
          "list_proposals", "approve_proposal", "reject_proposal"}
        \subseteq DOMAIN Registry
  BY <1>0 DEF HandlerTables, ProposalHandlers
<1>3. {"enqueue_task", "claim_task", "complete_task", "fail_task", "list_tasks"} \subseteq DOMAIN Registry
  BY <1>0 DEF HandlerTables, QueueHandlers
<1>4. {"optimizer_register_skill_version", "optimizer_list_skill_versions", "optimizer_record_run",
          "optimizer_list_runs"}
        \subseteq DOMAIN Registry
  BY <1>0 DEF HandlerTables, OptimizerHandlers
<1>5. {"build_daily_report", "build_weekly_report", "build_monthly_report", "task_stats"} \subseteq DOMAIN Registry
  BY <1>0 DEF HandlerTables, ReportHandlers
<1>6. {"memory_tool", "memory_remember_core", "memory_forget_core", "memory_recall",
          "memory_promote_recall"}
        \subseteq DOMAIN Registry
  BY <1>0 DEF HandlerTables, MemoryHandlers
<1>7. {"retrieve_cascade", "retrieve_doctor"} \subseteq DOMAIN Registry
  BY <1>0 DEF HandlerTables, RetrievalHandlers
<1>8. {"fetch_url_reader"} \subseteq DOMAIN Registry
  BY <1>0 DEF HandlerTables, FetchHandlers
<1>9. {"research_kb_status", "research_kb_search", "research_kb_read", "researchflow_skill_inventory"}
        \subseteq DOMAIN Registry
  BY <1>0 DEF HandlerTables, ResearchHandlers
<1>10. {"wiki_init", "wiki_status", "wiki_search", "wiki_propose_research", "wiki_apply_proposal"}
        \subseteq DOMAIN Registry
  BY <1>0 DEF HandlerTables, WikiHandlers
<1>11. {"wiki_ingest", "wiki_dream", "wiki_lint", "wiki_doctor", "wiki_supersede",
          "wiki_conflict_resolve"}
        \subseteq DOMAIN Registry
  BY <1>0 DEF HandlerTables, StewardHandlers
<1>12. {"claims_list", "claims_show", "claims_stats", "wiki_reindex", "wiki_graph_query"} \subseteq DOMAIN Registry
  BY <1>0 DEF HandlerTables, ClaimHandlers
<1>13. {"projection_list", "projection_rebuild", "projection_snapshots", "projection_rollback"}
        \subseteq DOMAIN Registry
  BY <1>0 DEF HandlerTables, ProjectionHandlers
<1>14. {"workflow_list", "workflow_show", "workflow_signal", "workflow_query", "workflow_resume"}
        \subseteq DOMAIN Registry
  BY <1>0 DEF HandlerTables, WorkflowHandlers
<1>15. {"wiki_log_append", "context_pack_build", "event_log_dump", "event_log_list", "skill_sync"}
        \subseteq DOMAIN Registry
  BY <1>0 DEF HandlerTables, LogHandlers
<1>16. {"schedule_tick"} \subseteq DOMAIN Registry
  BY <1>0 DEF HandlerTables, TickHandlers
<1>17. {"search_memory", "memory_stats", "register_skill", "list_skills", "get_skill",
          "disable_skill", "recommend_skills", "analyze_skills", "api_management_status"}
        \subseteq DOMAIN Registry
  BY <1>0 DEF HandlerTables, SkillHandlers
<1>18. {"harness_preference_add", "harness_compile", "harness_compile_skill",
          "harness_redundancy_scan"}
        \subseteq DOMAIN Registry
  BY <1>0 DEF HandlerTables, HarnessHandlers
<1>19. {"argilla_export_proposals", "argilla_sync_feedback"} \subseteq DOMAIN Registry
  BY <1>0 DEF HandlerTables, ArgillaHandlers
<1>20. {"eval_list", "eval_show", "eval_run", "eval_promote"} \subseteq DOMAIN Registry
  BY <1>0 DEF HandlerTables, EvalHandlers
<1>21. {"user_list", "user_enroll", "user_approve", "user_set_persona", "user_memory_recall",
          "user_memory_archival"}
        \subseteq DOMAIN Registry
  BY <1>0 DEF HandlerTables, UserHandlers
<1>22. {"calendar_list", "task_list_personal", "task_done", "project_list", "project_show"} \subseteq DOMAIN Registry
  BY <1>0 DEF HandlerTables, PersonalHandlers
<1>23. {"finance_watch_create", "finance_watch_list", "finance_portfolio_stats"} \subseteq DOMAIN Registry
  BY <1>0 DEF HandlerTables, FinanceHandlers
<1>24. {"inbox_classify", "project_plan", "pptx_build"} \subseteq DOMAIN Registry
  BY <1>0 DEF HandlerTables, ProjectHandlers
<1>25. {"calendar_add", "schedule_plan", "task_add"} \subseteq DOMAIN Registry
  BY <1>0 DEF HandlerTables, PlanningHandlers
<1>26. {"finance_screen", "order_propose"} \subseteq DOMAIN Registry
  BY <1>0 DEF HandlerTables, OrderHandlers
<1>27. {"channel_list", "channel_health"} \subseteq DOMAIN Registry
  BY <1>0 DEF HandlerTables, ChannelHandlers
<1>28. {"app_report_build", "app_route_task", "app_intent_route", "skill_stubs_sync"} \subseteq DOMAIN Registry
  BY <1>0 DEF HandlerTables, AppHandlers
<1>29. {"judge_evaluate", "meta_cross_skill_scan"} \subseteq DOMAIN Registry
  BY <1>0 DEF HandlerTables, JudgeHandlers
<1>30. {"ab_test_run", "ab_test_list", "ab_test_show", "ab_test_stats"} \subseteq DOMAIN Registry
  BY <1>0 DEF HandlerTables, AbHandlers
<1> QED BY <1>1, <1>2, <1>3, <1>4, <1>5, <1>6, <1>7, <1>8, <1>9, <1>10, <1>11, <1>12, <1>13, <1>14, <1>15,
           <1>16, <1>17, <1>18, <1>19, <1>20, <1>21, <1>22, <1>23, <1>24, <1>25, <1>26, <1>27,
           <1>28, <1>29, <1>30
        DEF ReadingOps, WritingOps

\* Every command and every tool asks for what it is named for.
LEMMA EveryEntryIsSound ==
  /\ \A e \in Commands \ {Direct} : EntrySound(e)
  /\ \A t \in Tools : ToolSound(t)
<1> DEFINE TypedSound(table) == \A n \in DOMAIN table : table[n] # Direct => EntrySound(table[n])
           OfferedSound(table) == \A n \in DOMAIN table : ToolSound(table[n])
<1> USE DEF EntrySound, ToolSound, ReadOnlyHint, Entry, Reading, Writing, ReadingWith, WritingWith, Always, Direct,
            ReadingOps, WritingOps, WritesWith, Previews, ToolReaders
<1>1. TypedSound(CaptureCommands) BY DEF CaptureCommands
<1>2. TypedSound(ProposeCommands) BY DEF ProposeCommands
<1>3. TypedSound(TaskCommands) BY DEF TaskCommands
<1>4. TypedSound(MemoryCommands) BY DEF MemoryCommands
<1>5. TypedSound(WikiReadCommands) BY DEF WikiReadCommands
<1>6. TypedSound(WikiWriteCommands) BY DEF WikiWriteCommands
<1>7. TypedSound(ClaimsCommands) BY DEF ClaimsCommands
<1>8. TypedSound(ProjectionCommands) BY DEF ProjectionCommands
<1>9. TypedSound(WorkflowCommands) BY DEF WorkflowCommands
<1>10. TypedSound(EventCommands) BY DEF EventCommands
<1>11. TypedSound(RetrieveCommands) BY DEF RetrieveCommands
<1>12. TypedSound(ResearchCommands) BY DEF ResearchCommands
<1>13. TypedSound(SkillCommands) BY DEF SkillCommands
<1>14. TypedSound(HarnessOperations) BY DEF HarnessOperations
<1>15. TypedSound(HarnessDirect) BY DEF HarnessDirect
<1>16. TypedSound(HarnessReports) BY DEF HarnessReports
<1>17. TypedSound(ReportCommands) BY DEF ReportCommands
<1>18. TypedSound(OptimizerCommands) BY DEF OptimizerCommands
<1>19. TypedSound(ArgillaCommands) BY DEF ArgillaCommands
<1>20. TypedSound(EvalCommands) BY DEF EvalCommands
<1>21. TypedSound(AbCommands) BY DEF AbCommands
<1>22. TypedSound(JudgeCommands) BY DEF JudgeCommands
<1>23. TypedSound(MetaCommands) BY DEF MetaCommands
<1>24. TypedSound(InboxCommands) BY DEF InboxCommands
<1>25. TypedSound(ChannelCommands) BY DEF ChannelCommands
<1>26. TypedSound(ApiCommands) BY DEF ApiCommands
<1>27. TypedSound(PptxCommands) BY DEF PptxCommands
<1>28. TypedSound(DescribeCommands) BY DEF DescribeCommands
<1>29. TypedSound(McpCommands) BY DEF McpCommands
<1>30. TypedSound(PolicyCommands) BY DEF PolicyCommands
<1>31. TypedSound(AppCommands) BY DEF AppCommands
<1>32. TypedSound(SchedulingCommands) BY DEF SchedulingCommands
<1>33. TypedSound(UserCommands) BY DEF UserCommands
<1>34. TypedSound(ProjectCommands) BY DEF ProjectCommands
<1>35. TypedSound(FinanceCommands) BY DEF FinanceCommands
<1>36. OfferedSound(QueueTools) BY DEF QueueTools
<1>37. OfferedSound(ReviewTools) BY DEF ReviewTools
<1>38. OfferedSound(WikiTools) BY DEF WikiTools
<1>39. OfferedSound(ClaimTools) BY DEF ClaimTools
<1>40. OfferedSound(StewardTools) BY DEF StewardTools
<1>41. OfferedSound(AgentTools) BY DEF AgentTools
<1> HIDE DEF EntrySound, ToolSound, ReadOnlyHint, Entry, Reading, Writing, ReadingWith, WritingWith, Always, Direct,
             ReadingOps, WritingOps, WritesWith, Previews, ToolReaders
<1>42. ASSUME NEW e \in Commands, e # Direct PROVE EntrySound(e)
  BY <1>42, <1>1, <1>2, <1>3, <1>4, <1>5, <1>6, <1>7, <1>8, <1>9, <1>10, <1>11, <1>12, <1>13, <1>14, <1>15,
     <1>16, <1>17, <1>18, <1>19, <1>20, <1>21, <1>22, <1>23, <1>24, <1>25, <1>26, <1>27, <1>28,
     <1>29, <1>30, <1>31, <1>32, <1>33, <1>34, <1>35
     DEF Commands, Entries
<1>43. \A t \in Tools : ToolSound(t)
  BY <1>36, <1>37, <1>38, <1>39, <1>40, <1>41 DEF Tools, Entries
<1> QED BY <1>42, <1>43

\* The scheduler enqueues the operations of its plans, for any number of domains.
LEMMA TheScheduleIsSound == ASSUME BoundsAssumption PROVE Scheduled \subseteq ScheduledOps
<1>1. \A p \in {"daily", "weekly", "monthly"} : Plans(Domains)[p] \in Seq(ScheduledOps)
  <2>1. Domains \in Nat BY DEF BoundsAssumption
  <2>2. Plans(Domains).daily \in Seq(ScheduledOps) /\ Plans(Domains).monthly \in Seq(ScheduledOps)
    BY DEF Plans, ScheduledOps
  <2>3. CompileTasks(Domains) \in Seq(ScheduledOps) BY <2>1 DEF CompileTasks, ScheduledOps
  <2>4. <<"wiki_dream", "harness_compile">> \in Seq(ScheduledOps) /\ <<"build_weekly_report">> \in Seq(ScheduledOps)
    BY DEF ScheduledOps
  <2>5. <<"wiki_dream", "harness_compile">> \o CompileTasks(Domains) \o <<"build_weekly_report">>
           \in Seq(ScheduledOps)
    BY <2>3, <2>4
  <2>6. Plans(Domains).weekly \in Seq(ScheduledOps) BY <2>5 DEF Plans
  <2> QED BY <2>2, <2>6
<1>2. DOMAIN Plans(Domains) = {"daily", "weekly", "monthly"} BY DEF Plans
<1>3. \A p \in {"daily", "weekly", "monthly"} : PacketsOf(p) \subseteq ScheduledOps BY <1>1 DEF PacketsOf
<1> QED BY <1>2, <1>3 DEF Scheduled

\* What holds for every request that can be made.
CallSound(c) ==
    LET name == c.entry.op
    IN  /\ name \in DOMAIN Registry
        /\ Level(c.entry, c.request) = "L0" => name \in ReadingOps /\ c.request \cap WritesWith(name) = {}
        /\ c.via = "mcp" /\ ReadOnlyHint(c.entry) => name \in ToolReaders
        /\ "dry_run" \in c.request => name \in Previews
        /\ name = "memory_tool" => Decided(c.request)
        /\ c.via = "queue" => name \in ScheduledOps /\ PacketFacts \cap FactsOf(name) \subseteq c.request

\* Every request that a command, a tool or the scheduler can make is sound.
LEMMA EveryCallIsSound == ASSUME BoundsAssumption, NEW c \in Calls PROVE CallSound(c)
<1>1. ASSUME NEW e, EntrySound(e), NEW r \in RequestsOf(e)
      PROVE  /\ e.op \in DOMAIN Registry /\ Decided(r)
             /\ Level(e, r) = "L0" => e.op \in ReadingOps /\ r \cap WritesWith(e.op) = {}
             /\ "dry_run" \in r => e.op \in Previews
  <2>1. e.op \in DOMAIN Registry BY <1>1, EveryOperationIsRegistered DEF EntrySound
  <2>2. Decided(r) /\ r \subseteq (FactsOf(e.op) \ Options) \cup e.options BY DEF RequestsOf
  <2>3. "dry_run" \in r => e.op \in Previews BY <1>1, <2>2 DEF EntrySound, Options
  <2>4. Level(e, r) = "L0" => e.writing \cap (r \cup Always) = {} BY DEF Level
  <2>5. Level(e, r) = "L0" => e.op \in ReadingOps /\ r \cap WritesWith(e.op) = {}
    BY <1>1, <2>4 DEF EntrySound, Always
  <2> QED BY <2>1, <2>2, <2>3, <2>5
<1>2. ASSUME NEW e \in Commands \ {Direct}, NEW r \in RequestsOf(e), c = [via |-> "cli", entry |-> e, request |-> r]
      PROVE  CallSound(c)
  <2>1. EntrySound(e) BY EveryEntryIsSound
  <2>2. c.via = "cli" /\ c.entry = e /\ c.request = r BY <1>2
  <2> QED BY <1>1, <2>1, <2>2 DEF CallSound
<1>3. ASSUME NEW t \in Tools, NEW r \in RequestsOf(t), c = [via |-> "mcp", entry |-> t, request |-> r]
      PROVE  CallSound(c)
  <2>1. EntrySound(t) /\ (ReadOnlyHint(t) => t.op \in ToolReaders) BY EveryEntryIsSound DEF ToolSound
  <2>2. c.via = "mcp" /\ c.entry = t /\ c.request = r BY <1>3
  <2> QED BY <1>1, <2>1, <2>2 DEF CallSound
<1>4. ASSUME NEW name \in Scheduled, NEW found \in SUBSET {"found"},
             c = Packet(name, found)
      PROVE  CallSound(c)
  <2>1. name \in ScheduledOps BY TheScheduleIsSound
  <2>2. name \in DOMAIN Registry /\ name # "memory_tool"
    BY <2>1, EveryOperationIsRegistered DEF ScheduledOps, ReadingOps, WritingOps
  <2>3. c.via = "queue" /\ c.entry.op = name /\ c.entry.writing = Always
    BY <1>4 DEF Packet, WritingWith, Entry
  <2>4. c.request = (PacketFacts \cup PacketOptions(name) \cup found) \cap FactsOf(name) BY <1>4 DEF Packet
  <2>5. "dry_run" \notin c.request BY <2>4 DEF PacketFacts, PacketOptions
  <2>6. Level(c.entry, c.request) # "L0" BY <2>3 DEF Level, Always
  <2>7. PacketFacts \cap FactsOf(name) \subseteq c.request BY <2>4
  <2> QED BY <2>1, <2>2, <2>3, <2>5, <2>6, <2>7 DEF CallSound
<1>5. c \in Typed =>
         \E e \in Commands \ {Direct} : \E r \in RequestsOf(e) : c = [via |-> "cli", entry |-> e, request |-> r]
  BY DEF Typed
<1>6. c \in Offered => \E t \in Tools : \E r \in RequestsOf(t) : c = [via |-> "mcp", entry |-> t, request |-> r]
  BY DEF Offered
<1>7. c \in Planned => \E name \in Scheduled : \E found \in SUBSET {"found"} : c = Packet(name, found)
  BY DEF Planned
<1> QED BY <1>2, <1>3, <1>4, <1>5, <1>6, <1>7 DEF Calls

\* The steps of a request's handler, and those that were due in the request.
StepsOf(c) == DOMAIN Registry[c.entry.op]
At(c, i) == Registry[c.entry.op][i]
Due(c, i) == i \in StepsOf(c) /\ Applies(At(c, i), c.request)

\* The step that wrote a store, and the step at which a request was refused.
Wrote(c, i, s) == Due(c, i) /\ Writes(At(c, i)) /\ At(c, i).on = s
Added(c, i, s) == Due(c, i) /\ At(c, i).do = "add" /\ At(c, i).on = s
TurnedAway(c, j) ==
    /\ Due(c, j) /\ Halting(At(c, j))
    /\ At(c, j).do = "need" => At(c, j).on \notin c.request

\* The inductive invariant of a request: every store it changed was written by a
\* step that was due, and what turned it away came after all that it wrote.
HandlingInv ==
    /\ next \in Nat \ {0} /\ runs \in Nat
    /\ outcome = "none" => call = <<>> /\ changed = {} /\ DOMAIN rows = {} /\ runs = 0
    /\ outcome # "none" => call \in Calls /\ runs # 0
    /\ \A s \in changed : \E i \in StepsOf(call) : Wrote(call, i, s) /\ (runs = 1 => i < next)
    /\ \A s \in DOMAIN rows : \E i \in StepsOf(call) : Added(call, i, s)
    /\ outcome = "raised" =>
          \E j \in StepsOf(call) : /\ TurnedAway(call, j)
                                   /\ runs = 1 => \A s \in changed : \E i \in StepsOf(call) :
                                                     i < j /\ Wrote(call, i, s)
-----------------------------------------------------------------------------
(* A request and its handler.                                              *)

\* Before there is a request nothing is written.
LEMMA InitsTheRequest == Init => HandlingInv
BY DEF Init, HandlingInv

\* A caller asks.
LEMMA AskingKeepsHandlingInv == HandlingInv /\ Ask => HandlingInv'
BY DEF HandlingInv, Ask

\* The handler returns, or its process dies.
LEMMA EndingKeepsHandlingInv == HandlingInv /\ (Return \/ CallDies) => HandlingInv'
BY DEF HandlingInv, Return, CallDies

\* The same request is run again: what it wrote stays.
LEMMA RunningAgainKeepsHandlingInv == HandlingInv /\ Again => HandlingInv'
<1> SUFFICES ASSUME HandlingInv, Again PROVE HandlingInv' OBVIOUS
<1>1. outcome # "none" /\ runs' # 1 /\ runs' # 0 /\ runs' \in Nat BY DEF HandlingInv, Again
<1> QED BY <1>1 DEF HandlingInv, Again

\* The handler takes its next step.
LEMMA TakingKeepsHandlingInv == ASSUME BoundsAssumption, HandlingInv, Take PROVE HandlingInv'
<1> DEFINE step == At(call, next)
<1>1. call \in Calls /\ runs # 0 /\ call' = call /\ runs' = runs /\ outcome = "running" BY DEF HandlingInv, Take
<1>2. IsSeq(Registry[call.entry.op])
  BY <1>1, EveryCallIsSound, EveryHandlerIsSound DEF CallSound, Sound, Handler
<1>3. Len(Steps) \in Nat /\ StepsOf(call) = 1 .. Len(Steps)
  BY <1>2 DEF IsSeq, Steps, StepsOf
<1>4. next \in StepsOf(call) /\ next \in Nat /\ Steps[next] = step
  BY <1>3 DEF Take, HandlingInv, Steps, At
<1>5. /\ \A s \in changed : \E i \in StepsOf(call) : Wrote(call, i, s) /\ (runs = 1 => i < next)
      /\ \A s \in DOMAIN rows : \E i \in StepsOf(call) : Added(call, i, s)
  BY DEF HandlingInv
<1>6. CASE next' \in {next, next + 1} /\ outcome' \in {"running", "returned"} /\ UNCHANGED <<changed, rows>>
  BY <1>1, <1>3, <1>4, <1>5, <1>6 DEF HandlingInv
<1>7. CASE /\ TurnedAway(call, next) /\ next' \in {next, next + 1} /\ outcome' = "raised"
           /\ UNCHANGED <<changed, rows>>
  <2>1. runs = 1 => \A s \in changed : \E i \in StepsOf(call) : i < next /\ Wrote(call, i, s) BY <1>5
  <2>2. next' \in Nat \ {0} /\ (\A i \in StepsOf(call) : i < next => i < next') BY <1>3, <1>4, <1>7
  <2> QED BY <1>1, <1>4, <1>5, <1>7, <2>1, <2>2 DEF HandlingInv
<1>8. CASE /\ Due(call, next) /\ step.do \in {"put", "add"} /\ next' = next + 1 /\ outcome' = outcome
           /\ Write(step.on, step.do = "add")
  <2>1. Wrote(call, next, step.on) BY <1>4, <1>8 DEF Wrote, Writes
  <2>2. \A s \in changed' : \E i \in StepsOf(call) : Wrote(call, i, s) /\ (runs = 1 => i < next')
    <3>1. \A i \in StepsOf(call) : i < next => i < next' BY <1>3, <1>4, <1>8
    <3>2. next < next' BY <1>4, <1>8
    <3>3. changed' = changed \cup {step.on} BY <1>8 DEF Write
    <3> HIDE DEF step
    <3> QED BY <1>4, <1>5, <2>1, <3>1, <3>2, <3>3
  <2>3. \A s \in DOMAIN rows' : \E i \in StepsOf(call) : Added(call, i, s)
    <3>1. CASE step.do = "add"
      <4>1. DOMAIN rows' = DOMAIN rows \cup {step.on} BY <1>8, <3>1 DEF Write
      <4>2. Added(call, next, step.on) BY <1>4, <1>8, <3>1 DEF Added
      <4> HIDE DEF step
      <4> QED BY <1>4, <1>5, <4>1, <4>2
    <3>2. CASE step.do # "add"
      <4>1. rows' = rows BY <1>8, <3>2 DEF Write
      <4> QED BY <1>5, <4>1
    <3> QED BY <3>1, <3>2
  <2>4. next' \in Nat \ {0} BY <1>4, <1>8
  <2> QED BY <1>1, <1>8, <2>2, <2>3, <2>4 DEF HandlingInv
<1>9. Due(call, next) <=> Applies(step, call.request) BY <1>4 DEF Due
<1> HIDE DEF step
<1>10. \/ next' \in {next, next + 1} /\ outcome' \in {"running", "returned"} /\ UNCHANGED <<changed, rows>>
       \/ /\ Applies(step, call.request) /\ step.do = "need" /\ step.on \notin call.request
          /\ next' \in {next, next + 1} /\ outcome' = "raised" /\ UNCHANGED <<changed, rows>>
       \/ /\ Applies(step, call.request) /\ step.do = "raise"
          /\ next' \in {next, next + 1} /\ outcome' = "raised" /\ UNCHANGED <<changed, rows>>
       \/ /\ Applies(step, call.request) /\ step.do \in {"put", "add"} /\ next' = next + 1 /\ outcome' = outcome
          /\ Write(step.on, step.do = "add")
  BY <1>1, <1>4 DEF Take
<1>11. Due(call, next) /\ step.do \in {"need", "raise"} /\ (step.do = "need" => step.on \notin call.request)
         => TurnedAway(call, next)
  BY DEF TurnedAway, Halting, step
<1> QED BY <1>6, <1>7, <1>8, <1>9, <1>10, <1>11

\* Every step of a request keeps the invariant.
LEMMA StepsKeepHandlingInv == ASSUME BoundsAssumption, HandlingInv, [Next]_opsVars PROVE HandlingInv'
<1>1. ASSUME UNCHANGED opsVars PROVE HandlingInv' BY <1>1 DEF HandlingInv, opsVars
<1> QED BY <1>1, AskingKeepsHandlingInv, EndingKeepsHandlingInv, RunningAgainKeepsHandlingInv, TakingKeepsHandlingInv
        DEF Next

\* The invariant holds of every behaviour.
LEMMA RequestsAreTold == Spec => []HandlingInv
<1>1. Init => HandlingInv BY InitsTheRequest
<1>2. HandlingInv /\ [Next]_opsVars => HandlingInv' BY StepsKeepHandlingInv, BoundsAssumption
<1> QED BY <1>1, <1>2, PTL DEF Spec

\* What is known of the request that is handled.
LEMMA WhatTheHandlerIs ==
  ASSUME BoundsAssumption, HandlingInv, outcome # "none"
  PROVE  CallSound(call) /\ Sound(call.entry.op, Registry[call.entry.op])
BY EveryCallIsSound, EveryHandlerIsSound DEF HandlingInv, CallSound

\* Whatever a reader wrote is kept by readers.
LEMMA InvReads == ASSUME BoundsAssumption, HandlingInv PROVE AskedToReadOnlyReads
<1> SUFFICES ASSUME outcome # "none" 
             PROVE  /\ call.via = "mcp" /\ ReadOnlyHint(call.entry) => changed = {}
                    /\ Level(call.entry, call.request) = "L0" => changed \subseteq KeptByReaders
                    /\ "dry_run" \in call.request => changed = {}
  BY DEF AskedToReadOnlyReads
<1> DEFINE name == call.entry.op
           s == Registry[name]
<1>1. CallSound(call) /\ Sound(name, s) BY WhatTheHandlerIs
<1>2. \A store \in changed : \E i \in DOMAIN s : Writes(s[i]) /\ s[i].on = store /\ Applies(s[i], call.request)
  BY DEF HandlingInv, Wrote, Due, StepsOf, At
<1> HIDE DEF name, s
<1>3. ASSUME call.via = "mcp", ReadOnlyHint(call.entry) PROVE changed = {}
  <2>1. name \in ToolReaders BY <1>1, <1>3 DEF CallSound, name
  <2>2. Keeps({}, {}, s) BY <1>1, <2>1 DEF Sound
  <2> QED BY <1>2, <2>2 DEF Keeps
<1>4. ASSUME Level(call.entry, call.request) = "L0" PROVE changed \subseteq KeptByReaders
  <2>1. name \in ReadingOps /\ call.request \cap WritesWith(name) = {} BY <1>1, <1>4 DEF CallSound, name
  <2>2. Keeps(WritesWith(name), KeptByReaders, s) BY <1>1, <2>1 DEF Sound
  <2> QED BY <1>2, <2>1, <2>2 DEF Keeps, Applies
<1>5. ASSUME "dry_run" \in call.request PROVE changed = {}
  <2>1. name \in Previews BY <1>1, <1>5 DEF CallSound, name
  <2>2. Spares(s) BY <1>1, <2>1 DEF Sound
  <2> QED BY <1>2, <1>5, <2>2 DEF Spares, Applies
<1> QED BY <1>3, <1>4, <1>5

\* What turned a request away came before its writes.
LEMMA InvRefuses == ASSUME BoundsAssumption, HandlingInv PROVE RefusedBeforeWriting
<1> DEFINE name == call.entry.op
           s == Registry[name]
<1> SUFFICES ASSUME outcome = "raised", runs = 1, name \notin StopHalfway PROVE changed \subseteq Outside
  BY DEF RefusedBeforeWriting, Outside
<1>1. CallSound(call) /\ Sound(name, s) BY WhatTheHandlerIs
<1>2. PICK j \in DOMAIN s : /\ Halting(s[j]) /\ Applies(s[j], call.request)
                            /\ \A store \in changed : \E i \in DOMAIN s :
                                  i < j /\ Writes(s[i]) /\ s[i].on = store /\ Applies(s[i], call.request)
  BY DEF HandlingInv, TurnedAway, Wrote, Due, StepsOf, At
<1> HIDE DEF name, s
<1>3. ASSUME name # "memory_tool" PROVE changed \subseteq Outside
  <2>1. Early(s) BY <1>1, <1>3 DEF Sound
  <2> QED BY <1>2, <2>1 DEF Early
<1>4. ASSUME name = "memory_tool" PROVE changed = {}
  <2>1. EditsComeLast(s) BY <1>1, <1>4 DEF Sound
  <2>2. Decided(call.request) BY <1>1, <1>4 DEF CallSound, name
  <2>3. ~("create" \in call.request /\ "edit" \in call.request) BY <2>2 DEF Decided, OneOf
  <2> QED BY <1>2, <2>1, <2>3 DEF EditsComeLast, Applies
<1> QED BY <1>3, <1>4

\* The packets of the schedule add only findings and runs.
LEMMA InvRepeats == ASSUME BoundsAssumption, HandlingInv PROVE ScheduledTwiceOnlyAddsFindings
<1> DEFINE name == call.entry.op
           s == Registry[name]
<1> SUFFICES ASSUME call # <<>>, call.via = "queue"
             PROVE  outcome # "raised" /\ DOMAIN rows \subseteq {"proposals", "runs"}
  BY DEF ScheduledTwiceOnlyAddsFindings
<1>1. outcome # "none" BY DEF HandlingInv
<1>2. CallSound(call) /\ Sound(name, s) BY <1>1, WhatTheHandlerIs
<1>3. name \in ScheduledOps /\ PacketFacts \cap FactsOf(name) \subseteq call.request BY <1>2 DEF CallSound
<1>4. Repeatable(s) BY <1>2, <1>3 DEF Sound
<1>5. outcome = "raised" =>
         \E j \in DOMAIN s : Halting(s[j]) /\ (s[j].do = "need" => s[j].on \notin call.request)
  BY DEF HandlingInv, TurnedAway, Due, StepsOf, At
<1>6. \A store \in DOMAIN rows : \E i \in DOMAIN s : s[i].do = "add" /\ s[i].on = store
  BY DEF HandlingInv, Added, Due, StepsOf, At
<1>7. ASSUME NEW j \in DOMAIN s, s[j].do = "need" PROVE s[j].on \in FactsOf(name)
  <2> DEFINE facts(i) == s[i].when \cup s[i].unless \cup (IF s[i].do = "need" THEN {s[i].on} ELSE {})
  <2>1. s[j].on \in facts(j) BY <1>7
  <2>2. FactsOf(name) = UNION {facts(i) : i \in DOMAIN s} BY DEF FactsOf
  <2> HIDE DEF facts, name, s
  <2> QED BY <2>1, <2>2
<1> HIDE DEF name, s
<1>8. outcome # "raised" BY <1>3, <1>4, <1>5, <1>7 DEF Repeatable, Halting
<1>9. DOMAIN rows \subseteq {"proposals", "runs"} BY <1>4, <1>6 DEF Repeatable
<1> QED BY <1>8, <1>9

\* For any number of domains and runs: a tool that is announced as read only and a preview
\* change nothing, and a command that asks to read changes only what readers keep for
\* themselves (the entries of cli/ and mcp_server.py against the handlers of builtins.py).
THEOREM ReadersOnlyRead == Spec => []AskedToReadOnlyReads
BY RequestsAreTold, InvReads, BoundsAssumption, PTL

\* For any number of domains: a request that a handler of builtins.py refuses in its first
\* run has changed at most the layout, the default user and the cache, but for the three
\* operations that stop halfway.
THEOREM RefusalsComeFirst == Spec => []RefusedBeforeWriting
BY RequestsAreTold, InvRefuses, BoundsAssumption, PTL

\* However often a packet of the schedule is run, for any number of domains: it is never
\* refused, and the only rows it adds are proposals and optimizer runs.
THEOREM PacketsMayRunTwice == Spec => []ScheduledTwiceOnlyAddsFindings
BY RequestsAreTold, InvRepeats, BoundsAssumption, PTL
=============================================================================
