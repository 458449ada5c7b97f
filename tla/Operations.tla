----------------------------- MODULE Operations -----------------------------
(***************************************************************************)
(* One request of one caller: a command, an MCP tool or a packet that the  *)
(* scheduler put into the queue, with the options its caller sets and the  *)
(* facts it meets, carried out step by step by the handler of its          *)
(* operation.  The process may die between two steps, and the caller, who  *)
(* may have lost the answer, or the queue, whose lease may have lapsed,    *)
(* may run the same request again.  What the policy of the runner says to  *)
(* a request and what the audit file keeps of it is the matter of          *)
(* OperationGate.                                                          *)
(***************************************************************************)
EXTENDS Handlers, Frontends

CONSTANTS
    Domains,      \* how many domains have a schema
    MaxRuns       \* bound on the runs of a request

ASSUME BoundsAssumption == Domains \in Nat \ {0} /\ MaxRuns \in Nat \ {0}

VARIABLES
    call,         \* [via, entry, request], or <<>> before there is one
    next,         \* the number of the handler's next step
    outcome,      \* "none", "running", "returned", "raised" or "died"
    changed,      \* the stores that the runs of the request changed
    rows,         \* how many rows of its own each store got from it
    runs          \* how often it was run

opsVars == <<call, next, outcome, changed, rows, runs>>

-----------------------------------------------------------------------------
(* Requests. *)

\* What a caller decides; every other fact is what the request meets.
Options == {"approved", "fetch", "key", "view", "create", "edit", "recall_tier", "query", "dry_run", "persist",
            "keep_state", "expected_version", "supersede", "keep_both", "use_cache", "persist_evidence", "run_id",
            "no_card", "apply", "narrate"}

FactsOf(op) ==
    LET steps == Registry[op]
    IN UNION {steps[i].when \cup steps[i].unless
              \cup (IF steps[i].do = "need" THEN {steps[i].on} ELSE {}) : i \in DOMAIN steps}

\* One command of the memory tool, one decision on a conflict.
OneOf == {{"view", "create", "edit"}, {"supersede", "keep_both"}}
Decided(q) == \A group \in OneOf : \A x, y \in q \cap group : x = y

RequestsOf(entry) == {q \in SUBSET ((FactsOf(entry.op) \ Options) \cup entry.options) : Decided(q)}

\* The scheduler's packets name what their handlers need.
PacketFacts == {"fields", "known_rules", "date_parses", "backend_there", "valid_skill_id"}
PacketOptions(op) == IF op \in {"wiki_lint", "wiki_dream"} THEN {"persist"} ELSE {}

PacketsOf(period) == {Plans(Domains)[period][i] : i \in DOMAIN Plans(Domains)[period]}

Scheduled == UNION {PacketsOf(p) : p \in DOMAIN Plans(Domains)}

Packet(op, found) ==
    [via |-> "queue", entry |-> WritingWith(op, PacketOptions(op)),
     request |-> (PacketFacts \cup PacketOptions(op) \cup found) \cap FactsOf(op)]

Typed == UNION {{[via |-> "cli", entry |-> e, request |-> q] : q \in RequestsOf(e)} : e \in Commands \ {Direct}}
Offered == UNION {{[via |-> "mcp", entry |-> t, request |-> q] : q \in RequestsOf(t)} : t \in Tools}
Planned == UNION {{Packet(op, found) : found \in SUBSET {"found"}} : op \in Scheduled}

Calls == Typed \cup Offered \cup Planned

-----------------------------------------------------------------------------

Init ==
    /\ call = <<>> /\ next = 1 /\ outcome = "none"
    /\ changed = {} /\ rows = <<>> /\ runs = 0

Ask ==
    /\ outcome = "none"
    /\ call' \in Calls
    /\ outcome' = "running"
    /\ runs' = 1
    /\ UNCHANGED <<next, changed, rows>>

Steps == Registry[call.entry.op]
Applies(step, q) == step.when \subseteq q /\ step.unless \cap q = {}

Write(store, more) ==
    /\ changed' = changed \cup {store}
    /\ rows' = IF more
               THEN [s \in DOMAIN rows \cup {store} |->
                       (IF s \in DOMAIN rows THEN rows[s] ELSE 0) + (IF s = store THEN 1 ELSE 0)]
               ELSE rows

Take ==
    /\ outcome = "running" /\ next <= Len(Steps)
    /\ LET step == Steps[next] IN
        \/ /\ ~Applies(step, call.request)
           /\ next' = next + 1
           /\ UNCHANGED <<outcome, changed, rows>>
        \/ /\ Applies(step, call.request) /\ step.do = "need"
           /\ next' = next + 1
           /\ outcome' = IF step.on \in call.request THEN "running" ELSE "raised"
           /\ UNCHANGED <<changed, rows>>
        \/ /\ Applies(step, call.request) /\ step.do \in {"put", "add"}
           /\ next' = next + 1
           /\ Write(step.on, step.do = "add")
           /\ UNCHANGED outcome
        \/ /\ Applies(step, call.request) /\ step.do \in {"reply", "raise"}
           /\ outcome' = IF step.do = "reply" THEN "returned" ELSE "raised"
           /\ UNCHANGED <<next, changed, rows>>
    /\ UNCHANGED <<call, runs>>

Return ==
    /\ outcome = "running" /\ next > Len(Steps)
    /\ outcome' = "returned"
    /\ UNCHANGED <<call, next, changed, rows, runs>>

CallDies ==
    /\ outcome = "running"
    /\ outcome' = "died"
    /\ UNCHANGED <<call, next, changed, rows, runs>>

Again ==
    /\ outcome \in {"returned", "died"} /\ runs < MaxRuns
    /\ outcome' = "running" /\ next' = 1 /\ runs' = runs + 1
    /\ UNCHANGED <<call, changed, rows>>

Next == Ask \/ Take \/ Return \/ CallDies \/ Again

Spec == Init /\ [][Next]_opsVars

-----------------------------------------------------------------------------

\* A tool that is announced as read only, a command that asks to read and a
\* preview change nothing, but for what a reading handler keeps for itself: the
\* cache and the evidence of a retrieval, the use counts of memory, the watermark
\* of the dream, the log of queries and the default user.
KeptByReaders == {"cache", "evidence", "recall_counts", "dream_state", "queries", "users"}

AskedToReadOnlyReads ==
    outcome # "none" =>
        /\ call.via = "mcp" /\ ReadOnlyHint(call.entry) => changed = {}
        /\ Level(call.entry, call.request) = "L0" => changed \subseteq KeptByReaders
        /\ "dry_run" \in call.request => changed = {}

\* A request that is refused has changed nothing yet, so that it can be put right
\* and sent again: the layout, the default user and the cache aside.  Three
\* operations do not keep to it: a feedback file is applied up to a torn line, a
\* narrated report fails after its packet is queued, and keeping both claims of a
\* conflict marks the first before it looks for the second.
StopHalfway == {"argilla_sync_feedback", "app_report_build", "wiki_conflict_resolve"}

RefusedBeforeWriting ==
    (outcome = "raised" /\ runs = 1) =>
        changed \subseteq {"layout", "users", "cache"} \/ call.entry.op \in StopHalfway

\* A packet of the schedule that is run twice, because its lease lapsed or its
\* daemon died, leaves the second time only findings and one optimizer run more;
\* reports, prompts and skills are written over.
ScheduledTwiceOnlyAddsFindings ==
    (call # <<>> /\ call.via = "queue") =>
        /\ outcome # "raised"
        /\ DOMAIN rows \subseteq {"proposals", "runs"}
=============================================================================
