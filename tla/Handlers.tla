------------------------------- MODULE Handlers -------------------------------
(***************************************************************************)
(* What the operations of src/omni_hub/builtins.py do to the stores.  A    *)
(* handler is the sequence of the steps it takes for a request: it needs   *)
(* something of the request or of the world and raises without it, writes  *)
(* a store, or returns early.  A request is the set of the facts that hold *)
(* for it: the fields that are given, the options that are set and what is *)
(* found under the names it gives.  What a store does with a write is the  *)
(* matter of the module of that store; here it matters that a step writes  *)
(* at all, and whether the same request run again writes a new row.        *)
(* Opening a store creates its directory and its tables when they are      *)
(* missing; that is not a step.                                            *)
(***************************************************************************)
EXTENDS Integers, Sequences

Step(do, on) == [do |-> do, on |-> on, when |-> {}, unless |-> {}]

Need(fact) == Step("need", fact)       \* raise without it
Put(store) == Step("put", store)       \* run again, it leaves what it left before
Add(store) == Step("add", store)       \* run again, it leaves one row more
Reply == Step("reply", "nothing")      \* an early return
Raise == Step("raise", "nothing")      \* an error of the handler itself

When(fact, steps) == [i \in DOMAIN steps |-> [steps[i] EXCEPT !.when = @ \cup {fact}]]
Unless(fact, steps) == [i \in DOMAIN steps |-> [steps[i] EXCEPT !.unless = @ \cup {fact}]]
IfFound(steps) == When("found", steps)

Reads == <<>>
Finds == <<Need("found")>>
Given == <<Need("fields")>>            \* every field that the handler reads with payload[...] or checks

-----------------------------------------------------------------------------
(* Capture, notes, proposals.  The proposal of a note has an id made of its *)
(* path, so it is written over; any other proposal has an id of its own.   *)

CaptureHandlers ==
    [summarize_text |-> Reads,
     write_markdown |-> <<Need("fields"), Need("inside_workspace"), Put("vault")>>,
     capture_url    |-> Given \o Unless("body_given", When("fetch", <<Need("reachable")>>))
                              \o <<Put("content"), Add("inbox")>>]

ProposalHandlers ==
    [list_vault_notes  |-> Reads,
     read_vault_note   |-> Finds,
     propose_knowledge |-> Finds \o <<Put("proposals"), Put("cards")>>,
     digest_proposal   |-> Finds \o <<Need("knowledge"), Put("memory")>>,
     list_proposals    |-> Reads,
     approve_proposal  |-> Finds \o <<Put("proposals")>>,
     reject_proposal   |-> Finds \o <<Put("proposals")>>]

\* With an idempotency key that is taken, enqueue returns the row that is there.
QueueHandlers ==
    [enqueue_task  |-> Given \o When("key", <<Put("queue")>>) \o Unless("key", <<Add("queue")>>),
     claim_task    |-> Given \o IfFound(<<Put("queue")>>),
     complete_task |-> Given \o Finds \o <<Put("queue")>>,
     fail_task     |-> Given \o Finds \o <<Put("queue")>>,
     list_tasks    |-> Reads]

OptimizerHandlers ==
    [optimizer_register_skill_version |-> Given \o <<Put("versions")>>,
     optimizer_list_skill_versions    |-> Reads,
     optimizer_record_run             |-> Given \o <<Add("runs")>>,
     optimizer_list_runs              |-> Reads]

\* Mutant: a report of the day is added beside the one that is there.
ReportHandlersAdd ==
    [build_daily_report   |-> <<Need("date_parses"), Add("reports")>>,
     build_weekly_report  |-> <<Need("date_parses"), Add("reports")>>,
     build_monthly_report |-> <<Need("date_parses"), Add("reports")>>,
     task_stats           |-> Reads]

ReportHandlers ==
    [build_daily_report   |-> <<Need("date_parses"), Put("reports")>>,
     build_weekly_report  |-> <<Need("date_parses"), Put("reports")>>,
     build_monthly_report |-> <<Need("date_parses"), Put("reports")>>,
     task_stats           |-> Reads]

MemoryHandlers ==
    [memory_tool            |-> Given \o <<Need("known_command"), Need("path_inside")>>
                                \o When("view", Finds) \o When("create", <<Put("agent_memory")>>)
                                \o When("edit", <<Need("found"), Put("agent_memory")>>),
     memory_remember_core   |-> Given \o <<Put("core")>>,
     memory_forget_core     |-> Given \o <<Put("core")>>,
     memory_recall          |-> <<Need("known_tier")>>
                                \o When("recall_tier", When("query", IfFound(<<Put("recall_counts")>>))),
     memory_promote_recall  |-> Given \o <<Add("recall")>>]

-----------------------------------------------------------------------------
(* Retrieval and research assets. *)

\* A reranker that fails is ignored; a source that fails is part of the answer.
RetrievalHandlers ==
    [retrieve_cascade |-> Given \o When("use_cache", <<Put("cache")>>)
                                \o When("persist_evidence", When("run_id", <<Put("evidence")>>)
                                                              \o Unless("run_id", <<Add("evidence")>>)),
     retrieve_doctor  |-> Reads]

FetchHandlers == [fetch_url_reader |-> Given]     \* every reader's failure is part of the answer

ResearchHandlers ==
    [research_kb_status           |-> Reads,
     research_kb_search           |-> Given,
     research_kb_read             |-> Given \o Finds,
     researchflow_skill_inventory |-> Reads]

-----------------------------------------------------------------------------
(* The wiki. *)

\* Mutant: the page is written before its path is resolved inside the wiki.
ApplyStepsLate == <<Put("layout"), Need("found"), Need("wiki_update"), Need("decided"), Put("pages"), Need("inside_wiki"),
                    Add("log"), Put("index"), Put("claims"), Add("preference"), Put("fts")>>

\* The page, index, log and claims; preference and full-text index may fail.
ApplySteps == <<Put("layout"), Need("found"), Need("wiki_update"), Need("decided"), Need("inside_wiki"), Put("pages"),
                Add("log"), Put("index"), Put("claims"), Add("preference"), Put("fts")>>
SupersedeSteps == <<Need("distinct"), Need("ledger")>> \o When("expected_version", <<Need("version_matches")>>)
                  \o <<Need("both_there"), Put("claims"), Add("log")>>
                  \o When("on_a_page", <<Put("index")>>)

\* Mutant: the handler never looks at dry_run.
WikiHandlersNoPreview ==
    [wiki_init             |-> <<Put("layout")>>,
     wiki_status           |-> Reads,
     wiki_search           |-> Given,
     wiki_propose_research |-> Given \o <<Put("layout"), Need("found"), Add("proposals")>>,
     wiki_apply_proposal   |-> Given \o ApplySteps]

WikiHandlers ==
    [wiki_init             |-> <<Put("layout")>>,
     wiki_status           |-> Reads,
     wiki_search           |-> Given,
     wiki_propose_research |-> Given \o <<Put("layout"), Need("found"), Add("proposals")>>,
     wiki_apply_proposal   |-> Given \o When("dry_run", Finds) \o Unless("dry_run", ApplySteps)]

\* A finding that is persisted is a proposal with an id of its own.  A conflict
\* is resolved by marking both claims, or one, or by superseding one.
StewardHandlers ==
    [wiki_ingest |-> Given \o <<Put("layout"), Need("found"), Put("evidence_files"), Add("proposals"), Add("log")>>,
     wiki_dream  |-> <<Need("known_rules")>> \o When("persist", IfFound(<<Add("proposals")>>))
                                             \o Unless("keep_state", <<Put("dream_state")>>),
     wiki_lint   |-> <<Need("known_rules")>> \o When("persist", IfFound(<<Add("proposals")>>)),
     wiki_doctor |-> Reads,
     wiki_supersede |-> Given \o Unless("dry_run", SupersedeSteps),
     wiki_conflict_resolve |->
        Given \o <<Need("found"), Need("contradiction")>>
              \o When("supersede", SupersedeSteps)
              \o Unless("supersede", <<Need("known_decision"), Need("claim_there"), Put("claims")>>
                                     \o When("keep_both", <<Need("other_claim_there"), Put("claims")>>)
                                     \o Unless("keep_both", <<Put("index")>>))
              \o <<Put("proposals"), Add("log")>>]

ClaimHandlers ==
    [claims_list      |-> Reads,
     claims_show      |-> Given \o Finds,
     claims_stats     |-> Reads,
     wiki_reindex     |-> <<Put("fts")>>,
     wiki_graph_query |-> Given]

ProjectionHandlers ==
    [projection_list      |-> Reads,
     projection_rebuild   |-> Given \o Finds \o <<Put("projected"), Add("snapshots")>>,
     projection_snapshots |-> Given,
     projection_rollback  |-> Given \o Finds \o <<Put("snapshots")>>]

WorkflowHandlers ==
    [workflow_list   |-> Reads,
     workflow_show   |-> Given \o Finds,
     workflow_signal |-> Given \o <<Add("signals")>>,
     workflow_query  |-> Given \o Finds \o <<Add("queries")>>,
     workflow_resume |-> Given \o Finds \o <<Put("workflows")>>]

LogHandlers ==
    [wiki_log_append    |-> Given \o <<Add("log")>>,
     context_pack_build |-> Given \o <<Need("known_tier")>> \o When("persist", <<Add("packs")>>),
     event_log_dump     |-> Reads,
     event_log_list     |-> Reads,
     skill_sync         |-> When("apply", <<Put("skills")>>)]

-----------------------------------------------------------------------------
(* The schedule: what a tick of a period enqueues, each packet under a key of *)
(* the period's anchor, so that a second tick finds every row there.          *)

CompileTasks(domains) == [i \in 1..domains |-> "harness_compile_skill"]

Plans(domains) ==
    [daily   |-> <<"harness_redundancy_scan", "wiki_lint", "build_daily_report">>,
     weekly  |-> <<"wiki_dream", "harness_compile">> \o CompileTasks(domains) \o <<"build_weekly_report">>,
     monthly |-> <<"wiki_dream", "wiki_doctor", "build_monthly_report">>]

TickHandlers == [schedule_tick |-> <<Need("known_period"), Put("queue")>>]

-----------------------------------------------------------------------------
(* Skills, prompts and feedback. *)

SkillHandlers ==
    [search_memory  |-> Given,
     memory_stats   |-> Reads,
     register_skill |-> Given \o <<Put("skills")>> \o Unless("no_card", <<Put("cards")>>),
     list_skills    |-> Reads,
     get_skill      |-> Given \o Finds,
     disable_skill  |-> Given \o Finds \o <<Put("skills"), Put("cards")>>,
     recommend_skills |-> Reads,
     analyze_skills |-> Finds,
     api_management_status |-> Reads]

\* A compiled SKILL.md is taken into the registry; a failure of that is ignored.
HarnessHandlers ==
    [harness_preference_add  |-> Given \o <<Add("preference")>>,
     harness_compile         |-> Given \o <<Need("backend_there"), Put("prompts"), Add("runs"), Put("versions")>>,
     harness_compile_skill   |-> Given \o <<Need("backend_there"), Need("valid_skill_id"), Put("prompts"),
                                            Put("skill_files"), Put("skills")>>,
     harness_redundancy_scan |-> Reads]

\* The rows of a feedback file are applied as they are read: a row without a
\* proposal is skipped, a line that is not JSON raises with the rows before it
\* applied.
ArgillaHandlers ==
    [argilla_export_proposals |-> <<Need("inside_workspace"), Put("export")>>,
     argilla_sync_feedback    |-> Given \o <<Need("inside_workspace")>>
                                  \o IfFound(<<Put("proposals"), Add("preference")>>)
                                  \o When("a_line_is_torn", <<Raise>>)]

EvalHandlers ==
    [eval_list    |-> Reads,
     eval_show    |-> Given,
     eval_run     |-> Given \o Finds \o When("holdout_denied", <<Reply>>) \o <<Add("eval_runs")>>,
     eval_promote |-> Given \o Unless("above_floor", <<Reply>>) \o <<Put("proposals")>>]

-----------------------------------------------------------------------------
(* The personal applications. *)

\* The first command that opens the users writes the default user.
UserHandlers ==
    [user_list            |-> <<Put("users")>>,
     user_enroll          |-> Given \o <<Put("users")>>,
     user_approve         |-> Given \o <<Put("users"), Need("found"), Put("users")>>,
     user_set_persona     |-> Given \o <<Put("users"), Need("found"), Put("users")>>,
     user_memory_recall   |-> Given,
     user_memory_archival |-> Given]

PersonalHandlers ==
    [calendar_list      |-> Given,
     task_list_personal |-> Given,
     task_done          |-> Given \o Finds \o <<Put("tasks")>>,
     project_list       |-> Reads,
     project_show       |-> Given]

FinanceHandlers ==
    [finance_watch_create    |-> Given \o <<Add("alerts")>>,
     finance_watch_list      |-> Reads,
     finance_portfolio_stats |-> Given]

ProjectHandlers ==
    [inbox_classify |-> Given,
     project_plan   |-> Given \o <<Add("projects")>>,
     pptx_build     |-> Given \o Unless("broker_there", <<Reply>>) \o <<Put("decks")>>]

PlanningHandlers ==
    [calendar_add  |-> Given \o <<Need("dates_parse"), Add("calendar")>>,
     schedule_plan |-> Given,
     task_add      |-> Given \o <<Add("tasks")>>]

\* An order that the risk check blocks is proposed all the same, with its blocks.
OrderHandlers ==
    [finance_screen |-> Reads,
     order_propose  |-> Given \o <<Need("known_side_and_type"), Add("proposals")>>]

ChannelHandlers ==
    [channel_list   |-> Reads,
     channel_health |-> Unless("fields", <<Reply>>) \o Finds]

\* The row that enqueue returns has no attribute task_id: after the enqueue the
\* handler raises.
AppHandlers ==
    [app_report_build |-> <<Need("known_period")>> \o When("persist", <<Add("app_reports")>>)
                          \o When("narrate", <<Put("queue"), Raise>>),
     app_route_task   |-> Given,
     app_intent_route |-> Given,
     skill_stubs_sync |-> <<Put("skill_files")>>]

JudgeHandlers ==
    [judge_evaluate        |-> Given \o <<Need("reference_readable")>>,
     meta_cross_skill_scan |-> Reads]

AbHandlers ==
    [ab_test_run   |-> Given \o <<Add("ab_runs")>>,
     ab_test_list  |-> Reads,
     ab_test_show  |-> Given,
     ab_test_stats |-> Reads]

-----------------------------------------------------------------------------
\* Every operation by its name.
HandlerTables ==
    {CaptureHandlers, ProposalHandlers, QueueHandlers, OptimizerHandlers, ReportHandlers, MemoryHandlers,
     RetrievalHandlers, FetchHandlers, ResearchHandlers, WikiHandlers, StewardHandlers, ClaimHandlers,
     ProjectionHandlers, WorkflowHandlers, LogHandlers, TickHandlers, SkillHandlers, HarnessHandlers,
     ArgillaHandlers, EvalHandlers, UserHandlers, PersonalHandlers, FinanceHandlers, ProjectHandlers,
     PlanningHandlers, OrderHandlers, ChannelHandlers, AppHandlers, JudgeHandlers, AbHandlers}

Registry ==
    [op \in UNION {DOMAIN table : table \in HandlerTables} |->
        LET of == CHOOSE table \in HandlerTables : op \in DOMAIN table IN of[op]]
=============================================================================
