------------------------------ MODULE Frontends ------------------------------
(***************************************************************************)
(* Who asks for an operation, and as what: the commands of the command     *)
(* line (src/omni_hub/cli) and the tools of the MCP server                 *)
(* (src/omni_hub/mcp_server.py).  An entry names the operation, the        *)
(* options of it that the entry lets its caller set, and when it asks for  *)
(* the level L1 (a local write) instead of L0 (read only): always, never,  *)
(* or with one of some options.  A command without an operation does its   *)
(* work in the command itself, beside the runner and its policy.           *)
(***************************************************************************)
EXTENDS Naturals

Always == {"always"}

Entry(op, writing, options) == [op |-> op, writing |-> writing, options |-> options]

Reading(op) == Entry(op, {}, {})
Writing(op) == Entry(op, Always, {})
ReadingWith(op, options) == Entry(op, {}, options)
WritingWith(op, options) == Entry(op, Always, options)
Direct == Entry("nothing", {}, {})

\* A request asks for a local write when it sets an option that makes it one.
Level(entry, request) ==
    IF entry.writing \cap (request \cup Always) # {} THEN "L1" ELSE "L0"

-----------------------------------------------------------------------------
(* The command line, one table per file of commands. *)

CaptureCommands ==
    [summarize_text |-> Reading("summarize_text"),
     write_markdown |-> WritingWith("write_markdown", {"approved"}),
     capture_url    |-> WritingWith("capture_url", {"fetch"}),
     vault_list     |-> Reading("list_vault_notes"),
     vault_read     |-> Reading("read_vault_note"),
     propose_note   |-> Writing("propose_knowledge")]

ProposeCommands ==
    [propose_list    |-> Reading("list_proposals"),
     propose_approve |-> Writing("approve_proposal"),
     propose_reject  |-> Writing("reject_proposal")]

TaskCommands ==
    [task_enqueue  |-> WritingWith("enqueue_task", {"key"}),
     task_claim    |-> Writing("claim_task"),
     task_complete |-> Writing("complete_task"),
     task_fail     |-> Writing("fail_task"),
     task_list     |-> Reading("list_tasks"),
     task_stats    |-> Reading("task_stats"),
     schedule_tick |-> Writing("schedule_tick")]

\* Every option of create, str_replace, insert, delete and rename writes.
MemoryCommands ==
    [memory_tool            |-> Entry("memory_tool", {"create", "edit"}, {"view", "create", "edit"}),
     memory_digest_proposal |-> Writing("digest_proposal"),
     memory_search          |-> Reading("search_memory"),
     memory_stats           |-> Reading("memory_stats"),
     memory_remember        |-> Writing("memory_remember_core"),
     memory_forget          |-> Writing("memory_forget_core"),
     memory_recall          |-> ReadingWith("memory_recall", {"recall_tier", "query"}),
     memory_promote_recall  |-> Writing("memory_promote_recall")]

WikiReadCommands ==
    [wiki_init    |-> Writing("wiki_init"),
     wiki_status  |-> Reading("wiki_status"),
     wiki_search  |-> Reading("wiki_search"),
     wiki_reindex |-> Writing("wiki_reindex"),
     wiki_graph   |-> Reading("wiki_graph_query"),
     wiki_doctor  |-> Reading("wiki_doctor")]

WikiWriteCommands ==
    [wiki_propose_research |-> Writing("wiki_propose_research"),
     wiki_apply_proposal   |-> WritingWith("wiki_apply_proposal", {"dry_run"}),
     wiki_ingest           |-> Writing("wiki_ingest"),
     wiki_log              |-> Writing("wiki_log_append"),
     wiki_dream            |-> Entry("wiki_dream", {"persist"}, {"persist", "keep_state"}),
     wiki_lint             |-> Entry("wiki_lint", {"persist"}, {"persist"}),
     wiki_supersede        |-> WritingWith("wiki_supersede", {"dry_run", "expected_version"}),
     wiki_conflict_resolve |-> WritingWith("wiki_conflict_resolve", {"supersede", "keep_both"}),
     context_pack_build    |-> Entry("context_pack_build", {"persist"}, {"persist"})]

ClaimsCommands ==
    [claims_list  |-> Reading("claims_list"),
     claims_show  |-> Reading("claims_show"),
     claims_stats |-> Reading("claims_stats")]

ProjectionCommands ==
    [projection_list      |-> Reading("projection_list"),
     projection_rebuild   |-> Writing("projection_rebuild"),
     projection_snapshots |-> Reading("projection_snapshots"),
     projection_rollback  |-> Writing("projection_rollback")]

WorkflowCommands ==
    [workflow_list   |-> Reading("workflow_list"),
     workflow_show   |-> Reading("workflow_show"),
     workflow_signal |-> Writing("workflow_signal"),
     workflow_query  |-> Reading("workflow_query"),
     workflow_resume |-> Writing("workflow_resume")]

EventCommands ==
    [event_log      |-> Reading("event_log_dump"),
     event_log_list |-> Reading("event_log_list")]

RetrieveCommands ==
    [retrieve        |-> ReadingWith("retrieve_cascade", {"use_cache", "persist_evidence", "run_id"}),
     fetch_url       |-> Reading("fetch_url_reader"),
     retrieve_doctor |-> Reading("retrieve_doctor")]

ResearchCommands ==
    [research_kb_status  |-> Reading("research_kb_status"),
     research_kb_search  |-> Reading("research_kb_search"),
     research_kb_read    |-> Reading("research_kb_read"),
     researchflow_skills |-> Reading("researchflow_skill_inventory")]

SkillCommands ==
    [skill_register  |-> WritingWith("register_skill", {"no_card"}),
     skill_list      |-> Reading("list_skills"),
     skill_get       |-> Reading("get_skill"),
     skill_disable   |-> Writing("disable_skill"),
     skill_recommend |-> Reading("recommend_skills"),
     skill_analyze   |-> Reading("analyze_skills"),
     skill_sync      |-> Entry("skill_sync", {"apply"}, {"apply"})]

\* The heavy commands of the harness work beside the runner.
HarnessOperations ==
    [harness_preference_add  |-> Writing("harness_preference_add"),
     harness_compile_skill   |-> Writing("harness_compile_skill"),
     harness_compile         |-> Writing("harness_compile"),
     harness_redundancy_scan |-> Writing("harness_redundancy_scan")]

HarnessDirect ==
    [c \in {"harness_task_validate", "harness_ensemble", "harness_judge", "harness_ground"} |-> Direct]

HarnessReports ==
    [c \in {"harness_preference_stats", "harness_domain_list", "harness_domain_get", "harness_task_template",
            "harness_stats", "harness_replay"} |-> Direct]

ReportCommands ==
    [harness_report_daily   |-> Writing("build_daily_report"),
     harness_report_weekly  |-> Writing("build_weekly_report"),
     harness_report_monthly |-> Writing("build_monthly_report")]

OptimizerCommands ==
    [optimizer_skill_register |-> Writing("optimizer_register_skill_version"),
     optimizer_skill_list     |-> Reading("optimizer_list_skill_versions"),
     optimizer_run_record     |-> Writing("optimizer_record_run"),
     optimizer_run_list       |-> Reading("optimizer_list_runs")]

ArgillaCommands ==
    [argilla_schema           |-> Direct,
     argilla_export_proposals |-> Writing("argilla_export_proposals"),
     argilla_sync_feedback    |-> Writing("argilla_sync_feedback")]

EvalCommands ==
    [eval_list    |-> Reading("eval_list"),
     eval_show    |-> Reading("eval_show"),
     eval_run     |-> Writing("eval_run"),
     eval_promote |-> Writing("eval_promote")]

AbCommands ==
    [ab_test  |-> Writing("ab_test_run"),
     ab_list  |-> Reading("ab_test_list"),
     ab_show  |-> Reading("ab_test_show"),
     ab_stats |-> Reading("ab_test_stats")]

JudgeCommands == [judge_evaluate |-> Reading("judge_evaluate"), judge_list |-> Direct]
MetaCommands == [meta_cross_skill_scan |-> Reading("meta_cross_skill_scan")]
InboxCommands == [inbox_classify |-> Reading("inbox_classify")]
ChannelCommands == [channel_list |-> Reading("channel_list"), channel_health |-> Reading("channel_health")]
ApiCommands == [api_management_status |-> Reading("api_management_status")]
PptxCommands == [pptx_build |-> Writing("pptx_build")]
DescribeCommands == [command_describe |-> Direct]
McpCommands == [mcp_serve |-> Direct]
PolicyCommands == [check_policy |-> Direct]

AppCommands ==
    [app_report_build |-> Entry("app_report_build", {"persist", "narrate"}, {"persist", "narrate"}),
     app_route_task   |-> Reading("app_route_task"),
     app_intent_route |-> Reading("app_intent_route"),
     skill_stubs_sync |-> Writing("skill_stubs_sync")]

SchedulingCommands ==
    [cal_add            |-> Writing("calendar_add"),
     cal_list           |-> Reading("calendar_list"),
     personal_task_add  |-> Writing("task_add"),
     personal_task_list |-> Reading("task_list_personal"),
     personal_task_done |-> Writing("task_done"),
     schedule_plan      |-> Reading("schedule_plan")]

UserCommands ==
    [user_list            |-> Reading("user_list"),
     user_enroll          |-> Writing("user_enroll"),
     user_approve         |-> Writing("user_approve"),
     user_set_persona     |-> Writing("user_set_persona"),
     user_memory_recall   |-> Reading("user_memory_recall"),
     user_memory_archival |-> Reading("user_memory_archival")]

ProjectCommands ==
    [project_create |-> Writing("project_plan"),
     project_list   |-> Reading("project_list"),
     project_show   |-> Reading("project_show")]

FinanceCommands ==
    [finance_screen          |-> Reading("finance_screen"),
     finance_watch_create    |-> Writing("finance_watch_create"),
     finance_watch_list      |-> Reading("finance_watch_list"),
     finance_portfolio_stats |-> Reading("finance_portfolio_stats"),
     order_propose           |-> Writing("order_propose")]

Entries(tables) == UNION {{table[name] : name \in DOMAIN table} : table \in tables}

Commands == Entries(
    {CaptureCommands, ProposeCommands, TaskCommands, MemoryCommands, WikiReadCommands, WikiWriteCommands,
     ClaimsCommands, ProjectionCommands, WorkflowCommands, EventCommands, RetrieveCommands, ResearchCommands,
     SkillCommands, HarnessOperations, HarnessDirect, HarnessReports, ReportCommands, OptimizerCommands,
     ArgillaCommands, EvalCommands, AbCommands, JudgeCommands, MetaCommands, InboxCommands, ChannelCommands,
     ApiCommands, PptxCommands, DescribeCommands, McpCommands, PolicyCommands, AppCommands, SchedulingCommands,
     UserCommands, ProjectCommands, FinanceCommands})

-----------------------------------------------------------------------------
(* The MCP server's tools.  A tool is announced as read only when it asks  *)
(* for L0.                                                                 *)

QueueTools ==
    [task_enqueue |-> WritingWith("enqueue_task", {"key"}),
     task_list    |-> Reading("list_tasks"),
     task_stats   |-> Reading("task_stats")]

ReviewTools ==
    [propose_list    |-> Reading("list_proposals"),
     propose_approve |-> Writing("approve_proposal"),
     propose_reject  |-> Writing("reject_proposal"),
     memory_search   |-> Reading("search_memory"),
     memory_stats    |-> Reading("memory_stats")]

WikiTools ==
    [wiki_status |-> Reading("wiki_status"),
     wiki_search |-> Reading("wiki_search"),
     wiki_ingest |-> Writing("wiki_ingest"),
     wiki_lint   |-> WritingWith("wiki_lint", {"persist"}),
     context_pack_build |-> WritingWith("context_pack_build", {"persist"})]

ClaimTools ==
    [claims_list  |-> Reading("claims_list"),
     claims_show  |-> Reading("claims_show"),
     claims_stats |-> Reading("claims_stats")]

StewardTools ==
    [wiki_apply_proposal   |-> Writing("wiki_apply_proposal"),
     wiki_supersede        |-> WritingWith("wiki_supersede", {"expected_version"}),
     wiki_conflict_resolve |-> WritingWith("wiki_conflict_resolve", {"supersede", "keep_both", "expected_version"}),
     wiki_reindex          |-> Writing("wiki_reindex"),
     wiki_doctor           |-> Reading("wiki_doctor"),
     wiki_dream            |-> WritingWith("wiki_dream", {"persist", "keep_state"})]

AgentTools ==
    [harness_compile_skill |-> Writing("harness_compile_skill"),
     memory_tool           |-> WritingWith("memory_tool", {"view", "create", "edit"})]

Tools == Entries({QueueTools, ReviewTools, WikiTools, ClaimTools, StewardTools, AgentTools})

ReadOnlyHint(tool) == tool.writing = {}
=============================================================================
