# TLA+ models of omni-hub

omni-hub is a personal assistant back end: a control plane that takes requests
and asks for approval, a pool of worker processes that run tasks, and a
knowledge plane that turns their output, once a person has approved it, into a
wiki with a ledger of claims.  It is Python on the standard library; its state
is a set of SQLite databases (WAL mode), JSON files, JSON-lines files and pages
under one workspace directory, shared by a command line, an MCP server and any
number of worker daemons.  No process talks to another except through these
files.  So almost everything that is hard about it is what several short-lived
processes do to one store between each other's reads and writes, and what one
leaves behind when it dies.

All paths below are relative to `src/src/omni_hub/` unless they begin with
`src/`.

## 1. The system

### 1.1 Components, their state and operations

| component | state | operations that change it | what makes it correct |
|---|---|---|---|
| task queue (`queue.py`) | table `tasks`: state, attempts, lease epoch, holder, output, available_at | `enqueue`, `claim`, `complete`, `fail`, each with two, one or no fencing arguments | one holder per task, a stale holder writes nothing, an outcome is final, every task ends |
| worker daemon (`cli/worker.py`, `workers/`) | its position in the loop, its lease | claim, adapter run, stage a proposal, complete or fail, log | queue, proposals and event log agree whatever call it stalls or dies at |
| proposal store (`proposals.py`) | table `proposals` (one JSON row each), a card file | `store`, `approve`, `reject` | a verdict falls on the content its reviewer has seen; nothing passes the gate without one |
| feedback and preferences (`harness/argilla_bridge.py`, `harness/preference.py`) | feedback files, `preferences.jsonl` | `sync_feedback_file`, `append` | the preference file follows the table |
| claim ledger and wiki (`knowledge_plane.py`) | `claims.jsonl`, pages, `index.md`, `log.md` | `apply_wiki_proposal`, `supersede_claim`, `resolve_conflict`, appends | no claim is lost, the supersession chain is linked at both ends, index and log follow |
| event log (`event_log.py`) | one hash-chained file per task | `append` | an accepted event survives, the chain verifies |
| workflow store (`workflow.py`) | tables `workflows`, `steps`, `signals` | `advance_cursor`, `update_step`, `suspend`, `resume`, `complete`, `send_signal`, `consume_signals` | no advance, attempt or signal is lost or doubled |
| memory store (`memory.py`, `content_store.py`, `memory_tool.py`) | tables of digests, entities, relations, core and recall rows; an agent's files; captures | `digest_proposal`, `remember_core`, `promote_to_recall`, the file commands | what is kept of an entity is the most confident thing said |
| operation runner (`runner.py`, `policy.py`, `registry.py`, `audit.py`) | the audit file | `run`: evaluate, approve, sandbox, dispatch | every outcome is audited; nothing runs without the approval its risk level asks for |
| built-in operations (`builtins.py`) | none of their own | about a hundred handlers over the stores | a read-only request only reads, a refused one has not begun, a repeated one adds nothing |
| command line and MCP server (`cli/`, `mcp_server.py`) | none | one request each | the level and the options they pass on |
| projection registry (`projection.py`) | tables of snapshots, current snapshot, cursors | `rebuild`, `rollback`, `advance_cursor` | what is current is whole and known |
| lint and doctor (`wiki_lint.py`, `wiki_doctor.py`, `domain_schemas.py`) | findings as proposals | `lint_wiki`, `run_doctor` | what a reviewer has resolved stays resolved; a narrowed lint misses nothing of its own |
| dream (`wiki_dream.py`, `retrieval/evidence.py`) | evidence of runs, a watermark, findings as proposals | `run_dream`, `EvidenceStore.write`, `ingest_retrieval_evidence` | no run of retrieval is passed over |
| graph (`wiki_graph.py`), full-text index (`wiki_fts.py`) | snapshot files and a pointer; a table of page texts | `rebuild_graph`; `rebuild_one`, `rebuild_all`, `delete_one` | the graph is that of the claims, a row is what its page says |
| schedules, calendar, tasks, planner (`scheduling/`) | a month file of appointments, a table of tasks | add, import, complete, plan | appointments stay, blocks keep clear of them |
| projects, users, memory tiers (`projects/`, `users/`) | tables of projects, users; lines per user | create, enrol, approve, promote | a handle names one user |
| skills (`skills.py`, `skill_sync.py`, `skill_stubs.py`, `harness/dspy_compile.py`) | SKILL.md cards and one registry file | register, disable, stub, compile, sync | cards and registry agree |
| eval packs, A/B tests, optimizer (`evals/`, `ab/`, `optimizer/`) | case files, manifests, an index; rows of verdicts and runs | seed, add a case, run, propose an upgrade | a count is backed by cases |
| finance (`finance_ops/`) | order intents as proposals, watch lines | `risk_check`, `propose` | what passes the check fits the portfolio |
| retrieval (`retrieval/`) | a cache of answers | a cascade over about thirty sources | an answer accounts for every source |
| harness, judges, cross-skill transfer (`harness/`, `judge/`, `meta/`) | scores | aggregate, audit | arithmetic of scores |
| application plane, reports, inbox (`app/`, `reports/`, `inbox/`) | none | route, render | none that relates states |
| channels, connectors (`channels/`, `connectors/`) | none | HTTP, mail | none that relates states |
| vault, research assets, slides (`vault.py`, `research_assets.py`, `pptx/`) | files | read, write | one process, one file |

### 1.2 How they interact

* A daemon calls the queue, then the event log, then its adapter, then (gated
  lanes) the proposal store, then the queue again, then the event log again.
  The four stores have no common transaction.
* A person decides on proposals at the command line, through MCP or by a
  reviewed Argilla file; all three end in `ProposalStore._decide`, which
  fetches a row, changes it in memory and writes all of it back.
* An approved `wiki_update` is applied by a separate call that loads the
  proposal, checks it, and then writes page, index, log and claims one after
  the other, and at last the full-text row; a `knowledge` proposal is digested
  by yet another call.
* Lint reads the ledger and the pages and stores findings as proposals;
  resolving one rewrites the ledger and then approves the finding.
* A retrieval persists its evidence; `wiki-ingest` turns the evidence of a run
  into raw files, evidence copies and a proposed page; the dream reads what was
  retrieved since it last woke.
* The daily tick enqueues tasks under keys of the day; their packets are
  operations, which the `python` lane runs through the same runner as the
  command line.
* Registering, disabling, stubbing and compiling a skill write its card and the
  registry; compiling ends with a sync of all cards into the registry.

### 1.3 What is hard

Interleavings between a read and the write that relies on it (`_decide`,
`advance_cursor`, `consume_signals`, every rewrite of the ledger, of a month of
the calendar, of the skill registry, `append` of the event log); leases that
lapse while their holder is alive; restarted processes under the id of a
zombie; deaths between two stores; temporary files whose name all processes
share (`claims.jsonl.tmp`, `current.json.tmp`); power loss in the middle of a
line; threads that finish while their caller gives them up; a watermark that
moves while somebody writes below it; state machines whose entry points do not
look at the state they leave.  The list with a line for each is under `hazards`
in PROJECT.json, with the properties that cover it or the reason why none does.

## 2. The models

### 2.1 Modules and what they stand for

| module | models | composes |
|---|---|---|
| `JobLedger` | what the queue promises to a submitter: an abstract specification without workers, clocks or rows | |
| `TaskQueue` | the table `tasks` and the processes that hold leases on it | |
| `TaskQueueRefinement` | the mapping of `TaskQueue` to `JobLedger` | `TaskQueue`, `JobLedger` |
| `WorkerPool` | the daemon loop over queue, proposal store and event log, and a person who decides | `TaskQueue` |
| `ReviewGate` | what the proposal gate promises to a reviewer: an abstract specification without sessions | |
| `ProposalGate` | proposal table, cards, feedback, preferences, and the two consumers of an approval; its mapping to `ReviewGate` | `ReviewGate` |
| `ClaimRows` | what a row of the claim ledger holds and how a supersession changes it | |
| `ClaimLedger` | the ledger as a file: its temporary file, wiki index and log, interleavings and kills | `ClaimRows` |
| `WikiSteward` | the ledger as a history: lint, decisions, supersession | `ClaimRows` |
| `WikiHistory` | the readers of that history: `show_claim` and the cycle check of `wiki-doctor` | `WikiSteward` |
| `WikiPages` | pages, `index.md`, domain schemas and the full-text table under several editors | |
| `Projections` | snapshots, pointer, registry and cursors under several builders | |
| `WikiDream` | evidence of retrieval, its ingestion, and dreams over a moving window | |
| `WikiLint` | the page rules of lint, with what the 19 schemas of `domain_schemas.py` say of them | |
| `WikiGraph` | nodes, edges, neighbours and communities as functions of the claims | |
| `EventLog` | one hash-chained event file | |
| `WorkflowStore` | one workflow run: row, steps, signals | |
| `Calendar` | the month files of one user | |
| `PeopleStores` | users, memory tiers, tasks, projects, watch lines | |
| `TimeBlocks` | the day planner | |
| `OrderIntents` | order intents and the risk check | |
| `Skills` | cards, registry, and everything that writes either | |
| `EvalPacks` | packs, seed scripts, and the tables of runs and verdicts | |
| `Memory` | digests, core and recall rows, an agent's files, captures | |
| `OperationGate` | a request on its way through policy, registry and handler, and the audit file it leaves | |
| `Handlers` | what the handler of each operation does, as a sequence of steps | |
| `Frontends` | every command of the command line and every MCP tool: operation, level, options | |
| `Operations` | one request of one caller carried out, killed and run again | `Handlers`, `Frontends` |
| `Retrieval` | the cascade, its threads and its cache; the order of an answer | |
| `TaskQueueProofs`, `WorkerPoolProofs`, `ProposalGateProofs`, `ClaimLedgerProofs`, `EventLogProofs` | theorems | the module they are named after |
| `OperationGateProofs` | theorems about the operation gate, the handlers of all operations, and the cascade | `OperationGate`, `Operations`, `Retrieval` |
| `KnowledgeProofs` | theorems about steward, pages, projections, dream and lint | `WikiSteward`, `WikiPages`, `Projections`, `WikiDream`, `WikiLint` |
| `StoreProofs` | theorems about the small stores and the order check | `MC_Stores`, for its questions; `WorkflowStore`, `Calendar`, `PeopleStores`, `Skills`, `EvalPacks`, `Memory`, `OrderIntents` |
| `MC_*` | instances for the model checker | see section 3 |

**TaskQueue.**  `row[k]` is the row of task `k`, `lease[p]` what process `p`
remembers of its claim (task and epoch), `IdOf[p]` the `--worker-id` it runs
under, which several processes may share.  Each write transaction of
`queue.py` is one action (they are `BEGIN IMMEDIATE` or a single statement).
Wall-clock time is abstracted to the three comparisons the code makes:
`waiting` holds rows whose `available_at` is ahead, `lapsed` claims older than
the visibility timeout, `earlier` the order of `available_at` which
`ORDER BY` uses.  `Mature` and `Lapse` are the passage of time.  `LegacyNext`
adds the calls with one fencing argument or none (`HolderComplete`,
`OperatorComplete`, `OperatorFail`).  `output` is abstracted to the lease
epoch that the daemon puts into `output_json`.

**WorkerPool.**  `at[p]` is the position in `_handle_worker`; every call on a
store is one step, so a process can stall (its lease lapses) or die before and
after each.  A staged proposal is named by the lease that made it, since the
id is a fresh uuid.  `Approve` and `Reject` are the person.  Events that say
nothing about an outcome (claimed, adapter start and done) are left out.

**ProposalGate.**  `job[s]` is the half-finished operation of session `s`: what
it has loaded and what it is about to write.  `Store`/`RenderCard`,
`Fetch`/`Decide`/`Prefer`, `LoadForDigest`/`Digest` and `LoadForApply`/`Apply`
are the two or three store accesses of an operation.  `Says[id]` is what may
be proposed under an id.  Ids are made in three ways in the code, and that
decides it: a fresh uuid (`wiki_update`) or a hash of the content
(`knowledge`) stands for one content, a hash of a stable name (`versioned`:
eval-pack upgrades, duplicate and conflict findings) for several (`Settled` are
the ids of the first two sorts).  A verdict reaches the table by id alone: typed by
somebody who looked at the proposal some time ago, or in a feedback file that was
answered long before it is synced.  What the reviewer had seen is no state of the
program; `feedback`, `job` and `given` carry it along as history, so that it can
be compared with the content the verdict falls on.  `proposed`, what was stored
under which id, is history too.  `ReviewGate` has no sessions and nothing half
done: a proposal, a verdict together with the content it falls on and the one that
was seen, an announcement, a preference, a memory and a page are one step each,
and the last four need what they are made of.

**ClaimRows and ClaimLedger.**  A row keeps its review state, whether the
validity window is closed, both ends of a supersession, and its page.  A proposal
brings several claims for one page, and a claim has a sequence of rows, since two
appends that overlap write it twice.  An operation is a
short sequence of file accesses, `todo[p]`.  A rewrite reads the ledger (`Read`,
into `copy[p]`), opens `claims.jsonl.tmp` (`OpenTmp`, which truncates it, also under
another process), writes the edited copy, out of date or not (`WriteTmp`), and
renames (`Replace`).  `handle[p]` follows an open file through renames; when two
copies are written over each other the content is not followed further
(`garbled`).  `finding[pair]` is what became of the contradiction finding about a
pair: lint raises it (`Raise`), the generic calls approve or reject it without
touching the ledger (`Rule`), `resolve_conflict` approves it with a resolution
(`ApproveFinding`).  `Kill` stops an operation between two accesses; `torn` records
a kill inside the in-place rewrite of `index.md`, and `alone` that no two
operations have overlapped so far.

**WikiSteward and WikiHistory.**  Here an operation is one step, and the
question is where any sequence of them leads.  Lint compares the claims of one
statement key and never two groups, so one group is modelled; `stance[pair]` is
what the payloads of two claims say about each other, `Born[c]` the rank of
`t_valid_from` to the second.  `Contradictions` is the rule, `raised` the
stored findings, and `Resolve` takes any raised pair: `resolve_conflict` looks
neither at the state of the finding nor at what lint would say now.  `late` and
`byHand` remember that a reviewer decided on a stale finding or chose the order
himself.  The walks (`SupersedesChain`, `SupersededChain`, `ReportedCycles`)
are recursive and stay in `WikiHistory`, so that `WikiSteward` can be proved
about.

**WikiPages.**  A page is the number of the change that wrote it.  An apply
writes the page, then `index.md`, then (in another transaction, after reading
the file again) its row in the full-text table; `schema` is the file that
`wiki-init` writes beside them; `EditByHand` is a person with an editor.
`exact` remembers that no two calls overlapped, none broke off and no hand
wrote since the last rebuild of the index.

**Projections.**  `work[b]` is the rebuild or rollback of process `b`, one step
per access: snapshot file, temporary pointer, rename, registry transaction.
`Queried` is what a reader of the graph gets, which never asks the registry.

**WikiDream.**  Time is in halves of a second since a manifest is stamped with
the second and a dream with the microsecond.  `run[r]` is a retrieval on its
way from first evidence line to manifest, `dream[d]` a dream that has read its
window and not yet moved `watermark`.  `excused` are the runs that no dream over
all rules may read any more, for a reason the model names: their manifest
appeared with a stamp the window had passed, they were older than the
window of a dream that came late, or a dream narrowed to some rules read them.

**WikiLint, WikiGraph, TimeBlocks, OrderIntents** and the second half of
**Retrieval** keep no state: they are operators on sequences of pages, claims,
tasks, or one order, translated rule by rule, with the domain table of
`domain_schemas.py` as a function.

**EventLog.**  `file` is what the kernel has, `durable` the prefix an `fsync`
has covered.  `append` is `ReadTail`, `WriteLine`, `Sync`.  `PowerLoss` keeps any
prefix at least `durable` long, may tear the next event (`Torn`), or may take the
newline of the last one alone (`unended`): such a line still parses, and the next
event lands on it (`joins`).  `Quarantine` is the truncation that
`EventLogCorruption` asks for.  `Kill` is a dying process.  `joined` remembers the
events that ever shared a line.  Hashes are abstracted to event numbers, which is
exact because an event is hashed once, with the hash it was chained to.

**WorkflowStore.**  Python's `sqlite3` opens a transaction at the first
UPDATE, not at a SELECT, so `advance_cursor` and `consume_signals` are a read
and a later write; everything else is one statement.

**Calendar, Skills, EvalPacks, Memory, PeopleStores.**  A command is a
sequence of file accesses or statements, in a process of its own that takes no
lock.  A file that is rewritten in place is empty or cut off when its writer
dies.  `raced`, `spoiled` remember that two commands had one file open at a
time or that a writer died in it: the properties speak of everything else, so
they say how far the code is right, and their comments what it does not survive.
A digest is the exception: one transaction, whose `writer` holds the lock of the
database from the first statement to the commit or the rollback.  Its mentions
are upserted one after the other into the table that the commit would leave.

**OperationGate.**  `request` is an `OperationSpec` reduced to what the policy
and the runner look at; every combination a caller can make is an initial
state.  A request of the command line or of MCP runs once; the packet of a task
is run by every attempt, and every run has an operation id of its own, a number
here.  `at[r]` is the place of a runner in `OperationRunner.run`: each append to
the audit file is one step, so a runner can stall or die before and after it,
and in its handler, whose changes are `effect` (none, some, all).  `trail[o]`
is what the audit file holds for one operation.  `Report` is what the daemon
and the builtin adapter make of the answer; the queue is reduced to the rule
that only the latest attempt reports, which `TaskQueue` establishes.

**Handlers, Frontends, Operations.**  `Registry[op]` is, for each of the
registered operations, the sequence of the steps of its handler: `Need` (a field
or a thing in the world without which it raises), `Put` and `Add` (a write to a
store that leaves the same row when it is repeated, or one row more), conditions
and early returns.  Sequences are put together by `When`, `Unless` and `\o`, as
the code nests its `if`s and calls; `HandlerTables` are the tables of one file
each, and the registry is their union.  `Frontends` is a set of entries - one for
each command and each tool - with the options it lets its caller set and the level
at which it asks.  `Operations` lets somebody type a command, a client call a tool
or the daily tick schedule a packet (`Typed`, `Offered`, `Planned`), chooses the
options and the facts it meets, carries the steps out, dies anywhere, and runs the
same request again.

**Retrieval.**  `seek[p]` is the cascade of process `p`: a call per place in
its plan, `completed` and `errors`, and `told`, what it will answer.  Threads
end at any time; a timeout goes over the calls twice, one look at a time.
`cache[s]` is the shared row of source `s`; an answer is named by the time the
source gave it.  Time passes at any place, and `Stamps(p)` is what `time.time()`
can have told a process that then waited for the database of the cache.

### 2.2 Assumptions of the models

* A SQLite write transaction becomes visible at its commit, and a writer waits for the lock
  (WAL, busy timeout of 30 s in `_storage.py`) instead of failing.
* One `write` of a line to a file opened for appending is whole or absent for
  a killed process.  Power loss is modelled where the code calls `fsync`, that
  is in the event log only.
* An adapter ends: `--task-timeout-sec` (300 s) bounds its run.

## 3. The runs

A run that passes explores its whole bounded state space.  Deadlock is not
checked: the instances stop when their bounds are used up, and the programs
themselves stop when there is nothing left to do.

Small modules that share no state share a run.  The variable `focus` says in the
initial state which of them a behaviour is about; the others keep still, so
each is explored as if it were alone.  Rules without state (lint, graph,
planner, order check, order of an answer) are asked one `question` in one step.

### 3.1 Runs that pass

| run | question | instance |
|---|---|---|
| `queue_safety` | do fenced workers ever corrupt a task, and does the queue implement the ledger? | 2 tasks, 3 processes, two of them under one id, 2 attempts, lapses to epoch 3 |
| `pool_safety` | do queue, proposals and log agree wherever a daemon stalls or dies? do daemons use the queue only through the fence? | 1 task, 3 processes, gated, lapses to epoch 2 |
| `pool_liveness` | does the loop as written bring every task to an end? | 2 tasks, 2 processes, ungated, lapses to epoch 1 |
| `wiki_review` | on which content does a verdict fall, and does a reviewer see a gate without sessions, of which nothing comes out before it was ruled on? what do the operations on the ledger leave behind when they die or interleave? | gate: one id of each kind, 2 contents, 2 sessions, 2 verdicts, 1 answer; ledger: 3 claims on 2 pages, 1 process with 4 operations, or 2 processes with 3 |
| `stores` | what do the small stores keep when their commands overlap, die and are repeated; do plans and orders fit? | see below |
| `knowledge` | does the loop of lint and review keep what it decided; do index, registry and dream miss nothing; does a lint of one domain find what a lint of all finds there? | see below |
| `operations` | does the audit file account for every change; does an operation write before it refuses, or more than it should when repeated; does an answer account for every source? | see below |

`stores`: three writers and four events; two kernels, two signals, two calls;
two calendar clients, three commands, two months, three uids; two processes and
two users; two skills, two clients, three commands; two packs, two seed
scripts, two starts; three digests, each mention a step, that may die; two agents and three file edits; 25 728 days
to plan; orders on both sides of every threshold.

`knowledge`: three claims of one statement, two of them of one age, under all 27
combinations of stances; two pages, two editors, three changes; two builders,
three snapshots; one source, two overlapping dreamers with every option, one
retrieval and three half-seconds, a window of two; 73 728 wikis to lint and 32 768 sets of
claims to draw.

`operations`: 64 requests, two runners, two attempts, three operation ids; every
command, tool and scheduled packet with every choice of options and facts, run
twice, with two domains; two cascades, of which one asks for a source twice, for
two sources, or for an unregistered one, an hourly and a daily source, patience
1, time to 2; two or three lists of at most two records of five kinds.

### 3.2 Runs that find a violation

Each checks one sentence of a docstring of the repository that the code does
not keep.

| run | what happens |
|---|---|
| `event_tear` | a power loss takes only the newline of the last event; the next append lands on that line, is synced and returns, and neither of the two can be read back |
| `ledger_version` | `expected_version` is compared before the copy is made, and counts lines, so a supersession that lands after the caller's read is undone |
| `workflow_signal` | two kernels read one unconsumed signal before either marks it, and both return it |
| `skill_status` | the registry is said to own the status of a skill, but a sync takes the status of the card: a disabled skill is active again |
| `dream_evidence` | the orphan rule of the dream looks for a raw path where none is ever written, and reports every file that an ingest has just made |

### 3.3 Behaviour of the code worth knowing

The models contain the following behaviours.  The repository promises nothing
to the contrary, or promises it only where noted; the properties are stated so
that they hold in their presence.

Tasks, proposals, operations:

* A task whose workers die silently is claimed again without limit; only a
  reported failure compares `attempts` with `max_attempts`.
* `task-fail` without a fence makes a done task pending again (`LegacyNext`).
* A daemon that dies after staging leaves its proposal pending for good, and a
  worker that lost its lease rejects its own proposal even if a person has
  approved it in between.
* Storing a note again under its id makes a rejected row pending; proposing an
  upgrade of an eval pack again makes an approved one pending.  The comment at
  `mcp_server.py:215` calls rejected proposals terminal.
* Digestion takes notes in any state.
* A verdict written from a stale read puts the old content back.
* A line of feedback is applied by id (`harness/argilla_bridge.py:210-224`): under a
  versioned id that was proposed again after the export, the verdict falls on content
  that nobody has looked at, and the preference record pairs it with the present text.
* Approving or rejecting a contradiction finding with the generic calls
  (`builtins.py:188-200`, `proposals.py:294-310`) leaves the ledger as it is: the
  finding counts as approved and the contradiction stands.
* A queued operation that has to wait for approval counts as an error of its
  task: every attempt waits again, and the task ends dead without anybody having
  been asked.  The same packet with `approved` set would have run.
* A handler that dies leaves `operation_started` without an outcome, and its
  task is run again as another operation; the audit file does not relate the
  two.
* `src/docs/permission-model.md:9` calls level 0 read-only; six stores are
  written by requests at that level (`KeptByReaders` lists them).
* `app_report_build` with a narrative raises an `AttributeError` after its task
  is in the queue (`builtins.py:2684`; a task has an `id`), and a torn
  line in a feedback file stops its sync half way
  (`harness/argilla_bridge.py:212`).
* The command registry says of `wiki_ingest` that it supports a preview
  (`command_registry.py:305`), but its handler does not look at `dry_run`.
* The MCP server ends its session at a line that is JSON but not an object,
  and answers a notification whose name lacks the usual prefix.

Knowledge plane:

* A claim appended during another process's rewrite disappears; two
  applications that overlap can write one claim twice.  A supersession then
  changes the last row of it only, and `show_claim` follows the last row only.
* A page has one line in the index, whatever the number of its claims: superseding
  one of them, or rejecting it, removes the line though the others stay approved
  and open (`knowledge_plane.py:1172-1175`).
* Superseding back and forth closes all claims of a cycle; wiki-doctor reports
  it (part of `HistoryIsTold`).
* A reviewer who works through a list of findings without a new lint can
  reject every claim of a statement.
* The third signal of the contradiction rule needs a confidence gap of 0.2;
  the claims the code itself generates have 0.5 or 0.68.  The docstring of the
  rule also names a pair of an approved and a rejected claim, but rejected
  claims are no longer compared (`Compared`), which is what ends the loop.
* An abandoned page is said to have no open claim against it
  (`wiki_lint.py:520`); the rule never looks at claims.  A `stale_after_days` of
  30 cannot be told from the default, so the schema of the domain overrides it.
* Two updates of one page's full-text row that overlap can leave the older
  text.  A search fetches four times as many rows as it shows; with more closed
  pages than that in front, it loses open ones.
* `vault/raw/` is called append-only (`knowledge_plane.py:1748`); ingesting a
  run again writes its raw files again, and `mcp_server.py:299` calls that
  replay-safe.  Two runs of one title share a page.
* Two rebuilds of the graph share `current.json.tmp`; a rollback enters the old
  snapshot and leaves `current.json` as it is (`projection.py:13`).  A rebuild
  never moves a cursor: its docstring has it moved at best effort
  (`projection.py:259`).
* A manifest of retrieval is stamped with the second and the watermark of the
  dream with the microsecond, so a run that lands in the second of a dream can
  be passed over.  A dream narrowed to some rules, or without `--persist`, moves
  the watermark like any other.  The module speaks of three runs in the last 14
  days; a window is 7 days long and counts records.

Small stores:

* Two writers of one event log fork its chain; overlapping advances of a
  cursor lose one.
* A line of the event log with two events stops every reader and every append; the
  repair that the error asks for truncates both (`event_tear`).
* The docstring of `risk_check` says that a market order without `estimated_price`
  is blocked (`finance_ops/order.py:143-145`); line 148 sizes it at its limit or
  stop price, which `cli/finance.py:55-65` lets anybody give with any type.
* Two additions to one month of a calendar that overlap lose one, as do two
  writers of the skill registry.
* `src/docs/skill-registry.md` says that registering a skill twice is refused;
  it replaces the first.  A SKILL.md with an unknown kind or status stops every
  sync.  Compiling writes the prompts of version 1 over the ones before.
* `src/scripts/seed_eval_packs_v041.py:276` calls a rerun idempotent: a pack
  whose manifest is there is skipped, also when its cases are not.  Superseding
  a pack drops the path of its notes from the manifest.  Nothing in the repository makes a pack out of an
  approved upgrade.
* The memory tool takes `/memoriesx` for a path below `/memories`: it is the
  file `x`.

Retrieval:

* A source that ends between the two looks of a timeout is neither in the
  answer nor among the errors, though the comment at `retrieval/cascade.py:266`
  says that the rest get a timeout error.
* A row of the cache expires a time to live after `put` was called
  (`retrieval/cache.py:127-128`), not after the source answered: a cascade that
  stalls before it collects makes its records younger than they are, so an answer
  from the cache has no bound on its age.
* The key of the cache does not contain the limit per source.  Empty lists are
  cached and count as hits; what a late thread brings is lost; expired rows are
  written over by a later answer and otherwise kept (`vacuum_expired` has no
  caller).
* A source that is named twice counts twice in the fusion, and so does a record
  that one source lists twice.  Of a record that is dropped as a duplicate the
  id is remembered, and its later twins go with it.
* A judge that fails returns no dimensions, which the ensemble counts as 0.

### 3.4 Bounds, and why they are enough

* Processes: two are needed for every race here, a third makes a lease go
  through three hands (holder, zombie under the same id, stranger).
* `MaxLapses` bounds the epochs that may lapse or be lost in a crash.  Lapses
  to epoch 3 with two attempts reach a dead task, a task handed out beyond its
  budget and a zombie two generations behind.
* Operations on the ledger: one process starts four (`MaxOps = 4`), two appends to
  have two claims on one page and another claim, and two operations on them, which make a
  chain, a cycle, or a resolution after a supersession; each may die and be
  started again within that number.  Two processes start three
  (`MaxOverlapping = 3`): an append, and two operations that overlap, or
  two appends of one claim and a supersession of its second row.  The proofs
  cover any number of both.
* The steward has no bound but the number of claims: three are the fewest with
  a chain, a fork, and a cycle through a third claim, and with decisions on one
  pair that make the finding of another stale.
* `MaxVerdicts = 2`: one verdict to be overtaken and one that overtakes.  Two
  contents under one id tell a verdict on the old content from one on the new.
  `MaxAnswers = 1`: a line of a feedback file, which both sessions may sync, and
  again.
* Operation ids in `operations` (`MaxOps = 3`) with two attempts: an attempt
  that lapses and is overtaken, and two that report.  `Sandboxed` is FALSE
  there, as in every runner the code builds; the proofs cover both values.
* Every request runs twice (`MaxRuns` in `operations`): the second finds what
  the first, or its first half, has left.
* `MaxEvents = 4` with three writers lets all append to one tail and a fourth
  event follow the fork.
* `MaxSignals = MaxCalls = 2`: two calls overlap, and a signal arrives between
  the read and the mark of another.
* Three commands or changes (calendar, skills, pages, files): two that overlap
  and one that meets what they left; or one that dies, one that repeats it, and
  one that reads.
* Three snapshots: one current, one to roll back to, one being built.
* Dream: two dreamers overlap, `EndOfTime = 3` has two whole seconds with a half
  in each, and a window of two is shorter than the time there is, so a run can
  be in one window, in two, or older than both.
* Retrieval: `MaxTime = 2` with patience 1 and times to live of 1 and 2 lets a
  cascade time out, stall afterwards, and meet a row that has expired or outlives one
  that is younger.
* Questions: two pages or tasks relate in every way that one rule looks at;
  numbers are taken at, below and above each threshold.

### 3.5 Fairness

`FairPoolSpec` assumes weak fairness of: the passage of time (`Mature`,
`Lapse`; a claim older than 600 s is old for good); a claim by each idle
process (the loop polls every `--poll-interval-sec` and `claim` takes the
oldest eligible row); each step of a loop body (the adapter ends within 300 s,
store calls return).  Nothing is assumed about crashes.  Crashes and lapses
are bounded by `MaxLapses`: a task whose workers die for ever is handed out
for ever.  No other part of the program runs by itself: commands and timers
start it, and nothing obliges them to, so no other liveness is stated.

## 4. The proofs

Checked by TLAPS for every value of the constants.  The hypotheses are the named
assumptions of the modules, which TLC evaluates in the runs: bounds are numbers,
an id that is not versioned stands for one content, pages are finite in number, a pasted calendar
is a sequence of entries, packs and the cases of a seed are sequences, and what a
digest says is a sequence with numbers for confidences.  The one
further hypothesis, where a theorem has it in its statement, is that there is
one writer (`EventChainVerifies`); two can fork the chain.  Where a property holds
only as long as operations do not overlap, a history variable of the model says so in
the property itself.

**TaskQueueProofs** (any tasks, processes, sharing of ids, budget and bound).
A lease is a task and an epoch, and `claim` is the only call that makes one,
with an epoch the task has not had.  The inductive invariant is `QueueInv`:
`TypeOK`, no lease is ahead of its row (`LeaseBehindRow`), no two processes
hold equal leases (`LeasesDiffer`), and the counters and output of a row agree
with its state (`RowConsistent`).  `SingleHolder` is not inductive by itself:
that two processes do not both pass the fence now says nothing about the next
claim.  From `QueueInv` follow `SingleHolder`, `OutputOfLastLease`,
`DeadOnlyWhenExhausted`, `OutcomeIsFinal`, `StaleLeaseWritesNothing` and the
refinement `QueueImplementsLedger`, step by step.  The first three parts
(`FenceInv`) are kept by the unfenced calls too, which gives
`LegacySingleHolder`.

**WorkerPoolProofs** (any tasks and daemons, gated or not).  Every step of the
pool is a step of the queue or leaves it alone (`PoolStepIsQueueStep`), so
`QueueBehaviour` holds and `QueueInv` comes with it.  A run of the loop body is
named by its lease; `LoopInv` says that runs under way have different names,
that none has the name of a finished one, and what each position in the loop
implies for the stores.  It contains `DoneHasProposal`, `LogMatchesQueue` and
the cover of staged proposals from which `OrphansOnlyFromCrashes` follows;
`ProposalsMatchQueue`, which the run checks, is the first and the last together.

**ProposalGateProofs** (any ids, contents, sessions).  A session writes only
what it has loaded.  `GateInv` adds that whatever rows, cards, sessions and feedback
lines hold, and what a reviewer has seen, was proposed (`Traced`); that a settled id
was proposed with one content only (`OneContent`); and that what a session is about
to write has been decided (`JobIsDecided`).  The first two together are why a verdict
that comes by id, however late, falls on what was seen unless the id is versioned
(`VerdictIsOnWhatWasSeen`).  Without the third `AppliedWasApproved` is not inductive:
between load and write the row may have changed.  `NothingRunsAhead` is
`AppliedWasApproved`, `PreferenceHasVerdict` and `CardFollowsRow` together.
`GateImplementsReview` is the refinement, step by step: `Decide` is the verdict,
loads and deaths are stutters.  An overtaken session may write an older content
back; by `Traced` it still rules on something that somebody asked for.

**ClaimLedgerProofs** (any claims, pages, proposals and processes).  `LedgerInv`
says that every file and every copy is a whole, linked ledger (`FilesLinked`),
that programs are made of steps on known claims (`ProgramsGood`), and that a
process about to edit holds a copy with the claims it names (`CopyAtHand`).  A
rewrite from a stale copy loses links, but both ends of each; a second row of an
id adds none.  So `ChainIsLinked` holds for any interleaving.

For histories without overlap, killed between any two accesses, `AloneInv` says
that one process at most is in the middle of a program, and what the next access
of that program finds (`AtHand`): the accesses stand in the order of the code
(`InOrder`), so it follows from the access before - a copy is the ledger with one
edit, an entry of the log is about a supersession that was just put in place.
Along a program the ledger only gets `Later`: no row goes, a closed claim stays
closed.  `BooksStayRight` turns that into `BooksMatchLedger`, and with
`ResolvedHasEffect` and `ClaimsAreNeverDeleted` it is proved of every start,
access and death, and of every finding that is raised or ruled on in between.
None of the three holds once two operations overlap.

**EventLogProofs** (any writers, any number of events).  `EventInv` adds to
the properties that what a writer holds between two accesses is in the file or
came to share a line, that a torn event is the last of the file and nobody is in an
append while it is there, that events on a shared line are noted in `joined`, and
that the other accepted events lie in the durable prefix.  A power loss and a
quarantine are one case: the file is cut behind its durable prefix, or before a line
that nobody can parse (`CutKeepsInv`).  It yields `AcceptedIsKept` and
`ParentComesFirst`; `EventChainVerifies` is proved under the hypothesis that
there is one writer.

**OperationGateProofs** (any runners, attempts, operations, sandbox or not).
An operation id belongs to one run of `OperationRunner.run` (`OneRunner`), and
the place of that run says exactly which events the audit file holds for it and
whether the handler may have changed anything (`PlaceTellsTrail`).  Without it
`TrailTellsEffects` is not inductive: a runner that finishes could append a
second outcome.  `OwnStep` carries the argument once for all steps of a runner.

Of the operations it proves what they do to the world, for every handler of the
registry, every command, tool and packet, and any number of repetitions and
deaths. Four predicates say of a sequence of steps that it writes only certain
stores unless it is given certain options (`Keeps`), that no check comes behind
a write (`Early`), that a preview writes nothing (`Spares`), and that a packet
is not refused and adds nothing but findings and runs (`Repeatable`); each is
preserved by `When`, `Unless` and `\o`, so it follows group by group from the
way the handlers are composed (`EveryHandlerIsSound`, and from there
`EveryEntryIsSound` and `TheScheduleIsSound`). `HandlingInv` ties an execution
to those sequences: each store that it changed was written by a step of the
handler that was due, and the step that turned it away comes, in a first run,
behind a write to each of them. From it follow `ReadersOnlyRead`,
`RefusalsComeFirst` and `PacketsMayRunTwice`, the three properties of the run.

Of the cascade the module proves `AnswerAddsUp`, for any sources, plans and
processes at one cache.  `SeekOK` says what the two scans of a timeout have sorted
so far while the threads go on: a call that is not completed and not an error
either ended between the looks or has still to be looked at (`Progress`), and
what will be answered was brought by a completed call (`ToldIsBrought`).  Neither
depends on the time: a process may stall anywhere.

**KnowledgeProofs** (any claims, pages, builders, dreamers).
`ResolvedStaysResolved` needs only that a claim in state superseded is closed and
that of a decided pair one is closed or rejected (`OneIsSettled`).
`StatementSurvives` is inductive only beside them: a finding that lint would raise
now is about two open, approved claims, because a claim that is still compared
cannot be in state superseded, and every resolution leaves one of its two claims
open (`ResolutionFacts`).  `HistoryRunsForward` follows in the same induction.
`IndexExactWhenAlone` rests on `PagesInv`: a call that
nobody disturbed knows all rows but the one it is about to write, and a reindex
those of the pages behind it; that a search which fetches as many rows as there
are pages misses none is a fact about finite sets.  `ProjInv` says that no entry of the registry is about a file under
construction and that a rebuild that is alone finds the temporary pointer as it
left it.  `DreamInv` says that whatever has landed before the watermark, before
the window of a dream that has read, or before its start, is known; from this
the windows join without a gap.  `DomainLintLosesNothingAlways` is a theorem
about the operators of lint: a rule looks at one page, or at two that link to each
other, and at nothing that the option leaves out.

**StoreProofs** (any processes, rows, skills, packs, digests, prices).  All but the
memory take no lock across their steps, so their invariants have the same shape: what a process has read and not
yet written back is part of it, with what is true of it as long as nobody else
had the store open (`overlapped`, `raced`, `spoiled`).  `WorkflowInv` says that without overlap one
call is under way at most, and that it has read the cursor and the signals as
they are.  In `CalInv`, two commands hold a month open only if it is `raced`, and
what was kept of any other month is in its file.  `PeopleInv` says that
handles of rows differ and that the default user is there once a process has
opened the store; `SkillsInv` that a command about to write has every skill of
the registry in its hands, and a sync every card it saw; `PacksInv` that no
count in a script's hands, a manifest or the index exceeds the cases in the file.  `MemoryInv` says of the table that an open
digest would leave what `KnownByTheBest` says of the committed one: it knows the
best of what was said up to its last mention.  One upsert preserves that because a
mention is never older than those before it (`UpsertKeepsTheBest`).
`RiskCheckFits` is about all orders and prices;
`OrdersThatPassFitAlways` is its instance in the run.

The type invariants (`QueueTypeOK`, `PoolTypes`, `GateTypes`, `LedgerTypes`,
`EventTypes`, `OpTypes`) are theorems only; no run spends its time on them.

Only model-checked:

* `EveryTaskSettles`, which is liveness and needs ENABLED.
* `PlansKeepAppointments`, `AgreementRanksFirst`: what a fold over a sequence of
  any length yields, which takes an induction over data.
* `HistoryIsTold`, `GraphFallsIntoComponents`: about recursive walks, which the
  prover cannot see; so is `LintOfADomainLosesNothing` as the run states it, since
  `MC_Knowledge` reaches those walks.  `HistoryRunsForwardAlways` and
  `DomainLintLosesNothingAlways` are the provable halves.

## 5. What is not modelled

* Text: page rendering, parsing, prompts, formatting, scores made of words, real
  arithmetic.  So the harness, its judges and its bias audit, cross-skill
  transfer, the application plane, reports and the inbox have no module; that
  their operations write, and when, is in `Handlers`.
* Network: connectors, channels, adapters beyond "artifact or error, in time",
  retrieval sources beyond "records, an exception, or late".
* Reads without a state of their own: listings, statistics, recommendations.
* Single files in the hands of one process: vault notes, research assets,
  slides, secrets.
* Inside the modelled parts: exit of a daemon after an idle time or a number of
  iterations; a corrupt event log, which stops every daemon that claims its
  task; failing SQLite calls; a full disk; configured thresholds and explicit approval flags, which no caller of
  the repository sets; the framing of JSON-RPC and the parsing of arguments.
* Known and without a property, beside the hazards with a note in PROJECT.json:
  `complete` and `fail` without a fence on a task that is settled; `resume`,
  `suspend` and `complete` of a workflow in any state; a line of the ledger that
  does not parse and is dropped by the next rewrite.  In each the code
  does what it was written to do, and promises nothing that would be broken.

## 6. Plan

Proofs: every invariant and action property of the runs is a theorem but those
named at the end of section 4.  Two of those, the planner and the order of an answer,
would come within reach if their loops were modelled step by step, as the digest is in
`Memory`; at present they are functions, asked once.

Models: a log line that does not parse and stops the daemons (`EventLog` composed
with `WorkerPool`).
