----------------------------- MODULE PeopleStores -----------------------------
(***************************************************************************)
(* The stores about people: users (src/omni_hub/users/profile.py), their   *)
(* recall and archival memory (users/memory_tiers.py), personal tasks      *)
(* (scheduling/tasks.py), projects and subtasks (projects/store.py) and    *)
(* price alerts (finance_ops/analyst.py).  Every command opens the store   *)
(* anew; a statement of SQLite is atomic, a command is not.                *)
(***************************************************************************)
EXTENDS Naturals, Sequences, SequencesExt, FiniteSetsExt

CONSTANTS Handles, DefaultHandle,     \* DEFAULT_USER_HANDLE
          Processes, MaxRows          \* bound: rows of a table

VARIABLES users,     \* rows [id, handle, status, persona]
          opened,    \* opened[p]: what process p does with the users store
          tasks,     \* personal_tasks: rows [status, completed]
          projects,  \* rows [status, plan]
          subtasks,  \* rows [project, status, worker]
          recallRows,    \* recallRows[m]: lines of month m of one user's recall memory
          month,     \* the month it is
          alerts     \* lines of alerts.jsonl

peopleVars == <<users, opened, tasks, projects, subtasks, recallRows, month, alerts>>

TaskStatus == {"open", "in_progress", "done", "cancelled"}
ProjectStatus == {"pending", "planning", "in_progress", "done", "cancelled"}
StatementMonths == 1 .. 2

PeopleInit == /\ users = <<>> /\ opened = [p \in Processes |-> [at |-> "closed"]]
              /\ tasks = <<>> /\ projects = <<>> /\ subtasks = <<>>
              /\ recallRows = [m \in StatementMonths |-> <<>>] /\ month = 1 /\ alerts = <<>>

GetByHandle(h) == {i \in DOMAIN users : users[i].handle = h}
RowRoom(table) == Len(table) < MaxRows
Within(p, place) == opened[p].at = place
GoTo(p, place) == opened' = [opened EXCEPT ![p] = place]

-----------------------------------------------------------------------------
(* Users.  Both inserts are preceded by a query of their own. *)

\* The schema has handle UNIQUE: a second row for a handle is refused.
\* Mutant: it is not.
InsertAnyway(p, row, next) == users' = Append(users, row) /\ GoTo(p, next)
Insert(p, row, next) ==
    \/ GetByHandle(row.handle) = {} /\ users' = Append(users, row) /\ GoTo(p, next)
    \/ GetByHandle(row.handle) # {} /\ UNCHANGED users /\ GoTo(p, [at |-> "closed"])    \* IntegrityError

User(h, status) == [handle |-> h, status |-> status, persona |-> "short"]
UsersUnchanged == UNCHANGED <<tasks, projects, subtasks, recallRows, month, alerts>>

\* UserProfileStore.__init__ up to the query of _ensure_default_user.
OpenUsers(p) ==
    /\ Within(p, "closed")
    /\ GoTo(p, [at |-> IF GetByHandle(DefaultHandle) = {} THEN "seed" ELSE "open"])
    /\ UNCHANGED users /\ UsersUnchanged

EnsureDefaultUser(p) ==
    Within(p, "seed") /\ Insert(p, User(DefaultHandle, "active"), [at |-> "open"]) /\ UsersUnchanged

Enroll(p) ==
    /\ Within(p, "open")
    /\ \E h \in Handles : GoTo(p, IF GetByHandle(h) = {} THEN [at |-> "enroll", handle |-> h] ELSE [at |-> "closed"])
    /\ UNCHANGED users /\ UsersUnchanged

InsertUser(p) ==
    /\ Within(p, "enroll") /\ RowRoom(users)
    /\ Insert(p, User(opened[p].handle, "pending"), [at |-> "closed"])
    /\ UsersUnchanged

\* approve and disable, of a user in any status.
UpdateUserStatus(p) ==
    /\ Within(p, "open")
    /\ \E i \in DOMAIN users, status \in {"active", "disabled"} : users' = [users EXCEPT ![i].status = status]
    /\ GoTo(p, [at |-> "closed"]) /\ UsersUnchanged

\* A block of more than 4096 characters is refused.
SetPersonaBlock(p) ==
    /\ Within(p, "open")
    /\ \E i \in DOMAIN users, block \in {"short", "long", "too long"} :
          users' = IF block = "too long" THEN users ELSE [users EXCEPT ![i].persona = block]
    /\ GoTo(p, [at |-> "closed"]) /\ UsersUnchanged

\* resolve without a name, which asserts that the default user exists.
ResolveDefault(p) == Within(p, "open") /\ GoTo(p, [at |-> "resolved", user |-> GetByHandle(DefaultHandle)])
                     /\ UNCHANGED users /\ UsersUnchanged
CloseUsers(p) == Within(p, "resolved") /\ GoTo(p, [at |-> "closed"]) /\ UNCHANGED users /\ UsersUnchanged

-----------------------------------------------------------------------------
(* Personal tasks and projects: one statement per operation. *)

AddTask == /\ RowRoom(tasks) /\ tasks' = Append(tasks, [status |-> "open", completed |-> FALSE])
           /\ UNCHANGED <<users, opened, projects, subtasks, recallRows, month, alerts>>

UpdateTaskStatus ==
    /\ \E i \in DOMAIN tasks, s \in TaskStatus : tasks' = [tasks EXCEPT ![i] = [status |-> s, completed |-> s = "done"]]
    /\ UNCHANGED <<users, opened, projects, subtasks, recallRows, month, alerts>>

ProjectsUnchanged == UNCHANGED <<users, opened, tasks, recallRows, month, alerts>>

CreateProject == /\ RowRoom(projects) /\ projects' = Append(projects, [status |-> "pending", plan |-> FALSE])
                 /\ UNCHANGED subtasks /\ ProjectsUnchanged

AdvanceState == /\ \E i \in DOMAIN projects, s \in ProjectStatus : projects' = [projects EXCEPT ![i].status = s]
                /\ UNCHANGED subtasks /\ ProjectsUnchanged

AttachPlan == /\ \E i \in DOMAIN projects : projects' = [projects EXCEPT ![i] = [status |-> "planning", plan |-> TRUE]]
              /\ UNCHANGED subtasks /\ ProjectsUnchanged

\* The foreign key is declared and not enforced: project 0 does not exist.
AddSubtask == /\ RowRoom(subtasks)
              /\ \E i \in {0} \cup DOMAIN projects :
                    subtasks' = Append(subtasks, [project |-> i, status |-> "open", worker |-> FALSE])
              /\ UNCHANGED projects /\ ProjectsUnchanged

LinkWorkerTask == /\ \E i \in DOMAIN subtasks : subtasks' = [subtasks EXCEPT ![i].worker = TRUE, ![i].status = "in_progress"]
                  /\ UNCHANGED projects /\ ProjectsUnchanged

-----------------------------------------------------------------------------
(* Recall memory and alerts: lines at the end of a file. *)

TornLine == 0
LinesOf == Len(recallRows[1]) + Len(recallRows[2])
AppendRecall(torn) ==
    /\ LinesOf < MaxRows
    /\ recallRows' = [recallRows EXCEPT ![month] = Append(@, IF torn THEN TornLine ELSE LinesOf + 1)]
    /\ UNCHANGED <<users, opened, tasks, projects, subtasks, month, alerts>>

NewMonth == /\ month = 1 /\ month' = 2
            /\ UNCHANGED <<users, opened, tasks, projects, subtasks, recallRows, alerts>>

\* Newest file first, newest line first, lines that do not parse are skipped.
ListRecall(limit) ==
    LET newest == SelectSeq(Reverse(recallRows[2]) \o Reverse(recallRows[1]), LAMBDA l : l # TornLine)
    IN  SubSeq(newest, 1, Min({limit, Len(newest)}))

WatchCreate(torn) == /\ RowRoom(alerts) /\ alerts' = Append(alerts, IF torn THEN "torn" ELSE "rule")
                     /\ UNCHANGED <<users, opened, tasks, projects, subtasks, recallRows, month>>
ListAlerts == SelectSeq(alerts, LAMBDA a : a # "torn")

UsersNext == \E p \in Processes : \/ OpenUsers(p) \/ EnsureDefaultUser(p) \/ Enroll(p) \/ InsertUser(p)
                                    \/ UpdateUserStatus(p) \/ SetPersonaBlock(p) \/ ResolveDefault(p) \/ CloseUsers(p)
PeopleTablesNext == AddTask \/ UpdateTaskStatus \/ CreateProject \/ AdvanceState \/ AttachPlan \/ AddSubtask \/ LinkWorkerTask
LinesNext == NewMonth \/ \E torn \in BOOLEAN : AppendRecall(torn) \/ WatchCreate(torn)

PeopleNext == UsersNext \/ PeopleTablesNext \/ LinesNext
PeopleSpec == PeopleInit /\ [][PeopleNext]_peopleVars

-----------------------------------------------------------------------------
\* A handle names one user whatever processes open the store or enroll at a time,
\* and who opens the store and names nobody gets the default user.
HandleNamesOneUser ==
    /\ \A i, j \in DOMAIN users : users[i].handle = users[j].handle => i = j
    /\ \A p \in Processes : Within(p, "resolved") => opened[p].user # {}
=============================================================================
