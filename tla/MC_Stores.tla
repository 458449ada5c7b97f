------------------------------ MODULE MC_Stores ------------------------------
(***************************************************************************)
(* The stores of the hub that share nothing: each initial state is about   *)
(* one of them, and the others rest.  The rules that plan a day and check  *)
(* an order keep no state: one step asks them one question.                *)
(***************************************************************************)
EXTENDS EventLog, WorkflowStore, Calendar, PeopleStores, Skills, EvalPacks, Memory, TimeBlocks, OrderIntents

VARIABLES focus,      \* the store that the behaviour is about
          question    \* what a rule is asked, or <<>>

otherThanEvents == <<workflowVars, calVars, peopleVars, skillVars, packVars, memVars>>
otherThanWorkflow == <<eventVars, calVars, peopleVars, skillVars, packVars, memVars>>
otherThanCalendar == <<eventVars, workflowVars, peopleVars, skillVars, packVars, memVars>>
otherThanPeople == <<eventVars, workflowVars, calVars, skillVars, packVars, memVars>>
otherThanSkills == <<eventVars, workflowVars, calVars, peopleVars, packVars, memVars>>
otherThanPacks == <<eventVars, workflowVars, calVars, peopleVars, skillVars, memVars>>
otherThanMemory == <<eventVars, workflowVars, calVars, peopleVars, skillVars, packVars>>
storeVars == <<focus, question, eventVars, otherThanEvents>>

Foci == {"events", "workflow", "calendar", "users", "tasks and projects", "lines", "skills", "seeds", "verdicts",
         "memory", "memory files", "plan", "order"}

StoresInit == /\ focus \in Foci /\ question = <<>>
              /\ EventInit /\ WorkflowInit /\ CalInit /\ PeopleInit /\ SkillsInit /\ PacksInit /\ MemInit

-----------------------------------------------------------------------------
(* Questions: two tasks and two appointments of two short days; an order.  *)

Appointment == {e \in [from : {1, 3, 6, 8}, to : {1, 2, 4, 7, 9}] : e.from <= e.to}
TaskPairs == {{[id |-> 1, due |-> d1, priority |-> 1, created |-> 1, minutes |-> m1, status |-> "open"],
               [id |-> 2, due |-> d2, priority |-> p2, created |-> 0, minutes |-> m2, status |-> s2]} :
                 d1 \in {3, NoDue}, d2 \in {NoDue, 8}, p2 \in {1, 2}, m1 \in 1 .. 2, m2 \in 1 .. 3, s2 \in {"in_progress", "done"}}
Days == [tasks : TaskPairs, events : {{a, b} : a \in Appointment, b \in Appointment} \cup {{}},
         window : {[from |-> f, to |-> t] : f \in {0, 2}, t \in {8, 10}}]

Orders == [intent : {o \in Intent({None, 0, 1, 4}) : Accepted(o)}, portfolio : {0, 1, 8, 12, 40}, estimated : {None, 0, 2, 3}]

Ask == /\ focus \in {"plan", "order"} /\ question = <<>>
       /\ question' \in IF focus = "plan" THEN Days ELSE Orders
       /\ UNCHANGED <<focus, eventVars, otherThanEvents>>

StoresNext ==
    \/ focus = "events" /\ EventNext /\ UNCHANGED <<focus, question, otherThanEvents>>
    \/ focus = "workflow" /\ WorkflowNext /\ UNCHANGED <<focus, question, otherThanWorkflow>>
    \/ focus = "calendar" /\ CalNext /\ UNCHANGED <<focus, question, otherThanCalendar>>
    \/ focus = "users" /\ UsersNext /\ UNCHANGED <<focus, question, otherThanPeople>>
    \/ focus = "tasks and projects" /\ PeopleTablesNext /\ UNCHANGED <<focus, question, otherThanPeople>>
    \/ focus = "lines" /\ LinesNext /\ UNCHANGED <<focus, question, otherThanPeople>>
    \/ focus = "skills" /\ SkillsNext /\ UNCHANGED <<focus, question, otherThanSkills>>
    \/ focus = "seeds" /\ SeedNext /\ UNCHANGED <<focus, question, otherThanPacks>>
    \/ focus = "verdicts" /\ RowsNext /\ UNCHANGED <<focus, question, otherThanPacks>>
    \/ focus = "memory" /\ MemoryTablesNext /\ UNCHANGED <<focus, question, otherThanMemory>>
    \/ focus = "memory files" /\ ToolNext /\ UNCHANGED <<focus, question, otherThanMemory>>
    \/ Ask

StoresSpec == StoresInit /\ [][StoresNext]_storeVars

-----------------------------------------------------------------------------
\* TimeBlocks!PlanKept of every question.
PlansKeepAppointments ==
    focus = "plan" /\ question # <<>> =>
        PlanKept(question.tasks, question.events, question.window, Plan(question.tasks, question.events, question.window))

\* OrderIntents!PassedOrdersFit of every question.
OrdersThatPassFit ==
    focus = "order" /\ question # <<>> =>
        PassedOrdersFit(question.intent, question.portfolio, question.estimated,
                        RiskCheck(question.intent, question.portfolio, question.estimated))

-----------------------------------------------------------------------------
(* Instances. *)

Pasted == {<<[uid |-> 1, month |-> 1], [uid |-> 2, month |-> 1]>>, <<[uid |-> 2, month |-> 2], [uid |-> 1, month |-> 1]>>}
PackNames == <<"p1", "p2">>
TwoCases == <<"capability", "regression">>
Digest(path, title, names, related) ==
    [path |-> path, title |-> title, entities |-> names, relations |-> related]
Named(name, confidence) == [name |-> name, confidence |-> confidence]
ThreeDigests == <<Digest("x", "a", <<Named("b", 6)>>, {<<"a", "b">>}),
                  Digest("x", "b", <<Named("a", 9)>>, {<<"a", "b">>}),
                  Digest("y", "c", <<Named("a", 8), Named("b", 8)>>, {<<"b", "c">>})>>

\* Kernels are interchangeable, and so are writers.
Symmetry == Permutations(Kernels) \cup Permutations(Writers)
=============================================================================
