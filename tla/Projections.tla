----------------------------- MODULE Projections -----------------------------
(***************************************************************************)
(* The registry of derived stores (projection.py) and the one derived      *)
(* store that keeps snapshots of its own, the claim graph (wiki_graph.py). *)
(* A rebuild of the graph writes a snapshot file under a fresh name, then  *)
(* a temporary pointer file, whose name all processes share, and renames   *)
(* it over current.json; only then is the snapshot entered in the          *)
(* registry, in one transaction with the current one of the projection.    *)
(* Queries of the graph read current.json and never the registry.          *)
(*                                                                         *)
(* The other projections (full-text table, claim ledger, preference files) *)
(* have no snapshot to go back to: a rebuild counts what there is and      *)
(* enters that; one of them, "table", stands for the three.                *)
(***************************************************************************)
EXTENDS Integers, FiniteSets

CONSTANTS
    Builders,        \* processes that rebuild or roll back
    MaxSnapshots,    \* bound on the snapshots ever built
    MaxRecords       \* bound on the records of the sources

ASSUME ProjectionsAssumption == MaxSnapshots \in Nat /\ MaxRecords \in Nat

Projection == {"graph", "table"}

VARIABLES
    records,         \* how many records the sources hold
    built,           \* built[s]: "none", "part" or "whole": the file of snapshot s
    made,            \* how many snapshots were begun
    temp, pointer,   \* the snapshot named by current.json.tmp and by current.json;
                     \* Gone: no such file, Blank: the file is empty
    renames,         \* how often the first was renamed to the second
    registry,        \* the snapshots entered: [id, projection, from]
    current,         \* current[p]: the current snapshot of projection p, 0: none
    cursor,          \* cursor[p]: the last record that p has consumed
    work,            \* work[b]: [what, at, id, from] of process b
    apart,           \* no two rebuilds of the graph overlapped, none died
    rolled           \* the current snapshot of the graph was chosen by a rollback

projVars == <<records, built, made, temp, pointer, renames, registry, current, cursor, work, apart, rolled>>

Gone == 0
Blank == -1
Off == [what |-> "none", at |-> "end", id |-> 0, from |-> 0, file |-> 0]
Busy == {b \in Builders : work[b] # Off}

ProjInit ==
    /\ records = 0 /\ made = 0
    /\ built = [s \in 1 .. MaxSnapshots |-> "none"]
    /\ temp = Gone /\ pointer = Gone /\ renames = 0
    /\ registry = {} /\ current = [p \in Projection |-> 0] /\ cursor = [p \in Projection |-> 0]
    /\ work = [b \in Builders |-> Off]
    /\ apart = TRUE /\ rolled = FALSE

-----------------------------------------------------------------------------

Source == /\ records < MaxRecords
          /\ records' = records + 1
          /\ UNCHANGED <<built, made, temp, pointer, renames, registry, current, cursor, work, apart, rolled>>

\* Mutant: the snapshot is entered before the graph is written.
StartRecorded(b, p) ==
    /\ work[b] = Off /\ made < MaxSnapshots
    /\ made' = made + 1
    /\ work' = [work EXCEPT ![b] = [what |-> p, at |-> IF p = "graph" THEN "file" ELSE "record",
                                    id |-> made', from |-> records, file |-> 0]]
    /\ registry' = registry \cup {[id |-> made', projection |-> p, from |-> records]}
    /\ current' = [current EXCEPT ![p] = made']
    /\ apart' = (apart /\ (p = "graph" => \A other \in Busy : work[other].what # "graph"))
    /\ UNCHANGED <<records, built, temp, pointer, renames, cursor, rolled>>

\* ProjectionRegistry.rebuild calls the builder; it has read its source when the
\* first file is opened.
Start(b, p) ==
    /\ work[b] = Off /\ made < MaxSnapshots
    /\ made' = made + 1
    /\ work' = [work EXCEPT ![b] = [what |-> p, at |-> IF p = "graph" THEN "file" ELSE "record",
                                    id |-> made', from |-> records, file |-> 0]]
    /\ apart' = (apart /\ (p = "graph" => \A other \in Busy : work[other].what # "graph"))
    /\ UNCHANGED <<records, built, temp, pointer, renames, registry, current, cursor, rolled>>

At(b, place) == work[b].at = place
GoOn(b, place) == work' = [work EXCEPT ![b].at = place]

OpenFile(b) ==
    /\ At(b, "file")
    /\ built' = [built EXCEPT ![work[b].id] = "part"]
    /\ GoOn(b, "fill")
    /\ UNCHANGED <<records, made, temp, pointer, renames, registry, current, cursor, apart, rolled>>

FillFile(b) ==
    /\ At(b, "fill")
    /\ built' = [built EXCEPT ![work[b].id] = "whole"]
    /\ GoOn(b, "open temp")
    /\ UNCHANGED <<records, made, temp, pointer, renames, registry, current, cursor, apart, rolled>>

OpenTemp(b) ==
    /\ At(b, "open temp")
    /\ temp' = Blank
    /\ work' = [work EXCEPT ![b].at = "write temp", ![b].file = renames]
    /\ UNCHANGED <<records, built, made, pointer, renames, registry, current, cursor, apart, rolled>>

\* The handle stays with the file that was opened: if another process has renamed
\* that one by now, the pointer itself is written, or a file that is gone.
WriteTemp(b) ==
    /\ At(b, "write temp")
    /\ temp' = IF work[b].file = renames THEN work[b].id ELSE temp
    /\ pointer' = IF work[b].file = renames - 1 THEN work[b].id ELSE pointer
    /\ GoOn(b, "rename")
    /\ UNCHANGED <<records, built, made, renames, registry, current, cursor, apart, rolled>>

\* Renaming a file that another process has renamed before raises; the rebuild ends
\* there and nothing is entered.
Rename(b) ==
    /\ At(b, "rename")
    /\ IF temp = Gone
       THEN work' = [work EXCEPT ![b] = Off] /\ UNCHANGED <<temp, pointer, renames>>
       ELSE pointer' = temp /\ temp' = Gone /\ renames' = renames + 1 /\ GoOn(b, "record")
    /\ UNCHANGED <<records, built, made, registry, current, cursor, apart, rolled>>

\* record_snapshot; the cursor is left alone.
Record(b) ==
    /\ At(b, "record")
    /\ registry' = registry \cup {[id |-> work[b].id, projection |-> work[b].what, from |-> work[b].from]}
    /\ current' = [current EXCEPT ![work[b].what] = work[b].id]
    /\ rolled' = (rolled /\ work[b].what # "graph")
    /\ work' = [work EXCEPT ![b] = Off]
    /\ UNCHANGED <<records, built, made, temp, pointer, renames, cursor, apart>>

Rollback(p, s) ==
    /\ \E entry \in registry : entry.id = s /\ entry.projection = p
    /\ current' = [current EXCEPT ![p] = s]
    /\ rolled' = (rolled \/ p = "graph")
    /\ UNCHANGED <<records, built, made, temp, pointer, renames, registry, cursor, work, apart>>

\* advance_cursor takes any number; only consumers outside of this repository call it.
AdvanceCursor(p, n) ==
    /\ cursor' = [cursor EXCEPT ![p] = n]
    /\ UNCHANGED <<records, built, made, temp, pointer, renames, registry, current, work, apart, rolled>>

Stops(b) ==
    /\ work[b] # Off
    /\ work' = [work EXCEPT ![b] = Off]
    /\ apart' = FALSE
    /\ UNCHANGED <<records, built, made, temp, pointer, renames, registry, current, cursor, rolled>>

ProjNext ==
    \/ Source
    \/ \E b \in Builders : \/ OpenFile(b) \/ FillFile(b) \/ OpenTemp(b) \/ WriteTemp(b)
                           \/ Rename(b) \/ Record(b) \/ Stops(b)
                           \/ \E p \in Projection : Start(b, p)
    \/ \E p \in Projection : \E s \in 1 .. made : Rollback(p, s)
    \/ \E p \in Projection : \E n \in 0 .. records : AdvanceCursor(p, n)

-----------------------------------------------------------------------------

\* What a query of the graph reads; 0: it answers that there is no graph.
Queried == IF pointer \in 1 .. MaxSnapshots /\ built[pointer] = "whole" THEN pointer ELSE 0

\* Whatever overlaps or dies: what the registry lists of the graph is a file on disk,
\* complete, and the current snapshot of a projection is one of its own.  And as long
\* as no two graph rebuilds overlapped and none died, queries answer from the
\* snapshot that the registry calls current, unless it was chosen by a rollback.
RegistryKnowsGraph ==
    /\ \A s \in registry : s.projection = "graph" => built[s.id] = "whole"
    /\ \A p \in Projection : current[p] # 0 => \E s \in registry : s.id = current[p] /\ s.projection = p
    /\ (apart /\ ~rolled /\ \A b \in Builders : work[b].what # "graph") => Queried = current["graph"]
=============================================================================
