------------------------------ MODULE TimeBlocks ------------------------------
(***************************************************************************)
(* The day planner (src/omni_hub/scheduling/time_block.py): tasks are put, *)
(* most urgent first, into the free time between calendar events in the    *)
(* working hours of the working days.  Times are whole units counted from  *)
(* midnight of day 0; a day has DayLength of them.                         *)
(***************************************************************************)
EXTENDS Integers, Sequences, SequencesExt

CONSTANTS DayLength, WorkStart, WorkEnd,   \* TimeBlockPlanner.work_start, work_end
          Weekdays,                        \* days that are worked
          MinGap                           \* min_gap_minutes

NoDue == 1000          \* the sort key of a task without a due date
Later(a, b) == IF a < b THEN b ELSE a
Earlier(a, b) == IF a < b THEN a ELSE b

-----------------------------------------------------------------------------
(* What the planner is given: tasks [id, due, priority, created, minutes,  *)
(* status], events [from, to], and the window [from, to].                  *)

Precedes(t, u) ==      \* _task_sort_key
    \/ t.due < u.due
    \/ t.due = u.due /\ t.priority < u.priority
    \/ t.due = u.due /\ t.priority = u.priority /\ t.created < u.created

TasksToPlace(tasks) ==
    SetToSortSeq({t \in tasks : t.status \in {"open", "in_progress"}}, Precedes)

MergeBusy(busy, event) ==
    IF busy # <<>> /\ event.from <= Last(busy).to
    THEN Append(Front(busy), [from |-> Last(busy).from, to |-> Later(Last(busy).to, event.to)])
    ELSE Append(busy, event)

BusySlots(events, window) ==
    LET inside == {e \in events : e.to > window.from /\ e.from < window.to}
        clipped == {[from |-> Later(e.from, window.from), to |-> Earlier(e.to, window.to)] : e \in inside}
    IN  FoldLeft(MergeBusy, <<>>, SetToSortSeq(clipped, LAMBDA a, b : a.from < b.from \/ (a.from = b.from /\ a.to < b.to)))

\* The gaps of one day: ptr is where the next gap may start.
DayGaps(busy, from, to) ==
    LET Skip(acc, slot) ==
            IF slot.to <= from \/ slot.from >= to THEN acc
            ELSE [free |-> IF slot.from > acc.ptr
                           THEN Append(acc.free, [from |-> acc.ptr, to |-> Earlier(slot.from, to)]) ELSE acc.free,
                  ptr |-> Later(acc.ptr, Earlier(slot.to, to))]
        day == FoldLeft(Skip, [free |-> <<>>, ptr |-> from], busy)
    IN  IF day.ptr < to THEN Append(day.free, [from |-> day.ptr, to |-> to]) ELSE day.free

FreeSlots(busy, window) ==     \* _invert_busy
    LET Day(d) ==
            LET from == Later(d * DayLength + WorkStart, window.from)
                to == Earlier(d * DayLength + WorkEnd, window.to)
            IN  IF d % 7 \notin Weekdays \/ to <= from THEN <<>> ELSE DayGaps(busy, from, to)
        first == window.from \div DayLength
        last == window.to \div DayLength
    IN  SelectSeq(FlattenSeq([i \in 1 .. (last - first + 1) |-> Day(first + i - 1)]), LAMBDA s : s.to > s.from)

-----------------------------------------------------------------------------
(* Placing. *)

\* The first slot that is long enough and starts before the task is due; 0 when
\* there is none.  The end of the block may lie behind the due date.
PickSlot(free, task) ==
    LET fits == {i \in DOMAIN free : free[i].from < task.due /\ free[i].to - free[i].from >= task.minutes}
    IN  IF fits = {} THEN 0 ELSE CHOOSE i \in fits : \A j \in fits : i <= j

\* Mutant: a slot that is used in part stays whole.
ConsumeSlotWhole(free, i, end) == IF end + MinGap < free[i].to THEN free ELSE RemoveAt(free, i)

ConsumeSlot(free, i, end) ==
    IF end + MinGap < free[i].to THEN [free EXCEPT ![i] = [from |-> end + MinGap, to |-> @.to]]
    ELSE RemoveAt(free, i)

Place(acc, task) ==
    LET i == PickSlot(acc.free, task)
        start == acc.free[i].from
        Block(from, to, fits) == [task |-> task.id, from |-> from, to |-> to, fits |-> fits]
    IN  IF i = 0 THEN [acc EXCEPT !.blocks = Append(@, Block(0, 0, FALSE))]     \* note = "unfittable"
        ELSE [free |-> ConsumeSlot(acc.free, i, start + task.minutes),
              blocks |-> Append(acc.blocks, Block(start, start + task.minutes, TRUE))]

Plan(tasks, events, window) ==
    FoldLeft(Place, [free |-> FreeSlots(BusySlots(events, window), window), blocks |-> <<>>], TasksToPlace(tasks)).blocks

-----------------------------------------------------------------------------
(* What a plan promises. *)

Overlaps(from, to, slot) == from < slot.to /\ slot.from < to

\* Time that may be planned at all: in the window and in the working hours of a
\* working day, and no event has any of it.
Workable(from, to, events, window) ==
    LET day == from \div DayLength IN
    /\ from >= window.from /\ to <= window.to /\ day % 7 \in Weekdays
    /\ from >= day * DayLength + WorkStart /\ to <= day * DayLength + WorkEnd
    /\ \A e \in events : ~Overlaps(from, to, e)

\* A plan double-books nobody and gives up on nothing that fits: it answers every
\* open task once, blocks lie in workable time, start before their task is due and
\* keep their distance, and a task called unfittable had no workable time left
\* when its turn came.
PlanKept(tasks, events, window, blocks) ==
    LET placed == {i \in DOMAIN blocks : blocks[i].fits}
        TaskOf(i) == CHOOSE t \in tasks : t.id = blocks[i].task
        NeverBoth(i, j) == blocks[i].to <= blocks[j].from \/ blocks[j].to <= blocks[i].from
    IN  /\ {blocks[i].task : i \in DOMAIN blocks} = {t.id : t \in {u \in tasks : u.status \in {"open", "in_progress"}}}
        /\ \A i, j \in DOMAIN blocks : i # j => blocks[i].task # blocks[j].task
        /\ \A i \in placed : /\ Workable(blocks[i].from, blocks[i].to, events, window)
                             /\ blocks[i].from < TaskOf(i).due
                             /\ \A j \in placed : i = j \/ NeverBoth(i, j)
        /\ \A i \in DOMAIN blocks \ placed : \A at \in window.from .. window.to :
               LET end == at + TaskOf(i).minutes IN
               Workable(at, end, events, window) /\ at < TaskOf(i).due =>
                   \E j \in placed : j < i /\ at < blocks[j].to + MinGap /\ blocks[j].from < end
=============================================================================
