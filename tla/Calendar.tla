------------------------------- MODULE Calendar -------------------------------
(***************************************************************************)
(* One user's calendar (src/omni_hub/scheduling/calendar.py): a file of    *)
(* events per month.  An event is added by reading the whole file and      *)
(* writing it back with the event put before the closing line, and an      *)
(* imported body is added event by event.  Commands run in processes of    *)
(* their own, take no lock and may die within a write, which leaves the    *)
(* beginning of what they wrote: a cut-off entry is skipped by the reader. *)
(***************************************************************************)
EXTENDS Naturals, Sequences, SequencesExt

CONSTANTS CalendarClients, Months, Uids, Bodies, MaxCalendarCommands   \* Bodies: what may be pasted

ASSUME CalendarAssumption == Bodies \subseteq Seq([uid : Uids, month : Months])

VARIABLES monthFiles,  \* monthFiles[m]: the entries of month m
          call,        \* call[c]: the command of c
          calls,       \* bound: commands run so far
          kept,       \* entries that a command has finished writing
          raced       \* months whose file two commands had open at a time, or a writer died in

calVars == <<monthFiles, call, calls, kept, raced>>

Entry == [uid : Uids, month : Months]
NoCall == [todo |-> <<>>, known |-> {}, open |-> FALSE, body |-> <<>>]   \* open: the month file is read

CalInit == /\ monthFiles = [m \in Months |-> <<>>]
           /\ call = [c \in CalendarClients |-> NoCall]
           /\ calls = 0 /\ kept = {} /\ raced = {}

ListEvents == UNION {Range(monthFiles[m]) : m \in Months}        \* list_events without a window
Listed == {e.uid : e \in ListEvents}

Idle(c) == call[c].todo = <<>>
Next1(c) == Head(call[c].todo)
Begin(c, todo, known) ==
    /\ Idle(c) /\ calls < MaxCalendarCommands
    /\ calls' = calls + 1
    /\ call' = [call EXCEPT ![c] = [NoCall EXCEPT !.todo = todo, !.known = known]]
    /\ UNCHANGED <<monthFiles, kept, raced>>

\* add_event gives the event an identifier that nobody has.
AddEvent(c) ==
    \E e \in Entry : /\ e.uid \notin Listed
                     /\ \A d \in CalendarClients, i \in 1 .. 2 : i \in DOMAIN call[d].todo => call[d].todo[i].uid # e.uid
                     /\ \A k \in kept : k.uid # e.uid
                     /\ Begin(c, <<e>>, {})

\* import_ics lists what is there once, before it adds anything.
ImportIcs(c) == \E body \in Bodies : Begin(c, body, Listed)

\* An entry that was there: ValueError, and the entries before it stay.
Refuse(c) ==
    /\ ~Idle(c) /\ Next1(c).uid \in call[c].known
    /\ call' = [call EXCEPT ![c] = NoCall]
    /\ UNCHANGED <<monthFiles, calls, kept, raced>>

Open(c, m) == ~Idle(c) /\ call[c].open /\ Next1(c).month = m

\* _append, first half.
ReadMonth(c) ==
    /\ ~Idle(c) /\ Next1(c).uid \notin call[c].known /\ ~call[c].open
    /\ LET m == Next1(c).month IN
       /\ call' = [call EXCEPT ![c].open = TRUE, ![c].body = monthFiles[m]]
       /\ raced' = IF \E d \in CalendarClients : Open(d, m) THEN raced \cup {m} ELSE raced
    /\ UNCHANGED <<monthFiles, calls, kept>>

\* Mutant: the body is read once for an import.
WriteMonthOnce(c) ==
    /\ ~Idle(c) /\ call[c].open
    /\ monthFiles' = [monthFiles EXCEPT ![Next1(c).month] = Append(call[c].body, Next1(c))]
    /\ kept' = kept \cup {Next1(c)}
    /\ call' = [call EXCEPT ![c].todo = Tail(@)]
    /\ UNCHANGED <<calls, raced>>

\* _append, second half.
WriteMonth(c) ==
    /\ ~Idle(c) /\ call[c].open
    /\ monthFiles' = [monthFiles EXCEPT ![Next1(c).month] = Append(call[c].body, Next1(c))]
    /\ kept' = kept \cup {Next1(c)}
    /\ call' = [call EXCEPT ![c].todo = Tail(@), ![c].open = FALSE, ![c].body = <<>>]
    /\ UNCHANGED <<calls, raced>>

\* write_text truncates first.
CalendarDies(c) ==
    /\ ~Idle(c)
    /\ call' = [call EXCEPT ![c] = NoCall]
    /\ \/ UNCHANGED <<monthFiles, raced>>
       \/ /\ call[c].open
          /\ \E prefix \in Prefixes(Append(call[c].body, Next1(c))) :
                monthFiles' = [monthFiles EXCEPT ![Next1(c).month] = prefix]
          /\ raced' = raced \cup {Next1(c).month}
    /\ UNCHANGED <<calls, kept>>

CalNext == \E c \in CalendarClients : AddEvent(c) \/ ImportIcs(c) \/ Refuse(c) \/ ReadMonth(c) \/ WriteMonth(c) \/ CalendarDies(c)
CalSpec == CalInit /\ [][CalNext]_calVars

-----------------------------------------------------------------------------
\* Appointments do not vanish: an event that a command has finished writing is
\* listed from then on, whatever imports run, are refused or die half-way, unless
\* two commands had the file of its month open at a time or one died writing it.
AppointmentsStay == \A e \in kept : e.month \notin raced => e \in ListEvents
=============================================================================
