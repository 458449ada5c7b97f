------------------------------ MODULE EventLog ------------------------------
(***************************************************************************)
(* One file .omni/events/task-<id>.jsonl of src/omni_hub/event_log.py.     *)
(* append reads the hash of the last line, chains the new event to it,     *)
(* writes the line and calls fsync; no lock covers the three accesses, and *)
(* after a lease has lapsed two workers append to the log of one task.     *)
(*                                                                         *)
(* An event is hashed once, together with the hash it was chained to, so   *)
(* its number stands for its content_hash.  An event fits one write call:  *)
(* a killed process leaves it whole or not at all.  A power loss may tear  *)
(* it, or take its newline alone: the next event then lands on its line.   *)
(***************************************************************************)
EXTENDS Naturals, Sequences, SequencesExt

CONSTANTS Writers,     \* processes that append
          MaxEvents    \* bound: events ever written

ASSUME EventAssumption == MaxEvents \in Nat

VARIABLES file,      \* what was appended, in order, the kernel's view
          unended,   \* the last line lacks its newline
          durable,   \* how much of the file an fsync has made durable
          at,        \* at[w]: "idle", "write" or "sync"
          last,      \* last[w]: the hash w read, then the event it wrote
          written,   \* number of events written so far
          accepted,  \* events whose append returned
          joined     \* history: events that ever shared a line with another

eventVars == <<file, unended, durable, at, last, written, accepted, joined>>

GENESIS_HASH == 0
\* joins: it stands on the line of its predecessor; event 0: a torn one.
Event == [event : 0 .. MaxEvents, prev_hash : 0 .. MaxEvents, joins : BOOLEAN]
Torn(joins) == [event |-> 0, prev_hash |-> 0, joins |-> joins]

EventInit == /\ file = <<>> /\ unended = FALSE /\ durable = 0
             /\ at = [w \in Writers |-> "idle"]
             /\ last = [w \in Writers |-> GENESIS_HASH]
             /\ written = 0
             /\ accepted = {} /\ joined = {}

\* json.loads refuses a torn line and one with two objects.
TailIsBad == file # <<>> /\ (Last(file).event = 0 \/ Last(file).joins)

LastHash == IF file = <<>> THEN GENESIS_HASH ELSE Last(file).event

\* _last_hash; a last line that does not parse raises EventLogCorruption and
\* nothing is appended.  Whether the line has its newline is not looked at.
ReadTail(w) ==
    /\ at[w] = "idle" /\ ~TailIsBad
    /\ last' = [last EXCEPT ![w] = LastHash]
    /\ at' = [at EXCEPT ![w] = "write"]
    /\ UNCHANGED <<file, unended, durable, written, accepted, joined>>

Appended(prev_hash) == Append(file, [event |-> written + 1, prev_hash |-> prev_hash, joins |-> unended])

\* Mutant: the event is chained to the number of events, not to what was read.
WriteUnchained(w) ==
    /\ at[w] = "write" /\ written < MaxEvents
    /\ file' = Appended(written + 1)
    /\ unended' = FALSE
    /\ joined' = IF unended THEN joined \cup {Last(file).event, written + 1} ELSE joined
    /\ written' = written + 1
    /\ last' = [last EXCEPT ![w] = written + 1]
    /\ at' = [at EXCEPT ![w] = "sync"]
    /\ UNCHANGED <<durable, accepted>>

\* The event and its newline are written to the end of the file, which may be
\* the end of a line without one, and flushed to the kernel.
WriteLine(w) ==
    /\ at[w] = "write" /\ written < MaxEvents
    /\ file' = Appended(last[w])
    /\ unended' = FALSE
    /\ joined' = IF unended THEN joined \cup {Last(file).event, written + 1} ELSE joined
    /\ written' = written + 1
    /\ last' = [last EXCEPT ![w] = written + 1]
    /\ at' = [at EXCEPT ![w] = "sync"]
    /\ UNCHANGED <<durable, accepted>>

\* Mutant: append returns without fsync.
ReturnUnsynced(w) ==
    /\ at[w] = "sync"
    /\ accepted' = accepted \cup {last[w]}
    /\ at' = [at EXCEPT ![w] = "idle"]
    /\ UNCHANGED <<file, unended, durable, last, written, joined>>

\* fsync makes the file durable as it is; append returns.
Sync(w) ==
    /\ at[w] = "sync"
    /\ durable' = Len(file)
    /\ accepted' = accepted \cup {last[w]}
    /\ at' = [at EXCEPT ![w] = "idle"]
    /\ UNCHANGED <<file, unended, last, written, joined>>

Kill(w) ==
    /\ at[w] # "idle"
    /\ at' = [at EXCEPT ![w] = "idle"]
    /\ UNCHANGED <<file, unended, durable, last, written, accepted, joined>>

\* What no fsync has covered may be lost, from any byte on: whole events, the
\* rest of a torn one, or the newline behind the last one alone.
PowerLoss ==
    /\ \/ \E kept \in durable .. Len(file) :
             /\ file' = SubSeq(file, 1, kept)
             /\ unended' = IF kept < Len(file) THEN file[kept + 1].joins ELSE unended
       \/ \E kept \in durable .. Len(file) :
             /\ kept < Len(file)
             /\ file' = Append(SubSeq(file, 1, kept), Torn(file[kept + 1].joins))
             /\ unended' = TRUE
       \/ \E kept \in durable .. Len(file) :
             /\ kept > durable
             /\ file' = SubSeq(file, 1, kept)
             /\ unended' = TRUE
    /\ durable' = Len(file')
    /\ at' = [w \in Writers |-> "idle"]
    /\ UNCHANGED <<last, written, accepted, joined>>

\* The caller truncates the bad line, as EventLogCorruption asks for.  No more
\* than two events share one: nobody who reads it appends to it again.
Quarantine ==
    /\ TailIsBad
    /\ file' = SubSeq(file, 1, Len(file) - (IF Last(file).joins THEN 2 ELSE 1))
    /\ unended' = FALSE
    /\ durable' = Len(file')
    /\ UNCHANGED <<at, last, written, accepted, joined>>

EventNext == \/ \E w \in Writers : ReadTail(w) \/ WriteLine(w) \/ Sync(w) \/ Kill(w)
             \/ PowerLoss
             \/ Quarantine

EventSpec == EventInit /\ [][EventNext]_eventVars

-----------------------------------------------------------------------------
(* Properties. *)

EventTypeOK == /\ file \in Seq(Event)
               /\ unended \in BOOLEAN
               /\ durable \in 0 .. Len(file)
               /\ at \in [Writers -> {"idle", "write", "sync"}]
               /\ last \in [Writers -> 0 .. MaxEvents]
               /\ written \in 0 .. MaxEvents
               /\ accepted \subseteq 1 .. written
               /\ joined \subseteq 1 .. MaxEvents

\* The events of the file, and those alone on their line: replay meets these.
Events == {i \in DOMAIN file : file[i].event # 0}
Lines == {i \in Events : ~file[i].joins /\ (i < Len(file) => ~file[i + 1].joins)}

\* "a power loss can lose at most the in-flight event, never a previously
\* accepted one", also with several writers, whose fsyncs cover each other, and
\* when the bad line is truncated: but for the events that came to share a line.
AcceptedIsKept == \A e \in accepted \ joined : \E i \in Lines : file[i].event = e

\* The same promise as it is written, with no exception: a power loss takes the
\* newline of one event, the next append is accepted on its line, and neither
\* can be read again.
EveryAcceptedIsKept == \A e \in accepted : \E i \in Lines : file[i].event = e

\* Nothing is appended behind a torn event before it is quarantined.
TornEndsTheFile == \A i \in DOMAIN file : file[i].event = 0 => i = Len(file)

\* Replay meets an event after the one it is chained to, however writers
\* interleave and whatever a power loss or a quarantine cuts off, unless that
\* one had shared its line (and may have been truncated with it).
ParentComesFirst ==
    \A i \in Events : \/ file[i].prev_hash \in {GENESIS_HASH} \cup joined
                      \/ \E j \in Events : j < i /\ file[j].event = file[i].prev_hash

\* verify_chain: each event is chained to the one before it.  A failure names
\* "which event_id broke the chain (deletion / reorder / forgery)", so a log
\* that nobody tampered with should pass.
ChainVerifies ==
    \A i \in Events : file[i].prev_hash = IF i = 1 THEN GENESIS_HASH ELSE file[i - 1].event
=============================================================================
