---------------------------- MODULE EventLogProofs ----------------------------
(***************************************************************************)
(* Proofs about EventLog.tla, for any set of writers and any bound on the  *)
(* number of events.                                                       *)
(*                                                                         *)
(* The argument: a write only ever extends the file, a power loss cuts it  *)
(* no shorter than the last fsync, and an accepted event lies before that  *)
(* fsync.  While a torn event ends the file every writer is idle, so       *)
(* nothing is appended behind it; two events that share a line have both   *)
(* been noted in joined, and a quarantine truncates no others.             *)
(***************************************************************************)
EXTENDS EventLog, SequenceTheorems, TLAPS

\* What a writer holds between two accesses: the event it chains to, or the
\* one it wrote, is in the file or shared a line.
Known(e) == e \in joined \/ \E i \in Events : file[i].event = e
HeldIsKnown ==
    \A w \in Writers :
        /\ at[w] = "write" => last[w] = GENESIS_HASH \/ Known(last[w])
        /\ at[w] = "sync" => last[w] \in 1 .. written /\ Known(last[w])

\* An append under way has met no torn event, and no crash has come since.
TornMeansQuiet == \A i \in DOMAIN file : file[i].event = 0 => \A w \in Writers : at[w] = "idle"

\* An accepted event is in the part of the file that is durable.
AcceptedIsDurable ==
    \A e \in accepted \ joined : \E i \in Events : i <= durable /\ file[i].event = e

\* An event that shares its line is noted.
JoinedIsNoted == \A i \in DOMAIN file :
    file[i].joins => i > 1 /\ file[i - 1].event \in joined /\ (i \in Events => file[i].event \in joined)

\* Only a line can lack its newline.
UnendedIsLine == unended => Len(file) > 0

EventInv == /\ EventTypeOK
            /\ TornEndsTheFile
            /\ HeldIsKnown
            /\ TornMeansQuiet
            /\ AcceptedIsDurable
            /\ JoinedIsNoted
            /\ UnendedIsLine
            /\ ParentComesFirst

-----------------------------------------------------------------------------
(* The file as a function, and the two ways a step changes it. *)

\* The domain of the file and the types of its lines.
LEMMA FileFacts ==
    ASSUME EventTypeOK
    PROVE  /\ Len(file) \in Nat
           /\ DOMAIN file = 1 .. Len(file)
           /\ Events = {i \in 1 .. Len(file) : file[i].event # 0}
           /\ \A i \in 1 .. Len(file) : file[i] \in Event
           /\ file # <<>> <=> Len(file) > 0
           /\ Last(file) = file[Len(file)]
<1>1. file \in Seq(Event)
  BY DEF EventTypeOK
<1>2. Len(file) \in Nat /\ DOMAIN file = 1 .. Len(file)
  BY <1>1, LenProperties
<1>3. \A i \in 1 .. Len(file) : file[i] \in Event
  BY <1>1, ElementOfSeq
<1>4. file # <<>> <=> Len(file) > 0
  BY <1>1, EmptySeq
<1>5. Last(file) = file[Len(file)]
  BY DEF Last
<1> QED
  BY <1>1, <1>2, <1>3, <1>4, <1>5 DEF Events

\* The step keeps the first k events and leaves at most a torn one behind them.
CutTo(k) == /\ k \in 0 .. Len(file)
            /\ file' \in Seq(Event)
            /\ Len(file') \in {k, k + 1}
            /\ \A i \in 1 .. k : file'[i] = file[i]
            /\ Len(file') = k + 1 => k < Len(file) /\ file'[k + 1] = Torn(file[k + 1].joins)

\* Cutting a file between two of its events.
LEMMA PrefixFacts ==
    ASSUME EventTypeOK, NEW k \in 0 .. Len(file)
    PROVE  /\ SubSeq(file, 1, k) \in Seq(Event)
           /\ Len(SubSeq(file, 1, k)) = k
           /\ \A i \in 1 .. k : SubSeq(file, 1, k)[i] = file[i]
<1>1. k \in Int /\ \A i \in 1 .. k : file[i] \in Event
  BY FileFacts
<1>2. /\ SubSeq(file, 1, k) \in Seq(Event)
      /\ Len(SubSeq(file, 1, k)) = IF 1 <= k THEN k - 1 + 1 ELSE 0
      /\ \A i \in 1 .. k - 1 + 1 : SubSeq(file, 1, k)[i] = file[1 + i - 1]
  BY <1>1, SubSeqProperties
<1> QED
  BY <1>1, <1>2, FileFacts

\* A power loss cuts the file behind what an fsync has covered.
LEMMA PowerLossCuts ==
    ASSUME EventInv, PowerLoss
    PROVE  /\ \E k \in durable .. Len(file) : CutTo(k)
           /\ unended' \in BOOLEAN
           /\ unended' => Len(file') > 0
<1> USE DEF EventInv
<1>0. durable \in Nat /\ durable .. Len(file) \subseteq 0 .. Len(file) /\ Len(file) \in Nat
  BY FileFacts DEF EventTypeOK
<1>1. ASSUME NEW k \in durable .. Len(file), file' = SubSeq(file, 1, k)
      PROVE  CutTo(k) /\ Len(file') = k /\ k \in Nat
  BY <1>0, <1>1, PrefixFacts DEF CutTo
<1>2. CASE \E k \in durable .. Len(file) :
               /\ file' = SubSeq(file, 1, k)
               /\ unended' = IF k < Len(file) THEN file[k + 1].joins ELSE unended
  <2>1. PICK k \in durable .. Len(file) :
               /\ file' = SubSeq(file, 1, k)
               /\ unended' = IF k < Len(file) THEN file[k + 1].joins ELSE unended
    BY <1>2
  <2>2. CutTo(k) /\ Len(file') = k /\ k \in Nat
    BY <1>1, <2>1
  <2>3. CASE k < Len(file)
    <3>1. k + 1 \in 1 .. Len(file) /\ unended' = file[k + 1].joins
      BY <1>0, <2>1, <2>2, <2>3
    <3>2. file[k + 1] \in Event /\ k + 1 \in DOMAIN file
      BY <3>1, FileFacts
    <3>3. unended' \in BOOLEAN /\ (unended' => k + 1 > 1)
      BY <3>1, <3>2 DEF Event, JoinedIsNoted
    <3> QED
      BY <2>2, <3>3
  <2>4. CASE k = Len(file)
    BY <1>0, <2>1, <2>2, <2>4 DEF UnendedIsLine, EventTypeOK
  <2> QED
    BY <1>0, <2>2, <2>3, <2>4
<1>3. CASE \E k \in durable .. Len(file) :
               /\ k < Len(file)
               /\ file' = Append(SubSeq(file, 1, k), Torn(file[k + 1].joins))
               /\ unended' = TRUE
  <2>1. PICK k \in durable .. Len(file) :
               /\ k < Len(file)
               /\ file' = Append(SubSeq(file, 1, k), Torn(file[k + 1].joins))
               /\ unended' = TRUE
    BY <1>3
  <2>2. /\ SubSeq(file, 1, k) \in Seq(Event)
        /\ Len(SubSeq(file, 1, k)) = k
        /\ \A i \in 1 .. k : SubSeq(file, 1, k)[i] = file[i]
        /\ k \in 0 .. Len(file)
    BY <1>0, PrefixFacts
  <2>3. Torn(file[k + 1].joins) \in Event
    <3>1. k + 1 \in 1 .. Len(file)
      BY <1>0, <2>1, <2>2
    <3> QED
      BY <3>1, FileFacts, EventAssumption DEF Torn, Event
  <2>4. /\ file' \in Seq(Event)
        /\ Len(file') = k + 1
        /\ \A i \in 1 .. k : file'[i] = SubSeq(file, 1, k)[i]
        /\ file'[k + 1] = Torn(file[k + 1].joins)
    BY <2>1, <2>2, <2>3, AppendProperties
  <2> QED
    BY <1>0, <2>1, <2>2, <2>4 DEF CutTo
<1>4. CASE \E k \in durable .. Len(file) : k > durable /\ file' = SubSeq(file, 1, k) /\ unended' = TRUE
  BY <1>0, <1>1, <1>4
<1> QED
  BY <1>2, <1>3, <1>4 DEF PowerLoss

\* Quarantine cuts off the bad line alone, with its one or two events.
LEMMA QuarantineCuts ==
    ASSUME EventInv, Quarantine
    PROVE  \E k \in 0 .. Len(file) :
              /\ CutTo(k) /\ k < Len(file) /\ Len(file') = k
              /\ \A i \in Events : i > k => file[i].event \in joined
<1> USE DEF EventInv
<1> DEFINE n == Len(file)
           k == n - (IF file[n].joins THEN 2 ELSE 1)
<1>1. n \in Nat /\ n > 0 /\ n \in DOMAIN file /\ file[n] \in Event
  BY FileFacts DEF Quarantine, TailIsBad
<1>2. file' = SubSeq(file, 1, k) /\ (file[n].event = 0 \/ file[n].joins)
  BY FileFacts DEF Quarantine, TailIsBad
<1>3. file[n].joins => n > 1 /\ file[n - 1].event \in joined /\ (n \in Events => file[n].event \in joined)
  BY <1>1 DEF JoinedIsNoted
<1>4. k \in 0 .. n /\ k < n
  BY <1>1, <1>3
<1>5. \A i \in Events : i > k => file[i].event \in joined
  <2> SUFFICES ASSUME NEW i \in Events, i > k
               PROVE  file[i].event \in joined
    OBVIOUS
  <2>1. i \in 1 .. n /\ file[i].event # 0
    BY FileFacts
  <2>2. i = n \/ (file[n].joins /\ i = n - 1)
    BY <1>1, <1>4, <2>1
  <2> QED
    BY <1>2, <1>3, <2>1, <2>2
<1>6. CutTo(k) /\ Len(file') = k
  <2>1. k \in 0 .. Len(file)
    BY <1>4
  <2> HIDE DEF k
  <2> QED
    BY <1>2, <2>1, PrefixFacts DEF CutTo
<1> QED
  BY <1>4, <1>5, <1>6

\* What cutting the file does to the invariant: either every writer is stopped,
\* or whole lines of noted events go.
LEMMA CutKeepsInv ==
    ASSUME EventInv, NEW k, CutTo(k), durable' = Len(file'),
           unended' \in BOOLEAN, unended' => Len(file') > 0,
           at' \in [Writers -> {"idle", "write", "sync"}],
           UNCHANGED <<last, written, accepted, joined>>,
           \A i \in Events : i <= durable /\ i > k => file[i].event \in joined,
           \/ \A w \in Writers : at'[w] = "idle"
           \/ /\ k < Len(file) /\ Len(file') = k /\ at' = at
              /\ \A i \in Events : i > k => file[i].event \in joined
    PROVE  EventInv'
<1> USE DEF EventInv
<1>1. EventTypeOK'
  BY LenProperties, FileFacts DEF EventTypeOK, CutTo
<1>2. /\ DOMAIN file' = 1 .. Len(file')
      /\ Len(file') \in Nat
      /\ Events' = {i \in 1 .. Len(file') : file'[i].event # 0}
  BY <1>1, LenProperties DEF EventTypeOK, Events
<1>3. k \in Nat /\ k <= Len(file) /\ Len(file) \in Nat
  BY FileFacts DEF CutTo
<1>4. Len(file') = k + 1 => /\ k < Len(file) /\ k + 1 \in DOMAIN file
                            /\ file'[k + 1].event = 0 /\ file'[k + 1].joins = file[k + 1].joins
  BY <1>3, FileFacts DEF CutTo, Torn
<1>5. /\ \A i \in Events' : i \in Events /\ i <= k /\ file'[i] = file[i]
      /\ \A i \in Events : i <= k => i \in Events' /\ file'[i] = file[i]
  <2>1. ASSUME NEW i \in Events'
        PROVE  i \in Events /\ i <= k /\ file'[i] = file[i]
    <3>1. i \in 1 .. Len(file') /\ file'[i].event # 0
      BY <1>2
    <3>2. i \in 1 .. k
      BY <1>3, <1>4, <3>1 DEF CutTo
    <3> QED
      BY <1>3, <3>1, <3>2, FileFacts DEF CutTo
  <2>2. ASSUME NEW i \in Events, i <= k
        PROVE  i \in Events' /\ file'[i] = file[i]
    <3>1. i \in 1 .. Len(file) /\ file[i].event # 0
      BY FileFacts
    <3>2. i \in 1 .. k /\ i \in 1 .. Len(file')
      BY <1>2, <1>3, <2>2, <3>1 DEF CutTo
    <3> QED
      BY <1>2, <3>1, <3>2 DEF CutTo
  <2> QED
    BY <2>1, <2>2
<1>6. \A i \in DOMAIN file' : /\ i \in DOMAIN file
                              /\ file'[i].joins = file[i].joins
                              /\ i > 1 => i - 1 \in 1 .. k /\ file'[i - 1] = file[i - 1]
  <2> SUFFICES ASSUME NEW i \in 1 .. Len(file')
               PROVE  /\ i \in DOMAIN file
                      /\ file'[i].joins = file[i].joins
                      /\ i > 1 => i - 1 \in 1 .. k /\ file'[i - 1] = file[i - 1]
    BY <1>2
  <2>1. i \in 1 .. k \/ (i = k + 1 /\ Len(file') = k + 1)
    BY <1>2, <1>3 DEF CutTo
  <2>2. i > 1 => i - 1 \in 1 .. k
    BY <1>3, <2>1
  <2> QED
    BY <1>3, <1>4, <2>1, <2>2, FileFacts DEF CutTo
<1>7. TornEndsTheFile'
  <2> SUFFICES ASSUME NEW i \in 1 .. Len(file'), file'[i].event = 0
               PROVE  i = Len(file')
    BY <1>2 DEF TornEndsTheFile
  <2>1. CASE i <= k
    <3>0. i \in DOMAIN file /\ file[i].event = 0
      BY <1>3, <2>1, FileFacts DEF CutTo
    <3>1. i = Len(file)
      BY <3>0 DEF TornEndsTheFile
    <3> QED
      BY <1>3, <1>4, <2>1, <3>1 DEF CutTo
  <2>2. CASE i > k
    BY <1>2, <1>3, <2>2 DEF CutTo
  <2> QED
    BY <1>3, <2>1, <2>2
<1>8. HeldIsKnown'
  <2>1. CASE \A w \in Writers : at'[w] = "idle"
    BY <2>1 DEF HeldIsKnown
  <2>2. CASE at' = at /\ \A i \in Events : i > k => file[i].event \in joined
    <3>1. ASSUME NEW e, Known(e)
          PROVE  Known(e)'
      <4>1. CASE e \in joined
        BY <4>1 DEF Known
      <4>2. CASE \E i \in Events : file[i].event = e
        <5>1. PICK i \in Events : file[i].event = e
          BY <4>2
        <5>2. i \in Nat
          BY FileFacts
        <5> QED
          BY <1>3, <1>5, <2>2, <5>1, <5>2 DEF Known
      <4> QED
        BY <3>1, <4>1, <4>2 DEF Known
    <3>2. \A w \in Writers : at'[w] = at[w] /\ last'[w] = last[w]
      BY <2>2
    <3>3. GENESIS_HASH' = GENESIS_HASH /\ written' = written
      BY DEF GENESIS_HASH
    <3>4. \A w \in Writers : Known(last[w]) => Known(last[w])'
      BY <3>1
    <3> QED
      BY <3>2, <3>3, <3>4 DEF HeldIsKnown
  <2> QED
    BY <2>1, <2>2
<1>9. TornMeansQuiet'
  <2>1. CASE \A w \in Writers : at'[w] = "idle"
    BY <2>1 DEF TornMeansQuiet
  <2>2. CASE k < Len(file) /\ Len(file') = k
    <3>1. \A i \in 1 .. k : file[i].event # 0
      BY <1>3, <2>2, FileFacts DEF TornEndsTheFile
    <3> QED
      BY <1>2, <2>2, <3>1 DEF TornMeansQuiet, CutTo
  <2> QED
    BY <2>1, <2>2
<1>10. AcceptedIsDurable'
  <2> SUFFICES ASSUME NEW e \in accepted \ joined
               PROVE  \E i \in Events' : i <= durable' /\ file'[i].event = e
    BY DEF AcceptedIsDurable
  <2>1. PICK i \in Events : i <= durable /\ file[i].event = e
    BY DEF AcceptedIsDurable
  <2>2. i <= k
    BY <1>3, <2>1, FileFacts
  <2>3. i \in Events' /\ file'[i] = file[i]
    BY <1>5, <2>2
  <2> QED
    BY <1>2, <2>1, <2>3
<1>11. JoinedIsNoted'
  <2> SUFFICES ASSUME NEW i \in DOMAIN file', file'[i].joins
               PROVE  i > 1 /\ file'[i - 1].event \in joined /\ (i \in Events' => file'[i].event \in joined)
    BY DEF JoinedIsNoted
  <2>1. i > 1 /\ file[i - 1].event \in joined /\ (i \in Events => file[i].event \in joined)
    BY <1>6 DEF JoinedIsNoted
  <2> QED
    BY <1>5, <1>6, <2>1
<1>12. UnendedIsLine'
  BY DEF UnendedIsLine
<1>13. ParentComesFirst'
  <2> SUFFICES ASSUME NEW i \in Events', file'[i].prev_hash \notin {GENESIS_HASH} \cup joined
               PROVE  \E j \in Events' : j < i /\ file'[j].event = file'[i].prev_hash
    BY DEF ParentComesFirst, GENESIS_HASH
  <2>1. i \in Events /\ i <= k /\ file'[i] = file[i]
    BY <1>5
  <2>2. PICK j \in Events : j < i /\ file[j].event = file[i].prev_hash
    BY <2>1 DEF ParentComesFirst
  <2>3. j \in Events' /\ file'[j] = file[j]
    BY <1>3, <1>5, <2>1, <2>2, FileFacts
  <2> QED
    BY <2>1, <2>2, <2>3
<1> QED
  BY <1>1, <1>7, <1>8, <1>9, <1>10, <1>11, <1>12, <1>13

-----------------------------------------------------------------------------
(* The invariant. *)

\* What writing an event does: those before it stay where they are, and the one
\* whose line it joins is noted with it.
LEMMA WriteFacts ==
    ASSUME EventInv, NEW w \in Writers, WriteLine(w)
    PROVE  LET n == Len(file) + 1 IN
           /\ file' \in Seq(Event)
           /\ Len(file') = n
           /\ \A i \in 1 .. Len(file) : file'[i] = file[i]
           /\ file'[n] = [event |-> written + 1, prev_hash |-> last[w], joins |-> unended]
           /\ DOMAIN file' = 1 .. n
           /\ Events' = Events \cup {n}
           /\ joined \subseteq joined' /\ joined' \subseteq 1 .. MaxEvents
           /\ unended => n > 1 /\ file[n - 1].event \in joined' /\ written + 1 \in joined'
<1> USE DEF EventInv
<1> DEFINE new == [event |-> written + 1, prev_hash |-> last[w], joins |-> unended]
           n == Len(file) + 1
<1>1. /\ new \in Event /\ new.event # 0
      /\ written \in Nat /\ written + 1 \in 1 .. MaxEvents
  BY EventAssumption DEF WriteLine, EventTypeOK, Event
<1>2. file' = Append(file, new)
  BY DEF WriteLine, Appended
<1>3. /\ file \in Seq(Event) /\ Len(file) \in Nat
      /\ DOMAIN file = 1 .. Len(file)
      /\ Last(file) = file[Len(file)]
      /\ Events = {i \in 1 .. Len(file) : file[i].event # 0}
  BY FileFacts DEF EventTypeOK
<1>4. /\ file' \in Seq(Event)
      /\ Len(file') = n
      /\ \A i \in 1 .. Len(file) : file'[i] = file[i]
      /\ file'[n] = new
  <2> HIDE DEF new
  <2> QED
    BY <1>1, <1>2, <1>3, AppendProperties
<1>5. DOMAIN file' = 1 .. n
  BY <1>4, LenProperties
<1>6. Events' = Events \cup {n}
  <2>1. Events' = {i \in 1 .. n : file'[i].event # 0}
    BY <1>5 DEF Events
  <2> HIDE DEF new
  <2> QED
    BY <1>1, <1>3, <1>4, <2>1
<1>7. ASSUME unended
      PROVE  /\ n > 1 /\ Len(file) \in DOMAIN file /\ n - 1 = Len(file)
             /\ joined' = joined \cup {file[Len(file)].event, written + 1}
             /\ file[Len(file)].event \in 1 .. MaxEvents
  <2>1. n > 1 /\ Len(file) \in DOMAIN file /\ n - 1 = Len(file)
    BY <1>3, <1>7 DEF UnendedIsLine
  <2>2. joined' = joined \cup {file[Len(file)].event, written + 1}
    BY <1>3, <1>7 DEF WriteLine
  <2>3. file[Len(file)].event # 0
    BY <2>1 DEF TornMeansQuiet, WriteLine
  <2>4. file[Len(file)] \in Event
    BY <2>1, FileFacts
  <2>5. file[Len(file)].event \in 1 .. MaxEvents
    BY <2>3, <2>4, EventAssumption DEF Event
  <2> QED
    BY <2>1, <2>2, <2>5
<1>8. CASE unended
  <2>1. joined \subseteq joined' /\ joined' \subseteq 1 .. MaxEvents
    BY <1>1, <1>7, <1>8 DEF EventTypeOK
  <2> QED
    BY <1>4, <1>5, <1>6, <1>7, <1>8, <2>1
<1>9. CASE ~unended
  <2>1. joined' = joined
    BY <1>9 DEF WriteLine
  <2>2. joined' \subseteq 1 .. MaxEvents
    BY <1>1, <2>1 DEF EventTypeOK
  <2> QED
    BY <1>4, <1>5, <1>6, <1>9, <2>1, <2>2
<1> QED
  BY <1>8, <1>9

\* Writing an event preserves the invariant.
LEMMA WriteKeepsInv ==
    ASSUME EventInv, NEW w \in Writers, WriteLine(w)
    PROVE  EventInv'
<1> USE DEF EventInv
<1> DEFINE new == [event |-> written + 1, prev_hash |-> last[w], joins |-> unended]
           n == Len(file) + 1
<1>1. /\ file' \in Seq(Event)
      /\ Len(file') = n
      /\ \A i \in 1 .. Len(file) : file'[i] = file[i]
      /\ file'[n] = new
      /\ DOMAIN file' = 1 .. n
      /\ Events' = Events \cup {n}
      /\ joined \subseteq joined' /\ joined' \subseteq 1 .. MaxEvents
      /\ unended => n > 1 /\ file[n - 1].event \in joined' /\ written + 1 \in joined'
  BY WriteFacts
<1>2. /\ Len(file) \in Nat
      /\ DOMAIN file = 1 .. Len(file)
      /\ Events \subseteq 1 .. Len(file)
      /\ \A i \in Events : i \in Events' /\ file'[i] = file[i] /\ i < n
      /\ n \in Events' /\ n \in Nat
  BY <1>1, FileFacts
<1>3. /\ new.event = written + 1
      /\ new.prev_hash = last[w]
      /\ new.joins = unended
  OBVIOUS
<1>5. /\ at[w] = "write"
      /\ written' = written + 1 /\ written \in Nat
      /\ last' = [last EXCEPT ![w] = written + 1]
      /\ at' = [at EXCEPT ![w] = "sync"]
      /\ unended' = FALSE
      /\ UNCHANGED <<durable, accepted>>
  BY DEF WriteLine, EventTypeOK
<1> HIDE DEF new
<1>6. EventTypeOK'
  <2>1. durable' \in 0 .. Len(file')
    BY <1>1, <1>2, <1>5 DEF EventTypeOK
  <2>2. written' \in 0 .. MaxEvents /\ written + 1 \in 0 .. MaxEvents
    BY <1>5, EventAssumption DEF EventTypeOK, WriteLine
  <2>3. accepted' \subseteq 1 .. written' /\ joined' \subseteq 1 .. MaxEvents
    BY <1>1, <1>5 DEF EventTypeOK
  <2> QED
    BY <1>1, <1>5, <2>1, <2>2, <2>3 DEF EventTypeOK
<1>7. \A i \in 1 .. n : file'[i].event # 0
  <2>1. \A i \in 1 .. Len(file) : file[i].event # 0
    BY <1>2, <1>5 DEF TornMeansQuiet
  <2>2. \A i \in 1 .. n : i \in 1 .. Len(file) \/ i = n
    BY <1>2
  <2> QED
    BY <1>1, <1>3, <1>5, <2>1, <2>2
<1>8. TornEndsTheFile' /\ TornMeansQuiet'
  BY <1>1, <1>7 DEF TornEndsTheFile, TornMeansQuiet
<1>9. HeldIsKnown'
  <2> DEFINE After(e) == e \in joined' \/ \E i \in Events' : file'[i].event = e
  <2>0. ASSUME NEW e, Known(e)
        PROVE  After(e)
    <3>1. CASE e \in joined
      BY <1>1, <3>1
    <3>2. CASE \E i \in Events : file[i].event = e
      BY <1>2, <3>2
    <3> QED
      BY <2>0, <3>1, <3>2 DEF Known
  <2>1. After(written + 1)
    <3>1. n \in Events' /\ file'[n].event = written + 1
      BY <1>1, <1>2, <1>3
    <3> QED
      BY <3>1
  <2> HIDE DEF After
  <2> SUFFICES ASSUME NEW v \in Writers
               PROVE  /\ at'[v] = "write" => last'[v] = GENESIS_HASH \/ After(last'[v])
                      /\ at'[v] = "sync" => last'[v] \in 1 .. written' /\ After(last'[v])
    BY DEF HeldIsKnown, GENESIS_HASH, Known, After
  <2>2. CASE v = w
    BY <1>5, <2>1, <2>2 DEF EventTypeOK
  <2>3. CASE v # w
    <3>1. at'[v] = at[v] /\ last'[v] = last[v]
      BY <1>5, <2>3 DEF EventTypeOK
    <3>2. Known(last[v]) => After(last[v])
      BY <2>0
    <3>3. at[v] = "write" => last[v] = GENESIS_HASH \/ After(last[v])
      BY <3>2 DEF HeldIsKnown
    <3>4. at[v] = "sync" => last[v] \in 1 .. written' /\ After(last[v])
      BY <1>5, <3>2 DEF HeldIsKnown
    <3> QED
      BY <3>1, <3>3, <3>4
  <2> QED
    BY <2>2, <2>3
<1>11. AcceptedIsDurable'
  BY <1>1, <1>2, <1>5 DEF AcceptedIsDurable
<1>12. JoinedIsNoted'
  <2> SUFFICES ASSUME NEW i \in 1 .. n, file'[i].joins
               PROVE  i > 1 /\ file'[i - 1].event \in joined' /\ (i \in Events' => file'[i].event \in joined')
    BY <1>1 DEF JoinedIsNoted
  <2>1. CASE i \in 1 .. Len(file)
    <3>1. i > 1 /\ file[i - 1].event \in joined /\ (i \in Events => file[i].event \in joined)
      BY <1>1, <1>2, <2>1 DEF JoinedIsNoted
    <3>2. i - 1 \in 1 .. Len(file) /\ i # n
      BY <1>2, <2>1, <3>1
    <3> QED
      BY <1>1, <2>1, <3>1, <3>2
  <2>2. CASE i = n
    <3>1. n > 1 /\ file[n - 1].event \in joined' /\ written + 1 \in joined'
      BY <1>1, <1>3, <2>2
    <3>2. n - 1 \in 1 .. Len(file)
      BY <1>2, <3>1
    <3>3. file'[n].event = written + 1
      BY <1>1, <1>3
    <3> HIDE DEF n
    <3> QED
      BY <1>1, <2>2, <3>1, <3>2, <3>3
  <2>3. i \in 1 .. Len(file) \/ i = n
    BY <1>2
  <2> QED
    BY <2>1, <2>2, <2>3
<1>13. UnendedIsLine'
  BY <1>5 DEF UnendedIsLine
<1>14. ParentComesFirst'
  <2> SUFFICES ASSUME NEW i \in Events', file'[i].prev_hash \notin {GENESIS_HASH} \cup joined'
               PROVE  \E j \in Events' : j < i /\ file'[j].event = file'[i].prev_hash
    BY DEF ParentComesFirst, GENESIS_HASH
  <2>1. CASE i \in Events
    <3>1. file'[i] = file[i] /\ file[i].prev_hash \notin {GENESIS_HASH} \cup joined
      BY <1>1, <1>2, <2>1
    <3>2. PICK j \in Events : j < i /\ file[j].event = file[i].prev_hash
      BY <2>1, <3>1 DEF ParentComesFirst
    <3> QED
      BY <1>2, <3>1, <3>2
  <2>2. CASE i = n
    <3>1. last[w] # GENESIS_HASH /\ last[w] \notin joined
      BY <1>1, <1>3, <2>2
    <3>2. PICK j \in Events : file[j].event = last[w]
      BY <1>5, <3>1 DEF HeldIsKnown, Known
    <3> QED
      BY <1>1, <1>2, <1>3, <2>2, <3>2
  <2> QED
    BY <1>1, <2>1, <2>2
<1> QED
  BY <1>6, <1>8, <1>9, <1>11, <1>12, <1>13, <1>14

\* The parts of the invariant that speak of the file and of what shared a line
\* stay as they are.
LEMMA FileKept ==
    ASSUME EventInv, UNCHANGED <<file, unended, joined>>
    PROVE  /\ TornEndsTheFile' /\ JoinedIsNoted' /\ UnendedIsLine' /\ ParentComesFirst'
           /\ Events' = Events /\ TailIsBad' = TailIsBad
           /\ \A e : Known(e) => e \in joined' \/ \E i \in Events' : file'[i].event = e
<1>1. Events' = Events /\ file' = file /\ joined' = joined /\ unended' = unended
  BY DEF Events
<1>2. TornEndsTheFile' /\ TailIsBad' = TailIsBad
  BY <1>1 DEF EventInv, TornEndsTheFile, TailIsBad
<1>3. JoinedIsNoted' /\ UnendedIsLine'
  BY <1>1 DEF EventInv, JoinedIsNoted, UnendedIsLine
<1>4. ParentComesFirst'
  BY <1>1 DEF EventInv, ParentComesFirst, GENESIS_HASH
<1> QED
  BY <1>1, <1>2, <1>3, <1>4 DEF Known

\* Every step preserves the invariant.
LEMMA EventInvStep ==
    ASSUME EventInv, [EventNext]_eventVars
    PROVE  EventInv'
<1> USE DEF EventInv
<1>0. ASSUME NEW e, Known(e), UNCHANGED <<file, joined>>
      PROVE  e \in joined' \/ \E i \in Events' : file'[i].event = e
  BY <1>0 DEF Known, Events
<1>1. ASSUME NEW w \in Writers, ReadTail(w)
      PROVE  EventInv'
  <2>1. /\ TornEndsTheFile' /\ JoinedIsNoted' /\ UnendedIsLine' /\ ParentComesFirst'
        /\ Events' = Events /\ TailIsBad' = TailIsBad /\ ~TailIsBad
    BY <1>1, FileKept DEF ReadTail
  <2>2. LastHash \in 0 .. MaxEvents /\ (LastHash = GENESIS_HASH \/ Known(LastHash))
    <3>1. CASE file = <<>>
      BY <3>1, EventAssumption DEF LastHash, GENESIS_HASH
    <3>2. CASE file # <<>>
      <4>1. Len(file) \in Events /\ LastHash = file[Len(file)].event /\ file[Len(file)] \in Event
        BY <2>1, <3>2, FileFacts DEF TailIsBad, LastHash
      <4> QED
        BY <4>1, EventAssumption DEF Event, Known
    <3> QED
      BY <3>1, <3>2
  <2>4. EventTypeOK'
    BY <1>1, <2>2 DEF EventTypeOK, ReadTail
  <2>5. HeldIsKnown'
    <3> SUFFICES ASSUME NEW v \in Writers
                 PROVE  /\ at'[v] = "write" => last'[v] = GENESIS_HASH \/ Known(last'[v])
                        /\ at'[v] = "sync" => last'[v] \in 1 .. written /\ Known(last'[v])
      BY <1>1, <2>1 DEF HeldIsKnown, GENESIS_HASH, Known, ReadTail
    <3>1. CASE v = w
      BY <1>1, <2>2, <3>1 DEF ReadTail, EventTypeOK
    <3>2. CASE v # w
      <4>1. at'[v] = at[v] /\ last'[v] = last[v]
        BY <1>1, <3>2 DEF ReadTail, EventTypeOK
      <4> QED
        BY <4>1 DEF HeldIsKnown
    <3> QED
      BY <3>1, <3>2
  <2>6. TornMeansQuiet'
    <3>1. \A i \in DOMAIN file : file[i].event # 0
      <4> SUFFICES ASSUME NEW i \in DOMAIN file, file[i].event = 0
                   PROVE  FALSE
        OBVIOUS
      <4>1. i = Len(file) /\ Len(file) > 0
        BY FileFacts DEF TornEndsTheFile
      <4> QED
        BY <2>1, <4>1, FileFacts DEF TailIsBad
    <3> QED
      BY <1>1, <3>1 DEF TornMeansQuiet, ReadTail
  <2>7. AcceptedIsDurable'
    BY <1>1, <2>1 DEF AcceptedIsDurable, ReadTail
  <2> QED
    BY <2>1, <2>4, <2>5, <2>6, <2>7
<1>2. ASSUME NEW w \in Writers, WriteLine(w)
      PROVE  EventInv'
  BY <1>2, WriteKeepsInv
<1>3. ASSUME NEW w \in Writers, Sync(w)
      PROVE  EventInv'
  <2>1. /\ TornEndsTheFile' /\ JoinedIsNoted' /\ UnendedIsLine' /\ ParentComesFirst'
        /\ Events' = Events /\ file' = file /\ joined' = joined
    BY <1>3, FileKept DEF Sync
  <2>2. last[w] \in 1 .. written /\ Known(last[w])
    BY <1>3 DEF Sync, HeldIsKnown
  <2>3. EventTypeOK'
    <3>1. durable' \in 0 .. Len(file')
      BY <1>3, FileFacts DEF Sync
    <3>2. accepted' \subseteq 1 .. written'
      BY <1>3, <2>2 DEF EventTypeOK, Sync
    <3>3. at' \in [Writers -> {"idle", "write", "sync"}]
      BY <1>3 DEF EventTypeOK, Sync
    <3> QED
      BY <1>3, <3>1, <3>2, <3>3 DEF EventTypeOK, Sync
  <2>3b. \A v \in Writers : at'[v] = "idle" \/ at'[v] = at[v]
    BY <1>3 DEF Sync, EventTypeOK
  <2>4. HeldIsKnown'
    BY <1>3, <2>1, <2>3b DEF HeldIsKnown, GENESIS_HASH, Sync, Known
  <2>5. TornMeansQuiet'
    BY <2>1, <2>3b DEF TornMeansQuiet
  <2>6. AcceptedIsDurable'
    <3>1. durable' = Len(file) /\ accepted' = accepted \cup {last[w]}
      BY <1>3 DEF Sync
    <3>2. \A e \in accepted' \ joined : \E i \in Events : file[i].event = e
      BY <2>2, <3>1 DEF AcceptedIsDurable, Known
    <3>3. \A i \in Events : i <= durable'
      BY <3>1, FileFacts
    <3> QED
      BY <2>1, <3>2, <3>3 DEF AcceptedIsDurable
  <2> QED
    BY <2>1, <2>3, <2>4, <2>5, <2>6
<1>4. ASSUME NEW w \in Writers, Kill(w)
      PROVE  EventInv'
  <2>1. /\ TornEndsTheFile' /\ JoinedIsNoted' /\ UnendedIsLine' /\ ParentComesFirst'
        /\ Events' = Events /\ file' = file /\ joined' = joined
    BY <1>4, FileKept DEF Kill
  <2>2. EventTypeOK'
    BY <1>4 DEF EventTypeOK, Kill
  <2>3. \A v \in Writers : at'[v] = "idle" \/ at'[v] = at[v]
    BY <1>4 DEF Kill, EventTypeOK
  <2>4. HeldIsKnown'
    BY <1>4, <2>1, <2>3 DEF HeldIsKnown, GENESIS_HASH, Kill, Known
  <2>5. TornMeansQuiet'
    BY <2>1, <2>3 DEF TornMeansQuiet
  <2>6. AcceptedIsDurable'
    BY <1>4, <2>1 DEF AcceptedIsDurable, Kill
  <2> QED
    BY <2>1, <2>2, <2>4, <2>5, <2>6
<1>5. CASE PowerLoss
  <2>1. PICK k \in durable .. Len(file) : CutTo(k)
    BY <1>5, PowerLossCuts
  <2>2. /\ durable' = Len(file') /\ unended' \in BOOLEAN /\ (unended' => Len(file') > 0)
        /\ \A w \in Writers : at'[w] = "idle"
        /\ at' \in [Writers -> {"idle", "write", "sync"}]
        /\ UNCHANGED <<last, written, accepted, joined>>
    BY <1>5, PowerLossCuts DEF PowerLoss
  <2>3. \A i \in Events : ~(i <= durable /\ i > k)
    BY <2>1, FileFacts DEF EventTypeOK
  <2> QED
    BY <2>1, <2>2, <2>3, CutKeepsInv
<1>6. CASE Quarantine
  <2>1. PICK k \in 0 .. Len(file) :
              /\ CutTo(k) /\ k < Len(file) /\ Len(file') = k
              /\ \A i \in Events : i > k => file[i].event \in joined
    BY <1>6, QuarantineCuts
  <2>2. /\ durable' = Len(file') /\ unended' = FALSE
        /\ at' = at /\ at' \in [Writers -> {"idle", "write", "sync"}]
        /\ UNCHANGED <<last, written, accepted, joined>>
    BY <1>6 DEF Quarantine, EventTypeOK
  <2> QED
    BY <2>1, <2>2, CutKeepsInv
<1>7. CASE UNCHANGED eventVars
  <2>1. /\ TornEndsTheFile' /\ JoinedIsNoted' /\ UnendedIsLine' /\ ParentComesFirst'
        /\ Events' = Events /\ file' = file /\ joined' = joined
    BY <1>7, FileKept DEF eventVars
  <2>2. EventTypeOK' /\ AcceptedIsDurable' /\ TornMeansQuiet'
    BY <1>7, <2>1 DEF eventVars, EventTypeOK, AcceptedIsDurable, TornMeansQuiet
  <2>3. HeldIsKnown'
    BY <1>7, <2>1 DEF eventVars, HeldIsKnown, GENESIS_HASH, Known
  <2> QED
    BY <2>1, <2>2, <2>3
<1> QED
  BY <1>1, <1>2, <1>3, <1>4, <1>5, <1>6, <1>7 DEF EventNext

\* The invariant holds of an empty log.
LEMMA EventInvInit == EventInit => EventInv
<1> SUFFICES ASSUME EventInit
             PROVE  EventInv
  OBVIOUS
<1>1. /\ file \in Seq(Event)
      /\ Len(file) = 0
      /\ DOMAIN file = {}
  <2>1. file = <<>>
    BY DEF EventInit
  <2> QED
    BY <2>1, EmptySeq
<1>2. EventTypeOK
  <2>1. unended = FALSE /\ accepted = {} /\ joined = {} /\ durable \in 0 .. Len(file)
    BY <1>1 DEF EventInit
  <2>2. /\ at \in [Writers -> {"idle", "write", "sync"}]
        /\ last \in [Writers -> 0 .. MaxEvents]
        /\ written \in 0 .. MaxEvents
    BY EventAssumption DEF EventInit, GENESIS_HASH
  <2> QED
    BY <1>1, <2>1, <2>2 DEF EventTypeOK
<1>3. Events = {}
  BY <1>1 DEF Events
<1> QED
  BY <1>1, <1>2, <1>3 DEF EventInit, EventInv, TornEndsTheFile, HeldIsKnown,
     TornMeansQuiet, AcceptedIsDurable, JoinedIsNoted, UnendedIsLine, ParentComesFirst

\* The invariant holds of every reachable state of the log.
THEOREM EventInvariant == EventSpec => []EventInv
<1>1. EventInv /\ [EventNext]_eventVars => EventInv'
  BY EventInvStep
<1> QED
  BY EventInvInit, <1>1, PTL DEF EventSpec

\* Types of the log, and no event is accepted before it is written.
THEOREM EventTypes == EventSpec => []EventTypeOK
<1>1. EventInv => EventTypeOK
  BY DEF EventInv
<1> QED
  BY EventInvariant, <1>1, PTL

\* However writers interleave, crash and lose power, and whatever an operator
\* truncates, an event whose append returned stays on a line of its own, unless
\* it was one of two that came to share one behind a lost newline.
THEOREM EventAcceptedIsKept == EventSpec => []AcceptedIsKept
<1>1. EventInv => AcceptedIsKept
  <2> SUFFICES ASSUME EventInv, NEW e \in accepted \ joined
               PROVE  \E i \in Lines : file[i].event = e
    BY DEF AcceptedIsKept
  <2>1. PICK i \in Events : file[i].event = e
    BY DEF EventInv, AcceptedIsDurable
  <2>2. Len(file) \in Nat /\ DOMAIN file = 1 .. Len(file) /\ i \in 1 .. Len(file)
    BY FileFacts DEF EventInv
  <2>3. ~file[i].joins
    BY <2>1, <2>2 DEF EventInv, JoinedIsNoted
  <2>4. ASSUME i < Len(file), file[i + 1].joins
        PROVE  FALSE
    <3>1. PICK j \in DOMAIN file : j = i + 1 /\ j - 1 = i
      BY <2>2, <2>4
    <3>2. file[j - 1].event \in joined
      BY <2>4, <3>1 DEF EventInv, JoinedIsNoted
    <3> QED
      BY <2>1, <3>1, <3>2
  <2> QED
    BY <2>1, <2>3, <2>4 DEF Lines
<1> QED
  BY EventInvariant, <1>1, PTL

\* An event lies behind the one it is chained to, unless that one shared a line.
THEOREM EventParentComesFirst == EventSpec => []ParentComesFirst
<1>1. EventInv => ParentComesFirst
  BY DEF EventInv
<1> QED
  BY EventInvariant, <1>1, PTL

-----------------------------------------------------------------------------
(* One writer at a time: the log is a chain. *)

\* With no other writer, what a writer read is still the last event, and the
\* line it stands on still parses.
ReadIsCurrent == \A w \in Writers : at[w] = "write" => last[w] = LastHash /\ ~TailIsBad

\* A log that only ever one process appends to is a chain, whatever crashes it
\* has had: verify_chain reports no break that nobody made (on a line with two
\* events it stops, like every reader).
THEOREM EventChainVerifies ==
    ASSUME NEW w0, Writers = {w0}
    PROVE  EventSpec => []ChainVerifies
<1> DEFINE ChainInv == EventInv /\ ReadIsCurrent /\ ChainVerifies
<1>1. EventInit => ChainInv
  <2> SUFFICES ASSUME EventInit
               PROVE  ReadIsCurrent /\ ChainVerifies
    BY EventInvInit
  <2>1. Events = {}
    BY EmptySeq DEF EventInit, Events
  <2> QED
    BY <2>1 DEF EventInit, ReadIsCurrent, ChainVerifies
<1>2. ASSUME ChainInv, [EventNext]_eventVars
      PROVE  ChainInv'
  <2>0. EventInv' /\ EventTypeOK
    BY <1>2, EventInvStep DEF EventInv
  <2>1. ASSUME UNCHANGED file
        PROVE  ChainVerifies' /\ LastHash' = LastHash /\ TailIsBad' = TailIsBad
    BY <1>2, <2>1 DEF ChainVerifies, LastHash, Events, TailIsBad, GENESIS_HASH
  <2>2. ASSUME NEW k, CutTo(k), \A w \in Writers : at'[w] # "write"
        PROVE  ReadIsCurrent' /\ ChainVerifies'
    <3>1. /\ DOMAIN file' = 1 .. Len(file')
          /\ Len(file') \in Nat
      BY <2>2, LenProperties DEF CutTo
    <3>2. k \in Nat /\ k <= Len(file)
      BY <2>0, <2>2, FileFacts DEF CutTo
    <3>3. \A i \in Events' : i \in Events /\ \A j \in 1 .. i : file'[j] = file[j]
      <4> SUFFICES ASSUME NEW i \in Events'
                   PROVE  i \in Events /\ \A j \in 1 .. i : file'[j] = file[j]
        OBVIOUS
      <4>1. i \in 1 .. Len(file') /\ file'[i].event # 0
        BY <3>1 DEF Events
      <4>2. i \in 1 .. k
        BY <2>2, <3>2, <4>1 DEF CutTo, Torn
      <4>3. \A j \in 1 .. i : j \in 1 .. k
        BY <3>2, <4>2
      <4>4. \A j \in 1 .. i : file'[j] = file[j]
        BY <2>2, <4>3 DEF CutTo
      <4>5. i \in 1 .. Len(file) /\ file[i] = file'[i]
        BY <2>0, <3>2, <4>2, <4>4, FileFacts
      <4> QED
        BY <2>0, <4>1, <4>4, <4>5, FileFacts
    <3>4. ChainVerifies'
      <4> SUFFICES ASSUME NEW i \in Events'
                   PROVE  file'[i].prev_hash =
                             IF i = 1 THEN GENESIS_HASH ELSE file'[i - 1].event
        BY DEF ChainVerifies, GENESIS_HASH
      <4>1. i \in Events /\ i \in 1 .. Len(file) /\ file'[i] = file[i]
        BY <2>0, <3>3, FileFacts
      <4>2. i # 1 => i - 1 \in 1 .. i
        BY <4>1
      <4>3. i # 1 => file'[i - 1] = file[i - 1]
        BY <3>3, <4>2
      <4> QED
        BY <1>2, <4>1, <4>3 DEF ChainVerifies
    <3> QED
      BY <2>2, <3>4 DEF ReadIsCurrent
  <2>3. ASSUME NEW w \in Writers, ReadTail(w)
        PROVE  ChainInv'
    BY <2>0, <2>1, <2>3 DEF ReadTail, ReadIsCurrent, EventTypeOK
  <2>4. ASSUME NEW w \in Writers, WriteLine(w)
        PROVE  ChainInv'
    <3> DEFINE n == Len(file) + 1
    <3>1. /\ \A i \in 1 .. Len(file) : file'[i] = file[i]
          /\ file'[n].prev_hash = last[w]
          /\ Events' = Events \cup {n}
      BY <1>2, <2>4, WriteFacts
    <3>2. Len(file) \in Nat /\ Events \subseteq 1 .. Len(file)
      BY <2>0, FileFacts
    <3>3. last[w] = LastHash
      BY <1>2, <2>4 DEF ReadIsCurrent, WriteLine
    <3>4. LastHash = IF n = 1 THEN GENESIS_HASH ELSE file[n - 1].event
      BY <2>0, <3>2, FileFacts DEF LastHash
    <3>5. ChainVerifies'
      <4> SUFFICES ASSUME NEW i \in Events'
                   PROVE  file'[i].prev_hash =
                             IF i = 1 THEN GENESIS_HASH ELSE file'[i - 1].event
        BY DEF ChainVerifies, GENESIS_HASH
      <4>1. CASE i \in Events
        BY <1>2, <3>1, <3>2, <4>1 DEF ChainVerifies
      <4>2. CASE i = n
        BY <3>1, <3>2, <3>3, <3>4, <4>2
      <4> QED
        BY <3>1, <4>1, <4>2
    <3>6. ReadIsCurrent'
      <4>1. \A v \in Writers : v = w
        OBVIOUS
      <4> QED
        BY <2>0, <2>4, <4>1 DEF ReadIsCurrent, WriteLine, EventTypeOK
    <3> QED
      BY <2>0, <3>5, <3>6
  <2>5. ASSUME NEW w \in Writers, Sync(w) \/ Kill(w)
        PROVE  ChainInv'
    <3>1. UNCHANGED file /\ \A v \in Writers : at'[v] # "write" \/ at'[v] = at[v]
      BY <2>0, <2>5 DEF Sync, Kill, EventTypeOK
    <3>2. UNCHANGED last
      BY <2>5 DEF Sync, Kill
    <3> QED
      BY <1>2, <2>0, <2>1, <3>1, <3>2 DEF ReadIsCurrent
  <2>6. CASE PowerLoss
    <3>1. PICK k \in durable .. Len(file) : CutTo(k)
      BY <1>2, <2>6, PowerLossCuts
    <3>2. \A w \in Writers : at'[w] # "write"
      BY <2>6 DEF PowerLoss
    <3> QED
      BY <2>0, <2>2, <3>1, <3>2
  <2>7. CASE Quarantine
    <3>1. PICK k \in 0 .. Len(file) : CutTo(k)
      BY <1>2, <2>7, QuarantineCuts
    <3>2. \A w \in Writers : at'[w] # "write"
      BY <1>2, <2>7 DEF Quarantine, ReadIsCurrent
    <3> QED
      BY <2>0, <2>2, <3>1, <3>2
  <2>8. CASE UNCHANGED eventVars
    BY <1>2, <2>0, <2>1, <2>8 DEF eventVars, ReadIsCurrent
  <2> QED
    BY <1>2, <2>3, <2>4, <2>5, <2>6, <2>7, <2>8 DEF EventNext
<1>3. ChainInv => ChainVerifies
  OBVIOUS
<1> QED
  BY <1>1, <1>2, <1>3, PTL DEF EventSpec
=============================================================================
