---------------------------- MODULE StoreProofs ----------------------------
(***************************************************************************)
(* Proofs about the stores that MC_Stores.tla puts side by side: the       *)
(* workflow store, the calendar, users, skills, eval packs, the memory and *)
(* the check of orders - for any number of processes, rows, packs, skills, *)
(* digests and prices.                                                     *)
(*                                                                         *)
(* But for the memory none of these stores takes a lock across its steps,  *)
(* so each argument has the same shape:                                    *)
(* what a process has read and not yet written back is part of the         *)
(* invariant, together with what is true of it as long as nobody else had  *)
(* the store open, which a history variable tells.                         *)
(***************************************************************************)
EXTENDS MC_Stores, FiniteSetTheorems, SequenceTheorems, TLAPS

-----------------------------------------------------------------------------
(* Orders.  The questions of MC_Stores are one instance of the first fact. *)

\* RiskCheck passes only orders that fit, whatever the prices, the size of the
\* order and the value of the portfolio (order.py, RiskCheck).
THEOREM RiskCheckFits ==
    ASSUME NEW o, o.qty \in Nat, o.limit \in Int, o.stop \in Int,
           NEW portfolio \in Int, NEW estimated \in Int
    PROVE  PassedOrdersFit(o, portfolio, estimated, RiskCheck(o, portfolio, estimated))
<1> DEFINE price == Price(o, estimated)
           verdict == RiskCheck(o, portfolio, estimated)
<1>1. price \in Int
  BY DEF Price
<1>2. verdict.passes => price # None
  BY DEF RiskCheck
<1>3. price # None => verdict.notional = price * o.qty
  BY DEF RiskCheck
<1>4. price * o.qty \in Int
  BY <1>1
<1>5. verdict.passes /\ portfolio > 0 => 4 * verdict.notional <= portfolio
  <2> SUFFICES ASSUME verdict.passes, portfolio > 0
               PROVE  4 * verdict.notional <= portfolio
    OBVIOUS
  <2>1. ~HardBlock(price * o.qty, portfolio)
    BY <1>2 DEF RiskCheck
  <2>2. verdict.notional = price * o.qty
    BY <1>2, <1>3
  <2> DEFINE notional == price * o.qty
  <2>3. notional \in Int
    BY <1>4
  <2>4. ~HardBlock(notional, portfolio) /\ verdict.notional = notional
    BY <2>1, <2>2
  <2> HIDE DEF notional, verdict
  <2> QED
    BY <2>3, <2>4 DEF HardBlock
<1>6. verdict.passes /\ ~(portfolio > 0) => verdict.warned
  BY <1>1, <1>2 DEF RiskCheck
<1>7. Truthy(estimated) => price = estimated
  BY DEF Price
<1>8. /\ ~Truthy(estimated) /\ Truthy(o.limit) => price = o.limit
      /\ ~Truthy(estimated) /\ ~Truthy(o.limit) => price = o.stop
  BY DEF Price
<1> HIDE DEF price, verdict
<1> QED
  BY <1>2, <1>3, <1>5, <1>6, <1>7, <1>8 DEF PassedOrdersFit, verdict

\* What a rule is asked about an order is an order.
OrderQuestion == focus = "order" /\ question # <<>> => question \in Orders

LEMMA OrdersAreTyped ==
    ASSUME NEW q \in Orders
    PROVE  /\ q.intent.qty \in Nat /\ q.intent.limit \in Int /\ q.intent.stop \in Int
           /\ q.portfolio \in Int /\ q.estimated \in Int
<1>1. q.intent \in Intent({None, 0, 1, 4})
  BY DEF Orders
<1>2. q.portfolio \in {0, 1, 8, 12, 40} /\ q.estimated \in {None, 0, 2, 3}
  BY DEF Orders
<1>3. q.intent.qty \in 0 .. 3 /\ q.intent.limit \in {None, 0, 1, 4} /\ q.intent.stop \in {None, 0, 1, 4}
  BY <1>1 DEF Intent
<1> QED
  BY <1>2, <1>3 DEF None

\* An order that passes the check fits the portfolio, whatever stores the hub is
\* used for besides (order.py, RiskCheck).
THEOREM OrdersThatPassFitAlways == StoresSpec => []OrdersThatPassFit
<1>1. StoresInit => OrderQuestion
  BY DEF StoresInit, OrderQuestion
<1>2. OrderQuestion /\ [StoresNext]_storeVars => OrderQuestion'
  <2> SUFFICES ASSUME OrderQuestion, [StoresNext]_storeVars
               PROVE  OrderQuestion'
    OBVIOUS
  <2>1. CASE Ask
    BY <2>1 DEF Ask, OrderQuestion
  <2>2. CASE UNCHANGED <<focus, question>>
    BY <2>2 DEF OrderQuestion
  <2> QED
    BY <2>1, <2>2 DEF StoresNext, storeVars
<1>3. OrderQuestion => OrdersThatPassFit
  <2> SUFFICES ASSUME focus = "order", question # <<>>, question \in Orders
               PROVE  PassedOrdersFit(question.intent, question.portfolio, question.estimated,
                                      RiskCheck(question.intent, question.portfolio, question.estimated))
    BY DEF OrderQuestion, OrdersThatPassFit
  <2> QED
    BY OrdersAreTyped, RiskCheckFits
<1> QED
  BY <1>1, <1>2, <1>3, PTL DEF StoresSpec

-----------------------------------------------------------------------------
(* The workflow store. *)

\* The types of the tables and of what kernels have read.
WorkflowShape ==
    /\ state \in WorkflowState
    /\ stepState \in [Steps -> StepState]
    /\ sent \in 0 .. MaxSignals
    /\ consumed \subseteq 1 .. sent
    /\ pos \in [Kernels -> {"idle", "advance", "mark", "return"}]
    /\ batch \in [Kernels -> SUBSET (1 .. sent)]

\* The histories.
WorkflowHistory ==
    /\ deliveries \in [Signals -> Nat]
    /\ overlapped \in BOOLEAN

\* The numbers stay within their bounds because a cursor that was read is at most
\* the number of advances there had been.
CursorBounds ==
    /\ advances \in Nat
    /\ cursor \in 0 .. MaxCalls /\ cursor <= advances
    /\ seenCursor \in [Kernels -> 0 .. MaxCalls]
    /\ \A k \in Kernels : pos[k] = "advance" => seenCursor[k] < MaxCalls /\ seenCursor[k] <= advances

AttemptsAreStarts == attempts \in [Steps -> 0 .. MaxCalls] /\ attempts = starts

\* As long as no two calls overlap.
OneCall == \A k, j \in Kernels : k # j /\ pos[k] # "idle" => pos[j] = "idle"
CursorIsFresh == cursor = advances /\ \A k \in Kernels : pos[k] = "advance" => seenCursor[k] = cursor
OfferedIsNew == \A i \in Signals \ consumed : deliveries[i] = 0
MarkIsNew == \A k \in Kernels : pos[k] = "mark" => batch[k] \cap consumed = {}
ReturnIsNew == \A k \in Kernels : pos[k] = "return" => /\ batch[k] \subseteq consumed
                                                       /\ \A i \in batch[k] : deliveries[i] = 0
AtMostOnce == \A i \in Signals : deliveries[i] <= 1

AloneInv == /\ OneCall /\ CursorIsFresh /\ OfferedIsNew /\ MarkIsNew /\ ReturnIsNew /\ AtMostOnce

WorkflowInv == /\ WorkflowShape /\ WorkflowHistory /\ CursorBounds /\ AttemptsAreStarts
               /\ NoSignalForgotten
               /\ ~overlapped => AloneInv

LEMMA SignalsGrow ==
    ASSUME WorkflowShape, sent' = sent + 1, sent < MaxSignals
    PROVE  1 .. sent \subseteq 1 .. sent' /\ sent' \in 0 .. MaxSignals
  BY WorkflowAssumption DEF WorkflowShape

LEMMA WorkflowInitially == WorkflowInit => WorkflowInv
<1> SUFFICES ASSUME WorkflowInit PROVE WorkflowInv
  OBVIOUS
<1> USE WorkflowAssumption
<1>1. WorkflowShape
  BY DEF WorkflowInit, WorkflowShape, WorkflowState, StepState
<1>2. WorkflowHistory
  BY DEF WorkflowInit, WorkflowHistory
<1>5. CursorBounds
  BY DEF WorkflowInit, CursorBounds
<1>6. AttemptsAreStarts
  BY DEF WorkflowInit, AttemptsAreStarts
<1>3. NoSignalForgotten
  BY DEF WorkflowInit, NoSignalForgotten
<1>4. AloneInv
  BY DEF WorkflowInit, AloneInv, OneCall, CursorIsFresh, OfferedIsNew, MarkIsNew, ReturnIsNew, AtMostOnce
<1> QED
  BY <1>1, <1>2, <1>3, <1>4, <1>5, <1>6 DEF WorkflowInv

LEMMA WorkflowShapeStays == WorkflowInv /\ [WorkflowNext]_workflowVars => WorkflowShape'
<1> SUFFICES ASSUME WorkflowInv, [WorkflowNext]_workflowVars PROVE WorkflowShape'
  OBVIOUS
<1> USE WorkflowAssumption DEF WorkflowInv, WorkflowShape
<1>1. ASSUME NEW s \in WorkflowState, SetState(s) PROVE WorkflowShape'
  BY <1>1 DEF SetState, kernelVars, historyVars, WorkflowState
<1>2. ASSUME NEW step \in Steps, NEW s \in StepState, UpdateStep(step, s) PROVE WorkflowShape'
  BY <1>2 DEF UpdateStep, kernelVars
<1>3. CASE SendSignal
  BY <1>3, SignalsGrow DEF SendSignal, kernelVars, rowVars
<1>4. ASSUME NEW k \in Kernels, ReadCursor(k) PROVE WorkflowShape'
  BY <1>4 DEF ReadCursor, Call, Move, rowVars
<1>5. ASSUME NEW k \in Kernels, WriteCursor(k) PROVE WorkflowShape'
  BY <1>5 DEF WriteCursor, Move, WorkflowState
<1>6. ASSUME NEW k \in Kernels, ReadSignals(k) PROVE WorkflowShape'
  BY <1>6 DEF ReadSignals, Call, Move, rowVars
<1>7. ASSUME NEW k \in Kernels, MarkSignals(k) PROVE WorkflowShape'
  BY <1>7 DEF MarkSignals, Move, rowVars
<1>8. ASSUME NEW k \in Kernels, ReturnSignals(k) PROVE WorkflowShape'
  BY <1>8 DEF ReturnSignals, Move, rowVars
<1>9. ASSUME NEW k \in Kernels, Die(k) PROVE WorkflowShape'
  BY <1>9 DEF Die, Move, rowVars
<1>10. CASE UNCHANGED workflowVars
  BY <1>10 DEF workflowVars, rowVars, kernelVars
<1> QED
  BY <1>1, <1>2, <1>3, <1>4, <1>5, <1>6, <1>7, <1>8, <1>9, <1>10 DEF WorkflowNext

LEMMA WorkflowNumbersStay ==
    WorkflowInv /\ [WorkflowNext]_workflowVars => WorkflowHistory' /\ CursorBounds' /\ AttemptsAreStarts'
<1> SUFFICES ASSUME WorkflowInv, [WorkflowNext]_workflowVars
             PROVE  WorkflowHistory' /\ CursorBounds' /\ AttemptsAreStarts'
  OBVIOUS
<1> USE WorkflowAssumption DEF WorkflowInv, WorkflowHistory, CursorBounds, AttemptsAreStarts
<1>a. pos \in [Kernels -> {"idle", "advance", "mark", "return"}]
  BY DEF WorkflowShape
<1> DEFINE Goal == WorkflowHistory' /\ CursorBounds' /\ AttemptsAreStarts'
<1>1. ASSUME NEW s \in WorkflowState, SetState(s) PROVE Goal
  BY <1>1 DEF SetState, kernelVars, historyVars
<1>2. ASSUME NEW step \in Steps, NEW s \in StepState, UpdateStep(step, s) PROVE Goal
  BY <1>2 DEF UpdateStep, kernelVars
<1>3. CASE SendSignal
  BY <1>3 DEF SendSignal, kernelVars, rowVars, historyVars
<1>4. ASSUME NEW k \in Kernels, ReadCursor(k) PROVE Goal
  <2>1. /\ cursor < MaxCalls /\ seenCursor' = [seenCursor EXCEPT ![k] = cursor]
        /\ pos' = [pos EXCEPT ![k] = "advance"]
    BY <1>4 DEF ReadCursor, Call, Move
  <2>2. CursorBounds'
    BY <1>4, <1>a, <2>1 DEF ReadCursor, rowVars
  <2>3. overlapped' \in BOOLEAN
    BY <1>4 DEF ReadCursor, Call
  <2> QED
    BY <1>4, <2>2, <2>3 DEF ReadCursor, rowVars
<1>5. ASSUME NEW k \in Kernels, WriteCursor(k) PROVE Goal
  BY <1>5, <1>a DEF WriteCursor, Move
<1>6. ASSUME NEW k \in Kernels, ReadSignals(k) PROVE Goal
  <2>1. overlapped' \in BOOLEAN
    BY <1>6 DEF ReadSignals, Call
  <2>2. CursorBounds'
    BY <1>6, <1>a DEF ReadSignals, Call, Move, rowVars
  <2> QED
    BY <1>6, <2>1, <2>2 DEF ReadSignals, rowVars
<1>7. ASSUME NEW k \in Kernels, MarkSignals(k) PROVE Goal
  BY <1>7, <1>a DEF MarkSignals, Move, rowVars, historyVars
<1>8. ASSUME NEW k \in Kernels, ReturnSignals(k) PROVE Goal
  BY <1>8, <1>a DEF ReturnSignals, Move, rowVars
<1>9. ASSUME NEW k \in Kernels, Die(k) PROVE Goal
  BY <1>9, <1>a DEF Die, Move, rowVars
<1>10. CASE UNCHANGED workflowVars
  BY <1>10 DEF workflowVars, rowVars, kernelVars, historyVars
<1> QED
  BY <1>1, <1>2, <1>3, <1>4, <1>5, <1>6, <1>7, <1>8, <1>9, <1>10 DEF WorkflowNext

\* What a step may do to the books of one signal.
LEMMA NoSignalIsForgotten == WorkflowInv /\ [WorkflowNext]_workflowVars => NoSignalForgotten'
<1> SUFFICES ASSUME WorkflowInv, [WorkflowNext]_workflowVars PROVE NoSignalForgotten'
  OBVIOUS
<1> USE DEF WorkflowInv
<1>a. /\ pos \in [Kernels -> {"idle", "advance", "mark", "return"}]
      /\ batch \in [Kernels -> SUBSET (1 .. sent)] /\ consumed \subseteq Signals
      /\ deliveries \in [Signals -> Nat]
  BY WorkflowAssumption DEF WorkflowShape, WorkflowHistory, Signals
<1>1. ASSUME UNCHANGED <<consumed, pos, batch, deliveries, dropped>> PROVE NoSignalForgotten'
  BY <1>1 DEF NoSignalForgotten
<1>2. ASSUME NEW k \in Kernels, pos[k] \in {"idle", "advance"}, pos'[k] # "return",
             \A j \in Kernels : j # k => pos'[j] = pos[j] /\ batch'[j] = batch[j],
             UNCHANGED <<consumed, deliveries, dropped>>
      PROVE  NoSignalForgotten'
  BY <1>2 DEF NoSignalForgotten
<1>3. ASSUME NEW k \in Kernels, ReadCursor(k) \/ WriteCursor(k) \/ ReadSignals(k) PROVE NoSignalForgotten'
  BY <1>2, <1>3, <1>a DEF ReadCursor, WriteCursor, ReadSignals, Call, Move
<1>4. ASSUME NEW k \in Kernels, MarkSignals(k) PROVE NoSignalForgotten'
  BY <1>4, <1>a DEF MarkSignals, Move, NoSignalForgotten, historyVars
<1>5. ASSUME NEW k \in Kernels, ReturnSignals(k) PROVE NoSignalForgotten'
  <2> SUFFICES ASSUME NEW i \in consumed
               PROVE  deliveries'[i] > 0 \/ (\E j \in Kernels : pos'[j] = "return" /\ i \in batch'[j]) \/ i \in dropped
    BY <1>5 DEF ReturnSignals, NoSignalForgotten
  <2>1. deliveries'[i] = IF i \in batch[k] THEN deliveries[i] + 1 ELSE deliveries[i]
    BY <1>5, <1>a DEF ReturnSignals
  <2>2. CASE i \in batch[k]
    BY <1>a, <2>1, <2>2
  <2>3. CASE i \notin batch[k]
    BY <1>5, <1>a, <2>1, <2>3 DEF ReturnSignals, Move, NoSignalForgotten
  <2> QED
    BY <2>2, <2>3
<1>6. ASSUME NEW k \in Kernels, Die(k) PROVE NoSignalForgotten'
  BY <1>6, <1>a DEF Die, Move, NoSignalForgotten
<1>7. CASE UNCHANGED workflowVars \/ SendSignal \/ (\E s \in WorkflowState : SetState(s))
           \/ \E step \in Steps, s \in StepState : UpdateStep(step, s)
  BY <1>1, <1>7 DEF workflowVars, kernelVars, historyVars, SendSignal, SetState, UpdateStep
<1> QED
  BY <1>3, <1>4, <1>5, <1>6, <1>7 DEF WorkflowNext

\* While no two calls overlap, what a kernel has read is what the tables hold.
LEMMA AloneStays == WorkflowInv /\ [WorkflowNext]_workflowVars => (~overlapped' => AloneInv')
<1> SUFFICES ASSUME WorkflowInv, [WorkflowNext]_workflowVars, ~overlapped' PROVE AloneInv'
  OBVIOUS
<1>a. /\ pos \in [Kernels -> {"idle", "advance", "mark", "return"}]
      /\ batch \in [Kernels -> SUBSET (1 .. sent)] /\ consumed \subseteq Signals
      /\ deliveries \in [Signals -> Nat] /\ overlapped \in BOOLEAN
      /\ seenCursor \in [Kernels -> 0 .. MaxCalls] /\ cursor \in 0 .. MaxCalls /\ advances \in Nat
      /\ \A k \in Kernels : batch[k] \subseteq Signals
      /\ 1 .. sent \subseteq Signals
  BY WorkflowAssumption DEF WorkflowInv, WorkflowShape, WorkflowHistory, CursorBounds, Signals
<1>b. ASSUME ~overlapped
      PROVE  OneCall /\ CursorIsFresh /\ OfferedIsNew /\ MarkIsNew /\ ReturnIsNew /\ AtMostOnce
  BY <1>b DEF WorkflowInv, AloneInv
<1> USE DEF OneCall, CursorIsFresh, OfferedIsNew, MarkIsNew, ReturnIsNew, AtMostOnce, AloneInv
<1>1. ASSUME UNCHANGED <<cursor, advances, consumed, pos, seenCursor, batch, deliveries, overlapped>> PROVE AloneInv'
  BY <1>1, <1>b
<1>2. ASSUME NEW k \in Kernels, ReadCursor(k) PROVE AloneInv'
  <2>1. ~overlapped /\ \A j \in Kernels : pos[j] = "idle"
    BY <1>2, <1>a DEF ReadCursor, Call
  <2> QED
    BY <1>2, <1>a, <1>b, <2>1 DEF ReadCursor, Call, Move, rowVars
<1>3. ASSUME NEW k \in Kernels, WriteCursor(k) PROVE AloneInv'
  <2>1. ~overlapped /\ pos[k] = "advance"
    BY <1>3 DEF WriteCursor, Move
  <2>2. \A j \in Kernels : j # k => pos[j] = "idle"
    BY <1>b, <2>1
  <2> QED
    BY <1>3, <1>a, <1>b, <2>1, <2>2 DEF WriteCursor, Move
<1>4. ASSUME NEW k \in Kernels, ReadSignals(k) PROVE AloneInv'
  <2>1. ~overlapped /\ \A j \in Kernels : pos[j] = "idle"
    BY <1>4, <1>a DEF ReadSignals, Call
  <2> QED
    BY <1>4, <1>a, <1>b, <2>1 DEF ReadSignals, Call, Move, rowVars
<1>5. ASSUME NEW k \in Kernels, MarkSignals(k) PROVE AloneInv'
  <2>1. ~overlapped /\ pos[k] = "mark"
    BY <1>5 DEF MarkSignals, Move, historyVars
  <2>2. \A j \in Kernels : j # k => pos[j] = "idle"
    BY <1>b, <2>1
  <2> QED
    BY <1>5, <1>a, <1>b, <2>1, <2>2 DEF MarkSignals, Move, rowVars, historyVars
<1>6. ASSUME NEW k \in Kernels, ReturnSignals(k) PROVE AloneInv'
  <2>1. ~overlapped /\ pos[k] = "return"
    BY <1>6 DEF ReturnSignals, Move
  <2>2. \A j \in Kernels : j # k => pos[j] = "idle"
    BY <1>b, <2>1
  <2>3. \A i \in Signals : deliveries'[i] = IF i \in batch[k] THEN deliveries[i] + 1 ELSE deliveries[i]
    BY <1>6 DEF ReturnSignals
  <2>4. \A i \in batch[k] : deliveries[i] = 0 /\ i \in consumed
    BY <1>b, <2>1
  <2>5. AtMostOnce' /\ OfferedIsNew'
    BY <1>6, <1>a, <1>b, <2>1, <2>3, <2>4 DEF ReturnSignals
  <2>6. OneCall' /\ CursorIsFresh' /\ MarkIsNew' /\ ReturnIsNew'
    BY <1>6, <1>a, <1>b, <2>1, <2>2 DEF ReturnSignals, Move, rowVars
  <2> QED
    BY <2>5, <2>6
<1>7. ASSUME NEW k \in Kernels, Die(k) PROVE AloneInv'
  BY <1>7, <1>a, <1>b DEF Die, Move, rowVars
<1>8. CASE UNCHANGED workflowVars \/ SendSignal \/ (\E s \in WorkflowState : SetState(s))
           \/ \E step \in Steps, s \in StepState : UpdateStep(step, s)
  BY <1>1, <1>8 DEF workflowVars, rowVars, kernelVars, historyVars, SendSignal, SetState, UpdateStep
<1> QED
  BY <1>2, <1>3, <1>4, <1>5, <1>6, <1>7, <1>8 DEF WorkflowNext

\* The tables, what the kernels have read of them and the histories, whatever
\* calls overlap and whoever dies in between.
THEOREM WorkflowInvariant == WorkflowSpec => []WorkflowInv
<1>1. WorkflowInv /\ [WorkflowNext]_workflowVars => WorkflowInv'
  BY WorkflowShapeStays, WorkflowNumbersStay, NoSignalIsForgotten, AloneStays DEF WorkflowInv
<1> QED
  BY <1>1, WorkflowInitially, PTL DEF WorkflowSpec

\* The type invariant of the store.
THEOREM WorkflowTypesHold == WorkflowSpec => []WorkflowTypeOK
<1>1. WorkflowInv => WorkflowTypeOK
  BY DEF WorkflowInv, WorkflowTypeOK, WorkflowShape, CursorBounds, AttemptsAreStarts
<1> QED
  BY <1>1, WorkflowInvariant, PTL

\* A signal that is no longer offered was returned, is about to be returned, or was
\* lost with the kernel that consumed it (workflow.py, consume_signals).
THEOREM NoSignalForgottenAlways == WorkflowSpec => []NoSignalForgotten
<1>1. WorkflowInv => NoSignalForgotten
  BY DEF WorkflowInv
<1> QED
  BY <1>1, WorkflowInvariant, PTL

\* Kernels that take turns count every advance and get every signal once, whoever
\* of them dies (workflow.py, advance_cursor and consume_signals).
THEOREM ExactWhenAloneAlways == WorkflowSpec => []ExactWhenAlone
<1>1. WorkflowInv => ExactWhenAlone
  BY DEF WorkflowInv, AloneInv, CursorIsFresh, AtMostOnce, ExactWhenAlone
<1> QED
  BY <1>1, WorkflowInvariant, PTL

-----------------------------------------------------------------------------
(* The calendar. *)

CalCall == [todo : Seq(Entry), known : SUBSET Uids, open : BOOLEAN, body : Seq(Entry)]

CalTypes ==
    /\ monthFiles \in [Months -> Seq(Entry)]
    /\ call \in [CalendarClients -> CalCall]
    /\ kept \subseteq Entry /\ raced \subseteq Months

OpenHasEntry == \A c \in CalendarClients : call[c].open => call[c].todo # <<>>

\* What a command has read of a month is the month, unless the month was raced for.
BodyIsMonth == \A c \in CalendarClients, m \in Months :
                  Open(c, m) /\ m \notin raced => call[c].body = monthFiles[m]
OneHasMonth == \A c, d \in CalendarClients, m \in Months : Open(c, m) /\ Open(d, m) /\ c # d => m \in raced
KeptIsInMonth == \A e \in kept : e.month \notin raced => e \in Range(monthFiles[e.month])

CalInv == CalTypes /\ OpenHasEntry /\ BodyIsMonth /\ OneHasMonth /\ KeptIsInMonth

LEMMA RangeOfAppend ==
    ASSUME NEW S, NEW s \in Seq(S), NEW e
    PROVE  Range(Append(s, e)) = Range(s) \cup {e}
<1>1. /\ Len(s) \in Nat /\ DOMAIN s = 1 .. Len(s) /\ DOMAIN Append(s, e) = 1 .. (Len(s) + 1)
      /\ \A i \in 1 .. Len(s) : Append(s, e)[i] = s[i]
      /\ Append(s, e)[Len(s) + 1] = e
  OBVIOUS
<1>2. ASSUME NEW x \in Range(Append(s, e)) PROVE x \in Range(s) \cup {e}
  BY <1>1, <1>2 DEF Range
<1>3. ASSUME NEW x \in Range(s) PROVE x \in Range(Append(s, e))
  BY <1>1, <1>3 DEF Range
<1>4. e \in Range(Append(s, e))
  BY <1>1 DEF Range
<1> QED
  BY <1>2, <1>3, <1>4

LEMMA PrefixesAreSequences ==
    ASSUME NEW S, NEW s \in Seq(S), NEW p \in Prefixes(s)
    PROVE  p \in Seq(S)
<1>1. PICK l \in 0 .. Len(s) : p = SubSeq(s, 1, l)
  BY DEF Prefixes
<1> QED
  BY <1>1, SubSeqProperties

\* What is left to do stays a sequence of entries.
LEMMA TodoIsTyped ==
    ASSUME CalTypes, NEW c \in CalendarClients, ~Idle(c)
    PROVE  /\ Next1(c) \in Entry /\ Next1(c).month \in Months
           /\ Tail(call[c].todo) \in Seq(Entry)
           /\ Append(call[c].body, Next1(c)) \in Seq(Entry)
<1>1. call[c].todo \in Seq(Entry) /\ call[c].body \in Seq(Entry) /\ call[c].todo # <<>>
  BY DEF CalTypes, CalCall, Idle
<1>2. Next1(c) \in Entry
  BY <1>1 DEF Next1
<1> QED
  BY <1>1, <1>2 DEF Entry

LEMMA CalInitially == CalInit => CalInv
<1> SUFFICES ASSUME CalInit PROVE CalInv
  OBVIOUS
<1>1. NoCall \in CalCall
  BY DEF NoCall, CalCall
<1>2. CalTypes
  BY <1>1 DEF CalInit, CalTypes
<1> QED
  BY <1>2 DEF CalInit, CalInv, OpenHasEntry, BodyIsMonth, OneHasMonth, KeptIsInMonth, Open, NoCall

\* A command that begins, or ends without writing.
LEMMA CalCallChanges ==
    ASSUME CalInv, NEW c \in CalendarClients, NEW row \in CalCall, ~row.open,
           call' = [call EXCEPT ![c] = row], UNCHANGED <<monthFiles, kept, raced>>
    PROVE  CalInv'
<1> USE DEF CalInv
<1>1. \A d \in CalendarClients : call'[d] = IF d = c THEN row ELSE call[d]
  BY DEF CalTypes
<1>2. CalTypes'
  BY DEF CalTypes
<1>3. OpenHasEntry'
  BY <1>1 DEF OpenHasEntry
<1>4. \A d \in CalendarClients, m \in Months : Open(d, m)' => Open(d, m) /\ d # c
  BY <1>1 DEF Open, Idle, Next1
<1>5. BodyIsMonth' /\ OneHasMonth'
  BY <1>1, <1>4 DEF BodyIsMonth, OneHasMonth
<1>6. KeptIsInMonth'
  BY DEF KeptIsInMonth
<1> QED
  BY <1>2, <1>3, <1>5, <1>6

LEMMA CalBegins ==
    ASSUME CalInv, NEW c \in CalendarClients, NEW todo \in Seq(Entry), NEW known \in SUBSET Uids,
           Begin(c, todo, known)
    PROVE  CalInv'
<1> DEFINE row == [NoCall EXCEPT !.todo = todo, !.known = known]
<1>1. NoCall \in CalCall /\ ~NoCall.open
  BY DEF NoCall, CalCall
<1>2. row \in CalCall /\ row.open = NoCall.open
  BY <1>1 DEF CalCall
<1> QED
  BY <1>1, <1>2, CalCallChanges DEF Begin

LEMMA ListedAreUids == CalTypes => Listed \in SUBSET Uids
<1> SUFFICES ASSUME CalTypes PROVE Listed \subseteq Uids
  OBVIOUS
<1>1. ASSUME NEW m \in Months, NEW e \in Range(monthFiles[m]) PROVE e.uid \in Uids
  <2>1. monthFiles[m] \in Seq(Entry)
    BY DEF CalTypes
  <2>2. e \in Entry
    BY <1>1, <2>1 DEF Range
  <2> QED
    BY <2>2 DEF Entry
<1> QED
  BY <1>1 DEF Listed, ListEvents

LEMMA CalReads == ASSUME CalInv, NEW c \in CalendarClients, ReadMonth(c) PROVE CalInv'
<1> USE DEF CalInv
<1> DEFINE m == Next1(c).month
           row == [call[c] EXCEPT !.open = TRUE, !.body = monthFiles[m]]
<1>1. ~Idle(c) /\ ~call[c].open /\ UNCHANGED <<monthFiles, kept>>
  BY DEF ReadMonth
<1>2. m \in Months /\ monthFiles[m] \in Seq(Entry) /\ call[c] \in CalCall
  BY <1>1, TodoIsTyped DEF CalTypes
<1>3. row \in CalCall /\ row.open /\ row.todo = call[c].todo /\ row.body = monthFiles[m]
  BY <1>2 DEF CalCall
<1>4. call' = [call EXCEPT ![c] = row]
  BY DEF ReadMonth
<1>5. raced' = IF \E d \in CalendarClients : Open(d, m) THEN raced \cup {m} ELSE raced
  BY DEF ReadMonth
<1> HIDE DEF row
<1>6. \A d \in CalendarClients : call'[d] = IF d = c THEN row ELSE call[d]
  BY <1>4 DEF CalTypes
<1>7. CalTypes'
  BY <1>1, <1>2, <1>3, <1>4, <1>5 DEF CalTypes
<1>8. OpenHasEntry'
  BY <1>1, <1>3, <1>6 DEF OpenHasEntry, Idle
<1>9. \A d \in CalendarClients : d # c => \A n \in Months : Open(d, n)' <=> Open(d, n)
  BY <1>6 DEF Open, Idle, Next1
<1>10. \A n \in Months : Open(c, n)' => n = m
  BY <1>3, <1>6 DEF Open, Next1
<1>11. raced \subseteq raced' /\ \A d \in CalendarClients : Open(d, m) => m \in raced'
  BY <1>5
<1>12. BodyIsMonth'
  BY <1>1, <1>3, <1>6, <1>9, <1>10, <1>11 DEF BodyIsMonth
<1>13. OneHasMonth'
  <2> SUFFICES ASSUME NEW a \in CalendarClients, NEW b \in CalendarClients, NEW n \in Months,
                      Open(a, n)', Open(b, n)', a # b
               PROVE  n \in raced'
    BY DEF OneHasMonth
  <2>1. CASE a # c /\ b # c
    BY <1>9, <1>11, <2>1 DEF OneHasMonth
  <2>2. CASE a = c
    BY <1>9, <1>10, <1>11, <2>2
  <2>3. CASE b = c
    BY <1>9, <1>10, <1>11, <2>3
  <2> QED
    BY <2>1, <2>2, <2>3
<1>14. KeptIsInMonth'
  BY <1>1, <1>11 DEF KeptIsInMonth
<1> QED
  BY <1>7, <1>8, <1>12, <1>13, <1>14

LEMMA CalWrites == ASSUME CalInv, NEW c \in CalendarClients, WriteMonth(c) PROVE CalInv'
<1> USE DEF CalInv
<1> DEFINE e == Next1(c)
           m == e.month
           row == [call[c] EXCEPT !.todo = Tail(@), !.open = FALSE, !.body = <<>>]
           text == Append(call[c].body, e)
<1>1. ~Idle(c) /\ call[c].open /\ raced' = raced /\ kept' = kept \cup {e}
  BY DEF WriteMonth
<1>2. e \in Entry /\ m \in Months /\ text \in Seq(Entry) /\ call[c] \in CalCall /\ Tail(call[c].todo) \in Seq(Entry)
  BY <1>1, TodoIsTyped DEF CalTypes
<1>a. <<>> \in Seq(Entry)
  OBVIOUS
<1>3. row \in CalCall /\ ~row.open
  BY <1>2, <1>a DEF CalCall
<1>4. call' = [call EXCEPT ![c] = row] /\ monthFiles' = [monthFiles EXCEPT ![m] = text]
  BY DEF WriteMonth
<1>5. Range(text) = Range(call[c].body) \cup {e}
  BY <1>2, RangeOfAppend DEF CalCall
<1>6. Open(c, m)
  BY <1>1 DEF Open
<1>7. \A n \in Months : monthFiles'[n] = IF n = m THEN text ELSE monthFiles[n]
  BY <1>4 DEF CalTypes
<1>8. CalTypes'
  BY <1>1, <1>2, <1>3, <1>4 DEF CalTypes
<1> HIDE DEF row, text, e, m
<1>9. \A d \in CalendarClients : call'[d] = IF d = c THEN row ELSE call[d]
  BY <1>4 DEF CalTypes
<1>10. OpenHasEntry'
  BY <1>3, <1>9 DEF OpenHasEntry
<1>11. \A d \in CalendarClients, n \in Months : Open(d, n)' => Open(d, n) /\ d # c
  BY <1>3, <1>9 DEF Open, Idle, Next1
<1>12. OneHasMonth'
  BY <1>1, <1>11 DEF OneHasMonth
<1>13. BodyIsMonth'
  <2> SUFFICES ASSUME NEW d \in CalendarClients, NEW n \in Months, Open(d, n)', n \notin raced'
               PROVE  call'[d].body = monthFiles'[n]
    BY DEF BodyIsMonth
  <2>1. d # c /\ Open(d, n) /\ n \notin raced
    BY <1>1, <1>11
  <2>2. n # m
    BY <1>6, <2>1 DEF OneHasMonth
  <2> QED
    BY <1>7, <1>9, <2>1, <2>2 DEF BodyIsMonth
<1>14. KeptIsInMonth'
  <2> SUFFICES ASSUME NEW x \in kept', x.month \notin raced'
               PROVE  x \in Range(monthFiles'[x.month])
    BY DEF KeptIsInMonth
  <2>1. x.month \in Months
    BY <1>8 DEF CalTypes, Entry
  <2>2. CASE x = e
    BY <1>5, <1>7, <2>1, <2>2 DEF m
  <2>3. CASE x # e /\ x.month = m
    <3>1. x \in kept /\ x \in Range(monthFiles[m])
      BY <1>1, <2>3 DEF KeptIsInMonth
    <3>2. call[c].body = monthFiles[m]
      BY <1>1, <1>2, <1>6, <2>3 DEF BodyIsMonth
    <3> QED
      BY <1>5, <1>7, <2>1, <2>3, <3>1, <3>2
  <2>4. CASE x # e /\ x.month # m
    BY <1>1, <1>7, <2>1, <2>4 DEF KeptIsInMonth
  <2> QED
    BY <2>2, <2>3, <2>4
<1> QED
  BY <1>8, <1>10, <1>12, <1>13, <1>14

LEMMA CalWriterDies ==
    ASSUME CalInv, NEW c \in CalendarClients, ~Idle(c),
           NEW prefix \in Prefixes(Append(call[c].body, Next1(c))),
           monthFiles' = [monthFiles EXCEPT ![Next1(c).month] = prefix],
           raced' = raced \cup {Next1(c).month},
           call' = [call EXCEPT ![c] = NoCall], UNCHANGED kept
    PROVE  CalInv'
<1> USE DEF CalInv
<1> DEFINE m == Next1(c).month
<1>1. m \in Months /\ prefix \in Seq(Entry)
  BY TodoIsTyped, PrefixesAreSequences
<1>2. NoCall \in CalCall /\ ~NoCall.open
  BY DEF NoCall, CalCall
<1>3. \A n \in Months : monthFiles'[n] = IF n = m THEN prefix ELSE monthFiles[n]
  BY DEF CalTypes
<1>4. CalTypes'
  BY <1>1, <1>2 DEF CalTypes
<1>5. \A d \in CalendarClients : call'[d] = IF d = c THEN NoCall ELSE call[d]
  BY DEF CalTypes
<1>6. \A d \in CalendarClients, n \in Months : Open(d, n)' => Open(d, n) /\ d # c
  BY <1>2, <1>5 DEF Open, Idle, Next1
<1>7. OpenHasEntry' /\ OneHasMonth'
  BY <1>2, <1>5, <1>6 DEF OpenHasEntry, OneHasMonth
<1>8. BodyIsMonth'
  BY <1>3, <1>5, <1>6 DEF BodyIsMonth
<1>9. KeptIsInMonth'
  <2>1. \A x \in kept : x.month \in Months
    BY DEF CalTypes, Entry
  <2> QED
    BY <1>3, <2>1 DEF KeptIsInMonth
<1> QED
  BY <1>4, <1>7, <1>8, <1>9

\* The files of the months, what commands have read of them and what they have
\* finished writing, whatever commands run at a time and die.
THEOREM CalendarInvariant == CalSpec => []CalInv
<1>1. CalInv /\ [CalNext]_calVars => CalInv'
  <2> SUFFICES ASSUME CalInv, [CalNext]_calVars PROVE CalInv'
    OBVIOUS
  <2>1. ASSUME NEW c \in CalendarClients, AddEvent(c) PROVE CalInv'
    <3>1. PICK e \in Entry : Begin(c, <<e>>, {})
      BY <2>1 DEF AddEvent
    <3>2. <<e>> \in Seq(Entry) /\ {} \in SUBSET Uids
      OBVIOUS
    <3> QED
      BY <3>1, <3>2, CalBegins
  <2>2. ASSUME NEW c \in CalendarClients, ImportIcs(c) PROVE CalInv'
    <3>1. PICK body \in Bodies : Begin(c, body, Listed)
      BY <2>2 DEF ImportIcs
    <3>2. body \in Seq(Entry) /\ Listed \in SUBSET Uids
      BY CalendarAssumption, ListedAreUids DEF Entry, CalInv
    <3> QED
      BY <3>1, <3>2, CalBegins
  <2>3. NoCall \in CalCall /\ ~NoCall.open
    BY DEF NoCall, CalCall
  <2>4. ASSUME NEW c \in CalendarClients, Refuse(c) PROVE CalInv'
    BY <2>3, <2>4, CalCallChanges DEF Refuse
  <2>5. ASSUME NEW c \in CalendarClients, CalendarDies(c) PROVE CalInv'
    <3>1. CASE UNCHANGED <<monthFiles, raced>>
      BY <2>3, <2>5, <3>1, CalCallChanges DEF CalendarDies
    <3>2. CASE ~(UNCHANGED <<monthFiles, raced>>)
      BY <2>5, <3>2, CalWriterDies DEF CalendarDies
    <3> QED
      BY <3>1, <3>2
  <2>6. CASE UNCHANGED calVars
    BY <2>6 DEF calVars, CalInv, CalTypes, OpenHasEntry, BodyIsMonth, OneHasMonth, KeptIsInMonth, Open, Idle, Next1
  <2> QED
    BY <2>1, <2>2, <2>4, <2>5, <2>6, CalReads, CalWrites DEF CalNext
<1> QED
  BY <1>1, CalInitially, PTL DEF CalSpec

\* An event that a command has finished writing is listed from then on, unless two
\* commands had the file of its month open at a time or one died writing it
\* (scheduling/calendar.py, add_event and import_ics).
THEOREM AppointmentsStayAlways == CalSpec => []AppointmentsStay
<1>1. CalInv => AppointmentsStay
  <2> SUFFICES ASSUME CalInv, NEW e \in kept, e.month \notin raced PROVE e \in ListEvents
    BY DEF AppointmentsStay
  <2>1. e.month \in Months /\ e \in Range(monthFiles[e.month])
    BY DEF CalInv, CalTypes, KeptIsInMonth, Entry
  <2> QED
    BY <2>1 DEF ListEvents
<1> QED
  BY <1>1, CalendarInvariant, PTL

-----------------------------------------------------------------------------
(* Users.  The two inserts come after a query that another process may have *)
(* made stale; what holds is what the schema and the order of statements   *)
(* make hold: handles are unique, and nobody takes a row away again.       *)

AnyHandle == Handles \cup {DefaultHandle}
UserRow == [handle : AnyHandle, status : {"active", "pending", "disabled"}, persona : {"short", "long"}]

UsersShape == /\ users \in Seq(UserRow)
              /\ opened = [p \in Processes |-> opened[p]]
HandlesAreUnique == \A i, j \in DOMAIN users : users[i].handle = users[j].handle => i = j
DefaultUserIsThere == GetByHandle(DefaultHandle) # {}

\* What a process has got from the store so far.
OpenedInv == \A p \in Processes : /\ Within(p, "open") => DefaultUserIsThere
                                  /\ Within(p, "enroll") => opened[p].handle \in AnyHandle
                                  /\ Within(p, "resolved") => opened[p].user # {}

PeopleInv == UsersShape /\ HandlesAreUnique /\ OpenedInv

LEMMA PeopleInitially == PeopleInit => PeopleInv
<1> SUFFICES ASSUME PeopleInit PROVE PeopleInv
  OBVIOUS
<1>1. users = <<>> /\ opened = [p \in Processes |-> [at |-> "closed"]]
  BY DEF PeopleInit
<1>2. \A p \in Processes : opened[p].at = "closed"
  BY <1>1
<1>3. UsersShape /\ HandlesAreUnique
  BY <1>1 DEF UsersShape, HandlesAreUnique
<1> QED
  BY <1>2, <1>3 DEF PeopleInv, OpenedInv, Within

\* A process goes on to a place for which it has what it takes; rows may change
\* their status and blocks, and a row may be added at the end.
LEMMA PeopleGoOn ==
    ASSUME PeopleInv, NEW p \in Processes, NEW place, GoTo(p, place),
           users' \in Seq(UserRow), DOMAIN users \subseteq DOMAIN users',
           \A i \in DOMAIN users : users'[i].handle = users[i].handle,
           HandlesAreUnique',
           place.at = "open" => DefaultUserIsThere',
           place.at = "enroll" => place.handle \in AnyHandle,
           place.at = "resolved" => place.user # {}
    PROVE  PeopleInv'
<1>1. \A q \in Processes : opened'[q] = IF q = p THEN place ELSE opened[q]
  BY DEF GoTo, PeopleInv, UsersShape
<1>2. UsersShape'
  BY DEF GoTo, UsersShape, PeopleInv
<1>3. DefaultUserIsThere => DefaultUserIsThere'
  BY DEF DefaultUserIsThere, GetByHandle
<1>4. OpenedInv'
  BY <1>1, <1>3 DEF PeopleInv, OpenedInv, Within
<1> QED
  BY <1>2, <1>4 DEF PeopleInv

\* A process moves and the table stays.
LEMMA PeopleLook ==
    ASSUME PeopleInv, NEW p \in Processes, NEW place, GoTo(p, place), UNCHANGED users,
           place.at = "open" => DefaultUserIsThere,
           place.at = "enroll" => place.handle \in AnyHandle,
           place.at = "resolved" => place.user # {}
    PROVE  PeopleInv'
<1>1. users \in Seq(UserRow) /\ HandlesAreUnique
  BY DEF PeopleInv, UsersShape
<1>2. HandlesAreUnique' /\ (DefaultUserIsThere => DefaultUserIsThere')
  BY <1>1 DEF HandlesAreUnique, DefaultUserIsThere, GetByHandle
<1> QED
  BY <1>1, <1>2, PeopleGoOn

LEMMA PeopleInsert ==
    ASSUME PeopleInv, NEW p \in Processes, NEW row \in UserRow, NEW next, Insert(p, row, next),
           next.at \in {"open", "closed"}, next.at = "open" => row.handle = DefaultHandle
    PROVE  PeopleInv'
<1>1. users \in Seq(UserRow) /\ HandlesAreUnique
  BY DEF PeopleInv, UsersShape
<1>2. CASE GetByHandle(row.handle) = {} /\ users' = Append(users, row) /\ GoTo(p, next)
  <2>1. /\ Len(users) \in Nat /\ DOMAIN users = 1 .. Len(users)
        /\ users' \in Seq(UserRow) /\ DOMAIN users' = 1 .. (Len(users) + 1)
        /\ \A i \in 1 .. Len(users) : users'[i] = users[i]
        /\ users'[Len(users) + 1] = row
    BY <1>1, <1>2
  <2>2. \A i \in DOMAIN users : users[i].handle # row.handle
    BY <1>2 DEF GetByHandle
  <2>3. HandlesAreUnique'
    BY <1>1, <2>1, <2>2 DEF HandlesAreUnique
  <2>4. row.handle = DefaultHandle => DefaultUserIsThere'
    <3>1. Len(users) + 1 \in DOMAIN users'
      BY <2>1
    <3> QED
      BY <2>1, <3>1 DEF DefaultUserIsThere, GetByHandle
  <2> QED
    BY <1>2, <2>1, <2>3, <2>4, PeopleGoOn
<1>3. CASE GetByHandle(row.handle) # {} /\ UNCHANGED users /\ GoTo(p, [at |-> "closed"])
  BY <1>3, PeopleLook
<1> QED
  BY <1>2, <1>3 DEF Insert

LEMMA PeopleUpdate ==
    ASSUME PeopleInv, NEW p \in Processes, NEW i \in DOMAIN users, NEW row \in UserRow,
           row.handle = users[i].handle, users' = [users EXCEPT ![i] = row],
           GoTo(p, [at |-> "closed"])
    PROVE  PeopleInv'
<1>1. users \in Seq(UserRow) /\ HandlesAreUnique
  BY DEF PeopleInv, UsersShape
<1>2. /\ users' \in Seq(UserRow) /\ DOMAIN users' = DOMAIN users
      /\ \A j \in DOMAIN users : users'[j] = IF j = i THEN row ELSE users[j]
  BY <1>1
<1>3. \A j \in DOMAIN users : users'[j].handle = users[j].handle
  BY <1>2
<1>4. HandlesAreUnique'
  BY <1>1, <1>2, <1>3 DEF HandlesAreUnique
<1> QED
  BY <1>2, <1>3, <1>4, PeopleGoOn

LEMMA PeopleInvIsOfUsers == PeopleInv /\ UNCHANGED <<users, opened>> => PeopleInv'
  BY DEF PeopleInv, UsersShape, HandlesAreUnique, OpenedInv, DefaultUserIsThere, GetByHandle, Within

LEMMA UsersStep == ASSUME PeopleInv, UsersNext PROVE PeopleInv'
<1>a. \A i \in DOMAIN users : users[i] \in UserRow
  BY DEF PeopleInv, UsersShape
<1>1. ASSUME NEW p \in Processes, OpenUsers(p) PROVE PeopleInv'
  <2> DEFINE place == [at |-> IF GetByHandle(DefaultHandle) = {} THEN "seed" ELSE "open"]
  <2>1. GoTo(p, place) /\ UNCHANGED users
    BY <1>1 DEF OpenUsers
  <2>2. place.at \in {"seed", "open"} /\ (place.at = "open" => DefaultUserIsThere)
    BY DEF DefaultUserIsThere
  <2> HIDE DEF place
  <2> QED
    BY <2>1, <2>2, PeopleLook
<1>2. ASSUME NEW p \in Processes, EnsureDefaultUser(p) PROVE PeopleInv'
  <2>1. User(DefaultHandle, "active") \in UserRow /\ User(DefaultHandle, "active").handle = DefaultHandle
    BY DEF User, UserRow, AnyHandle
  <2> QED
    BY <1>2, <2>1, PeopleInsert DEF EnsureDefaultUser
<1>3. ASSUME NEW p \in Processes, Enroll(p) PROVE PeopleInv'
  <2>1. PICK h \in Handles :
           GoTo(p, IF GetByHandle(h) = {} THEN [at |-> "enroll", handle |-> h] ELSE [at |-> "closed"])
    BY <1>3 DEF Enroll
  <2>2. UNCHANGED users /\ h \in AnyHandle
    BY <1>3 DEF Enroll, AnyHandle
  <2>3. CASE GetByHandle(h) = {}
    <3>1. GoTo(p, [at |-> "enroll", handle |-> h])
      BY <2>1, <2>3
    <3> QED
      BY <2>2, <3>1, PeopleLook
  <2>4. CASE GetByHandle(h) # {}
    <3>1. GoTo(p, [at |-> "closed"])
      BY <2>1, <2>4
    <3> QED
      BY <2>2, <3>1, PeopleLook
  <2> QED
    BY <2>3, <2>4
<1>4. ASSUME NEW p \in Processes, InsertUser(p) PROVE PeopleInv'
  <2>1. User(opened[p].handle, "pending") \in UserRow
    BY <1>4 DEF InsertUser, PeopleInv, OpenedInv, User, UserRow
  <2> QED
    BY <1>4, <2>1, PeopleInsert DEF InsertUser
<1>5. ASSUME NEW p \in Processes, UpdateUserStatus(p) PROVE PeopleInv'
  <2>1. PICK i \in DOMAIN users, s \in {"active", "disabled"} : users' = [users EXCEPT ![i].status = s]
    BY <1>5 DEF UpdateUserStatus
  <2> DEFINE row == [users[i] EXCEPT !.status = s]
  <2>2. users[i] \in UserRow
    BY <1>a
  <2>3. row \in UserRow /\ row.handle = users[i].handle
    BY <2>2 DEF UserRow
  <2>4. users' = [users EXCEPT ![i] = row]
    BY <2>1
  <2> HIDE DEF row
  <2> QED
    BY <1>5, <2>3, <2>4, PeopleUpdate DEF UpdateUserStatus
<1>6. ASSUME NEW p \in Processes, SetPersonaBlock(p) PROVE PeopleInv'
  <2>1. PICK i \in DOMAIN users, block \in {"short", "long", "too long"} :
           users' = IF block = "too long" THEN users ELSE [users EXCEPT ![i].persona = block]
    BY <1>6 DEF SetPersonaBlock
  <2>2. GoTo(p, [at |-> "closed"])
    BY <1>6 DEF SetPersonaBlock
  <2>3. CASE block = "too long"
    BY <2>1, <2>2, <2>3, PeopleLook
  <2>4. CASE block # "too long"
    <3> DEFINE row == [users[i] EXCEPT !.persona = block]
    <3>1. users[i] \in UserRow
      BY <1>a
    <3>2. row \in UserRow /\ row.handle = users[i].handle
      BY <2>4, <3>1 DEF UserRow
    <3>3. users' = [users EXCEPT ![i] = row]
      BY <2>1, <2>4
    <3> HIDE DEF row
    <3> QED
      BY <2>2, <3>2, <3>3, PeopleUpdate
  <2> QED
    BY <2>3, <2>4
<1>7. ASSUME NEW p \in Processes, ResolveDefault(p) PROVE PeopleInv'
  <2>1. GetByHandle(DefaultHandle) # {}
    BY <1>7 DEF ResolveDefault, PeopleInv, OpenedInv, DefaultUserIsThere
  <2> DEFINE place == [at |-> "resolved", user |-> GetByHandle(DefaultHandle)]
  <2>2. place.at = "resolved" /\ place.user # {} /\ GoTo(p, place) /\ UNCHANGED users
    BY <1>7, <2>1 DEF ResolveDefault
  <2> HIDE DEF place
  <2> QED
    BY <2>2, PeopleLook
<1>8. ASSUME NEW p \in Processes, CloseUsers(p) PROVE PeopleInv'
  BY <1>8, PeopleLook DEF CloseUsers
<1> QED
  BY <1>1, <1>2, <1>3, <1>4, <1>5, <1>6, <1>7, <1>8 DEF UsersNext

\* The table of users and what the processes have got from it, whoever opens the
\* store and enrolls at a time.
THEOREM UsersInvariant == PeopleSpec => []PeopleInv
<1>1. PeopleInv /\ [PeopleNext]_peopleVars => PeopleInv'
  <2>1. PeopleTablesNext \/ LinesNext \/ UNCHANGED peopleVars => UNCHANGED <<users, opened>>
    BY DEF PeopleTablesNext, LinesNext, peopleVars, AddTask, UpdateTaskStatus, CreateProject, AdvanceState,
           AttachPlan, AddSubtask, LinkWorkerTask, ProjectsUnchanged, NewMonth, AppendRecall, WatchCreate
  <2> QED
    BY <2>1, UsersStep, PeopleInvIsOfUsers DEF PeopleNext
<1> QED
  BY <1>1, PeopleInitially, PTL DEF PeopleSpec

\* A handle names one user, and who opens the store and names nobody gets the
\* default user (users/profile.py, enroll, resolve and _ensure_default_user).
THEOREM HandleNamesOneUserAlways == PeopleSpec => []HandleNamesOneUser
<1>1. PeopleInv => HandleNamesOneUser
  BY DEF PeopleInv, HandlesAreUnique, OpenedInv, HandleNamesOneUser
<1> QED
  BY <1>1, UsersInvariant, PTL

-----------------------------------------------------------------------------
(* Skills. *)

Carded(some) == {s \in SkillIds : some[s].there}

\* As long as no two commands have had the registry open and none died writing it,
\* one command at most has it open, and what that command is about to write has
\* everything the registry has.
OneHasRegistry == \A c, d \in Clients : c # d /\ HasOpen(c) => ~HasOpen(d)
RegistryIsWhole == registry.text = "whole" /\ listed \subseteq DOMAIN registry.specs
NothingIsLost ==
    \A c \in Clients : job[c].do \in {"write", "sync write"} => DOMAIN registry.specs \subseteq DOMAIN job[c].specs
WriteListsSkill == \A c \in Clients : Doing(c, "write") => job[c].skill \in DOMAIN job[c].specs

\* What a sync has scanned and merged covers the cards it saw.
ScanCoversCards ==
    \A c \in Clients : /\ Doing(c, "read") => Carded(job[c].cards) \subseteq DOMAIN job[c].scanned
                       /\ Doing(c, "sync write") => Carded(job[c].cards) \subseteq DOMAIN job[c].specs

AloneWithRegistry == /\ OneHasRegistry /\ RegistryIsWhole /\ NothingIsLost /\ WriteListsSkill
                     /\ synced => OrphanCards = {}

SkillsShape == /\ job = [c \in Clients |-> job[c]]
               /\ spoiled \in BOOLEAN /\ synced \in BOOLEAN

SkillsInv == SkillsShape /\ ScanCoversCards /\ (~spoiled => AloneWithRegistry)

LEMMA SkillsInitially == SkillsInit => SkillsInv
<1> SUFFICES ASSUME SkillsInit PROVE SkillsInv
  OBVIOUS
<1>1. \A c \in Clients : job[c].do = "nothing"
  BY DEF SkillsInit, NoJob
<1>2. SkillsShape
  BY DEF SkillsInit, SkillsShape
<1>3. ScanCoversCards /\ OneHasRegistry /\ NothingIsLost /\ WriteListsSkill
  BY <1>1 DEF ScanCoversCards, OneHasRegistry, NothingIsLost, WriteListsSkill, HasOpen, Doing
<1>4. RegistryIsWhole /\ ~synced
  BY DEF SkillsInit, RegistryIsWhole
<1> QED
  BY <1>2, <1>3, <1>4 DEF SkillsInv, AloneWithRegistry

LEMMA NoOrphans == OrphanCards = {} <=> Carded(cards) \subseteq DOMAIN registry.specs
  BY DEF OrphanCards, Carded

\* The job of one client changes.
LEMMA JobsOf ==
    ASSUME SkillsShape, NEW c \in Clients, NEW next, Go(c, next)
    PROVE  /\ \A d \in Clients : job'[d] = IF d = c THEN next ELSE job[d]
           /\ job' = [d \in Clients |-> job'[d]]
  BY DEF SkillsShape, Go

\* A command goes on without having the registry open, and the registry stays;
\* a card may be written.
LEMMA GoesOnClosed ==
    ASSUME SkillsInv, NEW c \in Clients, NEW next, Go(c, next),
           next.do \in {"nothing", "scan", "read"},
           next.do = "read" => Carded(next.cards) \subseteq DOMAIN next.scanned,
           UNCHANGED <<registry, listed, spoiled>>,
           UNCHANGED <<cards, synced>> \/ synced' = FALSE
    PROVE  SkillsInv'
<1>1. \A d \in Clients : job'[d] = IF d = c THEN next ELSE job[d]
  BY JobsOf DEF SkillsInv
<1>2. SkillsShape'
  BY JobsOf DEF SkillsInv, SkillsShape
<1>3. ScanCoversCards'
  BY <1>1 DEF SkillsInv, ScanCoversCards, Doing
<1>4. ASSUME ~spoiled PROVE AloneWithRegistry'
  <2>1. OneHasRegistry /\ RegistryIsWhole /\ NothingIsLost /\ WriteListsSkill /\ (synced => OrphanCards = {})
    BY <1>4 DEF SkillsInv, AloneWithRegistry
  <2>2. OneHasRegistry'
    BY <1>1, <2>1 DEF OneHasRegistry, HasOpen
  <2>3. NothingIsLost' /\ WriteListsSkill'
    BY <1>1, <2>1 DEF NothingIsLost, WriteListsSkill, Doing
  <2>4. RegistryIsWhole'
    BY <2>1 DEF RegistryIsWhole
  <2>5. synced' => OrphanCards' = {}
    BY <2>1 DEF OrphanCards
  <2> QED
    BY <2>2, <2>3, <2>4, <2>5 DEF AloneWithRegistry
<1> QED
  BY <1>2, <1>3, <1>4 DEF SkillsInv

\* A command opens the registry, or reads it again having it open.
LEMMA GoesOnOpen ==
    ASSUME SkillsInv, NEW c \in Clients, NEW next, Go(c, next),
           next.do \in {"write", "reload", "sync write"},
           next.do \in {"write", "sync write"} /\ registry.text = "whole" => DOMAIN registry.specs \subseteq DOMAIN next.specs,
           next.do = "write" => next.skill \in DOMAIN next.specs,
           next.do = "sync write" => Carded(next.cards) \subseteq DOMAIN next.specs,
           UNCHANGED <<registry, listed, cards, synced>>,
           (HasOpen(c) /\ UNCHANGED spoiled) \/ Opens(c)
    PROVE  SkillsInv'
<1>1. \A d \in Clients : job'[d] = IF d = c THEN next ELSE job[d]
  BY JobsOf DEF SkillsInv
<1>2. SkillsShape'
  BY JobsOf DEF SkillsInv, SkillsShape, Opens
<1>3. ScanCoversCards'
  BY <1>1 DEF SkillsInv, ScanCoversCards, Doing
<1>4. ASSUME ~spoiled' PROVE AloneWithRegistry'
  <2>1. ~spoiled
    BY <1>4 DEF Opens
  <2>2. OneHasRegistry /\ RegistryIsWhole /\ NothingIsLost /\ WriteListsSkill /\ (synced => OrphanCards = {})
    BY <2>1 DEF SkillsInv, AloneWithRegistry
  <2>3. \A d \in Clients \ {c} : ~HasOpen(d)
    BY <1>4, <2>2 DEF Opens, OneHasRegistry
  <2>4. OneHasRegistry'
    BY <1>1, <2>3 DEF OneHasRegistry, HasOpen
  <2>5. NothingIsLost' /\ WriteListsSkill'
    BY <1>1, <2>2 DEF NothingIsLost, WriteListsSkill, Doing, RegistryIsWhole
  <2>6. RegistryIsWhole' /\ (synced' => OrphanCards' = {})
    BY <2>2 DEF RegistryIsWhole, OrphanCards
  <2> QED
    BY <2>4, <2>5, <2>6 DEF AloneWithRegistry
<1> QED
  BY <1>2, <1>3, <1>4 DEF SkillsInv

\* A command writes what it has read and merged, and is through.
LEMMA WritesBack ==
    ASSUME SkillsInv, NEW c \in Clients, Go(c, NoJob),
           job[c].do \in {"write", "sync write"},
           registry' = [text |-> "whole", specs |-> job[c].specs],
           listed' = listed \/ (Doing(c, "write") /\ listed' = listed \cup {job[c].skill}),
           UNCHANGED <<spoiled, cards>>,
           synced' \in BOOLEAN,
           synced' => synced \/ (Doing(c, "sync write") /\ job[c].cards = cards)
    PROVE  SkillsInv'
<1>1. \A d \in Clients : job'[d] = IF d = c THEN NoJob ELSE job[d]
  BY JobsOf DEF SkillsInv
<1>a. NoJob.do = "nothing" /\ registry'.text = "whole" /\ registry'.specs = job[c].specs
  BY DEF NoJob
<1>2. SkillsShape'
  BY JobsOf DEF SkillsInv, SkillsShape
<1>3. ScanCoversCards'
  BY <1>1, <1>a DEF SkillsInv, ScanCoversCards, Doing
<1>4. ASSUME ~spoiled PROVE AloneWithRegistry'
  <2>2. OneHasRegistry /\ RegistryIsWhole /\ NothingIsLost /\ WriteListsSkill /\ (synced => OrphanCards = {})
    BY <1>4 DEF SkillsInv, AloneWithRegistry
  <2>3. \A d \in Clients \ {c} : ~HasOpen(d)
    BY <2>2 DEF HasOpen, OneHasRegistry
  <2>4. OneHasRegistry'
    BY <1>1, <1>a, <2>3 DEF OneHasRegistry, HasOpen
  <2>5. \A d \in Clients : job'[d].do \notin {"write", "sync write"}
    BY <1>1, <1>a, <2>3 DEF HasOpen
  <2>6. NothingIsLost' /\ WriteListsSkill'
    BY <2>5 DEF NothingIsLost, WriteListsSkill, Doing
  <2>7. DOMAIN registry.specs \subseteq DOMAIN registry'.specs
    BY <1>a, <2>2 DEF NothingIsLost
  <2>8. RegistryIsWhole'
    BY <1>a, <2>2, <2>7 DEF RegistryIsWhole, WriteListsSkill
  <2>9. synced => Carded(cards) \subseteq DOMAIN registry.specs
    BY <2>2, NoOrphans
  <2>10. Doing(c, "sync write") /\ job[c].cards = cards => Carded(cards) \subseteq DOMAIN registry'.specs
    BY <1>a DEF SkillsInv, ScanCoversCards
  <2>a. synced' => Carded(cards) \subseteq DOMAIN registry'.specs
    BY <2>7, <2>9, <2>10
  <2>11. synced' => OrphanCards' = {}
    BY <2>a DEF OrphanCards, Carded
  <2> QED
    BY <2>4, <2>6, <2>8, <2>11 DEF AloneWithRegistry
<1> QED
  BY <1>2, <1>3, <1>4 DEF SkillsInv

LEMMA SkillsStep == ASSUME SkillsInv, SkillsNext PROVE SkillsInv'
<1>1. CASE EditCard \/ MaterialiseOne
  <2>1. synced' = FALSE /\ UNCHANGED <<job, spoiled, registry, listed>>
    BY <1>1 DEF EditCard, MaterialiseOne, WriteCard, RegistryUnchanged
  <2> QED
    BY <2>1 DEF SkillsInv, SkillsShape, ScanCoversCards, AloneWithRegistry, OneHasRegistry, RegistryIsWhole,
                NothingIsLost, WriteListsSkill, HasOpen, Doing
<1>2. ASSUME NEW c \in Clients, Upsert(c) PROVE SkillsInv'
  <2>1. PICK s \in SkillIds, status \in {"draft", "active"} :
           Go(c, [do |-> "write", skill |-> s, specs |-> Put(s, Spec(status, "registered"), registry.specs)])
    BY <1>2 DEF Upsert
  <2> DEFINE next == [do |-> "write", skill |-> s, specs |-> Put(s, Spec(status, "registered"), registry.specs)]
  <2>2. next.do = "write" /\ next.skill \in DOMAIN next.specs /\ DOMAIN registry.specs \subseteq DOMAIN next.specs
    BY DEF Put
  <2>3. Go(c, next) /\ Opens(c) /\ UNCHANGED <<registry, listed, cards, synced>>
    BY <1>2, <2>1 DEF Upsert, CardsUnchanged, RegistryUnchanged
  <2> HIDE DEF next
  <2> QED
    BY <2>2, <2>3, GoesOnOpen
<1>3. ASSUME NEW c \in Clients, Disable(c) PROVE SkillsInv'
  <2>1. PICK s \in SkillIds :
           Go(c, [do |-> "reload", skill |-> s, spec |-> Spec("disabled", registry.specs[s].meta)])
    BY <1>3 DEF Disable
  <2> DEFINE next == [do |-> "reload", skill |-> s, spec |-> Spec("disabled", registry.specs[s].meta)]
  <2>2. next.do = "reload"
    OBVIOUS
  <2>3. Go(c, next) /\ Opens(c) /\ UNCHANGED <<registry, listed, cards, synced>>
    BY <1>3, <2>1 DEF Disable, CardsUnchanged, RegistryUnchanged
  <2> HIDE DEF next
  <2> QED
    BY <2>2, <2>3, GoesOnOpen
<1>4. ASSUME NEW c \in Clients, Reload(c) PROVE SkillsInv'
  <2>1. HasOpen(c) /\ UNCHANGED <<registry, listed, cards, synced, spoiled>>
    BY <1>4 DEF Reload, CardsUnchanged, RegistryUnchanged, HasOpen, Doing
  <2>2. CASE LoadAll
    <3> DEFINE next == [do |-> "write", skill |-> job[c].skill, specs |-> Put(job[c].skill, job[c].spec, registry.specs)]
    <3>1. next.do = "write" /\ next.skill \in DOMAIN next.specs /\ DOMAIN registry.specs \subseteq DOMAIN next.specs
      BY DEF Put
    <3>2. Go(c, next)
      BY <1>4, <2>2 DEF Reload
    <3> HIDE DEF next
    <3> QED
      BY <2>1, <3>1, <3>2, GoesOnOpen
  <2>3. CASE ~LoadAll
    <3>1. Go(c, NoJob) /\ NoJob.do = "nothing"
      BY <1>4, <2>3 DEF Reload, NoJob
    <3> QED
      BY <2>1, <3>1, GoesOnClosed
  <2> QED
    BY <2>2, <2>3
<1>5. ASSUME NEW c \in Clients, SaveAll(c) PROVE SkillsInv'
  <2>1. UNCHANGED <<cards, synced, spoiled>> /\ synced \in BOOLEAN
    BY <1>5 DEF SaveAll, CardsUnchanged, SkillsInv, SkillsShape
  <2>2. /\ synced' \in BOOLEAN /\ UNCHANGED <<spoiled, cards>>
        /\ synced' => synced \/ (Doing(c, "sync write") /\ job[c].cards = cards)
    BY <2>1
  <2>3. Doing(c, "write") /\ job[c].do = "write" /\ listed' = listed \cup {job[c].skill}
        /\ registry' = [text |-> "whole", specs |-> job[c].specs] /\ Go(c, NoJob)
    BY <1>5 DEF SaveAll, Doing
  <2>4. /\ job[c].do \in {"write", "sync write"}
        /\ listed' = listed \/ (Doing(c, "write") /\ listed' = listed \cup {job[c].skill})
    BY <2>3
  <2> QED
    BY <2>2, <2>3, <2>4, WritesBack
<1>6. ASSUME NEW c \in Clients, CompileSkillMd(c) PROVE SkillsInv'
  <2>1. Go(c, [do |-> "scan"]) /\ synced' = FALSE /\ UNCHANGED <<registry, listed, spoiled>>
    BY <1>6 DEF CompileSkillMd, WriteCard, RegistryUnchanged
  <2> QED
    BY <2>1, GoesOnClosed
<1>7. ASSUME NEW c \in Clients, SyncSkills(c) PROVE SkillsInv'
  <2>1. Go(c, [do |-> "scan"]) /\ UNCHANGED <<registry, listed, spoiled, cards, synced>>
    BY <1>7 DEF SyncSkills, CardsUnchanged, RegistryUnchanged
  <2> QED
    BY <2>1, GoesOnClosed
<1>8. ASSUME NEW c \in Clients, MdSpecs(c) PROVE SkillsInv'
  <2> DEFINE found == [do |-> "read", scanned |-> [s \in Carded(cards) |-> SpecFromMd(cards[s])], cards |-> cards]
  <2>1. UNCHANGED <<registry, listed, spoiled, cards, synced>>
    BY <1>8 DEF MdSpecs, CardsUnchanged, RegistryUnchanged
  <2>2. Go(c, found) \/ Go(c, NoJob)
    BY <1>8 DEF MdSpecs, Carded
  <2>3. found.do = "read" /\ Carded(found.cards) \subseteq DOMAIN found.scanned /\ NoJob.do = "nothing"
    BY DEF NoJob
  <2> HIDE DEF found
  <2> QED
    BY <2>1, <2>2, <2>3, GoesOnClosed
<1>9. ASSUME NEW c \in Clients, RegistrySpecs(c) PROVE SkillsInv'
  <2>1. UNCHANGED <<registry, listed, cards, synced>> /\ Doing(c, "read")
    BY <1>9 DEF RegistrySpecs, CardsUnchanged, RegistryUnchanged
  <2>2. CASE registry.text = "cut"
    <3>1. Go(c, NoJob) /\ UNCHANGED spoiled /\ NoJob.do = "nothing"
      BY <1>9, <2>2 DEF RegistrySpecs, NoJob
    <3> QED
      BY <2>1, <3>1, GoesOnClosed
  <2>3. CASE registry.text # "cut"
    <3> DEFINE specs == IF registry.text = "empty" THEN NoSpecs ELSE registry.specs
               next == [do |-> "sync write", cards |-> job[c].cards, specs |-> Merge(job[c].scanned, specs)]
    <3>1. Go(c, next) /\ Opens(c)
      BY <1>9, <2>3 DEF RegistrySpecs
    <3>2. DOMAIN Merge(job[c].scanned, specs) = DOMAIN job[c].scanned \cup DOMAIN specs
      BY DEF Merge
    <3>3. Carded(job[c].cards) \subseteq DOMAIN job[c].scanned
      BY <2>1 DEF SkillsInv, ScanCoversCards
    <3>4. registry.text = "whole" => specs = registry.specs
      OBVIOUS
    <3> HIDE DEF specs
    <3>5. next.do = "sync write" /\ Carded(next.cards) \subseteq DOMAIN next.specs
          /\ (registry.text = "whole" => DOMAIN registry.specs \subseteq DOMAIN next.specs)
      BY <3>2, <3>3, <3>4
    <3> HIDE DEF next
    <3> QED
      BY <2>1, <3>1, <3>5, GoesOnOpen
  <2> QED
    BY <2>2, <2>3
<1>10. ASSUME NEW c \in Clients, WriteRegistry(c) PROVE SkillsInv'
  <2>1. synced' = (job[c].cards = cards)
    BY <1>10 DEF WriteRegistry
  <2>2. synced' \in BOOLEAN /\ (synced' => job[c].cards = cards)
    BY <2>1
  <2> QED
    BY <1>10, <2>2, WritesBack DEF WriteRegistry, Doing
<1>11. ASSUME NEW c \in Clients, SkillClientDies(c) PROVE SkillsInv'
  <2>1. Go(c, NoJob) /\ NoJob.do = "nothing" /\ UNCHANGED <<listed, cards, synced>>
    BY <1>11 DEF SkillClientDies, CardsUnchanged, NoJob
  <2>2. CASE UNCHANGED <<registry, spoiled>>
    BY <2>1, <2>2, GoesOnClosed
  <2>3. CASE spoiled' = TRUE
    <3>1. \A d \in Clients : job'[d] = IF d = c THEN NoJob ELSE job[d]
      BY <2>1, JobsOf DEF SkillsInv
    <3>2. SkillsShape'
      BY <2>1, <2>3, JobsOf DEF SkillsInv, SkillsShape
    <3>3. ScanCoversCards'
      BY <2>1, <3>1 DEF SkillsInv, ScanCoversCards, Doing
    <3> QED
      BY <2>3, <3>2, <3>3 DEF SkillsInv
  <2> QED
    BY <1>11, <2>2, <2>3 DEF SkillClientDies
<1> QED
  BY <1>1, <1>2, <1>3, <1>4, <1>5, <1>6, <1>7, <1>8, <1>9, <1>10, <1>11 DEF SkillsNext

\* The registry, the cards and what commands have read of both, whatever commands
\* run at a time and die.
THEOREM SkillsInvariant == SkillsSpec => []SkillsInv
<1>1. SkillsInv /\ UNCHANGED skillVars => SkillsInv'
  <2> SUFFICES ASSUME SkillsInv, UNCHANGED skillVars PROVE SkillsInv'
    OBVIOUS
  <2>1. UNCHANGED <<cards, registry, job, listed, synced, spoiled>>
    BY DEF skillVars
  <2>2. SkillsShape' /\ ScanCoversCards'
    BY <2>1 DEF SkillsInv, SkillsShape, ScanCoversCards, Doing
  <2>3. ASSUME ~spoiled PROVE AloneWithRegistry'
    BY <2>1, <2>3 DEF SkillsInv, AloneWithRegistry, OneHasRegistry, RegistryIsWhole, NothingIsLost, WriteListsSkill,
                      HasOpen, Doing, OrphanCards
  <2> QED
    BY <2>1, <2>2, <2>3 DEF SkillsInv
<1>2. SkillsInv /\ [SkillsNext]_skillVars => SkillsInv'
  BY <1>1, SkillsStep
<1> QED
  BY <1>2, SkillsInitially, PTL DEF SkillsSpec

\* A skill that was registered stays registered, and after a sync no card is
\* without an entry, unless two commands had the registry open at a time or one
\* died writing it (skills.py, upsert; skill_sync.py, sync_skills).
THEOREM SkillsStayListedAlways == SkillsSpec => []SkillsStayListed
<1>1. SkillsInv => SkillsStayListed
  BY DEF SkillsInv, AloneWithRegistry, RegistryIsWhole, SkillsStayListed
<1> QED
  BY <1>1, SkillsInvariant, PTL

-----------------------------------------------------------------------------
(* Eval packs. *)

Counts == [Classes -> Nat]

\* Counts of a pack are backed when the file of the pack has that many cases.
Backed(counts, p) == \A k \in Classes : counts[k] <= CasesOf(p, k)
IndexTable == UNION {[some -> Counts] : some \in SUBSET PackSet}
IndexRows(table) == table \in IndexTable /\ \A p \in DOMAIN table : Backed(table[p], p)

Places == {"get", "touch", "manifest", "read index", "write index", "append"}
ScriptRow == [at : Places, packs : Seq(PackSet), todo : Seq(Classes), counts : Counts, seen : IndexTable]

\* What a script has read, and what it has counted of the pack it is at: nothing
\* counts before the pack is made, and every line is written before it is counted.
ScriptOK(row) ==
    \/ row = NoScript
    \/ /\ row \in ScriptRow /\ row.packs # <<>> /\ IndexRows(row.seen)
       /\ row.at \in {"manifest", "read index", "write index", "append"} => Backed(row.counts, Head(row.packs))
       /\ row.at = "append" => row.todo # <<>>

SeedOK == seed \in [PackSet -> [there : BOOLEAN, lines : Seq(Classes)]]
ManifestOK == /\ manifest \in [PackSet -> [text : {"none", "whole", "cut"}, counts : Counts]]
              /\ \A p \in PackSet : manifest[p].text = "whole" => Backed(manifest[p].counts, p)
IndexOK == IndexRows(index.counts)
ScriptsOK == script = [c \in Scripts |-> script[c]] /\ \A c \in Scripts : ScriptOK(script[c])

PacksInv == SeedOK /\ ManifestOK /\ IndexOK /\ ScriptsOK

LEMMA LinesAreCounted ==
    ASSUME NEW lines \in Seq(Classes), NEW k
    PROVE  /\ IsFiniteSet({i \in DOMAIN lines : lines[i] = k})
           /\ Cardinality({i \in DOMAIN lines : lines[i] = k}) \in Nat
<1> DEFINE found == {i \in DOMAIN lines : lines[i] = k}
<1>1. Len(lines) \in Nat /\ DOMAIN lines = 1 .. Len(lines)
  OBVIOUS
<1>2. IsFiniteSet(DOMAIN lines)
  BY <1>1, FS_Interval
<1>3. IsFiniteSet(found)
  BY <1>2, FS_Subset
<1> QED
  BY <1>3, FS_CardinalityType

LEMMA CasesAreCounted == ASSUME SeedOK, NEW p \in PackSet, NEW k PROVE CasesOf(p, k) \in Nat
<1>1. seed[p].lines \in Seq(Classes)
  BY DEF SeedOK
<1> QED
  BY <1>1, LinesAreCounted DEF CasesOf

\* A line more: one case more of its class, and no case less of any.
LEMMA LineMore ==
    ASSUME SeedOK, NEW p \in PackSet, NEW case \in Classes,
           seed' = [seed EXCEPT ![p].lines = Append(@, case)]
    PROVE  /\ SeedOK'
           /\ CasesOf(p, case)' = CasesOf(p, case) + 1
           /\ \A q \in PackSet, k \in Classes : CasesOf(q, k) <= CasesOf(q, k)'
<1> DEFINE old == seed[p].lines
           new == seed'[p].lines
           n == Len(old)
<1>1. old \in Seq(Classes) /\ n \in Nat /\ DOMAIN old = 1 .. n
  BY DEF SeedOK
<1>2. new = Append(old, case)
  BY DEF SeedOK
<1>3. /\ new \in Seq(Classes) /\ DOMAIN new = 1 .. (n + 1)
      /\ \A i \in 1 .. n : new[i] = old[i]
      /\ new[n + 1] = case
  BY <1>1, <1>2
<1>4. \A q \in PackSet : q # p => seed'[q] = seed[q]
  BY DEF SeedOK
<1>5. SeedOK'
  <2>1. seed[p] \in [there : BOOLEAN, lines : Seq(Classes)]
    BY DEF SeedOK
  <2>2. [seed[p] EXCEPT !.lines = new] \in [there : BOOLEAN, lines : Seq(Classes)]
    BY <1>3, <2>1
  <2>3. seed' = [seed EXCEPT ![p] = [seed[p] EXCEPT !.lines = new]]
    BY <1>2
  <2> QED
    BY <2>2, <2>3 DEF SeedOK
<1> HIDE DEF old, new, n
<1> DEFINE Found(k) == {i \in DOMAIN old : old[i] = k}
           FoundNow(k) == {i \in DOMAIN new : new[i] = k}
<1>6. \A k : IsFiniteSet(Found(k)) /\ Cardinality(Found(k)) \in Nat
  BY <1>1, LinesAreCounted
<1>7. FoundNow(case) = Found(case) \cup {n + 1} /\ n + 1 \notin Found(case)
  BY <1>1, <1>3
<1>8. \A k \in Classes : k # case => FoundNow(k) = Found(k)
  BY <1>1, <1>3
<1>9. \A k : CasesOf(p, k) = Cardinality(Found(k)) /\ CasesOf(p, k)' = Cardinality(FoundNow(k))
  BY DEF CasesOf, old, new
<1>10. CasesOf(p, case)' = CasesOf(p, case) + 1
  <2> HIDE DEF Found, FoundNow
  <2>1. IsFiniteSet(Found(case))
    BY <1>6
  <2>2. Cardinality(Found(case) \cup {n + 1}) = Cardinality(Found(case)) + 1
    BY <1>7, <2>1, FS_AddElement
  <2>3. Cardinality(FoundNow(case)) = Cardinality(Found(case)) + 1
    BY <1>7, <2>2
  <2> QED
    BY <1>9, <2>3
<1>11. \A q \in PackSet, k \in Classes : CasesOf(q, k) \in Nat
  BY CasesAreCounted
<1>12. \A k \in Classes : CasesOf(p, k) <= CasesOf(p, k)'
  <2> HIDE DEF Found, FoundNow
  <2>1. CasesOf(p, case) <= CasesOf(p, case)'
    BY <1>10, <1>11
  <2>2. ASSUME NEW k \in Classes, k # case PROVE CasesOf(p, k)' = CasesOf(p, k)
    BY <1>8, <1>9, <2>2
  <2> QED
    BY <1>11, <2>1, <2>2
<1>13. \A q \in PackSet, k \in Classes : q # p => CasesOf(q, k)' = CasesOf(q, k)
  BY <1>4 DEF CasesOf
<1> QED
  BY <1>5, <1>10, <1>11, <1>12, <1>13

LEMMA IndexRowsAreCounts ==
    ASSUME NEW table, IndexRows(table), NEW p \in DOMAIN table
    PROVE  p \in PackSet /\ table[p] \in Counts
<1>1. PICK some \in SUBSET PackSet : table \in [some -> Counts]
  BY DEF IndexRows, IndexTable
<1> QED
  BY <1>1

LEMMA BackedStays ==
    ASSUME SeedOK, SeedOK', \A q \in PackSet, k \in Classes : CasesOf(q, k) <= CasesOf(q, k)'
    PROVE  /\ \A p \in PackSet, counts \in Counts : Backed(counts, p) => Backed(counts, p)'
           /\ \A table : IndexRows(table) => IndexRows(table)'
           /\ \A row : ScriptOK(row) => ScriptOK(row)'
<1>1. \A q \in PackSet, k \in Classes : CasesOf(q, k) \in Nat /\ CasesOf(q, k)' \in Nat
  <2>1. \A q \in PackSet : seed[q].lines \in Seq(Classes) /\ seed'[q].lines \in Seq(Classes)
    BY DEF SeedOK
  <2> QED
    BY <2>1, LinesAreCounted DEF CasesOf
<1>2. ASSUME NEW p \in PackSet, NEW counts \in Counts, Backed(counts, p) PROVE Backed(counts, p)'
  <2>1. \A k \in Classes : counts[k] \in Nat
    BY DEF Counts
  <2> QED
    BY <1>1, <1>2, <2>1 DEF Backed
<1>3. ASSUME NEW table, IndexRows(table) PROVE IndexRows(table)'
  BY <1>2, <1>3, IndexRowsAreCounts DEF IndexRows
<1>4. ASSUME NEW row, ScriptOK(row) PROVE ScriptOK(row)'
  <2>1. CASE row = NoScript
    BY <2>1 DEF ScriptOK
  <2>2. CASE row # NoScript
    <3>a. row.packs \in Seq(PackSet) /\ row.packs # <<>> /\ row.counts \in Counts
      BY <1>4, <2>2 DEF ScriptOK, ScriptRow
    <3>1. Head(row.packs) \in PackSet
      BY <3>a
    <3> QED
      BY <1>2, <1>3, <1>4, <2>2, <3>a, <3>1 DEF ScriptOK
  <2> QED
    BY <2>1, <2>2
<1> QED
  BY <1>2, <1>3, <1>4

\* The files stay and one script goes on.
LEMMA ScriptGoesOn ==
    ASSUME PacksInv, NEW c \in Scripts, NEW row, script' = [script EXCEPT ![c] = row], ScriptOK(row), UNCHANGED seed
    PROVE  /\ ScriptsOK' /\ SeedOK'
           /\ UNCHANGED manifest => ManifestOK'
           /\ UNCHANGED index => IndexOK'
           /\ \A p, counts : Backed(counts, p)' <=> Backed(counts, p)
           /\ \A table : IndexRows(table)' <=> IndexRows(table)
<1>1. \A p, k : CasesOf(p, k)' = CasesOf(p, k)
  BY DEF CasesOf
<1>2. \A p, counts : Backed(counts, p)' <=> Backed(counts, p)
  BY <1>1 DEF Backed
<1>3. \A table : IndexRows(table)' <=> IndexRows(table)
  BY <1>2 DEF IndexRows
<1>4. \A r : ScriptOK(r)' <=> ScriptOK(r)
  BY <1>2, <1>3 DEF ScriptOK
<1>5. \A d \in Scripts : script'[d] = IF d = c THEN row ELSE script[d]
  BY DEF PacksInv, ScriptsOK
<1>6. script' = [d \in Scripts |-> script'[d]]
  BY DEF PacksInv, ScriptsOK
<1>7. ScriptsOK'
  BY <1>4, <1>5, <1>6 DEF PacksInv, ScriptsOK
<1>8. UNCHANGED manifest => ManifestOK'
  BY <1>2 DEF PacksInv, ManifestOK
<1>9. UNCHANGED index => IndexOK'
  BY <1>3 DEF PacksInv, IndexOK
<1>10. SeedOK'
  BY DEF PacksInv, SeedOK
<1> QED
  BY <1>2, <1>3, <1>7, <1>8, <1>9, <1>10

LEMMA TailIsLeft ==
    ASSUME NEW S, NEW s \in Seq(S), s # <<>>, Len(s) # 1
    PROVE  Tail(s) \in Seq(S) /\ Tail(s) # <<>>
<1>1. Len(s) \in Nat /\ Len(s) # 0
  OBVIOUS
<1>2. Tail(s) \in Seq(S) /\ Len(Tail(s)) = Len(s) - 1
  BY HeadTailProperties
<1>3. Len(Tail(s)) # 0
  BY <1>1, <1>2
<1>4. Len(<<>>) = 0
  OBVIOUS
<1> QED
  BY <1>2, <1>3, <1>4

\* A script at work, field by field.
LEMMA ScriptAtWork ==
    ASSUME PacksInv, NEW c \in Scripts, script[c].at # "ended"
    PROVE  /\ script[c] \in ScriptRow
           /\ script[c].packs \in Seq(PackSet) /\ script[c].packs # <<>>
           /\ script[c].todo \in Seq(Classes) /\ script[c].counts \in Counts
           /\ script[c].seen \in IndexTable /\ IndexRows(script[c].seen)
           /\ script[c].at \in {"manifest", "read index", "write index", "append"} => Backed(script[c].counts, Pack(c))
           /\ script[c].at = "append" => script[c].todo # <<>>
           /\ Pack(c) \in PackSet /\ Pack(c) = Head(script[c].packs)
<1>1. ScriptOK(script[c]) /\ script[c] # NoScript
  BY DEF PacksInv, ScriptsOK, NoScript
<1>2. script[c].packs \in Seq(PackSet) /\ script[c].packs # <<>>
  BY <1>1 DEF ScriptOK, ScriptRow
<1>3. Pack(c) \in PackSet
  BY <1>2 DEF Pack
<1> QED
  BY <1>1, <1>2, <1>3 DEF ScriptOK, Pack, ScriptRow

\* A script moves within its pack, and may have read an index.
LEMMA ScriptMoves ==
    ASSUME PacksInv, NEW c \in Scripts, script[c].at # "ended", NEW place \in Places,
           NEW seen, IndexRows(seen),
           place \in {"manifest", "read index", "write index", "append"} => Backed(script[c].counts, Pack(c)),
           place = "append" => script[c].todo # <<>>
    PROVE  /\ ScriptOK([script[c] EXCEPT !.at = place, !.seen = seen])
           /\ seen = script[c].seen => ScriptOK([script[c] EXCEPT !.at = place])
<1> DEFINE moved == [script[c] EXCEPT !.at = place]
           read == [script[c] EXCEPT !.at = place, !.seen = seen]
<1>1. /\ script[c] \in ScriptRow /\ script[c].packs \in Seq(PackSet) /\ script[c].todo \in Seq(Classes)
      /\ script[c].counts \in Counts /\ script[c].packs # <<>> /\ Pack(c) = Head(script[c].packs)
      /\ seen \in IndexTable
  BY ScriptAtWork DEF IndexRows
<1>2. /\ moved \in ScriptRow /\ moved.at = place /\ moved.packs = script[c].packs /\ moved.todo = script[c].todo
      /\ moved.counts = script[c].counts /\ moved.seen = script[c].seen
  BY <1>1 DEF ScriptRow
<1>3. /\ read \in ScriptRow /\ read.at = place /\ read.packs = script[c].packs /\ read.todo = script[c].todo
      /\ read.counts = script[c].counts /\ read.seen = seen
  BY <1>1 DEF ScriptRow
<1> HIDE DEF moved, read
<1>4. ScriptOK(read) /\ (seen = script[c].seen => ScriptOK(moved))
  BY <1>1, <1>2, <1>3 DEF ScriptOK
<1> QED
  BY <1>4 DEF moved, read

\* NextPack, as the row that it gives the script.
NextRow(row) == IF Len(row.packs) = 1 THEN NoScript ELSE [row EXCEPT !.at = "get", !.packs = Tail(row.packs)]

LEMMA NextPackIsOK ==
    ASSUME PacksInv, NEW c \in Scripts, script[c].at # "ended"
    PROVE  ScriptOK(NextRow(script[c]))
<1> DEFINE next == [script[c] EXCEPT !.at = "get", !.packs = Tail(script[c].packs)]
<1>1. /\ script[c] \in ScriptRow /\ script[c].packs \in Seq(PackSet) /\ script[c].todo \in Seq(Classes)
      /\ script[c].counts \in Counts /\ script[c].packs # <<>>
      /\ script[c].seen \in IndexTable /\ IndexRows(script[c].seen)
  BY ScriptAtWork
<1>2. CASE Len(script[c].packs) = 1
  BY <1>2 DEF NextRow, ScriptOK
<1>3. CASE Len(script[c].packs) # 1
  <2>1. Tail(script[c].packs) \in Seq(PackSet) /\ Tail(script[c].packs) # <<>>
    BY <1>1, <1>3, TailIsLeft
  <2>2. "get" \in Places
    BY DEF Places
  <2>3. /\ next \in ScriptRow /\ next.at = "get" /\ next.packs = Tail(script[c].packs)
        /\ next.seen = script[c].seen
    BY <1>1, <2>1, <2>2 DEF ScriptRow
  <2>4. NextRow(script[c]) = next
    BY <1>3 DEF NextRow
  <2> HIDE DEF next
  <2>5. ScriptOK(next)
    BY <1>1, <2>1, <2>3 DEF ScriptOK
  <2> QED
    BY <2>4, <2>5
<1> QED
  BY <1>2, <1>3

\* NextPack and Goto give the script such a row.
LEMMA NextPackGives == ASSUME NEW c, NextPack(c) PROVE script' = [script EXCEPT ![c] = NextRow(script[c])]
  BY DEF NextPack, NextRow

LEMMA GotoGives ==
    ASSUME NEW c, NEW place, Goto(c, place)
    PROVE  script' = [script EXCEPT ![c] = [script[c] EXCEPT !.at = place]]
  BY DEF Goto

LEMMA NoCountsAreBacked ==
    ASSUME SeedOK, NEW p \in PackSet
    PROVE  NoCounts \in Counts /\ Backed(NoCounts, p)
<1>1. \A k \in Classes : CasesOf(p, k) \in Nat
  BY CasesAreCounted
<1> QED
  BY <1>1 DEF NoCounts, Counts, Backed

LEMMA NoRowsAreIndexRows == IndexRows([p \in {} |-> NoCounts])
<1>1. [p \in {} |-> NoCounts] \in [{} -> Counts]
  OBVIOUS
<1>2. [{} -> Counts] \in {[some -> Counts] : some \in SUBSET PackSet}
  OBVIOUS
<1>3. [p \in {} |-> NoCounts] \in IndexTable
  BY <1>1, <1>2 DEF IndexTable
<1> QED
  BY <1>3 DEF IndexRows

LEMMA PacksInitially == PacksInit => PacksInv
<1> SUFFICES ASSUME PacksInit PROVE PacksInv
  OBVIOUS
<1>1. SeedOK
  BY DEF PacksInit, SeedOK
<1>2. ManifestOK
  BY <1>1, NoCountsAreBacked DEF PacksInit, ManifestOK
<1>3. IndexOK
  BY NoRowsAreIndexRows DEF PacksInit, IndexOK
<1>4. ScriptsOK
  BY DEF PacksInit, ScriptsOK, ScriptOK
<1> QED
  BY <1>1, <1>2, <1>3, <1>4 DEF PacksInv

LEMMA SeedScriptStarts == ASSUME PacksInv, NEW c \in Scripts, StartSeed(c) PROVE PacksInv'
<1> DEFINE row == [at |-> "get", packs |-> Packs, todo |-> <<>>, counts |-> NoCounts, seen |-> index.counts]
<1>1. script' = [script EXCEPT ![c] = row] /\ UNCHANGED <<seed, manifest, index>>
  BY DEF StartSeed, FilesUnchanged
<1>2. NoCounts \in Counts /\ <<>> \in Seq(Classes)
  BY DEF NoCounts, Counts
<1>3. ScriptOK(row)
  <2>1. index.counts \in IndexTable /\ IndexRows(index.counts)
    BY DEF PacksInv, IndexOK, IndexRows
  <2>2. row \in ScriptRow
    BY <1>2, <2>1, PacksAssumption DEF ScriptRow, Places
  <2> QED
    BY <2>1, <2>2, PacksAssumption DEF ScriptOK
<1> HIDE DEF row
<1> QED
  BY <1>1, <1>3, ScriptGoesOn DEF PacksInv

LEMMA PackIsGot == ASSUME PacksInv, NEW c \in Scripts, GetPack(c) PROVE PacksInv'
<1>1. script[c].at = "get" /\ UNCHANGED <<seed, manifest, index>>
  BY DEF GetPack, FilesUnchanged, ScriptAt
<1>2. IndexRows(script[c].seen)
  BY <1>1, ScriptAtWork
<1>3. \/ script' = [script EXCEPT ![c] = NextRow(script[c])]
      \/ script' = [script EXCEPT ![c] = [script[c] EXCEPT !.at = "touch"]]
      \/ script' = [script EXCEPT ![c] = NoScript]
  BY NextPackGives, GotoGives DEF GetPack
<1>4. ScriptOK(NextRow(script[c])) /\ ScriptOK(NoScript)
  BY <1>1, NextPackIsOK DEF ScriptOK
<1>5. ScriptOK([script[c] EXCEPT !.at = "touch"])
  BY <1>1, <1>2, ScriptMoves DEF Places
<1> QED
  BY <1>1, <1>3, <1>4, <1>5, ScriptGoesOn DEF PacksInv

LEMMA SeedIsTouched == ASSUME PacksInv, NEW c \in Scripts, TouchSeed(c) PROVE PacksInv'
<1> DEFINE p == Pack(c)
           row == [script[c] EXCEPT !.at = "manifest", !.todo = SeedCases, !.counts = NoCounts]
<1>1. /\ script[c].at = "touch" /\ seed' = [seed EXCEPT ![p].there = TRUE]
      /\ script' = [script EXCEPT ![c] = row] /\ UNCHANGED <<manifest, index>>
  BY DEF TouchSeed, ScriptAt
<1>2. p \in PackSet /\ SeedOK
  BY <1>1, ScriptAtWork DEF PacksInv
<1>3. SeedOK' /\ \A q \in PackSet : seed'[q].lines = seed[q].lines
  BY <1>1, <1>2 DEF SeedOK
<1>4. \A q \in PackSet, k \in Classes : CasesOf(q, k)' = CasesOf(q, k) /\ CasesOf(q, k) \in Nat
  BY <1>2, <1>3, CasesAreCounted DEF CasesOf
<1>5. \A q \in PackSet, k \in Classes : CasesOf(q, k) <= CasesOf(q, k)'
  BY <1>4
<1>6. ScriptOK(row)
  <2>1. /\ script[c] \in ScriptRow /\ script[c].packs \in Seq(PackSet) /\ script[c].packs # <<>>
        /\ script[c].seen \in IndexTable /\ IndexRows(script[c].seen) /\ p = Head(script[c].packs)
    BY <1>1, ScriptAtWork
  <2>2. NoCounts \in Counts /\ Backed(NoCounts, p)
    BY <1>2, NoCountsAreBacked
  <2>3. /\ row \in ScriptRow /\ row.at = "manifest" /\ row.packs = script[c].packs
        /\ row.counts = NoCounts /\ row.seen = script[c].seen
    BY <2>1, <2>2, PacksAssumption DEF Places, ScriptRow
  <2> HIDE DEF row
  <2> QED
    BY <2>1, <2>2, <2>3 DEF ScriptOK
<1> HIDE DEF row
<1>7. /\ \A q \in PackSet, counts \in Counts : Backed(counts, q) => Backed(counts, q)'
      /\ \A table : IndexRows(table) => IndexRows(table)'
      /\ \A r : ScriptOK(r) => ScriptOK(r)'
  BY <1>2, <1>3, <1>5, BackedStays
<1>8. ManifestOK'
  BY <1>1, <1>7 DEF PacksInv, ManifestOK
<1>9. IndexOK'
  BY <1>1, <1>7 DEF PacksInv, IndexOK
<1>10. ScriptsOK'
  BY <1>1, <1>6, <1>7 DEF PacksInv, ScriptsOK
<1> QED
  BY <1>3, <1>8, <1>9, <1>10 DEF PacksInv

LEMMA ManifestIsWritten == ASSUME PacksInv, NEW c \in Scripts, WriteManifest(c) PROVE PacksInv'
<1> DEFINE p == Pack(c)
           row == [script[c] EXCEPT !.at = "read index"]
           text == [text |-> "whole", counts |-> script[c].counts]
<1>1. /\ script[c].at = "manifest" /\ manifest' = [manifest EXCEPT ![p] = text]
      /\ script' = [script EXCEPT ![c] = row] /\ UNCHANGED <<seed, index>>
  BY DEF WriteManifest, ScriptAt, Goto
<1>2. p \in PackSet /\ script[c].counts \in Counts /\ Backed(script[c].counts, p) /\ IndexRows(script[c].seen)
  BY <1>1, ScriptAtWork
<1>3. ScriptOK(row)
  BY <1>1, <1>2, ScriptMoves DEF Places
<1> HIDE DEF row
<1>4. /\ ScriptsOK' /\ SeedOK' /\ IndexOK'
      /\ \A q, counts : Backed(counts, q)' <=> Backed(counts, q)
  BY <1>1, <1>3, ScriptGoesOn
<1>5. ManifestOK'
  <2>1. text \in [text : {"none", "whole", "cut"}, counts : Counts] /\ text.counts = script[c].counts
    BY <1>2
  <2>2. manifest' \in [PackSet -> [text : {"none", "whole", "cut"}, counts : Counts]]
    BY <1>1, <2>1 DEF PacksInv, ManifestOK
  <2>3. \A q \in PackSet : manifest'[q] = IF q = p THEN text ELSE manifest[q]
    BY <1>1 DEF PacksInv, ManifestOK
  <2> HIDE DEF text
  <2> QED
    BY <1>2, <1>4, <2>1, <2>2, <2>3 DEF PacksInv, ManifestOK
<1> QED
  BY <1>4, <1>5 DEF PacksInv

LEMMA IndexIsRead == ASSUME PacksInv, NEW c \in Scripts, ReadIndex(c) PROVE PacksInv'
<1> DEFINE seen == IF index.text = "cut" THEN [p \in {} |-> NoCounts] ELSE index.counts
           row == [script[c] EXCEPT !.at = "write index", !.seen = seen]
<1>1. script[c].at = "read index" /\ script' = [script EXCEPT ![c] = row] /\ UNCHANGED <<seed, manifest, index>>
  BY DEF ReadIndex, ScriptAt, FilesUnchanged
<1>2. IndexRows(seen)
  BY NoRowsAreIndexRows DEF PacksInv, IndexOK
<1> HIDE DEF seen
<1>3. Backed(script[c].counts, Pack(c))
  BY <1>1, ScriptAtWork
<1>4. ScriptOK(row)
  BY <1>1, <1>2, <1>3, ScriptMoves DEF Places
<1> HIDE DEF row
<1> QED
  BY <1>1, <1>4, ScriptGoesOn DEF PacksInv

LEMMA IndexIsUpdated == ASSUME PacksInv, NEW c \in Scripts, UpdateIndex(c) PROVE PacksInv'
<1> DEFINE p == Pack(c)
           seen == script[c].seen
           counts == script[c].counts
           new == [q \in DOMAIN seen \cup {p} |-> IF q = p THEN counts ELSE seen[q]]
<1>1. script[c].at = "write index" /\ index'.counts = new /\ UNCHANGED <<seed, manifest>>
  BY DEF UpdateIndex, ScriptAt
<1>2. p \in PackSet /\ counts \in Counts /\ Backed(counts, p) /\ IndexRows(seen)
  BY <1>1, ScriptAtWork
<1>3. IndexRows(new)
  <2>1. DOMAIN seen \cup {p} \in SUBSET PackSet /\ \A q \in DOMAIN seen : seen[q] \in Counts
    BY <1>2, IndexRowsAreCounts
  <2>2. new \in [DOMAIN seen \cup {p} -> Counts]
    BY <1>2, <2>1
  <2>3. new \in IndexTable
    BY <2>1, <2>2 DEF IndexTable
  <2> QED
    BY <1>2, <2>3 DEF IndexRows
<1>4. \/ script' = [script EXCEPT ![c] = NextRow(script[c])]
      \/ script[c].todo # <<>> /\ script' = [script EXCEPT ![c] = [script[c] EXCEPT !.at = "append"]]
  BY NextPackGives, GotoGives DEF UpdateIndex
<1>5. ScriptOK(NextRow(script[c]))
  BY <1>1, NextPackIsOK
<1>6. script[c].todo # <<>> => ScriptOK([script[c] EXCEPT !.at = "append"])
  BY <1>1, <1>2, ScriptMoves DEF Places
<1> HIDE DEF new
<1>7. /\ ScriptsOK' /\ SeedOK' /\ ManifestOK'
      /\ \A table : IndexRows(table)' <=> IndexRows(table)
  BY <1>1, <1>4, <1>5, <1>6, ScriptGoesOn
<1>8. IndexOK'
  BY <1>1, <1>3, <1>7 DEF IndexOK
<1> QED
  BY <1>7, <1>8 DEF PacksInv

LEMMA CaseIsAdded == ASSUME PacksInv, NEW c \in Scripts, AddCase(c) PROVE PacksInv'
<1>p. PICK p, packs : p = Pack(c) /\ packs = script[c].packs
  OBVIOUS
<1>q. PICK todo, counts, seen : todo = script[c].todo /\ counts = script[c].counts /\ seen = script[c].seen
  OBVIOUS
<1>r. PICK case, more : case = Head(todo) /\ more = [counts EXCEPT ![case] = @ + 1]
  OBVIOUS
<1>s. PICK row : row = [script[c] EXCEPT !.at = "manifest", !.todo = Tail(todo), !.counts = more]
  OBVIOUS
<1>1. /\ p = Pack(c) /\ packs = script[c].packs /\ todo = script[c].todo
      /\ counts = script[c].counts /\ seen = script[c].seen /\ case = Head(todo)
      /\ more = [counts EXCEPT ![case] = @ + 1]
      /\ row = [script[c] EXCEPT !.at = "manifest", !.todo = Tail(todo), !.counts = more]
  BY <1>p, <1>q, <1>r, <1>s
<1>a. /\ script[c].at = "append" /\ seed' = [seed EXCEPT ![p].lines = Append(@, case)]
      /\ script' = [script EXCEPT ![c] = row] /\ UNCHANGED <<manifest, index>>
  BY <1>1 DEF AddCase, ScriptAt
<1>2. /\ p \in PackSet /\ counts \in Counts /\ Backed(counts, p) /\ IndexRows(seen) /\ p = Head(packs)
      /\ packs \in Seq(PackSet) /\ packs # <<>> /\ todo \in Seq(Classes) /\ todo # <<>>
      /\ script[c] \in ScriptRow
  BY <1>1, <1>a, ScriptAtWork
<1>3. case \in Classes /\ Tail(todo) \in Seq(Classes)
  BY <1>1, <1>2
<1>4. SeedOK
  BY DEF PacksInv
<1>5. /\ SeedOK' /\ CasesOf(p, case)' = CasesOf(p, case) + 1
      /\ \A q \in PackSet, k \in Classes : CasesOf(q, k) <= CasesOf(q, k)'
  BY <1>a, <1>2, <1>3, <1>4, LineMore
<1>6. /\ \A q \in PackSet, some \in Counts : Backed(some, q) => Backed(some, q)'
      /\ \A table : IndexRows(table) => IndexRows(table)'
      /\ \A r : ScriptOK(r) => ScriptOK(r)'
  BY <1>4, <1>5, BackedStays
<1>7. more \in Counts /\ more[case] = counts[case] + 1 /\ \A k \in Classes : k # case => more[k] = counts[k]
  BY <1>1, <1>2, <1>3 DEF Counts
<1>8. Backed(more, p)'
  <2>1. Backed(counts, p)'
    BY <1>2, <1>6
  <2>2. counts[case] \in Nat /\ CasesOf(p, case) \in Nat /\ counts[case] <= CasesOf(p, case)
    BY <1>2, <1>3, <1>4, CasesAreCounted DEF Counts, Backed
  <2>3. more[case] <= CasesOf(p, case)'
    BY <1>5, <1>7, <2>2
  <2>4. \A k \in Classes : k # case => more[k] <= CasesOf(p, k)'
    BY <1>7, <2>1 DEF Backed
  <2> QED
    BY <2>3, <2>4 DEF Backed
<1>9. IndexRows(seen)'
  BY <1>2, <1>6
<1>b. /\ row \in ScriptRow /\ row.at = "manifest" /\ row.packs = packs
      /\ row.counts = more /\ row.seen = seen
  BY <1>1, <1>2, <1>3, <1>7 DEF Places, ScriptRow
<1>10. ScriptOK(row)'
  BY <1>2, <1>8, <1>9, <1>b DEF ScriptOK
<1>11. ManifestOK'
  BY <1>a, <1>6 DEF PacksInv, ManifestOK
<1>12. IndexOK'
  BY <1>a, <1>6 DEF PacksInv, IndexOK
<1>13. ScriptsOK'
  <2>1. \A d \in Scripts : script'[d] = IF d = c THEN row ELSE script[d]
    BY <1>a DEF PacksInv, ScriptsOK
  <2>2. script' = [d \in Scripts |-> script'[d]]
    BY <1>a DEF PacksInv, ScriptsOK
  <2> QED
    BY <1>6, <1>10, <2>1, <2>2 DEF PacksInv, ScriptsOK
<1> QED
  BY <1>5, <1>11, <1>12, <1>13 DEF PacksInv

LEMMA PackIsSuperseded == ASSUME PacksInv, NEW c \in Scripts, SupersedePack(c) PROVE PacksInv'
<1>1. PICK p \in PackSet :
        /\ manifest[p].text = "whole"
        /\ script' = [script EXCEPT ![c] = [at |-> "manifest", packs |-> <<p>>, todo |-> <<>>,
                                            counts |-> manifest[p].counts, seen |-> index.counts]]
  BY DEF SupersedePack
<1> DEFINE row == [at |-> "manifest", packs |-> <<p>>, todo |-> <<>>, counts |-> manifest[p].counts, seen |-> index.counts]
<1>2. manifest[p].counts \in Counts /\ Backed(manifest[p].counts, p) /\ IndexRows(index.counts)
  BY <1>1 DEF PacksInv, ManifestOK, IndexOK
<1>3. <<p>> \in Seq(PackSet) /\ <<p>> # <<>> /\ Head(<<p>>) = p /\ <<>> \in Seq(Classes)
  OBVIOUS
<1>4. ScriptOK(row)
  <2>1. row \in ScriptRow
    BY <1>2, <1>3 DEF ScriptRow, Places, IndexRows
  <2> QED
    BY <1>2, <1>3, <2>1 DEF ScriptOK
<1>5. script' = [script EXCEPT ![c] = row] /\ UNCHANGED <<seed, manifest, index>>
  BY <1>1 DEF SupersedePack, FilesUnchanged
<1> HIDE DEF row
<1> QED
  BY <1>4, <1>5, ScriptGoesOn DEF PacksInv

LEMMA ScriptIsKilled == ASSUME PacksInv, NEW c \in Scripts, ScriptDies(c) PROVE PacksInv'
<1>1. script[c].at # "ended" /\ script' = [script EXCEPT ![c] = NoScript] /\ UNCHANGED seed /\ ScriptOK(NoScript)
  BY DEF ScriptDies, ScriptAt, FilesUnchanged, ScriptOK
<1>2. /\ ScriptsOK' /\ SeedOK'
      /\ UNCHANGED manifest => ManifestOK'
      /\ UNCHANGED index => IndexOK'
      /\ \A p, counts : Backed(counts, p)' <=> Backed(counts, p)
      /\ \A table : IndexRows(table)' <=> IndexRows(table)
  BY <1>1, ScriptGoesOn
<1>3. CASE UNCHANGED <<manifest, index>>
  BY <1>2, <1>3 DEF PacksInv
<1>4. CASE manifest' = [manifest EXCEPT ![Pack(c)].text = "cut"] /\ UNCHANGED index
  <2>1. Pack(c) \in PackSet
    BY <1>1, ScriptAtWork
  <2>2. manifest' \in [PackSet -> [text : {"none", "whole", "cut"}, counts : Counts]]
    BY <1>4, <2>1 DEF PacksInv, ManifestOK
  <2>3. \A q \in PackSet : manifest'[q].text = "whole" => manifest'[q] = manifest[q]
    BY <1>4, <2>1 DEF PacksInv, ManifestOK
  <2>4. ManifestOK'
    BY <1>2, <2>2, <2>3 DEF PacksInv, ManifestOK
  <2> QED
    BY <1>2, <1>4, <2>4 DEF PacksInv
<1>5. CASE index' = [text |-> "cut", counts |-> [p \in {} |-> NoCounts]] /\ UNCHANGED manifest
  <2>1. IndexRows(index'.counts)
    BY <1>5, NoRowsAreIndexRows
  <2>2. IndexOK'
    BY <1>2, <2>1 DEF IndexOK
  <2> QED
    BY <1>2, <1>5, <2>2 DEF PacksInv
<1> QED
  BY <1>3, <1>4, <1>5 DEF ScriptDies, FilesUnchanged

\* The files of the packs and what the scripts have read and counted of them,
\* whatever scripts run at a time and wherever they die.
THEOREM PacksInvariant == PacksSpec => []PacksInv
<1>1. PacksInv /\ UNCHANGED <<seed, manifest, index, script>> => PacksInv'
  <2> SUFFICES ASSUME PacksInv, UNCHANGED <<seed, manifest, index, script>> PROVE PacksInv'
    OBVIOUS
  <2>1. \A p, counts : Backed(counts, p)' <=> Backed(counts, p)
    BY DEF Backed, CasesOf
  <2>2. \A table : IndexRows(table)' <=> IndexRows(table)
    BY <2>1 DEF IndexRows
  <2>3. \A r : ScriptOK(r)' <=> ScriptOK(r)
    BY <2>1, <2>2 DEF ScriptOK
  <2> QED
    BY <2>1, <2>2, <2>3 DEF PacksInv, SeedOK, ManifestOK, IndexOK, ScriptsOK
<1>2. RowsNext \/ UNCHANGED packVars => UNCHANGED <<seed, manifest, index, script>>
  BY DEF RowsNext, RunPack, HoldoutRun, ProposePackUpgrade, DecideUpgrade, RecordAB, RecordOptimization, TablesOnly,
         packVars
<1>3. PacksInv /\ SeedNext => PacksInv'
  BY SeedScriptStarts, PackIsGot, SeedIsTouched, ManifestIsWritten, IndexIsRead, IndexIsUpdated, CaseIsAdded,
     PackIsSuperseded, ScriptIsKilled DEF SeedNext
<1>4. PacksInv /\ [PacksNext]_packVars => PacksInv'
  BY <1>1, <1>2, <1>3 DEF PacksNext
<1> QED
  BY <1>4, PacksInitially, PTL DEF PacksSpec

\* Neither a manifest nor the index counts a case that is not in the file of its
\* pack (evals/store.py, add_case and create_pack).
THEOREM CountsAreBackedAlways == PacksSpec => []CountsAreBacked
<1>1. PacksInv => CountsAreBacked
  BY DEF PacksInv, ManifestOK, IndexOK, IndexRows, Backed, CountsAreBacked
<1> QED
  BY <1>1, PacksInvariant, PTL

-----------------------------------------------------------------------------
(* Memory.  A digest is one transaction, but its mentions are upserted one *)
(* after the other, so the invariant says the same of the table that an    *)
(* open transaction would leave as of the one that is committed: each      *)
(* knows the best of what it was told so far.                              *)

\* The table of an open transaction knows what was committed and what it has stored.
WriterOK ==
    \/ writer = NoWriter
    \/ /\ writer.at = "open" /\ writer.digest \in DOMAIN Digests
       /\ writer.done \in 0 .. Len(Mentions(Digests[writer.digest]))
       /\ Knows(writer.table, Said \cup MentionsOf(Len(digested) + 1, writer.digest, writer.done))

MemoryInv == /\ digested \in Seq(DOMAIN Digests) /\ Knows(entities, Said)
             /\ ShowsLatest /\ WriterOK

\* One mention more, not older than those before it, and the table still knows the best.
LEMMA UpsertKeepsTheBest ==
    ASSUME NEW table, NEW said, Knows(table, said),
           \A m \in said : m.confidence \in Int /\ m.at \in Int,
           NEW turn \in Int, NEW name, NEW confidence \in Int, NEW evidence,
           \A m \in said : m.at <= turn
    PROVE  Knows(UpsertEntity(table, name, evidence, confidence),
                 said \cup {[at |-> turn, name |-> name, confidence |-> confidence, evidence |-> evidence]})
<1>p. PICK new : new = [at |-> turn, name |-> name, confidence |-> confidence, evidence |-> evidence]
  OBVIOUS
<1>1. new.at = turn /\ new.name = name /\ new.confidence = confidence /\ new.evidence = evidence
  BY <1>p
<1> DEFINE next == UpsertEntity(table, name, evidence, confidence)
           row == [confidence |-> confidence, evidence |-> evidence]
<1>2. DOMAIN table = {m.name : m \in said}
  BY DEF Knows
<1>3. ASSUME NEW x \in DOMAIN table
      PROVE  \E m \in said : /\ m.name = x /\ table[x] = [confidence |-> m.confidence, evidence |-> m.evidence]
                             /\ table[x].confidence = m.confidence
                             /\ \A o \in said : o.name = x => ~MoreConfident(o, m)
  BY DEF Knows, BestOf
<1>4. ASSUME NEW x \in DOMAIN table, x = name => table[x].confidence > confidence
      PROVE  \E m \in BestOf(x, said \cup {new}) : table[x] = [confidence |-> m.confidence, evidence |-> m.evidence]
  <2>1. PICK m \in said : /\ m.name = x /\ table[x] = [confidence |-> m.confidence, evidence |-> m.evidence]
                          /\ table[x].confidence = m.confidence
                          /\ \A o \in said : o.name = x => ~MoreConfident(o, m)
    BY <1>3
  <2>2. new.name = x => ~MoreConfident(new, m)
    BY <1>1, <1>4, <2>1 DEF MoreConfident
  <2>3. m \in BestOf(x, said \cup {new})
    BY <2>1, <2>2 DEF BestOf
  <2> QED
    BY <2>1, <2>3
<1>5. CASE name \in DOMAIN table /\ table[name].confidence > confidence
  <2>1. next = table
    BY <1>5 DEF UpsertEntity
  <2>2. DOMAIN table = {m.name : m \in said \cup {new}}
    BY <1>1, <1>2, <1>5
  <2>3. Knows(table, said \cup {new})
    BY <1>4, <1>5, <2>2 DEF Knows
  <2> QED
    BY <1>p, <2>1, <2>3
<1>6. CASE ~(name \in DOMAIN table /\ table[name].confidence > confidence)
  <2>1. next = Upserted(table, name, row)
    BY <1>6 DEF UpsertEntity
  <2>2. /\ DOMAIN next = DOMAIN table \cup {name} /\ next[name] = row
        /\ \A x \in DOMAIN table : x # name => next[x] = table[x]
    BY <2>1 DEF Upserted
  <2>3. DOMAIN next = {m.name : m \in said \cup {new}}
    BY <1>1, <1>2, <2>2
  <2>4. ASSUME NEW o \in said, o.name = name PROVE ~MoreConfident(o, new)
    <3>1. name \in DOMAIN table /\ ~(table[name].confidence > confidence)
      BY <1>2, <1>6, <2>4
    <3>2. PICK m \in said : /\ table[name].confidence = m.confidence
                            /\ \A q \in said : q.name = name => ~MoreConfident(q, m)
      BY <1>3, <3>1
    <3>3. m.confidence \in Int /\ m.confidence <= confidence /\ ~MoreConfident(o, m)
      BY <2>4, <3>1, <3>2
    <3>4. o.confidence \in Int /\ o.at \in Int /\ o.at <= turn
      BY <2>4
    <3> QED
      BY <1>1, <3>3, <3>4 DEF MoreConfident
  <2>5. ~MoreConfident(new, new)
    BY <1>1 DEF MoreConfident
  <2>6. new \in BestOf(name, said \cup {new})
    BY <1>1, <2>4, <2>5 DEF BestOf
  <2>7. row = [confidence |-> new.confidence, evidence |-> new.evidence]
    BY <1>1
  <2>8. ASSUME NEW x \in DOMAIN next
        PROVE  \E m \in BestOf(x, said \cup {new}) : next[x] = [confidence |-> m.confidence, evidence |-> m.evidence]
    <3>1. CASE x = name
      BY <2>2, <2>6, <2>7, <3>1
    <3>2. CASE x # name
      BY <1>4, <2>2, <2>8, <3>2
    <3> QED
      BY <3>1, <3>2
  <2> HIDE DEF next
  <2>9. Knows(next, said \cup {new})
    BY <2>3, <2>8 DEF Knows
  <2> QED
    BY <1>p, <2>9 DEF next
<1> QED
  BY <1>5, <1>6

\* What a digest says is a list of mentions with numbers for confidences.
LEMMA SayingsAreLists ==
    ASSUME NEW n \in DOMAIN Digests
    PROVE  /\ Len(Mentions(Digests[n])) \in Nat
           /\ DOMAIN Mentions(Digests[n]) = 1 .. Len(Mentions(Digests[n]))
           /\ \A i \in 1 .. Len(Mentions(Digests[n])) : Mentions(Digests[n])[i].confidence \in Int
<1>1. PICK said : said = Mentions(Digests[n])
  OBVIOUS
<1>2. said \in Seq(Range(said)) /\ \A i \in DOMAIN said : said[i].confidence \in Int
  BY <1>1, DigestsAssumption
<1>3. Len(said) \in Nat /\ DOMAIN said = 1 .. Len(said)
  BY <1>2, LenProperties
<1> QED
  BY <1>1, <1>2, <1>3

LEMMA MentionsAreTyped ==
    ASSUME NEW n \in DOMAIN Digests, NEW turn \in Int, NEW k \in 0 .. Len(Mentions(Digests[n]))
    PROVE  \A m \in MentionsOf(turn, n, k) : m.at = turn /\ m.at \in Int /\ m.confidence \in Int
<1>1. \A i \in 1 .. k : Mentions(Digests[n])[i].confidence \in Int
  BY SayingsAreLists
<1> QED
  BY <1>1 DEF MentionsOf

LEMMA MentionsGrow ==
    ASSUME NEW n, NEW turn, NEW k \in Nat
    PROVE  /\ MentionsOf(turn, n, 0) = {}
           /\ MentionsOf(turn, n, k + 1)
                = MentionsOf(turn, n, k) \cup {[at |-> turn, name |-> Mentions(Digests[n])[k + 1].name,
                                              confidence |-> Mentions(Digests[n])[k + 1].confidence, evidence |-> n]}
<1>1. 1 .. (k + 1) = (1 .. k) \cup {k + 1} /\ 1 .. 0 = {}
  OBVIOUS
<1> QED
  BY <1>1 DEF MentionsOf

\* What was said is typed, and not later than the last digest.
LEMMA SaidIsTyped ==
    ASSUME digested \in Seq(DOMAIN Digests)
    PROVE  \A m \in Said : m.at \in Int /\ m.confidence \in Int /\ m.at <= Len(digested)
<1>1. ASSUME NEW i \in DOMAIN digested,
             NEW m \in MentionsOf(i, digested[i], Len(Mentions(Digests[digested[i]])))
      PROVE  m.at \in Int /\ m.confidence \in Int /\ m.at <= Len(digested)
  <2>1. i \in 1 .. Len(digested) /\ digested[i] \in DOMAIN Digests /\ Len(digested) \in Nat
    BY LenProperties
  <2>2. Len(Mentions(Digests[digested[i]])) \in 0 .. Len(Mentions(Digests[digested[i]]))
    BY <2>1, SayingsAreLists
  <2>3. m.at = i /\ m.at \in Int /\ m.confidence \in Int
    BY <1>1, <2>1, <2>2, MentionsAreTyped
  <2> QED
    BY <2>1, <2>3
<1> QED
  BY <1>1 DEF Said

LEMMA MemoryInitially == ASSUME MemInit PROVE MemoryInv
<1>1. digested = <<>> /\ entities = Empty /\ documents = Empty /\ writer = NoWriter
  BY DEF MemInit
<1>2. <<>> \in Seq(DOMAIN Digests) /\ DOMAIN digested = {}
  BY <1>1
<1>3. Said = {}
  BY <1>2 DEF Said
<1>4. DOMAIN Empty = {}
  BY DEF Empty
<1>5. Knows(entities, Said)
  BY <1>1, <1>3, <1>4 DEF Knows
<1>6. ShowsLatest
  BY <1>1, <1>2, <1>4 DEF ShowsLatest
<1> QED
  BY <1>1, <1>2, <1>5, <1>6 DEF MemoryInv, WriterOK

\* A transaction begins with the table as it is.
LEMMA DigestBegins == ASSUME MemoryInv, NEW n \in DOMAIN Digests, DigestProposal(n) PROVE MemoryInv'
<1>1. /\ writer' = [at |-> "open", digest |-> n, done |-> 0, table |-> entities]
      /\ UNCHANGED <<documents, entities, digested>>
  BY DEF DigestProposal, Stored
<1>2. Said' = Said /\ (ShowsLatest' <=> ShowsLatest)
  BY <1>1 DEF Said, ShowsLatest, LatestAt
<1>3. MentionsOf(Len(digested) + 1, n, 0) = {}
  BY MentionsGrow
<1>4. 0 \in 0 .. Len(Mentions(Digests[n]))
  BY SayingsAreLists
<1>5. WriterOK'
  BY <1>1, <1>2, <1>3, <1>4 DEF WriterOK, MemoryInv
<1> QED
  BY <1>1, <1>2, <1>5 DEF MemoryInv

\* A mention is stored: it is newer than all that was committed, and no older
\* than those stored before it.
LEMMA MentionIsStored == ASSUME MemoryInv, StoreMention PROVE MemoryInv'
<1>p. PICK n, k, turn, table : n = writer.digest /\ k = writer.done /\ turn = Len(digested) + 1 /\ table = writer.table
  OBVIOUS
<1>q. PICK mention : mention = Mentions(Digests[n])[k + 1]
  OBVIOUS
<1>1. /\ writer.at = "open" /\ k + 1 \in DOMAIN Mentions(Digests[n])
      /\ writer' = [at |-> "open", digest |-> n, done |-> k + 1,
                    table |-> UpsertEntity(table, mention.name, n, mention.confidence)]
      /\ UNCHANGED <<documents, entities, digested>>
  BY <1>p, <1>q DEF StoreMention, Stored
<1>2. writer # NoWriter
  BY <1>1 DEF NoWriter
<1>3. /\ n \in DOMAIN Digests /\ k \in 0 .. Len(Mentions(Digests[n]))
      /\ Knows(table, Said \cup MentionsOf(turn, n, k)) /\ digested \in Seq(DOMAIN Digests)
  BY <1>p, <1>2 DEF MemoryInv, WriterOK
<1>4. /\ Len(Mentions(Digests[n])) \in Nat /\ k \in Nat /\ k + 1 \in 0 .. Len(Mentions(Digests[n]))
      /\ mention.confidence \in Int
  BY <1>q, <1>1, <1>3, SayingsAreLists
<1>5. turn \in Int /\ Len(digested) \in Nat /\ turn = Len(digested) + 1
  BY <1>p, <1>3, LenProperties
<1>6. \A m \in Said \cup MentionsOf(turn, n, k) : m.confidence \in Int /\ m.at \in Int /\ m.at <= turn
  <2>1. \A m \in Said : m.at \in Int /\ m.confidence \in Int /\ m.at <= Len(digested)
    BY <1>3, SaidIsTyped
  <2>2. \A m \in MentionsOf(turn, n, k) : m.at = turn /\ m.at \in Int /\ m.confidence \in Int
    BY <1>3, <1>5, MentionsAreTyped
  <2> QED
    BY <1>5, <2>1, <2>2
<1>7. Knows(UpsertEntity(table, mention.name, n, mention.confidence),
            (Said \cup MentionsOf(turn, n, k))
              \cup {[at |-> turn, name |-> mention.name, confidence |-> mention.confidence, evidence |-> n]})
  BY <1>3, <1>4, <1>5, <1>6, UpsertKeepsTheBest
<1>8. MentionsOf(turn, n, k + 1)
        = MentionsOf(turn, n, k) \cup {[at |-> turn, name |-> mention.name, confidence |-> mention.confidence, evidence |-> n]}
  BY <1>q, <1>4, MentionsGrow
<1>9. (Said \cup MentionsOf(turn, n, k))
          \cup {[at |-> turn, name |-> mention.name, confidence |-> mention.confidence, evidence |-> n]}
        = Said \cup MentionsOf(turn, n, k + 1)
  BY <1>8
<1>10. Knows(UpsertEntity(table, mention.name, n, mention.confidence), Said \cup MentionsOf(turn, n, k + 1))
  BY <1>7, <1>9
<1>11. Said' = Said /\ (ShowsLatest' <=> ShowsLatest) /\ Len(digested') + 1 = turn
  BY <1>p, <1>1 DEF Said, ShowsLatest, LatestAt
<1>12. WriterOK'
  BY <1>1, <1>3, <1>4, <1>10, <1>11 DEF WriterOK
<1> QED
  BY <1>1, <1>11, <1>12 DEF MemoryInv

\* The commit adds the digest, and its mentions to what was said.
LEMMA DigestIsCommitted == ASSUME MemoryInv, CommitDigest PROVE MemoryInv'
<1>p. PICK n, turn : n = writer.digest /\ turn = Len(digested) + 1
  OBVIOUS
<1>1. /\ writer.at = "open" /\ writer.done = Len(Mentions(Digests[n]))
      /\ documents' = Upserted(documents, Digests[n].path, n)
      /\ entities' = writer.table /\ digested' = Append(digested, n) /\ writer' = NoWriter
  BY <1>p DEF CommitDigest
<1>2. writer # NoWriter
  BY <1>1 DEF NoWriter
<1>3. /\ n \in DOMAIN Digests /\ digested \in Seq(DOMAIN Digests)
      /\ Knows(writer.table, Said \cup MentionsOf(turn, n, Len(Mentions(Digests[n]))))
  BY <1>p, <1>1, <1>2 DEF MemoryInv, WriterOK
<1>4. /\ digested' \in Seq(DOMAIN Digests) /\ DOMAIN digested = 1 .. Len(digested) /\ Len(digested) \in Nat
      /\ DOMAIN digested' = 1 .. turn /\ turn = Len(digested) + 1 /\ digested'[turn] = n
      /\ \A i \in DOMAIN digested : digested'[i] = digested[i]
  BY <1>p, <1>1, <1>3, AppendProperties, LenProperties
<1>5. DOMAIN digested' = DOMAIN digested \cup {turn} /\ turn \notin DOMAIN digested
  BY <1>4
<1>6. Said' = Said \cup MentionsOf(turn, n, Len(Mentions(Digests[n])))
  <2>1. ASSUME NEW i \in DOMAIN digested
        PROVE  MentionsOf(i, digested'[i], Len(Mentions(Digests[digested'[i]])))
                 = MentionsOf(i, digested[i], Len(Mentions(Digests[digested[i]])))
    BY <1>4
  <2>2. MentionsOf(turn, digested'[turn], Len(Mentions(Digests[digested'[turn]])))
          = MentionsOf(turn, n, Len(Mentions(Digests[n])))
    BY <1>4
  <2>3. Said' = UNION {MentionsOf(i, digested'[i], Len(Mentions(Digests[digested'[i]]))) : i \in DOMAIN digested'}
    BY DEF Said
  <2> QED
    BY <1>5, <2>1, <2>2, <2>3 DEF Said
<1>7. Knows(entities', Said')
  BY <1>1, <1>3, <1>6
<1>8. ShowsLatest'
  <2> DEFINE path == Digests[n].path
  <2>1. /\ DOMAIN documents' = DOMAIN documents \cup {path} /\ documents'[path] = n
        /\ \A x \in DOMAIN documents : x # path => documents'[x] = documents[x]
    BY <1>1 DEF Upserted
  <2>2. DOMAIN documents = {Digests[digested[i]].path : i \in DOMAIN digested}
    BY DEF MemoryInv, ShowsLatest
  <2>3. DOMAIN documents' = {Digests[digested'[i]].path : i \in DOMAIN digested'}
    BY <1>4, <1>5, <2>1, <2>2
  <2>4. turn \in LatestAt(path)'
    BY <1>4 DEF LatestAt
  <2>5. ASSUME NEW x \in DOMAIN documents, x # path
        PROVE  \E i \in LatestAt(x)' : documents[x] = digested'[i]
    <3>1. PICK i \in LatestAt(x) : documents[x] = digested[i]
      BY DEF MemoryInv, ShowsLatest
    <3>2. i \in DOMAIN digested /\ Digests[digested[i]].path = x
          /\ \A j \in DOMAIN digested : Digests[digested[j]].path = x => j <= i
      BY <3>1 DEF LatestAt
    <3>3. i \in LatestAt(x)'
      BY <1>4, <1>5, <2>5, <3>2 DEF LatestAt
    <3> QED
      BY <1>4, <3>1, <3>2, <3>3
  <2>6. ASSUME NEW x \in DOMAIN documents'
        PROVE  \E i \in LatestAt(x)' : documents'[x] = digested'[i]
    <3>1. CASE x = path
      BY <1>4, <2>1, <2>4, <3>1
    <3>2. CASE x # path
      BY <2>1, <2>5, <2>6, <3>2
    <3> QED
      BY <3>1, <3>2
  <2> QED
    BY <2>3, <2>6 DEF ShowsLatest
<1> QED
  BY <1>1, <1>4, <1>7, <1>8 DEF MemoryInv, WriterOK

\* Whatever is digested, in whatever order and however often, and wherever a
\* digest dies, entities and documents show the best of what was committed
\* (memory.py, digest_proposal and _upsert_entity).
THEOREM KnownByTheBestAlways == MemSpec => []KnownByTheBest
<1>1. MemoryInv /\ UNCHANGED <<documents, entities, digested>> /\ writer' \in {writer, NoWriter} => MemoryInv'
  <2> SUFFICES ASSUME MemoryInv, UNCHANGED <<documents, entities, digested>>, writer' \in {writer, NoWriter}
               PROVE  MemoryInv'
    OBVIOUS
  <2>1. Said' = Said /\ (ShowsLatest' <=> ShowsLatest)
    BY DEF Said, ShowsLatest, LatestAt
  <2>2. WriterOK'
    BY <2>1 DEF WriterOK, MemoryInv
  <2> QED
    BY <2>1, <2>2 DEF MemoryInv
<1>2. MemoryInv /\ DigestNext => MemoryInv'
  <2>1. DigestDies => UNCHANGED <<documents, entities, digested>> /\ writer' \in {writer, NoWriter}
    BY DEF DigestDies, Stored
  <2> QED
    BY <1>1, <2>1, DigestBegins, MentionIsStored, DigestIsCommitted DEF DigestNext
<1>3. RememberCore \/ ForgetCore \/ PromoteToRecall \/ RecallSearch \/ StoreCapture \/ ToolNext \/ UNCHANGED memVars
        => UNCHANGED <<documents, entities, digested, writer>>
  BY DEF RememberCore, ForgetCore, OnlyCore, PromoteToRecall, RecallSearch, OnlyRecall, StoreCapture, tables,
         ToolNext, CreateFile, DeleteFile, RenameFile, StrReplace, InsertLine, WriteText, ToolOnly, memVars
<1>4. MemoryInv /\ [MemNext]_memVars => MemoryInv'
  BY <1>1, <1>2, <1>3 DEF MemNext, MemoryTablesNext
<1>5. MemoryInv => KnownByTheBest
  BY DEF MemoryInv, KnownByTheBest
<1> QED
  BY <1>4, <1>5, MemoryInitially, PTL DEF MemSpec

=============================================================================
