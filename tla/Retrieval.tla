------------------------------ MODULE Retrieval ------------------------------
(***************************************************************************)
(* The cascade of retrieval sources (retrieval/cascade.py) and the cache   *)
(* that all processes of a workspace share (retrieval/cache.py).           *)
(*                                                                         *)
(* A process asks the sources of a plan.  It looks each one up in the      *)
(* cache, sends the others off together, one thread each, and waits until  *)
(* all are done or its patience is over.  Then it goes over the calls      *)
(* twice, once for those to collect and once for those to report as late,  *)
(* while the threads go on, and last it collects and caches what came.     *)
(* One query in one domain is modelled; what a source says is named by     *)
(* the time at which it said it.  Time passes at any place: a process may  *)
(* stall or wait for the cache's database anywhere, and the cache takes    *)
(* the time before it goes to the database.                                *)
(*                                                                         *)
(* The second part is the order of the answer: fusion, duplicates, grades, *)
(* limit and reranking, as operators on the lists the sources gave.        *)
(***************************************************************************)
EXTENDS Integers, Sequences, FiniteSets
LOCAL INSTANCE FiniteSetsExt
LOCAL INSTANCE SequencesExt

CONSTANTS
    Seekers,        \* processes that run a cascade
    Cascades,       \* Cascades[p]: the sequences of source names that process p asks for
    Ttl,            \* Ttl[s]: how long an answer of source s is fresh
    Patience,       \* how long a cascade waits for its sources
    MaxTime,        \* bound on time
    MaxAsks         \* bound on the cascades ever run

Registered == DOMAIN Ttl

ASSUME RetrievalAssumption ==
    /\ \A p \in Seekers : \A plan \in Cascades[p] : plan \in Seq(STRING)
    /\ \A s \in Registered : Ttl[s] \in Nat \ {0}
    /\ Patience \in Nat \ {0} /\ MaxTime \in Nat /\ MaxAsks \in Nat

VARIABLES
    now,
    asks,           \* how many cascades were run
    cache,          \* cache[s]: [batch, expires] of the row of source s, if it has one
    seek            \* seek[p]: the cascade of process p

retrievalVars == <<now, asks, cache, seek>>

\* since: when p came to what it does now.
NoSeek == [at |-> "idle", plan |-> <<>>, cached |-> FALSE, next |-> 1, since |-> 0, impatient |-> FALSE,
           call |-> <<>>, completed |-> {}, errors |-> {}, told |-> <<>>]

RetrievalInit == /\ now = 0 /\ asks = 0 /\ cache = << >>
                 /\ seek = [p \in Seekers |-> NoSeek]

With(f, s, value) == [t \in DOMAIN f \cup {s} |-> IF t = s THEN value ELSE f[t]]

\* The places in the plan of p whose calls stand so.
CallsOf(p, state) == {i \in DOMAIN seek[p].call : seek[p].call[i].state = state}
Call(state, batch) == [state |-> state, batch |-> batch]

\* What time.time() can have told p since it came to what it does now.
Stamps(p) == seek[p].since .. now

-----------------------------------------------------------------------------

\* A source that is not registered is an error before anything is looked up.
Seek(p, plan, cached) ==
    /\ seek[p].at \in {"idle", "answered"} /\ asks < MaxAsks
    /\ asks' = asks + 1
    /\ seek' = [seek EXCEPT ![p] = [NoSeek EXCEPT !.at = "looking", !.plan = plan, !.cached = cached, !.since = now,
                                        !.errors = {i \in DOMAIN plan : plan[i] \notin Registered}]]
    /\ UNCHANGED <<now, cache>>

\* TTLCache.get compares the row with the time it took before the query.
Fresh(s, stamp) == s \in DOMAIN cache /\ cache[s].expires > stamp

\* TTLCache.put: the time to live begins when put is called, not when the source
\* answered.
Keep(s, batch, stamp) == cache' = With(cache, s, [batch |-> batch, expires |-> stamp + Ttl[s]])

\* One source is looked up; a hit counts as its success.
LookUp(p) ==
    LET w == seek[p]
        i == w.next
        found(call, told) == seek' = [seek EXCEPT ![p].next = i + 1, ![p].since = now,
                                                  ![p].call = Append(w.call, call), ![p].told = told]
    IN  /\ w.at = "looking" /\ i \in DOMAIN w.plan
        /\ \/ i \in w.errors /\ found(Call("unknown", 0), w.told)
           \/ /\ i \notin w.errors
              /\ \E stamp \in Stamps(p) :
                    IF w.cached /\ Fresh(w.plan[i], stamp)
                    THEN LET batch == cache[w.plan[i]].batch
                         IN  found(Call("hit", batch), With(w.told, w.plan[i], batch))
                    ELSE found(Call("deferred", 0), w.told)
        /\ UNCHANGED <<now, asks, cache>>

\* The misses are sent off together; with none there is nothing to wait for.
Dispatch(p) ==
    LET w == seek[p] IN
    /\ w.at = "looking" /\ w.next > Len(w.plan)
    /\ seek' = [seek EXCEPT ![p].at = IF CallsOf(p, "deferred") = {} THEN "answered" ELSE "waiting",
                              ![p].since = now,
                              ![p].call = [i \in DOMAIN w.call |-> IF w.call[i].state = "deferred" THEN Call("running", 0)
                                                                   ELSE w.call[i]]]
    /\ UNCHANGED <<now, asks, cache>>

\* A thread ends with the records of its source or with an exception; after the
\* second scan nobody looks.
SourceEnds(p, i, state) ==
    /\ seek[p].at \in {"waiting", "picking", "marking"} /\ i \in CallsOf(p, "running")
    /\ seek' = [seek EXCEPT ![p].call[i] = Call(state, IF state = "done" THEN now ELSE 0)]
    /\ UNCHANGED <<now, asks, cache>>

-----------------------------------------------------------------------------

\* Mutant: a call that ended with an exception is not collected.
AllSucceeded(p) ==
    /\ seek[p].at = "waiting" /\ CallsOf(p, "running") = {}
    /\ seek' = [seek EXCEPT ![p].at = "collecting", ![p].next = 1, ![p].since = now,
                              ![p].completed = CallsOf(p, "done")]
    /\ UNCHANGED <<now, asks, cache>>

AllDone(p) ==
    /\ seek[p].at = "waiting" /\ CallsOf(p, "running") = {}
    /\ seek' = [seek EXCEPT ![p].at = "collecting", ![p].next = 1, ![p].since = now,
                              ![p].completed = CallsOf(p, "done") \cup CallsOf(p, "failed")]
    /\ UNCHANGED <<now, asks, cache>>

\* A timeout goes over the calls twice: those done are picked, then those not done
\* are reported.  By then all may be done: as_completed has not looked since.
TimesOut(p) ==
    /\ seek[p].at = "waiting" /\ now >= seek[p].since + Patience
    /\ seek' = [seek EXCEPT ![p].at = "picking", ![p].next = 1, ![p].since = now,
                              ![p].impatient = TRUE]
    /\ UNCHANGED <<now, asks, cache>>

\* One call is looked at, in the scan that is under way.
Pick(p) ==
    LET w == seek[p] IN
    /\ w.at = "picking" /\ w.next \in DOMAIN w.call
    /\ seek' = [seek EXCEPT ![p].next = w.next + 1,
                              ![p].completed = IF w.call[w.next].state \in {"done", "failed"} THEN @ \cup {w.next} ELSE @]
    /\ UNCHANGED <<now, asks, cache>>

MarkLate(p) ==
    LET w == seek[p] IN
    /\ w.at = "marking" /\ w.next \in DOMAIN w.call
    /\ seek' = [seek EXCEPT ![p].next = w.next + 1,
                              ![p].errors = IF w.call[w.next].state = "running" THEN @ \cup {w.next} ELSE @]
    /\ UNCHANGED <<now, asks, cache>>

EndScan(p) ==
    LET w == seek[p] IN
    /\ w.at \in {"picking", "marking"} /\ w.next > Len(w.call)
    /\ seek' = [seek EXCEPT ![p].next = 1, ![p].since = now,
                              ![p].at = IF w.at = "picking" THEN "marking" ELSE "collecting"]
    /\ UNCHANGED <<now, asks, cache>>

\* What one call brought is kept and cached; a cache that cannot be written does
\* not matter.
Collect(p) ==
    LET w == seek[p] IN
    \E i \in w.completed :
       LET s == w.plan[i] IN
       /\ w.at = "collecting"
       /\ IF w.call[i].state = "failed"
          THEN /\ seek' = [seek EXCEPT ![p].completed = @ \ {i}, ![p].errors = @ \cup {i}, ![p].since = now]
               /\ UNCHANGED cache
          ELSE /\ seek' = [seek EXCEPT ![p].completed = @ \ {i},
                              ![p].told = With(w.told, s, w.call[i].batch),
                              ![p].call[i].state = "told", ![p].since = now]
               /\ \/ w.cached /\ \E stamp \in Stamps(p) : Keep(s, w.call[i].batch, stamp)
                  \/ UNCHANGED cache
       /\ UNCHANGED <<now, asks>>

Answered(p) ==
    /\ seek[p].at = "collecting" /\ seek[p].completed = {}
    /\ seek' = [seek EXCEPT ![p].at = "answered", ![p].since = 0]
    /\ UNCHANGED <<now, asks, cache>>

SeekerDies(p) ==
    /\ seek[p].at \notin {"idle", "answered"}
    /\ seek' = [seek EXCEPT ![p] = NoSeek]
    /\ UNCHANGED <<now, asks, cache>>

Tick ==
    /\ now < MaxTime
    /\ now' = now + 1
    /\ UNCHANGED <<asks, cache, seek>>

RetrievalNext ==
    \/ Tick
    \/ \E p \in Seekers :
          \/ \E plan \in Cascades[p], cached \in BOOLEAN : Seek(p, plan, cached)
          \/ LookUp(p) \/ Dispatch(p) \/ AllDone(p) \/ TimesOut(p) \/ Pick(p) \/ MarkLate(p) \/ EndScan(p)
          \/ \E i \in DOMAIN seek[p].call, state \in {"done", "failed"} : SourceEnds(p, i, state)
          \/ Collect(p) \/ Answered(p) \/ SeekerDies(p)

RetrievalSpec == RetrievalInit /\ [][RetrievalNext]_retrievalVars

-----------------------------------------------------------------------------
\* An answer accounts for its plan: a source is in the answer or among the errors
\* and never both, and what is in the answer is the batch of a source that
\* succeeded, however long anything takes.  A source can be passed over in silence
\* only by ending between the two scans of a timeout.
AnswerAddsUp ==
    \A p \in Seekers :
       LET w == seek[p]
           ok == CallsOf(p, "hit") \cup CallsOf(p, "told")
           silent == DOMAIN w.plan \ (ok \cup w.errors)
       IN w.at = "answered" =>
             /\ ok \cap w.errors = {}
             /\ silent # {} => w.impatient
             /\ \A i \in silent : w.call[i].state \in {"done", "failed"}
             /\ DOMAIN w.told = {w.plan[i] : i \in ok}
             /\ \A s \in DOMAIN w.told : \E i \in ok : w.plan[i] = s /\ w.told[s] = w.call[i].batch

-----------------------------------------------------------------------------
(* The order of an answer.  A record is [cid, url, title, source]; 0 is a   *)
(* field that the source left empty.                                        *)

RRF_K == 60
ExactScores == 61 * 62 * 63          \* in this unit the scores of the first three ranks are whole numbers

IdentityKey(rec) ==
    CASE rec.cid # 0 -> <<"cid", rec.cid>>
      [] rec.cid = 0 /\ rec.url # 0 -> <<"url", rec.url>>
      [] OTHER -> <<"st", rec.source, rec.title>>

\* Where a record is: the list and its rank there.
Places(lists, key) ==
    UNION {{<<n, rank>> : rank \in {r \in DOMAIN lists[n] : IdentityKey(lists[n][r]) = key}} : n \in DOMAIN lists}

\* Mutant: the constant that flattens the ranks is forgotten.
ScoreSteep(lists, key) ==
    MapThenSumSet(LAMBDA at : ExactScores \div at[2],
                  Places(lists, key))

Score(lists, key) ==
    MapThenSumSet(LAMBDA at : ExactScores \div (RRF_K + at[2]),
                  Places(lists, key))

\* The first record of each identity, by falling score and then by appearance.
ReciprocalRankFusion(lists) ==
    LET all == FlattenSeq(lists)
        firsts == {i \in DOMAIN all : \A j \in 1 .. i - 1 : IdentityKey(all[j]) # IdentityKey(all[i])}
        score == [i \in firsts |-> Score(lists, IdentityKey(all[i]))]
        Before(i, j) == score[i] > score[j] \/ (score[i] = score[j] /\ i < j)
    IN  [n \in 1 .. Cardinality(firsts) |-> all[CHOOSE i \in firsts : Cardinality({j \in firsts : Before(j, i)}) = n - 1]]

\* An id that was seen drops the record; so does a url, after the id was noted.
DedupRecords(records) ==
    LET Cid(rec) == IF rec.cid # 0 THEN {<<"cid", rec.cid>>} ELSE {}
        Url(rec) == IF rec.url # 0 THEN {<<"url", rec.url>>} ELSE {}
        Step(kept, rec) ==
            IF Cid(rec) \cap kept.seen # {} THEN kept
            ELSE IF Url(rec) \cap kept.seen # {} THEN [kept EXCEPT !.seen = @ \cup Cid(rec)]
            ELSE [seen |-> kept.seen \cup Cid(rec) \cup Url(rec), out |-> Append(kept.out, rec)]
    IN  FoldLeft(Step, [seen |-> {}, out |-> <<>>], records).out

Graded(records, incorrect) == SelectSeq(records, LAMBDA rec : rec \notin incorrect)

Limited(records, limit) == SubSeq(records, 1, IF Len(records) > limit THEN limit ELSE Len(records))

\* A reranker answers with places in the list; places outside it are skipped, and
\* an answer without any leaves the list as it is.
Reranked(records, reply) ==
    LET ranked == SelectSeq(reply, LAMBDA i : i \in DOMAIN records)
    IN  IF ranked = <<>> THEN records ELSE [n \in DOMAIN ranked |-> records[ranked[n]]]

Ranked(lists, fusion, incorrect, limit, reply) ==
    LET fused == DedupRecords(IF fusion = "rrf" THEN ReciprocalRankFusion(lists) ELSE FlattenSeq(lists))
    IN  Reranked(Limited(Graded(fused, incorrect), limit), reply)

-----------------------------------------------------------------------------
\* "A record appearing in 2 sources ranks above one in 1" (cascade.py:18-19), for
\* lists without a repetition in themselves; no id and no url is in an answer
\* twice; and only what shares an id or a url with another record, what was graded
\* incorrect and what is beyond the limit is missing.
AgreementComesFirst(lists, fusion, incorrect, limit, reply) ==
    LET answer == Ranked(lists, fusion, incorrect, limit, reply)
        Lists(rec) == {n \in DOMAIN lists : \E i \in DOMAIN lists[n] : IdentityKey(lists[n][i]) = IdentityKey(rec)}
        repeats == \E n \in DOMAIN lists : \E i, j \in DOMAIN lists[n] :
                      i # j /\ IdentityKey(lists[n][i]) = IdentityKey(lists[n][j])
        offered == ToSet(FlattenSeq(lists))
        Alike(a, b) == (a.cid # 0 /\ a.cid = b.cid) \/ (a.url # 0 /\ a.url = b.url)
    IN  /\ \A i, j \in DOMAIN answer : i # j => ~Alike(answer[i], answer[j])
        /\ (fusion = "rrf" /\ ~repeats /\ reply = <<>>) =>
              \A i, j \in DOMAIN answer : Cardinality(Lists(answer[i])) > Cardinality(Lists(answer[j])) => i < j
        /\ (Len(answer) < limit /\ reply = <<>>) =>
              \A a \in offered : \/ a \in ToSet(answer) \cup incorrect
                               \/ \E b \in offered : b # a /\ (Alike(a, b) \/ IdentityKey(a) = IdentityKey(b))
=============================================================================
