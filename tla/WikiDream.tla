------------------------------ MODULE WikiDream ------------------------------
(***************************************************************************)
(* From a retrieval to the findings of the dream.  A retrieval persists    *)
(* its evidence in a directory of its own, the manifest last               *)
(* (retrieval/evidence.py); wiki-ingest copies the evidence of a run into  *)
(* the vault and proposes a synthesis page with candidate claims           *)
(* (knowledge_plane.py); a dream reads what was retrieved since the last   *)
(* one and looks for patterns (wiki_dream.py).  Dreams are run by the      *)
(* weekly schedule and by hand, with options, and may overlap.             *)
(*                                                                         *)
(* Time is counted in halves of a second, because a manifest is stamped    *)
(* with the second and a dream with the microsecond.  A record is the      *)
(* source it cites; the statement of a claim is the first sentence of its  *)
(* source.  Approval and the files of an apply are in ProposalGate and     *)
(* WikiPages: a proposed page is applied here in one step.                 *)
(***************************************************************************)
EXTENDS Integers, Sequences, FiniteSets

CONSTANTS
    Sources,        \* canonical ids
    Queries,        \* queries, and so the titles of the pages made from them
    Dreamers,       \* processes that dream
    MaxRuns,        \* bound on the retrievals
    MaxHits,        \* bound on the records of a retrieval
    EndOfTime,      \* bound on the clock
    Options,        \* the options of a dream: [full, update, rules]
    Window,         \* since_days
    RefreshAfter    \* age at which a page may be refreshed

ASSUME DreamAssumption ==
    /\ {MaxRuns, MaxHits, EndOfTime, Window, RefreshAfter} \subseteq Nat
    /\ Options \subseteq [full : BOOLEAN, update : BOOLEAN, rules : {"all", "narrow"}]

Runs == 1 .. MaxRuns
Hits == UNION {[1 .. n -> Sources] : n \in 1 .. MaxHits}

VARIABLES
    clock,
    run,            \* run[r]: [at, hits, query, stamp]
    raw,            \* the files under vault/raw: [run, number], run 0: by hand
    refs,           \* the raw files that records under vault/evidence refer to
    page,           \* page[q]: [sources, from] of the synthesis on q, or NoPage
    claims,         \* the open claims: [id, statement, path]
    watermark,      \* last_dream_at, -1: there was none
    dream,          \* dream[d]: [at, now, since, rules, update, found]
    seen,           \* runs that a dream over all rules has read
    excused         \* runs that no such dream may read any more, and why it is known

dreamVars == <<clock, run, raw, refs, page, claims, watermark, dream, seen, excused>>

NoRun == [at |-> "none", hits |-> <<>>, query |-> "none", stamp |-> 0]
Unwritten == [sources |-> {}, from |-> -1]
Awake == [at |-> "awake", now |-> 0, since |-> 0, rules |-> "all", update |-> TRUE, found |-> {}]

DreamInit ==
    /\ clock = 0
    /\ run = [r \in Runs |-> NoRun]
    /\ raw = {[run |-> 0, number |-> 1]} /\ refs = {}
    /\ page = [q \in Queries |-> Unwritten] /\ claims = {}
    /\ watermark = -1
    /\ dream = [d \in Dreamers |-> Awake]
    /\ seen = {} /\ excused = {}

-----------------------------------------------------------------------------
(* Retrieval and ingest. *)

Tick == /\ clock < EndOfTime
        /\ clock' = clock + 1
        /\ UNCHANGED <<run, raw, refs, page, claims, watermark, dream, seen, excused>>

\* EvidenceStore.write, up to the stamp of the manifest.
WriteEvidence(r, q, hits) ==
    /\ run[r].at = "none" /\ \A earlier \in 1 .. r - 1 : run[earlier].at # "none"
    /\ run' = [run EXCEPT ![r] = [at |-> "evidence", hits |-> hits, query |-> q, stamp |-> 2 * (clock \div 2)]]
    /\ UNCHANGED <<clock, raw, refs, page, claims, watermark, dream, seen, excused>>

\* The window of dreams has moved beyond a stamp: the watermark has, or that of a
\* dream which is not over yet.
Passed(stamp) ==
    \/ watermark > stamp
    \/ \E d \in Dreamers : \/ dream[d].at = "load" /\ dream[d].since > stamp
                           \/ dream[d].at = "save" /\ dream[d].now > stamp

WriteManifest(r) ==
    /\ run[r].at = "evidence"
    /\ run' = [run EXCEPT ![r].at = "whole"]
    /\ excused' = IF Passed(run[r].stamp) THEN excused \cup {r} ELSE excused
    /\ UNCHANGED <<clock, raw, refs, page, claims, watermark, dream, seen>>

Numbered(r) == {[run |-> r, number |-> n] : n \in DOMAIN run[r].hits}

\* ingest_retrieval_evidence: one raw file and one evidence record for each hit.
Ingest(r) ==
    /\ run[r].at = "whole"
    /\ run' = [run EXCEPT ![r].at = "ingested"]
    /\ raw' = raw \cup Numbered(r) /\ refs' = refs \cup Numbered(r)
    /\ UNCHANGED <<clock, page, claims, watermark, dream, seen, excused>>

\* One claim for each statement, named by its query and source.
Candidates(r) == {[id |-> <<run[r].query, run[r].hits[n]>>, statement |-> run[r].hits[n], path |-> run[r].query] :
                    n \in DOMAIN run[r].hits}

Synthesis(r) == [sources |-> {run[r].hits[n] : n \in DOMAIN run[r].hits}, from |-> clock]

\* The approved proposal: the page of an earlier run on the same query is written
\* over, its claims stay.
ApplySynthesis(r) ==
    /\ run[r].at = "ingested"
    /\ run' = [run EXCEPT ![r].at = "applied"]
    /\ page' = [page EXCEPT ![run[r].query] = Synthesis(r)]
    /\ claims' = claims \cup {c \in Candidates(r) : \A old \in claims : old.id # c.id}
    /\ UNCHANGED <<clock, raw, refs, watermark, dream, seen, excused>>

-----------------------------------------------------------------------------
(* The rules, over records that are [source, raw]. *)

\* Evidence files say what was retrieved; where its raw copy lies is only in the
\* records under vault/evidence.
Evidence(runs) == UNION {{[source |-> run[r].hits[n], run |-> r, number |-> n, raw |-> {}] :
                             n \in DOMAIN run[r].hits} : r \in runs}

Of(evidence, s) == {e \in evidence : e.source = s}
Citing(s) == {q \in Queries : s \in page[q].sources}

ClusterCanonical(evidence) ==
    {[rule |-> "cluster_canonical", on |-> s] : s \in {t \in Sources : Cardinality(Of(evidence, t)) >= 2 /\ Citing(t) = {}}}

StatementCluster ==
    {[rule |-> "statement_cluster", on |-> s] :
        s \in {t \in Sources : LET same == {c \in claims : c.statement = t}
                               IN Cardinality(same) >= 3 /\ Cardinality({c.path : c \in same}) >= 2}}

RawOrphan(evidence) == {[rule |-> "raw_orphan", on |-> f] : f \in raw \ UNION {e.raw : e \in evidence}}

StaleActive(evidence, now) ==
    {[rule |-> "stale_active", on |-> q] :
        q \in {p \in Queries : \E s \in page[p].sources : Cardinality(Of(evidence, s)) >= 3
                                                          /\ page[p].from <= now - RefreshAfter}}

-----------------------------------------------------------------------------
(* run_dream. *)

Bigger(a, b) == IF a > b THEN a ELSE b

Since(full, now) == IF full THEN -1
                    ELSE Bigger(now - Window, IF watermark = -1 THEN now - Window ELSE watermark)

FallAsleep(d, o) ==
    /\ dream[d] = Awake
    /\ dream' = [dream EXCEPT ![d] = [at |-> "load", now |-> clock, since |-> Since(o.full, clock),
                                      rules |-> o.rules, update |-> o.update, found |-> {}]]
    \* The schedule was late: what is older than the window and was not read yet.
    /\ excused' = excused \cup {r \in Runs : /\ run[r].at # "none" /\ run[r].stamp < Since(o.full, clock)
                                             /\ o.update /\ Since(o.full, clock) > watermark}
    /\ UNCHANGED <<clock, run, raw, refs, page, claims, watermark, seen>>

\* Mutant: the window is open at its old end.
InWindowAfter(r, since) == run[r].at \in {"whole", "ingested", "applied"} /\ run[r].stamp > since

InWindow(r, since) == run[r].at \in {"whole", "ingested", "applied"} /\ run[r].stamp >= since

\* The rules of a narrowed dream are taken to be the two that read no evidence of
\* retrievals; it moves the watermark all the same.
Look(d) ==
    /\ dream[d].at = "load"
    /\ LET read == {r \in Runs : InWindow(r, dream[d].since)}
           evidence == Evidence(read)
           narrow == dream[d].rules # "all"
       IN /\ dream' = [dream EXCEPT ![d].at = "save",
                         ![d].found = StatementCluster \cup RawOrphan(evidence)
                             \cup IF narrow THEN {} ELSE ClusterCanonical(evidence) \cup StaleActive(evidence, dream[d].now)]
          /\ seen' = IF narrow THEN seen ELSE seen \cup read
          /\ excused' = IF narrow /\ dream[d].update THEN excused \cup read ELSE excused
    /\ UNCHANGED <<clock, run, raw, refs, page, claims, watermark>>

\* The findings are stored and the state file is written over, also with an older
\* time than it has.
WakeUp(d) ==
    /\ dream[d].at = "save"
    /\ watermark' = IF dream[d].update THEN dream[d].now ELSE watermark
    /\ dream' = [dream EXCEPT ![d] = Awake]
    /\ UNCHANGED <<clock, run, raw, refs, page, claims, seen, excused>>

DreamDies(d) ==
    /\ dream[d] # Awake
    /\ dream' = [dream EXCEPT ![d] = Awake]
    /\ UNCHANGED <<clock, run, raw, refs, page, claims, watermark, seen, excused>>

DreamNext ==
    \/ Tick
    \/ \E r \in Runs : \/ \E q \in Queries : \E hits \in Hits : WriteEvidence(r, q, hits)
                       \/ WriteManifest(r) \/ Ingest(r) \/ ApplySynthesis(r)
    \/ \E d \in Dreamers : \/ \E o \in Options : FallAsleep(d, o)
                           \/ Look(d) \/ WakeUp(d) \/ DreamDies(d)

-----------------------------------------------------------------------------

\* A retrieval is passed over by every dream only if the dreams were further apart
\* than their window, if one was narrowed to other rules, or if its manifest landed
\* in or before the second in which a dream read: the windows join without a gap,
\* whatever overlaps, dies or writes the state file out of order.
NoRunIsPassedOver ==
    \A r \in Runs : (InWindow(r, -1) /\ run[r].stamp < watermark) => r \in seen \cup excused

-----------------------------------------------------------------------------
\* "Raw without evidence - when a file lives in vault/raw/ but no evidence.jsonl
\* references it, propose running wiki-ingest over it" (src/omni_hub/wiki_dream.py:27):
\* no file that an ingest wrote from its evidence is reported.
IngestedRawHasEvidence ==
    \A d \in Dreamers : \A finding \in dream[d].found : finding.rule = "raw_orphan" => finding.on \notin refs
=============================================================================
