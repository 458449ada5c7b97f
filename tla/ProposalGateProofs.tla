------------------------- MODULE ProposalGateProofs -------------------------
(***************************************************************************)
(* Proofs about ProposalGate.tla, for any proposals, contents and sessions *)
(* that interleave and die between their store calls.                      *)
(*                                                                         *)
(* The argument: whatever a session holds, a card shows or a reviewer saw  *)
(* had been proposed under its id (Traced), and under a settled id only    *)
(* one content ever was (OneContent): a hash has one content, and a uuid   *)
(* is proposed only while no row has it.  So what a verdict falls on is    *)
(* what was seen, however late the verdict is written.                     *)
(***************************************************************************)
EXTENDS ProposalGate, TLAPS

WasProposed(id, content) == [id |-> id, content |-> content] \in proposed

RowTraced(id) == row[id] # Nothing => WasProposed(id, row[id].content)
CardTraced(id) == card[id] # Nothing => KindOf[id] = "knowledge" /\ WasProposed(id, card[id].content)
JobTraced(s) == job[s] # Nothing => /\ WasProposed(job[s].id, job[s].loaded.content)
                                    /\ job[s].op = "card" => job[s].loaded.state = "pending"
                                    /\ job[s].op \in {"decide", "sync", "prefer"} => WasProposed(job[s].id, job[s].seen)

\* Whatever a table, a card, a session or a feedback line holds was proposed.
Traced == /\ \A id \in Ids : RowTraced(id) /\ CardTraced(id)
          /\ \A s \in Sessions : JobTraced(s)
          /\ \A f \in feedback : WasProposed(f.id, f.content)

\* What was proposed has a row; a settled id was proposed with one content only.
OneContent == /\ \A p \in proposed : row[p.id] # Nothing /\ p.content \in Says[p.id]
              /\ \A p, q \in proposed : p.id = q.id /\ p.id \in Settled => p.content = q.content

\* What a session is about to write has been decided.
JobIsDecided ==
    \A s \in Sessions :
        /\ Do(s, "card") => KindOf[job[s].id] = "knowledge"
        /\ Do(s, "decide") \/ Do(s, "sync") \/ Do(s, "prefer")
               => job[s].verdict \in Verdicts /\ job[s].seen \in Contents
        /\ Do(s, "prefer") => Decided(s) \in given
        /\ Do(s, "apply") => Given(job[s].id, "approved", job[s].loaded.content, job[s].loaded.content)

GateInv == /\ GateTypeOK /\ Traced /\ OneContent /\ JobIsDecided
           /\ VerdictIsOnWhatWasSeen /\ AppliedWasApproved /\ PreferenceHasVerdict

-----------------------------------------------------------------------------

\* The fields of what a session and a table hold.
LEMMA JobFacts ==
    ASSUME GateInv
    PROVE  /\ \A s \in Sessions : job[s] # Nothing =>
                  /\ job[s] \in Job /\ job[s].id \in Ids /\ job[s].loaded \in Proposal
                  /\ job[s].loaded.content \in Contents
           /\ \A id \in Ids : row[id] # Nothing => row[id] \in Proposal
           /\ \A x \in Proposal : x # Nothing /\ x.state \in States /\ x.content \in Contents
<1>1. \A s \in Sessions : job[s] # Nothing => job[s] \in Job
  BY DEF GateInv, GateTypeOK
<1>2. \A x \in Proposal : x # Nothing /\ x.state \in States /\ x.content \in Contents
  BY NothingAssumption DEF Proposal, States
<1>3. \A x \in Job : x.id \in Ids /\ x.loaded \in Proposal
  BY DEF Job
<1>4. \A id \in Ids : row[id] # Nothing => row[id] \in Proposal
  BY DEF GateInv, GateTypeOK
<1> QED BY <1>1, <1>2, <1>3, <1>4

\* Under a settled id, everything that was proposed is the same.
LEMMA SameContent ==
    ASSUME GateInv, NEW id \in Settled, NEW c, NEW d, WasProposed(id, c), WasProposed(id, d)
    PROVE  c = d
<1> DEFINE p == [id |-> id, content |-> c]  q == [id |-> id, content |-> d]
<1>1. p \in proposed /\ q \in proposed
  BY DEF WasProposed
<1>2. p.content = q.content
  BY <1>1 DEF GateInv, OneContent
<1> QED BY <1>2

\* store writes a pending row, and no second content under a settled id.
LEMMA StoreStep ==
    ASSUME GateInv, NEW s \in Sessions, Store(s)
    PROVE  GateInv'
<1>1. PICK id \in Ids, content \in Contents :
        /\ job[s] = Nothing /\ content \in Says[id]
        /\ KindOf[id] = "wiki_update" => row[id] = Nothing
        /\ row' = [row EXCEPT ![id] = Fresh(content)]
        /\ proposed' = proposed \cup {[id |-> id, content |-> content]}
        /\ \/ KindOf[id] = "knowledge" /\ Begin(s, "card", id, Nothing, Nothing, Fresh(content))
           \/ job' = job
        /\ UNCHANGED <<card, feedback, preference, memory, wiki, given>>
  BY DEF Store, Free, Proposable, Upsert
<1>2. /\ Fresh(content) \in Proposal /\ Fresh(content).state = "pending"
      /\ Fresh(content).content = content /\ Fresh(content) # Nothing
  BY JobFacts DEF Fresh, Proposal, States
<1> DEFINE new == [op |-> "card", id |-> id, verdict |-> Nothing, seen |-> Nothing, loaded |-> Fresh(content)]
           said == [id |-> id, content |-> content]
<1>3. new \in Job
  BY <1>2 DEF Job
<1>4. \A r \in Sessions : \/ job'[r] = job[r]
                          \/ r = s /\ job'[r] = new /\ KindOf[id] = "knowledge"
  BY <1>1 DEF Begin, GateInv, GateTypeOK
<1>5. row'[id] = Fresh(content) /\ \A other \in Ids \ {id} : row'[other] = row[other]
  BY <1>1 DEF GateInv, GateTypeOK
<1>6. GateTypeOK'
  BY <1>1, <1>2, <1>3 DEF GateInv, GateTypeOK, Begin
<1>7. proposed \subseteq proposed' /\ said \in proposed'
      /\ \A p \in proposed' : p \in proposed \/ p = said
  BY <1>1
<1>8. Traced'
  <2>1. ASSUME NEW r \in Sessions PROVE JobTraced(r)'
    <3>1. CASE job'[r] = job[r]
      BY <3>1, <1>7 DEF GateInv, Traced, JobTraced, WasProposed
    <3>2. CASE job'[r] = new
      BY <3>2, <1>2, <1>7 DEF JobTraced, WasProposed
    <3> QED BY <1>4, <3>1, <3>2
  <2>2. ASSUME NEW other \in Ids PROVE RowTraced(other)' /\ CardTraced(other)'
    <3>1. CardTraced(other)'
      BY <1>1, <1>7 DEF GateInv, Traced, CardTraced, WasProposed
    <3>2. CASE other = id
      BY <1>2, <1>5, <1>7, <3>1, <3>2 DEF RowTraced, WasProposed
    <3>3. CASE other # id
      BY <1>5, <1>7, <3>1, <3>3 DEF GateInv, Traced, RowTraced, WasProposed
    <3> QED BY <3>2, <3>3
  <2>3. \A f \in feedback' : WasProposed(f.id, f.content)'
    BY <1>1, <1>7 DEF GateInv, Traced, WasProposed
  <2> QED BY <2>1, <2>2, <2>3 DEF Traced
<1>9. OneContent'
  <2>1. \A p \in proposed' : row'[p.id] # Nothing /\ p.content \in Says[p.id]
    <3>1. \A p \in proposed : p.id \in Ids
      BY DEF GateInv, GateTypeOK
    <3> QED BY <1>1, <1>2, <1>5, <1>7, <3>1 DEF GateInv, OneContent
  <2>2. ASSUME NEW p \in proposed, p.id = id, id \in Settled PROVE p.content = content
    <3>1. row[id] # Nothing /\ p.content \in Says[id]
      BY <2>2 DEF GateInv, OneContent
    <3>2. KindOf[id] = "knowledge"
      BY <1>1, <2>2, <3>1, KindAssumption DEF Settled
    <3>3. PICK c \in Contents : Says[id] = {c}
      BY <3>2, KindAssumption
    <3> QED BY <1>1, <3>1, <3>3
  <2>3. \A p, q \in proposed' : p.id = q.id /\ p.id \in Settled => p.content = q.content
    <3>1. said.id = id /\ said.content = content
      OBVIOUS
    <3> QED BY <1>7, <2>2, <3>1 DEF GateInv, OneContent
  <2> QED BY <2>1, <2>3 DEF OneContent
<1>10. JobIsDecided'
  BY <1>1, <1>4 DEF GateInv, JobIsDecided, Do, Decided, Given
<1>11. VerdictIsOnWhatWasSeen'
  <2>1. \A other \in Settled : other \in Ids
    BY DEF Settled
  <2> QED BY <1>1, <1>2, <1>5, <2>1 DEF GateInv, VerdictIsOnWhatWasSeen, Given
<1>12. AppliedWasApproved' /\ PreferenceHasVerdict'
  BY <1>1 DEF GateInv, AppliedWasApproved, PreferenceHasVerdict, Given
<1> QED BY <1>6, <1>8, <1>9, <1>10, <1>11, <1>12 DEF GateInv

\* A session that has loaded something and written nothing yet.
LEMMA BeginStep ==
    ASSUME GateInv, NEW s \in Sessions, NEW op \in {"decide", "sync", "digest", "apply"},
           NEW id \in Ids, NEW verdict \in Verdicts \cup {Nothing}, NEW seen \in Contents \cup {Nothing},
           NEW loaded \in Proposal,
           Begin(s, op, id, verdict, seen, loaded), UNCHANGED <<stores, given, proposed>>,
           WasProposed(id, loaded.content),
           op \in {"decide", "sync"} => verdict \in Verdicts /\ seen \in Contents /\ WasProposed(id, seen),
           op = "apply" => Given(id, "approved", loaded.content, loaded.content)
    PROVE  GateInv'
<1> DEFINE new == [op |-> op, id |-> id, verdict |-> verdict, seen |-> seen, loaded |-> loaded]
<1>1. new \in Job
  BY DEF Job
<1>2. /\ job'[s] = new /\ \A r \in Sessions \ {s} : job'[r] = job[r]
      /\ UNCHANGED <<row, card, feedback, preference, memory, wiki, given, proposed>>
  BY DEF Begin, GateInv, GateTypeOK, stores
<1>3. GateTypeOK'
  BY <1>1, <1>2 DEF GateInv, GateTypeOK, Begin
<1>4. Traced'
  <2>1. ASSUME NEW r \in Sessions PROVE JobTraced(r)'
    <3>1. CASE r = s
      BY <1>2, <3>1 DEF JobTraced, WasProposed
    <3>2. CASE r # s
      BY <1>2, <3>2 DEF GateInv, Traced, JobTraced, WasProposed
    <3> QED BY <3>1, <3>2
  <2> QED BY <1>2, <2>1 DEF GateInv, Traced, RowTraced, CardTraced, WasProposed
<1>5. JobIsDecided'
  BY <1>2 DEF GateInv, JobIsDecided, Do, Decided, Given
<1>6. OneContent' /\ VerdictIsOnWhatWasSeen' /\ AppliedWasApproved' /\ PreferenceHasVerdict'
  BY <1>2 DEF GateInv, OneContent, VerdictIsOnWhatWasSeen, AppliedWasApproved, PreferenceHasVerdict, Given
<1> QED BY <1>3, <1>4, <1>5, <1>6 DEF GateInv

\* The four operations that load: what they load is in the table or on a card.
LEMMA LoadStep ==
    ASSUME GateInv, NEW s \in Sessions,
           Fetch(s) \/ FetchFeedback(s) \/ LoadForDigest(s) \/ LoadForApply(s)
    PROVE  GateInv'
<1>1. ASSUME Fetch(s) PROVE GateInv'
  <2>1. PICK id \in Ids, v \in Verdicts, seen \in Contents :
           /\ row[id] # Nothing /\ [id |-> id, content |-> seen] \in proposed
           /\ Begin(s, "decide", id, v, seen, row[id]) /\ UNCHANGED <<stores, given, proposed>>
    BY <1>1 DEF Fetch
  <2>2. row[id] \in Proposal /\ WasProposed(id, row[id].content) /\ WasProposed(id, seen)
    BY <2>1, JobFacts DEF GateInv, Traced, RowTraced, WasProposed
  <2> QED BY <2>1, <2>2, BeginStep
<1>2. ASSUME FetchFeedback(s) PROVE GateInv'
  <2>1. PICK f \in feedback :
           /\ row[f.id] # Nothing /\ Begin(s, "sync", f.id, f.verdict, f.content, row[f.id])
           /\ UNCHANGED <<stores, given, proposed>>
    BY <1>2 DEF FetchFeedback
  <2>2. f.id \in Ids /\ f.verdict \in Verdicts /\ f.content \in Contents
    BY DEF GateInv, GateTypeOK, Answered
  <2>3. /\ row[f.id] \in Proposal /\ WasProposed(f.id, row[f.id].content)
        /\ WasProposed(f.id, f.content)
    BY <2>1, <2>2, JobFacts DEF GateInv, Traced, RowTraced
  <2> QED BY <2>1, <2>2, <2>3, BeginStep
<1>3. ASSUME LoadForDigest(s) PROVE GateInv'
  <2>1. PICK id \in Ids : \E p \in {row[id], card[id]} :
           p # Nothing /\ Begin(s, "digest", id, Nothing, Nothing, p) /\ UNCHANGED <<stores, given, proposed>>
    BY <1>3 DEF LoadForDigest
  <2>2. PICK p \in {row[id], card[id]} :
           p # Nothing /\ Begin(s, "digest", id, Nothing, Nothing, p) /\ UNCHANGED <<stores, given, proposed>>
    BY <2>1
  <2>3. p \in Proposal
    BY <2>2 DEF GateInv, GateTypeOK
  <2>4. WasProposed(id, p.content)
    BY <2>2 DEF GateInv, Traced, RowTraced, CardTraced
  <2> QED BY <2>2, <2>3, <2>4, BeginStep
<1>4. ASSUME LoadForApply(s) PROVE GateInv'
  <2>1. PICK id \in Ids : /\ row[id] # Nothing /\ row[id].state = "approved" /\ KindOf[id] = "wiki_update"
                          /\ Begin(s, "apply", id, Nothing, Nothing, row[id])
                          /\ UNCHANGED <<stores, given, proposed>>
    BY <1>4 DEF LoadForApply
  <2>2. row[id] \in Proposal /\ WasProposed(id, row[id].content)
    BY <2>1, JobFacts DEF GateInv, Traced, RowTraced
  <2>3. Given(id, "approved", row[id].content, row[id].content)
    BY <2>1 DEF GateInv, VerdictIsOnWhatWasSeen, Settled
  <2> QED BY <2>1, <2>2, <2>3, BeginStep
<1> QED BY <1>1, <1>2, <1>3, <1>4

\* The verdict falls on what was fetched; under a settled id that is what was seen.
LEMMA DecideStep ==
    ASSUME GateInv, NEW s \in Sessions, Decide(s)
    PROVE  GateInv'
<1> DEFINE id == job[s].id
           p == [job[s].loaded EXCEPT !.state = job[s].verdict]
<1>1. /\ job[s] # Nothing /\ job[s].op \in {"decide", "sync"} /\ (Do(s, "decide") \/ Do(s, "sync"))
      /\ row' = [row EXCEPT ![id] = p] /\ given' = given \cup {Decided(s)}
      /\ UNCHANGED <<card, feedback, preference, memory, wiki, proposed>>
  BY DEF Decide, Do, Upsert
<1>2. /\ id \in Ids /\ job[s].verdict \in Verdicts /\ job[s].seen \in Contents /\ job[s] \in Job
      /\ job[s].loaded \in Proposal /\ WasProposed(id, job[s].loaded.content)
      /\ WasProposed(id, job[s].seen)
  BY <1>1, JobFacts DEF GateInv, JobIsDecided, Traced, JobTraced
<1>3. p \in Proposal /\ p # Nothing /\ p.state = job[s].verdict /\ p.content = job[s].loaded.content
  BY <1>2, JobFacts DEF Proposal, States, Verdicts
<1>4. Decided(s) \in Verdict
  BY <1>1, <1>2, JobFacts DEF Decided, Verdict
<1>5. /\ \/ job'[s] = Nothing
         \/ job'[s] = [job[s] EXCEPT !.op = "prefer"]
      /\ \A r \in Sessions \ {s} : job'[r] = job[r]
      /\ job' \in [Sessions -> Job \cup {Nothing}]
  <2>1. [job[s] EXCEPT !.op = "prefer"] \in Job
    BY <1>2 DEF Job
  <2> QED BY <2>1 DEF Decide, Done, GateInv, GateTypeOK
<1>6. row'[id] = p /\ \A other \in Ids \ {id} : row'[other] = row[other]
  BY <1>1, <1>2 DEF GateInv, GateTypeOK
<1>7. GateTypeOK'
  BY <1>1, <1>3, <1>4, <1>5 DEF GateInv, GateTypeOK
<1>8. job'[s] # Nothing => /\ job'[s].op = "prefer" /\ job'[s].id = id /\ job'[s].seen = job[s].seen
                           /\ job'[s].verdict = job[s].verdict
                           /\ job'[s].loaded = job[s].loaded
  BY <1>2, <1>5 DEF Job
<1>9. Traced'
  <2>1. ASSUME NEW r \in Sessions PROVE JobTraced(r)'
    <3>1. CASE r = s
      BY <1>1, <1>2, <1>8, <3>1 DEF JobTraced, WasProposed
    <3>2. CASE r # s
      BY <1>1, <1>5, <3>2 DEF GateInv, Traced, JobTraced, WasProposed
    <3> QED BY <3>1, <3>2
  <2>2. ASSUME NEW other \in Ids PROVE RowTraced(other)' /\ CardTraced(other)'
    <3>1. CardTraced(other)'
      BY <1>1 DEF GateInv, Traced, CardTraced, WasProposed
    <3>2. CASE other = id
      <4>1. row'[other].content = job[s].loaded.content
        BY <1>3, <1>6, <3>2
      <4>2. [id |-> other, content |-> job[s].loaded.content] \in proposed'
        BY <1>1, <1>2, <3>2 DEF WasProposed
      <4> QED BY <3>1, <4>1, <4>2 DEF RowTraced, WasProposed
    <3>3. CASE other # id
      BY <1>1, <1>6, <3>1, <3>3 DEF GateInv, Traced, RowTraced, WasProposed
    <3> QED BY <3>2, <3>3
  <2> QED BY <1>1, <2>1, <2>2 DEF GateInv, Traced, WasProposed
<1>10. OneContent'
  <2>1. \A x \in proposed : x.id \in Ids
    BY DEF GateInv, GateTypeOK
  <2> QED BY <1>1, <1>3, <1>6, <2>1 DEF GateInv, OneContent
<1>11. JobIsDecided'
  <2>1. ASSUME NEW r \in Sessions, r # s
        PROVE  /\ Do(r, "card")' => KindOf[job'[r].id] = "knowledge"
               /\ Do(r, "decide")' \/ Do(r, "sync")' \/ Do(r, "prefer")'
                      => job'[r].verdict \in Verdicts /\ job'[r].seen \in Contents
               /\ Do(r, "prefer")' => Decided(r)' \in given'
               /\ Do(r, "apply")' => Given(job[r].id, "approved", job[r].loaded.content, job[r].loaded.content)'
    BY <1>1, <1>5, <2>1 DEF GateInv, JobIsDecided, Do, Decided, Given
  <2>2. Decided(s) \in given' /\ (job'[s] # Nothing => Decided(s)' = Decided(s))
    BY <1>1, <1>8 DEF Decided
  <2> QED BY <1>1, <1>2, <1>5, <1>8, <2>1, <2>2 DEF JobIsDecided, Do
<1>12. VerdictIsOnWhatWasSeen'
  <2> SUFFICES ASSUME NEW other \in Settled, row'[other] # Nothing, row'[other].state # "pending"
               PROVE  Given(other, row[other].state, row[other].content, row[other].content)'
    BY DEF VerdictIsOnWhatWasSeen
  <2>1. other \in Ids
    BY DEF Settled
  <2>2. CASE other = id
    <3>1. job[s].seen = job[s].loaded.content
      BY <1>2, <2>2, SameContent
    <3>2. Decided(s) = [id |-> id, verdict |-> p.state, seen |-> p.content, content |-> p.content]
      BY <1>3, <3>1 DEF Decided
    <3>3. row'[other].state = p.state /\ row'[other].content = p.content
      BY <1>6, <2>2
    <3>4. Decided(s) \in given'
      BY <1>1
    <3> HIDE DEF p
    <3> QED BY <2>2, <3>2, <3>3, <3>4 DEF Given, id
  <2>3. CASE other # id
    BY <1>1, <1>6, <2>1, <2>3 DEF GateInv, VerdictIsOnWhatWasSeen, Given
  <2> QED BY <2>2, <2>3
<1>13. AppliedWasApproved' /\ PreferenceHasVerdict'
  BY <1>1 DEF GateInv, AppliedWasApproved, PreferenceHasVerdict, Given
<1> QED BY <1>7, <1>9, <1>10, <1>11, <1>12, <1>13 DEF GateInv

\* The steps that end a session's work outside the proposal table.
LEMMA EndStep ==
    ASSUME GateInv, NEW s \in Sessions,
           RenderCard(s) \/ Prefer(s) \/ Digest(s) \/ Apply(s) \/ Die(s)
    PROVE  GateInv'
<1>1. /\ job[s] # Nothing /\ UNCHANGED <<row, feedback, given, proposed>>
      /\ job' = [job EXCEPT ![s] = Nothing]
      /\ \A r \in Sessions : job'[r] # Nothing => job'[r] = job[r]
  BY DEF RenderCard, Prefer, Digest, Apply, Die, Do, Free, Done, stores, GateInv, GateTypeOK
<1>2. /\ job[s] \in Job /\ job[s].id \in Ids /\ job[s].loaded \in Proposal
      /\ job[s].loaded.content \in Contents
  BY <1>1, JobFacts
<1>3. card' = card \/ (Do(s, "card") /\ card' = [card EXCEPT ![job[s].id] = job[s].loaded])
  BY DEF RenderCard, Prefer, Digest, Apply, Die, stores
<1>4. preference' = preference \/ (Do(s, "prefer") /\ preference' = preference \cup {Decided(s)})
  BY DEF RenderCard, Prefer, Digest, Apply, Die, stores
<1>5. wiki' = wiki \/ (Do(s, "apply") /\ wiki' = wiki \cup {[id |-> job[s].id, content |-> job[s].loaded.content]})
  BY DEF RenderCard, Prefer, Digest, Apply, Die, stores
<1>6. memory' = memory \/ memory' = memory \cup {[id |-> job[s].id, content |-> job[s].loaded.content]}
  BY DEF RenderCard, Prefer, Digest, Apply, Die, stores
<1>7. PreferenceHasVerdict'
  BY <1>1, <1>4 DEF GateInv, PreferenceHasVerdict, JobIsDecided
<1>8. GateTypeOK'
  <2>1. preference' \subseteq Verdict
    BY <1>1, <1>7 DEF GateInv, GateTypeOK, PreferenceHasVerdict
  <2>2. card' \in [Ids -> Proposal \cup {Nothing}]
    BY <1>2, <1>3 DEF GateInv, GateTypeOK
  <2>3. job' \in [Sessions -> Job \cup {Nothing}]
    BY <1>1 DEF GateInv, GateTypeOK
  <2>4. wiki' \subseteq [id : Ids, content : Contents] /\ memory' \subseteq [id : Ids, content : Contents]
    BY <1>2, <1>5, <1>6 DEF GateInv, GateTypeOK
  <2> QED BY <1>1, <2>1, <2>2, <2>3, <2>4 DEF GateInv, GateTypeOK
<1>9. Traced'
  <2>1. ASSUME NEW id \in Ids PROVE RowTraced(id)' /\ CardTraced(id)'
    <3>1. CASE card'[id] = card[id]
      BY <1>1, <3>1 DEF GateInv, Traced, RowTraced, CardTraced, WasProposed
    <3>2. CASE Do(s, "card") /\ id = job[s].id /\ card'[id] = job[s].loaded
      BY <1>1, <3>2 DEF GateInv, Traced, RowTraced, CardTraced, JobTraced, JobIsDecided, WasProposed
    <3>3. \/ card'[id] = card[id]
          \/ Do(s, "card") /\ id = job[s].id /\ card'[id] = job[s].loaded
      BY <1>3 DEF GateInv, GateTypeOK
    <3> QED BY <3>1, <3>2, <3>3
  <2>2. \A r \in Sessions : JobTraced(r)'
    BY <1>1 DEF GateInv, Traced, JobTraced, WasProposed
  <2> QED BY <1>1, <2>1, <2>2 DEF GateInv, Traced, WasProposed
<1>10. JobIsDecided'
  BY <1>1 DEF GateInv, JobIsDecided, Do, Decided, Given
<1>11. OneContent' /\ VerdictIsOnWhatWasSeen'
  BY <1>1 DEF GateInv, OneContent, VerdictIsOnWhatWasSeen, Given
<1>12. AppliedWasApproved'
  <2>1. Do(s, "apply") => Given(job[s].id, "approved", job[s].loaded.content, job[s].loaded.content)
    BY DEF GateInv, JobIsDecided
  <2>2. ASSUME NEW x \in wiki' PROVE Given(x.id, "approved", x.content, x.content)
    <3>1. CASE x \in wiki
      BY <3>1 DEF GateInv, AppliedWasApproved
    <3>2. CASE x \notin wiki
      <4>1. Do(s, "apply") /\ x = [id |-> job[s].id, content |-> job[s].loaded.content]
        BY <1>5, <2>2, <3>2
      <4> QED BY <2>1, <4>1
    <3> QED BY <3>1, <3>2
  <2> QED BY <1>1, <2>2 DEF AppliedWasApproved, Given
<1> QED BY <1>7, <1>8, <1>9, <1>10, <1>11, <1>12 DEF GateInv

-----------------------------------------------------------------------------

\* The invariant of the gate.
THEOREM GateInvariant == GateSpec => []GateInv
<1>1. GateInit => GateInv
  BY DEF GateInit, GateInv, GateTypeOK, Traced, RowTraced, CardTraced, JobTraced, OneContent, JobIsDecided, Do,
         VerdictIsOnWhatWasSeen, Settled, AppliedWasApproved, PreferenceHasVerdict
<1>2. GateInv /\ [GateNext]_gateVars => GateInv'
  <2> SUFFICES ASSUME GateInv, [GateNext]_gateVars PROVE GateInv'
    OBVIOUS
  <2>1. CASE Answer
    <3>1. PICK id \in Ids, v \in Verdicts :
            /\ row[id] # Nothing
            /\ feedback' = feedback \cup {[id |-> id, verdict |-> v, content |-> row[id].content]}
            /\ UNCHANGED <<row, card, preference, memory, wiki, job, given, proposed>>
      BY <2>1 DEF Answer
    <3>2. row[id].content \in Contents /\ WasProposed(id, row[id].content)
      BY <3>1, JobFacts DEF GateInv, Traced, RowTraced
    <3>3. GateTypeOK'
      BY <3>1, <3>2 DEF GateInv, GateTypeOK, Answered
    <3>4. Traced'
      BY <3>1, <3>2 DEF GateInv, Traced, RowTraced, CardTraced, JobTraced, WasProposed
    <3>5. OneContent' /\ JobIsDecided'
      BY <3>1 DEF GateInv, OneContent, JobIsDecided, Do, Decided, Given
    <3>6. VerdictIsOnWhatWasSeen' /\ AppliedWasApproved' /\ PreferenceHasVerdict'
      BY <3>1 DEF GateInv, VerdictIsOnWhatWasSeen, AppliedWasApproved, PreferenceHasVerdict, Given
    <3> QED BY <3>3, <3>4, <3>5, <3>6 DEF GateInv
  <2>2. CASE UNCHANGED gateVars
    <3>1. GateTypeOK' /\ Traced' /\ OneContent'
      BY <2>2 DEF gateVars, stores, GateInv, GateTypeOK, Traced, RowTraced, CardTraced, JobTraced, WasProposed, OneContent
    <3>2. JobIsDecided' /\ VerdictIsOnWhatWasSeen' /\ AppliedWasApproved' /\ PreferenceHasVerdict'
      BY <2>2 DEF gateVars, stores, GateInv, JobIsDecided, Do, Decided, Given,
                  VerdictIsOnWhatWasSeen, AppliedWasApproved, PreferenceHasVerdict
    <3> QED BY <3>1, <3>2 DEF GateInv
  <2> QED BY <2>1, <2>2, StoreStep, LoadStep, DecideStep, EndStep DEF GateNext
<1> QED BY <1>1, <1>2, PTL DEF GateSpec

\* Table, stores and sessions are well typed.
THEOREM GateTypes == GateSpec => []GateTypeOK
<1>1. GateInv => GateTypeOK
  BY DEF GateInv
<1> QED BY <1>1, GateInvariant, PTL

\* Unless an id is versioned, its row shows a verdict only with the content that
\* a reviewer ruled on, though approve, reject and sync_feedback_file go by id,
\* and however late a feedback file is synced.
THEOREM GateVerdictIsOnWhatWasSeen == GateSpec => []VerdictIsOnWhatWasSeen
<1>1. GateInv => VerdictIsOnWhatWasSeen
  BY DEF GateInv
<1> QED BY <1>1, GateInvariant, PTL

\* apply_wiki_proposal never writes what was not approved by somebody who had
\* seen that content.
THEOREM GateAppliedWasApproved == GateSpec => []AppliedWasApproved
<1>1. GateInv => AppliedWasApproved
  BY DEF GateInv
<1> QED BY <1>1, GateInvariant, PTL

\* sync_feedback_file records no preference that the table never got.
THEOREM GatePreferenceHasVerdict == GateSpec => []PreferenceHasVerdict
<1>1. GateInv => PreferenceHasVerdict
  BY DEF GateInv
<1> QED BY <1>1, GateInvariant, PTL

\* The card of a knowledge proposal shows nothing the table does not have.
THEOREM GateCardFollowsRow == GateSpec => []CardFollowsRow
<1>1. GateInv => CardFollowsRow
  <2> SUFFICES ASSUME GateInv, NEW id \in Ids, card[id] # Nothing
               PROVE  row[id] # Nothing /\ card[id].content = row[id].content
    BY DEF CardFollowsRow
  <2>1. KindOf[id] = "knowledge" /\ WasProposed(id, card[id].content)
    BY DEF GateInv, Traced, CardTraced
  <2>2. row[id] # Nothing
    <3>1. [id |-> id, content |-> card[id].content] \in proposed
      BY <2>1 DEF WasProposed
    <3>2. row[[id |-> id, content |-> card[id].content].id] # Nothing
      BY <3>1 DEF GateInv, OneContent
    <3> QED BY <3>2
  <2>3. WasProposed(id, row[id].content)
    BY <2>2 DEF GateInv, Traced, RowTraced
  <2> QED BY <2>1, <2>2, <2>3, SameContent DEF Settled
<1> QED BY <1>1, GateInvariant, PTL

\* The wiki, the preference store and the cards hold nothing that the proposal
\* table did not have before them.
THEOREM GateNothingRunsAhead == GateSpec => []NothingRunsAhead
<1>1. AppliedWasApproved /\ PreferenceHasVerdict /\ CardFollowsRow => NothingRunsAhead
  BY DEF NothingRunsAhead
<1> QED BY <1>1, GateAppliedWasApproved, GatePreferenceHasVerdict, GateCardFollowsRow, PTL

-----------------------------------------------------------------------------
(* The gate without sessions.                                              *)

\* Every step of a session is a step of the gate without sessions, or none.
LEMMA ReviewStep ==
    ASSUME GateInv, [GateNext]_gateVars
    PROVE  [Review!ReviewNext]_(Review!reviewVars)
<1>1. ASSUME NEW s \in Sessions, Store(s) PROVE Review!ReviewNext
  <2>1. PICK id \in Ids, content \in Contents :
          /\ row' = [row EXCEPT ![id] = Fresh(content)]
          /\ proposed' = proposed \cup {[id |-> id, content |-> content]}
          /\ UNCHANGED <<card, preference, memory, wiki, given>>
    BY <1>1 DEF Store, Upsert
  <2>2. Review!Propose(id, content)
    BY <2>1 DEF Review!Propose, Review!Pending, Fresh
  <2> QED BY <2>2 DEF Review!ReviewNext
<1>2. ASSUME NEW s \in Sessions, Decide(s) PROVE Review!ReviewNext
  <2> DEFINE id == job[s].id  verdict == job[s].verdict  content == job[s].loaded.content  seen == job[s].seen
  <2>1. /\ job[s] # Nothing /\ id \in Ids /\ job[s].loaded \in Proposal /\ content \in Contents
        /\ verdict \in {"approved", "rejected"} /\ seen \in Contents
        /\ WasProposed(id, content) /\ WasProposed(id, seen)
    BY <1>2, JobFacts DEF Decide, Do, GateInv, JobIsDecided, Verdicts, Traced, JobTraced
  <2>2. [job[s].loaded EXCEPT !.state = verdict] = [state |-> verdict, content |-> content]
    BY <2>1 DEF Proposal
  <2>3. /\ row' = [row EXCEPT ![id] = [state |-> verdict, content |-> content]]
        /\ given' = given \cup {[id |-> id, verdict |-> verdict, content |-> content, seen |-> seen]}
        /\ UNCHANGED <<card, preference, memory, wiki, proposed>>
    BY <1>2, <2>2 DEF Decide, Upsert, Decided
  <2>4. id \in Settled => seen = content
    BY <2>1, SameContent
  <2>5. Review!Rule(id, verdict, seen, content)
    BY <2>1, <2>3, <2>4 DEF Review!Rule, WasProposed
  <2> QED BY <2>1, <2>5 DEF Review!ReviewNext
<1>3. ASSUME NEW s \in Sessions, RenderCard(s) PROVE Review!ReviewNext
  <2> DEFINE id == job[s].id  content == job[s].loaded.content
  <2>1. /\ job[s] # Nothing /\ job[s].op = "card" /\ id \in Ids /\ job[s].loaded \in Proposal
        /\ id \in Settled /\ WasProposed(id, content) /\ job[s].loaded.state = "pending"
    BY <1>3, JobFacts DEF RenderCard, Do, GateInv, JobIsDecided, Traced, JobTraced, Settled
  <2>2. row[id] # Nothing /\ WasProposed(id, row[id].content)
    <3>1. row[[id |-> id, content |-> content].id] # Nothing
      BY <2>1 DEF GateInv, OneContent, WasProposed
    <3> QED BY <2>1, <3>1 DEF GateInv, Traced, RowTraced
  <2>3. job[s].loaded = [state |-> "pending", content |-> row[id].content]
    <3>1. content = row[id].content
      BY <2>1, <2>2, SameContent
    <3> QED BY <2>1, <3>1 DEF Proposal
  <2>4. Review!Announce(id)
    BY <1>3, <2>1, <2>2, <2>3 DEF RenderCard, Review!Announce, Review!Pending
  <2> QED BY <2>1, <2>4 DEF Review!ReviewNext
<1>4. ASSUME NEW s \in Sessions, Prefer(s) PROVE Review!ReviewNext
  <2>1. Decided(s) \in given
    BY <1>4 DEF Prefer, GateInv, JobIsDecided
  <2> QED BY <1>4, <2>1 DEF Prefer, Review!Learn, Review!ReviewNext
<1>5. ASSUME NEW s \in Sessions, Digest(s) PROVE Review!ReviewNext
  <2>1. [id |-> job[s].id, content |-> job[s].loaded.content] \in proposed
    BY <1>5 DEF Digest, Do, GateInv, Traced, JobTraced, WasProposed
  <2> QED BY <1>5, <2>1 DEF Digest, Review!Remember, Review!ReviewNext
<1>6. ASSUME NEW s \in Sessions, Apply(s) PROVE Review!ReviewNext
  <2> DEFINE id == job[s].id  content == job[s].loaded.content
  <2>1. id \in Ids /\ content \in Contents /\ Given(id, "approved", content, content)
    BY <1>6, JobFacts DEF Apply, Do, GateInv, JobIsDecided
  <2>2. Review!Publish(id, content)
    BY <1>6, <2>1 DEF Apply, Given, Review!Publish
  <2> QED BY <2>1, <2>2 DEF Review!ReviewNext
<1>7. ASSUME NEW s \in Sessions,
             Fetch(s) \/ FetchFeedback(s) \/ LoadForDigest(s) \/ LoadForApply(s) \/ Die(s)
      PROVE  UNCHANGED Review!reviewVars
  BY <1>7 DEF Fetch, FetchFeedback, LoadForDigest, LoadForApply, Die, stores, Review!reviewVars
<1>8. CASE Answer \/ UNCHANGED gateVars
  BY <1>8 DEF Answer, gateVars, stores, Review!reviewVars
<1> QED BY <1>1, <1>2, <1>3, <1>4, <1>5, <1>6, <1>7, <1>8 DEF GateNext

\* For a reviewer the sessions do not exist: a verdict falls on something that was
\* proposed and, unless its id is versioned, that was seen; and nothing leaves the
\* gate before what it is made of (proposals.py, argilla_bridge.py,
\* apply_wiki_proposal).
THEOREM GateImplementsReview == GateSpec => ImplementsReview
<1>1. GateInit => Review!ReviewInit
  BY DEF GateInit, Review!ReviewInit
<1>2. GateInv /\ [GateNext]_gateVars => [Review!ReviewNext]_(Review!reviewVars)
  BY ReviewStep
<1> QED BY <1>1, <1>2, GateInvariant, PTL DEF GateSpec, ImplementsReview, Review!ReviewSpec
=============================================================================
