-------------------------- MODULE KnowledgeProofs --------------------------
(***************************************************************************)
(* Proofs about the parts of the knowledge plane around the claim ledger:  *)
(* the steward's loop (WikiSteward.tla), for any claims, dates and stances *)
(* and any decisions of the reviewer; the pages and their full-text table  *)
(* (WikiPages.tla), for any finite set of pages and any processes; the     *)
(* registry of derived stores (Projections.tla), for any builders; the     *)
(* windows of the dream (WikiDream.tla), for any dreamers, retrievals and  *)
(* options; the page rules of lint (WikiLint.tla), for any pages.          *)
(***************************************************************************)
EXTENDS WikiSteward, WikiPages, Projections, WikiDream, WikiLint, FiniteSetTheorems, WellFoundedInduction, TLAPS

-----------------------------------------------------------------------------
(* The edits of a claim file. *)

\* Marking a claim changes its review state and nothing else.
LEMMA MarkFacts ==
    ASSUME NEW l \in LedgerFile, NEW c \in Written(l), NEW s \in ReviewStates
    PROVE  /\ Mark(l, c, s) \in LedgerFile
           /\ Written(Mark(l, c, s)) = Written(l)
           /\ Mark(l, c, s)[c] = [l[c] EXCEPT !.state = s]
           /\ Mark(l, c, s)[c] \in ClaimRow
           /\ \A d \in Claims : d # c => Mark(l, c, s)[d] = l[d]
<1>1. c \in Claims /\ l[c] \in ClaimRow
  BY DEF Written, LedgerFile
<1>2. [l[c] EXCEPT !.state = s] \in ClaimRow
  BY <1>1 DEF ClaimRow
<1>3. Mark(l, c, s) = [l EXCEPT ![c] = [l[c] EXCEPT !.state = s]]
  BY DEF Mark
<1> QED BY <1>1, <1>2, <1>3, RowAssumption DEF Written, LedgerFile

\* Superseding closes the old claim, which points to the new one; of the new
\* one only the list of claims it supersedes changes.
LEMMA SupersedeFacts ==
    ASSUME NEW l \in LedgerFile, NEW new \in Written(l), NEW old \in Written(l), new # old
    PROVE  LET m == Supersede(l, new, old)
           IN  /\ m \in LedgerFile
               /\ Written(m) = Written(l)
               /\ m[old] \in ClaimRow /\ m[old].closed /\ m[old].by = new
               /\ m[old].state = IF l[old].state = "rejected" THEN "rejected" ELSE "superseded"
               /\ m[new] \in ClaimRow /\ m[new].closed = l[new].closed
               /\ m[new].state = l[new].state /\ m[new].by = l[new].by
               /\ \A d \in Claims : d # old /\ d # new => m[d] = l[d]
<1> DEFINE oldRow == ClosedBy(l[old], new)
           newRow == Extending(l[new], old)
<1>1. new \in Claims /\ old \in Claims /\ l[new] \in ClaimRow /\ l[old] \in ClaimRow
  BY DEF Written, LedgerFile
<1>2. /\ oldRow = [l[old] EXCEPT !.closed = TRUE, !.by = new,
                      !.state = IF l[old].state = "rejected" THEN l[old].state ELSE "superseded"]
      /\ newRow = [l[new] EXCEPT !.supersedes = l[new].supersedes \cup {old}]
  BY <1>1 DEF ClosedBy, Extending, ClaimRow
<1>3. Supersede(l, new, old) = [l EXCEPT ![old] = oldRow, ![new] = newRow]
  BY <1>1 DEF Supersede, LedgerFile
<1> HIDE DEF oldRow, newRow
<1>4. oldRow \in ClaimRow /\ newRow \in ClaimRow
  BY <1>1, <1>2 DEF ClaimRow, ReviewStates
<1>5. /\ oldRow.closed /\ oldRow.by = new
      /\ oldRow.state = IF l[old].state = "rejected" THEN "rejected" ELSE "superseded"
  BY <1>1, <1>2 DEF ClaimRow
<1>6. newRow.closed = l[new].closed /\ newRow.state = l[new].state /\ newRow.by = l[new].by
  BY <1>1, <1>2 DEF ClaimRow
<1> QED BY <1>1, <1>3, <1>4, <1>5, <1>6, RowAssumption DEF Written, LedgerFile

-----------------------------------------------------------------------------
(***************************************************************************)
(* The steward's loop.  A claim that lint does not compare is never        *)
(* compared again, and every decision about a pair leaves such a claim in  *)
(* it.  A decision about a pair that lint would raise now is about two     *)
(* open claims, for only a closed claim has been superseded, and leaves    *)
(* one of them open.                                                       *)
(***************************************************************************)

RaisedIsWritten == \A pair \in raised : pair \subseteq Written(claim)

SupersededIsClosed == \A c \in Written(claim) : claim[c].state = "superseded" => claim[c].closed

\* One of the two claims of a resolved finding is out of lint's sight.
OneIsSettled == \A pair \in resolved : \E c \in pair : c \in Written(claim) /\ ~Compared(c)

StewardInv == /\ StewardTypeOK /\ RaisedIsWritten /\ SupersededIsClosed /\ OneIsSettled
              /\ StatementSurvives /\ HistoryRunsForward

LEMMA StewardInvInit == StewardInit => StewardInv
<1> SUFFICES ASSUME StewardInit PROVE StewardInv
  OBVIOUS
<1>1. Written(claim) = {} /\ claim \in LedgerFile
  BY DEF StewardInit, NoRows, Written, LedgerFile
<1> QED BY <1>1 DEF StewardInit, StewardInv, StewardTypeOK, RaisedIsWritten, SupersededIsClosed,
              OneIsSettled, StatementSurvives, HistoryRunsForward

\* A claim is added, open.
LEMMA ApplyStep ==
    ASSUME StewardInv, NEW c \in Claims, Apply(c)
    PROVE  StewardInv'
<1> USE DEF StewardInv, StewardTypeOK, Apply
<1>1. /\ NewClaim \in ClaimRow /\ NewClaim # None /\ ~NewClaim.closed
      /\ NewClaim.state = "approved" /\ NewClaim.by = None
  <2>1. NewClaim \in ClaimRow
    BY DEF NewClaim, ClaimRow, ReviewStates
  <2> QED BY <2>1, RowAssumption DEF NewClaim
<1>2. /\ claim' \in LedgerFile /\ claim'[c] = NewClaim
      /\ \A d \in Claims : d # c => claim'[d] = claim[d]
  BY <1>1 DEF LedgerFile
<1>3. Written(claim') = Written(claim) \cup {c} /\ c \notin Written(claim)
  BY <1>1, <1>2 DEF Written
<1>4. \A d \in Written(claim) : claim'[d] = claim[d]
  BY <1>2, <1>3 DEF Written
<1>5. StewardTypeOK'
  BY <1>2
<1>6. RaisedIsWritten' /\ SupersededIsClosed'
  BY <1>1, <1>2, <1>3, <1>4 DEF RaisedIsWritten, SupersededIsClosed
<1>7. OneIsSettled'
  BY <1>3, <1>4 DEF OneIsSettled, Compared
<1>8. StatementSurvives'
  BY <1>1, <1>2, <1>3 DEF StatementSurvives, IsClosed
<1>9. HistoryRunsForward'
  BY <1>1, <1>2, <1>3, <1>4 DEF HistoryRunsForward
<1> QED BY <1>5, <1>6, <1>7, <1>8, <1>9

\* Lint raises pairs of written claims.
LEMMA LintStep ==
    ASSUME StewardInv, Lint
    PROVE  StewardInv'
<1> USE DEF StewardInv, StewardTypeOK, Lint
<1>1. /\ Contradictions \subseteq Twosomes
      /\ \A pair \in Contradictions : pair \subseteq Written(claim)
  BY DEF Contradictions
<1>2. StewardTypeOK' /\ RaisedIsWritten'
  BY <1>1 DEF RaisedIsWritten
<1>3. SupersededIsClosed' /\ StatementSurvives' /\ HistoryRunsForward'
  BY DEF SupersededIsClosed, StatementSurvives, HistoryRunsForward, IsClosed
<1>4. OneIsSettled'
  BY DEF OneIsSettled, Compared
<1> QED BY <1>2, <1>3, <1>4

\* What the four decisions and wiki-supersede have in common: the same claims
\* stay in the file, none comes back into lint's sight, and a claim that is
\* newly superseded is closed.
Decision(l, m) ==
    /\ m \in LedgerFile /\ Written(m) = Written(l)
    /\ \A c \in Written(l) :
          /\ l[c].closed => m[c].closed
          /\ l[c].state \in {"conflict", "rejected"} => m[c].state \in {"conflict", "rejected"} \/ m[c].closed
          /\ m[c].state = "superseded" => m[c].closed \/ l[c].state = "superseded"

\* The four decisions, each with the claim that it settles; two open approved
\* claims keep one that readers find.
LEMMA ResolutionFacts ==
    ASSUME NEW new \in Written(claim), NEW old \in Written(claim), new # old,
           claim \in LedgerFile, NEW m \in Resolutions(new, old)
    PROVE  /\ Decision(claim, m)
           /\ \E c \in {new, old} : m[c].closed \/ m[c].state \in {"conflict", "rejected"}
           /\ (\A c \in {new, old} : claim[c].state = "approved" /\ ~claim[c].closed)
                 => \E c \in {new, old} : ~m[c].closed /\ m[c].state \notin {"rejected", "superseded"}
           /\ \A c \in Written(claim) : m[c].by = claim[c].by \/ (c = old /\ m[c].by = new)
<1>0. /\ new \in Claims /\ old \in Claims /\ "conflict" \in ReviewStates /\ "rejected" \in ReviewStates
      /\ Written(claim) \subseteq Claims
      /\ \A c \in Written(claim) : claim[c] \in ClaimRow
  BY DEF Written, ReviewStates, LedgerFile
<1>1. CASE m = Mark(Mark(claim, new, "conflict"), old, "conflict")
  <2> DEFINE l == Mark(claim, new, "conflict")
  <2>1. /\ l \in LedgerFile /\ Written(l) = Written(claim)
        /\ l[new] = [claim[new] EXCEPT !.state = "conflict"]
        /\ \A d \in Claims : d # new => l[d] = claim[d]
    BY <1>0, MarkFacts
  <2> HIDE DEF l
  <2>2. /\ m \in LedgerFile /\ Written(m) = Written(l)
        /\ m[old] = [l[old] EXCEPT !.state = "conflict"]
        /\ \A d \in Claims : d # old => m[d] = l[d]
    BY <1>0, <1>1, <2>1, MarkFacts DEF l
  <2>3. /\ m[old] = [claim[old] EXCEPT !.state = "conflict"]
        /\ m[new] = [claim[new] EXCEPT !.state = "conflict"]
        /\ \A d \in Claims : d # old /\ d # new => m[d] = claim[d]
    BY <1>0, <2>1, <2>2
  <2>4. \A c \in {new, old} : /\ m[c].state = "conflict" /\ m[c].closed = claim[c].closed
                              /\ m[c].by = claim[c].by
    BY <1>0, <2>3 DEF ClaimRow
  <2> QED BY <1>0, <2>1, <2>2, <2>3, <2>4 DEF Decision
<1>2. ASSUME NEW kept \in {new, old}, NEW dropped \in {new, old}, kept # dropped,
             m = Mark(claim, dropped, "rejected")
      PROVE  /\ Decision(claim, m)
             /\ m[dropped].state = "rejected" /\ m[kept] = claim[kept]
             /\ \A c \in Written(claim) : m[c].by = claim[c].by
  <2>1. /\ m \in LedgerFile /\ Written(m) = Written(claim)
        /\ m[dropped] = [claim[dropped] EXCEPT !.state = "rejected"]
        /\ \A d \in Claims : d # dropped => m[d] = claim[d]
    BY <1>0, <1>2, MarkFacts
  <2>2. /\ m[dropped].state = "rejected" /\ m[dropped].closed = claim[dropped].closed
        /\ m[dropped].by = claim[dropped].by
    BY <1>0, <2>1 DEF ClaimRow
  <2> QED BY <1>0, <1>2, <2>1, <2>2 DEF Decision
<1>3. CASE m = Mark(claim, old, "rejected")
  BY <1>2, <1>3
<1>4. CASE m = Mark(claim, new, "rejected")
  BY <1>2, <1>4
<1>5. CASE m = Supersede(claim, new, old)
  <2>1. /\ m \in LedgerFile /\ Written(m) = Written(claim)
        /\ m[old].closed /\ m[old].by = new
        /\ m[new].closed = claim[new].closed
        /\ m[new].state = claim[new].state /\ m[new].by = claim[new].by
        /\ \A d \in Claims : d # old /\ d # new => m[d] = claim[d]
    BY <1>5, SupersedeFacts
  <2> QED BY <1>0, <2>1 DEF Decision
<1> QED BY <1>1, <1>3, <1>4, <1>5 DEF Resolutions

\* Supersede as a decision.
LEMMA SupersedeIsDecision ==
    ASSUME NEW new \in Written(claim), NEW old \in Written(claim), new # old, claim \in LedgerFile
    PROVE  Decision(claim, Supersede(claim, new, old))
<1>1. Supersede(claim, new, old) \in Resolutions(new, old)
  BY DEF Resolutions
<1> QED BY <1>1, ResolutionFacts

\* A decision keeps what is said about the raised and the resolved pairs.
LEMMA DecisionKeeps ==
    ASSUME StewardInv, Decision(claim, claim')
    PROVE  /\ \A pair \in raised : pair \subseteq Written(claim')
           /\ SupersededIsClosed'
           /\ \A c \in Written(claim) : ~Compared(c) => ~Compared(c)'
<1>1. Written(claim') = Written(claim)
  BY DEF Decision
<1>2. SupersededIsClosed'
  BY <1>1 DEF StewardInv, SupersededIsClosed, Decision
<1>3. \A c \in Written(claim) : ~Compared(c) => ~Compared(c)'
  BY DEF Decision, Compared
<1> QED BY <1>1, <1>2, <1>3 DEF StewardInv, RaisedIsWritten

\* resolve_conflict settles its pair; if lint would raise the pair now, a claim
\* of it stays open.
LEMMA ResolveStep ==
    ASSUME StewardInv, NEW pair \in Pairs, Resolve(pair[1], pair[2])
    PROVE  StewardInv'
<1> DEFINE new == pair[1]  old == pair[2]
<1>1. /\ new \in Claims /\ old \in Claims /\ new # old /\ {new, old} \in Twosomes
      /\ {new, old} \in raised /\ claim' \in Resolutions(new, old)
      /\ resolved' = resolved \cup {{new, old}}
      /\ late' = (late \/ {new, old} \notin Contradictions)
      /\ byHand' = (byHand \/ ~Ordered(new, old))
      /\ stance' = stance /\ raised' = raised
  BY DEF Pairs, Twosomes, Resolve
<1> HIDE DEF new, old
<1>2. claim \in LedgerFile /\ new \in Written(claim) /\ old \in Written(claim)
  BY <1>1 DEF StewardInv, StewardTypeOK, RaisedIsWritten
<1>3. /\ Decision(claim, claim')
      /\ \E c \in {new, old} : claim'[c].closed \/ claim'[c].state \in {"conflict", "rejected"}
      /\ (\A c \in {new, old} : claim[c].state = "approved" /\ ~claim[c].closed)
            => \E c \in {new, old} : ~claim'[c].closed /\ claim'[c].state \notin {"rejected", "superseded"}
      /\ \A c \in Written(claim) : claim'[c].by = claim[c].by \/ (c = old /\ claim'[c].by = new)
  BY <1>1, <1>2, ResolutionFacts
<1>4. claim' \in LedgerFile /\ Written(claim') = Written(claim)
  BY <1>3 DEF Decision
<1>5. /\ \A p \in raised : p \subseteq Written(claim')
      /\ SupersededIsClosed'
      /\ \A c \in Written(claim) : ~Compared(c) => ~Compared(c)'
  BY <1>3, DecisionKeeps
<1>6. StewardTypeOK'
  BY <1>1, <1>4 DEF StewardInv, StewardTypeOK
<1>7. RaisedIsWritten'
  BY <1>1, <1>5 DEF RaisedIsWritten
<1>8. OneIsSettled'
  <2>1. \E c \in {new, old} : c \in Written(claim') /\ ~Compared(c)'
    BY <1>2, <1>3, <1>4 DEF Compared
  <2> QED BY <1>1, <1>4, <1>5, <2>1 DEF StewardInv, OneIsSettled
<1>9. StatementSurvives'
  <2> SUFFICES ASSUME ~late', ~byHand'
               PROVE  \E c \in Written(claim') : ~IsClosed(c)'
    BY DEF StatementSurvives
  <2>1. {new, old} \in Contradictions
    BY <1>1
  <2>2. \A c \in {new, old} : claim[c].state = "approved" /\ ~claim[c].closed
    BY <1>2, <2>1 DEF Contradictions, Compared, StewardInv, SupersededIsClosed, LedgerFile, Written, ClaimRow, ReviewStates
  <2> QED BY <1>2, <1>3, <1>4, <2>2 DEF IsClosed
<1>10. HistoryRunsForward'
  <2> SUFFICES ASSUME ~byHand', NEW c \in Written(claim'), claim'[c].by # None
               PROVE  Born[claim'[c].by] >= Born[c]
    BY DEF HistoryRunsForward
  <2>1. ~byHand /\ Ordered(new, old)
    BY <1>1
  <2>2. Born[new] >= Born[old]
    BY <1>1, <2>1, StewardAssumption DEF Ordered
  <2> QED BY <1>3, <1>4, <2>1, <2>2 DEF StewardInv, HistoryRunsForward
<1> QED BY <1>5, <1>6, <1>7, <1>8, <1>9, <1>10 DEF StewardInv

\* wiki-supersede.
LEMMA SupersedeDirectlyStep ==
    ASSUME StewardInv, NEW pair \in Pairs, SupersedeDirectly(pair[1], pair[2])
    PROVE  StewardInv'
<1>1. Decision(claim, claim')
  BY SupersedeIsDecision DEF SupersedeDirectly, Pairs, StewardInv, StewardTypeOK
<1>2. claim' \in LedgerFile /\ Written(claim') = Written(claim)
  BY <1>1 DEF Decision
<1>3. /\ \A p \in raised : p \subseteq Written(claim')
      /\ SupersededIsClosed'
      /\ \A c \in Written(claim) : ~Compared(c) => ~Compared(c)'
  BY <1>1, DecisionKeeps
<1>4. StewardTypeOK' /\ RaisedIsWritten'
  BY <1>2, <1>3 DEF StewardInv, StewardTypeOK, RaisedIsWritten, SupersedeDirectly
<1>5. OneIsSettled'
  BY <1>2, <1>3 DEF StewardInv, OneIsSettled, SupersedeDirectly
<1>6. StatementSurvives' /\ HistoryRunsForward'
  BY DEF SupersedeDirectly, StatementSurvives, HistoryRunsForward
<1> QED BY <1>3, <1>4, <1>5, <1>6 DEF StewardInv

LEMMA StewardInvStep == StewardInv /\ [StewardNext]_stewardVars => StewardInv'
<1> SUFFICES ASSUME StewardInv, [StewardNext]_stewardVars PROVE StewardInv'
  OBVIOUS
<1>1. ASSUME NEW c \in Claims, Apply(c) PROVE StewardInv'
  BY <1>1, ApplyStep
<1>2. CASE Lint
  BY <1>2, LintStep
<1>3. ASSUME NEW pair \in Pairs, Resolve(pair[1], pair[2]) PROVE StewardInv'
  BY <1>3, ResolveStep
<1>4. ASSUME NEW pair \in Pairs, SupersedeDirectly(pair[1], pair[2]) PROVE StewardInv'
  BY <1>4, SupersedeDirectlyStep
<1>5. CASE UNCHANGED stewardVars
  BY <1>5 DEF stewardVars, StewardInv, StewardTypeOK, RaisedIsWritten, SupersededIsClosed,
              OneIsSettled, Compared, StatementSurvives, IsClosed, HistoryRunsForward
<1> QED BY <1>1, <1>2, <1>3, <1>4, <1>5 DEF StewardNext

\* The ledger and the findings keep their types; a finding is about claims that
\* have a row, and only a closed claim is in state superseded.
THEOREM StewardInvariant == StewardSpec => []StewardInv
BY StewardInvInit, StewardInvStep, PTL DEF StewardSpec

\* Lint never raises a pair again that a reviewer has decided, whatever happens
\* to its two claims afterwards.
THEOREM ResolvedStaysResolvedAlways == StewardSpec => []ResolvedStaysResolved
<1>1. StewardInv => ResolvedStaysResolved
  BY DEF StewardInv, OneIsSettled, ResolvedStaysResolved, Contradictions
<1> QED BY <1>1, StewardInvariant, PTL

\* Decisions on what lint has just raised, ordered by the dates, never close the
\* last claim of a statement.
THEOREM StatementSurvivesAlways == StewardSpec => []StatementSurvives
<1>1. StewardInv => StatementSurvives
  BY DEF StewardInv
<1> QED BY <1>1, StewardInvariant, PTL

\* With the order left to the dates, superseded_by never leads to an older claim.
THEOREM HistoryRunsForwardAlways == StewardSpec => []HistoryRunsForward
<1>1. StewardInv => HistoryRunsForward
  BY DEF StewardInv
<1> QED BY <1>1, StewardInvariant, PTL

-----------------------------------------------------------------------------
(***************************************************************************)
(* The pages.  While no two calls overlapped and none broke off, the one   *)
(* process at work knows every row but that of its own page; a rebuild     *)
(* that nobody disturbed since its beginning knows the rows of the pages   *)
(* it has left behind, and every page it has still to visit is there.      *)
(***************************************************************************)

Call == [what : {"nothing", "apply", "reindex"},
         at : {"end", "list", "read", "store", "list files"},
         page : Pages \cup {"none"}, text : Content, todo : SUBSET Pages]

PagesTypeOK ==
    /\ file \in [Pages -> Content] /\ row \in [Pages -> Content]
    /\ changes \in 0 .. MaxChanges
    /\ doing \in [Editors -> Call]
    /\ lone \in [Editors -> BOOLEAN] /\ exact \in BOOLEAN

\* Where a call can be.
CallsAreOnTheirWay ==
    \A e \in Editors :
        /\ doing[e].what = "nothing" => doing[e] = Idle
        /\ doing[e].what = "apply" => /\ doing[e].at \in {"list", "read", "store"}
                                      /\ doing[e].page \in Pages /\ doing[e].todo = {}
        /\ doing[e].what = "reindex" => \/ doing[e].at = "list files"
                                        \/ doing[e].at \in {"read", "store"} /\ doing[e].page \in Pages

LoneIsAlone == \A e \in Editors : lone[e] => \A x \in Editors : x # e => x \in Resting

ExactIsAlone == exact => \A e \in Editors : e \in Resting \/ lone[e]

RowsAreExact == exact /\ Resting = Editors => row = file

\* An apply has only its own row to store.
ApplyLeavesOneRow ==
    \A e \in Editors :
        exact /\ doing[e].what = "apply" =>
            /\ \A q \in Pages : q # doing[e].page => row[q] = file[q]
            /\ doing[e].at = "store" => doing[e].text = file[doing[e].page]

\* A rebuild fills the empty table page by page.
RebuildGoesOn ==
    \A e \in Editors :
        lone[e] /\ doing[e].what = "reindex" =>
            /\ doing[e].at = "list files" => \A q \in Pages : row[q] = NoPage
            /\ doing[e].at # "list files" =>
                   \A q \in Pages :
                       /\ q \in doing[e].todo \cup {doing[e].page} => file[q] # NoPage
                       /\ q \notin doing[e].todo \cup {doing[e].page} => row[q] = file[q]
            /\ doing[e].at = "store" => doing[e].text = file[doing[e].page]

PagesInv == /\ PagesTypeOK /\ CallsAreOnTheirWay /\ LoneIsAlone /\ ExactIsAlone
            /\ RowsAreExact /\ ApplyLeavesOneRow /\ RebuildGoesOn

LEMMA IdleFacts ==
    /\ NoPage \in Content
    /\ Idle \in Call /\ Idle.what = "nothing" /\ Idle.at = "end"
<1>1. NoPage \in Content
  BY PagesAssumption DEF NoPage, Content
<1> QED BY <1>1 DEF Idle, Call

LEMMA PagesInvInit == PagesInit => PagesInv
<1> SUFFICES ASSUME PagesInit PROVE PagesInv
  OBVIOUS
<1>1. PagesTypeOK
  BY IdleFacts, PagesAssumption DEF PagesInit, PagesTypeOK
<1>2. \A e \in Editors : doing[e] = Idle /\ ~lone[e]
  BY DEF PagesInit
<1>3. row = file
  BY DEF PagesInit
<1> QED BY <1>1, <1>2, <1>3, IdleFacts
        DEF PagesInv, CallsAreOnTheirWay, LoneIsAlone, ExactIsAlone, RowsAreExact, ApplyLeavesOneRow,
            RebuildGoesOn, Resting

\* What a call is about can be told from where it is.
LEMMA WhereCallsAre ==
    ASSUME PagesInv, NEW e \in Editors
    PROVE  /\ doing[e] \in Call /\ doing[e].text \in Content /\ doing[e].todo \subseteq Pages
           /\ doing[e].at # "end" => e \notin Resting
           /\ doing[e].at = "list" => doing[e].what = "apply"
           /\ doing[e].at = "list files" => doing[e].what = "reindex"
           /\ doing[e].at \in {"read", "store"} =>
                  doing[e].what \in {"apply", "reindex"} /\ doing[e].page \in Pages
<1>1. doing[e] \in Call
  BY DEF PagesInv, PagesTypeOK
<1>2. doing[e].what \in {"nothing", "apply", "reindex"} /\ doing[e].text \in Content /\ doing[e].todo \subseteq Pages
  BY <1>1 DEF Call
<1>3. doing[e].what = "nothing" => doing[e].at = "end"
  BY IdleFacts DEF PagesInv, CallsAreOnTheirWay
<1>4. doing[e].at # "end" => e \notin Resting
  BY <1>3 DEF Resting
<1>5. /\ doing[e].what = "apply" => doing[e].at \in {"list", "read", "store"} /\ doing[e].page \in Pages
      /\ doing[e].what = "reindex" => \/ doing[e].at = "list files"
                                      \/ doing[e].at \in {"read", "store"} /\ doing[e].page \in Pages
  BY DEF PagesInv, CallsAreOnTheirWay
<1> QED BY <1>1, <1>2, <1>3, <1>4, <1>5

\* A step of a call that goes on: nobody else is at it, or nothing is exact.
LEMMA OthersRest ==
    ASSUME PagesInv, NEW e \in Editors, e \notin Resting
    PROVE  /\ \A x \in Editors : lone[x] => x = e
           /\ exact => lone[e] /\ \A x \in Editors : x # e => x \in Resting
           /\ Resting # Editors
BY DEF PagesInv, LoneIsAlone, ExactIsAlone, Resting

\* An apply that starts is alone unless another call is under way; it leaves the
\* row of its page to be stored.
LEMMA ApplyPageStep ==
    ASSUME PagesInv, NEW e \in Editors, NEW p \in Pages, ApplyPage(e, p)
    PROVE  PagesInv'
<1> DEFINE call == [Idle EXCEPT !.what = "apply", !.at = "list", !.page = p]
<1>1. /\ call \in Call /\ call.what = "apply" /\ call.at = "list" /\ call.page = p /\ call.todo = {}
  BY IdleFacts DEF Idle, Call
<1>2. /\ doing' = [doing EXCEPT ![e] = call] /\ e \in Resting
      /\ lone' = [x \in Editors |-> x = e /\ Resting = Editors]
      /\ exact' = (exact /\ Resting = Editors) /\ row' = row
      /\ changes < MaxChanges /\ changes' = changes + 1
      /\ file' = [file EXCEPT ![p] = [rev |-> changes', closed |-> FALSE]]
  BY DEF ApplyPage, Begin
<1> HIDE DEF call
<1>3. [rev |-> changes', closed |-> FALSE] \in Content /\ changes' \in 0 .. MaxChanges
  BY <1>2, PagesAssumption DEF PagesInv, PagesTypeOK, Content
<1>4. PagesTypeOK'
  BY <1>1, <1>2, <1>3 DEF PagesInv, PagesTypeOK
<1>5. /\ doing'[e] = call
      /\ \A x \in Editors : x # e => doing'[x] = doing[x] /\ ~lone'[x]
      /\ \A q \in Pages : q # p => file'[q] = file[q]
      /\ exact' => \A x \in Editors : x # e => doing[x].what = "nothing"
  BY <1>2 DEF PagesInv, PagesTypeOK, Resting
<1>6. CallsAreOnTheirWay'
  BY <1>1, <1>5 DEF PagesInv, CallsAreOnTheirWay
<1>7. LoneIsAlone' /\ ExactIsAlone'
  BY <1>1, <1>2, <1>5 DEF LoneIsAlone, ExactIsAlone, Resting
<1>8. RowsAreExact'
  BY <1>1, <1>5 DEF RowsAreExact, Resting
<1>9. ApplyLeavesOneRow'
  <2>1. exact' => row = file
    BY <1>2 DEF PagesInv, RowsAreExact
  <2>2. exact' => \A q \in Pages : q # p => row'[q] = file'[q]
    BY <1>2, <1>5, <2>1
  <2> QED BY <1>1, <1>5, <2>2 DEF ApplyLeavesOneRow
<1>10. RebuildGoesOn'
  BY <1>1, <1>5 DEF RebuildGoesOn
<1> QED BY <1>4, <1>6, <1>7, <1>8, <1>9, <1>10 DEF PagesInv

\* A rebuild that starts empties the table.
LEMMA WipeStep ==
    ASSUME PagesInv, NEW e \in Editors, Wipe(e)
    PROVE  PagesInv'
<1> DEFINE call == [Idle EXCEPT !.what = "reindex", !.at = "list files"]
<1>1. /\ call \in Call /\ call.what = "reindex" /\ call.at = "list files"
  BY IdleFacts DEF Idle, Call
<1>2. /\ doing' = [doing EXCEPT ![e] = call] /\ e \in Resting
      /\ lone' = [x \in Editors |-> x = e /\ Resting = Editors]
      /\ exact' = (exact /\ Resting = Editors)
      /\ row' = [p \in Pages |-> NoPage] /\ file' = file /\ changes' = changes
  BY DEF Wipe, Begin
<1> HIDE DEF call
<1>4. PagesTypeOK'
  BY <1>1, <1>2, IdleFacts DEF PagesInv, PagesTypeOK
<1>5. /\ doing'[e] = call
      /\ \A x \in Editors : x # e => doing'[x] = doing[x] /\ ~lone'[x]
      /\ \A q \in Pages : row'[q] = NoPage
      /\ exact' => \A x \in Editors : x # e => doing[x].what = "nothing"
  BY <1>2 DEF PagesInv, PagesTypeOK, Resting
<1>6. CallsAreOnTheirWay'
  BY <1>1, <1>5 DEF PagesInv, CallsAreOnTheirWay
<1>7. LoneIsAlone' /\ ExactIsAlone'
  BY <1>1, <1>2, <1>5 DEF LoneIsAlone, ExactIsAlone, Resting
<1>8. RowsAreExact'
  BY <1>1, <1>5 DEF RowsAreExact, Resting
<1>9. ApplyLeavesOneRow'
  BY <1>1, <1>5 DEF ApplyLeavesOneRow
<1>10. RebuildGoesOn'
  BY <1>1, <1>5 DEF RebuildGoesOn
<1> QED BY <1>4, <1>6, <1>7, <1>8, <1>9, <1>10 DEF PagesInv

\* The list of an apply is no concern of the table.
LEMMA ApplyIndexStep ==
    ASSUME PagesInv, NEW e \in Editors, ApplyIndex(e)
    PROVE  PagesInv'
<1> DEFINE call == [doing[e] EXCEPT !.at = "read"]
<1>1. doing[e] \in Call /\ doing[e].at = "list" /\ e \notin Resting /\ doing[e].what = "apply"
  BY WhereCallsAre DEF ApplyIndex
<1>2. /\ call \in Call /\ call.at = "read" /\ call.what = "apply"
      /\ call.page = doing[e].page /\ call.todo = doing[e].todo
  BY <1>1 DEF Call
<1>3. doing' = [doing EXCEPT ![e] = call] /\ UNCHANGED <<lone, exact, file, row, changes>>
  BY DEF ApplyIndex, Continue
<1> HIDE DEF call
<1>4. PagesTypeOK'
  BY <1>2, <1>3 DEF PagesInv, PagesTypeOK
<1>5. /\ doing'[e] = call
      /\ \A x \in Editors : x # e => doing'[x] = doing[x]
      /\ \A x \in Editors : x \in Resting' <=> x \in Resting
  BY <1>1, <1>2, <1>3 DEF PagesInv, PagesTypeOK, Resting
<1>6. CallsAreOnTheirWay'
  BY <1>1, <1>2, <1>5 DEF PagesInv, CallsAreOnTheirWay
<1>7. LoneIsAlone' /\ ExactIsAlone'
  BY <1>3, <1>5 DEF PagesInv, LoneIsAlone, ExactIsAlone
<1>8. RowsAreExact'
  BY <1>1, <1>3, <1>5 DEF RowsAreExact
<1>9. ApplyLeavesOneRow'
  BY <1>1, <1>2, <1>3, <1>5 DEF PagesInv, ApplyLeavesOneRow
<1>10. RebuildGoesOn'
  <2>1. \A x \in Editors : doing'[x].what = "reindex" => x # e /\ doing'[x] = doing[x]
    BY <1>1, <1>2, <1>5
  <2> QED BY <1>3, <2>1 DEF PagesInv, RebuildGoesOn
<1> QED BY <1>4, <1>6, <1>7, <1>8, <1>9, <1>10 DEF PagesInv

\* A call that reads its page knows what the page holds as long as it is alone.
LEMMA ReadPageStep ==
    ASSUME PagesInv, NEW e \in Editors, ReadPage(e)
    PROVE  PagesInv'
<1> DEFINE call == [doing[e] EXCEPT !.text = file[doing[e].page], !.at = "store"]
<1>1. /\ doing[e] \in Call /\ doing[e].at = "read" /\ e \notin Resting
      /\ doing[e].page \in Pages /\ file[doing[e].page] \in Content
  BY WhereCallsAre DEF ReadPage, PagesInv, PagesTypeOK
<1>2. /\ call \in Call /\ call.at = "store" /\ call.what = doing[e].what
      /\ call.page = doing[e].page /\ call.todo = doing[e].todo
      /\ call.text = file[doing[e].page]
  BY <1>1 DEF Call
<1>3. doing' = [doing EXCEPT ![e] = call] /\ UNCHANGED <<lone, exact, file, row, changes>>
  BY DEF ReadPage, Continue
<1> HIDE DEF call
<1>4. PagesTypeOK'
  BY <1>2, <1>3 DEF PagesInv, PagesTypeOK
<1>5. /\ doing'[e] = call
      /\ \A x \in Editors : x # e => doing'[x] = doing[x]
      /\ \A x \in Editors : x \in Resting' <=> x \in Resting
  BY <1>1, <1>2, <1>3 DEF PagesInv, PagesTypeOK, Resting
<1>6. CallsAreOnTheirWay'
  BY <1>1, <1>2, <1>5 DEF PagesInv, CallsAreOnTheirWay, Resting
<1>7. LoneIsAlone' /\ ExactIsAlone'
  BY <1>3, <1>5 DEF PagesInv, LoneIsAlone, ExactIsAlone
<1>8. RowsAreExact'
  BY <1>1, <1>3, <1>5 DEF RowsAreExact
<1>9. ApplyLeavesOneRow'
  BY <1>1, <1>2, <1>3, <1>5 DEF PagesInv, ApplyLeavesOneRow
<1>10. RebuildGoesOn'
  <2>1. \A x \in Editors : lone[x] => x = e
    BY <1>1, OthersRest
  <2>2. lone[e] /\ doing[e].what = "reindex" =>
            \A q \in Pages : /\ q \in doing[e].todo \cup {doing[e].page} => file[q] # NoPage
                             /\ q \notin doing[e].todo \cup {doing[e].page} => row[q] = file[q]
    BY <1>1 DEF PagesInv, RebuildGoesOn
  <2>3. lone'[e] = lone[e] /\ row' = row /\ file' = file
    BY <1>3
  <2>4. \A x \in Editors : lone'[x] => x = e
    BY <1>3, <2>1
  <2> QED BY <1>2, <1>5, <2>2, <2>3, <2>4 DEF RebuildGoesOn
<1> QED BY <1>4, <1>6, <1>7, <1>8, <1>9, <1>10 DEF PagesInv

\* Where a call goes after it has stored a row.
LEMMA NextPageFacts ==
    ASSUME PagesInv, NEW e \in Editors, doing[e].at = "store"
    PROVE  /\ Over(e) => NextPage(e) = Idle
           /\ ~Over(e) => /\ NextPage(e) \in Call /\ NextPage(e).what = doing[e].what
                          /\ NextPage(e).at = "read" /\ NextPage(e).page \in Pages
                          /\ NextPage(e).todo \cup {NextPage(e).page} = doing[e].todo
                          /\ doing[e].what = "reindex"
<1>1. doing[e] \in Call /\ doing[e].what \in {"apply", "reindex"}
  BY WhereCallsAre
<1>2. CASE ~Over(e)
  <2> DEFINE p == CHOOSE q \in doing[e].todo : TRUE
  <2>1. p \in doing[e].todo /\ p \in Pages
    BY <1>1, <1>2 DEF Over, Call
  <2>2. NextPage(e) = [doing[e] EXCEPT !.at = "read", !.page = p, !.todo = @ \ {p}]
    BY <1>2 DEF NextPage
  <2> HIDE DEF p
  <2>3. doing[e].what = "reindex"
    BY <1>1, <1>2 DEF PagesInv, CallsAreOnTheirWay, Over
  <2>4. NextPage(e) \in Call /\ NextPage(e).what = doing[e].what /\ NextPage(e).at = "read"
    BY <1>1, <2>1, <2>2 DEF Call
  <2>5. NextPage(e).page = p /\ NextPage(e).todo = doing[e].todo \ {p}
    BY <1>1, <2>2 DEF Call
  <2> QED BY <1>2, <2>1, <2>3, <2>4, <2>5
<1> QED BY <1>2 DEF NextPage

\* The row of a call that is alone gets what the page holds; the last row of a
\* rebuild nobody disturbed makes the table exact again.
LEMMA StoreRowStep ==
    ASSUME PagesInv, NEW e \in Editors, StoreRow(e)
    PROVE  PagesInv'
<1> DEFINE call == NextPage(e)
<1>1. /\ doing[e] \in Call /\ doing[e].at = "store" /\ e \notin Resting
      /\ doing[e].page \in Pages /\ doing[e].text \in Content
      /\ doing[e].what \in {"apply", "reindex"}
  BY WhereCallsAre DEF StoreRow
<1>2. /\ Over(e) => call = Idle
      /\ ~Over(e) => /\ call \in Call /\ call.what = doing[e].what
                     /\ call.at = "read" /\ call.page \in Pages
                     /\ call.todo \cup {call.page} = doing[e].todo
                     /\ doing[e].what = "reindex"
  BY <1>1, NextPageFacts
<1>3. /\ doing' = [doing EXCEPT ![e] = call] /\ UNCHANGED <<lone, file, changes>>
      /\ exact' = (exact \/ (doing[e].what = "reindex" /\ lone[e] /\ Over(e)))
      /\ row' = IF doing[e].text = NoPage /\ doing[e].what = "reindex" THEN row
                ELSE [row EXCEPT ![doing[e].page] = doing[e].text]
  BY DEF StoreRow, Continue, Ends
<1> HIDE DEF call
<1>4. call \in Call
  BY <1>2, IdleFacts
<1>5. PagesTypeOK'
  BY <1>1, <1>3, <1>4 DEF PagesInv, PagesTypeOK
<1>6. /\ doing'[e] = call
      /\ \A x \in Editors : x # e => doing'[x] = doing[x]
      /\ \A x \in Editors : lone[x] => x = e
      /\ exact => lone[e]
      /\ lone[e] => \A x \in Editors : x # e => x \in Resting /\ x \in Resting'
      /\ \A q \in Pages : q # doing[e].page => row'[q] = row[q]
  BY <1>1, <1>3, OthersRest DEF PagesInv, PagesTypeOK, Resting, LoneIsAlone
<1>7. exact' => lone[e]
  BY <1>3, <1>6
<1>8. CallsAreOnTheirWay'
  BY <1>2, <1>6, IdleFacts DEF PagesInv, CallsAreOnTheirWay
<1>9. LoneIsAlone'
  BY <1>3, <1>6 DEF LoneIsAlone
<1>10. ExactIsAlone'
  BY <1>3, <1>6, <1>7 DEF ExactIsAlone
<1>11. CASE lone[e] /\ doing[e].what = "apply"
  <2>1. call = Idle
    BY <1>2, <1>11
  <2>2. exact' = exact /\ (exact => row' = file')
    <3>1. exact => row'[doing[e].page] = file[doing[e].page]
      BY <1>1, <1>3, <1>11 DEF PagesInv, ApplyLeavesOneRow, PagesTypeOK
    <3>2. exact => \A q \in Pages : row'[q] = file'[q]
      BY <1>1, <1>3, <1>6, <1>11, <3>1 DEF PagesInv, ApplyLeavesOneRow
    <3>3. row' \in [Pages -> Content] /\ file' \in [Pages -> Content]
      BY <1>5 DEF PagesTypeOK
    <3>4. (\A q \in Pages : row'[q] = file'[q]) => row' = file'
      BY <3>3
    <3>5. exact' = exact
      BY <1>3, <1>11 DEF PagesInv, PagesTypeOK
    <3> QED BY <3>2, <3>4, <3>5
  <2>3. \A x \in Editors : doing'[x].what = "nothing"
    BY <1>6, <1>11, <2>1, IdleFacts DEF Resting
  <2> QED BY <1>5, <1>8, <1>9, <1>10, <2>2, <2>3
          DEF PagesInv, RowsAreExact, ApplyLeavesOneRow, RebuildGoesOn
<1>12. CASE lone[e] /\ doing[e].what = "reindex"
  <2>1. \A q \in Pages : /\ q \in doing[e].todo \cup {doing[e].page} => file[q] # NoPage
                         /\ q \notin doing[e].todo \cup {doing[e].page} => row[q] = file[q]
    BY <1>1, <1>12 DEF PagesInv, RebuildGoesOn
  <2>2. doing[e].text = file[doing[e].page] /\ file[doing[e].page] # NoPage
    BY <1>1, <1>12, <2>1 DEF PagesInv, RebuildGoesOn
  <2>3. row'[doing[e].page] = file[doing[e].page]
    BY <1>1, <1>3, <2>2 DEF PagesInv, PagesTypeOK
  <2>4. \A q \in Pages : /\ q \in doing[e].todo => file'[q] # NoPage
                         /\ q \notin doing[e].todo => row'[q] = file'[q]
    BY <1>3, <1>6, <2>1, <2>3
  <2>5. CASE Over(e)
    <3>1. \A q \in Pages : row'[q] = file'[q]
      BY <2>4, <2>5 DEF Over
    <3>2. row' = file'
      BY <1>5, <3>1 DEF PagesTypeOK
    <3>3. \A x \in Editors : doing'[x].what = "nothing"
      BY <1>2, <1>6, <1>12, <2>5, IdleFacts DEF Resting
    <3> QED BY <1>5, <1>8, <1>9, <1>10, <3>2, <3>3
            DEF PagesInv, RowsAreExact, ApplyLeavesOneRow, RebuildGoesOn
  <2>6. CASE ~Over(e)
    <3>1. RowsAreExact'
      BY <1>2, <1>6, <1>12, <2>6 DEF RowsAreExact, Resting
    <3>2. ApplyLeavesOneRow'
      BY <1>2, <1>6, <1>12, <2>6 DEF ApplyLeavesOneRow, Resting
    <3>3. RebuildGoesOn'
      BY <1>2, <1>6, <1>12, <2>4, <2>6 DEF RebuildGoesOn, Resting
    <3> QED BY <1>5, <1>8, <1>9, <1>10, <3>1, <3>2, <3>3 DEF PagesInv
  <2> QED BY <2>5, <2>6
<1>13. CASE ~lone[e]
  <2>1. ~exact' /\ \A x \in Editors : ~lone'[x]
    BY <1>3, <1>6, <1>13
  <2> QED BY <1>5, <1>8, <1>9, <1>10, <2>1
          DEF PagesInv, RowsAreExact, ApplyLeavesOneRow, RebuildGoesOn
<1> QED BY <1>1, <1>11, <1>12, <1>13

\* A call that breaks off leaves a table that nothing is said about.
LEMMA BreakOffStep ==
    ASSUME PagesInv, NEW e \in Editors, StoreFails(e) \/ Die(e)
    PROVE  PagesInv'
<1>1. /\ doing' = [doing EXCEPT ![e] = Idle] /\ exact' = FALSE
      /\ UNCHANGED <<lone, file, row, changes>>
      /\ e \notin Resting
  BY DEF StoreFails, Die, Resting
<1>2. PagesTypeOK'
  BY <1>1, IdleFacts DEF PagesInv, PagesTypeOK
<1>3. /\ doing'[e] = Idle
      /\ \A x \in Editors : x # e => doing'[x] = doing[x]
  BY <1>1 DEF PagesInv, PagesTypeOK
<1>4. CallsAreOnTheirWay' /\ LoneIsAlone'
  BY <1>1, <1>3, IdleFacts DEF PagesInv, CallsAreOnTheirWay, LoneIsAlone, Resting
<1>5. ExactIsAlone' /\ RowsAreExact' /\ ApplyLeavesOneRow'
  BY <1>1 DEF ExactIsAlone, RowsAreExact, ApplyLeavesOneRow
<1>6. RebuildGoesOn'
  <2>1. \A x \in Editors : doing'[x].what = "reindex" => doing'[x] = doing[x]
    BY <1>3, IdleFacts
  <2> QED BY <1>1, <2>1 DEF PagesInv, RebuildGoesOn
<1> QED BY <1>2, <1>4, <1>5, <1>6 DEF PagesInv

\* A rebuild lists the pages that are there.
LEMMA ListFilesStep ==
    ASSUME PagesInv, NEW e \in Editors, ListFiles(e)
    PROVE  PagesInv'
<1> DEFINE found == {p \in Pages : file[p] # NoPage}
           p == CHOOSE q \in found : TRUE
           call == IF found = {} THEN Idle
                   ELSE [doing[e] EXCEPT !.at = "read", !.page = p, !.todo = found \ {p}]
<1>1. /\ doing[e] \in Call /\ doing[e].at = "list files" /\ e \notin Resting
      /\ doing[e].what = "reindex"
  BY WhereCallsAre DEF ListFiles
<1>2. /\ doing' = [doing EXCEPT ![e] = call] /\ UNCHANGED <<lone, file, row, changes>>
      /\ exact' = (exact \/ (lone[e] /\ found = {}))
  BY DEF ListFiles, Continue, PagesInv, PagesTypeOK
<1>3. found # {} => p \in found
  OBVIOUS
<1>4. found \subseteq Pages /\ \A q \in Pages : q \in found <=> file[q] # NoPage
  OBVIOUS
<1> HIDE DEF found, p
<1>5. found # {} => /\ call \in Call /\ call.what = "reindex" /\ call.at = "read"
                    /\ call.page \in Pages /\ call.todo \cup {call.page} = found
  BY <1>1, <1>3, <1>4 DEF Call
<1>6. found = {} => call = Idle
  OBVIOUS
<1> HIDE DEF call
<1>7. PagesTypeOK'
  BY <1>2, <1>5, <1>6, IdleFacts DEF PagesInv, PagesTypeOK
<1>8. /\ doing'[e] = call
      /\ \A x \in Editors : x # e => doing'[x] = doing[x]
      /\ \A x \in Editors : lone[x] => x = e
      /\ exact => lone[e]
      /\ lone[e] => \A x \in Editors : x # e => x \in Resting /\ x \in Resting'
      /\ exact' => lone[e]
  BY <1>1, <1>2, OthersRest DEF PagesInv, PagesTypeOK, Resting, LoneIsAlone
<1>9. CallsAreOnTheirWay'
  BY <1>5, <1>6, <1>8, IdleFacts DEF PagesInv, CallsAreOnTheirWay
<1>10. LoneIsAlone' /\ ExactIsAlone'
  BY <1>2, <1>8 DEF LoneIsAlone, ExactIsAlone
<1>11. lone[e] => \A q \in Pages : /\ q \in found => file'[q] # NoPage
                                   /\ q \notin found => row'[q] = file'[q]
  BY <1>1, <1>2, <1>4 DEF PagesInv, RebuildGoesOn
<1>12. RowsAreExact'
  <2>1. CASE found = {}
    BY <1>7, <1>8, <1>11, <2>1 DEF RowsAreExact, PagesTypeOK
  <2>2. CASE found # {}
    BY <1>5, <1>8, <2>2 DEF RowsAreExact, Resting
  <2> QED BY <2>1, <2>2
<1>13. ApplyLeavesOneRow'
  BY <1>5, <1>6, <1>8, IdleFacts DEF ApplyLeavesOneRow, Resting
<1>14. RebuildGoesOn'
  BY <1>2, <1>5, <1>6, <1>8, <1>11, IdleFacts DEF RebuildGoesOn
<1> QED BY <1>7, <1>9, <1>10, <1>12, <1>13, <1>14 DEF PagesInv

\* After an edit by hand nothing is said about the table.
LEMMA EditByHandStep ==
    ASSUME PagesInv, NEW p \in Pages, EditByHand(p)
    PROVE  PagesInv'
<1>1. /\ changes' \in 0 .. MaxChanges /\ changes' = changes + 1
      /\ exact' = FALSE /\ lone' = [e \in Editors |-> FALSE]
      /\ UNCHANGED <<row, doing>>
  BY PagesAssumption DEF EditByHand, PagesInv, PagesTypeOK
<1>2. \A closed \in BOOLEAN : [rev |-> changes', closed |-> closed] \in Content
  BY <1>1 DEF Content
<1>3. file' \in [Pages -> Content]
  BY <1>2, IdleFacts DEF EditByHand, PagesInv, PagesTypeOK
<1>4. PagesTypeOK'
  BY <1>1, <1>3 DEF PagesInv, PagesTypeOK
<1>5. CallsAreOnTheirWay'
  BY <1>1 DEF PagesInv, CallsAreOnTheirWay
<1>6. /\ LoneIsAlone' /\ ExactIsAlone' /\ RowsAreExact' /\ ApplyLeavesOneRow' /\ RebuildGoesOn'
  BY <1>1 DEF LoneIsAlone, ExactIsAlone, RowsAreExact, ApplyLeavesOneRow, RebuildGoesOn
<1> QED BY <1>4, <1>5, <1>6 DEF PagesInv

LEMMA PagesInvStep == PagesInv /\ [PagesNext]_pageVars => PagesInv'
<1> SUFFICES ASSUME PagesInv, [PagesNext]_pageVars PROVE PagesInv'
  OBVIOUS
<1>1. ASSUME NEW e \in Editors,
             ApplyIndex(e) \/ ReadPage(e) \/ StoreRow(e) \/ StoreFails(e) \/ Wipe(e) \/ ListFiles(e) \/ Die(e)
      PROVE  PagesInv'
  BY <1>1, ApplyIndexStep, ReadPageStep, StoreRowStep, BreakOffStep, WipeStep, ListFilesStep
<1>2. ASSUME NEW e \in Editors, NEW p \in Pages, ApplyPage(e, p) PROVE PagesInv'
  BY <1>2, ApplyPageStep
<1>3. ASSUME NEW p \in Pages, EditByHand(p) PROVE PagesInv'
  BY <1>3, EditByHandStep
<1>4. CASE \/ \E p \in Pages : Prune(p)
           \/ InitLayout \/ NewVersion \/ EditSchema \/ UNCHANGED pageVars
  <2>1. UNCHANGED <<file, row, doing, changes, lone, exact>>
    BY <1>4 DEF Prune, InitLayout, NewVersion, EditSchema, pageVars
  <2>2. Resting' = Resting
    BY <2>1 DEF Resting
  <2>3. PagesTypeOK' /\ CallsAreOnTheirWay' /\ LoneIsAlone' /\ ExactIsAlone' /\ RowsAreExact'
    BY <2>1, <2>2 DEF PagesInv, PagesTypeOK, CallsAreOnTheirWay, LoneIsAlone, ExactIsAlone, RowsAreExact
  <2>4. ApplyLeavesOneRow' /\ RebuildGoesOn'
    BY <2>1 DEF PagesInv, ApplyLeavesOneRow, RebuildGoesOn
  <2> QED BY <2>3, <2>4 DEF PagesInv
<1> QED BY <1>1, <1>2, <1>3, <1>4 DEF PagesNext

\* A finite set of pages can be numbered.
LEMMA PagesAreNumbered ==
    \E n \in [Pages -> 1 .. Cardinality(Pages)] : \A p, q \in Pages : n[p] = n[q] => p = q
<1>1. IsFiniteSet(Pages) /\ Cardinality(Pages) \in Nat
  BY PagesAssumption, FS_CardinalityType
<1>2. IsFiniteSet(1 .. Cardinality(Pages)) /\ Cardinality(1 .. Cardinality(Pages)) = Cardinality(Pages)
  BY <1>1, FS_Interval
<1>3. ExistsBijection(Pages, 1 .. Cardinality(Pages))
  BY <1>1, <1>2, FS_SameCardinalityBij
<1> QED BY <1>3 DEF ExistsBijection, Bijection, Injection, IsInjective

\* When the table is exact and the bound on the rows does not bite, a search in
\* the table finds what a search in the pages finds.
LEMMA SearchesAgree ==
    ASSUME PagesTypeOK, row = file, NEW score \in [Pages -> Nat], NEW limit \in Nat,
           Cardinality({p \in Pages : row[p] # NoPage}) <= Fetched(limit)
    PROVE  Search(score, limit) = SubstringHits(score, limit)
<1> DEFINE live == {p \in Pages : row[p] # NoPage}
           before(p) == {q \in Pages : row[q] # NoPage /\ score[q] < score[p]}
           best == {p \in Pages : row[p] # NoPage /\ Cardinality(before(p)) < Fetched(limit)}
<1>1. IsFiniteSet(live) /\ Cardinality(live) \in Nat /\ Fetched(limit) \in Nat
  BY PagesAssumption, FS_Subset, FS_CardinalityType DEF Fetched
<1>2. \A p \in live : Cardinality(before(p)) < Cardinality(live)
  <2> SUFFICES ASSUME NEW p \in live PROVE Cardinality(before(p)) < Cardinality(live)
    OBVIOUS
  <2>1. before(p) \in SUBSET live /\ p \in live /\ p \notin before(p)
    OBVIOUS
  <2>2. /\ IsFiniteSet(before(p)) /\ Cardinality(before(p)) <= Cardinality(live)
        /\ Cardinality(live) = Cardinality(before(p)) => live = before(p)
    BY <1>1, <2>1, FS_Subset
  <2>3. Cardinality(before(p)) \in Nat
    BY <2>2, FS_CardinalityType
  <2> QED BY <1>1, <2>1, <2>2, <2>3
<1>3. \A p \in live : Cardinality(before(p)) \in Nat
  <2> SUFFICES ASSUME NEW p \in live PROVE Cardinality(before(p)) \in Nat
    OBVIOUS
  <2>1. before(p) \in SUBSET live
    OBVIOUS
  <2> QED BY <1>1, <2>1, FS_Subset, FS_CardinalityType
<1>4. best = live
  <2>1. Cardinality(live) <= Fetched(limit)
    OBVIOUS
  <2>2. \A p \in live : Cardinality(before(p)) < Fetched(limit)
    <3> SUFFICES ASSUME NEW p \in live PROVE Cardinality(before(p)) < Fetched(limit)
      OBVIOUS
    <3>1. Cardinality(before(p)) < Cardinality(live) /\ Cardinality(before(p)) \in Nat
      BY <1>2, <1>3
    <3> HIDE DEF before, live
    <3> QED BY <1>1, <2>1, <3>1
  <2> QED BY <2>2
<1>5. {p \in best : ~row[p].closed} = Open(file)
  BY <1>4 DEF Open
<1>6. FtsHits(score, limit) = {p \in Open(file) : Cardinality({q \in Open(file) : score[q] < score[p]}) < limit}
  BY <1>5 DEF FtsHits
<1> QED BY <1>6 DEF Search, SubstringHits

\* The specification of the pages by themselves.
PagesSpec == PagesInit /\ [][PagesNext]_pageVars

\* While no call was disturbed every process at work knows all rows but its own,
\* and a rebuild that is alone knows the rows of the pages behind it.
THEOREM PagesInvariant == PagesSpec => []PagesInv
BY PagesInvInit, PagesInvStep, PTL DEF PagesSpec

\* After calls that did not overlap, and again after one undisturbed reindex, the
\* full-text table holds just the pages as they are, and a search that fetches all
\* matching rows answers from the pages.
THEOREM IndexExactWhenAloneAlways == PagesSpec => []IndexExactWhenAlone
<1>1. PagesInv => IndexExactWhenAlone
  <2> DEFINE number == CHOOSE n \in [Pages -> 1 .. Cardinality(Pages)] :
                           \A p, q \in Pages : n[p] = n[q] => p = q
  <2>1. number \in [Pages -> 1 .. Cardinality(Pages)]
    BY PagesAreNumbered
  <2>2. number \in [Pages -> Nat] /\ 1 .. Cardinality(Pages) \subseteq Nat
    BY <2>1, PagesAssumption, FS_CardinalityType
  <2> HIDE DEF number
  <2>3. ASSUME PagesInv, exact, Resting = Editors
        PROVE  /\ row = file
               /\ \A limit \in 1 .. Cardinality(Pages) :
                     Cardinality({p \in Pages : row[p] # NoPage}) <= Fetched(limit)
                         => Search(number, limit) = SubstringHits(number, limit)
    BY <2>2, <2>3, SearchesAgree DEF PagesInv, RowsAreExact
  <2> QED BY <2>3 DEF IndexExactWhenAlone, number
<1> QED BY <1>1, PagesInvariant, PTL

-----------------------------------------------------------------------------
(***************************************************************************)
(* The projections.  The id of a snapshot that is being built is nobody    *)
(* else's and is not in the registry, so no entry is about a file that is  *)
(* being written.  While no two graph rebuilds overlapped and none died,   *)
(* the one at work finds the temporary pointer as it left it.              *)
(***************************************************************************)

Places == {"end", "file", "fill", "open temp", "write temp", "rename", "record"}

Rebuild == [what : Projection \cup {"none"}, at : Places, id : 0 .. MaxSnapshots, from : Nat, file : Nat]

Entry == [id : 1 .. MaxSnapshots, projection : Projection, from : Nat]

ProjTypeOK ==
    /\ records \in Nat /\ made \in 0 .. MaxSnapshots /\ renames \in Nat
    /\ built \in [1 .. MaxSnapshots -> {"none", "part", "whole"}]
    /\ registry \subseteq Entry
    /\ current \in [Projection -> 0 .. MaxSnapshots]
    /\ work \in [Builders -> Rebuild]
    /\ apart \in BOOLEAN /\ rolled \in BOOLEAN

Rebuilds(b) == work[b].what = "graph"

\* Ids are given out once; one that is being built is not entered.
IdsAreFresh ==
    /\ \A s \in registry : s.id <= made
    /\ \A b \in Builders : work[b].at # "end" =>
           /\ work[b].id \in 1 .. made
           /\ \A s \in registry : s.id # work[b].id
           /\ \A c \in Builders : work[c].at # "end" /\ c # b => work[c].id # work[b].id

\* Where a rebuild can be; from the temporary pointer on its file is complete.
WorkIsOnItsWay ==
    \A b \in Builders :
        /\ work[b].at = "end" => work[b].what = "none"
        /\ work[b].what = "table" => work[b].at = "record"
        /\ work[b].at # "end" => work[b].what \in Projection
        /\ work[b].at \in {"open temp", "write temp", "rename"} => built[work[b].id] = "whole"
        /\ Rebuilds(b) /\ work[b].at = "record" => built[work[b].id] = "whole"

EntriesAreWhole == \A s \in registry : s.projection = "graph" => built[s.id] = "whole"

CurrentIsEntered ==
    \A p \in Projection : current[p] # 0 => \E s \in registry : s.id = current[p] /\ s.projection = p

ApartIsAlone == apart => \A b, c \in Builders : Rebuilds(b) /\ Rebuilds(c) => b = c

TempIsOwn ==
    apart => \A b \in Builders :
        /\ work[b].at = "write temp" => work[b].file = renames
        /\ work[b].at = "rename" => temp = work[b].id
        /\ Rebuilds(b) /\ work[b].at = "record" => pointer = work[b].id

\* Between the rename and the entry the pointer is ahead of the registry.
PointerIsCurrent ==
    apart /\ ~rolled /\ (\A b \in Builders : ~(Rebuilds(b) /\ work[b].at = "record"))
        => pointer = current["graph"]

ProjInv == /\ ProjTypeOK /\ IdsAreFresh /\ WorkIsOnItsWay /\ EntriesAreWhole /\ CurrentIsEntered
           /\ ApartIsAlone /\ TempIsOwn /\ PointerIsCurrent

LEMMA OffFacts == Off \in Rebuild /\ Off.what = "none" /\ Off.at = "end"
BY ProjectionsAssumption DEF Off, Rebuild, Places

LEMMA ProjInvInit == ProjInit => ProjInv
<1> SUFFICES ASSUME ProjInit PROVE ProjInv
  OBVIOUS
<1>1. ProjTypeOK
  <2>1. 0 \in 0 .. MaxSnapshots
    BY ProjectionsAssumption
  <2> QED BY <2>1, OffFacts DEF ProjInit, ProjTypeOK
<1>2. /\ \A b \in Builders : work[b].what = "none" /\ work[b].at = "end"
      /\ registry = {} /\ \A p \in Projection : current[p] = 0
      /\ pointer = 0
  BY OffFacts DEF ProjInit, Gone
<1> QED BY <1>1, <1>2 DEF ProjInv, IdsAreFresh, WorkIsOnItsWay, EntriesAreWhole, CurrentIsEntered,
            ApartIsAlone, TempIsOwn, PointerIsCurrent, Rebuilds, Projection

\* The work of a builder, by its parts.
LEMMA WorkFacts ==
    ASSUME ProjInv, NEW b \in Builders
    PROVE  /\ work[b] \in Rebuild /\ work[b].what \in Projection \cup {"none"} /\ work[b].at \in Places
           /\ work[b].id \in 0 .. MaxSnapshots /\ work[b].from \in Nat /\ work[b].file \in Nat
           /\ work[b] = Off => work[b].at = "end"
           /\ work[b].at \in {"file", "fill", "open temp", "write temp", "rename"} => Rebuilds(b)
           /\ work[b].at # "end" => work[b].id \in 1 .. MaxSnapshots
<1>1. work[b] \in Rebuild
  BY DEF ProjInv, ProjTypeOK
<1>2. /\ work[b].what \in Projection \cup {"none"} /\ work[b].at \in Places
      /\ work[b].id \in 0 .. MaxSnapshots /\ work[b].from \in Nat /\ work[b].file \in Nat
  BY <1>1 DEF Rebuild
<1>3. work[b] = Off => work[b].at = "end"
  BY OffFacts
<1>4. work[b].at \in {"file", "fill", "open temp", "write temp", "rename"} => Rebuilds(b)
  BY <1>2 DEF ProjInv, WorkIsOnItsWay, Projection, Rebuilds
<1>5. work[b].at # "end" => work[b].id \in 1 .. MaxSnapshots
  BY <1>2, ProjectionsAssumption DEF ProjInv, ProjTypeOK, IdsAreFresh
<1> QED BY <1>1, <1>2, <1>3, <1>4, <1>5

\* A rebuild that starts takes a fresh id.
LEMMA StartStep ==
    ASSUME ProjInv, NEW b \in Builders, NEW p \in Projection, Start(b, p)
    PROVE  ProjInv'
<1> DEFINE job == [what |-> p, at |-> IF p = "graph" THEN "file" ELSE "record",
                   id |-> made', from |-> records, file |-> 0]
<1>1. /\ work[b] = Off /\ made < MaxSnapshots /\ made' = made + 1
      /\ work' = [work EXCEPT ![b] = job]
      /\ apart' = (apart /\ (p = "graph" => \A other \in Busy : work[other].what # "graph"))
      /\ UNCHANGED <<records, built, temp, pointer, renames, registry, current, rolled>>
  BY DEF Start
<1>2. made \in Nat /\ made' \in 1 .. MaxSnapshots
  BY <1>1, ProjectionsAssumption DEF ProjInv, ProjTypeOK
<1>3. /\ job \in Rebuild /\ job.what = p /\ job.id = made'
      /\ job.at \in {"file", "record"} /\ (p # "graph" => job.at = "record") /\ (p = "graph" => job.at = "file")
  <2>1. job.at \in Places /\ records \in Nat /\ made' \in 0 .. MaxSnapshots
    BY <1>2 DEF Places, ProjInv, ProjTypeOK
  <2> QED BY <2>1 DEF Rebuild
<1> HIDE DEF job
<1>4. ProjTypeOK'
  BY <1>1, <1>2, <1>3 DEF ProjInv, ProjTypeOK
<1>5. work'[b] = job /\ \A c \in Builders : c # b => work'[c] = work[c]
  BY <1>1 DEF ProjInv, ProjTypeOK
<1>6. IdsAreFresh'
  <2>1. \A s \in registry : s.id \in 1 .. MaxSnapshots /\ s.id <= made
    BY DEF ProjInv, ProjTypeOK, IdsAreFresh, Entry
  <2>2. \A c \in Builders : work[c].at # "end" => work[c].id \in 1 .. made
    BY DEF ProjInv, IdsAreFresh
  <2> QED BY <1>1, <1>2, <1>3, <1>5, <2>1, <2>2 DEF ProjInv, IdsAreFresh
<1>7. WorkIsOnItsWay'
  BY <1>1, <1>3, <1>5 DEF ProjInv, WorkIsOnItsWay, Rebuilds, Projection
<1>8. EntriesAreWhole' /\ CurrentIsEntered'
  BY <1>1 DEF ProjInv, EntriesAreWhole, CurrentIsEntered
<1>9. ApartIsAlone'
  <2>1. \A c \in Builders : Rebuilds(c) => c \in Busy
    BY OffFacts DEF Rebuilds, Busy
  <2> QED BY <1>1, <1>3, <1>5, <2>1 DEF ProjInv, ApartIsAlone, Rebuilds
<1>10. TempIsOwn'
  BY <1>1, <1>3, <1>5 DEF ProjInv, TempIsOwn, Rebuilds
<1>11. PointerIsCurrent'
  <2>1. work[b].at = "end"
    BY <1>1, OffFacts
  <2> QED BY <1>1, <1>3, <1>5, <2>1 DEF ProjInv, PointerIsCurrent, Rebuilds
<1> QED BY <1>4, <1>6, <1>7, <1>8, <1>9, <1>10, <1>11 DEF ProjInv

\* A rebuild that goes on from one place to another before its entry: its id stays,
\* and nobody else rebuilds the graph unless something overlapped.
LEMMA GoOnFacts ==
    ASSUME ProjInv, NEW b \in Builders, work[b].at \in {"file", "fill", "open temp", "write temp", "rename"},
           NEW place \in Places, place # "end",
           NEW handle \in Nat, work' = [work EXCEPT ![b].at = place, ![b].file = handle]
    PROVE  /\ work' \in [Builders -> Rebuild]
           /\ work'[b].at = place /\ work'[b].file = handle
           /\ work'[b].what = "graph" /\ work'[b].id = work[b].id
           /\ \A c \in Builders : c # b => work'[c] = work[c]
           /\ \A c \in Builders : work'[c].id = work[c].id /\ (work'[c].at # "end" <=> work[c].at # "end")
           /\ \A c \in Builders : Rebuilds(c)' <=> Rebuilds(c)
<1>1. work[b] \in Rebuild /\ Rebuilds(b) /\ work \in [Builders -> Rebuild]
  BY WorkFacts DEF ProjInv, ProjTypeOK
<1> DEFINE job == [work[b] EXCEPT !.at = place, !.file = handle]
<1>2. /\ job \in Rebuild /\ job.at = place /\ job.file = handle
      /\ job.what = work[b].what /\ job.id = work[b].id
  BY <1>1 DEF Rebuild
<1>3. work' = [work EXCEPT ![b] = job]
  BY <1>1 DEF Rebuild
<1> HIDE DEF job
<1> QED BY <1>1, <1>2, <1>3 DEF Rebuilds

\* The same for a step that leaves the handle as it is.
LEMMA GoOnWithHandle ==
    ASSUME ProjInv, NEW b \in Builders, work[b].at \in {"file", "fill", "open temp", "write temp", "rename"},
           NEW place \in Places, place # "end", GoOn(b, place)
    PROVE  /\ work' \in [Builders -> Rebuild]
           /\ work'[b].at = place /\ work'[b].what = "graph" /\ work'[b].id = work[b].id
           /\ \A c \in Builders : c # b => work'[c] = work[c]
           /\ \A c \in Builders : work'[c].id = work[c].id /\ (work'[c].at # "end" <=> work[c].at # "end")
           /\ \A c \in Builders : Rebuilds(c)' <=> Rebuilds(c)
<1>1. work[b] \in Rebuild /\ work \in [Builders -> Rebuild] /\ work[b].file \in Nat
  BY WorkFacts DEF ProjInv, ProjTypeOK
<1>2. [work[b] EXCEPT !.at = place] = [work[b] EXCEPT !.at = place, !.file = work[b].file]
  BY <1>1 DEF Rebuild
<1>3. work' = [work EXCEPT ![b].at = place, ![b].file = work[b].file]
  BY <1>1, <1>2 DEF GoOn
<1> QED BY <1>1, <1>3, GoOnFacts

\* The snapshot file is written under the id of the rebuild.
LEMMA FileStep ==
    ASSUME ProjInv, NEW b \in Builders, OpenFile(b) \/ FillFile(b)
    PROVE  ProjInv'
<1> DEFINE place == IF At(b, "file") THEN "fill" ELSE "open temp"
           state == IF At(b, "file") THEN "part" ELSE "whole"
<1>1. /\ work[b].at \in {"file", "fill"} /\ GoOn(b, place)
      /\ built' = [built EXCEPT ![work[b].id] = state]
      /\ UNCHANGED <<records, made, temp, pointer, renames, registry, current, apart, rolled>>
  BY DEF OpenFile, FillFile, At
<1>2. /\ place \in {"fill", "open temp"} /\ (place = "open temp" => state = "whole")
      /\ state \in {"part", "whole"}
  OBVIOUS
<1> HIDE DEF place, state
<1>3. /\ work' \in [Builders -> Rebuild]
      /\ work'[b].at = place /\ work'[b].what = "graph" /\ work'[b].id = work[b].id
      /\ \A c \in Builders : c # b => work'[c] = work[c]
      /\ \A c \in Builders : work'[c].id = work[c].id /\ (work'[c].at # "end" <=> work[c].at # "end")
      /\ \A c \in Builders : Rebuilds(c)' <=> Rebuilds(c)
  <2>1. place \in Places /\ place # "end"
    BY <1>2 DEF Places
  <2> QED BY <1>1, <2>1, GoOnWithHandle
<1>4. ProjTypeOK'
  BY <1>1, <1>2, <1>3 DEF ProjInv, ProjTypeOK
<1>5. IdsAreFresh'
  BY <1>1, <1>3 DEF ProjInv, IdsAreFresh
<1>6. /\ built'[work[b].id] = state
      /\ \A i \in 1 .. MaxSnapshots : i # work[b].id => built'[i] = built[i]
  BY <1>1, WorkFacts DEF ProjInv, ProjTypeOK
<1>7. WorkIsOnItsWay'
  <2> SUFFICES ASSUME NEW c \in Builders
               PROVE  /\ work'[c].at = "end" => work'[c].what = "none"
                      /\ work'[c].what = "table" => work'[c].at = "record"
                      /\ work'[c].at # "end" => work'[c].what \in Projection
                      /\ work'[c].at \in {"open temp", "write temp", "rename"} => built'[work'[c].id] = "whole"
                      /\ Rebuilds(c)' /\ work'[c].at = "record" => built'[work'[c].id] = "whole"
    BY DEF WorkIsOnItsWay
  <2>1. CASE c = b
    BY <1>2, <1>3, <1>6, <2>1 DEF Projection
  <2>2. CASE c # b
    <3>1. work'[c] = work[c]
      BY <1>3, <2>2
    <3>2. work[c].at # "end" => work[c].id # work[b].id /\ work[c].id \in 1 .. MaxSnapshots
      BY <1>1, <2>2, WorkFacts DEF ProjInv, IdsAreFresh
    <3> QED BY <1>3, <1>6, <3>1, <3>2 DEF ProjInv, WorkIsOnItsWay
  <2> QED BY <2>1, <2>2
<1>8. EntriesAreWhole'
  <2>1. \A s \in registry : s.id # work[b].id /\ s.id \in 1 .. MaxSnapshots
    BY <1>1 DEF ProjInv, IdsAreFresh, ProjTypeOK, Entry
  <2> QED BY <1>1, <1>6, <2>1 DEF ProjInv, EntriesAreWhole
<1>9. CurrentIsEntered' /\ ApartIsAlone'
  BY <1>1, <1>3 DEF ProjInv, CurrentIsEntered, ApartIsAlone
<1>10. TempIsOwn'
  BY <1>1, <1>2, <1>3 DEF ProjInv, TempIsOwn
<1>11. PointerIsCurrent'
  BY <1>1, <1>2, <1>3 DEF ProjInv, PointerIsCurrent
<1> QED BY <1>4, <1>5, <1>7, <1>8, <1>9, <1>10, <1>11 DEF ProjInv

\* The temporary pointer is opened, which empties it.
LEMMA OpenTempStep ==
    ASSUME ProjInv, NEW b \in Builders, OpenTemp(b)
    PROVE  ProjInv'
<1>1. /\ work[b].at = "open temp"
      /\ work' = [work EXCEPT ![b].at = "write temp", ![b].file = renames]
      /\ UNCHANGED <<records, built, made, pointer, renames, registry, current, apart, rolled>>
      /\ renames \in Nat /\ "write temp" \in Places
  BY DEF OpenTemp, At, ProjInv, ProjTypeOK, Places
<1>2. /\ work' \in [Builders -> Rebuild]
      /\ work'[b].at = "write temp" /\ work'[b].file = renames
      /\ work'[b].what = "graph" /\ work'[b].id = work[b].id
      /\ \A c \in Builders : c # b => work'[c] = work[c]
      /\ \A c \in Builders : work'[c].id = work[c].id /\ (work'[c].at # "end" <=> work[c].at # "end")
      /\ \A c \in Builders : Rebuilds(c)' <=> Rebuilds(c)
  BY <1>1, GoOnFacts
<1>3. ProjTypeOK' /\ IdsAreFresh'
  <2>1. ProjTypeOK'
    BY <1>1, <1>2 DEF ProjInv, ProjTypeOK
  <2>2. registry' = registry /\ made' = made
    BY <1>1
  <2>3. IdsAreFresh'
    BY <1>2, <2>2 DEF ProjInv, IdsAreFresh
  <2> QED BY <2>1, <2>3
<1>4. WorkIsOnItsWay'
  <2>1. built[work[b].id] = "whole"
    BY <1>1 DEF ProjInv, WorkIsOnItsWay
  <2> QED BY <1>1, <1>2, <2>1 DEF ProjInv, WorkIsOnItsWay, Projection
<1>5. EntriesAreWhole' /\ CurrentIsEntered' /\ ApartIsAlone'
  BY <1>1, <1>2 DEF ProjInv, EntriesAreWhole, CurrentIsEntered, ApartIsAlone
<1>6. TempIsOwn'
  <2>1. Rebuilds(b) /\ \A c \in Builders : work[c].at \in {"write temp", "rename"} => Rebuilds(c)
    BY <1>1, WorkFacts
  <2>2. apart => \A c \in Builders : c # b => work[c].at \notin {"write temp", "rename"}
    BY <2>1 DEF ProjInv, ApartIsAlone
  <2> QED BY <1>1, <1>2, <2>2 DEF ProjInv, TempIsOwn
<1>7. PointerIsCurrent'
  BY <1>1, <1>2 DEF ProjInv, PointerIsCurrent
<1> QED BY <1>3, <1>4, <1>5, <1>6, <1>7 DEF ProjInv

\* Alone, a rebuild writes its id into the temporary pointer and nowhere else.
LEMMA WriteTempStep ==
    ASSUME ProjInv, NEW b \in Builders, WriteTemp(b)
    PROVE  ProjInv'
<1>1. /\ work[b].at = "write temp" /\ GoOn(b, "rename")
      /\ temp' = IF work[b].file = renames THEN work[b].id ELSE temp
      /\ pointer' = IF work[b].file = renames - 1 THEN work[b].id ELSE pointer
      /\ UNCHANGED <<records, built, made, renames, registry, current, apart, rolled>>
      /\ renames \in Nat /\ "rename" \in Places
  BY DEF WriteTemp, At, ProjInv, ProjTypeOK, Places
<1>2. /\ work' \in [Builders -> Rebuild]
      /\ work'[b].at = "rename" /\ work'[b].what = "graph" /\ work'[b].id = work[b].id
      /\ \A c \in Builders : c # b => work'[c] = work[c]
      /\ \A c \in Builders : work'[c].id = work[c].id /\ (work'[c].at # "end" <=> work[c].at # "end")
      /\ \A c \in Builders : Rebuilds(c)' <=> Rebuilds(c)
  BY <1>1, GoOnWithHandle
<1>3. ProjTypeOK' /\ IdsAreFresh'
  <2>1. ProjTypeOK'
    BY <1>1, <1>2 DEF ProjInv, ProjTypeOK
  <2>2. registry' = registry /\ made' = made
    BY <1>1
  <2>3. IdsAreFresh'
    BY <1>2, <2>2 DEF ProjInv, IdsAreFresh
  <2> QED BY <2>1, <2>3
<1>4. WorkIsOnItsWay'
  BY <1>1, <1>2 DEF ProjInv, WorkIsOnItsWay, Projection
<1>5. EntriesAreWhole' /\ CurrentIsEntered' /\ ApartIsAlone'
  BY <1>1, <1>2 DEF ProjInv, EntriesAreWhole, CurrentIsEntered, ApartIsAlone
<1>6. apart => temp' = work[b].id /\ pointer' = pointer
  <2>1. apart => work[b].file = renames
    BY <1>1 DEF ProjInv, TempIsOwn
  <2>2. renames \in Nat
    BY DEF ProjInv, ProjTypeOK
  <2>3. renames # renames - 1
    BY <2>2
  <2> QED BY <1>1, <2>1, <2>3
<1>7. TempIsOwn'
  <2>1. Rebuilds(b) /\ \A c \in Builders : work[c].at \in {"write temp", "rename"} => Rebuilds(c)
    BY <1>1, WorkFacts
  <2>2. apart => \A c \in Builders : c # b => work[c].at \notin {"write temp", "rename"}
    BY <2>1 DEF ProjInv, ApartIsAlone
  <2> QED BY <1>1, <1>2, <1>6, <2>2 DEF ProjInv, TempIsOwn
<1>8. PointerIsCurrent'
  BY <1>1, <1>2, <1>6 DEF ProjInv, PointerIsCurrent
<1> QED BY <1>3, <1>4, <1>5, <1>7, <1>8 DEF ProjInv

\* A builder that is over: its id goes back to nobody.
LEMMA EndFacts ==
    ASSUME ProjInv, NEW b \in Builders, work' = [work EXCEPT ![b] = Off]
    PROVE  /\ work' \in [Builders -> Rebuild]
           /\ work'[b].at = "end" /\ work'[b].what = "none"
           /\ \A c \in Builders : c # b => work'[c] = work[c]
           /\ \A c \in Builders : work'[c].at # "end" => c # b /\ work'[c] = work[c]
           /\ \A c \in Builders : Rebuilds(c)' => c # b /\ Rebuilds(c)
BY OffFacts DEF ProjInv, ProjTypeOK, Rebuilds

\* Alone, a rebuild finds its temporary pointer and makes it the pointer.
LEMMA RenameStep ==
    ASSUME ProjInv, NEW b \in Builders, Rename(b)
    PROVE  ProjInv'
<1>1. /\ work[b].at = "rename" /\ Rebuilds(b)
      /\ work[b].id \in 1 .. MaxSnapshots /\ built[work[b].id] = "whole"
      /\ UNCHANGED <<records, built, made, registry, current, apart, rolled>>
  BY WorkFacts DEF Rename, At, ProjInv, WorkIsOnItsWay
<1>2. apart => temp = work[b].id /\ temp # Gone
  <2>1. apart => temp = work[b].id
    BY <1>1 DEF ProjInv, TempIsOwn
  <2>2. work[b].id # Gone
    BY <1>1, ProjectionsAssumption DEF Gone
  <2> QED BY <2>1, <2>2
<1>3. CASE temp = Gone
  <2>1. work' = [work EXCEPT ![b] = Off] /\ UNCHANGED <<temp, pointer, renames>> /\ ~apart
    BY <1>2, <1>3 DEF Rename
  <2>2. ProjTypeOK' /\ IdsAreFresh' /\ WorkIsOnItsWay'
    <3>1. ProjTypeOK'
      BY <1>1, <2>1, EndFacts DEF ProjInv, ProjTypeOK
    <3>2. IdsAreFresh'
      <4>1. \A c \in Builders : work'[c].at # "end" => work'[c] = work[c]
        BY <2>1, EndFacts
      <4> QED BY <1>1, <4>1 DEF ProjInv, IdsAreFresh
    <3>3. WorkIsOnItsWay'
      BY <1>1, <2>1, EndFacts DEF ProjInv, WorkIsOnItsWay
    <3> QED BY <3>1, <3>2, <3>3
  <2>3. EntriesAreWhole' /\ CurrentIsEntered'
    BY <1>1 DEF ProjInv, EntriesAreWhole, CurrentIsEntered
  <2>4. ApartIsAlone' /\ TempIsOwn' /\ PointerIsCurrent'
    BY <1>1, <2>1 DEF ApartIsAlone, TempIsOwn, PointerIsCurrent
  <2> QED BY <2>2, <2>3, <2>4 DEF ProjInv
<1>4. CASE temp # Gone
  <2>1. GoOn(b, "record") /\ pointer' = temp /\ renames' = renames + 1 /\ "record" \in Places
    BY <1>4 DEF Rename, Places
  <2>2. /\ work' \in [Builders -> Rebuild]
        /\ work'[b].at = "record" /\ work'[b].what = "graph" /\ work'[b].id = work[b].id
        /\ \A c \in Builders : c # b => work'[c] = work[c]
        /\ \A c \in Builders : work'[c].id = work[c].id /\ (work'[c].at # "end" <=> work[c].at # "end")
        /\ \A c \in Builders : Rebuilds(c)' <=> Rebuilds(c)
    BY <1>1, <2>1, GoOnWithHandle
  <2>3. ProjTypeOK' /\ IdsAreFresh'
    <3>1. ProjTypeOK'
      BY <1>1, <2>1, <2>2 DEF ProjInv, ProjTypeOK
    <3>2. registry' = registry /\ made' = made
      BY <1>1
    <3>3. IdsAreFresh'
      BY <2>2, <3>2 DEF ProjInv, IdsAreFresh
    <3> QED BY <3>1, <3>3
  <2>4. WorkIsOnItsWay'
    BY <1>1, <2>2 DEF ProjInv, WorkIsOnItsWay, Projection
  <2>5. EntriesAreWhole' /\ CurrentIsEntered' /\ ApartIsAlone'
    BY <1>1, <2>2 DEF ProjInv, EntriesAreWhole, CurrentIsEntered, ApartIsAlone
  <2>6. TempIsOwn'
    <3>1. \A c \in Builders : work[c].at \in {"write temp", "rename"} => Rebuilds(c)
      BY WorkFacts
    <3>2. apart => \A c \in Builders : c # b => ~Rebuilds(c)' /\ work'[c].at \notin {"write temp", "rename"}
      BY <1>1, <2>2, <3>1 DEF ProjInv, ApartIsAlone
    <3> QED BY <1>1, <1>2, <2>1, <2>2, <3>2 DEF ProjInv, TempIsOwn
  <2>7. PointerIsCurrent'
    BY <2>2 DEF PointerIsCurrent, Rebuilds
  <2> QED BY <2>3, <2>4, <2>5, <2>6, <2>7 DEF ProjInv
<1> QED BY <1>3, <1>4

\* A rebuild is entered; of the graph, the pointer names it already when it was alone.
LEMMA RecordStep ==
    ASSUME ProjInv, NEW b \in Builders, Record(b)
    PROVE  ProjInv'
<1> DEFINE entry == [id |-> work[b].id, projection |-> work[b].what, from |-> work[b].from]
<1>1. /\ work[b].at = "record"
      /\ registry' = registry \cup {entry}
      /\ current' = [current EXCEPT ![work[b].what] = work[b].id]
      /\ rolled' = (rolled /\ work[b].what # "graph")
      /\ work' = [work EXCEPT ![b] = Off]
      /\ UNCHANGED <<records, built, made, temp, pointer, renames, apart>>
  BY DEF Record, At
<1>2. /\ work[b].what \in Projection /\ work[b].id \in 1 .. made /\ work[b].id \in 1 .. MaxSnapshots
      /\ work[b].from \in Nat
  BY <1>1, WorkFacts DEF ProjInv, WorkIsOnItsWay, IdsAreFresh
<1>3. entry \in Entry /\ entry.id = work[b].id /\ entry.projection = work[b].what
  BY <1>2 DEF Entry
<1> HIDE DEF entry
<1>4. /\ work' \in [Builders -> Rebuild]
      /\ work'[b].at = "end" /\ work'[b].what = "none"
      /\ \A c \in Builders : c # b => work'[c] = work[c]
      /\ \A c \in Builders : work'[c].at # "end" => c # b /\ work'[c] = work[c]
      /\ \A c \in Builders : Rebuilds(c)' => c # b /\ Rebuilds(c)
  BY <1>1, EndFacts
<1>5. ProjTypeOK'
  <2>1. current' \in [Projection -> 0 .. MaxSnapshots] /\ rolled' \in BOOLEAN
    BY <1>1, <1>2, ProjectionsAssumption DEF ProjInv, ProjTypeOK
  <2> QED BY <1>1, <1>3, <1>4, <2>1 DEF ProjInv, ProjTypeOK
<1>6. IdsAreFresh'
  <2>1. \A c \in Builders : c # b /\ work[c].at # "end" => work[c].id # work[b].id
    BY <1>1 DEF ProjInv, IdsAreFresh
  <2>2. work[b].id <= made
    BY <1>2
  <2> QED BY <1>1, <1>3, <1>4, <2>1, <2>2 DEF ProjInv, IdsAreFresh
<1>7. WorkIsOnItsWay'
  BY <1>1, <1>4 DEF ProjInv, WorkIsOnItsWay
<1>8. EntriesAreWhole'
  <2>1. work[b].what = "graph" => built[work[b].id] = "whole"
    BY <1>1 DEF ProjInv, WorkIsOnItsWay, Rebuilds
  <2> QED BY <1>1, <1>3, <2>1 DEF ProjInv, EntriesAreWhole
<1>9. CurrentIsEntered'
  <2> SUFFICES ASSUME NEW p \in Projection, current'[p] # 0
               PROVE  \E s \in registry' : s.id = current'[p] /\ s.projection = p
    BY DEF CurrentIsEntered
  <2>1. CASE p = work[b].what
    BY <1>1, <1>3, <2>1 DEF ProjInv, ProjTypeOK
  <2>2. CASE p # work[b].what
    BY <1>1, <2>2 DEF ProjInv, ProjTypeOK, CurrentIsEntered
  <2> QED BY <2>1, <2>2
<1>10. ApartIsAlone'
  BY <1>1, <1>4 DEF ProjInv, ApartIsAlone
<1>11. TempIsOwn'
  BY <1>1, <1>4 DEF ProjInv, TempIsOwn
<1>12. PointerIsCurrent'
  <2>1. CASE work[b].what = "graph"
    <3>1. current'["graph"] = work[b].id
      BY <1>1, <2>1 DEF ProjInv, ProjTypeOK, Projection
    <3>2. apart => pointer = work[b].id
      BY <1>1, <2>1 DEF ProjInv, TempIsOwn, Rebuilds
    <3> QED BY <1>1, <3>1, <3>2 DEF PointerIsCurrent
  <2>2. CASE work[b].what # "graph"
    <3>1. current'["graph"] = current["graph"] /\ (rolled' <=> rolled)
      BY <1>1, <2>2 DEF ProjInv, ProjTypeOK, Projection
    <3>2. \A c \in Builders : Rebuilds(c) /\ work[c].at = "record" => Rebuilds(c)' /\ work'[c].at = "record"
      BY <1>4, <2>2 DEF Rebuilds
    <3> QED BY <1>1, <3>1, <3>2 DEF ProjInv, PointerIsCurrent
  <2> QED BY <2>1, <2>2
<1> QED BY <1>5, <1>6, <1>7, <1>8, <1>9, <1>10, <1>11, <1>12 DEF ProjInv

\* A rollback goes to an entry of its projection.
LEMMA RollbackStep ==
    ASSUME ProjInv, NEW p \in Projection, NEW s \in 1 .. made, Rollback(p, s)
    PROVE  ProjInv'
<1>1. /\ \E entry \in registry : entry.id = s /\ entry.projection = p
      /\ current' = [current EXCEPT ![p] = s]
      /\ rolled' = (rolled \/ p = "graph")
      /\ UNCHANGED <<records, built, made, temp, pointer, renames, registry, work, apart>>
  BY DEF Rollback
<1>2. s \in 0 .. MaxSnapshots
  BY ProjectionsAssumption DEF ProjInv, ProjTypeOK
<1>3. ProjTypeOK'
  BY <1>1, <1>2 DEF ProjInv, ProjTypeOK
<1>4. IdsAreFresh' /\ WorkIsOnItsWay' /\ EntriesAreWhole' /\ ApartIsAlone' /\ TempIsOwn'
  BY <1>1 DEF ProjInv, IdsAreFresh, WorkIsOnItsWay, EntriesAreWhole, ApartIsAlone, TempIsOwn, Rebuilds
<1>5. CurrentIsEntered'
  BY <1>1 DEF ProjInv, ProjTypeOK, CurrentIsEntered
<1>6. PointerIsCurrent'
  BY <1>1 DEF ProjInv, ProjTypeOK, PointerIsCurrent, Rebuilds, Projection
<1> QED BY <1>3, <1>4, <1>5, <1>6 DEF ProjInv

\* After a builder has died nothing is said about the pointer.
LEMMA StopsStep ==
    ASSUME ProjInv, NEW b \in Builders, Stops(b)
    PROVE  ProjInv'
<1>1. /\ work' = [work EXCEPT ![b] = Off] /\ apart' = FALSE
      /\ UNCHANGED <<records, built, made, temp, pointer, renames, registry, current, rolled>>
  BY DEF Stops
<1>2. ProjTypeOK'
  BY <1>1, EndFacts DEF ProjInv, ProjTypeOK
<1>3. IdsAreFresh'
  <2>1. \A c \in Builders : work'[c].at # "end" => work'[c] = work[c]
    BY <1>1, EndFacts
  <2> QED BY <1>1, <2>1 DEF ProjInv, IdsAreFresh
<1>4. WorkIsOnItsWay'
  BY <1>1, EndFacts DEF ProjInv, WorkIsOnItsWay
<1>5. EntriesAreWhole' /\ CurrentIsEntered'
  BY <1>1 DEF ProjInv, EntriesAreWhole, CurrentIsEntered
<1>6. ApartIsAlone' /\ TempIsOwn' /\ PointerIsCurrent'
  BY <1>1 DEF ApartIsAlone, TempIsOwn, PointerIsCurrent
<1> QED BY <1>2, <1>3, <1>4, <1>5, <1>6 DEF ProjInv

LEMMA ProjInvStep == ProjInv /\ [ProjNext]_projVars => ProjInv'
<1> SUFFICES ASSUME ProjInv, [ProjNext]_projVars PROVE ProjInv'
  OBVIOUS
<1>1. ASSUME NEW b \in Builders,
             \/ OpenFile(b) \/ FillFile(b) \/ OpenTemp(b) \/ WriteTemp(b)
             \/ Rename(b) \/ Record(b) \/ Stops(b)
      PROVE  ProjInv'
  BY <1>1, FileStep, OpenTempStep, WriteTempStep, RenameStep, RecordStep, StopsStep
<1>2. ASSUME NEW b \in Builders, NEW p \in Projection, Start(b, p) PROVE ProjInv'
  BY <1>2, StartStep
<1>3. ASSUME NEW p \in Projection, NEW s \in 1 .. made, Rollback(p, s) PROVE ProjInv'
  BY <1>3, RollbackStep
<1>4. CASE Source \/ (\E p \in Projection : \E n \in 0 .. records : AdvanceCursor(p, n)) \/ UNCHANGED projVars
  <2>1. /\ records' \in Nat
        /\ UNCHANGED <<built, made, temp, pointer, renames, registry, current, work, apart, rolled>>
    BY <1>4 DEF Source, AdvanceCursor, projVars, ProjInv, ProjTypeOK
  <2>2. ProjTypeOK' /\ IdsAreFresh' /\ EntriesAreWhole' /\ CurrentIsEntered'
    BY <2>1 DEF ProjInv, ProjTypeOK, IdsAreFresh, EntriesAreWhole, CurrentIsEntered
  <2>3. WorkIsOnItsWay' /\ ApartIsAlone' /\ TempIsOwn' /\ PointerIsCurrent'
    BY <2>1 DEF ProjInv, WorkIsOnItsWay, ApartIsAlone, TempIsOwn, PointerIsCurrent, Rebuilds
  <2> QED BY <2>2, <2>3 DEF ProjInv
<1> QED BY <1>1, <1>2, <1>3, <1>4 DEF ProjNext

\* The specification of the projections by themselves.
ProjSpec == ProjInit /\ [][ProjNext]_projVars

\* No entry of the registry is about a file that is being written, and a graph
\* rebuild that is alone finds the temporary pointer as it left it.
THEOREM ProjInvariant == ProjSpec => []ProjInv
BY ProjInvInit, ProjInvStep, PTL DEF ProjSpec

\* What the registry lists of the graph is complete on disk, the current snapshot
\* of a projection is its own, and without overlap, death or rollback queries answer
\* from the current snapshot of the graph.
THEOREM RegistryKnowsGraphAlways == ProjSpec => []RegistryKnowsGraph
<1>1. ProjInv => RegistryKnowsGraph
  <2> SUFFICES ASSUME ProjInv PROVE RegistryKnowsGraph
    OBVIOUS
  <2>1. ASSUME apart, ~rolled, \A b \in Builders : work[b].what # "graph"
        PROVE  Queried = current["graph"]
    <3>1. pointer = current["graph"]
      BY <2>1 DEF ProjInv, PointerIsCurrent, Rebuilds
    <3>2. CASE current["graph"] = 0
      BY <3>1, <3>2, ProjectionsAssumption DEF Queried
    <3>3. CASE current["graph"] # 0
      <4>1. PICK s \in registry : s.id = current["graph"] /\ s.projection = "graph"
        BY <3>3 DEF ProjInv, CurrentIsEntered, Projection
      <4>2. s.id \in 1 .. MaxSnapshots /\ built[s.id] = "whole"
        BY <4>1 DEF ProjInv, ProjTypeOK, EntriesAreWhole, Entry
      <4> QED BY <3>1, <4>1, <4>2 DEF Queried
    <3> QED BY <3>2, <3>3
  <2> QED BY <2>1 DEF RegistryKnowsGraph, ProjInv, EntriesAreWhole, CurrentIsEntered
<1> QED BY <1>1, ProjInvariant, PTL

-----------------------------------------------------------------------------
(***************************************************************************)
(* The dream.  A retrieval whose manifest is on disk and whose stamp lies  *)
(* before the watermark has been read or excused; the same holds of what   *)
(* lies before the window that a dream is about to read, and once it has   *)
(* read, of what lies before the time it will write over the watermark.    *)
(***************************************************************************)

RunRecord == [at : {"none", "evidence", "whole", "ingested", "applied"},
              hits : Hits \cup {<<>>}, query : Queries \cup {"none"}, stamp : Nat]

RawFile == [run : Nat, number : Nat]

DreamFinding == [rule : {"cluster_canonical", "statement_cluster", "raw_orphan", "stale_active"},
                 on : Sources \cup Queries \cup RawFile]

DreamRecord == [at : {"awake", "load", "save"}, now : Int, since : Int,
                rules : {"all", "narrow"}, update : BOOLEAN, found : SUBSET DreamFinding]

DreamTypeOK ==
    /\ clock \in Nat /\ watermark \in Int
    /\ run \in [Runs -> RunRecord] /\ raw \subseteq RawFile
    /\ dream \in [Dreamers -> DreamRecord]

Landed(r) == run[r].at \in {"whole", "ingested", "applied"}
Known(r) == r \in seen \cup excused

BeforeWatermarkIsKnown ==
    \A r \in Runs : Landed(r) /\ run[r].stamp < watermark => Known(r)

BeforeWindowIsKnown ==
    \A d \in Dreamers : dream[d].at = "load" /\ dream[d].update =>
        \A r \in Runs : Landed(r) /\ run[r].stamp < dream[d].since => Known(r)

BeforeDreamIsKnown ==
    \A d \in Dreamers : dream[d].at = "save" /\ dream[d].update =>
        \A r \in Runs : Landed(r) /\ run[r].stamp < dream[d].now => Known(r)

DreamInv == DreamTypeOK /\ BeforeWatermarkIsKnown /\ BeforeWindowIsKnown /\ BeforeDreamIsKnown

LEMMA AwakeFacts == Awake \in DreamRecord /\ Awake.at = "awake"
BY DEF Awake, DreamRecord

LEMMA DreamInvInit == DreamInit => DreamInv
<1> SUFFICES ASSUME DreamInit PROVE DreamInv
  OBVIOUS
<1>1. NoRun \in RunRecord /\ NoRun.at = "none"
  BY DEF NoRun, RunRecord
<1>2. [run |-> 0, number |-> 1] \in RawFile
  BY DEF RawFile
<1>3. DreamTypeOK
  BY <1>1, <1>2, AwakeFacts DEF DreamInit, DreamTypeOK
<1> QED BY <1>1, <1>3, AwakeFacts DEF DreamInit, DreamInv, BeforeWatermarkIsKnown, BeforeWindowIsKnown,
              BeforeDreamIsKnown, Landed

\* A step that leaves the dreams, the watermark and the stamps alone, forgets
\* nothing that is known and brings no manifest to disk.
LEMMA QuietStep ==
    ASSUME DreamInv, UNCHANGED <<watermark, dream>>, seen \subseteq seen', excused \subseteq excused',
           DreamTypeOK',
           \A r \in Runs : Landed(r)' => Landed(r) /\ run'[r].stamp = run[r].stamp
    PROVE  DreamInv'
<1>1. \A r \in Runs : Known(r) => Known(r)'
  BY DEF Known
<1> QED BY <1>1 DEF DreamInv, BeforeWatermarkIsKnown, BeforeWindowIsKnown, BeforeDreamIsKnown

\* A retrieval gets its stamp before its manifest is there to be read.
LEMMA WriteEvidenceStep ==
    ASSUME DreamInv, NEW r \in Runs, NEW q \in Queries, NEW hits \in Hits, WriteEvidence(r, q, hits)
    PROVE  DreamInv'
<1> DEFINE rec == [at |-> "evidence", hits |-> hits, query |-> q, stamp |-> 2 * (clock \div 2)]
<1>1. /\ run' = [run EXCEPT ![r] = rec]
      /\ UNCHANGED <<clock, raw, watermark, dream, seen, excused>>
  BY DEF WriteEvidence
<1>2. 2 * (clock \div 2) \in Nat
  BY DEF DreamInv, DreamTypeOK
<1>3. rec \in RunRecord /\ rec.at = "evidence"
  BY <1>2 DEF RunRecord
<1> HIDE DEF rec
<1>4. DreamTypeOK'
  BY <1>1, <1>3 DEF DreamInv, DreamTypeOK
<1>5. run'[r] = rec /\ \A x \in Runs : x # r => run'[x] = run[x]
  BY <1>1 DEF DreamInv, DreamTypeOK
<1>6. \A x \in Runs : Landed(x)' => Landed(x) /\ run'[x].stamp = run[x].stamp
  BY <1>3, <1>5 DEF Landed
<1> QED BY <1>1, <1>4, <1>6, QuietStep

\* A retrieval that goes on keeps its stamp.
LEMMA RunGoesOn ==
    ASSUME DreamInv, NEW r \in Runs, NEW place \in {"whole", "ingested", "applied"},
           run' = [run EXCEPT ![r].at = place]
    PROVE  /\ run' \in [Runs -> RunRecord]
           /\ run'[r].at = place /\ run'[r].stamp = run[r].stamp
           /\ \A x \in Runs : x # r => run'[x] = run[x]
<1>1. run[r] \in RunRecord /\ run \in [Runs -> RunRecord]
  BY DEF DreamInv, DreamTypeOK
<1> DEFINE rec == [run[r] EXCEPT !.at = place]
<1>2. rec \in RunRecord /\ rec.at = place /\ rec.stamp = run[r].stamp
  BY <1>1 DEF RunRecord
<1>3. run' = [run EXCEPT ![r] = rec]
  OBVIOUS
<1> HIDE DEF rec
<1> QED BY <1>1, <1>2, <1>3

\* The manifest of a retrieval that every window has passed is excused.
LEMMA WriteManifestStep ==
    ASSUME DreamInv, NEW r \in Runs, WriteManifest(r)
    PROVE  DreamInv'
<1>1. /\ run' = [run EXCEPT ![r].at = "whole"]
      /\ excused' = IF Passed(run[r].stamp) THEN excused \cup {r} ELSE excused
      /\ UNCHANGED <<clock, raw, watermark, dream, seen>>
  BY DEF WriteManifest
<1>2. /\ run' \in [Runs -> RunRecord] /\ run'[r].stamp = run[r].stamp
      /\ \A x \in Runs : x # r => run'[x] = run[x]
  BY <1>1, RunGoesOn
<1>3. DreamTypeOK'
  BY <1>1, <1>2 DEF DreamInv, DreamTypeOK
<1>4. /\ \A x \in Runs : Known(x) => Known(x)'
      /\ Passed(run[r].stamp) => Known(r)'
      /\ \A x \in Runs : x # r => (Landed(x)' <=> Landed(x))
  BY <1>1, <1>2 DEF Known, Landed
<1>5. /\ run[r].stamp \in Int /\ watermark \in Int
      /\ \A d \in Dreamers : dream[d].now \in Int /\ dream[d].since \in Int
  BY DEF DreamInv, DreamTypeOK, RunRecord, DreamRecord
<1>6. /\ run[r].stamp < watermark => Passed(run[r].stamp)
      /\ \A d \in Dreamers : /\ dream[d].at = "load" /\ run[r].stamp < dream[d].since => Passed(run[r].stamp)
                             /\ dream[d].at = "save" /\ run[r].stamp < dream[d].now => Passed(run[r].stamp)
  BY <1>5 DEF Passed
<1>7. BeforeWatermarkIsKnown'
  BY <1>1, <1>2, <1>4, <1>6 DEF DreamInv, BeforeWatermarkIsKnown
<1>8. BeforeWindowIsKnown'
  BY <1>1, <1>2, <1>4, <1>6 DEF DreamInv, BeforeWindowIsKnown
<1>9. BeforeDreamIsKnown'
  BY <1>1, <1>2, <1>4, <1>6 DEF DreamInv, BeforeDreamIsKnown
<1> QED BY <1>3, <1>7, <1>8, <1>9 DEF DreamInv

\* What an ingest and an apply do is no concern of the windows.
LEMMA IngestStep ==
    ASSUME DreamInv, NEW r \in Runs, Ingest(r) \/ ApplySynthesis(r)
    PROVE  DreamInv'
<1>1. PICK place \in {"ingested", "applied"} : run' = [run EXCEPT ![r].at = place]
  BY DEF Ingest, ApplySynthesis
<1>2. /\ Landed(r) /\ UNCHANGED <<clock, watermark, dream, seen, excused>>
      /\ raw' \subseteq raw \cup Numbered(r)
  BY DEF Ingest, ApplySynthesis, Landed
<1>3. Numbered(r) \subseteq RawFile
  <2>1. run[r].hits \in Hits \cup {<<>>} /\ r \in Nat
    BY DreamAssumption DEF DreamInv, DreamTypeOK, RunRecord, Runs
  <2>2. DOMAIN run[r].hits \subseteq Nat
    BY <2>1, DreamAssumption DEF Hits
  <2> QED BY <2>1, <2>2 DEF Numbered, RawFile
<1>4. /\ run' \in [Runs -> RunRecord] /\ run'[r].stamp = run[r].stamp
      /\ \A x \in Runs : x # r => run'[x] = run[x]
  BY <1>1, RunGoesOn
<1>5. DreamTypeOK'
  BY <1>2, <1>3, <1>4 DEF DreamInv, DreamTypeOK
<1>6. \A x \in Runs : Landed(x)' => Landed(x) /\ run'[x].stamp = run[x].stamp
  BY <1>2, <1>4 DEF Landed
<1> QED BY <1>2, <1>5, <1>6, QuietStep

LEMMA SinceType ==
    ASSUME DreamInv, NEW full \in BOOLEAN
    PROVE  Since(full, clock) \in Int
BY DreamAssumption DEF DreamInv, DreamTypeOK, Since, Bigger

\* What lies before the new window lies before the watermark, or is excused.
LEMMA FallAsleepStep ==
    ASSUME DreamInv, NEW d \in Dreamers, NEW o \in Options, FallAsleep(d, o)
    PROVE  DreamInv'
<1> DEFINE since == Since(o.full, clock)
           rec == [at |-> "load", now |-> clock, since |-> since,
                   rules |-> o.rules, update |-> o.update, found |-> {}]
           tardy == {r \in Runs : /\ run[r].at # "none" /\ run[r].stamp < since
                                 /\ o.update /\ since > watermark}
<1>1. /\ dream' = [dream EXCEPT ![d] = rec]
      /\ excused' = excused \cup tardy
      /\ UNCHANGED <<clock, run, raw, watermark, seen>>
  BY DEF FallAsleep
<1>2. /\ o.full \in BOOLEAN /\ o.update \in BOOLEAN /\ o.rules \in {"all", "narrow"}
      /\ clock \in Int /\ watermark \in Int
  BY DreamAssumption DEF DreamInv, DreamTypeOK
<1>3. since \in Int
  BY <1>2, SinceType
<1> HIDE DEF since
<1>4. rec \in DreamRecord /\ rec.at = "load" /\ rec.since = since /\ rec.update = o.update
  BY <1>2, <1>3 DEF DreamRecord
<1>5. \A r \in Runs : run[r].at # "none" /\ run[r].stamp < since /\ o.update /\ since > watermark => r \in tardy
  OBVIOUS
<1> HIDE DEF rec, tardy
<1>6. DreamTypeOK'
  BY <1>1, <1>4 DEF DreamInv, DreamTypeOK
<1>7. /\ dream'[d] = rec /\ \A x \in Dreamers : x # d => dream'[x] = dream[x]
      /\ \A r \in Runs : Known(r) => Known(r)'
      /\ \A r \in Runs : Landed(r)' <=> Landed(r)
  BY <1>1 DEF DreamInv, DreamTypeOK, Known, Landed
<1>8. o.update => \A r \in Runs : Landed(r) /\ run[r].stamp < since => Known(r)'
  <2> SUFFICES ASSUME o.update, NEW r \in Runs, Landed(r), run[r].stamp < since PROVE Known(r)'
    OBVIOUS
  <2>1. run[r].stamp \in Int
    BY DEF DreamInv, DreamTypeOK, RunRecord
  <2>2. CASE since > watermark
    BY <1>1, <1>5, <2>2 DEF Known, Landed
  <2>3. CASE ~(since > watermark)
    <3>1. run[r].stamp < watermark
      BY <1>2, <1>3, <2>1, <2>3
    <3> QED BY <1>7, <3>1 DEF DreamInv, BeforeWatermarkIsKnown
  <2> QED BY <2>2, <2>3
<1>9. BeforeWatermarkIsKnown'
  BY <1>1, <1>7 DEF DreamInv, BeforeWatermarkIsKnown
<1>10. BeforeWindowIsKnown'
  BY <1>1, <1>4, <1>7, <1>8 DEF DreamInv, BeforeWindowIsKnown
<1>11. BeforeDreamIsKnown'
  BY <1>1, <1>4, <1>7 DEF DreamInv, BeforeDreamIsKnown
<1> QED BY <1>6, <1>9, <1>10, <1>11 DEF DreamInv

\* A dream has read or excused all that has landed in its window.
LEMMA LookStep ==
    ASSUME DreamInv, NEW d \in Dreamers, Look(d)
    PROVE  DreamInv'
<1> DEFINE read == {r \in Runs : InWindow(r, dream[d].since)}
           narrow == dream[d].rules # "all"
           found == StatementCluster \cup RawOrphan(Evidence(read))
                       \cup IF narrow THEN {} ELSE ClusterCanonical(Evidence(read))
                                                   \cup StaleActive(Evidence(read), dream[d].now)
           rec == [dream[d] EXCEPT !.at = "save", !.found = found]
<1>1. /\ dream[d].at = "load"
      /\ dream' = [dream EXCEPT ![d] = rec]
      /\ seen' = IF narrow THEN seen ELSE seen \cup read
      /\ excused' = IF narrow /\ dream[d].update THEN excused \cup read ELSE excused
      /\ UNCHANGED <<clock, run, raw, watermark>>
  BY DEF Look
<1>2. dream[d] \in DreamRecord /\ raw \subseteq RawFile
  BY DEF DreamInv, DreamTypeOK
<1>3. found \subseteq DreamFinding
  <2>0. \A s \in Sources : /\ [rule |-> "statement_cluster", on |-> s] \in DreamFinding
                           /\ [rule |-> "cluster_canonical", on |-> s] \in DreamFinding
    BY DEF DreamFinding
  <2>1. StatementCluster \subseteq DreamFinding
    BY <2>0, Zenon DEF StatementCluster
  <2>2. RawOrphan(Evidence(read)) \subseteq DreamFinding
    BY <1>2 DEF RawOrphan, DreamFinding
  <2>3. ClusterCanonical(Evidence(read)) \subseteq DreamFinding
    BY <2>0, Zenon DEF ClusterCanonical
  <2>4. StaleActive(Evidence(read), dream[d].now) \subseteq DreamFinding
    BY DEF StaleActive, DreamFinding
  <2> QED BY <2>1, <2>2, <2>3, <2>4
<1> HIDE DEF found
<1>4. /\ rec \in DreamRecord /\ rec.at = "save"
      /\ rec.now = dream[d].now /\ rec.update = dream[d].update
  BY <1>2, <1>3 DEF DreamRecord
<1> HIDE DEF rec
<1>5. DreamTypeOK'
  BY <1>1, <1>4 DEF DreamInv, DreamTypeOK
<1>6. \A r \in Runs : Landed(r) /\ ~(run[r].stamp < dream[d].since) => r \in read
  BY <1>2 DEF Landed, InWindow, DreamInv, DreamTypeOK, RunRecord, DreamRecord
<1> HIDE DEF read
<1>7. /\ dream'[d] = rec /\ \A x \in Dreamers : x # d => dream'[x] = dream[x]
      /\ \A r \in Runs : Known(r) => Known(r)'
      /\ \A r \in Runs : Landed(r)' <=> Landed(r)
      /\ dream[d].update => \A r \in read : Known(r)'
  BY <1>1 DEF DreamInv, DreamTypeOK, Known, Landed
<1>8. dream[d].update => \A r \in Runs : Landed(r) => Known(r)'
  BY <1>1, <1>6, <1>7 DEF DreamInv, BeforeWindowIsKnown
<1>9. BeforeWatermarkIsKnown'
  BY <1>1, <1>7 DEF DreamInv, BeforeWatermarkIsKnown
<1>10. BeforeWindowIsKnown'
  BY <1>1, <1>4, <1>7 DEF DreamInv, BeforeWindowIsKnown
<1>11. BeforeDreamIsKnown'
  BY <1>1, <1>4, <1>7, <1>8 DEF DreamInv, BeforeDreamIsKnown
<1> QED BY <1>5, <1>9, <1>10, <1>11 DEF DreamInv

\* A dream that ends moves the watermark to a time before which all is known.
LEMMA WakeUpStep ==
    ASSUME DreamInv, NEW d \in Dreamers, WakeUp(d) \/ DreamDies(d)
    PROVE  DreamInv'
<1>1. /\ dream' = [dream EXCEPT ![d] = Awake]
      /\ UNCHANGED <<clock, run, raw, seen, excused>>
      /\ \/ watermark' = watermark
         \/ dream[d].at = "save" /\ dream[d].update /\ watermark' = dream[d].now
  BY DEF WakeUp, DreamDies
<1>2. dream[d].now \in Int
  BY DEF DreamInv, DreamTypeOK, DreamRecord
<1>3. DreamTypeOK'
  BY <1>1, <1>2, AwakeFacts DEF DreamInv, DreamTypeOK
<1>4. /\ dream'[d] = Awake /\ \A x \in Dreamers : x # d => dream'[x] = dream[x]
      /\ \A r \in Runs : (Known(r)' <=> Known(r)) /\ (Landed(r)' <=> Landed(r))
  BY <1>1 DEF DreamInv, DreamTypeOK, Known, Landed
<1>5. BeforeWatermarkIsKnown'
  BY <1>1, <1>4 DEF DreamInv, BeforeWatermarkIsKnown, BeforeDreamIsKnown
<1>6. BeforeWindowIsKnown' /\ BeforeDreamIsKnown'
  BY <1>1, <1>4, AwakeFacts DEF DreamInv, BeforeWindowIsKnown, BeforeDreamIsKnown
<1> QED BY <1>3, <1>5, <1>6 DEF DreamInv

LEMMA DreamInvStep == DreamInv /\ [DreamNext]_dreamVars => DreamInv'
<1> SUFFICES ASSUME DreamInv, [DreamNext]_dreamVars PROVE DreamInv'
  OBVIOUS
<1>1. CASE Tick \/ UNCHANGED dreamVars
  <2>1. UNCHANGED <<run, raw, watermark, dream, seen, excused>> /\ clock' \in Nat
    BY <1>1 DEF Tick, dreamVars, DreamInv, DreamTypeOK
  <2>2. DreamTypeOK' /\ \A r \in Runs : Landed(r)' => Landed(r) /\ run'[r].stamp = run[r].stamp
    BY <2>1 DEF DreamInv, DreamTypeOK, Landed
  <2> QED BY <2>1, <2>2, QuietStep
<1>2. ASSUME NEW r \in Runs, NEW q \in Queries, NEW hits \in Hits, WriteEvidence(r, q, hits)
      PROVE  DreamInv'
  BY <1>2, WriteEvidenceStep
<1>3. ASSUME NEW r \in Runs, WriteManifest(r) \/ Ingest(r) \/ ApplySynthesis(r) PROVE DreamInv'
  BY <1>3, WriteManifestStep, IngestStep
<1>4. ASSUME NEW d \in Dreamers, NEW o \in Options, FallAsleep(d, o) PROVE DreamInv'
  BY <1>4, FallAsleepStep
<1>5. ASSUME NEW d \in Dreamers, Look(d) \/ WakeUp(d) \/ DreamDies(d) PROVE DreamInv'
  BY <1>5, LookStep, WakeUpStep
<1> QED BY <1>1, <1>2, <1>3, <1>4, <1>5 DEF DreamNext

\* The specification of retrievals and dreams by themselves.
DreamSpec == DreamInit /\ [][DreamNext]_dreamVars

\* Whatever has landed before the watermark, before the window of a dream under way
\* or before the time of one that has read, is known.
THEOREM DreamInvariant == DreamSpec => []DreamInv
BY DreamInvInit, DreamInvStep, PTL DEF DreamSpec

\* The windows of the dreams join without a gap: a retrieval is passed over only for
\* one of the reasons that excuse it.
THEOREM NoRunIsPassedOverAlways == DreamSpec => []NoRunIsPassedOver
<1>1. DreamInv => NoRunIsPassedOver
  BY DEF DreamInv, BeforeWatermarkIsKnown, NoRunIsPassedOver, InWindow, Landed, Known
<1> QED BY <1>1, DreamInvariant, PTL

-----------------------------------------------------------------------------
(***************************************************************************)
(* Lint.  Every rule looks for the lack of something - an inbound link, a  *)
(* later page of the same name, an earlier finding on the same names - so  *)
(* a lint that reads fewer pages finds what one that reads more finds on   *)
(* them.  The overrides look at one finding at a time.                     *)
(***************************************************************************)

\* The page a finding is on, and for a pair the other one, are among these.
OnPagesOf(f, read) == /\ f.on[1] \in read
                      /\ f.rule = "cross_ref_asymmetry" => f.on[2] \in read

RawFindings(pages, loaded, known, domains, option) ==
    StaleFact(pages, loaded) \cup OrphanPage(pages, loaded) \cup MissingConcept(pages, loaded)
        \cup BrokenCrossRef(pages, loaded, known) \cup DataGap(pages, loaded, domains, option)
        \cup CrossRefAsymmetry(pages, loaded) \cup AbandonedPage(pages, loaded)

\* A page that is the later one of its name, or has no inbound link, stays so when
\* fewer pages are read.
LEMMA FewerPages ==
    ASSUME NEW pages, NEW loaded, NEW read \in SUBSET loaded, NEW name
    PROVE  /\ Means(pages, loaded, name) \cap read \subseteq Means(pages, read, name)
           /\ Inbound(pages, read, name) \subseteq Inbound(pages, loaded, name)
BY DEF Means, Inbound

\* Of some pages one is the last.
LEMMA OneIsLast ==
    ASSUME NEW n \in Nat, NEW T \in SUBSET (1 .. n), T # {}
    PROVE  \E m \in T : \A k \in T : k <= m
<1> DEFINE After(m) == {k \in T : k > m}
           Afters == {After(m) : m \in T}
<1>1. Afters \subseteq FiniteSubsetsOf(1 .. n) /\ Afters # {}
  <2>1. IsFiniteSet(1 .. n)
    BY FS_Interval
  <2>2. \A m \in T : After(m) \in SUBSET (1 .. n)
    OBVIOUS
  <2>3. \A m \in T : IsFiniteSet(After(m))
    BY <2>1, <2>2, FS_Subset
  <2> QED BY <2>2, <2>3 DEF FiniteSubsetsOf
<1>2. PICK least \in Afters : \A other \in Afters : <<other, least>> \notin StrictSubsetOrdering(1 .. n)
  BY <1>1, WFMin, FS_StrictSubsetOrderingWellFounded
<1>3. PICK m \in T : least = After(m)
  OBVIOUS
<1>4. \A k \in T : k \in Int /\ ~(k > k)
  OBVIOUS
<1>5. ASSUME NEW k \in T, k > m PROVE FALSE
  <2>1. \A j \in T : j > k => j > m
    BY <1>4, <1>5
  <2>2. After(k) \subseteq After(m) /\ k \in After(m) /\ k \notin After(k)
    BY <1>4, <1>5, <2>1
  <2>3. <<After(k), least>> \in StrictSubsetOrdering(1 .. n)
    BY <1>3, <2>2 DEF StrictSubsetOrdering
  <2> QED BY <1>2, <2>3
<1> QED BY <1>4, <1>5

\* A name that no page has is not found among fewer pages either.
LEMMA FewerNames ==
    ASSUME NEW S, NEW pages \in Seq(S), NEW loaded \in SUBSET DOMAIN pages, NEW read \in SUBSET loaded,
           NEW name, Means(pages, loaded, name) = {}
    PROVE  Means(pages, read, name) = {}
<1> DEFINE same == {n \in loaded : pages[n].name = name}
<1>1. same \in SUBSET (1 .. Len(pages)) /\ Len(pages) \in Nat
  OBVIOUS
<1>2. same = {}
  BY <1>1, OneIsLast DEF Means
<1> QED BY <1>2 DEF Means

\* What a rule finds among all loaded pages it finds among those that are read, when
\* the finding is on one of them; one lemma for each rule that looks at other pages.
LEMMA OrphanPageKept ==
    ASSUME NEW pages, NEW loaded, NEW read \in SUBSET loaded,
           NEW f \in OrphanPage(pages, loaded), f.on[1] \in read
    PROVE  f \in OrphanPage(pages, read)
<1>1. PICK n \in loaded : /\ f = Finding("orphan_page", <<n>>, "", "low")
                          /\ n \in Means(pages, loaded, pages[n].name)
                          /\ Inbound(pages, loaded, pages[n].name) = {}
  BY DEF OrphanPage
<1>2. n \in read
  BY <1>1 DEF Finding
<1>3. n \in Means(pages, read, pages[n].name) /\ Inbound(pages, read, pages[n].name) = {}
  BY <1>1, <1>2, FewerPages
<1> QED BY <1>1, <1>2, <1>3 DEF OrphanPage

LEMMA MissingConceptKept ==
    ASSUME NEW S, NEW pages \in Seq(S), NEW loaded \in SUBSET DOMAIN pages, NEW read \in SUBSET loaded,
           NEW f \in MissingConcept(pages, loaded), f.on[1] \in read
    PROVE  f \in MissingConcept(pages, read)
<1>1. PICK x \in loaded \X UNION {pages[m].links : m \in loaded} :
          /\ f = Finding("missing_concept", <<x[1]>>, x[2], "low")
          /\ x[2] \in pages[x[1]].links /\ Means(pages, loaded, x[2]) = {}
  BY DEF MissingConcept
<1>2. x[1] \in read
  BY <1>1 DEF Finding
<1>3. x \in read \X UNION {pages[m].links : m \in read}
  BY <1>1, <1>2
<1>4. Means(pages, read, x[2]) = {}
  BY <1>1, FewerNames
<1> QED BY <1>1, <1>3, <1>4 DEF MissingConcept

LEMMA CrossRefAsymmetryKept ==
    ASSUME NEW pages, NEW loaded, NEW read \in SUBSET loaded,
           NEW f \in CrossRefAsymmetry(pages, loaded), f.on[1] \in read, f.on[2] \in read
    PROVE  f \in CrossRefAsymmetry(pages, read)
<1>1. PICK x \in loaded \X loaded :
          /\ f = Finding("cross_ref_asymmetry", <<x[1], x[2]>>, "", "medium")
          /\ pages[x[1]].confidence = "high"
          /\ pages[x[2]].name \in pages[x[1]].links \ {pages[x[1]].name}
          /\ x[2] \in Means(pages, loaded, pages[x[2]].name)
          /\ \A c \in loaded : (c < x[1] /\ pages[c].name = pages[x[1]].name /\ pages[c].confidence = "high")
                                => pages[x[2]].name \notin pages[c].links
          /\ pages[x[1]].name \notin pages[x[2]].links
          /\ pages[x[1]].declared \cap pages[x[2]].declared = {}
  BY DEF CrossRefAsymmetry
<1>2. x[1] \in read /\ x[2] \in read
  BY <1>1 DEF Finding
<1>3. x \in read \X read
  BY <1>1, <1>2
<1>4. x[2] \in Means(pages, read, pages[x[2]].name)
  BY <1>1, <1>2, FewerPages
<1> QED BY <1>1, <1>3, <1>4 DEF CrossRefAsymmetry

LEMMA AbandonedPageKept ==
    ASSUME NEW pages, NEW loaded, NEW read \in SUBSET loaded,
           NEW f \in AbandonedPage(pages, loaded), f.on[1] \in read
    PROVE  f \in AbandonedPage(pages, read)
<1>1. PICK n \in loaded : /\ f = Finding("abandoned_page", <<n>>, "", "low")
                          /\ pages[n].confidence = "low" /\ pages[n].age > AbandonedAfter
                          /\ Inbound(pages, loaded, pages[n].name) = {}
  BY DEF AbandonedPage
<1>2. n \in read
  BY <1>1 DEF Finding
<1>3. Inbound(pages, read, pages[n].name) = {}
  BY <1>1, FewerPages
<1> QED BY <1>1, <1>2, <1>3 DEF AbandonedPage

\* The other rules look at one page at a time.
LEMMA OnePageKept ==
    ASSUME NEW pages, NEW loaded, NEW read \in SUBSET loaded, NEW known, NEW domains, NEW option,
           NEW f, f.on[1] \in read
    PROVE  /\ f \in StaleFact(pages, loaded) => f \in StaleFact(pages, read)
           /\ f \in BrokenCrossRef(pages, loaded, known) => f \in BrokenCrossRef(pages, read, known)
           /\ f \in DataGap(pages, loaded, domains, option) => f \in DataGap(pages, read, domains, option)
<1>1. ASSUME f \in StaleFact(pages, loaded) PROVE f \in StaleFact(pages, read)
  <2>1. PICK n \in loaded : /\ f = Finding("stale_fact", <<n>>, "", "medium")
                            /\ pages[n].expired /\ ~pages[n].successor
    BY <1>1 DEF StaleFact
  <2>2. n \in read
    BY <2>1 DEF Finding
  <2> QED BY <2>1, <2>2 DEF StaleFact
<1>2. ASSUME f \in BrokenCrossRef(pages, loaded, known) PROVE f \in BrokenCrossRef(pages, read, known)
  <2>1. PICK n \in loaded : /\ f = Finding("broken_cross_ref", <<n>>, "", "high")
                            /\ ~(pages[n].declared \subseteq {c.id : c \in known})
    BY <1>2 DEF BrokenCrossRef
  <2>2. n \in read
    BY <2>1 DEF Finding
  <2> QED BY <2>1, <2>2 DEF BrokenCrossRef
<1>3. ASSUME f \in DataGap(pages, loaded, domains, option) PROVE f \in DataGap(pages, read, domains, option)
  <2>1. PICK n \in loaded : /\ f = Finding("data_gap", <<n>>, "", "low")
                            /\ pages[n].confidence = "low"
                            /\ pages[n].age > Threshold(domains, pages[n].domain, option)
    BY <1>3 DEF DataGap
  <2>2. n \in read
    BY <2>1 DEF Finding
  <2> QED BY <2>1, <2>2 DEF DataGap
<1> QED BY <1>1, <1>2, <1>3

\* A finding is a record on loaded pages; only the rule on pairs names a second one.
LEMMA FindingsAreOnLoadedPages ==
    ASSUME NEW pages, NEW loaded, NEW known, NEW domains, NEW option,
           NEW f \in RawFindings(pages, loaded, known, domains, option)
    PROVE  /\ \E rule, on, about, severity : f = Finding(rule, on, about, severity)
           /\ f.on[1] \in loaded
           /\ f \in CrossRefAsymmetry(pages, loaded) =>
                  f.rule = "cross_ref_asymmetry" /\ f.on[2] \in loaded
           /\ f.rule = "cross_ref_asymmetry" => f \in CrossRefAsymmetry(pages, loaded)
<1> DEFINE OnOne(r) == \E n \in loaded : \E about, severity : f = Finding(r, <<n>>, about, severity)
           Single == {"stale_fact", "orphan_page", "missing_concept", "broken_cross_ref", "data_gap", "abandoned_page"}
<1>1. CASE f \in CrossRefAsymmetry(pages, loaded)
  <2>1. PICK x \in loaded \X loaded : f = Finding("cross_ref_asymmetry", <<x[1], x[2]>>, "", "medium")
    BY <1>1 DEF CrossRefAsymmetry
  <2>2. f.rule = "cross_ref_asymmetry" /\ f.on[1] = x[1] /\ f.on[2] = x[2]
    BY <2>1 DEF Finding
  <2>3. \E rule, on, about, severity : f = Finding(rule, on, about, severity)
    BY <2>1
  <2> QED BY <1>1, <2>1, <2>2, <2>3
<1>2. CASE f \notin CrossRefAsymmetry(pages, loaded)
  <2>1. PICK r \in Single : OnOne(r)
    <3>1. f \in StaleFact(pages, loaded) => OnOne("stale_fact")
      BY DEF StaleFact
    <3>2. f \in OrphanPage(pages, loaded) => OnOne("orphan_page")
      BY DEF OrphanPage
    <3>3. f \in MissingConcept(pages, loaded) => OnOne("missing_concept")
      BY DEF MissingConcept
    <3>4. f \in BrokenCrossRef(pages, loaded, known) => OnOne("broken_cross_ref")
      BY DEF BrokenCrossRef
    <3>5. f \in DataGap(pages, loaded, domains, option) => OnOne("data_gap")
      BY DEF DataGap
    <3>6. f \in AbandonedPage(pages, loaded) => OnOne("abandoned_page")
      BY DEF AbandonedPage
    <3> HIDE DEF OnOne
    <3> QED BY <1>2, <3>1, <3>2, <3>3, <3>4, <3>5, <3>6 DEF RawFindings
  <2>2. PICK n \in loaded : \E about, severity : f = Finding(r, <<n>>, about, severity)
    BY <2>1
  <2>3. f.rule = r /\ f.on[1] = n
    BY <2>2 DEF Finding
  <2>4. \E rule, on, about, severity : f = Finding(rule, on, about, severity)
    BY <2>2
  <2>5. f.rule # "cross_ref_asymmetry"
    BY <2>1, <2>3
  <2> QED BY <1>2, <2>3, <2>4, <2>5
<1> QED BY <1>1, <1>2

\* All rules together.
LEMMA RawFindingsKept ==
    ASSUME NEW S, NEW pages \in Seq(S), NEW loaded \in SUBSET DOMAIN pages, NEW read \in SUBSET loaded,
           NEW known, NEW domains, NEW option,
           NEW f \in RawFindings(pages, loaded, known, domains, option), OnPagesOf(f, read)
    PROVE  f \in RawFindings(pages, read, known, domains, option)
<1>1. f.on[1] \in read /\ (f \in CrossRefAsymmetry(pages, loaded) => f.on[2] \in read)
  BY FindingsAreOnLoadedPages DEF OnPagesOf
<1>2. \/ f \in StaleFact(pages, loaded) \/ f \in OrphanPage(pages, loaded)
      \/ f \in MissingConcept(pages, loaded) \/ f \in BrokenCrossRef(pages, loaded, known)
      \/ f \in DataGap(pages, loaded, domains, option) \/ f \in CrossRefAsymmetry(pages, loaded)
      \/ f \in AbandonedPage(pages, loaded)
  BY DEF RawFindings
<1>3. \/ f \in StaleFact(pages, read) \/ f \in OrphanPage(pages, read)
      \/ f \in MissingConcept(pages, read) \/ f \in BrokenCrossRef(pages, read, known)
      \/ f \in DataGap(pages, read, domains, option) \/ f \in CrossRefAsymmetry(pages, read)
      \/ f \in AbandonedPage(pages, read)
  BY <1>1, <1>2, OnePageKept, OrphanPageKept, MissingConceptKept, CrossRefAsymmetryKept, AbandonedPageKept
<1> QED BY <1>3 DEF RawFindings

\* The overrides of the domains look at a finding and its pages alone.
LEMMA OverriddenOneByOne ==
    ASSUME NEW pages, NEW domains, NEW A, NEW B, NEW f \in Overridden(A, pages, domains),
           \A g \in A : \E rule, on, about, severity : g = Finding(rule, on, about, severity)
    PROVE  \E g \in A : /\ f.on = g.on /\ f.rule = g.rule
                        /\ g \in B => f \in Overridden(B, pages, domains)
<1> DEFINE Severity(g) == LET d == DomainOf(g, pages) IN
               IF d \in DOMAIN domains /\ g.rule \in DOMAIN domains[d].overrides
               THEN domains[d].overrides[g.rule] ELSE g.severity
<1>1. PICK g \in A : Severity(g) # "skip" /\ f = [g EXCEPT !.severity = Severity(g)]
  BY DEF Overridden
<1>2. f.on = g.on /\ f.rule = g.rule
  BY <1>1 DEF Finding
<1>3. g \in B => f \in Overridden(B, pages, domains)
  BY <1>1 DEF Overridden
<1> QED BY <1>2, <1>3

\* For any pages, claims, domain schemas and option: what the lint of the whole wiki
\* finds on a page that the lint of its domain reads - and, of a link that is not
\* returned, on both its pages - the lint of the domain finds too.
THEOREM DomainLintLosesNothingAlways ==
    ASSUME NEW S, NEW pages \in Seq(S), NEW known, NEW domains, NEW option
    PROVE  DomainLintLosesNothing(pages, known, domains, option)
<1> SUFFICES ASSUME NEW domain \in {pages[n].place : n \in DOMAIN pages} \ {"shared"},
                    NEW f \in LintPages(pages, known, domains, "all", option),
                    pages[f.on[1]].place \in {domain, "shared"},
                    f.rule = "cross_ref_asymmetry" => pages[f.on[2]].place \in {domain, "shared"}
             PROVE  f \in LintPages(pages, known, domains, domain, option)
  BY DEF DomainLintLosesNothing
<1> DEFINE loaded == LoadPages(pages, "all")
           read == LoadPages(pages, domain)
           A == RawFindings(pages, loaded, known, domains, option)
           B == RawFindings(pages, read, known, domains, option)
<1>1. loaded = DOMAIN pages /\ read \subseteq loaded
  BY DEF LoadPages
<1>2. \A n \in DOMAIN pages : pages[n].place \in {domain, "shared"} => n \in read
  BY DEF LoadPages
<1>3. f \in Overridden(A, pages, domains)
  BY DEF LintPages, RawFindings
<1>4. LintPages(pages, known, domains, domain, option) = Overridden(B, pages, domains)
  BY DEF LintPages, RawFindings
<1> HIDE DEF loaded, read
<1>5. PICK g \in A : /\ f.on = g.on /\ f.rule = g.rule
                     /\ g \in B => f \in Overridden(B, pages, domains)
  <2>1. \A g \in A : \E rule, on, about, severity : g = Finding(rule, on, about, severity)
    BY FindingsAreOnLoadedPages
  <2> HIDE DEF A, B
  <2> QED BY <1>3, <2>1, OverriddenOneByOne
<1>6. g.on[1] \in loaded /\ (g.rule = "cross_ref_asymmetry" => g.on[2] \in loaded)
  BY FindingsAreOnLoadedPages
<1>7. OnPagesOf(g, read)
  BY <1>1, <1>2, <1>5, <1>6 DEF OnPagesOf
<1>8. g \in B
  BY <1>1, <1>7, RawFindingsKept
<1> QED BY <1>4, <1>5, <1>8
=============================================================================
