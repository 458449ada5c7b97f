----------------------------- MODULE WikiSteward -----------------------------
(***************************************************************************)
(* The loop that keeps the claims of one statement consistent: lint raises *)
(* a finding for every pair of claims that contradict each other           *)
(* (src/omni_hub/wiki_lint.py), a reviewer resolves findings or supersedes *)
(* a claim directly (src/omni_hub/knowledge_plane.py), and the next lint   *)
(* looks at what is left.  The reader's views of the result are            *)
(* list_claims, show_claim and the supersession check of wiki-doctor       *)
(* (src/omni_hub/wiki_doctor.py).                                          *)
(*                                                                         *)
(* An operation is one step here; ClaimLedger.tla takes it apart.  The     *)
(* contradiction rule groups claims by statement key and never compares    *)
(* two groups, so the module follows one group.  Claim ids are compared as *)
(* text: they are numbers here.                                            *)
(***************************************************************************)
EXTENDS ClaimRows, Naturals, FiniteSetsExt, SequencesExt

CONSTANT Born    \* Born[c]: the rank of t_valid_from, to the second

ASSUME StewardAssumption == Claims \subseteq Nat /\ Born \in [Claims -> Nat]

VARIABLES claim,     \* claim[c]: its row in claims.jsonl, or None
          stance,    \* stance[pair]: what the payloads of two claims say
          raised,    \* pairs with a stored contradiction finding
          resolved,  \* pairs whose finding has been resolved (history)
          late,      \* a finding was resolved that lint would not raise again (history)
          byHand     \* the reviewer chose an order the dates do not give (history)

stewardVars == <<claim, stance, raised, resolved, late, byHand>>

ClaimRow == [state : ReviewStates, closed : BOOLEAN,
             by : Claims \cup {None}, supersedes : SUBSET Claims]

ASSUME RowAssumption ==
    None \notin ClaimRow

\* One operation at a time leaves one row of an id.
LedgerFile == [Claims -> ClaimRow \cup {None}]
NoRows == [c \in Claims |-> None]
Written(l) == {c \in Claims : l[c] # None}

NewClaim == [state |-> "approved", closed |-> FALSE, by |-> None, supersedes |-> {}]

Supersede(l, new, old) == [l EXCEPT ![old] = ClosedBy(@, new), ![new] = Extending(@, old)]
Mark(l, c, state) == [l EXCEPT ![c].state = state]

\* "against": one lists the other; "apart": disjoint support, confidence
\* at least 0.2 apart.
Stances == {"none", "against", "apart"}

StewardInit == /\ claim = NoRows
               /\ stance \in [Twosomes -> Stances]
               /\ raised = {} /\ resolved = {}
               /\ late = FALSE /\ byHand = FALSE

-----------------------------------------------------------------------------
(* What lint compares. *)

\* Mutant: as before keep_both was made to end the loop.
SkipsRejectedOnly(c) == ~claim[c].closed /\ claim[c].state # "rejected"

\* Mutant: rejected claims are compared like any other.
SkipsConflictOnly(c) == ~claim[c].closed /\ claim[c].state # "conflict"

Compared(c) == ~claim[c].closed /\ claim[c].state \notin {"conflict", "rejected"}

StanceDiverges(pair) ==
    LET states == {claim[c].state : c \in pair}
    IN  \/ stance[pair] = "against"
        \/ {"approved", "rejected"} \subseteq states
        \/ states = {"approved"} /\ stance[pair] = "apart"

Contradictions == {pair \in Twosomes : /\ \A c \in pair : c \in Written(claim) /\ Compared(c)
                                       /\ StanceDiverges(pair)}

-----------------------------------------------------------------------------
(* The operations. *)

Apply(c) == /\ c \notin Written(claim)
            /\ claim' = [claim EXCEPT ![c] = NewClaim]
            /\ UNCHANGED <<stance, raised, resolved, late, byHand>>

\* lint_wiki with persist_proposals; a finding that is raised twice is the same
\* question to the reviewer.
Lint == /\ raised' = raised \cup Contradictions
        /\ UNCHANGED <<claim, stance, resolved, late, byHand>>

\* sorted(affected, key=t_valid_from, reverse=True) keeps the order of the ids
\* among equals.
Ordered(new, old) == Born[new] > Born[old] \/ (Born[new] = Born[old] /\ new < old)

Resolutions(new, old) ==
    {Mark(Mark(claim, new, "conflict"), old, "conflict"),
     Mark(claim, old, "rejected"),
     Mark(claim, new, "rejected"),
     Supersede(claim, new, old)}

\* resolve_conflict looks neither at the state of the finding nor at lint; ids
\* that the reviewer passes override the dates.
Resolve(new, old) ==
    /\ {new, old} \in raised
    /\ claim' \in Resolutions(new, old)
    /\ resolved' = resolved \cup {{new, old}}
    /\ late' = (late \/ {new, old} \notin Contradictions)
    /\ byHand' = (byHand \/ ~Ordered(new, old))
    /\ UNCHANGED <<stance, raised>>

\* wiki-supersede takes any two claims.
SupersedeDirectly(new, old) ==
    /\ {new, old} \subseteq Written(claim)
    /\ claim' = Supersede(claim, new, old)
    /\ byHand' = TRUE
    /\ UNCHANGED <<stance, raised, resolved, late>>

StewardNext == \/ \E c \in Claims : Apply(c)
               \/ Lint
               \/ \E pair \in Pairs : \/ Resolve(pair[1], pair[2])
                                      \/ SupersedeDirectly(pair[1], pair[2])

StewardSpec == StewardInit /\ [][StewardNext]_stewardVars

-----------------------------------------------------------------------------
(* What readers see. *)

\* _is_closed_claim: list_claims, wiki-search and context packs leave it out.
IsClosed(c) == claim[c].closed \/ claim[c].state \in {"rejected", "superseded"}

-----------------------------------------------------------------------------
(* Properties. *)

StewardTypeOK == /\ claim \in LedgerFile
                 /\ stance \in [Twosomes -> Stances]
                 /\ raised \subseteq Twosomes
                 /\ resolved \subseteq raised
                 /\ late \in BOOLEAN /\ byHand \in BOOLEAN

\* Whatever a reviewer decides about a pair, and whatever happens to the two
\* claims in other pairs afterwards, lint never raises that pair again ("otherwise
\* keep_both decisions loop forever", wiki_lint.py).
ResolvedStaysResolved == resolved \cap Contradictions = {}

\* A reviewer who lints before every decision and leaves the order to the dates
\* never closes the last claim of a statement: readers still find one.
StatementSurvives ==
    ~late /\ ~byHand /\ Written(claim) # {} => \E c \in Written(claim) : ~IsClosed(c)

\* As long as the order is left to the dates, superseded_by never leads to
\* an older claim, through any number of decisions, stale ones included.
HistoryRunsForward ==
    ~byHand => \A c \in Written(claim) : claim[c].by # None => Born[claim[c].by] >= Born[c]
=============================================================================
