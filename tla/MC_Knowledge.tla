---------------------------- MODULE MC_Knowledge ----------------------------
(***************************************************************************)
(* The parts of the knowledge plane around the claim ledger: the steward's *)
(* loop, the pages with their full-text index, the projection registry,    *)
(* the dream, and the rules of lint and graph.  A behaviour is about one   *)
(* of them, and the others rest.  The rules keep no state: one step asks   *)
(* them one question.                                                      *)
(***************************************************************************)
EXTENDS WikiHistory, WikiPages, Projections, WikiDream, WikiLint, WikiGraph

VARIABLES focus,      \* the part that the behaviour is about
          question    \* what a rule is asked, or <<>>

allButSteward == <<pageVars, projVars, dreamVars>>
allButPages == <<stewardVars, projVars, dreamVars>>
allButProjections == <<stewardVars, pageVars, dreamVars>>
allButDream == <<stewardVars, pageVars, projVars>>

Foci == {"steward", "pages", "projections", "dream", "lint", "graph"}

KnowledgeInit ==
    /\ focus \in Foci /\ question = <<>>
    /\ StewardInit /\ PagesInit /\ ProjInit /\ DreamInit
    /\ focus # "steward" => stance = CHOOSE s \in [Twosomes -> Stances] : TRUE

-----------------------------------------------------------------------------
(* Questions: the two pages of a wiki, of the whole wiki, of two domains   *)
(* or of one and nobody's; the claims of a graph.                          *)

Places == {<<"shared", "">>, <<"shared", "fashion">>, <<"research", "research">>, <<"fashion", "fashion">>}
Texts == {[confidence |-> "low", age |-> 0, declared |-> {}, expired |-> TRUE],
            [confidence |-> "low", age |-> 200, declared |-> {"c1"}, expired |-> FALSE],
            [confidence |-> "high", age |-> 0, declared |-> {"c1", "c2"}, expired |-> FALSE]}
WikiPage(place, name, links, text) ==
    text @@ [place |-> place[1], domain |-> place[2], name |-> name, links |-> links, successor |-> FALSE]
OnePage == {WikiPage(p, n, l, t) : p \in Places, n \in {"a", "b"}, l \in SUBSET {"a", "b", "z"}, t \in Texts}
LintClaims == {[id |-> "c1", page |-> 1, open |-> TRUE]}

GraphClaim == [id : {1}, names : SUBSET {"a", "b", "c", "d"}, open : BOOLEAN, supersedes : {{}}, domain : {"d"}]

AskLint == /\ focus = "lint" /\ question = <<>>
           /\ question' \in [1 .. 2 -> OnePage]
           /\ UNCHANGED <<focus, stewardVars, allButSteward>>

AskGraph == /\ focus = "graph" /\ question = <<>>
            /\ question' \in [1 .. 3 -> GraphClaim]
            /\ UNCHANGED <<focus, stewardVars, allButSteward>>

KnowledgeNext ==
    \/ focus = "steward" /\ StewardNext /\ UNCHANGED <<focus, question, allButSteward>>
    \/ focus = "pages" /\ PagesNext /\ UNCHANGED <<focus, question, allButPages>>
    \/ focus = "projections" /\ ProjNext /\ UNCHANGED <<focus, question, allButProjections>>
    \/ focus = "dream" /\ DreamNext /\ UNCHANGED <<focus, question, allButDream>>
    \/ AskLint
    \/ AskGraph

KnowledgeSpec == KnowledgeInit /\ [][KnowledgeNext]_<<focus, question, stewardVars, allButSteward>>

-----------------------------------------------------------------------------
\* WikiLint!DomainLintLosesNothing of every question.
LintOfADomainLosesNothing ==
    focus = "lint" /\ question # <<>> => DomainLintLosesNothing(question, LintClaims, DomainSchemas, DefaultStale)

\* WikiGraph!CommunitiesAreComponents of every question.
GraphFallsIntoComponents ==
    focus = "graph" /\ question # <<>> => CommunitiesAreComponents(question)

-----------------------------------------------------------------------------
(* Instances. *)

\* The first claim is the oldest; the others were made in the same second.
MCBorn == [c \in Claims |-> IF c = 1 THEN 0 ELSE 1]

Option(full, update, rules) == [full |-> full, update |-> update, rules |-> rules]
DreamOptions == {Option(FALSE, TRUE, "all"), Option(FALSE, FALSE, "all"),
                 Option(FALSE, TRUE, "narrow"), Option(TRUE, TRUE, "all")}

\* Dreamers are interchangeable.
DreamerSymmetry == Permutations(Dreamers)
=============================================================================
