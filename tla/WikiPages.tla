------------------------------ MODULE WikiPages ------------------------------
(***************************************************************************)
(* The pages of the wiki, their list (index.md), the domain schemas beside *)
(* them and their full-text index: knowledge_plane.py applies a proposal   *)
(* file by file and brings the index up to date last, wiki_fts.py keeps    *)
(* the index in a SQLite table whose rows are read from the files before   *)
(* the transaction that stores them.  People edit the pages by hand        *)
(* meanwhile, and a process may die between any two steps.                 *)
(*                                                                         *)
(* What a page says is abstracted to the change that wrote it; of its      *)
(* frontmatter only whether it closes the page matters here.  Every page   *)
(* is taken to match a query, so that an answer is the pages that the      *)
(* filter lets through.  The claims of a proposal are in ClaimLedger, its  *)
(* verdict in ProposalGate.                                                *)
(***************************************************************************)
EXTENDS Naturals, FiniteSets

CONSTANTS
    Pages,          \* paths of content pages
    Editors,        \* processes that apply proposals or reindex
    MaxChanges      \* bound on the changes of pages

ASSUME PagesAssumption == IsFiniteSet(Pages) /\ MaxChanges \in Nat

VARIABLES
    file,           \* file[p]: what the page holds, or NoPage
    row,            \* row[p]: what the full-text table has for it, or NoPage
    listed,         \* the pages that index.md links to
    schema,         \* the _schema.md of a domain
    doing,          \* doing[e]: [what, at, page, text, todo]
    changes,        \* how many changes of pages there were
    lone,           \* lone[e]: nobody else was at it since e began
    exact           \* no two calls overlapped, none broke off, no hand wrote
                    \* since the beginning or since the last lone reindex

pageVars == <<file, row, listed, schema, doing, changes, lone, exact>>

NoPage == [rev |-> 0, closed |-> FALSE]
Content == [rev : 0 .. MaxChanges, closed : BOOLEAN]
Idle == [what |-> "nothing", at |-> "end", page |-> "none", text |-> NoPage, todo |-> {}]
Resting == {e \in Editors : doing[e].what = "nothing"}

PagesInit ==
    /\ file = [p \in Pages |-> NoPage] /\ row = [p \in Pages |-> NoPage]
    /\ listed = {} /\ schema = "missing"
    /\ doing = [e \in Editors |-> Idle]
    /\ changes = 0
    /\ lone = [e \in Editors |-> FALSE] /\ exact = TRUE

-----------------------------------------------------------------------------

Begin(e, call) ==
    /\ e \in Resting
    /\ doing' = [doing EXCEPT ![e] = call]
    /\ lone' = [x \in Editors |-> x = e /\ Resting = Editors]
    /\ exact' = (exact /\ Resting = Editors)

Continue(e, call) == doing' = [doing EXCEPT ![e] = call] /\ UNCHANGED lone

\* Every apply looks at the layout first: a schema that is missing or that does not
\* carry the version of the code is written, one edited by hand is left alone.
Layout == schema' = IF schema \in {"missing", "stale"} THEN "current" ELSE schema

\* The approved proposal overwrites its target page, or makes it.
ApplyPage(e, p) ==
    /\ changes < MaxChanges
    /\ changes' = changes + 1
    /\ file' = [file EXCEPT ![p] = [rev |-> changes', closed |-> FALSE]]
    /\ Layout
    /\ Begin(e, [Idle EXCEPT !.what = "apply", !.at = "list", !.page = p])
    /\ UNCHANGED <<row, listed>>

ApplyIndex(e) ==
    /\ doing[e].at = "list"
    /\ listed' = listed \cup {doing[e].page}
    /\ Continue(e, [doing[e] EXCEPT !.at = "read"])
    /\ UNCHANGED <<file, row, schema, changes, exact>>

\* WikiFTSIndex._index_path reads the page, ...
ReadPage(e) ==
    /\ doing[e].at = "read"
    /\ Continue(e, [doing[e] EXCEPT !.text = file[doing[e].page], !.at = "store"])
    /\ UNCHANGED <<file, row, listed, schema, changes, exact>>

Over(e) == doing[e].todo = {}

NextPage(e) == IF Over(e) THEN Idle
               ELSE LET p == CHOOSE q \in doing[e].todo : TRUE
                    IN [doing[e] EXCEPT !.at = "read", !.page = p, !.todo = @ \ {p}]

Ends(e) == exact' = (exact \/ (doing[e].what = "reindex" /\ lone[e] /\ Over(e)))

\* ... and replaces the row with what it read.  Of a page that was gone by then an
\* apply deletes the row, and a rebuild leaves it as it is.
StoreRow(e) ==
    /\ doing[e].at = "store"
    /\ row' = IF doing[e].text = NoPage /\ doing[e].what = "reindex" THEN row
              ELSE [row EXCEPT ![doing[e].page] = doing[e].text]
    /\ Continue(e, NextPage(e))
    /\ Ends(e)
    /\ UNCHANGED <<file, listed, schema, changes>>

\* The update after an apply may fail, and then nobody is told.
StoreFails(e) ==
    /\ doing[e].at = "store" /\ doing[e].what = "apply"
    /\ doing' = [doing EXCEPT ![e] = Idle]
    /\ exact' = FALSE
    /\ UNCHANGED <<file, row, listed, schema, changes, lone>>

\* Mutant: a rebuild takes the pages there are and forgets the rows of the others.
WipeNothing(e) ==
    /\ Begin(e, [Idle EXCEPT !.what = "reindex", !.at = "list files"])
    /\ UNCHANGED <<file, row, listed, schema, changes>>

\* rebuild_all empties the table in a transaction of its own, ...
Wipe(e) ==
    /\ row' = [p \in Pages |-> NoPage]
    /\ Begin(e, [Idle EXCEPT !.what = "reindex", !.at = "list files"])
    /\ UNCHANGED <<file, listed, schema, changes>>

\* ... lists the files once, and indexes them one by one.
ListFiles(e) ==
    /\ doing[e].at = "list files"
    /\ LET found == {p \in Pages : file[p] # NoPage} IN
        IF found = {}
        THEN /\ Continue(e, Idle)
             /\ exact' = (exact \/ lone[e])
        ELSE LET p == CHOOSE q \in found : TRUE
             IN /\ Continue(e, [doing[e] EXCEPT !.at = "read", !.page = p, !.todo = found \ {p}])
                /\ UNCHANGED exact
    /\ UNCHANGED <<file, row, listed, schema, changes>>

\* wiki-supersede and wiki-conflict-resolve take the page of the claim they close
\* off the list; its file and its row stay.
Prune(p) ==
    /\ p \in listed
    /\ listed' = listed \ {p}
    /\ UNCHANGED <<file, row, schema, doing, changes, lone, exact>>

\* wiki-init, also after the code has moved to a new version of the schemas.
InitLayout ==
    /\ Layout
    /\ schema' # schema
    /\ UNCHANGED <<file, row, listed, doing, changes, lone, exact>>

NewVersion ==
    /\ schema \in {"current", "edited"}
    /\ schema' = "stale"
    /\ UNCHANGED <<file, row, listed, doing, changes, lone, exact>>

EditSchema ==
    /\ schema = "current"
    /\ schema' = "edited"
    /\ UNCHANGED <<file, row, listed, doing, changes, lone, exact>>

\* The vault is a folder of markdown files: people edit, close and delete pages.
EditByHand(p) ==
    /\ changes < MaxChanges
    /\ changes' = changes + 1
    /\ \/ \E closed \in BOOLEAN : file' = [file EXCEPT ![p] = [rev |-> changes', closed |-> closed]]
       \/ file[p] # NoPage /\ file' = [file EXCEPT ![p] = NoPage]
    /\ exact' = FALSE /\ lone' = [e \in Editors |-> FALSE]
    /\ UNCHANGED <<row, listed, schema, doing>>

Die(e) ==
    /\ e \notin Resting
    /\ doing' = [doing EXCEPT ![e] = Idle]
    /\ exact' = FALSE
    /\ UNCHANGED <<file, row, listed, schema, changes, lone>>

PagesNext ==
    \/ \E e \in Editors : \/ ApplyIndex(e) \/ ReadPage(e) \/ StoreRow(e) \/ StoreFails(e)
                          \/ Wipe(e) \/ ListFiles(e) \/ Die(e)
                          \/ \E p \in Pages : ApplyPage(e, p)
    \/ \E p \in Pages : Prune(p) \/ EditByHand(p)
    \/ InitLayout \/ NewVersion \/ EditSchema

-----------------------------------------------------------------------------
(* search_wiki. *)

Open(found) == {p \in Pages : found[p] # NoPage /\ ~found[p].closed}

\* The closed pages go after the best rows were taken; score orders them.
Fetched(limit) == 4 * limit
FtsHits(score, limit) ==
    LET best == {p \in Pages : row[p] # NoPage
                    /\ Cardinality({q \in Pages : row[q] # NoPage /\ score[q] < score[p]}) < Fetched(limit)}
        good == {p \in best : ~row[p].closed}
    IN {p \in good : Cardinality({q \in good : score[q] < score[p]}) < limit}

SubstringHits(score, limit) ==
    {p \in Open(file) : Cardinality({q \in Open(file) : score[q] < score[p]}) < limit}

\* The default backend is the table as long as it has a row.
Search(score, limit) ==
    IF \E p \in Pages : row[p] # NoPage THEN FtsHits(score, limit) ELSE SubstringHits(score, limit)

-----------------------------------------------------------------------------

\* As long as no two calls overlapped, none died or failed and nobody edited a
\* page by hand - and again after any of these, as soon as one reindex has run
\* undisturbed - the table holds just the pages as they are, and a search that
\* fetches all the rows that match answers from the pages as they are.
IndexExactWhenAlone ==
    (exact /\ Resting = Editors) =>
        /\ row = file
        /\ LET number == CHOOSE n \in [Pages -> 1 .. Cardinality(Pages)] : \A p, q \in Pages : n[p] = n[q] => p = q
           IN \A limit \in 1 .. Cardinality(Pages) :
                Cardinality({p \in Pages : row[p] # NoPage}) <= Fetched(limit) => Search(number, limit) = SubstringHits(number, limit)
=============================================================================
