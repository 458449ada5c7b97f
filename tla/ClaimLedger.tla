----------------------------- MODULE ClaimLedger -----------------------------
(***************************************************************************)
(* The claim ledger .omni/claims.jsonl and the wiki index beside it        *)
(* (src/omni_hub/knowledge_plane.py).  Three operations change them:       *)
(* applying an approved wiki proposal, superseding a claim and resolving a *)
(* contradiction finding.  Each is a program of file accesses that nothing *)
(* locks: the ledger is read, a temporary file is opened (which empties    *)
(* it), the changed copy is written to it, and it replaces the ledger.     *)
(* All processes use one temporary file.  A process may die between any    *)
(* two accesses, and two processes may interleave theirs.                  *)
(*                                                                         *)
(* A proposal carries several claims for one page, and two proposals may   *)
(* carry the same claim.  Nothing keeps two rows of one id out of the file *)
(* when two processes append: a claim has a sequence of rows.  A crash is  *)
(* a killed process: one write call reaches the file or does not.          *)
(***************************************************************************)
EXTENDS ClaimRows, Naturals, Sequences, FiniteSets

CONSTANTS Pages,       \* paths of wiki pages
          Proposals,   \* approved wiki proposals: target page and claims
          Procs,       \* processes that run the operations
          Versioned,   \* callers of supersede_claim pass expected_version
          MaxOps       \* bound: operations started

ASSUME LedgerAssumption ==
    /\ Proposals \subseteq [page : Pages, claims : SUBSET Claims]
    /\ Versioned \in BOOLEAN /\ MaxOps \in Nat

Row == [state : ReviewStates, closed : BOOLEAN, by : Claims \cup {None},
        supersedes : SUBSET Claims, page : Pages]

\* f[c]: the rows of claim c, in the order of the file.
File == [Claims -> Seq(Row)]

\* An empty (or missing) claims.jsonl.
NoLines == [c \in Claims |-> <<>>]

Known(f) == {c \in Claims : f[c] # <<>>}
Rows(f, c) == {f[c][i] : i \in DOMAIN f[c]}
LastRow(f, c) == f[c][Len(f[c])]

\* claim_ledger_version: the number of lines, whatever is in them.
Version(f) == Cardinality(UNION {{<<c, i>> : i \in DOMAIN f[c]} : c \in Claims})

VARIABLES ledger,     \* claims.jsonl
          tmp,        \* claims.jsonl.tmp, or None
          handle,     \* handle[p]: the file that p has open for its rewrite
          garbled,    \* a copy was written over another (not followed further)
          index,      \* pages listed in vault/wiki/index.md
          log,        \* supersede entries of vault/wiki/log.md
          torn,       \* a rewrite of index.md was cut between truncation and write
          finding,    \* finding[pair]: what became of its contradiction finding
          todo,       \* todo[p]: file accesses left in p's operation
          copy,       \* copy[p]: the ledger (or the ids in it) as p read it, or None
          alone,      \* no two operations have overlapped (history)
          ops         \* number of operations started

bookFiles == <<index, torn, log>>
ledgerFiles == <<ledger, tmp, handle, garbled, bookFiles, finding>>
ledgerVars == <<ledgerFiles, todo, copy, alone, ops>>

\* "resolved": approved by resolve_conflict, which records the decision as the
\* reason; "ruled": approved or rejected by anyone else.
FindingStates == {"none", "open", "ruled", "resolved"}

LedgerInit == /\ ledger = NoLines
              /\ tmp = None
              /\ handle = [p \in Procs |-> "none"]
              /\ garbled = FALSE
              /\ index = {}
              /\ torn = FALSE
              /\ log = {}
              /\ finding = [pair \in Twosomes |-> "none"]
              /\ todo = [p \in Procs |-> <<>>]
              /\ copy = [p \in Procs |-> None]
              /\ alone = TRUE
              /\ ops = 0

-----------------------------------------------------------------------------
(* The edits of a whole file. *)

\* What is looked up by id is the last row of that id.
EditLast(f, c, row) == [f EXCEPT ![c] = [f[c] EXCEPT ![Len(f[c])] = row]]

\* Mutant: only the old claim is linked.
SupersedeOneWay(f, new, old) == EditLast(f, old, ClosedBy(LastRow(f, old), new))

\* Mutant: the superseded row is dropped from the file.
SupersedeDrops(f, new, old) ==
    EditLast([f EXCEPT ![old] = <<>>], new, Extending(LastRow(f, new), old))

\* new takes the place of old, whose row stays in the file.
Supersede(f, new, old) ==
    EditLast(EditLast(f, old, ClosedBy(LastRow(f, old), new)), new, Extending(LastRow(f, new), old))

\* _mark_claim_state marks every row of the id and leaves the validity window.
Mark(f, c, state) == [f EXCEPT ![c] = [i \in 1 .. Len(f[c]) |-> [f[c][i] EXCEPT !.state = state]]]

-----------------------------------------------------------------------------
(* The programs. *)

Step(do, args) == [do |-> do, args |-> args]

\* Mutant: claims are appended before the page is indexed.
ApplyAppendFirst(proposal) ==
    <<Step("readIds", proposal), Step("append", proposal), Step("list", proposal)>>

\* apply_wiki_proposal writes the page and indexes it, then appends the claims.
ApplyProgram(proposal) ==
    <<Step("list", proposal), Step("readIds", proposal), Step("append", proposal)>>

\* One rewrite of the ledger; edit is "supersede" or a review state.
Rewrite(edit, args) == <<Step("read", args), Step(edit, args), Step("replace", args)>>

SupersedeProgram(new, old, version) ==
    Rewrite("supersede", <<new, old, version>>) \o
    <<Step("log", <<new, old>>), Step("unlist", <<old>>)>>

\* Mutant: the finding is approved before the ledger is changed.
ResolveApproveFirst(new, old, version) ==
    {<<Step("approve", <<new, old>>)>> \o Rewrite("rejected", <<old>>)}

\* resolve_conflict: keep_both, reject_old (or _new), supersede; the finding
\* is approved last.
ResolvePrograms(new, old, version) ==
    LET approve == <<Step("approve", <<new, old>>)>>
        mark(c, state) == Rewrite(state, <<c>>)
    IN  {mark(new, "conflict") \o mark(old, "conflict") \o approve,
         mark(old, "rejected") \o <<Step("prune", <<old>>)>> \o approve,
         mark(new, "rejected") \o <<Step("prune", <<new>>)>> \o approve,
         SupersedeProgram(new, old, version) \o approve}

Edit(f, step) == IF step.do = "supersede" THEN Supersede(f, step.args[1], step.args[2])
                 ELSE Mark(f, step.args[1], step.do)

-----------------------------------------------------------------------------
(* One file access of process p. *)

Now(p) == Head(todo[p])
Ready(p, do) == todo[p] # <<>> /\ Now(p).do = do
Advance(p) == todo' = [todo EXCEPT ![p] = Tail(@)]
Abort(p) == todo' = [todo EXCEPT ![p] = <<>>]      \* the call raises

Targets(step) == {step.args[i] : i \in 1 .. Len(step.args)} \cap Claims

\* Read claims.jsonl: a missing claim id is a KeyError, an expected_version
\* that is not the number of lines a ConcurrentModificationError.
Read(p) ==
    /\ Ready(p, "read")
    /\ IF /\ Targets(Now(p)) \subseteq Known(ledger)
          /\ Len(Now(p).args) = 3 => Now(p).args[3] \in {None, Version(ledger)}
       THEN copy' = [copy EXCEPT ![p] = ledger] /\ Advance(p)
       ELSE UNCHANGED copy /\ Abort(p)
    /\ UNCHANGED <<ledgerFiles, alone, ops>>

Editing(p) == todo[p] # <<>> /\ Now(p).do \in {"supersede"} \cup ReviewStates

\* tmp.open("w") empties the file, also under a process that has written it.
OpenTmp(p) ==
    /\ Editing(p) /\ handle[p] = "none"
    /\ tmp' = NoLines
    /\ handle' = [handle EXCEPT ![p] = "tmp"]
    /\ UNCHANGED <<ledger, garbled, bookFiles, finding, todo, copy, alone, ops>>

\* The copy, which may be out of date by now, is written to the file p opened,
\* wherever it has been moved since; onto a file that is not empty any more it
\* makes no sense.
WriteTmp(p) ==
    /\ Editing(p) /\ handle[p] # "none"
    /\ LET new == Edit(copy[p], Now(p))
           file == CASE handle[p] = "tmp" -> tmp
                     [] handle[p] = "ledger" -> ledger
                     [] OTHER -> NoLines
       IN  /\ tmp' = IF handle[p] = "tmp" /\ tmp = NoLines THEN new ELSE tmp
           /\ ledger' = IF handle[p] = "ledger" /\ ledger = NoLines THEN new ELSE ledger
           /\ garbled' = (file # NoLines)
    /\ handle' = [handle EXCEPT ![p] = "none"]
    /\ Advance(p)
    /\ UNCHANGED <<bookFiles, finding, copy, alone, ops>>

\* tmp.replace(ledger) moves whatever the file holds by now, and a missing file
\* is a FileNotFoundError.  Who has it open has the ledger open now.
\* supersede_claim goes on with the rows it read.
Replace(p) ==
    /\ Ready(p, "replace")
    /\ IF tmp = None THEN UNCHANGED <<ledger, tmp, handle>> /\ Abort(p)
       ELSE /\ ledger' = tmp /\ tmp' = None
            /\ handle' = [q \in Procs |-> CASE handle[q] = "tmp" -> "ledger"
                                              [] handle[q] = "ledger" -> "gone"
                                              [] OTHER -> handle[q]]
            /\ Advance(p)
    /\ copy' = IF Len(Now(p).args) = 3 /\ tmp # None THEN copy ELSE [copy EXCEPT ![p] = None]
    /\ UNCHANGED <<garbled, bookFiles, finding, alone, ops>>

\* _append_claims collects the known ids first.
ReadIds(p) ==
    /\ Ready(p, "readIds")
    /\ copy' = [copy EXCEPT ![p] = ledger]
    /\ Advance(p)
    /\ UNCHANGED <<ledgerFiles, alone, ops>>

NewRow(page) == [state |-> "approved", closed |-> FALSE, by |-> None, supersedes |-> {}, page |-> page]

Missing(p) == {c \in Now(p).args.claims : copy[p][c] = <<>>}

\* One line for each claim whose id was not in the ledger when p looked; by now
\* it may be, and then it has two rows.  existing_ids grows with the file.
AppendRow(p) ==
    /\ Ready(p, "append")
    /\ \E c \in Missing(p) :
          LET rows(f) == [f EXCEPT ![c] = Append(f[c], NewRow(Now(p).args.page))]
          IN  ledger' = rows(ledger) /\ copy' = [copy EXCEPT ![p] = rows(copy[p])]
    /\ UNCHANGED <<tmp, handle, garbled, bookFiles, finding, todo, alone, ops>>

CloseLedger(p) ==
    /\ Ready(p, "append") /\ Missing(p) = {}
    /\ copy' = [copy EXCEPT ![p] = None]
    /\ Advance(p)
    /\ UNCHANGED <<ledgerFiles, alone, ops>>

\* The page whose line goes: supersede_claim knows it from the row it closed,
\* _prune_index_for_claim looks the claim up again and takes its first row.
PrunedPages(p) ==
    LET c == Now(p).args[1]
    IN  CASE Ready(p, "unlist") -> {LastRow(copy[p], c).page}
          [] Ready(p, "prune") -> IF c \in Known(ledger) THEN {ledger[c][1].page} ELSE {}
          [] OTHER -> {}

\* index.md, whatever else its page says, and log.md.
Bookkeep(p) ==
    /\ \/ /\ Ready(p, "list")
          /\ index' = index \cup {Now(p).args.page}
          /\ UNCHANGED <<log, copy>>
       \/ /\ Ready(p, "unlist") \/ Ready(p, "prune")
          /\ index' = index \ PrunedPages(p)
          /\ copy' = [copy EXCEPT ![p] = None]
          /\ UNCHANGED log
       \/ /\ Ready(p, "log")
          /\ log' = log \cup {Now(p).args}
          /\ UNCHANGED <<index, copy>>
    /\ Advance(p)
    /\ UNCHANGED <<ledger, tmp, handle, garbled, torn, finding, alone, ops>>

\* The last step of resolve_conflict.
ApproveFinding(p) ==
    /\ Ready(p, "approve")
    /\ finding' = [finding EXCEPT ![Targets(Now(p))] = "resolved"]
    /\ Advance(p)
    /\ UNCHANGED <<ledger, tmp, handle, garbled, bookFiles, copy, alone, ops>>

-----------------------------------------------------------------------------

\* A caller that passes expected_version has read it before the call;
\* resolve_conflict takes a finding in whatever state it is.
Start(p) ==
    /\ todo[p] = <<>>
    /\ ops < MaxOps
    /\ \/ \E proposal \in Proposals : todo' = [todo EXCEPT ![p] = ApplyProgram(proposal)]
       \/ \E pair \in Pairs :
             LET version == IF Versioned THEN Version(ledger) ELSE None
             IN  \/ todo' = [todo EXCEPT ![p] = SupersedeProgram(pair[1], pair[2], version)]
                 \/ /\ finding[{pair[1], pair[2]}] # "none"
                    /\ \E program \in ResolvePrograms(pair[1], pair[2], version) :
                          todo' = [todo EXCEPT ![p] = program]
    /\ alone' = (alone /\ \A q \in Procs \ {p} : todo[q] = <<>>)
    /\ ops' = ops + 1
    /\ UNCHANGED <<ledgerFiles, copy>>

\* lint_wiki stores a finding about two claims that it has read in the ledger.
\* Another finding of a pair that is resolved is not followed.
Raise(pair) ==
    /\ pair \subseteq Known(ledger) /\ finding[pair] \notin {"open", "resolved"}
    /\ finding' = [finding EXCEPT ![pair] = "open"]
    /\ UNCHANGED <<ledger, tmp, handle, garbled, bookFiles, todo, copy, alone, ops>>

\* proposal.approve, proposal.reject and the Argilla sync take findings like any
\* proposal, and leave the ledger alone.
Rule(pair) ==
    /\ finding[pair] # "none"
    /\ finding' = [finding EXCEPT ![pair] = "ruled"]
    /\ UNCHANGED <<ledger, tmp, handle, garbled, bookFiles, todo, copy, alone, ops>>

\* The process is killed.  _remove_index_entry rewrites index.md in place, so
\* a kill between truncation and write leaves it empty.
Kill(p) ==
    /\ todo[p] # <<>>
    /\ \/ UNCHANGED <<index, torn>>
       \/ /\ PrunedPages(p) \cap index # {}
          /\ index' = {} /\ torn' = TRUE
    /\ Abort(p)
    /\ copy' = [copy EXCEPT ![p] = None]
    /\ handle' = [handle EXCEPT ![p] = "none"]
    /\ UNCHANGED <<ledger, tmp, garbled, log, finding, alone, ops>>

LedgerNext ==
    /\ ~garbled
    /\ \/ \E p \in Procs : \/ Start(p) \/ Kill(p)
                           \/ Read(p) \/ OpenTmp(p) \/ WriteTmp(p) \/ Replace(p)
                           \/ ReadIds(p) \/ AppendRow(p) \/ CloseLedger(p)
                           \/ Bookkeep(p) \/ ApproveFinding(p)
       \/ \E pair \in Twosomes : Raise(pair) \/ Rule(pair)

LedgerSpec == LedgerInit /\ [][LedgerNext]_ledgerVars

-----------------------------------------------------------------------------
(* Properties. *)

LedgerTypeOK == /\ ledger \in File
                /\ tmp \in File \cup {None}
                /\ handle \in [Procs -> {"none", "tmp", "ledger", "gone"}]
                /\ garbled \in BOOLEAN
                /\ index \subseteq Pages
                /\ torn \in BOOLEAN
                /\ log \subseteq Pairs
                /\ finding \in [Twosomes -> FindingStates]
                /\ copy \in [Procs -> File \cup {None}]
                /\ alone \in BOOLEAN
                /\ ops \in 0 .. MaxOps

\* A claim that is superseded by another is in its supersedes.
Linked(f) ==
    \A c \in Claims : \A row \in Rows(f, c) :
        row.by # None => \E other \in Rows(f, row.by) : c \in other.supersedes

\* superseded_by and supersedes agree at all times, whatever dies in the middle of
\* an operation, writes back an old copy or appends an id twice, as long as no
\* two copies were written into one file: the chain can be walked from both ends.
ChainIsLinked == ~garbled => Linked(ledger)

\* The page of an approved and open claim is in the index, wherever a crash cuts
\* an operation short, until a claim of that page is superseded or resolved (then
\* the line goes for all of them) or a crash cuts the rewrite of index.md itself.
ApprovedIsListed ==
    \A c \in Claims : \A row \in Rows(ledger, c) :
        ~torn /\ row.state = "approved" /\ ~row.closed =>
            \/ row.page \in index
            \/ \E d \in Claims : \E other \in Rows(ledger, d) :
                  other.page = row.page /\ other.state # "approved"

\* The audit log records no supersession that the ledger does not hold.
LogMatchesLedger ==
    \A entry \in log : \E row \in Rows(ledger, entry[1]) : entry[2] \in row.supersedes

\* Index and log are kept beside the ledger, by later steps of the same operations:
\* wherever a process dies they do not contradict it.
BooksMatchLedger == alone => ApprovedIsListed /\ LogMatchesLedger

\* A finding whose recorded reason is a resolution has had its effect: the two
\* claims are no longer both plainly approved.  (Any other approval of it has none.)
ResolvedHasEffect ==
    alone => \A pair \in Twosomes : finding[pair] = "resolved" =>
                 \E c \in pair : \E row \in Rows(ledger, c) : row.state # "approved"

\* "old claims are NEVER deleted" (docs/knowledge-plane.md).
ClaimsAreNeverDeleted ==
    [][alone' => \A c \in Claims : Len(ledger[c]) <= Len(ledger'[c])]_ledgerVars

\* supersede_claim with expected_version: "the rewrite is gated on the ledger row
\* count matching the caller's read snapshot" (knowledge_plane.py), so it should
\* never undo what another writer did after that snapshot.
VersionedRewriteLosesNothing ==
    [][\A p \in Procs, c \in Claims :
          /\ Ready(p, "replace") /\ Len(Now(p).args) = 3
          /\ Now(p).args[3] # None
          /\ todo'[p] = Tail(todo[p])
          /\ \E row \in Rows(ledger, c) : row.closed
          => \E row \in Rows(ledger', c) : row.closed]_ledgerVars
=============================================================================
