---------------------------- MODULE ProposalGate ----------------------------
(***************************************************************************)
(* The human gate: the proposal table of src/omni_hub/proposals.py, the    *)
(* sessions that write proposals into it, the reviewers that decide on     *)
(* them and the two consumers of a decision, digestion of a knowledge      *)
(* proposal into the memory tables and application of a wiki update.       *)
(*                                                                         *)
(* Every session runs one operation at a time as a chain of store calls;   *)
(* sessions interleave between the calls and may die there.  The content   *)
(* of a proposal is one value.  How its id is made decides what may be     *)
(* proposed again: a wiki update has a fresh uuid, a knowledge proposal    *)
(* the hash of its content, a versioned one (eval pack upgrades, duplicate *)
(* and conflict findings) the hash of a name whose content may change.     *)
(* A verdict reaches the table by id alone.  What the reviewer had seen    *)
(* when giving it is no state of the program; here it travels along as     *)
(* history, so that it can be compared with what the verdict fell on.      *)
(***************************************************************************)
EXTENDS Naturals, FiniteSets

CONSTANTS Ids,        \* proposal ids
          Contents,   \* what proposals say
          Says,       \* Says[id]: what may be proposed under id
          Sessions,   \* processes that run the operations
          KindOf,     \* KindOf[id]: "knowledge", "wiki_update" or "versioned"
          MaxVerdicts, \* bound: verdicts that are started
          MaxAnswers, \* bound: lines of feedback files
          Nothing

ASSUME KindAssumption ==
    /\ KindOf \in [Ids -> {"knowledge", "wiki_update", "versioned"}]
    /\ Says \in [Ids -> SUBSET Contents]
    /\ \A id \in Ids : KindOf[id] = "knowledge" => \E content \in Contents : Says[id] = {content}

ASSUME NothingAssumption ==
    Nothing \notin [state : {"pending", "approved", "rejected"}, content : Contents]

VARIABLES row,        \* row[id]: the row of table proposals, or Nothing
          card,       \* card[id]: the JSON card of a knowledge proposal, or Nothing
          feedback,   \* verdicts in feedback files that may be synced (again),
                      \* with the content they were given on (history)
          preference, \* verdicts in the preference store
          memory,     \* proposals digested into the memory tables
          wiki,       \* proposals applied to vault/wiki
          job,        \* job[s]: what session s is in the middle of, or Nothing
          given,      \* history: verdicts that were written, with the content
                      \* they fell on and the content the reviewer had seen
          proposed    \* history: what was stored, and under which id

stores == <<row, card, feedback, preference, memory, wiki>>
gateVars == <<stores, job, given, proposed>>

States == {"pending", "approved", "rejected"}
Verdicts == {"approved", "rejected"}

Proposal == [state : States, content : Contents]
Verdict == [id : Ids, verdict : Verdicts, content : Contents, seen : Contents]
Answered == [id : Ids, verdict : Verdicts, content : Contents]

\* What a session remembers between two store calls.
Job == [op : {"card", "decide", "sync", "prefer", "digest", "apply"}, id : Ids,
        verdict : Verdicts \cup {Nothing}, seen : Contents \cup {Nothing}, loaded : Proposal]

GateInit == /\ row = [id \in Ids |-> Nothing]
            /\ card = [id \in Ids |-> Nothing]
            /\ feedback = {} /\ preference = {} /\ memory = {} /\ wiki = {}
            /\ job = [s \in Sessions |-> Nothing]
            /\ given = {} /\ proposed = {}

-----------------------------------------------------------------------------

Do(s, op) == job[s] # Nothing /\ job[s].op = op
Free(s) == job[s] = Nothing
Begin(s, op, id, verdict, seen, loaded) ==
    job' = [job EXCEPT ![s] = [op |-> op, id |-> id, verdict |-> verdict, seen |-> seen, loaded |-> loaded]]
Done(s) == job' = [job EXCEPT ![s] = Nothing]

Fresh(content) == [state |-> "pending", content |-> content]

\* Mutant: a wiki update takes an id that is in use.
ProposableAgain(id, content) == content \in Says[id]

\* What an operation may propose under id: a fresh uuid names no row yet, a
\* hash may be met again.
Proposable(id, content) == content \in Says[id] /\ (KindOf[id] = "wiki_update" => row[id] = Nothing)

\* INSERT ... ON CONFLICT(proposal_id) DO UPDATE: the whole row_json is replaced.
Upsert(id, p) == row' = [row EXCEPT ![id] = p]

\* ProposalStore.store, first half: the row.
Store(s) ==
    \E id \in Ids, content \in Contents :
        /\ Free(s) /\ Proposable(id, content)
        /\ Upsert(id, Fresh(content))
        /\ proposed' = proposed \cup {[id |-> id, content |-> content]}
        /\ IF KindOf[id] = "knowledge" THEN Begin(s, "card", id, Nothing, Nothing, Fresh(content))
           ELSE UNCHANGED job
        /\ UNCHANGED <<card, feedback, preference, memory, wiki, given>>

\* Second half, knowledge proposals only: _render_card.
RenderCard(s) ==
    /\ Do(s, "card")
    /\ card' = [card EXCEPT ![job[s].id] = job[s].loaded]
    /\ Done(s)
    /\ UNCHANGED <<row, feedback, preference, memory, wiki, given, proposed>>

-----------------------------------------------------------------------------

\* approve and reject get an id, from somebody who had looked at the proposal
\* at some time before.  _decide, first half: the row is fetched, in whatever
\* state and with whatever content it is now.
Fetch(s) ==
    \E id \in Ids, v \in Verdicts, seen \in Contents :
        /\ Free(s) /\ row[id] # Nothing /\ Cardinality(given) < MaxVerdicts
        /\ [id |-> id, content |-> seen] \in proposed
        /\ Begin(s, "decide", id, v, seen, row[id])
        /\ UNCHANGED <<stores, given, proposed>>

\* A line of a feedback file is synced, by its id: the content it was given on
\* is not compared.  The file may be synced again later.
FetchFeedback(s) ==
    \E f \in feedback :
        /\ Free(s) /\ row[f.id] # Nothing /\ Cardinality(given) < MaxVerdicts
        /\ Begin(s, "sync", f.id, f.verdict, f.content, row[f.id])
        /\ UNCHANGED <<stores, given, proposed>>

Decided(s) == [id |-> job[s].id, verdict |-> job[s].verdict,
               content |-> job[s].loaded.content, seen |-> job[s].seen]

\* _decide, second half: the whole fetched row is written back.
Decide(s) ==
    /\ Do(s, "decide") \/ Do(s, "sync")
    /\ Upsert(job[s].id, [job[s].loaded EXCEPT !.state = job[s].verdict])
    /\ given' = given \cup {Decided(s)}
    /\ IF job[s].op = "sync" THEN job' = [job EXCEPT ![s].op = "prefer"] ELSE Done(s)
    /\ UNCHANGED <<card, feedback, preference, memory, wiki, proposed>>

\* preference_store.append ends the sync of a line.
Prefer(s) ==
    /\ Do(s, "prefer")
    /\ preference' = preference \cup {Decided(s)}
    /\ Done(s)
    /\ UNCHANGED <<row, card, feedback, memory, wiki, given, proposed>>

\* A reviewer answers an exported proposal outside the program, on the content
\* it has at that time.
Answer ==
    \E id \in Ids, v \in Verdicts :
        /\ row[id] # Nothing /\ row[id].state = "pending"
        /\ Cardinality(feedback) < MaxAnswers
        /\ feedback' = feedback \cup {[id |-> id, verdict |-> v, content |-> row[id].content]}
        /\ UNCHANGED <<row, card, preference, memory, wiki, job, given, proposed>>

-----------------------------------------------------------------------------

\* digest_proposal loads by id, or by the path of the card, and looks at the
\* kind only.
LoadForDigest(s) ==
    \E id \in Ids : \E p \in {row[id], card[id]} :
        /\ Free(s) /\ KindOf[id] = "knowledge" /\ p # Nothing
        /\ Begin(s, "digest", id, Nothing, Nothing, p)
        /\ UNCHANGED <<stores, given, proposed>>

Digest(s) ==
    /\ Do(s, "digest")
    /\ memory' = memory \cup {[id |-> job[s].id, content |-> job[s].loaded.content]}
    /\ Done(s)
    /\ UNCHANGED <<row, card, feedback, preference, wiki, given, proposed>>

\* Mutant: the state is not looked at.
LoadAnyForApply(s) ==
    \E id \in Ids :
        /\ Free(s) /\ KindOf[id] = "wiki_update" /\ row[id] # Nothing
        /\ Begin(s, "apply", id, Nothing, Nothing, row[id])
        /\ UNCHANGED <<stores, given, proposed>>

\* apply_wiki_proposal: kind and state are checked on the loaded row.
LoadForApply(s) ==
    \E id \in Ids :
        /\ Free(s) /\ KindOf[id] = "wiki_update" /\ row[id] # Nothing
        /\ row[id].state = "approved"
        /\ Begin(s, "apply", id, Nothing, Nothing, row[id])
        /\ UNCHANGED <<stores, given, proposed>>

\* The page, index, log and claims are written.
Apply(s) ==
    /\ Do(s, "apply")
    /\ wiki' = wiki \cup {[id |-> job[s].id, content |-> job[s].loaded.content]}
    /\ Done(s)
    /\ UNCHANGED <<row, card, feedback, preference, memory, given, proposed>>

Die(s) == ~Free(s) /\ Done(s) /\ UNCHANGED <<stores, given, proposed>>

GateNext == \/ Answer
            \/ \E s \in Sessions : \/ Store(s) \/ RenderCard(s)
                                   \/ Fetch(s) \/ FetchFeedback(s) \/ Decide(s) \/ Prefer(s)
                                   \/ LoadForDigest(s) \/ Digest(s)
                                   \/ LoadForApply(s) \/ Apply(s)
                                   \/ Die(s)

GateSpec == GateInit /\ [][GateNext]_gateVars

-----------------------------------------------------------------------------
(* Properties. *)

GateTypeOK ==
    /\ row \in [Ids -> Proposal \cup {Nothing}]
    /\ card \in [Ids -> Proposal \cup {Nothing}]
    /\ feedback \subseteq Answered
    /\ proposed \subseteq [id : Ids, content : Contents]
    /\ preference \subseteq Verdict /\ given \subseteq Verdict
    /\ memory \subseteq [id : Ids, content : Contents]
    /\ wiki \subseteq [id : Ids, content : Contents]
    /\ job \in [Sessions -> Job \cup {Nothing}]

\* Content that keeps its id for ever: only a versioned id is given new content.
Settled == {id \in Ids : KindOf[id] # "versioned"}

Given(id, v, seen, content) ==
    [id |-> id, verdict |-> v, seen |-> seen, content |-> content] \in given

\* Except under a versioned id, a row shows a verdict only with the content that
\* a reviewer had seen and ruled so on, though the verdict comes by id, maybe from
\* a file synced long after, and the row may have been proposed again meanwhile.
\* Under a versioned id a verdict may fall on content that nobody looked at.
VerdictIsOnWhatWasSeen ==
    \A id \in Settled : row[id] # Nothing /\ row[id].state # "pending"
                            => Given(id, row[id].state, row[id].content, row[id].content)

\* Nothing reaches vault/wiki that was not approved before, by somebody who had
\* seen that content (knowledge-plane.md: "only approved proposals can land in the
\* wiki").
AppliedWasApproved == \A x \in wiki : Given(x.id, "approved", x.content, x.content)

\* The preference store holds no verdict the proposal table never got, also
\* when a sync dies between its two writes.
PreferenceHasVerdict == preference \subseteq given

\* The card is "a derived view: SQLite is the source of truth": it never shows
\* a proposal, or a content, that the table does not have.
CardFollowsRow ==
    \A id \in Ids : card[id] # Nothing => row[id] # Nothing /\ card[id].content = row[id].content

\* What is derived from the proposal table never runs ahead of it, wherever a
\* session dies: not the wiki, not the preference store, not a card.
NothingRunsAhead == AppliedWasApproved /\ PreferenceHasVerdict /\ CardFollowsRow

-----------------------------------------------------------------------------
(* What a reviewer may rely on. *)

Review == INSTANCE ReviewGate WITH
            None <- Nothing,
            asked <- proposed, shown <- row, ruled <- given, carded <- card,
            learned <- preference, digested <- memory, published <- wiki

\* However sessions interleave and die between their store calls, a reviewer sees
\* a gate without sessions: state and content of a row change together, a verdict
\* falls on a content that was proposed and, unless the id is versioned, on the
\* one that was seen, also when it writes an older one back; and page,
\* preference, memory and card come after what they are made of.
ImplementsReview == Review!ReviewSpec
=============================================================================
