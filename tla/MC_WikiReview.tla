---------------------------- MODULE MC_WikiReview ----------------------------
(***************************************************************************)
(* The proposal gate and the claim ledger, each for itself: an initial     *)
(* state is about one of them, and the other rests.  The ledger is changed *)
(* by one process, or by two that start fewer operations; the gate holds a *)
(* proposal of one kind (no operation is about two).                       *)
(***************************************************************************)
EXTENDS ProposalGate, ClaimLedger, TLC

CONSTANTS note, page, pack, x1, x2, x3,    \* an id of each kind; contents
          c1, c2, c3, g1, g2,              \* claims and pages
          s1, s2, p1, p2,                  \* sessions and processes
          books, chain,                    \* the ledger of one process, of two
          MaxOverlapping                   \* bound: operations that two processes start

VARIABLE focus     \* what the behaviour is about

reviewVars == <<focus, gateVars, ledgerVars>>

ReviewInit == /\ focus \in {note, page, pack, books, chain}
              /\ GateInit /\ LedgerInit

GateOfOne == /\ focus \in Ids
             /\ GateNext
             /\ \A id \in Ids \ {focus} : row'[id] = Nothing
             /\ UNCHANGED <<focus, ledgerVars>>

Books == /\ focus = books
         /\ LedgerNext /\ todo'[p2] = <<>>
         /\ UNCHANGED <<focus, gateVars>>

Chain == /\ focus = chain
         /\ LedgerNext /\ ops' <= MaxOverlapping
         /\ UNCHANGED <<focus, gateVars>>

ReviewNext == GateOfOne \/ Books \/ Chain

ReviewSpec == ReviewInit /\ [][ReviewNext]_reviewVars

-----------------------------------------------------------------------------
(* Instances. *)

\* Only a knowledge proposal is bound to its content.
MCKindOf == [id \in Ids |-> CASE id = note -> "knowledge"
                              [] id = page -> "wiki_update"
                              [] OTHER -> "versioned"]

MCSays == [id \in Ids |-> IF id = note THEN {x3} ELSE {x1, x2}]

\* Two claims share a page, and each claim is carried for each page.
MCProposals == [page : {g1, g2}, claims : {{c1, c2}, {c3}}]

\* Of each pair that is interchangeable one swap; behaviours are about the gate or
\* about the ledger, so a swap of either is made together with one of the other.
Swap(a, b) == (a :> b) @@ (b :> a)
Alike == {Swap(s1, s2) @@ Swap(c1, c2), Swap(x1, x2) @@ Swap(g1, g2)}
ReviewSymmetry == Alike \cup {Swap(s1, s2) @@ Swap(c1, c2) @@ Swap(x1, x2) @@ Swap(g1, g2)}
=============================================================================
