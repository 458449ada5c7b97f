------------------------------ MODULE ReviewGate ------------------------------
(***************************************************************************)
(* What the proposal gate promises to a reviewer, with no sessions and no  *)
(* half-finished calls: a verdict falls on a content that was proposed and *)
(* shows together with it; under a settled id that is the content which    *)
(* the reviewer had seen; and whatever leaves the gate - a page, a         *)
(* preference, a memory, a card - was ruled on or shown before it left.    *)
(* ProposalGate.tla implements this module.                                *)
(***************************************************************************)
CONSTANTS Ids, Contents, None,
          Settled     \* ids whose content never changes

VARIABLES asked,      \* [id, content] that somebody has proposed
          shown,      \* shown[id]: state and content that the table shows, or None
          ruled,      \* verdicts, with the content seen and the content they fell on
          carded,     \* carded[id]: what is announced of id, or None
          learned,    \* verdicts that became preferences
          digested,   \* [id, content] that went into the memory
          published   \* [id, content] that went into the wiki

reviewVars == <<asked, shown, ruled, carded, learned, digested, published>>

Pending(content) == [state |-> "pending", content |-> content]

ReviewInit == /\ asked = {} /\ ruled = {} /\ learned = {} /\ digested = {} /\ published = {}
              /\ shown = [id \in Ids |-> None] /\ carded = [id \in Ids |-> None]

Propose(id, content) ==
    /\ asked' = asked \cup {[id |-> id, content |-> content]}
    /\ shown' = [shown EXCEPT ![id] = Pending(content)]
    /\ UNCHANGED <<ruled, carded, learned, digested, published>>

Rule(id, verdict, seen, content) ==
    /\ {[id |-> id, content |-> seen], [id |-> id, content |-> content]} \subseteq asked
    /\ id \in Settled => seen = content
    /\ shown' = [shown EXCEPT ![id] = [state |-> verdict, content |-> content]]
    /\ ruled' = ruled \cup {[id |-> id, verdict |-> verdict, content |-> content, seen |-> seen]}
    /\ UNCHANGED <<asked, carded, learned, digested, published>>

Announce(id) ==
    /\ shown[id] # None
    /\ carded' = [carded EXCEPT ![id] = Pending(shown[id].content)]
    /\ UNCHANGED <<asked, shown, ruled, learned, digested, published>>

Learn ==
    /\ \E v \in ruled : learned' = learned \cup {v}
    /\ UNCHANGED <<asked, shown, ruled, carded, digested, published>>

Remember ==
    /\ \E p \in asked : digested' = digested \cup {p}
    /\ UNCHANGED <<asked, shown, ruled, carded, learned, published>>

Publish(id, content) ==
    /\ [id |-> id, verdict |-> "approved", content |-> content, seen |-> content] \in ruled
    /\ published' = published \cup {[id |-> id, content |-> content]}
    /\ UNCHANGED <<asked, shown, ruled, carded, learned, digested>>

ReviewNext == \/ \E id \in Ids : Announce(id)
              \/ Learn \/ Remember
              \/ \E id \in Ids, content \in Contents :
                    \/ Propose(id, content)
                    \/ \E verdict \in {"approved", "rejected"}, seen \in Contents :
                          Rule(id, verdict, seen, content)
                    \/ Publish(id, content)

ReviewSpec == ReviewInit /\ [][ReviewNext]_reviewVars
===============================================================================
