------------------------------ MODULE WikiGraph ------------------------------
(***************************************************************************)
(* What a snapshot of the claim graph holds (wiki_graph.py), as a function *)
(* of the claims: a node for every source or entity that an open claim     *)
(* names, an edge between two that the same claim names, a community for   *)
(* every connected part of more than one node.  A claim is                 *)
(*   [id, names: the sources and entities of it, open, supersedes, domain] *)
(* and the claims are a sequence in the order of the ledger.  When the     *)
(* snapshot is built and which one is read is in Projections.              *)
(***************************************************************************)
EXTENDS Integers, Sequences, FiniteSets

OpenClaims(claims) == {n \in DOMAIN claims : claims[n].open}

Node(claims, x) ==
    LET of == {n \in OpenClaims(claims) : x \in claims[n].names}
    IN [id |-> x, count |-> Cardinality(of), domains |-> {claims[n].domain : n \in of}]

Nodes(claims) == {Node(claims, x) : x \in UNION {claims[n].names : n \in OpenClaims(claims)}}

IdPairs(names) == {pair \in SUBSET names : Cardinality(pair) = 2}

CoCited(claims) ==
    {LET of == {n \in OpenClaims(claims) : pair \subseteq claims[n].names}
     IN [ends |-> pair, weight |-> Cardinality(of), evidence |-> {claims[n].id : n \in of}] :
        pair \in UNION {IdPairs(claims[n].names) : n \in OpenClaims(claims)}}

SupersedeEdges(claims) ==
    UNION {{[ends |-> <<claims[n].id, older>>] : older \in claims[n].supersedes} : n \in OpenClaims(claims)}

Adjacent(edges, x) == {y \in UNION {e.ends : e \in edges} : y # x /\ \E e \in edges : e.ends = {x, y}}

\* Mutant: only what the first node of a part is tied to.
ExploreOnce(edges, queue, seen) == queue \cup UNION {Adjacent(edges, x) : x \in queue}

\* The search pops a node, and queues all that is tied to it, until none is left.
RECURSIVE Sweep(_, _, _)
Sweep(edges, queue, seen) ==
    IF queue = {} THEN {}
    ELSE LET x == CHOOSE y \in queue : TRUE
         IN IF x \in seen THEN Sweep(edges, queue \ {x}, seen)
            ELSE {x} \cup Sweep(edges, (queue \ {x}) \cup (Adjacent(edges, x) \ seen), seen \cup {x})

Explore(edges, queue, seen) == Sweep(edges, queue, seen)

\* One start after the other, each outside of what was seen before; a node alone is
\* no community.
RECURSIVE Detect(_, _, _)
Detect(edges, starts, seen) ==
    IF starts = {} THEN {}
    ELSE LET x == CHOOSE y \in starts : TRUE
             part == IF x \in seen THEN {} ELSE Explore(edges, {x}, seen)
         IN (IF Cardinality(part) < 2 THEN {} ELSE {part}) \cup Detect(edges, starts \ {x}, seen \cup part)

Communities(claims) == Detect(CoCited(claims), {n.id : n \in Nodes(claims)}, {})

\* query_neighbours, without its limit, and query_community.
Neighbours(claims, x) == {[node |-> y, weight |-> (CHOOSE e \in CoCited(claims) : e.ends = {x, y}).weight] :
                            y \in Adjacent(CoCited(claims), x)}

CommunityOf(claims, x) == {c \in Communities(claims) : x \in c}

-----------------------------------------------------------------------------

\* The communities are the classes of being tied together: no node is in two, two
\* that an open claim names are in one, none can be split without cutting an edge;
\* and who is a neighbour of whom does not depend on whom one asks.
CommunitiesAreComponents(claims) ==
    LET found == Communities(claims)
    IN /\ \A a, b \in found : a = b \/ a \cap b = {}
       /\ \A e \in CoCited(claims) : \E c \in found : e.ends \subseteq c
       /\ \A c \in found : \A part \in SUBSET c \ {{}, c} : \E e \in CoCited(claims) : e.ends \cap part # {} /\ ~(e.ends \subseteq part)
       /\ \A x \in {n.id : n \in Nodes(claims)} :
            /\ Cardinality(CommunityOf(claims, x)) = IF Neighbours(claims, x) = {} THEN 0 ELSE 1
            /\ \A y \in Neighbours(claims, x) : \E z \in Neighbours(claims, y.node) : z.node = x /\ z.weight = y.weight
=============================================================================
