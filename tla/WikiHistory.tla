----------------------------- MODULE WikiHistory -----------------------------
(***************************************************************************)
(* The readers of the supersession history that the steward's loop builds: *)
(* show_claim walks it from both ends, and wiki-doctor looks for cycles.   *)
(***************************************************************************)
EXTENDS WikiSteward

\* show_claim: the claims that c replaces, directly or not.
RECURSIVE Behind(_, _)
Behind(queue, visited) ==
    IF queue = {} THEN visited
    ELSE LET c == CHOOSE c \in queue : TRUE
         IN  Behind((queue \cup claim[c].supersedes) \ (visited \cup {c}), visited \cup {c})

SupersedesChain(c) == Behind(claim[c].supersedes \ {c}, {c}) \ {c}

RECURSIVE Ahead(_, _)
Ahead(cursor, seen) == IF cursor = None \/ cursor \in seen THEN seen
                       ELSE Ahead(claim[cursor].by, seen \cup {cursor})

SupersededChain(c) == Ahead(claim[c].by, {})

\* Mutant: a claim that was walked before counts as a cycle.
RECURSIVE WalkNoBlack(_, _, _)
WalkNoBlack(node, path, black) ==
    CASE node = None -> [path |-> path, cycle |-> {}]
      [] node \in Range(path) \cup black -> [path |-> path, cycle |-> {Range(path) \cup {node}}]
      [] OTHER -> WalkNoBlack(claim[node].by, Append(path, node), black)

\* _check_supersede_graph: follow superseded_by from node.  path is grey, black
\* what earlier walks have left behind.
RECURSIVE Walk(_, _, _)
Walk(node, path, black) ==
    CASE node = None \/ node \in black -> [path |-> path, cycle |-> {}]
      [] node \in Range(path) ->
            [path |-> path,
             cycle |-> {{path[i] : i \in {j \in DOMAIN path :
                                            \E k \in 1 .. j : path[k] = node}}}]
      [] OTHER -> Walk(claim[node].by, Append(path, node), black)

\* The cycles that the check reports, one walk from every claim that is white.
ReportedCycles ==
    LET start(c, found) ==
            IF c \in found.black THEN found
            ELSE LET walk == Walk(c, <<>>, found.black)
                 IN  [black |-> found.black \cup Range(walk.path),
                      cycles |-> found.cycles \cup walk.cycle]
    IN  FoldSet(start, [black |-> {}, cycles |-> {}], Written(claim)).cycles

-----------------------------------------------------------------------------
\* show_claim tells one history from both ends: a claim that c leads to by
\* superseded_by lists c among those it supersedes, cycles and repeated
\* supersessions included.
ChainsMeet ==
    \A c \in Written(claim) : \A d \in SupersededChain(c) \ {c} : c \in SupersedesChain(d)

\* The three-colour walk of wiki-doctor reports exactly the cycles of
\* superseded_by: the smallest sets of claims that it maps onto themselves.
DoctorFindsEveryCycle ==
    LET onto(S) == S # {} /\ {claim[c].by : c \in S} = S
    IN  ReportedCycles = {S \in SUBSET Written(claim) :
                            onto(S) /\ \A T \in SUBSET S : onto(T) => T = S}

\* What people and tools read of the history is the history: no decision that is
\* left to the dates sends a reader back in time, both walks of show_claim tell
\* one story, and the doctor finds every cycle and no other.
HistoryIsTold == HistoryRunsForward /\ ChainsMeet /\ DoctorFindsEveryCycle
=============================================================================
