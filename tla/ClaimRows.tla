----------------------------- MODULE ClaimRows -----------------------------
(***************************************************************************)
(* The claims of .omni/claims.jsonl and the edits of a row that            *)
(* src/omni_hub/knowledge_plane.py makes in memory: what WikiSteward, where *)
(* an operation is one step, and ClaimLedger, where it is many, agree on.  *)
(* A row keeps at least its review state, whether t_valid_to is set,       *)
(* superseded_by and supersedes.                                           *)
(***************************************************************************)

CONSTANTS Claims,      \* claim ids
          None         \* no row, no file, JSON null

ReviewStates == {"approved", "conflict", "rejected", "superseded"}

Pairs == {pair \in Claims \X Claims : pair[1] # pair[2]}
Twosomes == {{pair[1], pair[2]} : pair \in Pairs}

\* The validity window is closed and linked; a claim that was rejected before
\* keeps that state.
ClosedBy(row, new) ==
    [row EXCEPT !.closed = TRUE,
                !.by = new,
                !.state = IF @ = "rejected" THEN @ ELSE "superseded"]

Extending(row, old) == [row EXCEPT !.supersedes = @ \cup {old}]
=============================================================================
