------------------------------ MODULE MC_Skills ------------------------------
(* Instances of the skill registry; clients are interchangeable. *)
EXTENDS Skills, TLC

ClientSymmetry == Permutations(Clients)
=============================================================================
