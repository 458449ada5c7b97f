---------------------------- MODULE MC_WikiDream ----------------------------
(* Instances of the dream; dreamers are interchangeable. *)
EXTENDS WikiDream, TLC

DreamSpec == DreamInit /\ [][DreamNext]_dreamVars

\* A dream of everything under every rule, which moves the watermark.
DreamOptions == {[full |-> TRUE, update |-> TRUE, rules |-> "all"]}
DreamerSymmetry == Permutations(Dreamers)
=============================================================================
