------------------------------ MODULE MCWorld -------------------------------
(* Instances of World for TLC: see the configuration. *)
EXTENDS World, TLC

Symmetry == Permutations(Sessions) \cup Permutations(Characters)
=============================================================================
