------------------------------- MODULE MCLock -------------------------------
(* Instances of Lock for TLC: see the configurations. *)
EXTENDS Lock, TLC

Symmetry == Permutations(Threads)
=============================================================================
