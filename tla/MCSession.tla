----------------------------- MODULE MCSession ------------------------------
(* Instances of Session for TLC: see the configurations. *)
EXTENDS Session, TLC

Symmetry == Permutations(Threads)
=============================================================================
