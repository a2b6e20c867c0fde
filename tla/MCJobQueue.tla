----------------------------- MODULE MCJobQueue -----------------------------
(* Instances of JobQueue for TLC: see the configurations. *)
EXTENDS JobQueue, TLC

Symmetry == Permutations(Workers) \cup Permutations(Queues) \cup Permutations(Jobs)
=============================================================================
