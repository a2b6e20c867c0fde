---------------------------- MODULE MCMigration -----------------------------
(* Instances of Migration for TLC: see the configurations. *)
EXTENDS Migration, TLC

Symmetry == Permutations(Sessions) \cup Permutations(Characters)
=============================================================================
