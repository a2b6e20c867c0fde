------------------------------ MODULE MCMonster ------------------------------
(* An instance of Monster for TLC: see the configuration. *)
EXTENDS Monster

Kind(acts, body, first, worth) == [acts |-> acts, body |-> body, first |-> first, exp |-> worth]

\* One that waits until it is hit, an aggressive one, one that cannot attack though it is
\* said to be aggressive, one that cannot move, one that cannot even stand.
Kinds == {Kind(Acts, TRUE, FALSE, 5),
          Kind(Acts, TRUE, TRUE, 5),
          Kind({"STAND", "MOVE", "HIT"}, TRUE, TRUE, 1),
          Kind({"STAND", "ATTACK", "HIT", "REGEN"}, FALSE, TRUE, 5),
          Kind({"MOVE", "HIT"}, FALSE, FALSE, 1)}

Needs == <<2, 2>>
=============================================================================
