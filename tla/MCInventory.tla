------------------------------ MODULE MCInventory ------------------------------
(* Instances of Inventory for TLC: see the configuration. *)
EXTENDS Inventory

MCSlotMax == [i \in Templates |-> IF i = "potion" THEN 2 ELSE 1]

\* A sword in a slot of its tab and a shield that is worn; two stacks of potions.
MCFirstRows ==
  [p \in Places |->
     CASE p = <<"equip", 0>> -> [id |-> "sword", quantity |-> 1]
       [] p = <<"equipped", 1>> -> [id |-> "shield", quantity |-> 1]
       [] p = <<"use", 0>> -> [id |-> "potion", quantity |-> 2]
       [] p = <<"use", 1>> -> [id |-> "potion", quantity |-> 1]
       [] OTHER -> NoItem]
=============================================================================
