\* Two slots per tab, one of what is worn; a sword, a shield, two stacks of potions; four
\* operations, two logins.  The threads may wait for each other for good.
CONSTANTS
  Templates = {"sword", "shield", "potion"}
  SlotMax <- MCSlotMax
  MaxSlot = 2
  MinEquipSlot = 1
  MaxEquipSlot = 2
  FirstRows <- MCFirstRows
  NoItem = NoItem
  MaxLoads = 1
  MaxMoves = 4
SPECIFICATION Spec
INVARIANTS TypeOK SavedAsIs ItemsKept WaitsExplained
CHECK_DEADLOCK FALSE
