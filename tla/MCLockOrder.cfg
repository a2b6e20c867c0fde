\* What the name of the CRASH in WriteUnlock says, against nested guards.
CONSTANTS
  Threads = {t1, t2, t3}
  NoThread = NoThread
  MaxGuards = 3
SPECIFICATION Spec
SYMMETRY Symmetry
INVARIANTS OrderedUnlocksPass
CHECK_DEADLOCK FALSE
