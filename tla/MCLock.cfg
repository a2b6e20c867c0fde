\* The process stops at a CRASH, hence no check for deadlock.
CONSTANTS
  Threads = {t1, t2, t3}
  NoThread = NoThread
  MaxGuards = 3
SPECIFICATION Spec
SYMMETRY Symmetry
INVARIANTS TypeOK GuardsExclude CrashesExplained
CHECK_DEADLOCK FALSE
