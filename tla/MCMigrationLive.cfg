\* Liveness: no symmetry.
CONSTANTS
  Sessions = {s1, s2}
  Characters = {c1}
  None = None
  MaxSelects = 3
  MaxFailures = 1
SPECIFICATION FairSpec
PROPERTIES SelectionsAnswered
CHECK_DEADLOCK FALSE
