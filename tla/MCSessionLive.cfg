\* Liveness: no symmetry.
CONSTANTS
  Threads = {t1, t2}
  NoThread = NoThread
  MaxPackets = 2
SPECIFICATION FairSpec
PROPERTIES PacketsArrive SessionsLeave
CHECK_DEADLOCK FALSE
