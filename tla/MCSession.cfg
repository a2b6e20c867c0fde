\* Two threads, three packets; a session that is released or refused stops.
CONSTANTS
  Threads = {t1, t2}
  NoThread = NoThread
  MaxPackets = 3
SPECIFICATION Spec
SYMMETRY Symmetry
INVARIANTS TypeOK OneOfEach SentInOrder CountedOnce EventsOwned
CHECK_DEADLOCK FALSE
