\* Safety: two workers and a thread that only posts, two queues, three jobs.
CONSTANTS
  Workers = {w1, w2}
  Producers = {p1}
  Queues = {q1, q2}
  Jobs = {j1, j2, j3}
  NoQueue = NoQueue
SPECIFICATION Spec
SYMMETRY Symmetry
INVARIANTS TypeOK QueuesOwned NoJobLost
PROPERTIES IsSerial
