\* Liveness: no symmetry, two jobs.
CONSTANTS
  Workers = {w1, w2}
  Producers = {p1}
  Queues = {q1, q2}
  Jobs = {j1, j2}
  NoQueue = NoQueue
SPECIFICATION FairSpec
PROPERTIES EveryJobRuns
