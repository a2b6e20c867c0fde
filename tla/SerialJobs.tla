----------------------------- MODULE SerialJobs -----------------------------
(***************************************************************************)
(* What a JobQueue promises to the code that posts jobs to it: the jobs of  *)
(* one queue run one at a time, each once, in the order they were queued.   *)
(* Maps, packet handlers and the player database queue keep their state     *)
(* without locks because of this.                                           *)
(***************************************************************************)
EXTENDS Sequences

CONSTANTS Queues, Jobs

VARIABLES
  waiting,  \* the jobs of each queue that have not been started, in order
  running,  \* the job of each queue that is running, if there is one
  ran       \* the jobs that have finished

Known(j) ==
  \/ j \in ran
  \/ \E q \in Queues : j \in running[q] \/ \E i \in DOMAIN waiting[q] : waiting[q][i] = j

Init ==
  /\ waiting = [q \in Queues |-> <<>>]
  /\ running = [q \in Queues |-> {}]
  /\ ran = {}

Submit(q, j) ==
  /\ ~ Known(j)
  /\ waiting' = [waiting EXCEPT ![q] = Append(@, j)]
  /\ UNCHANGED <<running, ran>>

Start(q) ==
  /\ running[q] = {} /\ waiting[q] # <<>>
  /\ running' = [running EXCEPT ![q] = {Head(waiting[q])}]
  /\ waiting' = [waiting EXCEPT ![q] = Tail(@)]
  /\ UNCHANGED ran

Finish(q) ==
  /\ running[q] # {}
  /\ ran' = ran \cup running[q]
  /\ running' = [running EXCEPT ![q] = {}]
  /\ UNCHANGED waiting

Next == \E q \in Queues : Start(q) \/ Finish(q) \/ \E j \in Jobs : Submit(q, j)

Spec == Init /\ [][Next]_<<waiting, running, ran>>
=============================================================================
