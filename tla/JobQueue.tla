------------------------------ MODULE JobQueue ------------------------------
(***************************************************************************)
(* The job system of ServerCore: JobQueue, GlobalQueue, JobTimer and the    *)
(* loop of the worker threads.  A JobQueue (a map, a packet handler, the    *)
(* player database queue) serialises the jobs posted to it; a queue with    *)
(* work is announced to the GlobalQueue by whoever posted its first job,    *)
(* and a worker that pops it runs its jobs until none is left or its time   *)
(* slice is used up.                                                        *)
(*                                                                          *)
(* One step of this module is one atomic operation on shared memory (an     *)
(* atomic counter, a locked queue) together with the thread-local code      *)
(* around it.  A definition marked "Slip" is not part of the specification: *)
(* it is the definition below it with a mistake one could make in the code, *)
(* kept to see that the properties notice.                                  *)
(***************************************************************************)
EXTENDS Integers, Sequences, FiniteSets

CONSTANTS
  Workers,    \* the threads that run the worker loop
  Producers,  \* the threads that only post jobs (GameTick, the main thread)
  Queues,     \* the JobQueue objects
  Jobs,       \* the Job objects that are ever made
  NoQueue     \* nullptr

Threads == Workers \cup Producers

ASSUME JobAssumption ==
  /\ IsFiniteSet(Threads)
  /\ Workers \cap Producers = {}
  /\ NoQueue \notin Queues

VARIABLES
  jobCount,      \* JobQueue::_job_count
  jobQueue,      \* JobQueue::_job_queue
  globalQueue,   \* GlobalQueue::_queue
  items,         \* JobTimer::_items, in the order of execute_tick
  due,           \* how many of items have an execute_tick that has passed
  distributing,  \* JobTimer::_distributing
  stage,         \* where a thread is in the worker loop
  step,          \* where it is in Push or Execute; "idle" outside them
  slice,         \* its clock against LEndTickCount: before it, at it, past it
  lJobQueue,     \* its LJobQueue
  push,          \* the arguments of its call of Push
  batch,         \* Execute's jobs that have not finished
  popped,        \* Execute's count, 0 where Execute has none
  expired,       \* Distribute's items that have not been pushed
  fresh,         \* the jobs that are not made yet
  ran            \* the jobs that have finished

shared == <<jobCount, jobQueue, globalQueue>>
timer == <<items, due, distributing, expired>>
execution == <<lJobQueue, batch, popped, ran>>
vars == <<shared, timer, execution, stage, step, slice, push, fresh>>

\* A job of the queue the thread executes is running: Execute called it, and it has
\* not returned (it may be inside a Push of its own).
InJob(t) == step[t] \in {"run", "added", "queued"} /\ lJobQueue[t] # NoQueue

Reservation == [queue : Queues, job : Jobs]
PushCall == [queue : Queues, job : Jobs, pushOnly : BOOLEAN, first : BOOLEAN]
NoCall == [queue |-> NoQueue, job |-> NoQueue, pushOnly |-> FALSE, first |-> FALSE]

Types ==
  /\ jobCount \in [Queues -> Int]
  /\ jobQueue \in [Queues -> Seq(Jobs)]
  /\ globalQueue \in Seq(Queues)
  /\ items \in Seq(Reservation)
  /\ due \in 0 .. Len(items)
  /\ distributing \in BOOLEAN
  /\ stage \in [Threads -> {"dispatch", "distribute", "timers", "flush"}]
  /\ step \in [Threads -> {"idle", "added", "queued", "popAll", "next", "run", "yield"}]
  /\ slice \in [Threads -> {"before", "at", "past"}]
  /\ lJobQueue \in [Threads -> Queues \cup {NoQueue}]
  /\ push \in [Threads -> PushCall \cup {NoCall}]
  /\ batch \in [Threads -> Seq(Jobs)]
  /\ popped \in [Threads -> Nat]
  /\ expired \in [Threads -> Seq(Reservation)]
  /\ fresh \subseteq Jobs
  /\ ran \subseteq Jobs

\* How a thread's local variables go with the place it is at.
Control ==
  \A t \in Threads :
    /\ step[t] \in {"popAll", "next", "run", "yield"} => lJobQueue[t] # NoQueue
    /\ step[t] = "idle" => lJobQueue[t] = NoQueue
    /\ step[t] \in {"added", "queued"} => push[t] # NoCall
    /\ step[t] = "queued" => push[t].first
    /\ InJob(t) => batch[t] # <<>>
    /\ ~ (step[t] = "next" \/ InJob(t)) => batch[t] = <<>> /\ popped[t] = 0

\* Types of the variables, and of the local ones by the place the thread is at.
TypeOK == Types /\ Control

Init ==
  /\ jobCount = [q \in Queues |-> 0]
  /\ jobQueue = [q \in Queues |-> <<>>]
  /\ globalQueue = <<>>
  /\ items = <<>>
  /\ due = 0
  /\ distributing = FALSE
  /\ stage = [t \in Threads |-> "dispatch"]
  /\ step = [t \in Threads |-> "idle"]
  /\ slice = [t \in Threads |-> "before"]
  /\ lJobQueue = [t \in Threads |-> NoQueue]
  /\ push = [t \in Threads |-> NoCall]
  /\ batch = [t \in Threads |-> <<>>]
  /\ popped = [t \in Threads |-> 0]
  /\ expired = [t \in Threads |-> <<>>]
  /\ fresh = Jobs
  /\ ran = {}
-----------------------------------------------------------------------------
(* JobQueue::Push *)

\* Slip: the first job is told by an empty queue, not by the counter.
FetchAddTestsQueue(t, q, j, po) ==
  /\ push' = [push EXCEPT ![t] = [queue |-> q, job |-> j, pushOnly |-> po,
                                  first |-> jobQueue[q] = <<>>]]
  /\ jobCount' = [jobCount EXCEPT ![q] = @ + 1]
  /\ step' = [step EXCEPT ![t] = "added"]

\* A thread calls Push(j, po) on q: _job_count.fetch_add(1), then the rest of
\* Push in Enqueue and Announce.
FetchAdd(t, q, j, po) ==
  /\ push' = [push EXCEPT ![t] = [queue |-> q, job |-> j, pushOnly |-> po,
                                  first |-> jobCount[q] = 0]]
  /\ jobCount' = [jobCount EXCEPT ![q] = @ + 1]
  /\ step' = [step EXCEPT ![t] = "added"]

\* Where Push returns to: the job that called it, or the worker loop.
Return(t) ==
  /\ step' = [step EXCEPT ![t] = IF lJobQueue[t] = NoQueue THEN "idle" ELSE "run"]
  /\ push' = [push EXCEPT ![t] = NoCall]

\* Slip: a stack instead of a queue.
EnqueueAtFront(t) ==
  /\ step[t] = "added"
  /\ jobQueue' = [jobQueue EXCEPT ![push[t].queue] = <<push[t].job>> \o @]
  /\ IF push[t].first
     THEN step' = [step EXCEPT ![t] = "queued"] /\ UNCHANGED push
     ELSE Return(t)
  /\ UNCHANGED <<jobCount, globalQueue, timer, execution, stage, slice, fresh>>

\* _job_queue.Push; whoever found the count at zero goes on to announce q.
Enqueue(t) ==
  /\ step[t] = "added"
  /\ jobQueue' = [jobQueue EXCEPT ![push[t].queue] = Append(@, push[t].job)]
  /\ IF push[t].first
     THEN step' = [step EXCEPT ![t] = "queued"] /\ UNCHANGED push
     ELSE Return(t)
  /\ UNCHANGED <<jobCount, globalQueue, timer, execution, stage, slice, fresh>>

\* The timer's push runs the queue at once, every other push announces it.
Announce(t) ==
  /\ step[t] = "queued"
  /\ \/ /\ lJobQueue[t] = NoQueue /\ push[t].pushOnly
        /\ lJobQueue' = [lJobQueue EXCEPT ![t] = push[t].queue]
        /\ step' = [step EXCEPT ![t] = "popAll"]
        /\ push' = [push EXCEPT ![t] = NoCall]
        /\ UNCHANGED globalQueue
     \/ /\ ~ (lJobQueue[t] = NoQueue /\ push[t].pushOnly)
        /\ globalQueue' = Append(globalQueue, push[t].queue)
        /\ Return(t)
        /\ UNCHANGED lJobQueue
  /\ UNCHANGED <<jobCount, jobQueue, timer, batch, popped, ran, stage, slice, fresh>>

-----------------------------------------------------------------------------
(* JobQueue::Execute *)

PopAll(t) ==
  LET q == lJobQueue[t] IN
  /\ step[t] = "popAll"
  /\ batch' = [batch EXCEPT ![t] = jobQueue[q]]
  /\ popped' = [popped EXCEPT ![t] = Len(jobQueue[q])]
  /\ jobQueue' = [jobQueue EXCEPT ![q] = <<>>]
  /\ step' = [step EXCEPT ![t] = "next"]
  /\ UNCHANGED <<jobCount, globalQueue, timer, lJobQueue, ran, stage, slice, push, fresh>>

StartJob(t) ==
  /\ step[t] = "next" /\ batch[t] # <<>>
  /\ step' = [step EXCEPT ![t] = "run"]
  /\ UNCHANGED <<shared, timer, execution, stage, slice, push, fresh>>

\* A job posts another one with DoAsync.
JobPush(t) ==
  /\ step[t] = "run"
  /\ \E q \in Queues, j \in fresh :
       FetchAdd(t, q, j, FALSE) /\ fresh' = fresh \ {j}
  /\ UNCHANGED <<jobQueue, globalQueue, timer, execution, stage, slice>>

\* A job calls DoTimer (Monster::Attack), that is JobTimer::Reserve.  The tick is
\* read before the lock is taken, so the item may be due already.
JobReserve(t) ==
  /\ step[t] = "run"
  /\ \E q \in Queues, j \in fresh, i \in 0 .. Len(items) :
       /\ items' = SubSeq(items, 1, i) \o <<[queue |-> q, job |-> j]>>
                     \o SubSeq(items, i + 1, Len(items))
       /\ due' = IF i < due THEN due + 1 ELSE due
       /\ fresh' = fresh \ {j}
  /\ UNCHANGED <<shared, distributing, expired, execution, stage, step, slice, push>>

FinishJob(t) ==
  /\ step[t] = "run"
  /\ ran' = ran \cup {Head(batch[t])}
  /\ batch' = [batch EXCEPT ![t] = Tail(@)]
  /\ step' = [step EXCEPT ![t] = "next"]
  /\ UNCHANGED <<shared, timer, lJobQueue, popped, stage, slice, push, fresh>>

\* Slip: LJobQueue is not reset when the thread leaves.
SettleKeepsQueue(t) ==
  LET q == lJobQueue[t] IN
  /\ step[t] = "next" /\ batch[t] = <<>>
  /\ jobCount' = [jobCount EXCEPT ![q] = @ - popped[t]]
  /\ popped' = [popped EXCEPT ![t] = 0]
  /\ \/ /\ jobCount[q] = popped[t]
        /\ UNCHANGED lJobQueue
        /\ step' = [step EXCEPT ![t] = "idle"]
     \/ /\ jobCount[q] # popped[t]
        /\ step' = [step EXCEPT ![t] = IF slice[t] = "before" THEN "popAll" ELSE "yield"]
        /\ UNCHANGED lJobQueue
  /\ UNCHANGED <<jobQueue, globalQueue, timer, batch, ran, stage, slice, push, fresh>>

\* _job_count.fetch_sub(count): the thread leaves when the batch was all there was,
\* yields when its slice is used up, and pops the next batch otherwise.
Settle(t) ==
  LET q == lJobQueue[t] IN
  /\ step[t] = "next" /\ batch[t] = <<>>
  /\ jobCount' = [jobCount EXCEPT ![q] = @ - popped[t]]
  /\ popped' = [popped EXCEPT ![t] = 0]
  /\ \/ /\ jobCount[q] = popped[t]
        /\ lJobQueue' = [lJobQueue EXCEPT ![t] = NoQueue]
        /\ step' = [step EXCEPT ![t] = "idle"]
     \/ /\ jobCount[q] # popped[t]
        /\ step' = [step EXCEPT ![t] = IF slice[t] = "before" THEN "popAll" ELSE "yield"]
        /\ UNCHANGED lJobQueue
  /\ UNCHANGED <<jobQueue, globalQueue, timer, batch, ran, stage, slice, push, fresh>>

\* Slip: the queue is not handed back.
YieldForgets(t) ==
  /\ step[t] = "yield"
  /\ lJobQueue' = [lJobQueue EXCEPT ![t] = NoQueue]
  /\ step' = [step EXCEPT ![t] = "idle"]
  /\ UNCHANGED <<shared, timer, batch, popped, ran, stage, slice, push, fresh>>

\* The slice is over: LJobQueue is reset and the queue goes back to the GlobalQueue.
Yield(t) ==
  /\ step[t] = "yield"
  /\ globalQueue' = Append(globalQueue, lJobQueue[t])
  /\ lJobQueue' = [lJobQueue EXCEPT ![t] = NoQueue]
  /\ step' = [step EXCEPT ![t] = "idle"]
  /\ UNCHANGED <<jobCount, jobQueue, timer, batch, popped, ran, stage, slice, push, fresh>>
-----------------------------------------------------------------------------
(* The worker loop: Dispatch, DistributeReservedJobs, FlushGlobalQueue *)

At(t, s) == stage[t] = s /\ step[t] = "idle"
Goto(t, s) == stage' = [stage EXCEPT ![t] = s]

\* A thread that executes no job posts one: a packet handler under Dispatch, the
\* update of a map by GameTick.
Post(t) ==
  /\ At(t, "dispatch")
  /\ \E q \in Queues, j \in fresh :
       FetchAdd(t, q, j, FALSE) /\ fresh' = fresh \ {j}
  /\ UNCHANGED <<jobQueue, globalQueue, timer, execution, stage, slice>>

Dispatched(t) ==
  /\ t \in Workers /\ At(t, "dispatch")
  /\ Goto(t, "distribute")
  /\ UNCHANGED <<shared, timer, execution, step, slice, push, fresh>>

\* Slip: an item is popped before its execute_tick is compared.
BeginDistributePopsFirst(t) ==
  /\ At(t, "distribute")
  /\ IF distributing
     THEN Goto(t, "flush") /\ UNCHANGED <<items, due, expired>>
     ELSE /\ Goto(t, "timers")
          /\ expired' = [expired EXCEPT ![t] = SubSeq(items, 1, due)]
          /\ items' = SubSeq(items, due + 2, Len(items))
          /\ due' = 0
  /\ distributing' = TRUE
  /\ UNCHANGED <<shared, execution, step, slice, push, fresh>>

\* _distributing.exchange(true): one thread distributes, the others go on.  It takes
\* the expired items, under the lock, in the same step: nobody else could.  An item that
\* expires between the reading of now and that step counts as expiring after it.
BeginDistribute(t) ==
  /\ At(t, "distribute")
  /\ IF distributing
     THEN Goto(t, "flush") /\ UNCHANGED <<items, due, expired>>
     ELSE /\ Goto(t, "timers")
          /\ expired' = [expired EXCEPT ![t] = SubSeq(items, 1, due)]
          /\ items' = SubSeq(items, due + 1, Len(items))
          /\ due' = 0
  /\ distributing' = TRUE
  /\ UNCHANGED <<shared, execution, step, slice, push, fresh>>

\* owner->Push(job, true)
PushExpired(t) ==
  /\ At(t, "timers") /\ expired[t] # <<>>
  /\ FetchAdd(t, Head(expired[t]).queue, Head(expired[t]).job, TRUE)
  /\ expired' = [expired EXCEPT ![t] = Tail(@)]
  /\ UNCHANGED <<jobQueue, globalQueue, items, due, distributing, execution, stage, slice, fresh>>

EndDistribute(t) ==
  /\ At(t, "timers") /\ expired[t] = <<>>
  /\ distributing' = FALSE
  /\ Goto(t, "flush")
  /\ UNCHANGED <<shared, items, due, expired, execution, step, slice, push, fresh>>

FlushPop(t) ==
  /\ At(t, "flush") /\ slice[t] # "past"
  /\ globalQueue # <<>>
  /\ lJobQueue' = [lJobQueue EXCEPT ![t] = Head(globalQueue)]
  /\ globalQueue' = Tail(globalQueue)
  /\ step' = [step EXCEPT ![t] = "popAll"]
  /\ UNCHANGED <<jobCount, jobQueue, timer, batch, popped, ran, stage, slice, push, fresh>>

\* FlushGlobalQueue returns, the loop starts over with a new time slice.
FlushEnd(t) ==
  /\ At(t, "flush")
  /\ slice[t] = "past" \/ globalQueue = <<>>
  /\ Goto(t, "dispatch")
  /\ slice' = [slice EXCEPT ![t] = "before"]
  /\ UNCHANGED <<shared, timer, execution, step, push, fresh>>

\* GetTickCount64 reaches the end of a thread's slice, then passes it.
SliceEnds(t) ==
  /\ t \in Workers
  /\ slice' = [slice EXCEPT ![t] = CASE @ = "before" -> "at" [] OTHER -> "past"]
  /\ UNCHANGED <<shared, timer, execution, stage, step, push, fresh>>

\* GetTickCount64 reaches the execute_tick of the next reserved job.
TimerExpires ==
  /\ due < Len(items)
  /\ due' = due + 1
  /\ UNCHANGED <<shared, items, distributing, expired, execution, stage, step, slice, push, fresh>>

\* What a thread does without being asked to, apart from popping the GlobalQueue.
Proceed(t) ==
  \/ Enqueue(t) \/ Announce(t)
  \/ PopAll(t) \/ StartJob(t) \/ FinishJob(t) \/ Settle(t) \/ Yield(t)
  \/ Dispatched(t) \/ BeginDistribute(t) \/ PushExpired(t) \/ EndDistribute(t)
  \/ FlushEnd(t)

Next ==
  \/ \E t \in Threads :
       Post(t) \/ JobPush(t) \/ JobReserve(t) \/ Proceed(t) \/ FlushPop(t) \/ SliceEnds(t)
  \/ TimerExpires

Spec == Init /\ [][Next]_vars

\* Threads are scheduled, time passes, and a worker that time and again finds work in
\* the GlobalQueue within its slice pops some.
Fairness ==
  /\ \A t \in Threads : WF_vars(Proceed(t)) /\ SF_vars(FlushPop(t))
  /\ WF_vars(TimerExpires)

FairSpec == Spec /\ Fairness

-----------------------------------------------------------------------------
(* Properties *)

Executes(t, q) == lJobQueue[t] = q
Announces(t, q) == step[t] \in {"added", "queued"} /\ push[t].queue = q /\ push[t].first
Holds(t, q) == Executes(t, q) \/ Announces(t, q)
Announced(q) == \E i \in DOMAIN globalQueue : globalQueue[i] = q
OnceAnnounced ==
  \A i, k \in DOMAIN globalQueue : globalQueue[i] = globalQueue[k] => i = k
Adding(q) == {t \in Threads : step[t] = "added" /\ push[t].queue = q}

\* A queue is in the hands of one party at a time: a thread that executes it, a thread
\* about to announce it, or the GlobalQueue; so no two threads ever run jobs of one
\* queue at once (JobQueue::Push and Execute hand the queue on by _job_count alone).
OneOwner ==
  /\ OnceAnnounced
  /\ \A q \in Queues :
       /\ \A t, u \in Threads : Holds(t, q) /\ Holds(u, q) => t = u
       /\ \A t \in Threads : ~ (Executes(t, q) /\ Announces(t, q))
       /\ Announced(q) => \A t \in Threads : ~ Holds(t, q)

\* A queue whose _job_count is not zero is in somebody's hands, and one whose count is
\* zero in nobody's: no posted job is stranded in a queue nobody will execute.
WorkIsOwned ==
  \A q \in Queues :
    jobCount[q] > 0 <=> Announced(q) \/ \E t \in Threads : Holds(t, q)

\* _job_count is the number of jobs in _job_queue, in the hands of Push before it is
\* queued, and in the batch of the thread that executes the queue.
CountIsExact ==
  \A q \in Queues :
    /\ \A t \in Threads :
         Executes(t, q) => jobCount[q] = Len(jobQueue[q]) + Cardinality(Adding(q)) + popped[t]
    /\ (\A t \in Threads : ~ Executes(t, q))
         => jobCount[q] = Len(jobQueue[q]) + Cardinality(Adding(q))

\* A JobQueue has work exactly while it is in one party's hands, and _job_count says exactly
\* how much: what Push and Execute hand the queue on by.
QueuesOwned == OneOwner /\ WorkIsOwned /\ CountIsExact

Occurrences(s, j) == {i \in DOMAIN s : s[i] = j}
InPush(j) == {t \in Threads : step[t] = "added" /\ push[t].job = j}

\* Every job that was made is in exactly one place on its way (reserved, expired, in
\* Push, queued, in a batch, finished): none is lost, dropped or run twice.
NoJobLost ==
  \A j \in Jobs :
    LET Places ==
          {<<"made", j>> : x \in {j} \cap fresh}
            \cup {<<"items", i>> : i \in {k \in DOMAIN items : items[k].job = j}}
            \cup (UNION {{<<"expired", t, i>> :
                            i \in {k \in DOMAIN expired[t] : expired[t][k].job = j}} : t \in Threads})
            \cup {<<"push", t>> : t \in InPush(j)}
            \cup (UNION {{<<"queue", q, i>> : i \in Occurrences(jobQueue[q], j)} : q \in Queues})
            \cup (UNION {{<<"batch", t, i>> : i \in Occurrences(batch[t], j)} : t \in Threads})
            \cup {<<"ran", j>> : x \in {j} \cap ran}
    IN Cardinality(Places) = 1

Executing(q) == \E t \in Threads : Executes(t, q)
Executor(q) == CHOOSE t \in Threads : Executes(t, q)

\* What is left of the batch to start, and what has been queued since; and the job that runs.
Waiting(q) ==
  IF ~ Executing(q) THEN jobQueue[q]
  ELSE LET t == Executor(q) IN
       (IF InJob(t) THEN Tail(batch[t]) ELSE batch[t]) \o jobQueue[q]
Running(q) ==
  IF Executing(q) /\ InJob(Executor(q)) THEN {Head(batch[Executor(q)])} ELSE {}

\* Seen from outside, a JobQueue runs the jobs one at a time in the order of Push.
Serial == INSTANCE SerialJobs WITH
  waiting <- [q \in Queues |-> Waiting(q)],
  running <- [q \in Queues |-> Running(q)]

\* The job system implements serial queues: whatever the threads do, each queue starts
\* its jobs in the order they were queued, each once, the next when the last is done.
IsSerial == Serial!Spec

\* Every worker reaches FlushGlobalQueue within its slice of kWorkerTick again and again
\* (Dispatch waits 10 ms of the 64): otherwise FlushGlobalQueue never pops anything.
Punctual == \A t \in Workers : []<>(At(t, "flush") /\ slice[t] # "past")

\* A job that was posted or reserved is run in the end.
EveryJobRuns == Punctual => \A j \in Jobs : (j \notin fresh) ~> (j \in ran)
=============================================================================
