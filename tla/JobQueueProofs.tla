--------------------------- MODULE JobQueueProofs ---------------------------
(***************************************************************************)
(* Proofs about JobQueue, for any number of threads, queues and jobs.       *)
(***************************************************************************)
EXTENDS JobQueue, SequenceTheorems, FiniteSetTheorems, TLAPS

Steps == {"idle", "added", "queued", "popAll", "next", "run", "yield"}

\* The initial state has the types of TypeOK.
LEMMA InitTypeOK == Init => TypeOK
<1> SUFFICES ASSUME Init PROVE TypeOK
  OBVIOUS
<1>1. /\ jobQueue \in [Queues -> Seq(Jobs)] /\ globalQueue \in Seq(Queues)
      /\ items \in Seq(Reservation) /\ batch \in [Threads -> Seq(Jobs)]
      /\ expired \in [Threads -> Seq(Reservation)]
  BY EmptySeq DEF Init
<1>2. push \in [Threads -> PushCall \cup {NoCall}]
  BY DEF Init
<1>3. Control
  BY DEF Init, Control, InJob
<1>4. due \in 0 .. Len(items)
  BY EmptySeq DEF Init
<1>5. /\ jobCount \in [Queues -> Int]
      /\ popped \in [Threads -> Nat]
      /\ lJobQueue \in [Threads -> Queues \cup {NoQueue}]
      /\ fresh \subseteq Jobs /\ ran \subseteq Jobs
  BY DEF Init
<1>6. /\ stage \in [Threads -> {"dispatch", "distribute", "timers", "flush"}]
      /\ step \in [Threads -> Steps]
      /\ slice \in [Threads -> {"before", "at", "past"}]
  BY DEF Init, Steps
<1>7. distributing \in BOOLEAN
  BY DEF Init
<1>8. QED
  BY <1>1, <1>2, <1>3, <1>4, <1>5, <1>6, <1>7 DEF TypeOK, Types, Steps

\* A call of Push keeps the types, and leaves the caller after its fetch_add.
LEMMA FetchAddTypes ==
  ASSUME TypeOK, NEW t \in Threads, NEW q \in Queues, NEW j \in Jobs, NEW po \in BOOLEAN,
         FetchAdd(t, q, j, po)
  PROVE  /\ push' \in [Threads -> PushCall \cup {NoCall}]
         /\ push'[t] # NoCall
         /\ push'[t].queue = q
         /\ push'[t].first = (jobCount[q] = 0)
         /\ \A u \in Threads : u # t => push'[u] = push[u] /\ step'[u] = step[u]
         /\ jobCount' \in [Queues -> Int]
         /\ step' \in [Threads -> Steps]
         /\ step'[t] = "added"
<1> DEFINE call == [queue |-> q, job |-> j, pushOnly |-> po, first |-> jobCount[q] = 0]
<1>1. /\ call \in PushCall /\ call.queue = q
      /\ call.first = (jobCount[q] = 0)
  BY DEF PushCall
<1>2. call # NoCall
  BY JobAssumption DEF NoCall
<1>3. push' = [push EXCEPT ![t] = call]
  BY DEF FetchAdd
<1> HIDE DEF call
<1>4. QED
  BY <1>1, <1>2, <1>3 DEF TypeOK, Types, FetchAdd, Steps

\* Push returns to a job if the thread executes a queue, to the worker loop if not.
LEMMA ReturnTypes ==
  ASSUME TypeOK, NEW t \in Threads, Return(t)
  PROVE  /\ push' \in [Threads -> PushCall \cup {NoCall}]
         /\ \A u \in Threads : u # t => push'[u] = push[u] /\ step'[u] = step[u]
         /\ step' \in [Threads -> Steps]
         /\ step'[t] = IF lJobQueue[t] = NoQueue THEN "idle" ELSE "run"
BY DEF TypeOK, Types, Return, Steps

\* A thread inside Push has called it on a queue.
LEMMA PushIsCall ==
  ASSUME TypeOK, NEW t \in Threads, step[t] \in {"added", "queued"}
  PROVE  push[t] \in PushCall /\ push[t].queue \in Queues /\ push[t].job \in Jobs
<1>1. push[t] \in PushCall
  BY DEF TypeOK, Types, Control
<1>2. QED
  BY <1>1 DEF PushCall

-----------------------------------------------------------------------------
(* TypeOK is inductive: one lemma for each group of actions *)

\* A thread that starts to post a job keeps the types.
LEMMA PushTypeOK ==
  ASSUME TypeOK, NEW t \in Threads, Post(t) \/ JobPush(t) \/ PushExpired(t)
  PROVE  TypeOK'
<1> USE DEF shared, timer, execution
<1>1. PICK q \in Queues, j \in Jobs, po \in BOOLEAN : FetchAdd(t, q, j, po)
  <2>1. CASE PushExpired(t)
    <3>1. Head(expired[t]) \in Reservation
      BY <2>1 DEF PushExpired, TypeOK, Types
    <3>2. Head(expired[t]).queue \in Queues /\ Head(expired[t]).job \in Jobs
      BY <3>1 DEF Reservation
    <3>3. QED  BY <2>1, <3>2 DEF PushExpired
  <2>2. CASE Post(t) \/ JobPush(t)
    BY <2>2 DEF Post, JobPush, TypeOK, Types
  <2>3. QED  BY <2>1, <2>2
<1>2. /\ step[t] \in {"idle", "run"}
      /\ fresh' \subseteq Jobs
      /\ expired' \in [Threads -> Seq(Reservation)]
      /\ UNCHANGED <<jobQueue, globalQueue, items, due, distributing, execution, stage, slice>>
  <2>1. CASE PushExpired(t)
    <3>1. Tail(expired[t]) \in Seq(Reservation)
      BY <2>1, HeadTailProperties DEF PushExpired, TypeOK, Types
    <3>2. QED  BY <2>1, <3>1 DEF PushExpired, At, TypeOK, Types
  <2>2. CASE Post(t) \/ JobPush(t)
    BY <2>2 DEF Post, JobPush, At, TypeOK, Types
  <2>3. QED  BY <2>1, <2>2
<1>3. Types'
  BY <1>1, <1>2, FetchAddTypes DEF TypeOK, Types, Steps
<1>4. Control'
  <2> SUFFICES ASSUME NEW u \in Threads
               PROVE  Control!(u)'
    BY DEF Control
  <2>1. CASE u = t
    BY <1>1, <1>2, <2>1, FetchAddTypes DEF TypeOK, Control, InJob
  <2>2. CASE u # t
    BY <1>1, <1>2, <2>2, FetchAddTypes DEF TypeOK, Control, InJob
  <2>3. QED  BY <2>1, <2>2
<1>5. QED  BY <1>3, <1>4 DEF TypeOK

\* Queueing the posted job keeps the types.
LEMMA EnqueueTypeOK ==
  ASSUME TypeOK, NEW t \in Threads, Enqueue(t)
  PROVE  TypeOK'
<1> USE DEF shared, timer, execution
<1>1. push[t] \in PushCall /\ push[t].queue \in Queues /\ push[t].job \in Jobs
  BY PushIsCall DEF Enqueue
<1>2. /\ jobQueue' \in [Queues -> Seq(Jobs)]
      /\ UNCHANGED <<jobCount, globalQueue, timer, execution, stage, slice, fresh>>
  BY <1>1 DEF Enqueue, TypeOK, Types
<1>3. CASE push[t].first
  <2>1. step' = [step EXCEPT ![t] = "queued"] /\ UNCHANGED push
    BY <1>3 DEF Enqueue
  <2>2. Types'
    BY <1>2, <2>1 DEF TypeOK, Types
  <2>3. Control'
    BY <1>2, <1>3, <2>1 DEF Enqueue, TypeOK, Types, Control, InJob
  <2>4. QED  BY <2>2, <2>3 DEF TypeOK
<1>4. CASE ~ push[t].first
  <2>1. Return(t)
    BY <1>4 DEF Enqueue
  <2>2. Types'
    BY <1>2, <2>1, ReturnTypes DEF TypeOK, Types, Steps
  <2>3. Control'
    <3> SUFFICES ASSUME NEW u \in Threads PROVE Control!(u)'
      BY DEF Control
    <3>1. CASE u = t
      BY <1>2, <2>1, <3>1, ReturnTypes DEF Enqueue, TypeOK, Control, InJob
    <3>2. CASE u # t
      BY <1>2, <2>1, <3>2, ReturnTypes DEF TypeOK, Control, InJob
    <3>3. QED  BY <3>1, <3>2
  <2>4. QED  BY <2>2, <2>3 DEF TypeOK
<1>5. QED  BY <1>3, <1>4

\* Announcing a queue, or executing it at once, keeps the types.
LEMMA AnnounceTypeOK ==
  ASSUME TypeOK, NEW t \in Threads, Announce(t)
  PROVE  TypeOK'
<1> USE DEF shared, timer, execution
<1>1. push[t] \in PushCall /\ push[t].queue \in Queues /\ push[t].job \in Jobs
  BY PushIsCall DEF Announce
<1>2. UNCHANGED <<jobCount, jobQueue, timer, batch, popped, ran, stage, slice, fresh>>
  BY DEF Announce
<1>3. CASE lJobQueue[t] = NoQueue /\ push[t].pushOnly
  <2>1. /\ lJobQueue' = [lJobQueue EXCEPT ![t] = push[t].queue]
        /\ step' = [step EXCEPT ![t] = "popAll"]
        /\ push' = [push EXCEPT ![t] = NoCall]
        /\ UNCHANGED globalQueue
    BY <1>3 DEF Announce
  <2>2. Types'
    BY <1>1, <1>2, <2>1 DEF TypeOK, Types
  <2>3. Control'
    BY <1>1, <1>2, <1>3, <2>1, JobAssumption DEF Announce, TypeOK, Types, Control, InJob
  <2>4. QED  BY <2>2, <2>3 DEF TypeOK
<1>4. CASE ~ (lJobQueue[t] = NoQueue /\ push[t].pushOnly)
  <2>1. /\ globalQueue' = Append(globalQueue, push[t].queue)
        /\ Return(t)
        /\ UNCHANGED lJobQueue
    BY <1>4 DEF Announce
  <2>2. globalQueue' \in Seq(Queues)
    BY <1>1, <2>1 DEF TypeOK, Types
  <2>3. Types'
    BY <1>2, <2>1, <2>2, ReturnTypes DEF TypeOK, Types, Steps
  <2>4. Control'
    <3> SUFFICES ASSUME NEW u \in Threads PROVE Control!(u)'
      BY DEF Control
    <3>1. CASE u = t
      BY <1>2, <2>1, <3>1, ReturnTypes DEF Announce, TypeOK, Control, InJob
    <3>2. CASE u # t
      BY <1>2, <2>1, <3>2, ReturnTypes DEF TypeOK, Control, InJob
    <3>3. QED  BY <3>1, <3>2
  <2>5. QED  BY <2>3, <2>4 DEF TypeOK
<1>5. QED  BY <1>3, <1>4

\* Execute keeps the types, from PopAll to the yield.
LEMMA ExecuteTypeOK ==
  ASSUME TypeOK, NEW t \in Threads,
         PopAll(t) \/ StartJob(t) \/ FinishJob(t) \/ Settle(t) \/ Yield(t)
  PROVE  TypeOK'
<1> USE DEF shared, timer, execution
<1>1. CASE PopAll(t)
  <2>1. lJobQueue[t] \in Queues
    BY <1>1 DEF PopAll, TypeOK, Types, Control
  <2>2. jobQueue[lJobQueue[t]] \in Seq(Jobs) /\ Len(jobQueue[lJobQueue[t]]) \in Nat
    BY <2>1, LenProperties DEF TypeOK, Types
  <2>3. Types'
    BY <1>1, <2>1, <2>2, EmptySeq DEF PopAll, TypeOK, Types
  <2>4. Control'
    BY <1>1 DEF PopAll, TypeOK, Types, Control, InJob
  <2>5. QED  BY <2>3, <2>4 DEF TypeOK
<1>2. CASE StartJob(t)
  BY <1>2 DEF StartJob, TypeOK, Types, Control, InJob
<1>3. CASE FinishJob(t)
  <2>1. batch[t] \in Seq(Jobs) /\ batch[t] # <<>>
    BY <1>3 DEF FinishJob, TypeOK, Types, Control, InJob
  <2>2. Head(batch[t]) \in Jobs /\ Tail(batch[t]) \in Seq(Jobs)
    BY <2>1, HeadTailProperties
  <2>3. Types'
    BY <1>3, <2>2 DEF FinishJob, TypeOK, Types
  <2>4. Control'
    BY <1>3 DEF FinishJob, TypeOK, Types, Control, InJob
  <2>5. QED  BY <2>3, <2>4 DEF TypeOK
<1>4. CASE Settle(t)
  <2>1. lJobQueue[t] \in Queues
    BY <1>4 DEF Settle, TypeOK, Types, Control
  <2>2. /\ jobCount' \in [Queues -> Int]
        /\ popped' \in [Threads -> Nat]
    BY <1>4, <2>1 DEF Settle, TypeOK, Types
  <2>3. /\ lJobQueue' \in [Threads -> Queues \cup {NoQueue}]
        /\ step' \in [Threads -> Steps]
    BY <1>4 DEF Settle, TypeOK, Types, Steps
  <2>4. Types'
    BY <1>4, <2>2, <2>3 DEF Settle, TypeOK, Types, Steps
  <2>5. Control'
    BY <1>4 DEF Settle, TypeOK, Types, Control, InJob
  <2>6. QED  BY <2>4, <2>5 DEF TypeOK
<1>5. CASE Yield(t)
  <2>1. lJobQueue[t] \in Queues
    BY <1>5 DEF Yield, TypeOK, Types, Control
  <2>2. globalQueue' \in Seq(Queues)
    BY <1>5, <2>1 DEF Yield, TypeOK, Types
  <2>3. Types'
    BY <1>5, <2>2 DEF Yield, TypeOK, Types
  <2>4. Control'
    BY <1>5 DEF Yield, TypeOK, Types, Control, InJob
  <2>5. QED  BY <2>3, <2>4 DEF TypeOK
<1>6. QED  BY <1>1, <1>2, <1>3, <1>4, <1>5

\* The reserving and distributing of timers keeps the types.
LEMMA TimerTypeOK ==
  ASSUME TypeOK, NEW t \in Threads,
         JobReserve(t) \/ BeginDistribute(t) \/ EndDistribute(t) \/ TimerExpires
  PROVE  TypeOK'
<1> USE DEF shared, timer, execution
<1>1. CASE JobReserve(t)
  <2>1. PICK q \in Queues, j \in fresh, i \in 0 .. Len(items) :
          /\ items' = SubSeq(items, 1, i) \o <<[queue |-> q, job |-> j]>>
                        \o SubSeq(items, i + 1, Len(items))
          /\ due' = IF i < due THEN due + 1 ELSE due
          /\ fresh' = fresh \ {j}
    BY <1>1 DEF JobReserve
  <2>2. [queue |-> q, job |-> j] \in Reservation
    BY DEF TypeOK, Types, Reservation
  <2>3. /\ SubSeq(items, 1, i) \in Seq(Reservation)
        /\ SubSeq(items, i + 1, Len(items)) \in Seq(Reservation)
    BY SubSeqProperties DEF TypeOK, Types
  <2>4. items' \in Seq(Reservation)
    BY <2>1, <2>2, <2>3, ConcatProperties
  <2>5. due' \in 0 .. Len(items')
    <3> DEFINE before == SubSeq(items, 1, i)
               after == SubSeq(items, i + 1, Len(items))
               new == <<[queue |-> q, job |-> j]>>
    <3>1. items \in Seq(Reservation) /\ Len(items) \in Nat
      BY LenProperties DEF TypeOK, Types
    <3>2. Len(before) = i /\ Len(after) = Len(items) - i
      BY <3>1, SubSeqProperties
    <3>3. new \in Seq(Reservation) /\ Len(new) = 1
      BY <2>2
    <3>4. before \o new \in Seq(Reservation) /\ Len(before \o new) = i + 1
      BY <2>3, <3>2, <3>3, ConcatProperties
    <3>5. Len((before \o new) \o after) = Len(items) + 1
      <4>1. Len((before \o new) \o after) = Len(before \o new) + Len(after)
        BY <2>3, <3>4, ConcatProperties
      <4>2. i + 1 + (Len(items) - i) = Len(items) + 1
        BY <3>1
      <4>3. QED  BY ONLY <4>1, <4>2, <3>2, <3>4
    <3>6. Len(items') = Len(items) + 1
      BY <2>1, <3>5
    <3>7. due' \in 0 .. Len(items) + 1
      BY <2>1, <3>1 DEF TypeOK, Types
    <3>8. QED  BY <3>6, <3>7
  <2>6. QED
    BY <1>1, <2>1, <2>4, <2>5 DEF JobReserve, TypeOK, Types, Control, InJob
<1>2. CASE BeginDistribute(t)
  <2>1. /\ SubSeq(items, 1, due) \in Seq(Reservation)
        /\ SubSeq(items, due + 1, Len(items)) \in Seq(Reservation)
    BY SubSeqProperties DEF TypeOK, Types
  <2>2. /\ items' \in Seq(Reservation)
        /\ expired' \in [Threads -> Seq(Reservation)]
        /\ due' \in 0 .. Len(items')
        /\ stage' \in [Threads -> {"dispatch", "distribute", "timers", "flush"}]
    <3>1. due \in 0 .. Len(items) /\ stage \in [Threads -> {"dispatch", "distribute", "timers", "flush"}]
      BY DEF TypeOK, Types
    <3>2. CASE distributing
      BY <1>2, <3>1, <3>2 DEF BeginDistribute, Goto, TypeOK, Types
    <3>3. CASE ~ distributing
      <4>1. 0 \in 0 .. Len(SubSeq(items, due + 1, Len(items)))
        BY <2>1, LenProperties
      <4>2. QED
        BY <1>2, <2>1, <3>1, <3>3, <4>1 DEF BeginDistribute, Goto, TypeOK, Types
    <3>4. QED  BY <3>2, <3>3
  <2>3. Types'
    BY <1>2, <2>2 DEF BeginDistribute, TypeOK, Types
  <2>4. Control'
    BY <1>2 DEF BeginDistribute, TypeOK, Control, InJob
  <2>5. QED  BY <2>3, <2>4 DEF TypeOK
<1>3. CASE EndDistribute(t)
  BY <1>3 DEF EndDistribute, Goto, TypeOK, Types, Control, InJob
<1>4. CASE TimerExpires
  BY <1>4 DEF TimerExpires, TypeOK, Types, Control, InJob
<1>5. QED  BY <1>1, <1>2, <1>3, <1>4

\* The rest of the worker loop keeps the types.
LEMMA LoopTypeOK ==
  ASSUME TypeOK, NEW t \in Threads, Dispatched(t) \/ FlushPop(t) \/ FlushEnd(t) \/ SliceEnds(t)
  PROVE  TypeOK'
<1> USE DEF shared, timer, execution
<1>1. CASE Dispatched(t)
  BY <1>1 DEF Dispatched, Goto, TypeOK, Types, Control, InJob
<1>2. CASE FlushPop(t)
  <2>1. Head(globalQueue) \in Queues /\ Tail(globalQueue) \in Seq(Queues)
    BY <1>2, HeadTailProperties DEF FlushPop, TypeOK, Types
  <2>2. Types'
    BY <1>2, <2>1 DEF FlushPop, TypeOK, Types
  <2>3. Control'
    BY <1>2, <2>1, JobAssumption DEF FlushPop, At, TypeOK, Types, Control, InJob
  <2>4. QED  BY <2>2, <2>3 DEF TypeOK
<1>3. CASE FlushEnd(t)
  BY <1>3 DEF FlushEnd, Goto, TypeOK, Types, Control, InJob
<1>4. CASE SliceEnds(t)
  BY <1>4 DEF SliceEnds, TypeOK, Types, Control, InJob
<1>5. QED  BY <1>1, <1>2, <1>3, <1>4

\* Every step keeps the types.
LEMMA NextTypeOK == TypeOK /\ [Next]_vars => TypeOK'
<1> SUFFICES ASSUME TypeOK, [Next]_vars PROVE TypeOK'
  OBVIOUS
<1>1. ASSUME NEW t \in Threads,
             Post(t) \/ JobPush(t) \/ JobReserve(t) \/ Proceed(t) \/ FlushPop(t) \/ SliceEnds(t)
      PROVE  TypeOK'
  BY <1>1, PushTypeOK, EnqueueTypeOK, AnnounceTypeOK, ExecuteTypeOK, TimerTypeOK, LoopTypeOK
  DEF Proceed
<1>2. CASE TimerExpires
  BY <1>2 DEF TimerExpires, TypeOK, Types, Control, InJob, shared, execution
<1>3. CASE UNCHANGED vars
  BY <1>3 DEF vars, shared, timer, execution, TypeOK, Types, Control, InJob
<1>4. QED  BY <1>1, <1>2, <1>3 DEF Next

\* The types of the job system, and of each thread's local variables by its place.
THEOREM TypeCorrect == Spec => []TypeOK
BY InitTypeOK, NextTypeOK, PTL DEF Spec

-----------------------------------------------------------------------------
(* Who owns a queue: the inductive invariant                               *)

\* The three ownership properties of one queue.
Own(p) ==
  /\ \A t, u \in Threads : Holds(t, p) /\ Holds(u, p) => t = u
  /\ \A t \in Threads : ~ (Executes(t, p) /\ Announces(t, p))
  /\ Announced(p) => \A t \in Threads : ~ Holds(t, p)
  /\ jobCount[p] > 0 <=> Announced(p) \/ \E t \in Threads : Holds(t, p)
  /\ \A t \in Threads :
       Executes(t, p) => jobCount[p] = Len(jobQueue[p]) + Cardinality(Adding(p)) + popped[t]
  /\ (\A t \in Threads : ~ Executes(t, p))
       => jobCount[p] = Len(jobQueue[p]) + Cardinality(Adding(p))

\* Mutual exclusion needs the exact count: the executor leaves a queue on the ground
\* that its count has come to zero, and a Push takes it on the ground that it was zero.
IInv == TypeOK /\ OnceAnnounced /\ \A p \in Queues : Own(p)

\* What is proved of each queue adds up to the three properties of all queues.
LEMMA OwnIsOwnership ==
  (OnceAnnounced /\ \A p \in Queues : Own(p)) <=> (OneOwner /\ WorkIsOwned /\ CountIsExact)
BY DEF Own, OneOwner, WorkIsOwned, CountIsExact

\* The threads between the count and the queue of Push are finitely many.
LEMMA AddingFinite ==
  ASSUME NEW p
  PROVE  IsFiniteSet(Adding(p)) /\ Cardinality(Adding(p)) \in Nat
<1>1. Adding(p) \subseteq Threads
  BY DEF Adding
<1>2. IsFiniteSet(Adding(p))
  BY <1>1, JobAssumption, FS_Subset
<1>3. QED  BY <1>2, FS_CardinalityType

\* Initially no queue has work and nobody holds one.
LEMMA InitIInv == Init => IInv
<1> SUFFICES ASSUME Init PROVE IInv
  OBVIOUS
<1>1. OnceAnnounced
  BY DEF Init, OnceAnnounced
<1>2. ASSUME NEW p \in Queues PROVE Own(p)
  <2>1. /\ \A t \in Threads : ~ Holds(t, p)
        /\ ~ Announced(p)
        /\ Adding(p) = {}
        /\ jobCount[p] = 0 /\ jobQueue[p] = <<>>
    BY JobAssumption DEF Init, Holds, Executes, Announces, Announced, Adding
  <2>2. Len(<<>>) + Cardinality({}) = 0
    BY FS_EmptySet, EmptySeq
  <2>3. QED
    BY <2>1, <2>2 DEF Own, Holds
<1>3. QED  BY <1>1, <1>2, InitTypeOK DEF IInv

\* Appending a queue that is not in the GlobalQueue announces it and keeps it there once.
LEMMA AnnounceAppend ==
  ASSUME TypeOK, OnceAnnounced, NEW q \in Queues, ~ Announced(q),
         globalQueue' = Append(globalQueue, q)
  PROVE  OnceAnnounced' /\ \A p \in Queues : Announced(p)' <=> (Announced(p) \/ p = q)
<1>1. globalQueue \in Seq(Queues)
  BY DEF TypeOK, Types
<1>2. /\ DOMAIN globalQueue = 1 .. Len(globalQueue) /\ Len(globalQueue) \in Nat
      /\ DOMAIN globalQueue' = 1 .. Len(globalQueue) + 1
      /\ \A i \in 1 .. Len(globalQueue) : globalQueue'[i] = globalQueue[i]
      /\ globalQueue'[Len(globalQueue) + 1] = q
  BY <1>1, LenProperties, AppendProperties
<1>3. \A i \in 1 .. Len(globalQueue) : globalQueue[i] # q
  BY <1>2 DEF Announced
<1>4. OnceAnnounced'
  BY <1>2, <1>3 DEF OnceAnnounced
<1>5. ASSUME NEW p \in Queues PROVE Announced(p)' <=> (Announced(p) \/ p = q)
  <2>1. 1 .. Len(globalQueue) + 1 = (1 .. Len(globalQueue)) \cup {Len(globalQueue) + 1}
    BY <1>2
  <2>2. QED  BY <1>2, <2>1 DEF Announced
<1>6. QED  BY <1>4, <1>5

\* Popping the GlobalQueue withdraws its first queue and no other.
LEMMA AnnounceTail ==
  ASSUME TypeOK, OnceAnnounced, globalQueue # <<>>, globalQueue' = Tail(globalQueue)
  PROVE  /\ OnceAnnounced'
         /\ Head(globalQueue) \in Queues /\ Announced(Head(globalQueue))
         /\ \A p \in Queues : Announced(p)' <=> (Announced(p) /\ p # Head(globalQueue))
<1>1. globalQueue \in Seq(Queues)
  BY DEF TypeOK, Types
<1>2. /\ DOMAIN globalQueue = 1 .. Len(globalQueue) /\ Len(globalQueue) \in Nat \ {0}
      /\ DOMAIN globalQueue' = 1 .. Len(globalQueue) - 1
      /\ \A i \in 1 .. Len(globalQueue) - 1 : globalQueue'[i] = globalQueue[i + 1]
      /\ Head(globalQueue) = globalQueue[1] /\ Head(globalQueue) \in Queues
  BY <1>1, LenProperties, EmptySeq, HeadTailProperties
<1>3. OnceAnnounced'
  BY <1>2 DEF OnceAnnounced
<1>4. Announced(Head(globalQueue))
  BY <1>2 DEF Announced
<1>5. ASSUME NEW p \in Queues PROVE Announced(p)' <=> (Announced(p) /\ p # Head(globalQueue))
  <2>1. ASSUME Announced(p)' PROVE Announced(p) /\ p # Head(globalQueue)
    <3>1. PICK i \in 1 .. Len(globalQueue) - 1 : globalQueue[i + 1] = p
      BY <1>2, <2>1 DEF Announced
    <3>2. i + 1 \in 1 .. Len(globalQueue) /\ i + 1 # 1 /\ 1 \in 1 .. Len(globalQueue)
      BY <1>2
    <3>3. QED  BY <1>2, <3>1, <3>2 DEF Announced, OnceAnnounced
  <2>2. ASSUME Announced(p), p # Head(globalQueue) PROVE Announced(p)'
    <3>1. PICK i \in 1 .. Len(globalQueue) : globalQueue[i] = p
      BY <1>2, <2>2 DEF Announced
    <3>2. i # 1
      BY <1>2, <2>2, <3>1
    <3>3. i - 1 \in 1 .. Len(globalQueue) - 1 /\ (i - 1) + 1 = i
      BY <1>2, <3>2
    <3>4. globalQueue'[i - 1] = p
      BY <1>2, <3>1, <3>3
    <3>5. QED  BY <1>2, <3>3, <3>4 DEF Announced
  <2>3. QED  BY <2>1, <2>2
<1>6. QED  BY <1>2, <1>3, <1>4, <1>5

\* A step that leaves what concerns p alone keeps p's ownership.
LEMMA FrameOwn ==
  ASSUME NEW p \in Queues, Own(p),
         \A u \in Threads : Executes(u, p)' <=> Executes(u, p),
         \A u \in Threads : Announces(u, p)' <=> Announces(u, p),
         \A u \in Threads : Executes(u, p) => popped'[u] = popped[u],
         Announced(p)' <=> Announced(p),
         Adding(p)' = Adding(p),
         jobCount'[p] = jobCount[p],
         Len(jobQueue'[p]) = Len(jobQueue[p])
  PROVE  Own(p)'
BY DEF Own, Holds

\* What a step of t leaves alone: another thread neither executes nor announces anything
\* else, and is not inside Push at another place.
LEMMA OthersUnchanged ==
  ASSUME NEW p, NEW t \in Threads,
         \A u \in Threads \ {t} :
           lJobQueue'[u] = lJobQueue[u] /\ push'[u] = push[u] /\ step'[u] = step[u]
  PROVE  /\ \A u \in Threads \ {t} : Executes(u, p)' <=> Executes(u, p)
         /\ \A u \in Threads \ {t} : Announces(u, p)' <=> Announces(u, p)
         /\ \A u \in Threads \ {t} : u \in Adding(p)' <=> u \in Adding(p)
BY DEF Executes, Announces, Adding

\* A step that changes neither the shared counters and queues nor any Push.
LEMMA QuietIInv ==
  ASSUME IInv, TypeOK',
         UNCHANGED <<jobCount, jobQueue, globalQueue, lJobQueue, popped, push>>,
         \A u \in Threads :
           step'[u] = step[u] \/ (step[u] \notin {"added", "queued"}
                                   /\ step'[u] \notin {"added", "queued"})
  PROVE  IInv'
<1>1. OnceAnnounced'
  BY DEF IInv, OnceAnnounced
<1>2. ASSUME NEW p \in Queues PROVE Own(p)'
  <2>1. /\ \A u \in Threads : Executes(u, p)' <=> Executes(u, p)
        /\ \A u \in Threads : Announces(u, p)' <=> Announces(u, p)
        /\ Announced(p)' <=> Announced(p)
        /\ Adding(p)' = Adding(p)
    BY DEF Executes, Announces, Announced, Adding
  <2>2. Own(p)
    BY DEF IInv
  <2>3. QED  BY <2>1, <2>2, FrameOwn
<1>3. QED  BY <1>1, <1>2 DEF IInv

\* Push, first step: the count goes up, and the caller announces iff it was zero.
LEMMA FetchAddIInv ==
  ASSUME IInv, TypeOK', NEW t \in Threads, NEW q \in Queues, NEW j \in Jobs, NEW po \in BOOLEAN,
         FetchAdd(t, q, j, po), step[t] \in {"idle", "run"},
         UNCHANGED <<jobQueue, globalQueue, lJobQueue, popped>>
  PROVE  IInv'
<1>1. TypeOK /\ \A p \in Queues : Own(p)
  BY DEF IInv
<1>2. OnceAnnounced' /\ \A p \in Queues : Announced(p)' <=> Announced(p)
  BY DEF IInv, OnceAnnounced, Announced
<1>3. /\ push'[t].queue = q /\ push'[t].first = (jobCount[q] = 0) /\ step'[t] = "added"
      /\ \A u \in Threads : u # t => push'[u] = push[u] /\ step'[u] = step[u]
  BY <1>1, FetchAddTypes
<1>4. jobCount' = [jobCount EXCEPT ![q] = @ + 1]
  BY DEF FetchAdd
<1>5. ASSUME NEW p \in Queues PROVE Own(p)'
  <2>1. Own(p)
    BY <1>1
  <2>2. /\ \A u \in Threads : Executes(u, p)' <=> Executes(u, p)
        /\ \A u \in Threads : u # t => (Announces(u, p)' <=> Announces(u, p))
        /\ ~ Announces(t, p)
        /\ Announces(t, p)' <=> p = q /\ jobCount[q] = 0
    BY <1>3 DEF Executes, Announces
  <2>3. /\ t \notin Adding(p)
        /\ Adding(p)' = IF p = q THEN Adding(p) \cup {t} ELSE Adding(p)
    BY <1>3 DEF Adding
  <2>4. CASE p # q
    BY <1>2, <1>4, <2>1, <2>2, <2>3, <2>4, FrameOwn DEF TypeOK, Types
  <2>5. CASE p = q
    <3>1. Cardinality(Adding(p)') = Cardinality(Adding(p)) + 1
      BY <2>3, <2>5, AddingFinite, FS_AddElement
    <3>2. jobCount[p] \in Int /\ Len(jobQueue[p]) \in Nat /\ Cardinality(Adding(p)) \in Nat
      BY <1>1, AddingFinite, LenProperties DEF TypeOK, Types
    <3>3. \A u \in Threads : popped[u] \in Nat
      BY <1>1 DEF TypeOK, Types
    <3>4. jobCount[p] >= 0
      BY <2>1, <3>2, <3>3 DEF Own
    <3>5. jobCount'[p] = jobCount[p] + 1
      BY <1>1, <1>4, <2>5 DEF TypeOK, Types
    <3>6. CASE jobCount[p] = 0
      <4>1. ~ Announced(p) /\ \A u \in Threads : ~ Holds(u, p)
        BY <2>1, <3>6 DEF Own
      <4>2. \A u \in Threads : Holds(u, p)' <=> u = t
        BY <2>2, <2>5, <3>6, <4>1 DEF Holds
      <4>3. \A u \in Threads : ~ Executes(u, p)'
        BY <2>2, <4>1 DEF Holds
      <4>4. jobCount[p] = Len(jobQueue[p]) + Cardinality(Adding(p))
        BY <2>1, <4>1 DEF Own, Holds
      <4>5. QED
        BY <1>2, <3>1, <3>2, <3>5, <3>6, <4>1, <4>2, <4>3, <4>4 DEF Own
    <3>7. CASE jobCount[p] # 0
      <4>1. \A u \in Threads : Announces(u, p)' <=> Announces(u, p)
        BY <2>2, <2>5, <3>7
      <4>2. \A u \in Threads : Holds(u, p)' <=> Holds(u, p)
        BY <2>2, <4>1 DEF Holds
      <4>3. /\ \A u \in Threads :
                  Executes(u, p)' => jobCount'[p] = Len(jobQueue'[p]) + Cardinality(Adding(p)') + popped'[u]
            /\ (\A u \in Threads : ~ Executes(u, p)')
                  => jobCount'[p] = Len(jobQueue'[p]) + Cardinality(Adding(p)')
        <5>1. ASSUME NEW u \in Threads, Executes(u, p)
              PROVE  jobCount'[p] = Len(jobQueue'[p]) + Cardinality(Adding(p)') + popped'[u]
          <6>1. jobCount[p] = Len(jobQueue[p]) + Cardinality(Adding(p)) + popped[u]
            BY <2>1, <5>1 DEF Own
          <6>2. QED  BY <6>1, <3>1, <3>2, <3>3, <3>5
        <5>2. ASSUME \A u \in Threads : ~ Executes(u, p)
              PROVE  jobCount'[p] = Len(jobQueue'[p]) + Cardinality(Adding(p)')
          <6>1. jobCount[p] = Len(jobQueue[p]) + Cardinality(Adding(p))
            BY <2>1, <5>2 DEF Own
          <6>2. QED  BY <6>1, <3>1, <3>2, <3>5
        <5>3. QED  BY <2>2, <5>1, <5>2
      <4>4. jobCount'[p] > 0 /\ jobCount[p] > 0
        BY <3>2, <3>4, <3>5, <3>7
      <4>5. QED
        BY <1>2, <2>1, <2>2, <4>1, <4>2, <4>3, <4>4 DEF Own
    <3>8. QED  BY <3>6, <3>7
  <2>6. QED  BY <2>4, <2>5
<1>6. QED  BY <1>2, <1>5 DEF IInv

\* Push, second step: the job moves from the caller to _job_queue.
LEMMA EnqueueIInv ==
  ASSUME IInv, TypeOK', NEW t \in Threads, Enqueue(t)
  PROVE  IInv'
<1>1. TypeOK /\ \A p \in Queues : Own(p)
  BY DEF IInv
<1> DEFINE q == push[t].queue
<1>2. step[t] = "added" /\ q \in Queues /\ push[t].job \in Jobs
  BY <1>1, PushIsCall DEF Enqueue
<1>3. /\ UNCHANGED <<jobCount, globalQueue, lJobQueue, popped>>
      /\ jobQueue' = [jobQueue EXCEPT ![q] = Append(@, push[t].job)]
  BY DEF Enqueue, execution
<1>4. OnceAnnounced' /\ \A p \in Queues : Announced(p)' <=> Announced(p)
  BY <1>3 DEF IInv, OnceAnnounced, Announced
<1>5. /\ \A u \in Threads : u # t => push'[u] = push[u] /\ step'[u] = step[u]
      /\ push[t].first => push'[t] = push[t] /\ step'[t] = "queued"
      /\ ~ push[t].first => step'[t] \in {"idle", "run"}
  <2>1. CASE push[t].first
    BY <1>1, <2>1 DEF Enqueue, TypeOK, Types
  <2>2. CASE ~ push[t].first
    BY <1>1, <2>2, ReturnTypes DEF Enqueue
  <2>3. QED  BY <2>1, <2>2
<1>6. ASSUME NEW p \in Queues PROVE Own(p)'
  <2>1. Own(p)
    BY <1>1
  <2>2. /\ \A u \in Threads : Executes(u, p)' <=> Executes(u, p)
        /\ \A u \in Threads : Announces(u, p)' <=> Announces(u, p)
    BY <1>2, <1>3, <1>5 DEF Executes, Announces
  <2>3. /\ t \in Adding(p) <=> p = q
        /\ Adding(p)' = Adding(p) \ {t}
    BY <1>2, <1>5 DEF Adding
  <2>4. CASE p # q
    <3>1. Adding(p)' = Adding(p)
      BY <2>3, <2>4
    <3>2. jobQueue'[p] = jobQueue[p]
      BY <1>1, <1>3, <2>4 DEF TypeOK, Types
    <3>3. QED
      BY <1>3, <1>4, <2>1, <2>2, <3>1, <3>2, FrameOwn
  <2>5. CASE p = q
    <3>1. Cardinality(Adding(p)') = Cardinality(Adding(p)) - 1
      BY <2>3, <2>5, AddingFinite, FS_RemoveElement
    <3>2. jobQueue[p] \in Seq(Jobs) /\ jobQueue'[p] = Append(jobQueue[p], push[t].job)
      BY <1>1, <1>3, <2>5 DEF TypeOK, Types
    <3>3. Len(jobQueue'[p]) = Len(jobQueue[p]) + 1
      BY <1>2, <3>2, AppendProperties
    <3>4. jobCount[p] \in Int /\ Len(jobQueue[p]) \in Nat /\ Cardinality(Adding(p)) \in Nat
      BY <1>1, <3>2, AddingFinite, LenProperties DEF TypeOK, Types
    <3>5. \A u \in Threads : popped[u] \in Nat
      BY <1>1 DEF TypeOK, Types
    <3>6. Len(jobQueue'[p]) + Cardinality(Adding(p)') = Len(jobQueue[p]) + Cardinality(Adding(p))
      BY <3>1, <3>3, <3>4
    <3>7. QED
      BY <1>3, <1>4, <2>1, <2>2, <3>6 DEF Own, Holds
  <2>6. QED  BY <2>4, <2>5
<1>7. QED  BY <1>4, <1>6 DEF IInv

\* Push, last step of the thread that found the count at zero: the queue passes from its
\* hands to the GlobalQueue, or stays with it when it executes the queue at once.
LEMMA AnnounceIInv ==
  ASSUME IInv, TypeOK', NEW t \in Threads, Announce(t)
  PROVE  IInv'
<1>1. TypeOK /\ \A p \in Queues : Own(p)
  BY DEF IInv
<1> DEFINE q == push[t].queue
<1>2. step[t] = "queued" /\ q \in Queues /\ push[t].first
  BY <1>1, PushIsCall DEF Announce, TypeOK, Control
<1>3. UNCHANGED <<jobCount, jobQueue, popped>>
  BY DEF Announce
<1>4. Announces(t, q)
  BY <1>2 DEF Announces
<1>5. /\ ~ Announced(q)
      /\ \A u \in Threads : ~ Executes(u, q)
      /\ \A u \in Threads : Announces(u, q) => u = t
  BY <1>1, <1>2, <1>4 DEF Own, Holds
<1>6. ASSUME NEW p \in Queues PROVE t \notin Adding(p) /\ (Announces(t, p) <=> p = q)
  BY <1>2 DEF Adding, Announces
<1>7. CASE lJobQueue[t] = NoQueue /\ push[t].pushOnly
  <2>1. /\ lJobQueue' = [lJobQueue EXCEPT ![t] = q]
        /\ step' = [step EXCEPT ![t] = "popAll"]
        /\ push' = [push EXCEPT ![t] = NoCall]
        /\ UNCHANGED globalQueue
    BY <1>7 DEF Announce
  <2>2. OnceAnnounced' /\ \A p \in Queues : Announced(p)' <=> Announced(p)
    BY <2>1 DEF IInv, OnceAnnounced, Announced
  <2>3. popped[t] = 0
    BY <1>1, <1>2, <1>7 DEF TypeOK, Control, InJob
  <2>4. ASSUME NEW p \in Queues PROVE Own(p)'
    <3>1. Own(p)
      BY <1>1
    <3>2. /\ \A u \in Threads : Executes(u, p)' <=> (Executes(u, p) \/ (u = t /\ p = q))
          /\ \A u \in Threads : Announces(u, p)' <=> (Announces(u, p) /\ u # t)
          /\ Adding(p)' = Adding(p)
      <4>1. /\ \A u \in Threads : u # t => /\ lJobQueue'[u] = lJobQueue[u]
                                           /\ step'[u] = step[u] /\ push'[u] = push[u]
            /\ lJobQueue'[t] = q /\ step'[t] = "popAll"
        BY <1>1, <2>1 DEF TypeOK, Types
      <4>2. lJobQueue[t] # p
        BY <1>7, JobAssumption
      <4>3. QED  BY <1>2, <4>1, <4>2 DEF Executes, Announces, Adding
    <3>3. CASE p # q
      BY <1>3, <1>6, <2>2, <3>1, <3>2, <3>3, FrameOwn
    <3>4. CASE p = q
      <4>1. \A u \in Threads : Holds(u, p)' <=> u = t
        BY <1>5, <3>2, <3>4 DEF Holds
      <4>2. jobCount[p] > 0
        BY <1>4, <3>1, <3>4 DEF Own, Holds
      <4>3. jobCount[p] = Len(jobQueue[p]) + Cardinality(Adding(p))
        BY <1>5, <3>1, <3>4 DEF Own
      <4>4. jobCount[p] = Len(jobQueue[p]) + Cardinality(Adding(p)) + popped[t]
        <5>1. Len(jobQueue[p]) \in Nat /\ Cardinality(Adding(p)) \in Nat
          BY <1>1, AddingFinite, LenProperties DEF TypeOK, Types
        <5>2. QED  BY <2>3, <4>3, <5>1
      <4>5. /\ \A u \in Threads : Executes(u, p)' <=> u = t
            /\ \A u \in Threads : ~ Announces(u, p)'
        BY <1>5, <3>2, <3>4
      <4>6. QED
        BY <1>3, <1>5, <2>2, <3>2, <3>4, <4>1, <4>2, <4>4, <4>5 DEF Own
    <3>5. QED  BY <3>3, <3>4
  <2>5. QED  BY <2>2, <2>4 DEF IInv
<1>8. CASE ~ (lJobQueue[t] = NoQueue /\ push[t].pushOnly)
  <2>1. /\ globalQueue' = Append(globalQueue, q)
        /\ Return(t)
        /\ UNCHANGED lJobQueue
    BY <1>8 DEF Announce
  <2>2. OnceAnnounced' /\ \A p \in Queues : Announced(p)' <=> (Announced(p) \/ p = q)
    BY <1>1, <1>2, <1>5, <2>1, AnnounceAppend DEF IInv
  <2>3. /\ \A u \in Threads : u # t => push'[u] = push[u] /\ step'[u] = step[u]
        /\ step'[t] \in {"idle", "run"}
    BY <1>1, <2>1, ReturnTypes
  <2>4. ASSUME NEW p \in Queues PROVE Own(p)'
    <3>1. Own(p)
      BY <1>1
    <3>2. /\ \A u \in Threads : Executes(u, p)' <=> Executes(u, p)
          /\ \A u \in Threads : Announces(u, p)' <=> (Announces(u, p) /\ u # t)
          /\ Adding(p)' = Adding(p)
      BY <1>2, <2>1, <2>3 DEF Executes, Announces, Adding
    <3>3. CASE p # q
      BY <1>3, <1>6, <2>2, <3>1, <3>2, <3>3, FrameOwn
    <3>4. CASE p = q
      <4>1. /\ \A u \in Threads : ~ Executes(u, p)' /\ ~ Announces(u, p)'
            /\ \A u \in Threads : ~ Holds(u, p)'
            /\ Announced(p)'
        BY <1>5, <2>2, <3>2, <3>4 DEF Holds
      <4>2. jobCount[p] > 0
        BY <1>4, <3>1, <3>4 DEF Own, Holds
      <4>3. jobCount[p] = Len(jobQueue[p]) + Cardinality(Adding(p))
        BY <1>5, <3>1, <3>4 DEF Own
      <4>4. QED
        BY <1>3, <3>2, <4>1, <4>2, <4>3 DEF Own
    <3>5. QED  BY <3>3, <3>4
  <2>5. QED  BY <2>2, <2>4 DEF IInv
<1>9. QED  BY <1>7, <1>8

\* Execute takes the whole _job_queue: the jobs move from the queue to the batch.
LEMMA PopAllIInv ==
  ASSUME IInv, TypeOK', NEW t \in Threads, PopAll(t)
  PROVE  IInv'
<1>1. TypeOK /\ \A p \in Queues : Own(p)
  BY DEF IInv
<1> DEFINE q == lJobQueue[t]
<1>2. step[t] = "popAll" /\ q \in Queues /\ popped[t] = 0
  BY <1>1 DEF PopAll, TypeOK, Types, Control, InJob
<1>3. /\ UNCHANGED <<jobCount, globalQueue, lJobQueue, push>>
      /\ jobQueue' = [jobQueue EXCEPT ![q] = <<>>]
      /\ popped' = [popped EXCEPT ![t] = Len(jobQueue[q])]
      /\ step' = [step EXCEPT ![t] = "next"]
  BY DEF PopAll
<1>4. OnceAnnounced'
  BY <1>3 DEF IInv, OnceAnnounced
<1>5. ASSUME NEW p \in Queues PROVE Own(p)'
  <2>1. Own(p)
    BY <1>1
  <2>2. /\ \A u \in Threads : Executes(u, p)' <=> Executes(u, p)
        /\ \A u \in Threads : Announces(u, p)' <=> Announces(u, p)
        /\ Announced(p)' <=> Announced(p)
        /\ Adding(p)' = Adding(p)
    BY <1>1, <1>2, <1>3 DEF Executes, Announces, Announced, Adding, TypeOK, Types
  <2>3. CASE p # q
    <3>1. jobQueue'[p] = jobQueue[p] /\ \A u \in Threads : Executes(u, p) => popped'[u] = popped[u]
      BY <1>1, <1>3, <2>3 DEF Executes, TypeOK, Types
    <3>2. QED  BY <1>3, <2>1, <2>2, <3>1, FrameOwn
  <2>4. CASE p = q
    <3>1. Executes(t, p) /\ \A u \in Threads : Executes(u, p) => u = t
      BY <2>1, <2>4 DEF Executes, Own, Holds
    <3>2. popped'[t] = Len(jobQueue[p]) /\ jobQueue'[p] = <<>> /\ Len(<<>>) = 0
      BY <1>1, <1>3, <2>4, EmptySeq DEF TypeOK, Types
    <3>3. Len(jobQueue[p]) \in Nat /\ Cardinality(Adding(p)) \in Nat
      BY <1>1, AddingFinite, LenProperties DEF TypeOK, Types
    <3>4. jobCount[p] = Len(jobQueue[p]) + Cardinality(Adding(p)) + 0
      BY <1>2, <2>1, <3>1 DEF Own
    <3>5. jobCount'[p] = Len(jobQueue'[p]) + Cardinality(Adding(p)') + popped'[t]
      BY <1>3, <2>2, <3>2, <3>3, <3>4
    <3>6. QED
      BY <1>3, <2>1, <2>2, <3>1, <3>5 DEF Own, Holds
  <2>5. QED  BY <2>3, <2>4
<1>6. QED  BY <1>4, <1>5 DEF IInv

\* Execute subtracts the batch from the count, and leaves exactly when nothing is left.
LEMMA SettleIInv ==
  ASSUME IInv, TypeOK', NEW t \in Threads, Settle(t)
  PROVE  IInv'
<1>1. TypeOK /\ \A p \in Queues : Own(p)
  BY DEF IInv
<1> DEFINE q == lJobQueue[t]
<1>2. step[t] = "next" /\ q \in Queues
  BY <1>1 DEF Settle, TypeOK, Types, Control
<1>3. /\ UNCHANGED <<jobQueue, globalQueue, push>>
      /\ jobCount' = [jobCount EXCEPT ![q] = @ - popped[t]]
      /\ popped' = [popped EXCEPT ![t] = 0]
  BY DEF Settle
<1>4. OnceAnnounced'
  BY <1>3 DEF IInv, OnceAnnounced
<1>5. /\ \A u \in Threads : u # t => lJobQueue'[u] = lJobQueue[u] /\ step'[u] = step[u]
      /\ lJobQueue'[t] = IF jobCount[q] = popped[t] THEN NoQueue ELSE q
      /\ step'[t] \in {"idle", "popAll", "yield"}
  BY <1>1 DEF Settle, TypeOK, Types
<1>6. ASSUME NEW p \in Queues PROVE Own(p)'
  <2>1. Own(p)
    BY <1>1
  <2>2. /\ \A u \in Threads : u # t => (Executes(u, p)' <=> Executes(u, p))
        /\ Executes(t, p) <=> p = q
        /\ Executes(t, p)' <=> (p = q /\ jobCount[q] # popped[t])
        /\ \A u \in Threads : Announces(u, p)' <=> Announces(u, p)
        /\ Announced(p)' <=> Announced(p)
        /\ Adding(p)' = Adding(p)
    BY <1>2, <1>3, <1>5, JobAssumption DEF Executes, Announces, Announced, Adding
  <2>3. CASE p # q
    <3>1. jobCount'[p] = jobCount[p] /\ \A u \in Threads : Executes(u, p) => popped'[u] = popped[u]
      BY <1>1, <1>3, <2>2, <2>3 DEF TypeOK, Types
    <3>2. QED  BY <1>3, <2>1, <2>2, <2>3, <3>1, FrameOwn
  <2>4. CASE p = q
    <3>1. /\ Executes(t, p) /\ \A u \in Threads : Holds(u, p) => u = t
          /\ ~ Announces(t, p) /\ ~ Announced(p)
      BY <2>1, <2>2, <2>4 DEF Own, Holds
    <3>2. popped'[t] = 0 /\ jobCount'[p] = jobCount[p] - popped[t]
      BY <1>1, <1>3, <2>4 DEF TypeOK, Types
    <3>3. /\ jobCount[p] \in Int /\ Len(jobQueue[p]) \in Nat /\ Cardinality(Adding(p)) \in Nat
          /\ popped[t] \in Nat
      BY <1>1, AddingFinite, LenProperties DEF TypeOK, Types
    <3>4. jobCount[p] = Len(jobQueue[p]) + Cardinality(Adding(p)) + popped[t]
      BY <2>1, <3>1 DEF Own
    <3>5. jobCount'[p] = Len(jobQueue[p]) + Cardinality(Adding(p))
      BY <3>2, <3>3, <3>4
    <3>6. \A u \in Threads : ~ Announces(u, p)'
      BY <2>2, <3>1 DEF Holds
    <3>7. \A u \in Threads : Executes(u, p)' <=> (u = t /\ jobCount[p] # popped[t])
      BY <2>2, <2>4, <3>1 DEF Holds
    <3>8. CASE jobCount[p] = popped[t]
      <4>1. jobCount'[p] = 0
        BY <3>2, <3>3, <3>8
      <4>2. QED
        BY <1>3, <2>2, <3>1, <3>5, <3>6, <3>7, <3>8, <4>1 DEF Own, Holds
    <3>9. CASE jobCount[p] # popped[t]
      <4>1. jobCount'[p] > 0
        BY <3>2, <3>3, <3>4, <3>9
      <4>2. jobCount'[p] = Len(jobQueue[p]) + Cardinality(Adding(p)) + popped'[t]
        BY <3>2, <3>3, <3>5
      <4>3. QED
        BY <1>3, <2>2, <3>1, <3>6, <3>7, <3>9, <4>1, <4>2 DEF Own, Holds
    <3>10. QED  BY <3>8, <3>9
  <2>5. QED  BY <2>3, <2>4
<1>7. QED  BY <1>4, <1>6 DEF IInv

\* A worker whose slice is over passes the queue it executes back to the GlobalQueue.
LEMMA YieldIInv ==
  ASSUME IInv, TypeOK', NEW t \in Threads, Yield(t)
  PROVE  IInv'
<1>1. TypeOK /\ \A p \in Queues : Own(p)
  BY DEF IInv
<1> DEFINE q == lJobQueue[t]
<1>2. step[t] = "yield" /\ q \in Queues /\ popped[t] = 0
  BY <1>1 DEF Yield, TypeOK, Types, Control, InJob
<1>3. /\ UNCHANGED <<jobCount, jobQueue, popped, push>>
      /\ globalQueue' = Append(globalQueue, q)
  BY DEF Yield
<1>4. /\ \A u \in Threads : u # t => lJobQueue'[u] = lJobQueue[u] /\ step'[u] = step[u]
      /\ lJobQueue'[t] = NoQueue /\ step'[t] = "idle"
  BY <1>1 DEF Yield, TypeOK, Types
<1>5. Executes(t, q) /\ ~ Announced(q) /\ \A u \in Threads : Holds(u, q) => u = t
  BY <1>1, <1>2 DEF Executes, Own, Holds
<1>6. OnceAnnounced' /\ \A p \in Queues : Announced(p)' <=> (Announced(p) \/ p = q)
  BY <1>1, <1>2, <1>3, <1>5, AnnounceAppend DEF IInv
<1>7. ASSUME NEW p \in Queues PROVE Own(p)'
  <2>1. Own(p)
    BY <1>1
  <2>2. /\ \A u \in Threads : Executes(u, p)' <=> (Executes(u, p) /\ u # t)
        /\ Executes(t, p) <=> p = q
        /\ \A u \in Threads : Announces(u, p)' <=> Announces(u, p)
        /\ Adding(p)' = Adding(p)
    BY <1>2, <1>3, <1>4, JobAssumption DEF Executes, Announces, Adding
  <2>3. CASE p # q
    BY <1>3, <1>6, <2>1, <2>2, <2>3, FrameOwn
  <2>4. CASE p = q
    <3>1. \A u \in Threads : ~ Executes(u, p)' /\ ~ Announces(u, p)' /\ ~ Holds(u, p)'
      BY <1>5, <2>1, <2>2, <2>4 DEF Own, Holds
    <3>2. Len(jobQueue[p]) \in Nat /\ Cardinality(Adding(p)) \in Nat
      BY <1>1, AddingFinite, LenProperties DEF TypeOK, Types
    <3>3. jobCount[p] = Len(jobQueue[p]) + Cardinality(Adding(p))
      BY <1>2, <1>5, <2>1, <2>4, <3>2 DEF Own
    <3>4. jobCount[p] > 0
      BY <1>5, <2>1, <2>4 DEF Own, Holds
    <3>5. QED
      BY <1>3, <1>6, <2>2, <2>4, <3>1, <3>3, <3>4 DEF Own
  <2>5. QED  BY <2>3, <2>4
<1>8. QED  BY <1>6, <1>7 DEF IInv

\* FlushGlobalQueue takes a queue out of the GlobalQueue and executes it.
LEMMA FlushPopIInv ==
  ASSUME IInv, TypeOK', NEW t \in Threads, FlushPop(t)
  PROVE  IInv'
<1>1. TypeOK /\ OnceAnnounced /\ \A p \in Queues : Own(p)
  BY DEF IInv
<1> DEFINE q == Head(globalQueue)
<1>2. /\ step[t] = "idle" /\ globalQueue # <<>>
      /\ UNCHANGED <<jobCount, jobQueue, popped, push>>
      /\ globalQueue' = Tail(globalQueue)
  BY DEF FlushPop, At
<1>3. /\ OnceAnnounced' /\ q \in Queues /\ Announced(q)
      /\ \A p \in Queues : Announced(p)' <=> (Announced(p) /\ p # q)
  BY <1>1, <1>2, AnnounceTail
<1>4. lJobQueue[t] = NoQueue /\ popped[t] = 0
  BY <1>1, <1>2 DEF TypeOK, Control, InJob
<1>5. /\ \A u \in Threads : u # t => lJobQueue'[u] = lJobQueue[u] /\ step'[u] = step[u]
      /\ lJobQueue'[t] = q /\ step'[t] = "popAll"
  BY <1>1 DEF FlushPop, TypeOK, Types
<1>6. ASSUME NEW p \in Queues PROVE Own(p)'
  <2>1. Own(p)
    BY <1>1
  <2>2. /\ \A u \in Threads : Executes(u, p)' <=> (Executes(u, p) \/ (u = t /\ p = q))
        /\ \A u \in Threads : Announces(u, p)' <=> Announces(u, p)
        /\ Adding(p)' = Adding(p)
    BY <1>2, <1>4, <1>5, JobAssumption DEF Executes, Announces, Adding
  <2>3. CASE p # q
    BY <1>2, <1>3, <2>1, <2>2, <2>3, FrameOwn
  <2>4. CASE p = q
    <3>1. \A u \in Threads : ~ Executes(u, p) /\ ~ Announces(u, p)
      BY <1>3, <2>1, <2>4 DEF Own, Holds
    <3>2. /\ \A u \in Threads : Executes(u, p)' <=> u = t
          /\ \A u \in Threads : ~ Announces(u, p)'
          /\ ~ Announced(p)'
      BY <1>3, <2>2, <2>4, <3>1
    <3>3. Len(jobQueue[p]) \in Nat /\ Cardinality(Adding(p)) \in Nat
      BY <1>1, AddingFinite, LenProperties DEF TypeOK, Types
    <3>4. jobCount[p] = Len(jobQueue[p]) + Cardinality(Adding(p)) + popped[t]
      BY <1>4, <2>1, <3>1, <3>3 DEF Own
    <3>5. jobCount[p] > 0
      BY <1>3, <2>1, <2>4 DEF Own
    <3>6. QED
      BY <1>2, <2>2, <3>2, <3>4, <3>5 DEF Own, Holds
  <2>5. QED  BY <2>3, <2>4
<1>7. QED  BY <1>3, <1>6 DEF IInv

\* Every step keeps the invariant.
LEMMA NextIInv == IInv /\ [Next]_vars => IInv'
<1> SUFFICES ASSUME IInv, [Next]_vars PROVE IInv'
  OBVIOUS
<1>1. TypeOK /\ TypeOK'
  BY NextTypeOK DEF IInv
<1> USE DEF shared, timer, execution
<1>2. ASSUME NEW t \in Threads, Post(t) \/ JobPush(t) PROVE IInv'
  <2>1. PICK q \in Queues, j \in Jobs : FetchAdd(t, q, j, FALSE)
    BY <1>1, <1>2 DEF Post, JobPush, TypeOK, Types
  <2>2. step[t] \in {"idle", "run"} /\ UNCHANGED <<jobQueue, globalQueue, lJobQueue, popped>>
    BY <1>2 DEF Post, JobPush, At
  <2>3. QED  BY <1>1, <2>1, <2>2, FetchAddIInv
<1>3. ASSUME NEW t \in Threads, PushExpired(t) PROVE IInv'
  <2>1. Head(expired[t]) \in Reservation
    BY <1>1, <1>3, HeadTailProperties DEF PushExpired, TypeOK, Types
  <2>2. Head(expired[t]).queue \in Queues /\ Head(expired[t]).job \in Jobs
    BY <2>1 DEF Reservation
  <2>3. /\ FetchAdd(t, Head(expired[t]).queue, Head(expired[t]).job, TRUE)
        /\ step[t] \in {"idle", "run"} /\ UNCHANGED <<jobQueue, globalQueue, lJobQueue, popped>>
    BY <1>3 DEF PushExpired, At
  <2>4. QED  BY <1>1, <2>2, <2>3, FetchAddIInv
<1>4. ASSUME NEW t \in Threads,
             StartJob(t) \/ FinishJob(t) \/ JobReserve(t) \/ Dispatched(t) \/ BeginDistribute(t)
               \/ EndDistribute(t) \/ FlushEnd(t) \/ SliceEnds(t) \/ TimerExpires \/ UNCHANGED vars
      PROVE  IInv'
  <2>1. UNCHANGED <<jobCount, jobQueue, globalQueue, lJobQueue, popped, push>>
    BY <1>4 DEF StartJob, FinishJob, JobReserve, Dispatched, BeginDistribute, EndDistribute,
                FlushEnd, SliceEnds, TimerExpires, vars
  <2>2. \A u \in Threads :
          step'[u] = step[u] \/ (step[u] \notin {"added", "queued"}
                                  /\ step'[u] \notin {"added", "queued"})
    BY <1>1, <1>4 DEF StartJob, FinishJob, JobReserve, Dispatched, BeginDistribute, EndDistribute,
                FlushEnd, SliceEnds, TimerExpires, vars, TypeOK, Types
  <2>3. QED  BY <1>1, <2>1, <2>2, QuietIInv
<1>5. CASE TimerExpires \/ UNCHANGED vars
  <2>1. UNCHANGED <<jobCount, jobQueue, globalQueue, lJobQueue, popped, push, step>>
    BY <1>5 DEF TimerExpires, vars
  <2>2. QED  BY <1>1, <2>1, QuietIInv
<1>6. ASSUME NEW t \in Threads,
             Post(t) \/ JobPush(t) \/ JobReserve(t) \/ Proceed(t) \/ FlushPop(t) \/ SliceEnds(t)
      PROVE  IInv'
  BY <1>1, <1>2, <1>3, <1>4, <1>6, EnqueueIInv, AnnounceIInv, PopAllIInv, SettleIInv, YieldIInv,
     FlushPopIInv DEF Proceed
<1>7. QED  BY <1>5, <1>6 DEF Next

\* Two threads never execute one queue, and a queue has work exactly when somebody is
\* there to do it: for any threads, queues, jobs and interleaving.
THEOREM Ownership == Spec => []QueuesOwned
<1>1. Spec => []IInv
  BY InitIInv, NextIInv, PTL DEF Spec
<1>2. IInv => QueuesOwned
  BY OwnIsOwnership DEF IInv, QueuesOwned
<1>3. QED  BY <1>1, <1>2, PTL
-----------------------------------------------------------------------------
(* Where a job is: a second inductive invariant                              *)

\* What a sequence has of a kind, and that it has it once.
Has(s, M) == \E i \in DOMAIN s : s[i] \in M
Once(s, M) == \A i, k \in DOMAIN s : s[i] \in M /\ s[k] \in M => i = k

Reserved(j) == {r \in Reservation : r.job = j}

\* The places a job can be at, and those that have it.
Keepers ==
  ({"made", "items", "ran"} \X {NoQueue}) \cup ({"expired", "push", "batch"} \X Threads)
    \cup ({"queue"} \X Queues)
Keeps(h, j) ==
  /\ h[1] = "made" => j \in fresh
  /\ h[1] = "items" => Has(items, Reserved(j))
  /\ h[1] = "expired" => Has(expired[h[2]], Reserved(j))
  /\ h[1] = "push" => step[h[2]] = "added" /\ push[h[2]].job = j
  /\ h[1] = "queue" => Has(jobQueue[h[2]], {j})
  /\ h[1] = "batch" => Has(batch[h[2]], {j})
  /\ h[1] = "ran" => j \in ran

\* Each job has one keeper, which has it once.
Kept(j) ==
  /\ \E h \in Keepers : Keeps(h, j)
  /\ \A g, h \in Keepers : Keeps(g, j) /\ Keeps(h, j) => g = h
Onces(j) ==
  /\ Once(items, Reserved(j))
  /\ \A t \in Threads : Once(expired[t], Reserved(j)) /\ Once(batch[t], {j})
  /\ \A q \in Queues : Once(jobQueue[q], {j})

\* Only a thread that distributes has expired items.
Expiry == \A t \in Threads : stage[t] # "timers" => expired[t] = <<>>

JInv == Expiry /\ \A j \in Jobs : Kept(j) /\ Onces(j)

\* At the end of a sequence.
LEMMA HasAppend ==
  ASSUME NEW S, NEW s \in Seq(S), NEW e \in S, NEW M
  PROVE  /\ Has(Append(s, e), M) <=> Has(s, M) \/ e \in M
         /\ Once(s, M) /\ ~ (Has(s, M) /\ e \in M) => Once(Append(s, e), M)
<1>1. /\ Len(s) \in Nat /\ DOMAIN s = 1 .. Len(s)
      /\ DOMAIN Append(s, e) = 1 .. Len(s) + 1
      /\ \A i \in 1 .. Len(s) : Append(s, e)[i] = s[i]
      /\ Append(s, e)[Len(s) + 1] = e
  BY LenProperties, AppendProperties
<1>2. 1 .. Len(s) + 1 = (1 .. Len(s)) \cup {Len(s) + 1}
  BY <1>1
<1>3. Has(Append(s, e), M) <=> Has(s, M) \/ e \in M
  BY <1>1, <1>2 DEF Has
<1>4. ASSUME Once(s, M), ~ (Has(s, M) /\ e \in M) PROVE Once(Append(s, e), M)
  BY <1>1, <1>2, <1>4 DEF Once, Has
<1> QED BY <1>3, <1>4

\* At its front.
LEMMA HasTail ==
  ASSUME NEW S, NEW s \in Seq(S), s # <<>>, NEW M
  PROVE  /\ Has(s, M) <=> Has(Tail(s), M) \/ Head(s) \in M
         /\ Once(s, M) => Once(Tail(s), M) /\ ~ (Has(Tail(s), M) /\ Head(s) \in M)
<1>1. /\ Len(s) \in Nat \ {0} /\ DOMAIN s = 1 .. Len(s)
      /\ Head(s) = s[1] /\ 1 \in DOMAIN s
      /\ Tail(s) \in Seq(S) /\ Len(Tail(s)) = Len(s) - 1
      /\ \A i \in 1 .. Len(Tail(s)) : Tail(s)[i] = s[i + 1]
  BY LenProperties, EmptySeq, HeadTailProperties
<1>2. DOMAIN Tail(s) = 1 .. Len(s) - 1
  BY <1>1, LenProperties
<1>3. \A i \in DOMAIN Tail(s) : i + 1 \in DOMAIN s /\ i + 1 # 1 /\ Tail(s)[i] = s[i + 1]
  BY <1>1, <1>2
<1>4. \A i \in DOMAIN s : i = 1 \/ (i - 1 \in DOMAIN Tail(s) /\ Tail(s)[i - 1] = s[i])
  BY <1>1, <1>2
<1>5. \A i, k \in DOMAIN Tail(s) : i + 1 = k + 1 => i = k
  BY <1>2
<1>6. Has(s, M) <=> Has(Tail(s), M) \/ Head(s) \in M
  BY <1>1, <1>3, <1>4 DEF Has
<1>7. ASSUME Once(s, M) PROVE Once(Tail(s), M) /\ ~ (Has(Tail(s), M) /\ Head(s) \in M)
  BY <1>1, <1>3, <1>5, <1>7 DEF Has, Once
<1> QED BY <1>6, <1>7

\* In two parts.
LEMMA HasParts ==
  ASSUME NEW S, NEW s \in Seq(S), NEW n \in 0 .. Len(s), NEW M
  PROVE  LET a == SubSeq(s, 1, n)
             b == SubSeq(s, n + 1, Len(s)) IN
         /\ a \in Seq(S) /\ b \in Seq(S) /\ Len(a) = n /\ Len(b) = Len(s) - n
         /\ Has(s, M) <=> Has(a, M) \/ Has(b, M)
         /\ Once(s, M) => Once(a, M) /\ Once(b, M) /\ ~ (Has(a, M) /\ Has(b, M))
<1> DEFINE a == SubSeq(s, 1, n)
           b == SubSeq(s, n + 1, Len(s))
<1>1. Len(s) \in Nat /\ DOMAIN s = 1 .. Len(s) /\ n \in Nat /\ n <= Len(s)
  BY LenProperties
<1>2. a \in Seq(S) /\ Len(a) = n /\ \A i \in 1 .. n : a[i] = s[i]
  BY <1>1, SubSeqProperties
<1>3. b \in Seq(S) /\ Len(b) = Len(s) - n /\ \A i \in 1 .. Len(s) - n : b[i] = s[n + i]
  <2>1. \A i \in n + 1 .. Len(s) : s[i] \in S
    BY <1>1, ElementOfSeq
  <2>2. /\ b \in Seq(S)
        /\ Len(b) = IF n + 1 <= Len(s) THEN Len(s) - (n + 1) + 1 ELSE 0
        /\ \A i \in 1 .. Len(s) - (n + 1) + 1 : b[i] = s[n + 1 + i - 1]
    BY <1>1, <2>1, SubSeqProperties
  <2> HIDE DEF b
  <2>3. (IF n + 1 <= Len(s) THEN Len(s) - (n + 1) + 1 ELSE 0) = Len(s) - n
    <3>1. ASSUME NEW l \in Nat, NEW m \in Nat, m <= l
          PROVE  (IF m + 1 <= l THEN l - (m + 1) + 1 ELSE 0) = l - m
      BY <3>1
    <3> QED BY <3>1, <1>1
  <2>4. Len(s) - (n + 1) + 1 = Len(s) - n /\ \A i \in 1 .. Len(s) - n : n + 1 + i - 1 = n + i
    BY <1>1
  <2> QED BY <2>2, <2>3, <2>4
<1> HIDE DEF a, b
<1>4. DOMAIN a = 1 .. n /\ DOMAIN b = 1 .. Len(s) - n
  BY <1>2, <1>3, LenProperties
<1>5. \A i \in DOMAIN a : i \in DOMAIN s /\ s[i] = a[i] /\ i <= n
  BY <1>1, <1>2, <1>4
<1>6. \A i \in DOMAIN b : n + i \in DOMAIN s /\ s[n + i] = b[i] /\ n + i > n
  BY <1>1, <1>3, <1>4
<1>7. \A i \in DOMAIN s : \/ i \in DOMAIN a /\ s[i] = a[i]
                          \/ i - n \in DOMAIN b /\ s[i] = b[i - n]
  <2>1. \A i \in DOMAIN s : i \in 1 .. n \/ (i - n \in 1 .. Len(s) - n /\ n + (i - n) = i)
    BY <1>1
  <2> QED BY <2>1, <1>2, <1>3, <1>4
<1>8. /\ \A i, k \in DOMAIN b : n + i = n + k => i = k
      /\ \A i \in DOMAIN a, k \in DOMAIN b : i # n + k
  BY <1>1, <1>4
<1>9. Has(s, M) <=> Has(a, M) \/ Has(b, M)
  BY <1>5, <1>6, <1>7 DEF Has
<1>10. ASSUME Once(s, M) PROVE Once(a, M) /\ Once(b, M) /\ ~ (Has(a, M) /\ Has(b, M))
  BY <1>5, <1>6, <1>8, <1>10 DEF Has, Once
<1> QED BY <1>2, <1>3, <1>9, <1>10 DEF a, b

\* Two sequences one after the other.
LEMMA HasConcat ==
  ASSUME NEW S, NEW a \in Seq(S), NEW b \in Seq(S), NEW M
  PROVE  /\ a \o b \in Seq(S)
         /\ Has(a \o b, M) <=> Has(a, M) \/ Has(b, M)
         /\ Once(a, M) /\ Once(b, M) /\ ~ (Has(a, M) /\ Has(b, M)) => Once(a \o b, M)
<1> DEFINE s == a \o b
<1>1. /\ Len(a) \in Nat /\ Len(b) \in Nat /\ s \in Seq(S) /\ Len(s) = Len(a) + Len(b)
      /\ DOMAIN a = 1 .. Len(a) /\ DOMAIN b = 1 .. Len(b)
      /\ \A i \in 1 .. Len(a) + Len(b) : s[i] = IF i <= Len(a) THEN a[i] ELSE b[i - Len(a)]
  BY LenProperties, ConcatProperties
<1>2. DOMAIN s = 1 .. Len(a) + Len(b)
  BY <1>1, LenProperties
<1> HIDE DEF s
<1>3. \A i \in DOMAIN a : i \in DOMAIN s /\ s[i] = a[i]
  BY <1>1, <1>2
<1>4. \A i \in DOMAIN b : Len(a) + i \in DOMAIN s /\ s[Len(a) + i] = b[i]
  BY <1>1, <1>2
<1>5. \A i \in DOMAIN s : \/ i \in DOMAIN a /\ s[i] = a[i]
                          \/ i - Len(a) \in DOMAIN b /\ s[i] = b[i - Len(a)]
  BY <1>1, <1>2
<1>6. \A i, k \in DOMAIN s : i - Len(a) = k - Len(a) => i = k
  BY <1>1, <1>2
<1>7. Has(s, M) <=> Has(a, M) \/ Has(b, M)
  BY <1>3, <1>4, <1>5 DEF Has
<1>8. ASSUME Once(a, M), Once(b, M), ~ (Has(a, M) /\ Has(b, M)) PROVE Once(s, M)
  BY <1>5, <1>6, <1>8 DEF Has, Once
<1> QED BY <1>1, <1>7, <1>8 DEF s

\* An empty sequence.
LEMMA HasNone == ASSUME NEW M PROVE ~ Has(<<>>, M) /\ Once(<<>>, M)
<1>1. DOMAIN <<>> = {}
  BY EmptySeq
<1> QED BY <1>1 DEF Has, Once

\* A sequence of one element.
LEMMA HasOne ==
  ASSUME NEW S, NEW e \in S, NEW M
  PROVE  <<e>> \in Seq(S) /\ (Has(<<e>>, M) <=> e \in M) /\ Once(<<e>>, M)
<1>1. <<e>> \in Seq(S) /\ Len(<<e>>) = 1 /\ DOMAIN <<e>> = 1 .. 1 /\ <<e>>[1] = e
  OBVIOUS
<1> QED BY <1>1 DEF Has, Once

\* At the start all jobs are to be made.
LEMMA InitJInv == Init => JInv
<1> SUFFICES ASSUME Init PROVE JInv
  OBVIOUS
<1>1. /\ items = <<>> /\ fresh = Jobs /\ ran = {}
      /\ \A q \in Queues : jobQueue[q] = <<>>
      /\ \A t \in Threads : expired[t] = <<>> /\ batch[t] = <<>> /\ step[t] = "idle"
  BY DEF Init
<1>2. Expiry
  BY <1>1 DEF Expiry
<1>3. ASSUME NEW j \in Jobs PROVE Kept(j) /\ Onces(j)
  <2>1. Onces(j)
    BY <1>1, HasNone DEF Onces
  <2>2. \A h \in Keepers : Keeps(h, j) => h[1] = "made"
    BY <1>1, <1>3, HasNone DEF Keeps, Keepers
  <2>3. \A h \in Keepers : h[1] = "made" <=> h = <<"made", NoQueue>>
    BY DEF Keepers
  <2>4. <<"made", NoQueue>> \in Keepers /\ Keeps(<<"made", NoQueue>>, j)
    BY <1>1 DEF Keeps, Keepers
  <2> QED BY <2>1, <2>2, <2>3, <2>4 DEF Kept
<1> QED BY <1>2, <1>3 DEF JInv

\* A job moves from one keeper to another, or stays.
LEMMA KeptMoves ==
  ASSUME NEW j \in Jobs, Kept(j), NEW f \in Keepers, NEW g \in Keepers, f # g,
         \A h \in Keepers \ {f, g} : Keeps(h, j)' <=> Keeps(h, j),
         Keeps(f, j)' \/ Keeps(g, j)' <=> Keeps(f, j) \/ Keeps(g, j),
         ~ (Keeps(f, j)' /\ Keeps(g, j)')
  PROVE  Kept(j)'
<1>1. PICK h \in Keepers : Keeps(h, j)
  BY DEF Kept
<1>2. \A k \in Keepers : Keeps(k, j) => k = h
  BY <1>1 DEF Kept
<1>3. Keepers' = Keepers
  BY DEF Keepers
<1>4. CASE h \in {f, g}
  <2>1. \A k \in Keepers \ {f, g} : ~ Keeps(k, j)'
    BY <1>2, <1>4
  <2>2. PICK k \in {f, g} : Keeps(k, j)' /\ \A i \in {f, g} : Keeps(i, j)' => i = k
    BY <1>1, <1>4
  <2>3. \A i \in Keepers : Keeps(i, j)' => i = k
    BY <2>1, <2>2
  <2> QED BY <1>3, <2>2, <2>3 DEF Kept
<1>5. CASE h \notin {f, g}
  <2>1. ~ Keeps(f, j)' /\ ~ Keeps(g, j)'
    BY <1>2, <1>5
  <2>2. \A k \in Keepers : Keeps(k, j)' => k = h
    BY <1>2, <2>1
  <2>3. Keeps(h, j)'
    BY <1>1, <1>5
  <2> QED BY <1>3, <2>2, <2>3 DEF Kept
<1> QED BY <1>4, <1>5

\* Nothing moves.
LEMMA KeptStays ==
  ASSUME NEW j \in Jobs, Kept(j), \A h \in Keepers : Keeps(h, j)' <=> Keeps(h, j)
  PROVE  Kept(j)'
BY DEF Kept, Keepers

\* A posted job comes into Push, from those to be made or from the expired ones.
LEMMA FetchAddJInv ==
  ASSUME TypeOK, JInv, NEW t \in Threads, NEW q \in Queues, NEW i \in Jobs, NEW po \in BOOLEAN,
         FetchAdd(t, q, i, po), step[t] \in {"idle", "run"},
         UNCHANGED <<items, jobQueue, batch, ran, stage>>,
         \/ i \in fresh /\ fresh' = fresh \ {i} /\ UNCHANGED expired
         \/ /\ expired[t] # <<>> /\ Head(expired[t]).job = i /\ stage[t] = "timers"
            /\ expired' = [expired EXCEPT ![t] = Tail(@)]
            /\ UNCHANGED fresh
  PROVE  JInv'
<1>1. /\ push'[t].job = i /\ step'[t] = "added"
      /\ \A u \in Threads : u # t => push'[u] = push[u] /\ step'[u] = step[u]
  <2> DEFINE call == [queue |-> q, job |-> i, pushOnly |-> po, first |-> jobCount[q] = 0]
  <2>1. call.job = i /\ push' = [push EXCEPT ![t] = call]
    BY DEF FetchAdd
  <2> HIDE DEF call
  <2> QED BY <2>1 DEF TypeOK, Types, FetchAdd
<1>2. /\ expired \in [Threads -> Seq(Reservation)]
      /\ expired[t] \in Seq(Reservation)
  BY DEF TypeOK, Types
<1>3. ASSUME NEW j \in Jobs, UNCHANGED expired, fresh' = fresh \ {i}, i \in fresh
      PROVE  Kept(j)' /\ Onces(j)'
  <2> DEFINE f == <<"made", NoQueue>>
             g == <<"push", t>>
  <2>1. f \in Keepers /\ g \in Keepers /\ f # g /\ Kept(j) /\ Onces(j)
    BY DEF JInv, Keepers
  <2>2. \A h \in Keepers \ {f, g} : Keeps(h, j)' <=> Keeps(h, j)
    BY <1>1, <1>3 DEF Keeps, Keepers
  <2>3. /\ Keeps(f, j) <=> j \in fresh
        /\ Keeps(f, j)' <=> j \in fresh /\ j # i
        /\ ~ Keeps(g, j) /\ (Keeps(g, j)' <=> j = i)
    BY <1>1, <1>3 DEF Keeps
  <2> HIDE DEF f, g
  <2>4. Kept(j)'
    BY <1>3, <2>1, <2>2, <2>3, KeptMoves
  <2> QED BY <1>3, <2>1, <2>4 DEF Onces
<1>4. ASSUME NEW j \in Jobs, UNCHANGED fresh, expired[t] # <<>>, Head(expired[t]).job = i,
             expired' = [expired EXCEPT ![t] = Tail(@)]
      PROVE  Kept(j)' /\ Onces(j)'
  <2> DEFINE f == <<"expired", t>>
             g == <<"push", t>>
  <2>1. f \in Keepers /\ g \in Keepers /\ f # g /\ Kept(j) /\ Onces(j)
    BY DEF JInv, Keepers
  <2>2. expired'[t] = Tail(expired[t]) /\ \A u \in Threads : u # t => expired'[u] = expired[u]
    BY <1>2, <1>4
  <2>3. Head(expired[t]) \in Reserved(j) <=> i = j
    <3>1. Head(expired[t]) \in Reservation
      BY <1>2, <1>4, HeadTailProperties
    <3> QED BY <1>4, <3>1 DEF Reserved
  <2>4. /\ Has(expired[t], Reserved(j)) <=> Has(Tail(expired[t]), Reserved(j)) \/ i = j
        /\ Once(expired[t], Reserved(j)) =>
             Once(Tail(expired[t]), Reserved(j)) /\ ~ (Has(Tail(expired[t]), Reserved(j)) /\ i = j)
    <3>1. /\ Has(expired[t], Reserved(j))
               <=> Has(Tail(expired[t]), Reserved(j)) \/ Head(expired[t]) \in Reserved(j)
          /\ Once(expired[t], Reserved(j)) =>
               /\ Once(Tail(expired[t]), Reserved(j))
               /\ ~ (Has(Tail(expired[t]), Reserved(j)) /\ Head(expired[t]) \in Reserved(j))
      BY <1>2, <1>4, HasTail
    <3> QED BY <3>1, <2>3
  <2>5. Once(expired[t], Reserved(j))
    BY <2>1 DEF Onces
  <2>6. \A h \in Keepers \ {f, g} : Keeps(h, j)' <=> Keeps(h, j)
    BY <1>1, <1>4, <2>2 DEF Keeps, Keepers
  <2>7. /\ Keeps(f, j) <=> Has(expired[t], Reserved(j))
        /\ Keeps(f, j)' <=> Has(Tail(expired[t]), Reserved(j))
        /\ ~ Keeps(g, j) /\ (Keeps(g, j)' <=> j = i)
    BY <1>1, <1>4, <2>2 DEF Keeps
  <2>8. Onces(j)'
    BY <2>1, <2>2, <2>4, <2>5 DEF Onces
  <2> HIDE DEF f, g
  <2>9. Kept(j)'
    BY <2>1, <2>4, <2>5, <2>6, <2>7, KeptMoves
  <2> QED BY <2>8, <2>9
<1>5. Expiry'
  BY <1>2 DEF JInv, Expiry
<1> QED BY <1>3, <1>4, <1>5 DEF JInv

\* Push queues its job.
LEMMA EnqueueJInv == ASSUME TypeOK, JInv, NEW t \in Threads, Enqueue(t) PROVE JInv'
<1> USE DEF shared, timer, execution
<1> DEFINE i == push[t].job
<1>1. /\ i \in Jobs /\ push[t].queue \in Queues /\ step[t] = "added"
  BY PushIsCall DEF Enqueue
<1>2. PICK q \in Queues : q = push[t].queue
  BY <1>1
<1>3. /\ jobQueue' = [jobQueue EXCEPT ![q] = Append(@, i)]
      /\ jobQueue \in [Queues -> Seq(Jobs)] /\ jobQueue[q] \in Seq(Jobs)
      /\ UNCHANGED <<items, expired, batch, ran, stage, fresh>>
  BY <1>2 DEF Enqueue, TypeOK, Types
<1>4. /\ step'[t] # "added"
      /\ \A u \in Threads : u # t => push'[u] = push[u] /\ step'[u] = step[u]
  <2>1. CASE push[t].first
    BY <2>1 DEF Enqueue, TypeOK, Types
  <2>2. CASE ~ push[t].first
    <3>1. Return(t)
      BY <2>2 DEF Enqueue
    <3> QED BY <3>1, ReturnTypes
  <2> QED BY <2>1, <2>2
<1> HIDE DEF i
<1>5. ASSUME NEW j \in Jobs PROVE Kept(j)' /\ Onces(j)'
  <2> DEFINE f == <<"push", t>>
             g == <<"queue", q>>
  <2>1. f \in Keepers /\ g \in Keepers /\ f # g /\ Kept(j) /\ Onces(j)
    BY DEF JInv, Keepers
  <2>2. /\ jobQueue'[q] = Append(jobQueue[q], i)
        /\ \A p \in Queues : p # q => jobQueue'[p] = jobQueue[p]
    BY <1>3
  <2>3. /\ Has(Append(jobQueue[q], i), {j}) <=> Has(jobQueue[q], {j}) \/ i = j
        /\ Once(jobQueue[q], {j}) /\ ~ (Has(jobQueue[q], {j}) /\ i = j)
             => Once(Append(jobQueue[q], i), {j})
    <3>1. /\ Has(Append(jobQueue[q], i), {j}) <=> Has(jobQueue[q], {j}) \/ i \in {j}
          /\ Once(jobQueue[q], {j}) /\ ~ (Has(jobQueue[q], {j}) /\ i \in {j})
               => Once(Append(jobQueue[q], i), {j})
      BY <1>1, <1>3, HasAppend
    <3> QED BY <3>1
  <2>4. \A h \in Keepers \ {f, g} : Keeps(h, j)' <=> Keeps(h, j)
    BY <1>3, <1>4, <2>2 DEF Keeps, Keepers
  <2>5. /\ Keeps(f, j) <=> i = j
        /\ ~ Keeps(f, j)'
        /\ Keeps(g, j) <=> Has(jobQueue[q], {j})
        /\ Keeps(g, j)' <=> Has(jobQueue[q], {j}) \/ i = j
    BY <1>1, <1>4, <2>2, <2>3 DEF Keeps, i
  <2>6. ~ (Keeps(f, j) /\ Keeps(g, j))
    BY <2>1 DEF Kept
  <2>7. Onces(j)'
    BY <1>3, <2>1, <2>2, <2>3, <2>5, <2>6 DEF Onces
  <2> HIDE DEF f, g
  <2>8. Kept(j)'
    BY <2>1, <2>4, <2>5, KeptMoves
  <2> QED BY <2>7, <2>8
<1>6. Expiry'
  BY <1>3 DEF JInv, Expiry
<1> QED BY <1>5, <1>6 DEF JInv

\* Execute takes the jobs of the queue into its batch.
LEMMA PopAllJInv == ASSUME TypeOK, JInv, NEW t \in Threads, PopAll(t) PROVE JInv'
<1> USE DEF shared, timer, execution
<1>1. /\ step[t] = "popAll" /\ lJobQueue[t] \in Queues /\ batch[t] = <<>>
  BY DEF PopAll, TypeOK, Types, Control, InJob
<1>2. PICK q \in Queues : q = lJobQueue[t]
  BY <1>1
<1>3. /\ jobQueue' = [jobQueue EXCEPT ![q] = <<>>]
      /\ batch' = [batch EXCEPT ![t] = jobQueue[q]]
      /\ step' = [step EXCEPT ![t] = "next"]
      /\ jobQueue \in [Queues -> Seq(Jobs)] /\ batch \in [Threads -> Seq(Jobs)]
      /\ step \in [Threads -> Steps]
      /\ UNCHANGED <<items, expired, ran, stage, fresh, push>>
  BY <1>2 DEF PopAll, TypeOK, Types, Steps
<1>4. /\ jobQueue'[q] = <<>> /\ \A p \in Queues : p # q => jobQueue'[p] = jobQueue[p]
      /\ batch'[t] = jobQueue[q] /\ \A u \in Threads : u # t => batch'[u] = batch[u]
      /\ \A u \in Threads : u # t => step'[u] = step[u]
      /\ step'[t] = "next"
  BY <1>3
<1>5. ASSUME NEW j \in Jobs PROVE Kept(j)' /\ Onces(j)'
  <2> DEFINE f == <<"queue", q>>
             g == <<"batch", t>>
  <2>1. f \in Keepers /\ g \in Keepers /\ f # g /\ Kept(j) /\ Onces(j)
    BY DEF JInv, Keepers
  <2>2. ~ Has(<<>>, {j}) /\ Once(<<>>, {j})
    BY HasNone
  <2>3. \A h \in Keepers \ {f, g} : Keeps(h, j)' <=> Keeps(h, j)
    BY <1>1, <1>3, <1>4 DEF Keeps, Keepers
  <2>4. /\ Keeps(f, j) <=> Has(jobQueue[q], {j})
        /\ ~ Keeps(f, j)'
        /\ ~ Keeps(g, j)
        /\ Keeps(g, j)' <=> Has(jobQueue[q], {j})
    BY <1>1, <1>4, <2>2 DEF Keeps
  <2>5. Onces(j)'
    BY <1>3, <1>4, <2>1, <2>2 DEF Onces
  <2> HIDE DEF f, g
  <2>6. Kept(j)'
    BY <2>1, <2>3, <2>4, KeptMoves
  <2> QED BY <2>5, <2>6
<1>6. Expiry'
  BY <1>3 DEF JInv, Expiry
<1> QED BY <1>5, <1>6 DEF JInv

\* A job finishes.
LEMMA FinishJobJInv == ASSUME TypeOK, JInv, NEW t \in Threads, FinishJob(t) PROVE JInv'
<1> USE DEF shared, timer, execution
<1> DEFINE i == Head(batch[t])
<1>1. /\ step[t] = "run" /\ batch[t] \in Seq(Jobs) /\ batch[t] # <<>>
  BY DEF FinishJob, TypeOK, Types, Control, InJob
<1>2. i \in Jobs
  BY <1>1, HeadTailProperties
<1>3. /\ batch' = [batch EXCEPT ![t] = Tail(@)] /\ ran' = ran \cup {i}
      /\ step' = [step EXCEPT ![t] = "next"]
      /\ batch \in [Threads -> Seq(Jobs)] /\ step \in [Threads -> Steps]
      /\ UNCHANGED <<items, expired, jobQueue, stage, fresh, push>>
  BY DEF FinishJob, TypeOK, Types, Steps
<1>4. /\ batch'[t] = Tail(batch[t]) /\ \A u \in Threads : u # t => batch'[u] = batch[u]
      /\ \A u \in Threads : u # t => step'[u] = step[u]
      /\ step'[t] = "next"
  BY <1>3
<1> HIDE DEF i
<1>5. ASSUME NEW j \in Jobs PROVE Kept(j)' /\ Onces(j)'
  <2> DEFINE f == <<"batch", t>>
             g == <<"ran", NoQueue>>
  <2>1. f \in Keepers /\ g \in Keepers /\ f # g /\ Kept(j) /\ Onces(j)
    BY DEF JInv, Keepers
  <2>2. /\ Has(batch[t], {j}) <=> Has(Tail(batch[t]), {j}) \/ i = j
        /\ Once(batch[t], {j}) =>
             Once(Tail(batch[t]), {j}) /\ ~ (Has(Tail(batch[t]), {j}) /\ i = j)
    <3>1. /\ Has(batch[t], {j}) <=> Has(Tail(batch[t]), {j}) \/ Head(batch[t]) \in {j}
          /\ Once(batch[t], {j}) =>
               Once(Tail(batch[t]), {j}) /\ ~ (Has(Tail(batch[t]), {j}) /\ Head(batch[t]) \in {j})
      BY <1>1, HasTail
    <3> QED BY <3>1 DEF i
  <2>3. Once(batch[t], {j})
    BY <2>1 DEF Onces
  <2>4. \A h \in Keepers \ {f, g} : Keeps(h, j)' <=> Keeps(h, j)
    BY <1>1, <1>3, <1>4 DEF Keeps, Keepers
  <2>5. /\ Keeps(f, j) <=> Has(batch[t], {j})
        /\ Keeps(f, j)' <=> Has(Tail(batch[t]), {j})
        /\ Keeps(g, j) <=> j \in ran
        /\ Keeps(g, j)' <=> j \in ran \/ j = i
    BY <1>3, <1>4 DEF Keeps
  <2>6. ~ (Keeps(f, j) /\ Keeps(g, j))
    BY <2>1 DEF Kept
  <2>7. Onces(j)'
    BY <1>3, <1>4, <2>1, <2>2, <2>3 DEF Onces
  <2> HIDE DEF f, g
  <2>8. Kept(j)'
    BY <2>1, <2>2, <2>3, <2>4, <2>5, <2>6, KeptMoves
  <2> QED BY <2>7, <2>8
<1>6. Expiry'
  BY <1>3 DEF JInv, Expiry
<1> QED BY <1>5, <1>6 DEF JInv

\* A job is reserved, among the items of the timer.
LEMMA JobReserveJInv == ASSUME TypeOK, JInv, NEW t \in Threads, JobReserve(t) PROVE JInv'
<1> USE DEF shared, timer, execution
<1>1. PICK q \in Queues, i \in fresh, n \in 0 .. Len(items) :
        /\ items' = SubSeq(items, 1, n) \o <<[queue |-> q, job |-> i]>>
                      \o SubSeq(items, n + 1, Len(items))
        /\ fresh' = fresh \ {i}
  BY DEF JobReserve
<1> DEFINE r == [queue |-> q, job |-> i]
           a == SubSeq(items, 1, n)
           b == SubSeq(items, n + 1, Len(items))
<1>2. i \in Jobs /\ r \in Reservation /\ items \in Seq(Reservation)
  BY DEF TypeOK, Types, Reservation
<1>3. UNCHANGED <<expired, jobQueue, batch, ran, stage, step, push>>
  BY DEF JobReserve
<1>4. ASSUME NEW j \in Jobs PROVE r \in Reserved(j) <=> i = j
  BY <1>2 DEF Reserved
<1>5. items' = (a \o <<r>>) \o b
  BY <1>1
<1>6. a \in Seq(Reservation) /\ b \in Seq(Reservation)
  BY <1>2, HasParts
<1> HIDE DEF r, a, b
<1>7. ASSUME NEW j \in Jobs
      PROVE  /\ Has(items', Reserved(j)) <=> Has(items, Reserved(j)) \/ i = j
             /\ Once(items, Reserved(j)) /\ ~ (Has(items, Reserved(j)) /\ i = j)
                  => Once(items', Reserved(j))
  <2> DEFINE M == Reserved(j)
  <2> HIDE DEF M
  <2>1. /\ Has(items, M) <=> Has(a, M) \/ Has(b, M)
        /\ Once(items, M) => Once(a, M) /\ Once(b, M) /\ ~ (Has(a, M) /\ Has(b, M))
    BY <1>2, HasParts DEF a, b
  <2>2. <<r>> \in Seq(Reservation) /\ (Has(<<r>>, M) <=> r \in M) /\ Once(<<r>>, M)
    BY <1>2, HasOne
  <2>3. /\ a \o <<r>> \in Seq(Reservation)
        /\ Has(a \o <<r>>, M) <=> Has(a, M) \/ Has(<<r>>, M)
        /\ Once(a, M) /\ Once(<<r>>, M) /\ ~ (Has(a, M) /\ Has(<<r>>, M)) => Once(a \o <<r>>, M)
    BY <1>6, <2>2, HasConcat
  <2> DEFINE c == a \o <<r>>
  <2> HIDE DEF c
  <2>4. c \in Seq(Reservation)
    BY <2>3 DEF c
  <2>5. /\ Has(c \o b, M) <=> Has(c, M) \/ Has(b, M)
        /\ Once(c, M) /\ Once(b, M) /\ ~ (Has(c, M) /\ Has(b, M)) => Once(c \o b, M)
    BY <1>6, <2>4, HasConcat
  <2>6. items' = c \o b
    BY <1>5 DEF c
  <2>7. r \in M <=> i = j
    BY <1>4 DEF M
  <2>8. /\ Has(items', M) <=> Has(items, M) \/ i = j
        /\ Once(items, M) /\ ~ (Has(items, M) /\ i = j) => Once(items', M)
    BY <2>1, <2>2, <2>3, <2>5, <2>6, <2>7 DEF c
  <2> QED BY <2>8 DEF M
<1>8. ASSUME NEW j \in Jobs PROVE Kept(j)' /\ Onces(j)'
  <2> DEFINE f == <<"made", NoQueue>>
             g == <<"items", NoQueue>>
  <2>1. f \in Keepers /\ g \in Keepers /\ f # g /\ Kept(j) /\ Onces(j)
    BY DEF JInv, Keepers
  <2>2. \A h \in Keepers \ {f, g} : Keeps(h, j)' <=> Keeps(h, j)
    BY <1>3 DEF Keeps, Keepers
  <2>3. Reserved(j)' = Reserved(j)
    BY DEF Reserved
  <2>4. /\ Keeps(f, j) <=> j \in fresh
        /\ Keeps(f, j)' <=> j \in fresh /\ j # i
        /\ Keeps(g, j) <=> Has(items, Reserved(j))
        /\ Keeps(g, j)' <=> Has(items, Reserved(j)) \/ i = j
    BY <1>1, <1>7, <2>3 DEF Keeps
  <2>5. ~ (Keeps(f, j) /\ Keeps(g, j))
    BY <2>1 DEF Kept
  <2>6. Onces(j)'
    BY <1>3, <1>7, <2>1, <2>4, <2>5 DEF Onces
  <2> HIDE DEF f, g
  <2>7. Kept(j)'
    BY <2>1, <2>2, <2>4, <2>5, KeptMoves
  <2> QED BY <2>6, <2>7
<1>9. Expiry'
  BY <1>3 DEF JInv, Expiry
<1> QED BY <1>8, <1>9 DEF JInv

\* The thread that distributes takes the items whose time has come.
LEMMA BeginDistributeJInv ==
  ASSUME TypeOK, JInv, NEW t \in Threads, BeginDistribute(t), ~ distributing
  PROVE  JInv'
<1> USE DEF shared, timer, execution
<1> DEFINE a == SubSeq(items, 1, due)
           b == SubSeq(items, due + 1, Len(items))
<1>1. /\ items' = b /\ expired' = [expired EXCEPT ![t] = a]
      /\ stage' = [stage EXCEPT ![t] = "timers"]
      /\ stage[t] = "distribute"
      /\ UNCHANGED <<jobQueue, batch, ran, fresh, step, push>>
  BY DEF BeginDistribute, At, Goto
<1>2. /\ items \in Seq(Reservation) /\ due \in 0 .. Len(items)
      /\ expired \in [Threads -> Seq(Reservation)]
      /\ stage \in [Threads -> {"dispatch", "distribute", "timers", "flush"}]
  BY DEF TypeOK, Types
<1>3. expired[t] = <<>>
  BY <1>1 DEF JInv, Expiry
<1>4. ASSUME NEW M
      PROVE  /\ Has(items, M) <=> Has(a, M) \/ Has(b, M)
             /\ Once(items, M) => Once(a, M) /\ Once(b, M) /\ ~ (Has(a, M) /\ Has(b, M))
  BY <1>2, HasParts
<1> HIDE DEF a, b
<1>5. expired'[t] = a /\ \A u \in Threads : u # t => expired'[u] = expired[u]
  BY <1>1, <1>2
<1>6. ASSUME NEW j \in Jobs PROVE Kept(j)' /\ Onces(j)'
  <2> DEFINE f == <<"items", NoQueue>>
             g == <<"expired", t>>
  <2>1. f \in Keepers /\ g \in Keepers /\ f # g /\ Kept(j) /\ Onces(j)
    BY DEF JInv, Keepers
  <2>2. \A h \in Keepers \ {f, g} : Keeps(h, j)' <=> Keeps(h, j)
    BY <1>1, <1>5 DEF Keeps, Keepers
  <2>3. ~ Has(<<>>, Reserved(j)) /\ Reserved(j)' = Reserved(j)
    BY HasNone DEF Reserved
  <2>4. /\ Keeps(f, j) <=> Has(items, Reserved(j))
        /\ Keeps(f, j)' <=> Has(b, Reserved(j))
        /\ ~ Keeps(g, j)
        /\ Keeps(g, j)' <=> Has(a, Reserved(j))
    BY <1>1, <1>3, <1>5, <2>3 DEF Keeps
  <2>5. Once(items, Reserved(j))
    BY <2>1 DEF Onces
  <2>6. /\ Has(items, Reserved(j)) <=> Has(a, Reserved(j)) \/ Has(b, Reserved(j))
        /\ Once(a, Reserved(j)) /\ Once(b, Reserved(j))
        /\ ~ (Has(a, Reserved(j)) /\ Has(b, Reserved(j)))
    BY <1>4, <2>5
  <2>7. Onces(j)'
    BY <1>1, <1>5, <2>1, <2>3, <2>6 DEF Onces
  <2> HIDE DEF f, g
  <2>8. Kept(j)'
    BY <2>1, <2>2, <2>4, <2>6, KeptMoves
  <2> QED BY <2>7, <2>8
<1>7. Expiry'
  BY <1>1, <1>2, <1>5 DEF JInv, Expiry
<1> QED BY <1>6, <1>7 DEF JInv

\* Every other step moves no job.
LEMMA QuietJInv ==
  ASSUME JInv, UNCHANGED <<items, expired, jobQueue, batch, ran, fresh>>,
         \A u \in Threads :
           \/ step'[u] = step[u] /\ push'[u] = push[u]
           \/ step[u] # "added" /\ step'[u] # "added",
         \A u \in Threads : stage'[u] # "timers" => stage[u] # "timers" \/ expired[u] = <<>>
  PROVE  JInv'
<1>1. ASSUME NEW j \in Jobs PROVE Kept(j)' /\ Onces(j)'
  <2>1. Kept(j) /\ Onces(j)
    BY DEF JInv
  <2>2. \A h \in Keepers : Keeps(h, j)' <=> Keeps(h, j)
    BY DEF Keeps, Keepers
  <2>3. Kept(j)'
    BY <2>1, <2>2, KeptStays
  <2> QED BY <2>1, <2>3 DEF Onces
<1>2. Expiry'
  BY DEF JInv, Expiry
<1> QED BY <1>1, <1>2 DEF JInv

\* No step loses a job.
LEMMA NextJInv == TypeOK /\ JInv /\ [Next]_vars => JInv'
<1> SUFFICES ASSUME TypeOK, JInv, [Next]_vars PROVE JInv'
  OBVIOUS
<1> USE DEF shared, timer, execution
<1>1. ASSUME NEW t \in Threads, Post(t) \/ JobPush(t) PROVE JInv'
  <2>1. PICK q \in Queues, j \in fresh : FetchAdd(t, q, j, FALSE) /\ fresh' = fresh \ {j}
    BY <1>1 DEF Post, JobPush
  <2>2. j \in Jobs
    BY DEF TypeOK, Types
  <2>3. step[t] \in {"idle", "run"} /\ UNCHANGED <<items, expired, jobQueue, batch, ran, stage>>
    BY <1>1 DEF Post, JobPush, At
  <2> QED BY <2>1, <2>2, <2>3, FetchAddJInv
<1>2. ASSUME NEW t \in Threads, PushExpired(t) PROVE JInv'
  <2>1. Head(expired[t]) \in Reservation
    BY <1>2, HeadTailProperties DEF PushExpired, TypeOK, Types
  <2>2. Head(expired[t]).queue \in Queues /\ Head(expired[t]).job \in Jobs
    BY <2>1 DEF Reservation
  <2>3. /\ FetchAdd(t, Head(expired[t]).queue, Head(expired[t]).job, TRUE)
        /\ step[t] \in {"idle", "run"} /\ UNCHANGED <<items, jobQueue, batch, ran, stage, fresh>>
        /\ expired[t] # <<>> /\ stage[t] = "timers"
        /\ expired' = [expired EXCEPT ![t] = Tail(@)]
    BY <1>2 DEF PushExpired, At
  <2> QED BY <2>2, <2>3, FetchAddJInv
<1>3. ASSUME NEW t \in Threads,
             \/ Announce(t) \/ StartJob(t) \/ Settle(t) \/ Yield(t) \/ Dispatched(t)
             \/ EndDistribute(t) \/ FlushEnd(t) \/ FlushPop(t) \/ SliceEnds(t)
             \/ BeginDistribute(t) /\ distributing
      PROVE  JInv'
  <2>1. UNCHANGED <<items, expired, jobQueue, batch, ran, fresh>>
    BY <1>3 DEF Announce, StartJob, Settle, Yield, Dispatched, EndDistribute, FlushEnd, FlushPop,
                SliceEnds, BeginDistribute
  <2>2. /\ \A u \in Threads : u # t => step'[u] = step[u] /\ push'[u] = push[u]
        /\ \/ step[t] # "added" /\ step'[t] # "added"
           \/ step'[t] = step[t] /\ push'[t] = push[t]
    <3>1. CASE Announce(t)
      <4>1. CASE lJobQueue[t] = NoQueue /\ push[t].pushOnly
        BY <3>1, <4>1 DEF Announce, TypeOK, Types
      <4>2. CASE ~ (lJobQueue[t] = NoQueue /\ push[t].pushOnly)
        <5>1. Return(t) /\ step[t] = "queued"
          BY <3>1, <4>2 DEF Announce
        <5> QED BY <5>1, ReturnTypes
      <4> QED BY <4>1, <4>2
    <3>2. CASE StartJob(t) \/ Settle(t) \/ Yield(t) \/ FlushPop(t)
      BY <3>2 DEF StartJob, Settle, Yield, FlushPop, At, TypeOK, Types
    <3>3. CASE Dispatched(t) \/ EndDistribute(t) \/ FlushEnd(t) \/ SliceEnds(t) \/ BeginDistribute(t)
      BY <3>3 DEF Dispatched, EndDistribute, FlushEnd, SliceEnds, BeginDistribute
    <3> QED BY <1>3, <3>1, <3>2, <3>3
  <2>3. \A u \in Threads : stage'[u] # "timers" => stage[u] # "timers" \/ expired[u] = <<>>
    <3>1. CASE EndDistribute(t)
      BY <3>1 DEF EndDistribute, At, Goto, TypeOK, Types
    <3>2. CASE ~ EndDistribute(t)
      BY <1>3, <3>2 DEF Announce, StartJob, Settle, Yield, Dispatched, FlushEnd, FlushPop, SliceEnds,
                        BeginDistribute, At, Goto, TypeOK, Types
    <3> QED BY <3>1, <3>2
  <2>4. \A u \in Threads :
          \/ step'[u] = step[u] /\ push'[u] = push[u]
          \/ step[u] # "added" /\ step'[u] # "added"
    BY <2>2
  <2> QED BY <2>1, <2>3, <2>4, QuietJInv
<1>4. CASE TimerExpires \/ UNCHANGED vars
  <2>1. UNCHANGED <<items, expired, jobQueue, batch, ran, fresh, step, push, stage>>
    BY <1>4 DEF TimerExpires, vars
  <2> QED BY <2>1, QuietJInv
<1>5. ASSUME NEW t \in Threads,
             Post(t) \/ JobPush(t) \/ JobReserve(t) \/ Proceed(t) \/ FlushPop(t) \/ SliceEnds(t)
      PROVE  JInv'
  BY <1>1, <1>2, <1>3, <1>5, EnqueueJInv, PopAllJInv, FinishJobJInv, JobReserveJInv,
     BeginDistributeJInv DEF Proceed
<1> QED BY <1>4, <1>5 DEF Next

\* The jobs at one kind of place are none or one, and none if no place of the kind has it.
LEMMA SoleThing ==
  ASSUME NEW M, NEW s, Once(s, M)
  PROVE  LET I == {i \in DOMAIN s : s[i] \in M} IN
         /\ I # {} <=> Has(s, M)
         /\ I # {} => \E i \in DOMAIN s : I = {i}
<1> DEFINE I == {i \in DOMAIN s : s[i] \in M}
<1>1. I # {} <=> Has(s, M)
  BY DEF Has
<1>2. ASSUME I # {} PROVE \E i \in DOMAIN s : I = {i}
  <2>1. PICK i \in DOMAIN s : s[i] \in M
    BY <1>2
  <2>2. I = {i}
    BY <2>1 DEF Once
  <2> QED BY <2>2
<1> QED BY <1>1, <1>2

\* A job is in exactly one place on its way: none is lost, dropped or run twice.
THEOREM JobsAreKept == Spec => []NoJobLost
<1>1. ASSUME TypeOK, JInv, NEW j \in Jobs
      PROVE  LET Places ==
                   {<<"made", j>> : x \in {j} \cap fresh}
                     \cup {<<"items", i>> : i \in {k \in DOMAIN items : items[k].job = j}}
                     \cup (UNION {{<<"expired", t, i>> :
                                     i \in {k \in DOMAIN expired[t] : expired[t][k].job = j}}
                                    : t \in Threads})
                     \cup {<<"push", t>> : t \in InPush(j)}
                     \cup (UNION {{<<"queue", q, i>> : i \in Occurrences(jobQueue[q], j)}
                                    : q \in Queues})
                     \cup (UNION {{<<"batch", t, i>> : i \in Occurrences(batch[t], j)}
                                    : t \in Threads})
                     \cup {<<"ran", j>> : x \in {j} \cap ran}
             IN Cardinality(Places) = 1
  <2> DEFINE I(s) == {k \in DOMAIN s : s[k].job = j}
             P1 == {<<"made", j>> : x \in {j} \cap fresh}
             P2 == {<<"items", i>> : i \in I(items)}
             P3 == UNION {{<<"expired", t, i>> : i \in I(expired[t])} : t \in Threads}
             P4 == {<<"push", t>> : t \in InPush(j)}
             P5 == UNION {{<<"queue", q, i>> : i \in Occurrences(jobQueue[q], j)} : q \in Queues}
             P6 == UNION {{<<"batch", t, i>> : i \in Occurrences(batch[t], j)} : t \in Threads}
             P7 == {<<"ran", j>> : x \in {j} \cap ran}
             P == P1 \cup P2 \cup P3 \cup P4 \cup P5 \cup P6 \cup P7
  <2> SUFFICES Cardinality(P) = 1
    OBVIOUS
  <2>1. Kept(j) /\ Onces(j)
    BY <1>1 DEF JInv
  <2>2. PICK h \in Keepers : Keeps(h, j) /\ \A g \in Keepers : Keeps(g, j) => g = h
    BY <2>1 DEF Kept
  <2>3. ASSUME NEW s \in Seq(Reservation), Once(s, Reserved(j))
        PROVE  /\ I(s) # {} <=> Has(s, Reserved(j))
               /\ I(s) # {} => \E i \in DOMAIN s : I(s) = {i}
    <3>1. \A i \in DOMAIN s : s[i] \in Reserved(j) <=> s[i].job = j
      BY ElementOfSeq, LenProperties DEF Reserved
    <3>2. I(s) = {i \in DOMAIN s : s[i] \in Reserved(j)}
      BY <3>1
    <3> QED BY <2>3, <3>2, SoleThing
  <2>4. ASSUME NEW s, Once(s, {j})
        PROVE  /\ Occurrences(s, j) # {} <=> Has(s, {j})
               /\ Occurrences(s, j) # {} => \E i \in DOMAIN s : Occurrences(s, j) = {i}
    <3>1. Occurrences(s, j) = {i \in DOMAIN s : s[i] \in {j}}
      BY DEF Occurrences
    <3> QED BY <2>4, <3>1, SoleThing
  <2>5. /\ items \in Seq(Reservation) /\ Once(items, Reserved(j))
        /\ \A t \in Threads : expired[t] \in Seq(Reservation) /\ Once(expired[t], Reserved(j))
        /\ \A t \in Threads : Once(batch[t], {j})
        /\ \A q \in Queues : Once(jobQueue[q], {j})
    BY <1>1, <2>1 DEF Onces, TypeOK, Types
  <2>6. ASSUME NEW k \in {"made", "items", "ran"}, NEW g \in Keepers, g[1] = k
        PROVE  g = <<k, NoQueue>>
    BY <2>6 DEF Keepers
  <2> HIDE DEF I
  <2>7. (P1 # {} => h[1] = "made") /\ (h[1] = "made" => \E x : P1 = {x})
    <3>1. <<"made", NoQueue>> \in Keepers /\ (Keeps(<<"made", NoQueue>>, j) <=> j \in fresh)
      BY DEF Keepers, Keeps
    <3>2. j \in fresh => P1 = {<<"made", j>>}
      OBVIOUS
    <3>3. P1 # {} => j \in fresh
      OBVIOUS
    <3>4. <<"made", NoQueue>>[1] = "made" /\ (h[1] = "made" => h = <<"made", NoQueue>>)
      BY <2>6
    <3> HIDE DEF P1
    <3> QED BY <2>2, <3>1, <3>2, <3>3, <3>4
  <2>8. (P2 # {} => h[1] = "items") /\ (h[1] = "items" => \E x : P2 = {x})
    <3>1. /\ <<"items", NoQueue>> \in Keepers
          /\ Keeps(<<"items", NoQueue>>, j) <=> Has(items, Reserved(j))
      BY DEF Keepers, Keeps
    <3>2. /\ I(items) # {} <=> Has(items, Reserved(j))
          /\ I(items) # {} => \E i \in DOMAIN items : I(items) = {i}
      BY <2>3, <2>5
    <3>3. ASSUME NEW i, I(items) = {i} PROVE P2 = {<<"items", i>>}
      BY <3>3
    <3>4. P2 # {} => I(items) # {}
      OBVIOUS
    <3>5. <<"items", NoQueue>>[1] = "items" /\ (h[1] = "items" => h = <<"items", NoQueue>>)
      BY <2>6
    <3> HIDE DEF P2
    <3> QED BY <2>2, <3>1, <3>2, <3>3, <3>4, <3>5
  <2>9. (P3 # {} => h[1] = "expired") /\ (h[1] = "expired" => \E x : P3 = {x})
    <3>1. ASSUME NEW t \in Threads
          PROVE  /\ <<"expired", t>> \in Keepers
                 /\ Keeps(<<"expired", t>>, j) <=> Has(expired[t], Reserved(j))
                 /\ I(expired[t]) # {} <=> Has(expired[t], Reserved(j))
                 /\ I(expired[t]) # {} => \E i \in DOMAIN expired[t] : I(expired[t]) = {i}
      <4>1. /\ I(expired[t]) # {} <=> Has(expired[t], Reserved(j))
            /\ I(expired[t]) # {} => \E i \in DOMAIN expired[t] : I(expired[t]) = {i}
        BY <2>3, <2>5
      <4> QED BY <4>1 DEF Keepers, Keeps
    <3>2. ASSUME P3 # {} PROVE h[1] = "expired"
      <4>1. PICK t \in Threads : I(expired[t]) # {}
        BY <3>2
      <4>2. <<"expired", t>> = h
        BY <2>2, <3>1, <4>1
      <4>3. <<"expired", t>>[1] = "expired"
        OBVIOUS
      <4> QED BY <4>2, <4>3
    <3>3. ASSUME h[1] = "expired" PROVE \E x : P3 = {x}
      <4>1. PICK t \in Threads : h = <<"expired", t>>
        BY <3>3 DEF Keepers
      <4>2. PICK i : I(expired[t]) = {i}
        BY <2>2, <3>1, <4>1
      <4>3. ASSUME NEW u \in Threads, u # t PROVE I(expired[u]) = {}
        <5>1. <<"expired", u>> # h
          BY <4>1, <4>3
        <5> QED BY <2>2, <3>1, <5>1
      <4>4. P3 = {<<"expired", t, i>>}
        BY <4>2, <4>3
      <4> QED BY <4>4
    <3> QED BY <3>2, <3>3
  <2>10. (P4 # {} => h[1] = "push") /\ (h[1] = "push" => \E x : P4 = {x})
    <3>1. ASSUME NEW t \in Threads
          PROVE  <<"push", t>> \in Keepers /\ (Keeps(<<"push", t>>, j) <=> t \in InPush(j))
      BY DEF Keepers, Keeps, InPush
    <3>2. ASSUME P4 # {} PROVE h[1] = "push"
      <4>1. PICK t \in Threads : t \in InPush(j)
        BY <3>2 DEF InPush
      <4>2. <<"push", t>> = h
        BY <2>2, <3>1, <4>1
      <4>3. <<"push", t>>[1] = "push"
        OBVIOUS
      <4> QED BY <4>2, <4>3
    <3>3. ASSUME h[1] = "push" PROVE \E x : P4 = {x}
      <4>1. PICK t \in Threads : h = <<"push", t>>
        BY <3>3 DEF Keepers
      <4>2. ASSUME NEW u \in InPush(j) PROVE u = t
        <5>1. u \in Threads
          BY DEF InPush
        <5>2. <<"push", u>> = h
          BY <2>2, <3>1, <5>1
        <5> QED BY <4>1, <5>2
      <4>3. t \in InPush(j)
        BY <2>2, <3>1, <4>1
      <4>4. InPush(j) = {t}
        BY <4>2, <4>3
      <4>5. P4 = {<<"push", t>>}
        BY <4>4
      <4> QED BY <4>5
    <3> QED BY <3>2, <3>3
  <2>11. (P5 # {} => h[1] = "queue") /\ (h[1] = "queue" => \E x : P5 = {x})
    <3>1. ASSUME NEW q \in Queues
          PROVE  /\ <<"queue", q>> \in Keepers
                 /\ Keeps(<<"queue", q>>, j) <=> Has(jobQueue[q], {j})
                 /\ Occurrences(jobQueue[q], j) # {} <=> Has(jobQueue[q], {j})
                 /\ Occurrences(jobQueue[q], j) # {} =>
                      \E i \in DOMAIN jobQueue[q] : Occurrences(jobQueue[q], j) = {i}
      BY <2>4, <2>5 DEF Keepers, Keeps
    <3>2. ASSUME P5 # {} PROVE h[1] = "queue"
      <4>1. PICK q \in Queues : Occurrences(jobQueue[q], j) # {}
        BY <3>2
      <4>2. <<"queue", q>> = h
        BY <2>2, <3>1, <4>1
      <4>3. <<"queue", q>>[1] = "queue"
        OBVIOUS
      <4> QED BY <4>2, <4>3
    <3>3. ASSUME h[1] = "queue" PROVE \E x : P5 = {x}
      <4>1. PICK q \in Queues : h = <<"queue", q>>
        BY <3>3 DEF Keepers
      <4>2. PICK i : Occurrences(jobQueue[q], j) = {i}
        BY <2>2, <3>1, <4>1
      <4>3. ASSUME NEW p \in Queues, p # q PROVE Occurrences(jobQueue[p], j) = {}
        <5>1. <<"queue", p>> # h
          BY <4>1, <4>3
        <5> QED BY <2>2, <3>1, <5>1
      <4>4. P5 = {<<"queue", q, i>>}
        BY <4>2, <4>3
      <4> QED BY <4>4
    <3> QED BY <3>2, <3>3
  <2>12. (P6 # {} => h[1] = "batch") /\ (h[1] = "batch" => \E x : P6 = {x})
    <3>1. ASSUME NEW t \in Threads
          PROVE  /\ <<"batch", t>> \in Keepers
                 /\ Keeps(<<"batch", t>>, j) <=> Has(batch[t], {j})
                 /\ Occurrences(batch[t], j) # {} <=> Has(batch[t], {j})
                 /\ Occurrences(batch[t], j) # {} =>
                      \E i \in DOMAIN batch[t] : Occurrences(batch[t], j) = {i}
      BY <2>4, <2>5 DEF Keepers, Keeps
    <3>2. ASSUME P6 # {} PROVE h[1] = "batch"
      <4>1. PICK t \in Threads : Occurrences(batch[t], j) # {}
        BY <3>2
      <4>2. <<"batch", t>> = h
        BY <2>2, <3>1, <4>1
      <4>3. <<"batch", t>>[1] = "batch"
        OBVIOUS
      <4> QED BY <4>2, <4>3
    <3>3. ASSUME h[1] = "batch" PROVE \E x : P6 = {x}
      <4>1. PICK t \in Threads : h = <<"batch", t>>
        BY <3>3 DEF Keepers
      <4>2. PICK i : Occurrences(batch[t], j) = {i}
        BY <2>2, <3>1, <4>1
      <4>3. ASSUME NEW u \in Threads, u # t PROVE Occurrences(batch[u], j) = {}
        <5>1. <<"batch", u>> # h
          BY <4>1, <4>3
        <5> QED BY <2>2, <3>1, <5>1
      <4>4. P6 = {<<"batch", t, i>>}
        BY <4>2, <4>3
      <4> QED BY <4>4
    <3> QED BY <3>2, <3>3
  <2>13. (P7 # {} => h[1] = "ran") /\ (h[1] = "ran" => \E x : P7 = {x})
    <3>1. <<"ran", NoQueue>> \in Keepers /\ (Keeps(<<"ran", NoQueue>>, j) <=> j \in ran)
      BY DEF Keepers, Keeps
    <3>2. j \in ran => P7 = {<<"ran", j>>}
      OBVIOUS
    <3>3. P7 # {} => j \in ran
      OBVIOUS
    <3>4. <<"ran", NoQueue>>[1] = "ran" /\ (h[1] = "ran" => h = <<"ran", NoQueue>>)
      BY <2>6
    <3> HIDE DEF P7
    <3> QED BY <2>2, <3>1, <3>2, <3>3, <3>4
  <2> HIDE DEF P1, P2, P3, P4, P5, P6, P7
  <2>14. h[1] \in {"made", "items", "expired", "push", "queue", "batch", "ran"}
    BY DEF Keepers
  <2>15. \E x : P = {x}
    BY <2>7, <2>8, <2>9, <2>10, <2>11, <2>12, <2>13, <2>14
  <2> QED BY <2>15, FS_Singleton
<1>2. Spec => [](TypeOK /\ JInv)
  BY InitTypeOK, NextTypeOK, InitJInv, NextJInv, PTL DEF Spec
<1>3. TypeOK /\ JInv => NoJobLost
  BY <1>1 DEF NoJobLost
<1> QED BY <1>2, <1>3, PTL
-----------------------------------------------------------------------------
(* A JobQueue is a serial queue: the refinement of SerialJobs                *)

\* What the outside sees of a queue, by the thread that executes it.
View(q) ==
  /\ (\A t \in Threads : ~ Executes(t, q)) => Waiting(q) = jobQueue[q] /\ Running(q) = {}
  /\ \A t \in Threads :
       Executes(t, q) =>
         /\ Waiting(q) = (IF InJob(t) THEN Tail(batch[t]) ELSE batch[t]) \o jobQueue[q]
         /\ Running(q) = IF InJob(t) THEN {Head(batch[t])} ELSE {}

\* It is a view since one thread at most executes the queue; before a step, and after it.
LEMMA Views == ASSUME IInv, NEW q \in Queues PROVE View(q)
<1>1. CASE \A t \in Threads : ~ Executes(t, q)
  BY <1>1 DEF View, Waiting, Running, Executing
<1>2. ASSUME NEW t \in Threads, Executes(t, q) PROVE View(q)
  <2>1. \A u \in Threads : Executes(u, q) => u = t
    BY <1>2 DEF IInv, Own, Holds
  <2>2. Executing(q) /\ Executor(q) = t
    BY <1>2, <2>1 DEF Executing, Executor
  <2> QED BY <1>2, <2>1, <2>2 DEF View, Waiting, Running
<1> QED BY <1>1, <1>2

\* The same of the next state.
LEMMA NextViews == ASSUME IInv', NEW q \in Queues PROVE View(q)'
<1>1. CASE \A t \in Threads : ~ Executes(t, q)'
  BY <1>1 DEF View, Waiting, Running, Executing
<1>2. ASSUME NEW t \in Threads, Executes(t, q)' PROVE View(q)'
  <2>1. \A u \in Threads : Executes(u, q)' => u = t
    BY <1>2 DEF IInv, Own, Holds
  <2>2. Executing(q)' /\ Executor(q)' = t
    BY <1>2, <2>1 DEF Executing, Executor
  <2> QED BY <1>2, <2>1, <2>2 DEF View, Waiting, Running
<1> QED BY <1>1, <1>2

\* A step that leaves what concerns a queue alone is not seen there.
LEMMA Unseen ==
  ASSUME IInv, IInv', NEW q \in Queues, jobQueue'[q] = jobQueue[q],
         \A u \in Threads : Executes(u, q)' <=> Executes(u, q),
         \A u \in Threads : Executes(u, q) => batch'[u] = batch[u] /\ (InJob(u)' <=> InJob(u))
  PROVE  Waiting(q)' = Waiting(q) /\ Running(q)' = Running(q)
<1>1. View(q) /\ View(q)'
  BY Views, NextViews
<1>2. CASE \A t \in Threads : ~ Executes(t, q)
  <2>1. Waiting(q) = jobQueue[q] /\ Running(q) = {}
    BY <1>1, <1>2 DEF View
  <2>2. \A t \in Threads : ~ Executes(t, q)'
    BY <1>2
  <2>3. Waiting(q)' = jobQueue'[q] /\ Running(q)' = {}
    BY <1>1, <2>2 DEF View
  <2> QED BY <2>1, <2>3
<1>3. ASSUME NEW t \in Threads, Executes(t, q)
      PROVE  Waiting(q)' = Waiting(q) /\ Running(q)' = Running(q)
  <2>1. batch'[t] = batch[t] /\ (InJob(t)' <=> InJob(t)) /\ Executes(t, q)'
    BY <1>3
  <2>2. /\ Waiting(q) = (IF InJob(t) THEN Tail(batch[t]) ELSE batch[t]) \o jobQueue[q]
        /\ Running(q) = IF InJob(t) THEN {Head(batch[t])} ELSE {}
    BY <1>1, <1>3 DEF View
  <2>3. /\ Waiting(q)' = (IF InJob(t)' THEN Tail(batch'[t]) ELSE batch'[t]) \o jobQueue'[q]
        /\ Running(q)' = IF InJob(t)' THEN {Head(batch'[t])} ELSE {}
    BY <1>1, <2>1 DEF View
  <2> QED BY <2>1, <2>2, <2>3
<1> QED BY <1>2, <1>3

W == [q \in Queues |-> Waiting(q)]
R == [q \in Queues |-> Running(q)]

\* A step that is not seen anywhere.
LEMMA Stutter ==
  ASSUME \A q \in Queues : Waiting(q)' = Waiting(q) /\ Running(q)' = Running(q), UNCHANGED ran
  PROVE  UNCHANGED <<W, R, ran>>
BY DEF W, R

\* A step that is seen at one queue.
LEMMA SeenAt ==
  ASSUME NEW q \in Queues,
         \A p \in Queues \ {q} : Waiting(p)' = Waiting(p) /\ Running(p)' = Running(p)
  PROVE  /\ W' = [W EXCEPT ![q] = Waiting(q)'] /\ R' = [R EXCEPT ![q] = Running(q)']
         /\ W[q] = Waiting(q) /\ R[q] = Running(q)
BY DEF W, R

\* At the start nothing waits.
LEMMA InitSerial == Init => Serial!Init
<1> SUFFICES ASSUME Init PROVE Serial!Init
  OBVIOUS
<1>1. \A q \in Queues, t \in Threads : ~ Executes(t, q)
  BY JobAssumption DEF Init, Executes
<1>2. \A q \in Queues : Waiting(q) = <<>> /\ Running(q) = {}
  BY <1>1 DEF Init, Waiting, Running, Executing
<1> QED BY <1>2 DEF Init, Serial!Init

\* A job inside Push is not known to the queues yet.
LEMMA PushedUnknown ==
  ASSUME IInv, JInv, NEW t \in Threads, step[t] = "added", NEW j \in Jobs, push[t].job = j
  PROVE  ~ Serial!Known(j)
<1>1. Kept(j) /\ TypeOK
  BY DEF IInv, JInv
<1>2. <<"push", t>> \in Keepers /\ Keeps(<<"push", t>>, j)
  BY DEF Keepers, Keeps
<1>3. ASSUME NEW h \in Keepers, h[1] # "push" PROVE ~ Keeps(h, j)
  BY <1>1, <1>2, <1>3 DEF Kept
<1>4. j \notin ran
  <2>1. <<"ran", NoQueue>> \in Keepers /\ (Keeps(<<"ran", NoQueue>>, j) <=> j \in ran)
    BY DEF Keepers, Keeps
  <2> QED BY <1>3, <2>1
<1>5. \A q \in Queues : ~ Has(jobQueue[q], {j})
  <2>1. \A q \in Queues : /\ <<"queue", q>> \in Keepers
                          /\ Keeps(<<"queue", q>>, j) <=> Has(jobQueue[q], {j})
    BY DEF Keepers, Keeps
  <2> QED BY <1>3, <2>1
<1>6. \A u \in Threads : ~ Has(batch[u], {j})
  <2>1. \A u \in Threads : /\ <<"batch", u>> \in Keepers
                           /\ Keeps(<<"batch", u>>, j) <=> Has(batch[u], {j})
    BY DEF Keepers, Keeps
  <2> QED BY <1>3, <2>1
<1>7. ASSUME NEW q \in Queues PROVE j \notin Running(q) /\ ~ Has(Waiting(q), {j})
  <2>1. View(q)
    BY Views
  <2>2. CASE \A u \in Threads : ~ Executes(u, q)
    BY <1>5, <2>1, <2>2 DEF View
  <2>3. ASSUME NEW u \in Threads, Executes(u, q)
        PROVE  j \notin Running(q) /\ ~ Has(Waiting(q), {j})
    <3> DEFINE b == IF InJob(u) THEN Tail(batch[u]) ELSE batch[u]
    <3>1. /\ Waiting(q) = b \o jobQueue[q]
          /\ Running(q) = IF InJob(u) THEN {Head(batch[u])} ELSE {}
      BY <2>1, <2>3 DEF View
    <3>2. batch[u] \in Seq(Jobs) /\ jobQueue[q] \in Seq(Jobs) /\ (InJob(u) => batch[u] # <<>>)
      BY <1>1 DEF TypeOK, Types, Control
    <3>3. InJob(u) => Tail(batch[u]) \in Seq(Jobs) /\ ~ Has(Tail(batch[u]), {j})
                        /\ Head(batch[u]) # j
      <4>1. ASSUME batch[u] # <<>>
            PROVE  /\ Tail(batch[u]) \in Seq(Jobs)
                   /\ Has(batch[u], {j}) <=> Has(Tail(batch[u]), {j}) \/ Head(batch[u]) \in {j}
        BY <3>2, <4>1, HasTail, HeadTailProperties
      <4> QED BY <1>6, <3>2, <4>1
    <3>4. b \in Seq(Jobs) /\ ~ Has(b, {j})
      BY <1>6, <3>2, <3>3
    <3> HIDE DEF b
    <3>5. Has(b \o jobQueue[q], {j}) <=> Has(b, {j}) \/ Has(jobQueue[q], {j})
      BY <3>2, <3>4, HasConcat
    <3> QED BY <1>5, <3>1, <3>3, <3>4, <3>5
  <2> QED BY <2>2, <2>3
<1> QED BY <1>4, <1>7 DEF Serial!Known, Has

\* When Push queues a job, it is submitted.
LEMMA EnqueueSubmits ==
  ASSUME IInv, IInv', JInv, NEW t \in Threads, Enqueue(t)
  PROVE  \E q \in Queues, j \in Jobs : Serial!Submit(q, j)
<1> USE DEF shared, timer, execution
<1>1. TypeOK /\ step[t] = "added" /\ push[t].queue \in Queues /\ push[t].job \in Jobs
  BY PushIsCall DEF IInv, Enqueue
<1>2. PICK q \in Queues, j \in Jobs : q = push[t].queue /\ j = push[t].job
  BY <1>1
<1>3. /\ jobQueue' = [jobQueue EXCEPT ![q] = Append(@, j)]
      /\ UNCHANGED <<lJobQueue, batch, ran>>
  BY <1>2 DEF Enqueue
<1>4. /\ jobQueue'[q] = Append(jobQueue[q], j)
      /\ \A p \in Queues : p # q => jobQueue'[p] = jobQueue[p]
  BY <1>1, <1>3 DEF TypeOK, Types
<1>5. /\ \A u \in Threads : u # t => step'[u] = step[u]
      /\ step'[t] = "queued" \/ step'[t] = IF lJobQueue[t] = NoQueue THEN "idle" ELSE "run"
  <2>1. CASE push[t].first
    BY <1>1, <2>1 DEF Enqueue, TypeOK, Types
  <2>2. CASE ~ push[t].first
    <3>1. Return(t)
      BY <2>2 DEF Enqueue
    <3> QED BY <1>1, <3>1, ReturnTypes
  <2> QED BY <2>1, <2>2
<1>6. \A p \in Queues, u \in Threads :
        (Executes(u, p)' <=> Executes(u, p)) /\ (Executes(u, p) => (InJob(u)' <=> InJob(u)))
  BY <1>1, <1>3, <1>5, JobAssumption DEF Executes, InJob
<1>7. \A p \in Queues \ {q} : Waiting(p)' = Waiting(p) /\ Running(p)' = Running(p)
  BY <1>3, <1>4, <1>6, Unseen
<1>8. Waiting(q)' = Append(Waiting(q), j) /\ Running(q)' = Running(q)
  <2>1. View(q) /\ View(q)'
    BY Views, NextViews
  <2>2. CASE \A u \in Threads : ~ Executes(u, q)
    <3>1. Waiting(q) = jobQueue[q] /\ Running(q) = {}
      BY <2>1, <2>2 DEF View
    <3>2. \A u \in Threads : ~ Executes(u, q)'
      BY <1>6, <2>2
    <3>3. Waiting(q)' = jobQueue'[q] /\ Running(q)' = {}
      BY <2>1, <3>2 DEF View
    <3> QED BY <1>4, <3>1, <3>3
  <2>3. ASSUME NEW u \in Threads, Executes(u, q)
        PROVE  Waiting(q)' = Append(Waiting(q), j) /\ Running(q)' = Running(q)
    <3> DEFINE b == IF InJob(u) THEN Tail(batch[u]) ELSE batch[u]
    <3>1. /\ Waiting(q) = b \o jobQueue[q]
          /\ Running(q) = IF InJob(u) THEN {Head(batch[u])} ELSE {}
      BY <2>1, <2>3 DEF View
    <3>2. Executes(u, q)' /\ (InJob(u)' <=> InJob(u))
      BY <1>6, <2>3
    <3>3. /\ Waiting(q)' = (IF InJob(u)' THEN Tail(batch'[u]) ELSE batch'[u]) \o jobQueue'[q]
          /\ Running(q)' = IF InJob(u)' THEN {Head(batch'[u])} ELSE {}
      BY <2>1, <3>2 DEF View
    <3>4. Waiting(q)' = b \o Append(jobQueue[q], j) /\ Running(q)' = Running(q)
      BY <1>3, <1>4, <3>1, <3>2, <3>3
    <3>5. b \in Seq(Jobs) /\ jobQueue[q] \in Seq(Jobs)
      <4>1. batch[u] \in Seq(Jobs) /\ jobQueue[q] \in Seq(Jobs) /\ (InJob(u) => batch[u] # <<>>)
        BY <1>1 DEF TypeOK, Types, Control
      <4>2. batch[u] # <<>> => Tail(batch[u]) \in Seq(Jobs)
        BY <4>1, HeadTailProperties
      <4> QED BY <4>1, <4>2
    <3> HIDE DEF b
    <3>6. b \o Append(jobQueue[q], j) = Append(b \o jobQueue[q], j)
      <4>1. <<j>> \in Seq(Jobs) /\ Append(jobQueue[q], j) = jobQueue[q] \o <<j>>
        BY <3>5, AppendIsConcat
      <4>2. b \o jobQueue[q] \in Seq(Jobs)
        BY <3>5, ConcatProperties
      <4>3. Append(b \o jobQueue[q], j) = (b \o jobQueue[q]) \o <<j>>
        BY <4>2, AppendIsConcat
      <4>4. ASSUME NEW x \in Seq(Jobs), NEW y \in Seq(Jobs), NEW z \in Seq(Jobs)
            PROVE  (x \o y) \o z = x \o (y \o z)
        BY ConcatAssociative
      <4>5. <<j>> \in Seq(Jobs)
        BY <4>1
      <4>6. (b \o jobQueue[q]) \o <<j>> = b \o (jobQueue[q] \o <<j>>)
        BY <3>5, <4>4, <4>5
      <4> QED BY <4>1, <4>3, <4>6
    <3> QED BY <3>1, <3>4, <3>6
  <2> QED BY <2>2, <2>3
<1>9. /\ W' = [W EXCEPT ![q] = Append(@, j)] /\ R' = R
  <2>1. /\ W' = [W EXCEPT ![q] = Waiting(q)'] /\ W[q] = Waiting(q)
    BY <1>7, SeenAt
  <2>2. R' = R
    BY <1>7, <1>8 DEF R
  <2> QED BY <1>8, <2>1, <2>2
<1>10. ~ Serial!Known(j)
  BY <1>1, <1>2, PushedUnknown
<1>11. Serial!Submit(q, j)
  BY <1>3, <1>9, <1>10 DEF Serial!Submit, W, R
<1> QED BY <1>11

\* The front of two sequences, one after the other.
LEMMA ConcatFront ==
  ASSUME NEW S, NEW a \in Seq(S), a # <<>>, NEW b \in Seq(S)
  PROVE  a \o b # <<>> /\ Head(a \o b) = Head(a) /\ Tail(a \o b) = Tail(a) \o b
<1> DEFINE s == a \o b
           c == Tail(a) \o b
<1>1. /\ Len(a) \in Nat \ {0} /\ Len(b) \in Nat /\ s \in Seq(S) /\ Len(s) = Len(a) + Len(b)
      /\ \A i \in 1 .. Len(a) + Len(b) : s[i] = IF i <= Len(a) THEN a[i] ELSE b[i - Len(a)]
  BY LenProperties, EmptySeq, ConcatProperties
<1>2. /\ Head(a) = a[1] /\ Tail(a) \in Seq(S) /\ Len(Tail(a)) = Len(a) - 1
      /\ \A i \in 1 .. Len(a) - 1 : Tail(a)[i] = a[i + 1]
  BY HeadTailProperties
<1>3. /\ c \in Seq(S) /\ Len(c) = Len(Tail(a)) + Len(b)
      /\ \A i \in 1 .. Len(Tail(a)) + Len(b) :
           c[i] = IF i <= Len(Tail(a)) THEN Tail(a)[i] ELSE b[i - Len(Tail(a))]
  BY <1>2, ConcatProperties
<1>4. s # <<>>
  BY <1>1, EmptySeq
<1> HIDE DEF s, c
<1>5. /\ Head(s) = s[1] /\ Tail(s) \in Seq(S) /\ Len(Tail(s)) = Len(s) - 1
      /\ \A i \in 1 .. Len(s) - 1 : Tail(s)[i] = s[i + 1]
  BY <1>1, <1>4, HeadTailProperties
<1>6. Head(s) = Head(a)
  BY <1>1, <1>2, <1>5
<1>7. Len(Tail(s)) = Len(c) /\ Len(c) = Len(a) + Len(b) - 1
  BY <1>1, <1>2, <1>3, <1>5
<1>8. ASSUME NEW i \in 1 .. Len(c) PROVE Tail(s)[i] = c[i]
  <2>1. i \in 1 .. Len(a) + Len(b) - 1
    BY <1>7
  <2>2. Tail(s)[i] = s[i + 1] /\ i + 1 \in 1 .. Len(a) + Len(b)
    BY <1>1, <1>5, <2>1
  <2>3. CASE i + 1 <= Len(a)
    <3>1. s[i + 1] = a[i + 1]
      BY <1>1, <2>2, <2>3
    <3>2. i \in 1 .. Len(a) - 1 /\ i <= Len(Tail(a)) /\ i \in 1 .. Len(Tail(a)) + Len(b)
      BY <1>1, <1>2, <2>1, <2>3
    <3>3. c[i] = Tail(a)[i]
      BY <1>3, <3>2
    <3> QED BY <1>2, <2>2, <3>1, <3>2, <3>3
  <2>4. CASE ~ (i + 1 <= Len(a))
    <3>1. s[i + 1] = b[i + 1 - Len(a)]
      BY <1>1, <2>2, <2>4
    <3>2. ~ (i <= Len(Tail(a))) /\ i \in 1 .. Len(Tail(a)) + Len(b)
          /\ i + 1 - Len(a) = i - Len(Tail(a))
      BY <1>1, <1>2, <2>1, <2>4
    <3>3. c[i] = b[i - Len(Tail(a))]
      BY <1>3, <3>2
    <3> QED BY <2>2, <3>1, <3>2, <3>3
  <2> QED BY <2>3, <2>4
<1>9. Tail(s) = c
  BY <1>3, <1>5, <1>7, <1>8, SeqEqual
<1> QED BY <1>4, <1>6, <1>9 DEF s, c

\* What the outside sees of the queue a thread executes, and of the other ones, while the
\* thread goes on with it.
LEMMA Elsewhere ==
  ASSUME IInv, IInv', NEW t \in Threads, NEW q \in Queues, Executes(t, q),
         UNCHANGED lJobQueue,
         \A u \in Threads : u # t => step'[u] = step[u] /\ batch'[u] = batch[u],
         \A p \in Queues : p # q => jobQueue'[p] = jobQueue[p]
  PROVE  /\ \A p \in Queues \ {q} : Waiting(p)' = Waiting(p) /\ Running(p)' = Running(p)
         /\ Waiting(q) = (IF InJob(t) THEN Tail(batch[t]) ELSE batch[t]) \o jobQueue[q]
         /\ Running(q) = IF InJob(t) THEN {Head(batch[t])} ELSE {}
         /\ Waiting(q)' = (IF InJob(t)' THEN Tail(batch'[t]) ELSE batch'[t]) \o jobQueue'[q]
         /\ Running(q)' = IF InJob(t)' THEN {Head(batch'[t])} ELSE {}
<1>1. \A p \in Queues, u \in Threads :
        /\ Executes(u, p)' <=> Executes(u, p)
        /\ p # q /\ Executes(u, p) => u # t
        /\ u # t => (InJob(u)' <=> InJob(u))
  BY DEF Executes, InJob
<1>2. \A p \in Queues \ {q} : Waiting(p)' = Waiting(p) /\ Running(p)' = Running(p)
  BY <1>1, Unseen
<1>3. View(q) /\ View(q)' /\ Executes(t, q)'
  BY <1>1, Views, NextViews
<1>4. /\ Waiting(q) = (IF InJob(t) THEN Tail(batch[t]) ELSE batch[t]) \o jobQueue[q]
      /\ Running(q) = IF InJob(t) THEN {Head(batch[t])} ELSE {}
  BY <1>3 DEF View
<1>5. /\ Waiting(q)' = (IF InJob(t)' THEN Tail(batch'[t]) ELSE batch'[t]) \o jobQueue'[q]
      /\ Running(q)' = IF InJob(t)' THEN {Head(batch'[t])} ELSE {}
  BY <1>3 DEF View
<1> QED BY <1>2, <1>4, <1>5

\* To take the jobs into a batch is not seen.
LEMMA PopAllUnseen ==
  ASSUME IInv, IInv', NEW t \in Threads, PopAll(t)
  PROVE  UNCHANGED <<W, R, ran>>
<1> USE DEF shared, timer, execution
<1>1. TypeOK /\ step[t] = "popAll" /\ lJobQueue[t] \in Queues /\ batch[t] = <<>>
  BY DEF IInv, PopAll, TypeOK, Types, Control, InJob
<1>2. PICK q \in Queues : q = lJobQueue[t]
  BY <1>1
<1>3. /\ jobQueue'[q] = <<>> /\ \A p \in Queues : p # q => jobQueue'[p] = jobQueue[p]
      /\ batch'[t] = jobQueue[q] /\ step'[t] = "next"
      /\ \A u \in Threads : u # t => step'[u] = step[u] /\ batch'[u] = batch[u]
      /\ UNCHANGED <<lJobQueue, ran>> /\ jobQueue[q] \in Seq(Jobs)
  BY <1>1, <1>2 DEF PopAll, TypeOK, Types
<1>4. Executes(t, q) /\ ~ InJob(t) /\ ~ InJob(t)'
  BY <1>1, <1>2, <1>3 DEF Executes, InJob
<1>5. /\ \A p \in Queues \ {q} : Waiting(p)' = Waiting(p) /\ Running(p)' = Running(p)
      /\ Waiting(q) = batch[t] \o jobQueue[q] /\ Running(q) = {}
      /\ Waiting(q)' = batch'[t] \o jobQueue'[q] /\ Running(q)' = {}
  BY <1>3, <1>4, Elsewhere
<1>6. Waiting(q)' = Waiting(q)
  BY <1>1, <1>3, <1>5, ConcatEmptySeq
<1> QED BY <1>3, <1>5, <1>6, Stutter

\* To start a job is to start the first one that waits.
LEMMA StartJobStarts ==
  ASSUME IInv, IInv', NEW t \in Threads, StartJob(t)
  PROVE  \E q \in Queues : Serial!Start(q)
<1> USE DEF shared, timer, execution
<1>1. TypeOK /\ step[t] = "next" /\ lJobQueue[t] \in Queues /\ batch[t] # <<>>
  BY DEF IInv, StartJob, TypeOK, Types, Control
<1>2. PICK q \in Queues : q = lJobQueue[t]
  BY <1>1
<1>3. /\ step'[t] = "run" /\ \A u \in Threads : u # t => step'[u] = step[u]
      /\ UNCHANGED <<lJobQueue, jobQueue, batch, ran>>
      /\ jobQueue[q] \in Seq(Jobs) /\ batch[t] \in Seq(Jobs)
  BY <1>1 DEF StartJob, TypeOK, Types
<1>4. Executes(t, q) /\ ~ InJob(t) /\ InJob(t)'
  BY <1>1, <1>2, <1>3, JobAssumption DEF Executes, InJob
<1>5. /\ \A p \in Queues \ {q} : Waiting(p)' = Waiting(p) /\ Running(p)' = Running(p)
      /\ Waiting(q) = batch[t] \o jobQueue[q] /\ Running(q) = {}
      /\ Waiting(q)' = Tail(batch[t]) \o jobQueue[q] /\ Running(q)' = {Head(batch[t])}
  BY <1>3, <1>4, Elsewhere
<1>6. /\ Waiting(q) # <<>> /\ Running(q)' = {Head(Waiting(q))} /\ Waiting(q)' = Tail(Waiting(q))
  <2>1. /\ batch[t] \o jobQueue[q] # <<>> /\ Head(batch[t] \o jobQueue[q]) = Head(batch[t])
        /\ Tail(batch[t] \o jobQueue[q]) = Tail(batch[t]) \o jobQueue[q]
    BY <1>1, <1>3, ConcatFront
  <2> QED BY <1>5, <2>1
<1>7. /\ W' = [W EXCEPT ![q] = Waiting(q)'] /\ R' = [R EXCEPT ![q] = Running(q)']
      /\ W[q] = Waiting(q) /\ R[q] = Running(q)
  BY <1>5, SeenAt
<1>8. /\ R[q] = {} /\ W[q] # <<>> /\ R' = [R EXCEPT ![q] = {Head(W[q])}]
      /\ W' = [W EXCEPT ![q] = Tail(W[q])]
  BY <1>5, <1>6, <1>7
<1>9. Serial!Start(q)
  BY <1>3, <1>8 DEF Serial!Start, W, R
<1> QED BY <1>9

\* To finish a job is to finish the one that runs.
LEMMA FinishJobFinishes ==
  ASSUME IInv, IInv', NEW t \in Threads, FinishJob(t)
  PROVE  \E q \in Queues : Serial!Finish(q)
<1> USE DEF shared, timer, execution
<1>1. TypeOK /\ step[t] = "run" /\ lJobQueue[t] \in Queues /\ batch[t] # <<>>
  BY DEF IInv, FinishJob, TypeOK, Types, Control, InJob
<1>2. PICK q \in Queues : q = lJobQueue[t]
  BY <1>1
<1>3. /\ step'[t] = "next" /\ batch'[t] = Tail(batch[t])
      /\ \A u \in Threads : u # t => step'[u] = step[u] /\ batch'[u] = batch[u]
      /\ UNCHANGED <<lJobQueue, jobQueue>> /\ ran' = ran \cup {Head(batch[t])}
  BY <1>1 DEF FinishJob, TypeOK, Types
<1>4. Executes(t, q) /\ InJob(t) /\ ~ InJob(t)'
  BY <1>1, <1>2, <1>3, JobAssumption DEF Executes, InJob
<1>5. /\ \A p \in Queues \ {q} : Waiting(p)' = Waiting(p) /\ Running(p)' = Running(p)
      /\ Waiting(q) = Tail(batch[t]) \o jobQueue[q] /\ Running(q) = {Head(batch[t])}
      /\ Waiting(q)' = Tail(batch[t]) \o jobQueue[q] /\ Running(q)' = {}
  BY <1>3, <1>4, Elsewhere
<1>6. /\ R' = [R EXCEPT ![q] = Running(q)'] /\ R[q] = Running(q)
  BY <1>5, SeenAt
<1>7. W' = W
  BY <1>5 DEF W
<1>8. /\ R[q] # {} /\ R' = [R EXCEPT ![q] = {}] /\ ran' = ran \cup R[q]
  BY <1>3, <1>5, <1>6
<1>9. Serial!Finish(q)
  BY <1>7, <1>8 DEF Serial!Finish, W, R
<1> QED BY <1>9

\* A queue handed on between two batches is not seen: nothing is left of the one, and
\* nothing is taken into the other.
LEMMA HandOver ==
  ASSUME IInv, IInv', NEW t \in Threads, UNCHANGED <<jobQueue, batch, ran>>,
         batch[t] = <<>>, ~ InJob(t), ~ InJob(t)',
         \A u \in Threads : u # t => step'[u] = step[u] /\ lJobQueue'[u] = lJobQueue[u]
  PROVE  UNCHANGED <<W, R, ran>>
<1>1. ASSUME NEW q \in Queues PROVE Waiting(q)' = Waiting(q) /\ Running(q)' = Running(q)
  <2>1. View(q) /\ View(q)' /\ jobQueue[q] \in Seq(Jobs)
    BY Views, NextViews DEF IInv, TypeOK, Types
  <2>2. \A u \in Threads : u # t => /\ Executes(u, q)' <=> Executes(u, q)
                                    /\ InJob(u)' <=> InJob(u)
    BY DEF Executes, InJob
  <2>3. batch[t] \o jobQueue[q] = jobQueue[q]
    BY <2>1, ConcatEmptySeq
  <2>4. CASE \E u \in Threads : u # t /\ Executes(u, q)
    <3>1. PICK u \in Threads : u # t /\ Executes(u, q)
      BY <2>4
    <3>2. Executes(u, q)' /\ (InJob(u)' <=> InJob(u))
      BY <2>2, <3>1
    <3>3. /\ Waiting(q) = (IF InJob(u) THEN Tail(batch[u]) ELSE batch[u]) \o jobQueue[q]
          /\ Running(q) = IF InJob(u) THEN {Head(batch[u])} ELSE {}
      BY <2>1, <3>1 DEF View
    <3>4. /\ Waiting(q)' = (IF InJob(u)' THEN Tail(batch'[u]) ELSE batch'[u]) \o jobQueue'[q]
          /\ Running(q)' = IF InJob(u)' THEN {Head(batch'[u])} ELSE {}
      BY <2>1, <3>2 DEF View
    <3> QED BY <3>2, <3>3, <3>4
  <2>5. CASE \A u \in Threads : u # t => ~ Executes(u, q)
    <3>1. Waiting(q) = jobQueue[q] /\ Running(q) = {}
      <4>1. CASE Executes(t, q)
        BY <2>1, <2>3, <4>1 DEF View
      <4>2. CASE ~ Executes(t, q)
        BY <2>1, <2>5, <4>2 DEF View
      <4> QED BY <4>1, <4>2
    <3>2. \A u \in Threads : u # t => ~ Executes(u, q)'
      BY <2>2, <2>5
    <3>3. Waiting(q)' = jobQueue[q] /\ Running(q)' = {}
      <4>1. CASE Executes(t, q)'
        <5>1. /\ Waiting(q)' = (IF InJob(t)' THEN Tail(batch'[t]) ELSE batch'[t]) \o jobQueue'[q]
              /\ Running(q)' = IF InJob(t)' THEN {Head(batch'[t])} ELSE {}
          BY <2>1, <4>1 DEF View
        <5> QED BY <2>3, <5>1
      <4>2. CASE ~ Executes(t, q)'
        <5>1. Waiting(q)' = jobQueue'[q] /\ Running(q)' = {}
          BY <2>1, <3>2, <4>2 DEF View
        <5> QED BY <5>1
      <4> QED BY <4>1, <4>2
    <3> QED BY <3>1, <3>3
  <2> QED BY <2>4, <2>5
<1> QED BY <1>1, Stutter

\* A step of a thread that neither touches the queues nor begins or ends a job is not seen.
LEMMA Quiet ==
  ASSUME IInv, IInv', UNCHANGED <<lJobQueue, jobQueue, batch, ran>>,
         \A u \in Threads : InJob(u)' <=> InJob(u)
  PROVE  UNCHANGED <<W, R, ran>>
<1>1. ASSUME NEW q \in Queues PROVE Waiting(q)' = Waiting(q) /\ Running(q)' = Running(q)
  <2>1. \A u \in Threads : Executes(u, q)' <=> Executes(u, q)
    BY DEF Executes
  <2> QED BY <2>1, Unseen
<1> QED BY <1>1, Stutter

\* Seen through the mapping, a step of the job system is a step of serial queues or none.
LEMMA NextSerial ==
  ASSUME IInv, IInv', JInv, [Next]_vars
  PROVE  [Serial!Next]_<<W, R, ran>>
<1> USE DEF shared, timer, execution
<1>1. TypeOK
  BY DEF IInv
<1>2. ASSUME NEW t \in Threads, NEW q \in Queues, NEW j \in Jobs, NEW po \in BOOLEAN,
             FetchAdd(t, q, j, po), step[t] = "run" \/ lJobQueue[t] = NoQueue,
             UNCHANGED lJobQueue
      PROVE  \A u \in Threads : InJob(u)' <=> InJob(u)
  <2>1. step'[t] = "added" /\ \A u \in Threads : u # t => step'[u] = step[u]
    BY <1>1, <1>2 DEF FetchAdd, TypeOK, Types
  <2> QED BY <1>2, <2>1 DEF InJob
<1>3. ASSUME NEW t \in Threads, Proceed(t) PROVE [Serial!Next]_<<W, R, ran>>
  <2>1. CASE Enqueue(t)
    BY <2>1, EnqueueSubmits DEF Serial!Next
  <2>2. CASE Announce(t)
    <3>1. step[t] = "queued" /\ UNCHANGED <<jobQueue, batch, ran>>
      BY <2>2 DEF Announce
    <3>2. CASE lJobQueue[t] = NoQueue /\ push[t].pushOnly
      <4>1. /\ lJobQueue' = [lJobQueue EXCEPT ![t] = push[t].queue]
            /\ step' = [step EXCEPT ![t] = "popAll"]
        BY <2>2, <3>2 DEF Announce
      <4>2. /\ step'[t] = "popAll"
            /\ \A u \in Threads : u # t => step'[u] = step[u] /\ lJobQueue'[u] = lJobQueue[u]
        BY <1>1, <4>1 DEF TypeOK, Types
      <4>3. ~ InJob(t) /\ ~ InJob(t)' /\ batch[t] = <<>>
        BY <1>1, <3>1, <3>2, <4>2 DEF InJob, TypeOK, Control
      <4> QED BY <3>1, <4>2, <4>3, HandOver
    <3>3. CASE ~ (lJobQueue[t] = NoQueue /\ push[t].pushOnly)
      <4>1. Return(t) /\ UNCHANGED lJobQueue
        BY <2>2, <3>3 DEF Announce
      <4>2. /\ step'[t] = IF lJobQueue[t] = NoQueue THEN "idle" ELSE "run"
            /\ \A u \in Threads : u # t => step'[u] = step[u]
        BY <1>1, <4>1 DEF Return, TypeOK, Types
      <4>3. \A u \in Threads : InJob(u)' <=> InJob(u)
        BY <3>1, <4>1, <4>2 DEF InJob
      <4> QED BY <3>1, <4>1, <4>3, Quiet
    <3> QED BY <3>2, <3>3
  <2>3. CASE PopAll(t)
    BY <2>3, PopAllUnseen
  <2>4. CASE StartJob(t)
    BY <2>4, StartJobStarts DEF Serial!Next
  <2>5. CASE FinishJob(t)
    BY <2>5, FinishJobFinishes DEF Serial!Next
  <2>6. CASE Settle(t)
    <3>1. step[t] = "next" /\ batch[t] = <<>> /\ UNCHANGED <<jobQueue, batch, ran>>
      BY <2>6 DEF Settle
    <3>2. /\ step'[t] \in {"idle", "popAll", "yield"}
          /\ \A u \in Threads : u # t => step'[u] = step[u] /\ lJobQueue'[u] = lJobQueue[u]
      BY <1>1, <2>6 DEF Settle, TypeOK, Types
    <3>3. ~ InJob(t) /\ ~ InJob(t)'
      BY <3>1, <3>2 DEF InJob
    <3> QED BY <3>1, <3>2, <3>3, HandOver
  <2>7. CASE Yield(t)
    <3>1. step[t] = "yield" /\ UNCHANGED <<jobQueue, batch, ran>>
      BY <2>7 DEF Yield
    <3>2. /\ step'[t] = "idle"
          /\ \A u \in Threads : u # t => step'[u] = step[u] /\ lJobQueue'[u] = lJobQueue[u]
      BY <1>1, <2>7 DEF Yield, TypeOK, Types
    <3>3. ~ InJob(t) /\ ~ InJob(t)' /\ batch[t] = <<>>
      BY <1>1, <3>1, <3>2 DEF InJob, TypeOK, Control
    <3> QED BY <3>1, <3>2, <3>3, HandOver
  <2>8. CASE Dispatched(t) \/ BeginDistribute(t) \/ EndDistribute(t) \/ FlushEnd(t)
    <3>1. UNCHANGED <<step, lJobQueue, jobQueue, batch, ran>>
      BY <2>8 DEF Dispatched, BeginDistribute, EndDistribute, FlushEnd
    <3>2. \A u \in Threads : InJob(u)' <=> InJob(u)
      BY <3>1 DEF InJob
    <3> QED BY <3>1, <3>2, Quiet
  <2>9. CASE PushExpired(t)
    <3>1. /\ step[t] = "idle" /\ expired[t] # <<>> /\ expired[t] \in Seq(Reservation)
          /\ FetchAdd(t, Head(expired[t]).queue, Head(expired[t]).job, TRUE)
          /\ UNCHANGED <<lJobQueue, jobQueue, batch, ran>>
      BY <1>1, <2>9 DEF PushExpired, At, TypeOK, Types
    <3>2. Head(expired[t]) \in Reservation
      BY <3>1, HeadTailProperties
    <3>3. Head(expired[t]).queue \in Queues /\ Head(expired[t]).job \in Jobs
      BY <3>2 DEF Reservation
    <3>4. lJobQueue[t] = NoQueue
      BY <1>1, <3>1 DEF TypeOK, Control
    <3>5. \A u \in Threads : InJob(u)' <=> InJob(u)
      BY <1>2, <3>1, <3>3, <3>4
    <3> QED BY <3>1, <3>5, Quiet
  <2> QED BY <1>3, <2>1, <2>2, <2>3, <2>4, <2>5, <2>6, <2>7, <2>8, <2>9 DEF Proceed
<1>4. ASSUME NEW t \in Threads, Post(t) \/ JobPush(t) PROVE [Serial!Next]_<<W, R, ran>>
  <2>1. PICK q \in Queues, j \in fresh : FetchAdd(t, q, j, FALSE)
    BY <1>4 DEF Post, JobPush
  <2>2. j \in Jobs
    BY <1>1 DEF TypeOK, Types
  <2>3. UNCHANGED <<lJobQueue, jobQueue, batch, ran>>
    BY <1>4 DEF Post, JobPush
  <2>4. step[t] = "run" \/ lJobQueue[t] = NoQueue
    BY <1>1, <1>4 DEF Post, JobPush, At, TypeOK, Control
  <2>5. \A u \in Threads : InJob(u)' <=> InJob(u)
    BY <1>2, <2>1, <2>2, <2>3, <2>4
  <2> QED BY <2>3, <2>5, Quiet
<1>5. ASSUME NEW t \in Threads, FlushPop(t) PROVE [Serial!Next]_<<W, R, ran>>
  <2>1. step[t] = "idle" /\ UNCHANGED <<jobQueue, batch, ran>>
    BY <1>5 DEF FlushPop, At
  <2>2. /\ step'[t] = "popAll"
        /\ \A u \in Threads : u # t => step'[u] = step[u] /\ lJobQueue'[u] = lJobQueue[u]
    BY <1>1, <1>5 DEF FlushPop, TypeOK, Types
  <2>3. ~ InJob(t) /\ ~ InJob(t)' /\ batch[t] = <<>>
    BY <1>1, <2>1, <2>2 DEF InJob, TypeOK, Control
  <2> QED BY <2>1, <2>2, <2>3, HandOver
<1>6. ASSUME \/ \E t \in Threads : JobReserve(t) \/ SliceEnds(t)
             \/ TimerExpires
             \/ UNCHANGED vars
      PROVE  [Serial!Next]_<<W, R, ran>>
  <2>1. UNCHANGED <<step, lJobQueue, jobQueue, batch, ran>>
    BY <1>6 DEF JobReserve, SliceEnds, TimerExpires, vars
  <2>2. \A u \in Threads : InJob(u)' <=> InJob(u)
    BY <2>1 DEF InJob
  <2> QED BY <2>1, <2>2, Quiet
<1> QED BY <1>3, <1>4, <1>5, <1>6 DEF Next

\* The job system implements serial queues: whatever the threads do, each JobQueue starts
\* its jobs in the order they were queued, each once, the next when the last is done.
THEOREM QueuesAreSerial == Spec => IsSerial
<1>1. Init => IInv /\ JInv /\ Serial!Init
  BY InitTypeOK, InitIInv, InitJInv, InitSerial
<1>2. IInv /\ JInv /\ [Next]_vars => IInv' /\ JInv'
  BY NextIInv, NextJInv DEF IInv
<1>3. IInv /\ IInv' /\ JInv /\ [Next]_vars
        => [Serial!Next]_<<[q \in Queues |-> Waiting(q)], [q \in Queues |-> Running(q)], ran>>
  BY NextSerial DEF W, R
<1> QED BY <1>1, <1>2, <1>3, PTL DEF Spec, IsSerial, Serial!Spec
=============================================================================
