----------------------------- MODULE WorldProofs -----------------------------
(***************************************************************************)
(* Proofs about World, for any sessions, characters and cells, and any      *)
(* number of packets.                                                       *)
(***************************************************************************)
EXTENDS World, SequenceTheorems, TLAPS

\* A job that waits in a queue.
Waits(q, do, s) == \E i \in DOMAIN q : q[i].do = do /\ q[i].session = s

\* The session has a player whose progress is to be saved.
Owns(s) == s \in player /\ (state[s] \in {"in", "save"} \/ Waits(dbQueue, "save", s))

\* HandleClientEnter posted the AddPlayer of a session that was gone, or is about to.
Crosses(s) ==
  \/ s \in crossed
  \/ /\ s \in player \ homeless /\ state[s] = "gone"
     /\ dbStep = "add" /\ dbQueue[1].session = s

\* The session has a player on a map, and what the map does to it is accounted for.
Accounted(s) == s \in player \ homeless /\ (Crosses(s) \/ s \in saved \/ Owns(s))

\* The places of a session in its life.
Lives ==
  \A s \in Sessions :
    /\ state[s] = "new" <=> character[s] = None
    /\ state[s] \in {"save", "remove"} => s \in player
    /\ state[s] = "remove" => s \notin homeless /\ (Waits(dbQueue, "save", s) \/ s \in saved)
    /\ s \in saved => state[s] \in {"remove", "gone"}
    /\ s \in crossed => state[s] = "gone"

\* What the jobs are for.
DbJobs ==
  /\ \A i \in DOMAIN dbQueue :
       LET s == dbQueue[i].session IN
       \/ /\ dbQueue[i].do = "enter" /\ character[s] # None
          /\ s \in player => i = 1 /\ dbStep = "add"
       \/ /\ dbQueue[i].do = "save" /\ s \in player \ saved /\ state[s] \in {"remove", "gone"}
  /\ \A i, k \in DOMAIN dbQueue :
       dbQueue[i].do = dbQueue[k].do /\ dbQueue[i].session = dbQueue[k].session => i = k
  /\ dbStep # "load" =>
       /\ dbQueue # <<>> /\ dbQueue[1].do = "enter" /\ pos[dbQueue[1].session] # None
       /\ dbStep = "add" => dbQueue[1].session \in player

InPackets(j) == j.do \in {"move", "revive", "play"} /\ (j.do = "move" => j.cell \in Cells)
InOrder(j) == InPackets(j) \/ j.do \in {"add", "remove"}

MapJobs ==
  /\ \A i \in DOMAIN mapQueue : InOrder(mapQueue[i])
  /\ \A s \in Sessions : (\E i \in DOMAIN mapQueue : mapQueue[i].session = s) => Accounted(s)
  /\ \A s \in Sessions : handling[s] # DoNothing =>
       Accounted(s) /\ handling[s].session = s /\ InPackets(handling[s])
  /\ \A s \in Sessions, x \in Cells : grid[<<s, x>>] > 0 => Accounted(s)
  /\ \A s \in objects \cup (player \ homeless) : Accounted(s)

\* A player that is about to be added is not left behind.
AddsFollowed ==
  \A i \in DOMAIN mapQueue :
    LET s == mapQueue[i].session IN
    mapQueue[i].do = "add" =>
      \/ state[s] \in {"in", "save", "remove"} \/ s \in crossed
      \/ \E j \in DOMAIN mapQueue : i < j /\ mapQueue[j].do = "remove" /\ mapQueue[j].session = s

\* The progress of a character that is not risked and does not stay on the map: a loading
\* session has what the database has; one session at most has a player that is to be saved,
\* and a client that comes back loads when its player was saved; this player has all the
\* progress, and the database has it when there is none.
Sound(c) == c \in Characters \ risked /\ \A s \in Sessions : Crosses(s) => character[s] # c
Playing(s) == state[s] \in {"in", "save"}

\* An enter job of s waits behind the save job of t.
Behind(q, s, t) ==
  \A i \in DOMAIN q : q[i].do = "enter" /\ q[i].session = s =>
    \E j \in DOMAIN q : j < i /\ q[j].do = "save" /\ q[j].session = t

LoadsFresh ==
  dbStep = "set" =>
    \A s \in Sessions : dbQueue[1].session = s => loaded[s] = db[character[s]]

OneOwner ==
  \A c \in Characters, s, t \in Sessions :
    s # t /\ character[s] = c /\ character[t] = c /\ Sound(c) =>
      /\ ~ (Playing(s) /\ Playing(t))
      /\ ~ (Owns(s) /\ Owns(t))
      /\ Playing(s) /\ Owns(t) => Behind(dbQueue, s, t)

OwnerHasAll ==
  \A c \in Characters, s \in Sessions :
    character[s] = c /\ Owns(s) /\ Sound(c) => loaded[s] = earned[c]

DbHasAll ==
  \A c \in Characters :
    Sound(c) /\ (\A s \in Sessions : character[s] = c => ~ Owns(s)) => db[c] = earned[c]

Progress == LoadsFresh /\ OneOwner /\ OwnerHasAll /\ DbHasAll

IInv == /\ TypeOK /\ Lives /\ DbJobs /\ MapJobs /\ MapAgrees /\ GridAgrees /\ NoGhost
        /\ AddsFollowed /\ Progress
-----------------------------------------------------------------------------
(* Queues *)

\* What a queue holds when a job was posted.
LEMMA Appended ==
  ASSUME NEW q \in Seq(Jobs), NEW j \in Jobs
  PROVE  /\ Append(q, j) \in Seq(Jobs) /\ Append(q, j) # <<>>
         /\ DOMAIN q \subseteq Nat /\ Len(q) + 1 \in Nat /\ Len(q) + 1 \notin DOMAIN q
         /\ DOMAIN Append(q, j) = DOMAIN q \cup {Len(q) + 1}
         /\ \A i \in DOMAIN q : Append(q, j)[i] = q[i] /\ i < Len(q) + 1
         /\ Append(q, j)[Len(q) + 1] = j
OBVIOUS

\* What it holds when the first job was taken.
LEMMA Taken ==
  ASSUME NEW q \in Seq(Jobs), q # <<>>
  PROVE  /\ Tail(q) \in Seq(Jobs) /\ 1 \in DOMAIN q /\ q[1] \in Jobs /\ Head(q) = q[1]
         /\ DOMAIN q \subseteq Nat \ {0} /\ DOMAIN Tail(q) \subseteq Nat
         /\ \A i \in DOMAIN Tail(q) : i + 1 \in DOMAIN q /\ i + 1 # 1 /\ Tail(q)[i] = q[i + 1]
         /\ \A i \in DOMAIN q : i # 1 => i - 1 \in DOMAIN Tail(q) /\ Tail(q)[i - 1] = q[i]
OBVIOUS

\* The jobs that wait then.
LEMMA WaitsAppended ==
  ASSUME NEW q \in Seq(Jobs), NEW j \in Jobs, NEW do, NEW s
  PROVE  Waits(Append(q, j), do, s) <=> Waits(q, do, s) \/ (j.do = do /\ j.session = s)
BY Appended DEF Waits

LEMMA WaitsTaken ==
  ASSUME NEW q \in Seq(Jobs), q # <<>>, NEW do, NEW s
  PROVE  /\ Waits(Tail(q), do, s) => Waits(q, do, s)
         /\ Waits(q, do, s) => Waits(Tail(q), do, s) \/ (q[1].do = do /\ q[1].session = s)
<1>1. Waits(Tail(q), do, s) => Waits(q, do, s)
  BY Taken DEF Waits
<1>2. ASSUME Waits(q, do, s), ~ Waits(Tail(q), do, s)
      PROVE  q[1].do = do /\ q[1].session = s
  <2>1. PICK i \in DOMAIN q : q[i].do = do /\ q[i].session = s
    BY <1>2 DEF Waits
  <2>2. i = 1
    BY <2>1, <1>2, Taken DEF Waits
  <2> QED BY <2>1, <2>2
<1> QED BY <1>1, <1>2
-----------------------------------------------------------------------------
(* The first jobs, and who has what *)

USE DEF queues, objectsOfPlayers, map, history

\* A job that can be posted.
LEMMA JobIsJob ==
  ASSUME NEW do \in {"enter", "save", "add", "remove", "move", "revive", "play"},
         NEW s \in Sessions, NEW x \in Cells \cup {None}
  PROVE  /\ Job(do, s, x) \in Jobs
         /\ Job(do, s, x).do = do /\ Job(do, s, x).session = s /\ Job(do, s, x).cell = x
BY DEF Job, Jobs

\* The handler that has nothing to post posts nothing that is a job.
LEMMA NothingIsNoJob == DoNothing \notin Jobs
BY DEF DoNothing, Job, Jobs

\* The elements of a queue are jobs of sessions.
LEMMA QueuedAreJobs ==
  ASSUME NEW q \in Seq(Jobs), NEW i \in DOMAIN q
  PROVE  q[i] \in Jobs /\ q[i].session \in Sessions
<1>1. q[i] \in Jobs
  OBVIOUS
<1> QED BY <1>1 DEF Jobs

\* A client that has not entered has nothing anywhere.
LEMMA Newcomer ==
  ASSUME TypeOK, Lives, DbJobs, NEW s \in Sessions, state[s] = "new"
  PROVE  /\ character[s] = None /\ s \notin player /\ s \notin saved /\ s \notin crossed
         /\ s \notin objects /\ ~ Owns(s) /\ ~ Accounted(s)
         /\ \A i \in DOMAIN dbQueue : dbQueue[i].session # s
<1>1. character[s] = None /\ s \notin player /\ s \notin saved /\ s \notin crossed
      /\ s \notin objects
  BY DEF TypeOK, Lives
<1>2. \A i \in DOMAIN dbQueue : dbQueue[i].session # s
  BY <1>1 DEF DbJobs
<1> QED BY <1>1, <1>2 DEF Owns, Accounted

\* The job HandleClientEnter executes.
LEMMA Entering ==
  ASSUME TypeOK, DbJobs, NEW step, NEW s \in Sessions, DbJob("enter", step, s)
  PROVE  /\ dbQueue # <<>> /\ dbStep = step
         /\ dbQueue[1].do = "enter" /\ dbQueue[1].session = s /\ 1 \in DOMAIN dbQueue
         /\ character[s] \in Characters
         /\ step # "add" =>
              s \notin player /\ ~ Owns(s) /\ ~ Accounted(s) /\ ~ Waits(dbQueue, "save", s)
         /\ step = "add" => s \in player
         /\ \A i \in DOMAIN dbQueue : dbQueue[i].do = "enter" /\ dbQueue[i].session = s => i = 1
<1>1. /\ dbQueue # <<>> /\ dbStep = step
      /\ dbQueue[1].do = "enter" /\ dbQueue[1].session = s /\ 1 \in DOMAIN dbQueue
  BY Taken DEF DbJob, TypeOK
<1>2. character[s] \in Characters
  BY <1>1 DEF DbJobs, TypeOK
<1>3. step # "add" => s \notin player
  BY <1>1 DEF DbJobs
<1>4. step # "add" =>  ~ Owns(s) /\ ~ Accounted(s) /\ ~ Waits(dbQueue, "save", s)
  BY <1>1, <1>3 DEF DbJobs, Owns, Accounted, Waits
<1>5. step = "add" => s \in player
  BY <1>1 DEF DbJobs
<1>6. \A i \in DOMAIN dbQueue : dbQueue[i].do = "enter" /\ dbQueue[i].session = s => i = 1
  BY <1>1 DEF DbJobs
<1> QED BY <1>1, <1>2, <1>3, <1>4, <1>5, <1>6

\* The job SavePlayer executes.
LEMMA Saving ==
  ASSUME TypeOK, DbJobs, NEW s \in Sessions, DbJob("save", "load", s)
  PROVE  /\ dbQueue # <<>> /\ dbStep = "load"
         /\ dbQueue[1].do = "save" /\ dbQueue[1].session = s /\ 1 \in DOMAIN dbQueue
         /\ s \in player /\ s \notin saved /\ state[s] \in {"remove", "gone"}
         /\ character[s] \in Characters /\ Waits(dbQueue, "save", s) /\ Owns(s)
         /\ ~ Waits(Tail(dbQueue), "save", s)
<1>1. /\ dbQueue # <<>> /\ dbStep = "load" /\ dbQueue \in Seq(Jobs)
      /\ dbQueue[1].do = "save" /\ dbQueue[1].session = s /\ 1 \in DOMAIN dbQueue
  BY Taken DEF DbJob, TypeOK
<1>2. s \in player /\ s \notin saved /\ state[s] \in {"remove", "gone"}
  BY <1>1 DEF DbJobs
<1>3. character[s] \in Characters
  BY <1>2 DEF TypeOK
<1>4. Waits(dbQueue, "save", s) /\ Owns(s)
  BY <1>1, <1>2 DEF Waits, Owns
<1>5. ~ Waits(Tail(dbQueue), "save", s)
  <2>1. SUFFICES ASSUME NEW i \in DOMAIN Tail(dbQueue),
                        Tail(dbQueue)[i].do = "save", Tail(dbQueue)[i].session = s
                 PROVE  FALSE
    BY DEF Waits
  <2>2. i + 1 \in DOMAIN dbQueue /\ i + 1 # 1 /\ Tail(dbQueue)[i] = dbQueue[i + 1]
    BY <1>1, Taken
  <2>3. dbQueue[i + 1].do = dbQueue[1].do /\ dbQueue[i + 1].session = dbQueue[1].session
    BY <2>1, <2>2, <1>1
  <2> QED BY <1>1, <2>2, <2>3 DEF DbJobs
<1> QED BY <1>1, <1>2, <1>3, <1>4, <1>5

\* The job the map executes: its player is accounted for.
LEMMA OnTheMap ==
  ASSUME TypeOK, MapJobs, NEW do, NEW s \in Sessions, MapJob(do, s)
  PROVE  /\ mapQueue # <<>> /\ 1 \in DOMAIN mapQueue
         /\ mapQueue[1].do = do /\ mapQueue[1].session = s
         /\ mapQueue' = Tail(mapQueue) /\ mapQueue' \in Seq(Jobs)
         /\ Accounted(s) /\ s \in player /\ s \notin homeless
         /\ character[s] \in Characters /\ pos[s] \in Cells
         /\ do = "move" => Head(mapQueue).cell \in Cells
<1>1. /\ mapQueue # <<>> /\ 1 \in DOMAIN mapQueue /\ mapQueue[1].do = do /\ mapQueue[1].session = s
      /\ mapQueue' = Tail(mapQueue) /\ mapQueue' \in Seq(Jobs) /\ Head(mapQueue) = mapQueue[1]
  BY Taken DEF MapJob, TypeOK
<1>2. Accounted(s)
  BY <1>1 DEF MapJobs
<1>3. s \in player /\ s \notin homeless
  BY <1>2 DEF Accounted
<1>4. character[s] \in Characters /\ pos[s] \in Cells
  BY <1>3 DEF TypeOK
<1>5. do = "move" => Head(mapQueue).cell \in Cells
  BY <1>1 DEF MapJobs, InOrder, InPackets
<1> QED BY <1>1, <1>2, <1>3, <1>4, <1>5
-----------------------------------------------------------------------------
(* What a step does to who has what *)

\* What a step does it does for one session.
StepOf(u) ==
  \/ \E c \in Characters : Enter(u, c)
  \/ \E x \in Cells : Receive(u, "move", x)
  \/ Receive(u, "revive", None) \/ Receive(u, "play", None)
  \/ Post(u) \/ OnDisconnected(u) \/ PostSave(u) \/ PostRemove(u)
  \/ Refuse(u) \/ Load(u) \/ SetPlayer(u) \/ PostAdd(u) \/ SavePlayer(u)
  \/ AddPlayer(u) \/ RemoveObject(u) \/ OnPlayerMove(u) \/ OnRevive(u)
  \/ Update(u) \/ Play(u)

\* A step of the specification is one of a session.
LEMMA NextIsStep == Next => \E u \in Sessions : StepOf(u)
BY DEF Next, StepOf

\* A session that crosses does so for good.
LEMMA CrossesKept ==
  ASSUME TypeOK, Lives, DbJobs, NEW u \in Sessions, StepOf(u), NEW s \in Sessions, Crosses(s)
  PROVE  Crosses(s)'
<1>1. crossed \subseteq crossed'
  BY DEF StepOf, Enter, Receive, Post, OnDisconnected, PostSave, PostRemove, Refuse, Load,
     SetPlayer, PostAdd, SavePlayer, AddPlayer, RemoveObject, OnPlayerMove, OnRevive, Update, Play
<1>2. SUFFICES ASSUME s \in player \ homeless, state[s] = "gone", dbStep = "add",
                      dbQueue[1].session = s
               PROVE  Crosses(s)'
  BY <1>1 DEF Crosses
<1>3. dbQueue \in Seq(Jobs) /\ dbQueue # <<>> /\ 1 \in DOMAIN dbQueue
  BY <1>2, Taken DEF DbJobs, TypeOK
<1>4. CASE PostAdd(u)
  <2>1. u = s
    BY <1>2, <1>4, Entering DEF PostAdd
  <2> QED BY <2>1, <1>2, <1>4 DEF PostAdd, Crosses
<1>5. CASE PostSave(u) \/ \E c \in Characters : Enter(u, c)
  <2>1. \E j \in Jobs : dbQueue' = Append(dbQueue, j)
    BY <1>5, JobIsJob DEF PostSave, Enter
  <2>2. dbQueue'[1] = dbQueue[1]
    BY <2>1, <1>3, Appended
  <2>3. UNCHANGED <<player, homeless, dbStep>> /\ state'[s] = "gone"
    BY <1>5, <1>2 DEF PostSave, Enter, TypeOK
  <2> QED BY <2>2, <2>3, <1>2 DEF Crosses
<1>6. CASE OnDisconnected(u) \/ PostRemove(u)
  <2>1. UNCHANGED <<player, homeless, dbStep, dbQueue>> /\ state'[s] = "gone"
    BY <1>6, <1>2 DEF OnDisconnected, PostRemove, TypeOK
  <2> QED BY <2>1, <1>2 DEF Crosses
<1>7. ~ (Refuse(u) \/ Load(u) \/ SetPlayer(u) \/ SavePlayer(u))
  BY <1>2 DEF Refuse, Load, SetPlayer, SavePlayer, DbJob
<1>8. CASE \/ \E x \in Cells : Receive(u, "move", x)
           \/ Receive(u, "revive", None) \/ Receive(u, "play", None)
           \/ Post(u) \/ AddPlayer(u) \/ RemoveObject(u) \/ OnPlayerMove(u) \/ OnRevive(u)
           \/ Update(u) \/ Play(u)
  <2>1. UNCHANGED <<player, homeless, dbStep, dbQueue, state>>
    BY <1>8 DEF Receive, Post, AddPlayer, RemoveObject, OnPlayerMove, OnRevive, Update, Play
  <2> QED BY <2>1, <1>2 DEF Crosses
<1> QED BY <1>4, <1>5, <1>6, <1>7, <1>8 DEF StepOf

\* A session gets a player only in SetPlayer and gives it up only in SavePlayer.
LEMMA Ownership ==
  ASSUME TypeOK, Lives, DbJobs, MapJobs, NEW u \in Sessions, StepOf(u),
         NEW s \in Sessions
  PROVE  /\ Owns(s)' => Owns(s) \/ (SetPlayer(u) /\ s = u)
         /\ Owns(s) => Owns(s)' \/ (SavePlayer(u) /\ s = u)
         /\ Accounted(s) => Accounted(s)'
<1> DEFINE Goal == /\ Owns(s)' => Owns(s) \/ (SetPlayer(u) /\ s = u)
                   /\ Owns(s) => Owns(s)' \/ (SavePlayer(u) /\ s = u)
                   /\ Accounted(s) => Accounted(s)'
<1>0. dbQueue \in Seq(Jobs) /\ (Crosses(s) => Crosses(s)')
  BY CrossesKept DEF TypeOK
<1>1. ASSUME NEW c \in Characters, Enter(u, c) PROVE Goal
  <2>1. /\ player' = player /\ homeless' = homeless /\ saved' = saved /\ crossed' = crossed
        /\ \A t \in Sessions \ {u} : state'[t] = state[t]
        /\ dbQueue' = Append(dbQueue, Job("enter", u, None))
    BY <1>1 DEF Enter, TypeOK
  <2>2. u \notin player
    BY <1>1, Newcomer DEF Enter
  <2>3. Waits(dbQueue', "save", s) <=> Waits(dbQueue, "save", s)
    BY <2>1, <1>0, JobIsJob, WaitsAppended
  <2> QED BY <1>0, <2>1, <2>2, <2>3 DEF Owns, Accounted
<1>2. CASE OnDisconnected(u)
  <2>1. /\ UNCHANGED <<player, homeless, saved, crossed, dbQueue>>
        /\ \A t \in Sessions \ {u} : state'[t] = state[t]
        /\ state[u] = "in" /\ state'[u] = IF u \in player THEN "save" ELSE "gone"
    BY <1>2 DEF OnDisconnected, TypeOK
  <2> QED BY <1>0, <2>1 DEF Owns, Accounted
<1>3. CASE PostSave(u)
  <2>1. /\ UNCHANGED <<player, homeless, saved, crossed>>
        /\ \A t \in Sessions \ {u} : state'[t] = state[t]
        /\ state[u] = "save" /\ u \in player
        /\ dbQueue' = Append(dbQueue, Job("save", u, None))
    BY <1>3 DEF PostSave, TypeOK, Lives
  <2>2. Waits(dbQueue', "save", s) <=> Waits(dbQueue, "save", s) \/ u = s
    BY <2>1, <1>0, JobIsJob, WaitsAppended
  <2> QED BY <1>0, <2>1, <2>2 DEF Owns, Accounted
<1>4. CASE PostRemove(u)
  <2>1. /\ UNCHANGED <<player, homeless, saved, crossed, dbQueue>>
        /\ \A t \in Sessions \ {u} : state'[t] = state[t]
        /\ state[u] = "remove" /\ state'[u] = "gone"
    BY <1>4 DEF PostRemove, TypeOK
  <2> QED BY <1>0, <2>1 DEF Owns, Accounted
<1>5. CASE Refuse(u)
  <2>1. /\ UNCHANGED <<player, homeless, saved, crossed, state>>
        /\ dbQueue' = Tail(dbQueue)
    BY <1>5 DEF Refuse
  <2>2. Waits(dbQueue', "save", s) <=> Waits(dbQueue, "save", s)
    BY <2>1, <1>0, <1>5, Entering, WaitsTaken DEF Refuse
  <2> QED BY <1>0, <2>1, <2>2 DEF Owns, Accounted
<1>6. CASE SetPlayer(u)
  <2>1. /\ UNCHANGED <<saved, crossed, state, dbQueue>>
        /\ player' = player \cup {u} /\ homeless' \in {homeless, homeless \cup {u}}
    BY <1>6 DEF SetPlayer
  <2>2. ~ Accounted(u)
    BY <1>6, Entering DEF SetPlayer
  <2> QED BY <1>0, <1>6, <2>1, <2>2 DEF Owns, Accounted
<1>7. CASE PostAdd(u)
  <2>1. /\ UNCHANGED <<player, homeless, saved, state>> /\ crossed \subseteq crossed'
        /\ dbQueue' = Tail(dbQueue)
    BY <1>7 DEF PostAdd
  <2>2. Waits(dbQueue', "save", s) <=> Waits(dbQueue, "save", s)
    BY <2>1, <1>0, <1>7, Entering, WaitsTaken DEF PostAdd
  <2> QED BY <1>0, <2>1, <2>2 DEF Owns, Accounted
<1>8. CASE SavePlayer(u)
  <2>1. /\ UNCHANGED <<player, homeless, crossed, state>>
        /\ saved' = saved \cup {u} /\ dbQueue' = Tail(dbQueue)
    BY <1>8 DEF SavePlayer
  <2>2. Waits(dbQueue', "save", s) => Waits(dbQueue, "save", s)
    BY <2>1, <1>0, <1>8, Saving, WaitsTaken DEF SavePlayer
  <2>3. s # u /\ Waits(dbQueue, "save", s) => Waits(dbQueue', "save", s)
    BY <2>1, <1>0, <1>8, Saving, WaitsTaken DEF SavePlayer
  <2> QED BY <1>0, <1>8, <2>1, <2>2, <2>3 DEF Owns, Accounted
<1>9. ASSUME UNCHANGED <<player, homeless, saved, crossed, state, dbQueue>> PROVE Goal
  BY <1>0, <1>9 DEF Owns, Accounted
<1>10. CASE \/ \E x \in Cells : Receive(u, "move", x)
            \/ Receive(u, "revive", None) \/ Receive(u, "play", None)
            \/ Post(u) \/ Load(u)
            \/ AddPlayer(u) \/ RemoveObject(u) \/ OnPlayerMove(u) \/ OnRevive(u)
            \/ Update(u) \/ Play(u)
  BY <1>9, <1>10 DEF Receive, Post, Load, AddPlayer, RemoveObject, OnPlayerMove, OnRevive,
     Update, Play
<1> QED BY <1>1, <1>2, <1>3, <1>4, <1>5, <1>6, <1>7, <1>8, <1>10 DEF StepOf
-----------------------------------------------------------------------------
(* Types *)

\* A step keeps the types.
LEMMA TypeOKKept ==
  ASSUME TypeOK, Lives, DbJobs, MapJobs, NEW u \in Sessions, StepOf(u)
  PROVE  TypeOK'
<1> USE DEF TypeOK
<1>0. /\ None \notin Characters /\ None \notin Cells /\ Origin \in Cells /\ Home \in Cells
      /\ MaxPackets \in Nat
  BY WorldAssumption
<1>1. ASSUME NEW c \in Characters, Enter(u, c) PROVE TypeOK'
  <2>1. dbQueue' \in Seq(Jobs)
    BY <1>1, JobIsJob, Appended DEF Enter
  <2>2. u \notin player
    BY <1>1, Newcomer DEF Enter
  <2> QED BY <1>1, <2>1, <2>2, <1>0 DEF Enter
<1>2. ASSUME NEW do \in {"move", "revive", "play"}, NEW x \in Cells \cup {None}, Receive(u, do, x)
      PROVE  TypeOK'
  <2>1. Job(do, u, x) \in Jobs
    BY JobIsJob
  <2>2. handling' \in [Sessions -> Jobs \cup {DoNothing}] /\ packets' \in 0 .. MaxPackets
    BY <2>1, <1>2, <1>0 DEF Receive
  <2> QED BY <1>2, <2>2 DEF Receive
<1>3. CASE Post(u)
  <2>1. handling[u] \in Jobs
    BY <1>3 DEF Post
  <2>2. mapQueue' \in Seq(Jobs)
    BY <1>3, <2>1, Appended DEF Post
  <2>3. handling' \in [Sessions -> Jobs \cup {DoNothing}]
    BY <1>3 DEF Post
  <2> QED BY <1>3, <2>2, <2>3 DEF Post
<1>4. CASE OnDisconnected(u)
  BY <1>4 DEF OnDisconnected
<1>5. CASE PostSave(u)
  <2>1. dbQueue' \in Seq(Jobs)
    BY <1>5, JobIsJob, Appended DEF PostSave
  <2> QED BY <1>5, <2>1 DEF PostSave
<1>6. CASE PostRemove(u)
  <2>1. mapQueue' \in Seq(Jobs)
    BY <1>6, JobIsJob, Appended DEF PostRemove
  <2> QED BY <1>6, <2>1 DEF PostRemove
<1>7. CASE Refuse(u)
  <2>1. dbQueue' \in Seq(Jobs)
    BY <1>7, Entering, Taken DEF Refuse
  <2> QED BY <1>7, <2>1 DEF Refuse
<1>8. CASE Load(u)
  <2>1. character[u] \in Characters /\ u \notin player
    BY <1>8, Entering DEF Load
  <2>2. loaded' \in [Sessions -> Nat] /\ pos' \in [Sessions -> Cells \cup {None}]
    BY <1>8, <2>1, <1>0 DEF Load, TryLoadFromDb
  <2>3. \A s \in player : pos'[s] = pos[s]
    BY <1>8, <2>1 DEF Load, TryLoadFromDb
  <2> QED BY <1>8, <2>2, <2>3 DEF Load
<1>9. CASE SetPlayer(u)
  <2>1. character[u] \in Characters /\ pos[u] # None
    BY <1>9, Entering DEF SetPlayer, DbJobs
  <2> QED BY <1>9, <2>1, <1>0 DEF SetPlayer
<1>10. CASE PostAdd(u)
  <2>1. dbQueue' \in Seq(Jobs)
    BY <1>10, Entering, Taken DEF PostAdd
  <2>2. mapQueue' \in Seq(Jobs)
    <3>1. mapQueue' = mapQueue \/ mapQueue' = Append(mapQueue, Job("add", u, None))
      BY <1>10 DEF PostAdd
    <3>2. Job("add", u, None) \in Jobs
      BY JobIsJob
    <3>3. Append(mapQueue, Job("add", u, None)) \in Seq(Jobs)
      BY <3>2, Appended
    <3> QED BY <3>1, <3>3
  <2> QED BY <1>10, <2>1, <2>2 DEF PostAdd
<1>11. CASE SavePlayer(u)
  <2>1. dbQueue' \in Seq(Jobs) /\ u \in player /\ character[u] \in Characters
    BY <1>11, Saving, Taken DEF SavePlayer
  <2>2. db' \in [Characters -> Nat] /\ risked' \subseteq Characters
    BY <1>11, <2>1 DEF SavePlayer, TrySaveToDb
  <2> QED BY <1>11, <2>1, <2>2 DEF SavePlayer
<1>12. CASE AddPlayer(u)
  <2>1. mapQueue' \in Seq(Jobs) /\ character[u] \in Characters /\ pos[u] \in Cells /\ u \in player
    BY <1>12, OnTheMap DEF AddPlayer
  <2>2. players' \in [Characters -> Sessions \cup {None}] /\ objects' \subseteq player
    BY <1>12, <2>1 DEF AddPlayer
  <2>3. <<u, pos[u]>> \in Sessions \X Cells /\ grid[<<u, pos[u]>>] \in Nat
    BY <2>1
  <2>4. \/ grid' = grid
        \/ grid' = [grid EXCEPT ![<<u, pos[u]>>] = grid[<<u, pos[u]>>] + 1]
    BY <1>12, <2>1 DEF AddPlayer
  <2>5. grid' \in [Sessions \X Cells -> Nat]
    <3>1. [grid EXCEPT ![<<u, pos[u]>>] = grid[<<u, pos[u]>>] + 1] \in [Sessions \X Cells -> Nat]
      BY <2>3
    <3> QED BY <2>4, <3>1
  <2> QED BY <1>12, <2>1, <2>2, <2>5 DEF AddPlayer
<1>13. CASE RemoveObject(u)
  <2>1. mapQueue' \in Seq(Jobs) /\ character[u] \in Characters /\ pos[u] \in Cells /\ u \in player
    BY <1>13, OnTheMap DEF RemoveObject
  <2>2. players' \in [Characters -> Sessions \cup {None}] /\ objects' \subseteq player
    BY <1>13, <2>1 DEF RemoveObject
  <2>3. grid' \in [Sessions \X Cells -> Nat]
    BY <1>13, <2>1 DEF RemoveObject
  <2> QED BY <1>13, <2>1, <2>2, <2>3 DEF RemoveObject
<1>14. CASE OnPlayerMove(u)
  <2> DEFINE x == Head(mapQueue).cell
  <2>1. mapQueue' \in Seq(Jobs) /\ x \in Cells /\ pos[u] \in Cells
    BY <1>14, OnTheMap DEF OnPlayerMove
  <2>2. pos' = [pos EXCEPT ![u] = x]
    BY <1>14 DEF OnPlayerMove
  <2>3. grid' = IF x = pos[u] THEN grid
                ELSE [grid EXCEPT ![<<u, pos[u]>>] = 0, ![<<u, x>>] = @ + 1]
    BY <1>14 DEF OnPlayerMove
  <2> HIDE DEF x
  <2>4. grid' \in [Sessions \X Cells -> Nat]
    <3>1. <<u, pos[u]>> \in Sessions \X Cells /\ <<u, x>> \in Sessions \X Cells
      BY <2>1
    <3>2. DEFINE g == [grid EXCEPT ![<<u, pos[u]>>] = 0]
    <3>3. g \in [Sessions \X Cells -> Nat]
      OBVIOUS
    <3>4. grid' = IF x = pos[u] THEN grid ELSE [g EXCEPT ![<<u, x>>] = g[<<u, x>>] + 1]
      BY <2>3, <3>1
    <3> HIDE DEF g
    <3>5. g[<<u, x>>] \in Nat
      BY <3>1, <3>3
    <3> QED BY <3>1, <3>3, <3>4, <3>5
  <2>5. pos' \in [Sessions -> Cells \cup {None}] /\ \A s \in player : pos'[s] # None
    BY <2>1, <2>2, <1>0
  <2>6. /\ UNCHANGED <<state, handling, packets, dbQueue, dbStep, character, player, loaded, db,
                       players, objects, homeless, earned, saved, crossed, risked>>
        /\ stray' \subseteq Sessions
    BY <1>14 DEF OnPlayerMove
  <2> QED BY <2>1, <2>4, <2>5, <2>6
<1>15. CASE OnRevive(u)
  <2>1. mapQueue' \in Seq(Jobs) /\ character[u] \in Characters
    BY <1>15, OnTheMap DEF OnRevive
  <2>2. /\ loaded' \in [Sessions -> Nat] /\ earned' \in [Characters -> Nat]
        /\ risked' \subseteq Characters
    BY <1>15, <2>1 DEF OnRevive, Change
  <2> QED BY <1>15, <2>1, <2>2, <1>0 DEF OnRevive
<1>16. CASE Update(u)
  <2>1. mapQueue' \in Seq(Jobs)
    BY <1>16, JobIsJob, Appended DEF Update
  <2>2. packets' \in 0 .. MaxPackets
    <3>1. packets < MaxPackets /\ packets' = packets + 1
      BY <1>16 DEF Update
    <3> QED BY <3>1, <1>0
  <2> QED BY <1>16, <2>1, <2>2 DEF Update
<1>17. CASE Play(u)
  <2>1. mapQueue' \in Seq(Jobs) /\ character[u] \in Characters
    BY <1>17, OnTheMap DEF Play
  <2>2. /\ loaded' \in [Sessions -> Nat] /\ earned' \in [Characters -> Nat]
        /\ risked' \subseteq Characters
    BY <1>17, <2>1 DEF Play, Change
  <2> QED BY <1>17, <2>1, <2>2 DEF Play
<1> QED BY <1>1, <1>2, <1>3, <1>4, <1>5, <1>6, <1>7, <1>8, <1>9, <1>10, <1>11, <1>12, <1>13,
           <1>14, <1>15, <1>16, <1>17 DEF StepOf
-----------------------------------------------------------------------------
(* The places of a session, and the jobs of the PlayerDbQueue *)

\* A step keeps the places of the sessions.
LEMMA LivesKept ==
  ASSUME TypeOK, Lives, DbJobs, MapJobs, NEW u \in Sessions, StepOf(u)
  PROVE  Lives'
<1>0. dbQueue \in Seq(Jobs) /\ None \notin Characters
  BY WorldAssumption DEF TypeOK
<1>1. ASSUME NEW c \in Characters, Enter(u, c) PROVE Lives'
  <2>1. /\ UNCHANGED <<player, homeless, saved, crossed>>
        /\ \A t \in Sessions \ {u} : state'[t] = state[t] /\ character'[t] = character[t]
        /\ dbQueue' = Append(dbQueue, Job("enter", u, None))
        /\ state'[u] = "in" /\ character'[u] = c
    BY <1>1 DEF Enter, TypeOK
  <2>2. u \notin player /\ u \notin saved /\ u \notin crossed
    BY <1>1, Newcomer DEF Enter
  <2>3. \A s \in Sessions : Waits(dbQueue', "save", s) <=> Waits(dbQueue, "save", s)
    BY <2>1, <1>0, JobIsJob, WaitsAppended
  <2> QED BY <2>1, <2>2, <2>3, <1>0 DEF Lives
<1>2. CASE OnDisconnected(u)
  <2>1. /\ UNCHANGED <<player, homeless, saved, crossed, dbQueue, character>>
        /\ \A t \in Sessions \ {u} : state'[t] = state[t]
        /\ state[u] = "in" /\ state'[u] = IF u \in player THEN "save" ELSE "gone"
    BY <1>2 DEF OnDisconnected, TypeOK
  <2> QED BY <2>1 DEF Lives
<1>3. CASE PostSave(u)
  <2>1. /\ UNCHANGED <<player, homeless, saved, crossed, character>>
        /\ \A t \in Sessions \ {u} : state'[t] = state[t]
        /\ state[u] = "save" /\ state'[u] = IF u \in homeless THEN "gone" ELSE "remove"
        /\ dbQueue' = Append(dbQueue, Job("save", u, None))
    BY <1>3 DEF PostSave, TypeOK
  <2>2. \A s \in Sessions : Waits(dbQueue', "save", s) <=> Waits(dbQueue, "save", s) \/ u = s
    BY <2>1, <1>0, JobIsJob, WaitsAppended
  <2> QED BY <2>1, <2>2 DEF Lives
<1>4. CASE PostRemove(u)
  <2>1. /\ UNCHANGED <<player, homeless, saved, crossed, dbQueue, character>>
        /\ \A t \in Sessions \ {u} : state'[t] = state[t]
        /\ state[u] = "remove" /\ state'[u] = "gone"
    BY <1>4 DEF PostRemove, TypeOK
  <2> QED BY <2>1 DEF Lives
<1>5. CASE Refuse(u)
  <2>1. UNCHANGED <<player, homeless, saved, crossed, state, character>> /\ dbQueue' = Tail(dbQueue)
    BY <1>5 DEF Refuse
  <2>2. \A s \in Sessions : Waits(dbQueue', "save", s) <=> Waits(dbQueue, "save", s)
    BY <2>1, <1>0, <1>5, Entering, WaitsTaken DEF Refuse
  <2> QED BY <2>1, <2>2 DEF Lives
<1>6. CASE SetPlayer(u)
  <2>1. /\ UNCHANGED <<saved, crossed, state, dbQueue, character>>
        /\ player' = player \cup {u} /\ homeless' \in {homeless, homeless \cup {u}}
    BY <1>6 DEF SetPlayer
  <2>2. u \notin player
    BY <1>6, Entering DEF SetPlayer
  <2> QED BY <2>1, <2>2 DEF Lives
<1>7. CASE PostAdd(u)
  <2>1. /\ UNCHANGED <<player, homeless, saved, state, character>>
        /\ dbQueue' = Tail(dbQueue)
        /\ crossed' = crossed \/ (crossed' = crossed \cup {u} /\ state[u] = "gone")
    BY <1>7 DEF PostAdd
  <2>2. \A s \in Sessions : Waits(dbQueue', "save", s) <=> Waits(dbQueue, "save", s)
    BY <2>1, <1>0, <1>7, Entering, WaitsTaken DEF PostAdd
  <2> QED BY <2>1, <2>2 DEF Lives
<1>8. CASE SavePlayer(u)
  <2>1. /\ UNCHANGED <<player, homeless, crossed, state, character>>
        /\ saved' = saved \cup {u} /\ dbQueue' = Tail(dbQueue)
    BY <1>8 DEF SavePlayer
  <2>2. u \in player /\ state[u] \in {"remove", "gone"}
    BY <1>8, Saving DEF SavePlayer
  <2>3. \A s \in Sessions :
          s # u /\ Waits(dbQueue, "save", s) => Waits(dbQueue', "save", s)
    BY <2>1, <1>0, <1>8, Saving, WaitsTaken DEF SavePlayer
  <2> QED BY <2>1, <2>2, <2>3 DEF Lives
<1>9. ASSUME UNCHANGED <<player, homeless, saved, crossed, state, character, dbQueue>> PROVE Lives'
  BY <1>9 DEF Lives
<1>10. CASE \/ \E x \in Cells : Receive(u, "move", x)
            \/ Receive(u, "revive", None) \/ Receive(u, "play", None)
            \/ Post(u) \/ Load(u)
            \/ AddPlayer(u) \/ RemoveObject(u) \/ OnPlayerMove(u) \/ OnRevive(u)
            \/ Update(u) \/ Play(u)
  BY <1>9, <1>10 DEF Receive, Post, Load, AddPlayer, RemoveObject, OnPlayerMove, OnRevive,
     Update, Play
<1> QED BY <1>1, <1>2, <1>3, <1>4, <1>5, <1>6, <1>7, <1>8, <1>10 DEF StepOf

\* The jobs that are left when the first one of the PlayerDbQueue is done are in order.
LEMMA DbJobsTaken ==
  ASSUME TypeOK, DbJobs, dbQueue # <<>>, dbQueue' = Tail(dbQueue),
         dbStep = "load" \/ dbQueue[1].do = "enter", dbStep' = "load",
         NEW u \in Sessions, dbQueue[1].session = u,
         UNCHANGED <<player, character, state>>,
         saved' = saved \/ (saved' = saved \cup {u} /\ dbQueue[1].do = "save")
  PROVE  DbJobs'
<1>0. dbQueue \in Seq(Jobs)
  BY DEF TypeOK
<1>1. /\ 1 \in DOMAIN dbQueue
      /\ \A i \in DOMAIN dbQueue' :
           i \in Nat /\ i + 1 \in DOMAIN dbQueue /\ i + 1 # 1 /\ dbQueue'[i] = dbQueue[i + 1]
  BY <1>0, Taken
<1>2. ASSUME NEW i \in DOMAIN dbQueue'
      PROVE  LET s == dbQueue'[i].session IN
             \/ /\ dbQueue'[i].do = "enter" /\ character'[s] # None
                /\ s \in player' => i = 1 /\ dbStep' = "add"
             \/ /\ dbQueue'[i].do = "save" /\ s \in player' \ saved'
                /\ state'[s] \in {"remove", "gone"}
  <2> DEFINE k == i + 1
  <2>1. k \in DOMAIN dbQueue /\ k # 1 /\ dbQueue'[i] = dbQueue[k]
    BY <1>1
  <2> HIDE DEF k
  <2>2. ~ (dbQueue[k].do = dbQueue[1].do /\ dbQueue[k].session = dbQueue[1].session)
    BY <2>1, <1>1 DEF DbJobs
  <2> QED BY <2>1, <2>2 DEF DbJobs
<1>3. \A i, k \in DOMAIN dbQueue' :
        dbQueue'[i].do = dbQueue'[k].do /\ dbQueue'[i].session = dbQueue'[k].session => i = k
  <2>1. TAKE i, k \in DOMAIN dbQueue'
  <2>2. HAVE dbQueue'[i].do = dbQueue'[k].do /\ dbQueue'[i].session = dbQueue'[k].session
  <2>3. i + 1 = k + 1
    BY <1>1, <2>2 DEF DbJobs
  <2> QED BY <2>3, <1>1
<1> QED BY <1>2, <1>3 DEF DbJobs

\* A new job is in order with those that wait.
LEMMA DbJobsAppended ==
  ASSUME TypeOK, DbJobs, NEW j \in Jobs, dbQueue' = Append(dbQueue, j), dbStep' = dbStep,
         UNCHANGED <<player, saved, pos>>,
         \A i \in DOMAIN dbQueue : ~ (dbQueue[i].do = j.do /\ dbQueue[i].session = j.session),
         \A i \in DOMAIN dbQueue :
           LET s == dbQueue[i].session IN
           /\ character[s] # None => character'[s] # None
           /\ s \in player \ saved /\ state[s] \in {"remove", "gone"} =>
                state'[s] \in {"remove", "gone"},
         \/ j.do = "enter" /\ character'[j.session] # None /\ j.session \notin player
         \/ j.do = "save" /\ j.session \in player \ saved /\ state'[j.session] \in {"remove", "gone"}
  PROVE  DbJobs'
<1>0. dbQueue \in Seq(Jobs)
  BY DEF TypeOK
<1> DEFINE n == Len(dbQueue) + 1
<1>1. /\ DOMAIN dbQueue' = DOMAIN dbQueue \cup {n} /\ n \notin DOMAIN dbQueue
      /\ \A i \in DOMAIN dbQueue : dbQueue'[i] = dbQueue[i]
      /\ dbQueue'[n] = j /\ dbQueue' # <<>>
      /\ dbQueue # <<>> => 1 \in DOMAIN dbQueue
  BY <1>0, Appended, Taken
<1> HIDE DEF n
<1>2. ASSUME NEW i \in DOMAIN dbQueue'
      PROVE  LET s == dbQueue'[i].session IN
             \/ /\ dbQueue'[i].do = "enter" /\ character'[s] # None
                /\ s \in player' => i = 1 /\ dbStep' = "add"
             \/ /\ dbQueue'[i].do = "save" /\ s \in player' \ saved'
                /\ state'[s] \in {"remove", "gone"}
  <2>1. CASE i = n
    BY <2>1, <1>1
  <2>2. CASE i \in DOMAIN dbQueue
    BY <2>2, <1>1 DEF DbJobs
  <2> QED BY <2>1, <2>2, <1>1
<1>3. \A i, k \in DOMAIN dbQueue' :
        dbQueue'[i].do = dbQueue'[k].do /\ dbQueue'[i].session = dbQueue'[k].session => i = k
  BY <1>1 DEF DbJobs
<1>4. dbStep' # "load" =>
        /\ dbQueue' # <<>> /\ dbQueue'[1].do = "enter" /\ pos'[dbQueue'[1].session] # None
        /\ dbStep' = "add" => dbQueue'[1].session \in player'
  BY <1>1 DEF DbJobs
<1> QED BY <1>2, <1>3, <1>4 DEF DbJobs

\* A step keeps the jobs of the PlayerDbQueue in order.
LEMMA DbJobsKept ==
  ASSUME TypeOK, Lives, DbJobs, MapJobs, NEW u \in Sessions, StepOf(u)
  PROVE  DbJobs'
<1>0. /\ dbQueue \in Seq(Jobs)
      /\ None \notin Characters /\ None \notin Cells /\ Origin \in Cells /\ Home \in Cells
  BY WorldAssumption DEF TypeOK
<1>1. ASSUME NEW c \in Characters, Enter(u, c) PROVE DbJobs'
  <2> DEFINE j == Job("enter", u, None)
  <2>1. j \in Jobs /\ j.do = "enter" /\ j.session = u
    BY JobIsJob
  <2>2. /\ UNCHANGED <<player, saved, pos, dbStep>> /\ dbQueue' = Append(dbQueue, j)
        /\ \A t \in Sessions \ {u} : state'[t] = state[t] /\ character'[t] = character[t]
        /\ character'[u] = c
    BY <1>1 DEF Enter, TypeOK
  <2>3. u \notin player /\ \A i \in DOMAIN dbQueue : dbQueue[i].session # u
    BY <1>1, Newcomer DEF Enter
  <2> HIDE DEF j
  <2>4. \A i \in DOMAIN dbQueue : ~ (dbQueue[i].do = j.do /\ dbQueue[i].session = j.session)
    BY <2>1, <2>3
  <2>5. \A i \in DOMAIN dbQueue :
           LET s == dbQueue[i].session IN
           /\ character[s] # None => character'[s] # None
           /\ s \in player \ saved /\ state[s] \in {"remove", "gone"} =>
                state'[s] \in {"remove", "gone"}
    BY <2>2, <2>3, <1>0, QueuedAreJobs
  <2> QED BY <2>1, <2>2, <2>3, <2>4, <2>5, <1>0, DbJobsAppended
<1>2. CASE PostSave(u)
  <2> DEFINE j == Job("save", u, None)
  <2>1. j \in Jobs /\ j.do = "save" /\ j.session = u
    BY JobIsJob
  <2>2. /\ UNCHANGED <<player, saved, pos, dbStep, character>> /\ dbQueue' = Append(dbQueue, j)
        /\ \A t \in Sessions \ {u} : state'[t] = state[t]
        /\ state[u] = "save" /\ state'[u] \in {"remove", "gone"}
    BY <1>2 DEF PostSave, TypeOK
  <2>3. u \in player \ saved
    BY <2>2 DEF Lives
  <2> HIDE DEF j
  <2>4. \A i \in DOMAIN dbQueue : ~ (dbQueue[i].do = j.do /\ dbQueue[i].session = j.session)
    BY <2>1, <2>2 DEF DbJobs
  <2>5. \A i \in DOMAIN dbQueue :
           LET s == dbQueue[i].session IN
           /\ character[s] # None => character'[s] # None
           /\ s \in player \ saved /\ state[s] \in {"remove", "gone"} =>
                state'[s] \in {"remove", "gone"}
    BY <2>2, <1>0, QueuedAreJobs
  <2> QED BY <2>1, <2>2, <2>3, <2>4, <2>5, DbJobsAppended
<1>3. CASE OnDisconnected(u) \/ PostRemove(u)
  <2>1. /\ UNCHANGED <<player, saved, pos, dbStep, dbQueue, character>>
        /\ \A t \in Sessions \ {u} : state'[t] = state[t]
        /\ state[u] # "gone" /\ (state[u] = "remove" => state'[u] = "gone")
    BY <1>3 DEF OnDisconnected, PostRemove, TypeOK
  <2>2. \A s \in Sessions : state[s] \in {"remove", "gone"} => state'[s] \in {"remove", "gone"}
    BY <2>1
  <2>3. \A i \in DOMAIN dbQueue : dbQueue[i].session \in Sessions
    BY <1>0, QueuedAreJobs
  <2> QED BY <2>1, <2>2, <2>3 DEF DbJobs
<1>4. CASE Refuse(u)
  <2>1. dbQueue # <<>> /\ dbStep = "load" /\ dbQueue[1].session = u
    BY <1>4, Entering DEF Refuse
  <2> QED BY <1>4, <2>1, DbJobsTaken DEF Refuse
<1>5. CASE PostAdd(u)
  <2>1. dbQueue # <<>> /\ dbQueue[1].do = "enter" /\ dbQueue[1].session = u
    BY <1>5, Entering DEF PostAdd
  <2>2. UNCHANGED <<player, character, state, saved>> /\ dbQueue' = Tail(dbQueue) /\ dbStep' = "load"
    BY <1>5 DEF PostAdd
  <2> QED BY <2>1, <2>2, DbJobsTaken
<1>6. CASE SavePlayer(u)
  <2>1. dbQueue # <<>> /\ dbStep = "load" /\ dbQueue[1].do = "save" /\ dbQueue[1].session = u
    BY <1>6, Saving DEF SavePlayer
  <2>2. /\ UNCHANGED <<player, character, state, dbStep>> /\ dbQueue' = Tail(dbQueue)
        /\ saved' = saved \cup {u}
    BY <1>6 DEF SavePlayer
  <2> QED BY <2>1, <2>2, DbJobsTaken
<1>7. CASE Load(u)
  <2>1. /\ dbQueue # <<>> /\ dbStep = "load" /\ dbQueue[1].do = "enter" /\ dbQueue[1].session = u
        /\ u \notin player
    BY <1>7, Entering DEF Load
  <2>2. /\ UNCHANGED <<player, character, state, saved, dbQueue>> /\ dbStep' = "set"
        /\ pos' = [pos EXCEPT ![u] = Origin]
    BY <1>7 DEF Load, TryLoadFromDb
  <2>3. pos'[u] # None
    BY <2>2, <1>0 DEF TypeOK
  <2> QED BY <2>1, <2>2, <2>3 DEF DbJobs
<1>8. CASE SetPlayer(u)
  <2>1. /\ dbQueue # <<>> /\ dbStep = "set" /\ dbQueue[1].do = "enter" /\ dbQueue[1].session = u
        /\ u \notin player
        /\ \A i \in DOMAIN dbQueue : dbQueue[i].do = "enter" /\ dbQueue[i].session = u => i = 1
    BY <1>8, Entering DEF SetPlayer
  <2>2. /\ UNCHANGED <<character, state, saved, dbQueue, pos>> /\ dbStep' = "add"
        /\ player' = player \cup {u}
    BY <1>8 DEF SetPlayer
  <2> QED BY <2>1, <2>2 DEF DbJobs
<1>9. CASE OnPlayerMove(u) \/ OnRevive(u)
  <2>1. UNCHANGED <<character, state, saved, player, dbQueue, dbStep>>
    BY <1>9 DEF OnPlayerMove, OnRevive
  <2>2. \E x \in Cells : pos' = [pos EXCEPT ![u] = x]
    <3>1. CASE OnPlayerMove(u)
      BY <3>1, OnTheMap DEF OnPlayerMove
    <3>2. CASE OnRevive(u)
      BY <3>2, <1>0 DEF OnRevive
    <3> QED BY <3>1, <3>2, <1>9
  <2>3. \A s \in Sessions : pos[s] # None => pos'[s] # None
    BY <2>2, <1>0 DEF TypeOK
  <2>4. dbStep # "load" => dbQueue[1].session \in Sessions
    BY <1>0, Taken, QueuedAreJobs DEF DbJobs
  <2> QED BY <2>1, <2>3, <2>4 DEF DbJobs
<1>10. ASSUME UNCHANGED <<character, state, saved, player, dbQueue, dbStep, pos>> PROVE DbJobs'
  BY <1>10 DEF DbJobs
<1>11. CASE \/ \E x \in Cells : Receive(u, "move", x)
            \/ Receive(u, "revive", None) \/ Receive(u, "play", None)
            \/ Post(u) \/ AddPlayer(u) \/ RemoveObject(u) \/ Update(u) \/ Play(u)
  BY <1>10, <1>11 DEF Receive, Post, AddPlayer, RemoveObject, Update, Play
<1> QED BY <1>1, <1>2, <1>3, <1>4, <1>5, <1>6, <1>7, <1>8, <1>9, <1>11 DEF StepOf
-----------------------------------------------------------------------------
(* The jobs of the map *)

\* What waits for the map is accounted for when the queue gets or loses a job.
LEMMA QueueInOrder ==
  ASSUME TypeOK, Lives, DbJobs, MapJobs, NEW u \in Sessions, StepOf(u),
         \/ mapQueue' = mapQueue
         \/ mapQueue # <<>> /\ mapQueue' = Tail(mapQueue)
         \/ \E j \in Jobs, s \in Sessions :
              mapQueue' = Append(mapQueue, j) /\ InOrder(j) /\ j.session = s /\ Accounted(s)'
  PROVE  \A i \in DOMAIN mapQueue' :
           /\ InOrder(mapQueue'[i])
           /\ \A s \in Sessions : mapQueue'[i].session = s => Accounted(s)'
<1>0. mapQueue \in Seq(Jobs)
  BY DEF TypeOK
<1>1. \A i \in DOMAIN mapQueue :
        InOrder(mapQueue[i]) /\ \A s \in Sessions : mapQueue[i].session = s => Accounted(s)'
  <2>1. \A s \in Sessions : Accounted(s) => Accounted(s)'
    BY Ownership
  <2> QED BY <2>1 DEF MapJobs
<1>2. CASE mapQueue' = mapQueue
  BY <1>2, <1>1
<1>3. CASE mapQueue # <<>> /\ mapQueue' = Tail(mapQueue)
  <2>1. \A i \in DOMAIN mapQueue' : \E k \in DOMAIN mapQueue : mapQueue'[i] = mapQueue[k]
    BY <1>3, <1>0, Taken
  <2>2. TAKE i \in DOMAIN mapQueue'
  <2>3. PICK k \in DOMAIN mapQueue : mapQueue'[i] = mapQueue[k]
    BY <2>1
  <2> QED BY <2>3, <1>1
<1>4. ASSUME NEW j \in Jobs, NEW t \in Sessions,
             mapQueue' = Append(mapQueue, j), InOrder(j), j.session = t, Accounted(t)'
      PROVE  \A i \in DOMAIN mapQueue' :
               /\ InOrder(mapQueue'[i])
               /\ \A s \in Sessions : mapQueue'[i].session = s => Accounted(s)'
  <2> DEFINE n == Len(mapQueue) + 1
  <2>1. /\ DOMAIN mapQueue' = DOMAIN mapQueue \cup {n} /\ mapQueue'[n] = j
        /\ \A i \in DOMAIN mapQueue : mapQueue'[i] = mapQueue[i]
    BY <1>4, <1>0, Appended
  <2> HIDE DEF n
  <2>2. \A s \in Sessions : j.session = s => Accounted(s)'
    BY <1>4
  <2>3. TAKE i \in DOMAIN mapQueue'
  <2>4. CASE i = n
    BY <2>1, <2>2, <2>4, <1>4
  <2>5. CASE i \in DOMAIN mapQueue
    BY <2>1, <2>5, <1>1
  <2> QED BY <2>1, <2>4, <2>5
<1> QED BY <1>2, <1>3, <1>4

\* A step keeps the jobs of the map accounted for.
LEMMA MapJobsKept ==
  ASSUME TypeOK, Lives, DbJobs, MapJobs, NEW u \in Sessions, StepOf(u)
  PROVE  MapJobs'
<1>0. /\ mapQueue \in Seq(Jobs)
      /\ \A s \in Sessions : Accounted(s) => Accounted(s)'
  BY Ownership DEF TypeOK
<1>00. ASSUME NEW s \in player' \ homeless' PROVE Accounted(s)'
  <2>1. CASE s \in player \ homeless
    BY <2>1, <1>0 DEF MapJobs, TypeOK
  <2>2. CASE s \notin player \ homeless
    <3>1. SetPlayer(u) /\ s = u
      <4>1. homeless \subseteq homeless' /\ (player' = player \/ SetPlayer(u))
        BY DEF StepOf, Enter, Receive, Post, OnDisconnected, PostSave, PostRemove, Refuse, Load,
           SetPlayer, PostAdd, SavePlayer, AddPlayer, RemoveObject, OnPlayerMove, OnRevive, Update,
           Play
      <4> QED BY <4>1, <1>00, <2>2 DEF SetPlayer
    <3>2. /\ dbStep' = "add" /\ UNCHANGED <<dbQueue, state>>
          /\ u \notin player /\ dbQueue[1].session = u /\ character[u] # None
      BY <3>1, Entering, WorldAssumption DEF SetPlayer
    <3>3. state[u] \in {"in", "gone"}
      BY <3>2 DEF Lives, TypeOK
    <3> QED BY <3>1, <3>2, <3>3, <1>00 DEF Accounted, Crosses, Owns
  <2> QED BY <2>1, <2>2
<1> DEFINE Queued == \/ mapQueue' = mapQueue
                     \/ mapQueue # <<>> /\ mapQueue' = Tail(mapQueue)
                     \/ \E j \in Jobs, s \in Sessions :
                          /\ mapQueue' = Append(mapQueue, j)
                          /\ InOrder(j) /\ j.session = s /\ Accounted(s)'
           Handled == \A s \in Sessions : handling'[s] # DoNothing =>
                        \/ handling'[s] = handling[s]
                        \/ Accounted(s)' /\ handling'[s].session = s /\ InPackets(handling'[s])
           Present == /\ \A s \in Sessions, x \in Cells :
                           grid'[<<s, x>>] > 0 => grid[<<s, x>>] > 0 \/ Accounted(s)
                      /\ \A s \in objects' : s \in objects \/ Accounted(s)
<1>1. ASSUME Queued, Handled, Present PROVE MapJobs'
  <2>1. \A i \in DOMAIN mapQueue' :
          /\ InOrder(mapQueue'[i])
          /\ \A s \in Sessions : mapQueue'[i].session = s => Accounted(s)'
    BY <1>1, QueueInOrder
  <2>2. \A s \in Sessions : handling'[s] # DoNothing =>
          Accounted(s)' /\ handling'[s].session = s /\ InPackets(handling'[s])
    BY <1>1, <1>0 DEF MapJobs
  <2>3. /\ \A s \in Sessions, x \in Cells : grid'[<<s, x>>] > 0 => Accounted(s)'
        /\ \A s \in objects' \cup (player' \ homeless') : Accounted(s)'
    <3>1. objects \subseteq Sessions
      BY DEF TypeOK
    <3>2. \A s \in objects' : Accounted(s)'
      BY <1>1, <1>0, <3>1 DEF MapJobs, Accounted, TypeOK
    <3> QED BY <1>1, <1>0, <1>00, <3>2 DEF MapJobs
  <2> QED BY <2>1, <2>2, <2>3 DEF MapJobs
<1> HIDE DEF Queued, Handled, Present
<1>2. ASSUME UNCHANGED handling PROVE Handled
  BY <1>2 DEF Handled
<1>3. ASSUME UNCHANGED <<grid, objects>> PROVE Present
  BY <1>3 DEF Present
<1>4. ASSUME UNCHANGED mapQueue PROVE Queued
  BY <1>4 DEF Queued
<1>5. CASE \/ \E c \in Characters : Enter(u, c)
           \/ OnDisconnected(u) \/ PostSave(u) \/ Refuse(u) \/ Load(u) \/ SetPlayer(u)
           \/ SavePlayer(u)
  <2>1. UNCHANGED <<handling, grid, objects, mapQueue>>
    BY <1>5 DEF Enter, OnDisconnected, PostSave, Refuse, Load, SetPlayer, SavePlayer
  <2> QED BY <2>1, <1>1, <1>2, <1>3, <1>4
<1>6. ASSUME NEW do \in {"move", "revive", "play"}, NEW x \in Cells \cup {None}, Receive(u, do, x),
             do = "move" => x \in Cells
      PROVE  MapJobs'
  <2>1. UNCHANGED <<grid, objects, mapQueue, player, homeless, state>>
        /\ u \in player \ homeless
    BY <1>6 DEF Receive
  <2>2. Accounted(u)'
    BY <2>1, <1>0 DEF MapJobs
  <2>3. Job(do, u, x).session = u /\ InPackets(Job(do, u, x))
    BY <1>6, JobIsJob DEF InPackets
  <2>4. \A s \in Sessions : handling'[s] = IF s = u THEN Job(do, u, x) ELSE handling[s]
    BY <1>6 DEF Receive, TypeOK
  <2>5. Handled
    BY <2>2, <2>3, <2>4 DEF Handled
  <2> QED BY <2>1, <2>5, <1>1, <1>3, <1>4
<1>7. CASE Post(u)
  <2>1. /\ UNCHANGED <<grid, objects>> /\ mapQueue' = Append(mapQueue, handling[u])
        /\ handling[u] # DoNothing /\ handling[u] \in Jobs
        /\ \A s \in Sessions : handling'[s] = IF s = u THEN DoNothing ELSE handling[s]
    BY <1>7 DEF Post, TypeOK
  <2>2. handling[u].session = u /\ InOrder(handling[u]) /\ Accounted(u)
    BY <2>1 DEF MapJobs, InOrder
  <2>3. Queued
    BY <2>1, <2>2, <1>0 DEF Queued
  <2>4. Handled
    BY <2>1 DEF Handled
  <2> QED BY <2>1, <2>3, <2>4, <1>1, <1>3
<1>8. CASE PostRemove(u)
  <2> DEFINE j == Job("remove", u, None)
  <2>1. j \in Jobs /\ j.do = "remove" /\ j.session = u
    BY JobIsJob
  <2>2. UNCHANGED <<handling, grid, objects>> /\ mapQueue' = Append(mapQueue, j) /\ state[u] = "remove"
    BY <1>8 DEF PostRemove
  <2>3. Accounted(u)
    BY <2>2 DEF Lives, Accounted, Owns
  <2> HIDE DEF j
  <2>4. InOrder(j) /\ Accounted(u)'
    BY <2>1, <2>3, <1>0 DEF InOrder
  <2>5. Queued
    BY <2>1, <2>2, <2>4 DEF Queued
  <2> QED BY <2>2, <2>5, <1>1, <1>2, <1>3
<1>9. CASE PostAdd(u)
  <2> DEFINE j == Job("add", u, None)
  <2>1. j \in Jobs /\ j.do = "add" /\ j.session = u
    BY JobIsJob
  <2>2. /\ UNCHANGED <<handling, grid, objects, player, homeless, saved, state>>
        /\ \/ UNCHANGED mapQueue
           \/ /\ mapQueue' = Append(mapQueue, j) /\ u \notin homeless
              /\ crossed' = IF state[u] = "gone" THEN crossed \cup {u} ELSE crossed
    BY <1>9 DEF PostAdd
  <2>3. u \in player /\ character[u] \in Characters /\ dbQueue # <<>> /\ dbQueue' = Tail(dbQueue)
        /\ dbQueue[1].do = "enter"
    BY <1>9, Entering DEF PostAdd
  <2>4. Waits(dbQueue, "save", u) => Waits(dbQueue', "save", u)
    BY <2>3, WaitsTaken DEF TypeOK
  <2> HIDE DEF j
  <2>5. CASE UNCHANGED mapQueue
    BY <2>2, <2>5, <1>1, <1>2, <1>3, <1>4
  <2>6. CASE /\ mapQueue' = Append(mapQueue, j) /\ u \notin homeless
             /\ crossed' = IF state[u] = "gone" THEN crossed \cup {u} ELSE crossed
    <3>1. state[u] \in {"in", "save", "remove", "gone"}
      BY <2>3, WorldAssumption DEF Lives, TypeOK
    <3>2. Accounted(u)'
      BY <2>2, <2>3, <2>4, <2>6, <3>1 DEF Lives, Accounted, Crosses, Owns
    <3>3. Queued
      BY <2>1, <2>6, <3>2 DEF Queued, InOrder
    <3> QED BY <2>2, <3>3, <1>1, <1>2, <1>3
  <2> QED BY <2>2, <2>5, <2>6
<1>10. CASE Update(u)
  <2> DEFINE j == Job("play", u, None)
  <2>1. j \in Jobs /\ j.do = "play" /\ j.session = u
    BY JobIsJob
  <2>2. /\ UNCHANGED <<handling, grid, objects>> /\ mapQueue' = Append(mapQueue, j)
        /\ \E x \in Cells : grid[<<u, x>>] > 0
    BY <1>10 DEF Update
  <2> HIDE DEF j
  <2>3. InOrder(j) /\ Accounted(u)'
    BY <2>1, <2>2, <1>0 DEF MapJobs, InOrder, InPackets
  <2>4. Queued
    BY <2>1, <2>2, <2>3 DEF Queued
  <2> QED BY <2>2, <2>4, <1>1, <1>2, <1>3
<1>11. ASSUME NEW do, MapJob(do, u), UNCHANGED handling,
              objects' \subseteq objects \cup {u},
              \A s \in Sessions \ {u}, x \in Cells : grid'[<<s, x>>] = grid[<<s, x>>]
       PROVE  MapJobs'
  <2>1. mapQueue # <<>> /\ mapQueue' = Tail(mapQueue) /\ Accounted(u)
    BY <1>11, OnTheMap
  <2>2. Queued
    BY <2>1 DEF Queued
  <2>3. Present
    BY <2>1, <1>11 DEF Present
  <2> QED BY <1>11, <2>2, <2>3, <1>1, <1>2
<1>12. CASE Play(u) \/ OnRevive(u)
  BY <1>12, <1>11 DEF Play, OnRevive
<1>13. CASE AddPlayer(u)
  <2>1. MapJob("add", u) /\ UNCHANGED handling /\ objects' \subseteq objects \cup {u}
    BY <1>13 DEF AddPlayer
  <2>2. \A s \in Sessions \ {u}, x \in Cells : grid'[<<s, x>>] = grid[<<s, x>>]
    BY <1>13 DEF AddPlayer, TypeOK
  <2> QED BY <2>1, <2>2, <1>11
<1>14. CASE RemoveObject(u)
  <2>1. MapJob("remove", u) /\ UNCHANGED handling /\ objects' \subseteq objects \cup {u}
    BY <1>14 DEF RemoveObject
  <2>2. \A s \in Sessions \ {u}, x \in Cells : grid'[<<s, x>>] = grid[<<s, x>>]
    BY <1>14 DEF RemoveObject, TypeOK
  <2> QED BY <2>1, <2>2, <1>11
<1>15. CASE OnPlayerMove(u)
  <2>1. MapJob("move", u) /\ UNCHANGED handling /\ objects' \subseteq objects \cup {u}
    BY <1>15 DEF OnPlayerMove
  <2>2. \A s \in Sessions \ {u}, x \in Cells : grid'[<<s, x>>] = grid[<<s, x>>]
    BY <1>15 DEF OnPlayerMove, TypeOK
  <2> QED BY <2>1, <2>2, <1>11
<1>16. CASE \/ \E x \in Cells : Receive(u, "move", x)
            \/ Receive(u, "revive", None) \/ Receive(u, "play", None)
  BY <1>16, <1>6
<1> QED BY <1>5, <1>7, <1>8, <1>9, <1>10, <1>12, <1>13, <1>14, <1>15, <1>16 DEF StepOf
-----------------------------------------------------------------------------
(* The map: _players, _objects and the grid *)

\* The player of a session on the map is the one _players has for its character.
LEMMA OnePlayer ==
  ASSUME TypeOK, MapAgrees, NEW s \in objects
  PROVE  /\ character[s] \in Characters /\ players[character[s]] = s
         /\ \A d \in Characters : players[d] = s => d = character[s]
BY DEF TypeOK, MapAgrees

\* A step keeps _players and _objects of the map in agreement.
LEMMA MapAgreesKept ==
  ASSUME TypeOK, Lives, DbJobs, MapJobs, MapAgrees, NEW u \in Sessions, StepOf(u)
  PROVE  MapAgrees'
<1>0. None \notin Sessions /\ None \notin Characters /\ objects \subseteq Sessions
  BY WorldAssumption DEF TypeOK
<1>1. ASSUME NEW c \in Characters, Enter(u, c) PROVE MapAgrees'
  <2>1. /\ UNCHANGED <<players, objects>>
        /\ \A t \in Sessions \ {u} : character'[t] = character[t]
    BY <1>1 DEF Enter, TypeOK
  <2>2. u \notin objects
    BY <1>1, Newcomer DEF Enter
  <2>3. \A d \in Characters : players[d] # None => players[d] # u /\ players[d] \in Sessions
    BY <2>2 DEF MapAgrees, TypeOK
  <2> QED BY <2>1, <2>3 DEF MapAgrees
<1>2. CASE AddPlayer(u)
  <2> DEFINE c == character[u]
  <2>1. c \in Characters
    BY <1>2, OnTheMap DEF AddPlayer
  <2>2. /\ UNCHANGED character
        /\ \/ UNCHANGED <<players, objects>>
           \/ /\ players[c] = None /\ players' = [players EXCEPT ![c] = u]
              /\ objects' = objects \cup {u}
    BY <1>2 DEF AddPlayer
  <2>3. CASE UNCHANGED <<players, objects>>
    BY <2>2, <2>3 DEF MapAgrees
  <2>4. CASE /\ players[c] = None /\ players' = [players EXCEPT ![c] = u]
             /\ objects' = objects \cup {u}
    <3>1. \A d \in Characters : players'[d] = IF d = c THEN u ELSE players[d]
      BY <2>4, <2>1 DEF TypeOK
    <3>2. \A s \in objects : \E d \in Characters \ {c} : players[d] # None /\ s = players[d]
      BY <2>4 DEF MapAgrees
    <3>3. \A s \in objects' : \E d \in Characters : players'[d] # None /\ s = players'[d]
      BY <2>4, <3>1, <3>2, <2>1, <1>0
    <3>4. \A d \in Characters : players'[d] # None => players'[d] \in objects'
      BY <2>4, <3>1 DEF MapAgrees
    <3>5. \A d \in Characters : players'[d] # None => character[players'[d]] = d
      BY <3>1 DEF MapAgrees
    <3> QED BY <3>3, <3>4, <3>5, <2>2 DEF MapAgrees
  <2> QED BY <2>2, <2>3, <2>4
<1>3. CASE RemoveObject(u)
  <2> DEFINE c == character[u]
  <2>1. /\ UNCHANGED character
        /\ \/ UNCHANGED <<players, objects>>
           \/ /\ u \in objects /\ players' = [players EXCEPT ![c] = None]
              /\ objects' = objects \ {u}
    BY <1>3 DEF RemoveObject
  <2>2. CASE UNCHANGED <<players, objects>>
    BY <2>1, <2>2 DEF MapAgrees
  <2>3. CASE /\ u \in objects /\ players' = [players EXCEPT ![c] = None]
             /\ objects' = objects \ {u}
    <3>1. c \in Characters /\ players[c] = u /\ \A d \in Characters : players[d] = u => d = c
      BY <2>3, OnePlayer
    <3>2. \A d \in Characters : players'[d] = IF d = c THEN None ELSE players[d]
      BY <2>3, <3>1 DEF TypeOK
    <3>3. \A s \in objects' : \E d \in Characters : players'[d] # None /\ s = players'[d]
      BY <2>3, <3>1, <3>2 DEF MapAgrees
    <3>4. \A d \in Characters : players'[d] # None => players'[d] \in objects'
      BY <2>3, <3>1, <3>2 DEF MapAgrees
    <3>5. \A d \in Characters : players'[d] # None => character[players'[d]] = d
      BY <3>2 DEF MapAgrees
    <3> QED BY <3>3, <3>4, <3>5, <2>1 DEF MapAgrees
  <2> QED BY <2>1, <2>2, <2>3
<1>4. ASSUME UNCHANGED <<character, players, objects>> PROVE MapAgrees'
  BY <1>4 DEF MapAgrees
<1>5. CASE \/ \E x \in Cells : Receive(u, "move", x)
           \/ Receive(u, "revive", None) \/ Receive(u, "play", None)
           \/ Post(u) \/ OnDisconnected(u) \/ PostSave(u) \/ PostRemove(u)
           \/ Refuse(u) \/ Load(u) \/ SetPlayer(u) \/ PostAdd(u) \/ SavePlayer(u)
           \/ OnPlayerMove(u) \/ OnRevive(u) \/ Update(u) \/ Play(u)
  BY <1>4, <1>5 DEF Receive, Post, OnDisconnected, PostSave, PostRemove, Refuse, Load, SetPlayer,
     PostAdd, SavePlayer, OnPlayerMove, OnRevive, Update, Play
<1> QED BY <1>1, <1>2, <1>3, <1>5 DEF StepOf

\* A step keeps the players in the cells they stand on.
LEMMA GridAgreesKept ==
  ASSUME TypeOK, Lives, DbJobs, MapJobs, MapAgrees, GridAgrees, NEW u \in Sessions, StepOf(u)
  PROVE  GridAgrees'
<1>0. Home \in Cells /\ None \notin Cells /\ None \notin Sessions
  BY WorldAssumption
<1> DEFINE Others == \A s \in Sessions \ {u} :
                       /\ s \in objects' <=> s \in objects
                       /\ s \in stray <=> s \in stray'
                       /\ pos'[s] = pos[s]
                       /\ \A x \in Cells : grid'[<<s, x>>] = grid[<<s, x>>]
           This == u \notin stray' =>
                     \A x \in Cells :
                       grid'[<<u, x>>] = IF u \in objects' /\ pos'[u] = x THEN 1 ELSE 0
<1>1. ASSUME Others, This PROVE GridAgrees'
  <2>1. SUFFICES ASSUME NEW s \in Sessions \ stray', NEW x \in Cells
                 PROVE  grid'[<<s, x>>] = IF s \in objects' /\ pos'[s] = x THEN 1 ELSE 0
    BY DEF GridAgrees
  <2>2. CASE s = u
    BY <2>2, <1>1
  <2>3. CASE s # u
    <3>1. s \in Sessions \ stray /\ grid'[<<s, x>>] = grid[<<s, x>>]
      BY <2>3, <1>1
    <3>2. grid[<<s, x>>] = IF s \in objects /\ pos[s] = x THEN 1 ELSE 0
      BY <3>1 DEF GridAgrees
    <3> QED BY <2>3, <3>1, <3>2, <1>1
  <2> QED BY <2>2, <2>3
<1> HIDE DEF This, Others
<1>2. CASE Load(u)
  <2>1. /\ UNCHANGED <<objects, grid, stray>> /\ \A s \in Sessions \ {u} : pos'[s] = pos[s]
    BY <1>2 DEF Load, TryLoadFromDb, TypeOK
  <2>2. u \notin objects
    BY <1>2, Entering DEF Load, TypeOK
  <2>3. Others
    BY <2>1 DEF Others
  <2>4. This
    BY <2>1, <2>2 DEF This, GridAgrees
  <2> QED BY <2>3, <2>4, <1>1
<1>3. CASE AddPlayer(u)
  <2> DEFINE c == character[u]
  <2>1. c \in Characters /\ pos[u] \in Cells
    BY <1>3, OnTheMap DEF AddPlayer
  <2>2. /\ UNCHANGED <<pos, stray>>
        /\ \/ UNCHANGED <<objects, grid>>
           \/ /\ players[c] = None /\ objects' = objects \cup {u}
              /\ grid' = [grid EXCEPT ![<<u, pos[u]>>] = grid[<<u, pos[u]>>] + 1]
    BY <1>3, <2>1 DEF AddPlayer, TypeOK
  <2>3. CASE UNCHANGED <<objects, grid>>
    BY <2>2, <2>3 DEF GridAgrees
  <2>4. CASE /\ players[c] = None /\ objects' = objects \cup {u}
             /\ grid' = [grid EXCEPT ![<<u, pos[u]>>] = grid[<<u, pos[u]>>] + 1]
    <3>1. u \notin objects
      BY <2>4, OnePlayer, <1>0
    <3>2. \A s \in Sessions, x \in Cells :
            grid'[<<s, x>>] = IF s = u /\ x = pos[u] THEN grid[<<u, pos[u]>>] + 1
                              ELSE grid[<<s, x>>]
      BY <2>4, <2>1 DEF TypeOK
    <3>3. Others
      BY <2>2, <2>4, <3>2 DEF Others
    <3>4. This
      BY <2>1, <2>2, <2>4, <3>1, <3>2 DEF This, GridAgrees
    <3> QED BY <3>3, <3>4, <1>1
  <2> QED BY <2>2, <2>3, <2>4
<1>4. CASE RemoveObject(u)
  <2>1. UNCHANGED <<pos, stray>>
    BY <1>4 DEF RemoveObject
  <2>2. CASE u \notin objects
    BY <2>1, <2>2, <1>4 DEF RemoveObject, GridAgrees
  <2>3. CASE u \in objects
    <3>1. character[u] \in Characters /\ players[character[u]] # None /\ pos[u] \in Cells
      BY <2>3, OnePlayer, <1>0 DEF TypeOK
    <3>2. objects' = objects \ {u} /\ grid' = [grid EXCEPT ![<<u, pos[u]>>] = 0]
      BY <1>4, <2>3, <3>1 DEF RemoveObject
    <3>3. \A s \in Sessions, x \in Cells :
            grid'[<<s, x>>] = IF s = u /\ x = pos[u] THEN 0 ELSE grid[<<s, x>>]
      BY <3>1, <3>2 DEF TypeOK
    <3>4. Others
      BY <2>1, <3>2, <3>3 DEF Others
    <3>5. This
      BY <2>1, <3>2, <3>3 DEF This, GridAgrees
    <3> QED BY <3>4, <3>5, <1>1
  <2> QED BY <2>2, <2>3
<1>5. CASE OnPlayerMove(u)
  <2> DEFINE x == Head(mapQueue).cell
  <2>1. x \in Cells /\ pos[u] \in Cells
    BY <1>5, OnTheMap DEF OnPlayerMove
  <2>2. /\ UNCHANGED objects /\ pos' = [pos EXCEPT ![u] = x]
        /\ grid' = IF x = pos[u] THEN grid
                   ELSE [grid EXCEPT ![<<u, pos[u]>>] = 0, ![<<u, x>>] = @ + 1]
        /\ stray' = IF u \in objects THEN stray ELSE stray \cup {u}
    BY <1>5 DEF OnPlayerMove
  <2> HIDE DEF x
  <2>3. \A s \in Sessions : pos'[s] = IF s = u THEN x ELSE pos[s]
    BY <2>2 DEF TypeOK
  <2>4. /\ \A s \in Sessions : s \in objects' <=> s \in objects
        /\ \A s \in Sessions \ {u} : s \in stray' <=> s \in stray
        /\ u \notin stray' => u \in objects /\ u \notin stray
    BY <2>2
  <2>5. \A s \in Sessions, y \in Cells :
          grid'[<<s, y>>] = IF s = u /\ x # pos[u] /\ y = pos[u] THEN 0
                            ELSE IF s = u /\ x # pos[u] /\ y = x THEN grid[<<u, x>>] + 1
                            ELSE grid[<<s, y>>]
    <3>1. CASE x = pos[u]
      BY <2>2, <3>1
    <3>2. CASE x # pos[u]
      BY <2>1, <2>2, <3>2 DEF TypeOK
    <3> QED BY <3>1, <3>2
  <2>6. Others
    BY <2>3, <2>4, <2>5 DEF Others
  <2>7. This
    <3>1. SUFFICES ASSUME u \notin stray', NEW y \in Cells
                   PROVE  grid'[<<u, y>>] = IF u \in objects' /\ pos'[u] = y THEN 1 ELSE 0
      BY DEF This
    <3>2. \A z \in Cells : grid[<<u, z>>] = IF pos[u] = z THEN 1 ELSE 0
      BY <3>1, <2>4 DEF GridAgrees
    <3> QED BY <3>1, <3>2, <2>1, <2>3, <2>4, <2>5
  <2> QED BY <2>6, <2>7, <1>1
<1>6. CASE OnRevive(u)
  <2>1. /\ UNCHANGED <<objects, grid>> /\ pos' = [pos EXCEPT ![u] = Home]
        /\ stray' = IF pos[u] = Home THEN stray ELSE stray \cup {u}
    BY <1>6 DEF OnRevive
  <2>2. \A s \in Sessions : pos'[s] = IF s = u THEN Home ELSE pos[s]
    BY <2>1 DEF TypeOK
  <2>3. Others
    BY <2>1, <2>2 DEF Others
  <2>4. This
    BY <2>1, <2>2 DEF This, GridAgrees
  <2> QED BY <2>3, <2>4, <1>1
<1>7. ASSUME UNCHANGED <<objects, grid, pos, stray>> PROVE GridAgrees'
  BY <1>7 DEF GridAgrees
<1>8. CASE \/ \E c \in Characters : Enter(u, c)
           \/ \E x \in Cells : Receive(u, "move", x)
           \/ Receive(u, "revive", None) \/ Receive(u, "play", None)
           \/ Post(u) \/ OnDisconnected(u) \/ PostSave(u) \/ PostRemove(u)
           \/ Refuse(u) \/ SetPlayer(u) \/ PostAdd(u) \/ SavePlayer(u)
           \/ Update(u) \/ Play(u)
  BY <1>7, <1>8 DEF Enter, Receive, Post, OnDisconnected, PostSave, PostRemove, Refuse, SetPlayer,
     PostAdd, SavePlayer, Update, Play
<1> QED BY <1>2, <1>3, <1>4, <1>5, <1>6, <1>8 DEF StepOf
-----------------------------------------------------------------------------
(* Who leaves the map *)

\* A session whose RemoveObject was not posted yet.
Here(s) == state[s] \in {"in", "save", "remove"}

\* NoGhost in these terms.
LEMMA GhostsWait ==
  ASSUME TypeOK
  PROVE  NoGhost <=> \A s \in objects : Here(s) \/ Waits(mapQueue, "remove", s) \/ s \in crossed
<1>1. \A s \in objects : (\E j \in Range(mapQueue) : j.do = "remove" /\ j.session = s)
                          <=> Waits(mapQueue, "remove", s)
  BY DEF Range, Waits
<1> QED BY <1>1 DEF NoGhost, RemovePending, Here

\* A session with a player on a map posts RemoveObject before it is gone.
LEMMA LeavesByRemove ==
  ASSUME TypeOK, Lives, DbJobs, MapJobs, NEW u \in Sessions, StepOf(u)
  PROVE  /\ \A s \in Sessions : Accounted(s) /\ Here(s) => Here(s)' \/ (PostRemove(u) /\ s = u)
         /\ crossed \subseteq crossed'
<1> DEFINE Goal == \A s \in Sessions :
                     Accounted(s) /\ Here(s) => Here(s)' \/ (PostRemove(u) /\ s = u)
<1>1. ASSUME NEW c \in Characters, Enter(u, c) PROVE Goal /\ UNCHANGED crossed
  <2>1. state' = [state EXCEPT ![u] = "in"] /\ UNCHANGED crossed
    BY <1>1 DEF Enter
  <2> QED BY <2>1 DEF Here, TypeOK
<1>2. CASE OnDisconnected(u)
  <2>1. state' = [state EXCEPT ![u] = IF u \in player THEN "save" ELSE "gone"] /\ UNCHANGED crossed
    BY <1>2 DEF OnDisconnected
  <2> QED BY <2>1 DEF Here, TypeOK, Accounted
<1>3. CASE PostSave(u)
  <2>1. /\ state' = [state EXCEPT ![u] = IF u \in homeless THEN "gone" ELSE "remove"]
        /\ UNCHANGED crossed
    BY <1>3 DEF PostSave
  <2> QED BY <2>1 DEF Here, TypeOK, Accounted
<1>4. CASE PostRemove(u)
  <2>1. state' = [state EXCEPT ![u] = "gone"] /\ UNCHANGED crossed
    BY <1>4 DEF PostRemove
  <2> QED BY <2>1, <1>4 DEF Here, TypeOK
<1>5. CASE PostAdd(u)
  <2>1. state' = state /\ crossed \subseteq crossed'
    BY <1>5 DEF PostAdd
  <2> QED BY <2>1 DEF Here
<1>6. ASSUME UNCHANGED <<state, crossed>> PROVE Goal /\ UNCHANGED crossed
  BY <1>6 DEF Here
<1> HIDE DEF Goal
<1>7. CASE \/ \E x \in Cells : Receive(u, "move", x)
           \/ Receive(u, "revive", None) \/ Receive(u, "play", None)
           \/ Post(u) \/ Refuse(u) \/ Load(u) \/ SetPlayer(u) \/ SavePlayer(u)
           \/ AddPlayer(u) \/ RemoveObject(u) \/ OnPlayerMove(u) \/ OnRevive(u)
           \/ Update(u) \/ Play(u)
  BY <1>6, <1>7 DEF Receive, Post, Refuse, Load, SetPlayer, SavePlayer, AddPlayer, RemoveObject,
     OnPlayerMove, OnRevive, Update, Play, Goal
<1> QED BY <1>1, <1>2, <1>3, <1>4, <1>5, <1>7 DEF StepOf, Goal

\* A step posts a job to the map, takes one from its queue or leaves the queue alone.
LEMMA MapQueueSteps ==
  ASSUME TypeOK, Lives, DbJobs, MapJobs, NEW u \in Sessions, StepOf(u)
  PROVE  \/ mapQueue' = mapQueue /\ ~ PostRemove(u)
         \/ /\ mapQueue # <<>> /\ mapQueue' = Tail(mapQueue) /\ mapQueue[1].session = u
            /\ mapQueue[1].do = "remove" => RemoveObject(u)
            /\ ~ PostRemove(u)
         \/ \E j \in Jobs :
              /\ mapQueue' = Append(mapQueue, j) /\ j.session = u
              /\ PostRemove(u) => j.do = "remove"
              /\ j.do = "add" => Here(u)' \/ u \in crossed'
<1> DEFINE Appends == \E j \in Jobs :
              /\ mapQueue' = Append(mapQueue, j) /\ j.session = u
              /\ PostRemove(u) => j.do = "remove"
              /\ j.do = "add" => Here(u)' \/ u \in crossed'
<1>1. CASE Post(u)
  <2>1. /\ mapQueue' = Append(mapQueue, handling[u]) /\ handling[u] \in Jobs
        /\ handling[u].session = u /\ handling[u].do # "add"
    BY <1>1 DEF Post, TypeOK, MapJobs, InPackets
  <2>2. handling'[u] # handling[u]
    BY <1>1 DEF Post, TypeOK
  <2>3. ~ PostRemove(u)
    BY <2>2 DEF PostRemove
  <2> QED BY <2>1, <2>3
<1>2. CASE PostRemove(u)
  <2> DEFINE j == Job("remove", u, None)
  <2>1. j \in Jobs /\ j.do = "remove" /\ j.session = u
    BY JobIsJob
  <2>2. mapQueue' = Append(mapQueue, j)
    BY <1>2 DEF PostRemove
  <2> HIDE DEF j
  <2> QED BY <2>1, <2>2
<1>3. CASE PostAdd(u)
  <2> DEFINE j == Job("add", u, None)
  <2>1. j \in Jobs /\ j.do = "add" /\ j.session = u
    BY JobIsJob
  <2>2. /\ state' = state /\ dbQueue # dbQueue'
        /\ \/ UNCHANGED mapQueue
           \/ /\ mapQueue' = Append(mapQueue, j)
              /\ crossed' = IF state[u] = "gone" THEN crossed \cup {u} ELSE crossed
    <3>1. Tail(dbQueue) # dbQueue
      <4>1. dbQueue \in Seq(Jobs) /\ dbQueue # <<>>
        BY <1>3, Entering DEF PostAdd, TypeOK
      <4>2. Len(Tail(dbQueue)) = Len(dbQueue) - 1 /\ Len(dbQueue) \in Nat
        BY <4>1
      <4> QED BY <4>2
    <3> QED BY <3>1, <1>3 DEF PostAdd
  <2>3. ~ PostRemove(u)
    BY <2>2 DEF PostRemove
  <2>4. state[u] \in {"in", "save", "remove", "gone"}
    BY <1>3, Entering, WorldAssumption DEF Lives, TypeOK, PostAdd
  <2> HIDE DEF j
  <2>5. mapQueue' = Append(mapQueue, j) => Here(u)' \/ u \in crossed' \/ UNCHANGED mapQueue
    BY <2>2, <2>4 DEF Here
  <2> QED BY <2>1, <2>2, <2>3, <2>5
<1>4. CASE Update(u)
  <2> DEFINE j == Job("play", u, None)
  <2>1. j \in Jobs /\ j.do = "play" /\ j.session = u
    BY JobIsJob
  <2>2. mapQueue' = Append(mapQueue, j) /\ packets' = packets + 1 /\ packets \in Nat
    BY <1>4, WorldAssumption DEF Update, TypeOK
  <2>3. ~ PostRemove(u)
    BY <2>2 DEF PostRemove
  <2> HIDE DEF j
  <2> QED BY <2>1, <2>2, <2>3
<1> HIDE DEF Appends
<1>5. ASSUME NEW do, MapJob(do, u)
      PROVE  /\ mapQueue # <<>> /\ mapQueue' = Tail(mapQueue) /\ mapQueue[1].session = u
             /\ mapQueue[1].do = do
             /\ ~ PostRemove(u)
  <2>1. /\ mapQueue # <<>> /\ mapQueue' = Tail(mapQueue)
        /\ mapQueue[1].session = u /\ mapQueue[1].do = do
    BY <1>5, OnTheMap
  <2>2. mapQueue \in Seq(Jobs) /\ Job("remove", u, None) \in Jobs
    BY JobIsJob DEF TypeOK
  <2>3. /\ Len(Tail(mapQueue)) = Len(mapQueue) - 1 /\ Len(mapQueue) \in Nat
        /\ Len(Append(mapQueue, Job("remove", u, None))) = Len(mapQueue) + 1
    BY <2>1, <2>2
  <2>4. Tail(mapQueue) # Append(mapQueue, Job("remove", u, None))
    BY <2>3
  <2>5. ~ PostRemove(u)
    BY <2>1, <2>4 DEF PostRemove
  <2> QED BY <2>1, <2>5
<1>6. CASE AddPlayer(u) \/ RemoveObject(u) \/ OnPlayerMove(u) \/ OnRevive(u) \/ Play(u)
  BY <1>5, <1>6 DEF AddPlayer, RemoveObject, OnPlayerMove, OnRevive, Play
<1>7. CASE \/ \E c \in Characters : Enter(u, c)
           \/ \E x \in Cells : Receive(u, "move", x)
           \/ Receive(u, "revive", None) \/ Receive(u, "play", None)
           \/ OnDisconnected(u) \/ PostSave(u)
           \/ Refuse(u) \/ Load(u) \/ SetPlayer(u) \/ SavePlayer(u)
  <2>1. mapQueue' = mapQueue
    BY <1>7 DEF Enter, Receive, OnDisconnected, PostSave, Refuse, Load, SetPlayer, SavePlayer
  <2>2. mapQueue \in Seq(Jobs) /\ Job("remove", u, None) \in Jobs
    BY JobIsJob DEF TypeOK
  <2>3. /\ Len(mapQueue) \in Nat
        /\ Len(Append(mapQueue, Job("remove", u, None))) = Len(mapQueue) + 1
    BY <2>2
  <2>4. mapQueue # Append(mapQueue, Job("remove", u, None))
    BY <2>3
  <2> QED BY <2>1, <2>4 DEF PostRemove
<1> QED BY <1>1, <1>2, <1>3, <1>4, <1>6, <1>7 DEF StepOf, Appends

\* A step leaves no player behind that is about to be added.
LEMMA AddsFollowedKept ==
  ASSUME TypeOK, Lives, DbJobs, MapJobs, AddsFollowed, NEW u \in Sessions, StepOf(u)
  PROVE  AddsFollowed'
<1>0. mapQueue \in Seq(Jobs)
  BY DEF TypeOK
<1> DEFINE Follows(q, i, s) == \E j \in DOMAIN q : i < j /\ q[j].do = "remove" /\ q[j].session = s
<1>1. SUFFICES ASSUME NEW i \in DOMAIN mapQueue', mapQueue'[i].do = "add",
                      NEW s \in Sessions, mapQueue'[i].session = s
               PROVE  Here(s)' \/ s \in crossed' \/ Follows(mapQueue', i, s)
  <2>1. mapQueue' \in Seq(Jobs)
    BY TypeOKKept DEF TypeOK
  <2> QED BY <2>1, QueuedAreJobs DEF AddsFollowed, Here
<1>2. ASSUME NEW k \in DOMAIN mapQueue, mapQueue[k].do = "add", mapQueue[k].session = s
      PROVE  Here(s)' \/ s \in crossed' \/ Follows(mapQueue, k, s) \/ (PostRemove(u) /\ s = u)
  <2>1. Accounted(s)
    BY <1>2 DEF MapJobs
  <2>2. Here(s) \/ s \in crossed \/ Follows(mapQueue, k, s)
    BY <1>2 DEF AddsFollowed, Here
  <2> QED BY <2>1, <2>2, LeavesByRemove
<1>3. CASE mapQueue' = mapQueue /\ ~ PostRemove(u)
  BY <1>1, <1>2, <1>3
<1>4. CASE mapQueue # <<>> /\ mapQueue' = Tail(mapQueue) /\ ~ PostRemove(u)
  <2>1. i \in Nat /\ i + 1 \in DOMAIN mapQueue /\ mapQueue'[i] = mapQueue[i + 1]
    BY <1>0, <1>4, Taken
  <2>2. ASSUME Follows(mapQueue, i + 1, s) PROVE Follows(mapQueue', i, s)
    <3>1. PICK j \in DOMAIN mapQueue : /\ i + 1 < j
                                       /\ mapQueue[j].do = "remove" /\ mapQueue[j].session = s
      BY <2>2
    <3>2. j \in Nat \ {0} /\ j # 1
      BY <1>0, <1>4, <3>1, <2>1, Taken
    <3>3. j - 1 \in DOMAIN mapQueue' /\ mapQueue'[j - 1] = mapQueue[j]
      BY <1>0, <1>4, <3>2, Taken
    <3>4. i < j - 1
      BY <3>1, <3>2, <2>1
    <3> QED BY <3>1, <3>3, <3>4
  <2> HIDE DEF Follows
  <2>3. Here(s)' \/ s \in crossed' \/ Follows(mapQueue, i + 1, s)
    BY <1>1, <1>2, <1>4, <2>1
  <2> QED BY <2>2, <2>3
<1>5. ASSUME NEW j \in Jobs, mapQueue' = Append(mapQueue, j), j.session = u,
             PostRemove(u) => j.do = "remove", j.do = "add" => Here(u)' \/ u \in crossed'
      PROVE  Here(s)' \/ s \in crossed' \/ Follows(mapQueue', i, s)
  <2> DEFINE n == Len(mapQueue) + 1
  <2>1. /\ DOMAIN mapQueue' = DOMAIN mapQueue \cup {n} /\ mapQueue'[n] = j
        /\ \A k \in DOMAIN mapQueue : mapQueue'[k] = mapQueue[k] /\ k < n
    BY <1>0, <1>5, Appended
  <2> HIDE DEF n
  <2>2. CASE i = n
    BY <2>1, <2>2, <1>1, <1>5
  <2>3. CASE i \in DOMAIN mapQueue
    <3>1. mapQueue[i].do = "add" /\ mapQueue[i].session = s
      BY <1>1, <2>1, <2>3
    <3>2. Here(s)' \/ s \in crossed' \/ Follows(mapQueue, i, s) \/ (PostRemove(u) /\ s = u)
      BY <1>2, <2>3, <3>1
    <3>3. Follows(mapQueue, i, s) => Follows(mapQueue', i, s)
      BY <2>1
    <3>4. PostRemove(u) /\ s = u => Follows(mapQueue', i, s)
      BY <2>1, <2>3, <1>5
    <3> HIDE DEF Follows
    <3> QED BY <3>2, <3>3, <3>4
  <2> QED BY <2>1, <2>2, <2>3
<1> HIDE DEF Follows
<1> QED BY <1>3, <1>4, <1>5, MapQueueSteps

\* A step leaves no player on the map behind.
LEMMA NoGhostKept ==
  ASSUME TypeOK, Lives, DbJobs, MapJobs, MapAgrees, AddsFollowed, NoGhost,
         NEW u \in Sessions, StepOf(u)
  PROVE  NoGhost'
<1>0. mapQueue \in Seq(Jobs) /\ objects \subseteq Sessions /\ objects' \subseteq Sessions
  BY TypeOKKept DEF TypeOK
<1>1. SUFFICES ASSUME NEW s \in objects'
               PROVE  Here(s)' \/ Waits(mapQueue', "remove", s) \/ s \in crossed'
  <2>1. TypeOK' /\ (TypeOK' => (NoGhost' <=>
           \A t \in objects' : Here(t)' \/ Waits(mapQueue', "remove", t) \/ t \in crossed'))
    <3>1. TypeOK'
      BY TypeOKKept
    <3>2. \A t \in objects' : (\E j \in Range(mapQueue') : j.do = "remove" /\ j.session = t)
                              <=> Waits(mapQueue', "remove", t)
      BY DEF Range, Waits
    <3> QED BY <3>1, <3>2 DEF NoGhost, RemovePending, Here
  <2> QED BY <2>1
<1>2. s \in Sessions
  BY <1>0
<1>3. ASSUME AddPlayer(u), s = u, s \notin objects
      PROVE  Here(s)' \/ Waits(mapQueue', "remove", s) \/ s \in crossed'
  <2>1. /\ mapQueue # <<>> /\ 1 \in DOMAIN mapQueue /\ mapQueue' = Tail(mapQueue)
        /\ mapQueue[1].do = "add" /\ mapQueue[1].session = s
    BY <1>3, OnTheMap DEF AddPlayer
  <2>2. state' = state /\ crossed' = crossed
    BY <1>3 DEF AddPlayer
  <2>3. \/ Here(s) \/ s \in crossed
        \/ \E j \in DOMAIN mapQueue : 1 < j /\ mapQueue[j].do = "remove" /\ mapQueue[j].session = s
    BY <2>1 DEF AddsFollowed, Here
  <2>4. (\E j \in DOMAIN mapQueue : 1 < j /\ mapQueue[j].do = "remove" /\ mapQueue[j].session = s)
          => Waits(mapQueue, "remove", s)
    BY DEF Waits
  <2>5. Waits(mapQueue, "remove", s) => Waits(mapQueue', "remove", s)
    BY <2>1, <1>0, WaitsTaken
  <2> QED BY <2>2, <2>3, <2>4, <2>5 DEF Here
<1>4. ASSUME s \in objects, ~ (RemoveObject(u) /\ s = u)
      PROVE  Here(s)' \/ Waits(mapQueue', "remove", s) \/ s \in crossed'
  <2>1. Here(s) \/ Waits(mapQueue, "remove", s) \/ s \in crossed
    BY <1>4, GhostsWait
  <2>2. Accounted(s)
    BY <1>4 DEF MapJobs
  <2>3. \/ Here(s)' \/ (PostRemove(u) /\ s = u)
        \/ Waits(mapQueue, "remove", s) \/ s \in crossed'
    BY <2>1, <2>2, <1>2, LeavesByRemove
  <2>4. CASE mapQueue' = mapQueue /\ ~ PostRemove(u)
    BY <2>3, <2>4
  <2>5. CASE /\ mapQueue # <<>> /\ mapQueue' = Tail(mapQueue) /\ mapQueue[1].session = u
             /\ mapQueue[1].do = "remove" => RemoveObject(u)
             /\ ~ PostRemove(u)
    <3>1. Waits(mapQueue, "remove", s) =>
            Waits(mapQueue', "remove", s) \/ (mapQueue[1].do = "remove" /\ s = u)
      BY <2>5, <1>0, WaitsTaken
    <3> QED BY <3>1, <2>3, <2>5, <1>4
  <2>6. ASSUME NEW j \in Jobs, mapQueue' = Append(mapQueue, j), j.session = u,
               PostRemove(u) => j.do = "remove"
        PROVE  Here(s)' \/ Waits(mapQueue', "remove", s) \/ s \in crossed'
    <3>1. Waits(mapQueue', "remove", s) <=>
            Waits(mapQueue, "remove", s) \/ (j.do = "remove" /\ j.session = s)
      BY <2>6, <1>0, WaitsAppended
    <3> QED BY <3>1, <2>3, <2>6
  <2> QED BY <2>4, <2>5, <2>6, MapQueueSteps
<1>5. s \in objects \/ (AddPlayer(u) /\ s = u)
  <2>1. objects' = objects \/ AddPlayer(u) \/ RemoveObject(u)
    BY DEF StepOf, Enter, Receive, Post, OnDisconnected, PostSave, PostRemove, Refuse, Load,
       SetPlayer, PostAdd, SavePlayer, OnPlayerMove, OnRevive, Update, Play
  <2>2. AddPlayer(u) => objects' \subseteq objects \cup {u}
    BY DEF AddPlayer
  <2>3. RemoveObject(u) => objects' \subseteq objects
    BY DEF RemoveObject
  <2> QED BY <2>1, <2>2, <2>3
<1>6. ASSUME RemoveObject(u), s = u, s \in objects PROVE FALSE
  <2>1. players[character[u]] # None
    BY <1>6, OnePlayer, <1>2, WorldAssumption
  <2>2. objects' = objects \ {u}
    BY <1>6, <2>1 DEF RemoveObject
  <2> QED BY <2>2, <1>6
<1> QED BY <1>3, <1>4, <1>5, <1>6
-----------------------------------------------------------------------------
(* Progress *)

\* A session has one character for good, and a character that is not sound stays so.
LEMMA SoundKept ==
  ASSUME TypeOK, Lives, DbJobs, MapJobs, NEW u \in Sessions, StepOf(u)
  PROVE  /\ \A s \in Sessions : \/ character'[s] = character[s]
                                \/ s = u /\ \E c \in Characters : Enter(u, c)
         /\ \A c \in Characters : Sound(c)' => Sound(c)
<1>1. \A s \in Sessions : \/ character'[s] = character[s]
                          \/ s = u /\ \E c \in Characters : Enter(u, c)
  <2>1. ASSUME NEW c \in Characters, Enter(u, c), NEW s \in Sessions, s # u
        PROVE  character'[s] = character[s]
    BY <2>1 DEF Enter, TypeOK
  <2>2. character' = character \/ \E c \in Characters : Enter(u, c)
    BY DEF StepOf, Receive, Post, OnDisconnected, PostSave, PostRemove, Refuse, Load, SetPlayer,
       PostAdd, SavePlayer, AddPlayer, RemoveObject, OnPlayerMove, OnRevive, Update, Play
  <2> QED BY <2>1, <2>2
<1>2. risked \subseteq risked'
  <2>1. UNCHANGED risked \/ (\E c \in Characters : Enter(u, c)) \/ SavePlayer(u) \/ OnRevive(u)
        \/ Play(u)
    BY DEF StepOf, Receive, Post, OnDisconnected, PostSave, PostRemove, Refuse, Load, SetPlayer,
       PostAdd, AddPlayer, RemoveObject, OnPlayerMove, Update
  <2> QED BY <2>1 DEF Enter, SavePlayer, TrySaveToDb, OnRevive, Play, Change
<1>3. \A s \in Sessions : Crosses(s) => Crosses(s)'
  BY CrossesKept
<1>4. \A s \in Sessions : Crosses(s) => character'[s] = character[s]
  <2>1. \A c \in Characters : Enter(u, c) => ~ Crosses(u)
    BY Newcomer DEF Enter, Crosses
  <2> QED BY <2>1, <1>1
<1>5. \A c \in Characters : Sound(c)' => Sound(c)
  BY <1>2, <1>3, <1>4 DEF Sound
<1> QED BY <1>1, <1>5

\* An enter job stays behind a save job, unless the save job is executed or it is posted again.
LEMMA BehindKept ==
  ASSUME NEW q \in Seq(Jobs), NEW r, NEW s, NEW t, Behind(q, s, t),
         \/ r = q
         \/ q # <<>> /\ r = Tail(q) /\ ~ (q[1].do = "save" /\ q[1].session = t)
         \/ \E j \in Jobs : r = Append(q, j) /\ ~ (j.do = "enter" /\ j.session = s)
  PROVE  Behind(r, s, t)
<1>1. CASE r = q
  BY <1>1
<1>2. CASE q # <<>> /\ r = Tail(q) /\ ~ (q[1].do = "save" /\ q[1].session = t)
  <2>1. SUFFICES ASSUME NEW i \in DOMAIN r, r[i].do = "enter", r[i].session = s
                 PROVE  \E j \in DOMAIN r : j < i /\ r[j].do = "save" /\ r[j].session = t
    BY DEF Behind
  <2>2. i \in Nat /\ i + 1 \in DOMAIN q /\ r[i] = q[i + 1]
    BY <1>2, Taken
  <2>3. PICK j \in DOMAIN q : j < i + 1 /\ q[j].do = "save" /\ q[j].session = t
    BY <2>1, <2>2 DEF Behind
  <2>4. j \in Nat \ {0} /\ j # 1
    BY <2>3, <1>2, Taken
  <2>5. j - 1 \in DOMAIN r /\ r[j - 1] = q[j] /\ j - 1 < i
    BY <2>2, <2>3, <2>4, <1>2, Taken
  <2> QED BY <2>3, <2>5
<1>3. ASSUME NEW j \in Jobs, r = Append(q, j), ~ (j.do = "enter" /\ j.session = s)
      PROVE  Behind(r, s, t)
  <2> DEFINE n == Len(q) + 1
  <2>1. /\ DOMAIN r = DOMAIN q \cup {n} /\ r[n] = j
        /\ \A i \in DOMAIN q : r[i] = q[i]
    BY <1>3, Appended
  <2> HIDE DEF n
  <2> QED BY <2>1, <1>3 DEF Behind
<1> QED BY <1>1, <1>2, <1>3

\* A step posts a job to the PlayerDbQueue, takes one from it or leaves it alone.
LEMMA DbQueueSteps ==
  ASSUME TypeOK, Lives, DbJobs, MapJobs, NEW u \in Sessions, StepOf(u)
  PROVE  \/ dbQueue' = dbQueue
         \/ /\ dbQueue # <<>> /\ dbQueue' = Tail(dbQueue) /\ dbQueue[1].session = u
            /\ dbQueue[1].do = "save" => SavePlayer(u)
         \/ \E j \in Jobs : /\ dbQueue' = Append(dbQueue, j) /\ j.session = u
                            /\ j.do = "enter" => \E c \in Characters : Enter(u, c)
<1>1. ASSUME NEW c \in Characters, Enter(u, c)
      PROVE  \E j \in Jobs : /\ dbQueue' = Append(dbQueue, j) /\ j.session = u
                             /\ j.do = "enter" => \E d \in Characters : Enter(u, d)
  <2> DEFINE j == Job("enter", u, None)
  <2>1. j \in Jobs /\ j.do = "enter" /\ j.session = u
    BY JobIsJob
  <2>2. dbQueue' = Append(dbQueue, j)
    BY <1>1 DEF Enter
  <2> HIDE DEF j
  <2> QED BY <2>1, <2>2, <1>1
<1>2. CASE PostSave(u)
  <2> DEFINE j == Job("save", u, None)
  <2>1. j \in Jobs /\ j.do = "save" /\ j.session = u
    BY JobIsJob
  <2>2. dbQueue' = Append(dbQueue, j)
    BY <1>2 DEF PostSave
  <2> HIDE DEF j
  <2> QED BY <2>1, <2>2
<1>3. CASE Refuse(u)
  BY <1>3, Entering DEF Refuse
<1>4. CASE PostAdd(u)
  BY <1>4, Entering DEF PostAdd
<1>5. CASE SavePlayer(u)
  BY <1>5, Saving DEF SavePlayer
<1>6. CASE \/ \E x \in Cells : Receive(u, "move", x)
           \/ Receive(u, "revive", None) \/ Receive(u, "play", None)
           \/ Post(u) \/ OnDisconnected(u) \/ PostRemove(u) \/ Load(u) \/ SetPlayer(u)
           \/ AddPlayer(u) \/ RemoveObject(u) \/ OnPlayerMove(u) \/ OnRevive(u)
           \/ Update(u) \/ Play(u)
  BY <1>6 DEF Receive, Post, OnDisconnected, PostRemove, Load, SetPlayer, AddPlayer, RemoveObject,
     OnPlayerMove, OnRevive, Update, Play
<1> QED BY <1>1, <1>2, <1>3, <1>4, <1>5, <1>6 DEF StepOf

\* A session plays from Enter on, until its save is posted, or until it is gone.
LEMMA PlayingKept ==
  ASSUME TypeOK, NEW u \in Sessions, StepOf(u), NEW s \in Sessions
  PROVE  Playing(s)' => Playing(s) \/ (s = u /\ \E c \in Characters : Enter(u, c))
<1>1. ASSUME NEW c \in Characters, Enter(u, c), s # u PROVE Playing(s)' => Playing(s)
  BY <1>1 DEF Enter, Playing, TypeOK
<1>2. CASE OnDisconnected(u) \/ PostSave(u) \/ PostRemove(u)
  BY <1>2 DEF OnDisconnected, PostSave, PostRemove, Playing, TypeOK
<1>3. ASSUME UNCHANGED state PROVE Playing(s)' => Playing(s)
  BY <1>3 DEF Playing
<1>4. CASE \/ \E x \in Cells : Receive(u, "move", x)
           \/ Receive(u, "revive", None) \/ Receive(u, "play", None)
           \/ Post(u) \/ Refuse(u) \/ Load(u) \/ SetPlayer(u) \/ PostAdd(u) \/ SavePlayer(u)
           \/ AddPlayer(u) \/ RemoveObject(u) \/ OnPlayerMove(u) \/ OnRevive(u)
           \/ Update(u) \/ Play(u)
  BY <1>3, <1>4 DEF Receive, Post, Refuse, Load, SetPlayer, PostAdd, SavePlayer, AddPlayer,
     RemoveObject, OnPlayerMove, OnRevive, Update, Play
<1> QED BY <1>1, <1>2, <1>4 DEF StepOf

\* SavePlayer is the end of a player, and a player is set once.
LEMMA OwnersChange ==
  ASSUME TypeOK, Lives, DbJobs, MapJobs, NEW u \in Sessions
  PROVE  /\ SavePlayer(u) => Owns(u) /\ ~ Owns(u)' /\ state'[u] = state[u]
         /\ SetPlayer(u) =>
              /\ ~ Owns(u) /\ (Owns(u)' => Playing(u)) /\ state' = state
              /\ dbQueue' = dbQueue /\ 1 \in DOMAIN dbQueue
              /\ dbQueue[1].do = "enter" /\ dbQueue[1].session = u /\ dbStep = "set"
<1>1. ASSUME SavePlayer(u) PROVE Owns(u) /\ ~ Owns(u)' /\ state'[u] = state[u]
  BY <1>1, Saving DEF SavePlayer, Owns
<1>2. ASSUME SetPlayer(u)
      PROVE  /\ ~ Owns(u) /\ (Owns(u)' => Playing(u)) /\ state' = state
             /\ dbQueue' = dbQueue /\ 1 \in DOMAIN dbQueue
             /\ dbQueue[1].do = "enter" /\ dbQueue[1].session = u /\ dbStep = "set"
  <2>1. state' = state /\ dbQueue' = dbQueue
    BY <1>2 DEF SetPlayer
  <2>2. /\ ~ Owns(u) /\ ~ Waits(dbQueue, "save", u) /\ 1 \in DOMAIN dbQueue
        /\ dbQueue[1].do = "enter" /\ dbQueue[1].session = u /\ dbStep = "set"
    BY <1>2, Entering DEF SetPlayer
  <2> QED BY <2>1, <2>2 DEF Owns, Playing
<1> QED BY <1>1, <1>2

\* Nobody else owns a character when SetPlayer gives it to a session that plays.
LEMMA AloneAtSet ==
  ASSUME TypeOK, Lives, DbJobs, MapJobs, OneOwner, NEW u \in Sessions, SetPlayer(u), Playing(u),
         NEW c \in Characters, Sound(c), character[u] = c,
         NEW t \in Sessions, t # u, character[t] = c
  PROVE  ~ Owns(t)
<1>1. SUFFICES ASSUME Owns(t) PROVE FALSE
  OBVIOUS
<1>2. Behind(dbQueue, u, t)
  BY <1>1 DEF OneOwner
<1>3. \E j \in DOMAIN dbQueue : j < 1
  BY <1>2, OwnersChange DEF Behind
<1>4. dbQueue \in Seq(Jobs)
  BY DEF TypeOK
<1>5. DOMAIN dbQueue = 1 .. Len(dbQueue)
  BY <1>4
<1> QED BY <1>3, <1>5

\* A step keeps at most one session in charge of a character.
LEMMA OneOwnerKept ==
  ASSUME TypeOK, Lives, DbJobs, MapJobs, OneOwner, NEW u \in Sessions, StepOf(u)
  PROVE  OneOwner'
<1>0. dbQueue \in Seq(Jobs)
  BY DEF TypeOK
<1>1. SUFFICES ASSUME NEW c \in Characters, NEW s \in Sessions, NEW t \in Sessions, s # t,
                      character'[s] = c, character'[t] = c, Sound(c)'
               PROVE  /\ ~ (Playing(s)' /\ Playing(t)')
                      /\ ~ (Owns(s)' /\ Owns(t)')
                      /\ Playing(s)' /\ Owns(t)' => Behind(dbQueue', s, t)
  BY DEF OneOwner
<1>2. Sound(c) /\ c \notin risked'
  BY <1>1, SoundKept DEF Sound
<1>3. ASSUME NEW d \in Characters, Enter(u, d), s = u \/ t = u
      PROVE  /\ ~ (Playing(s)' /\ Playing(t)')
             /\ ~ (Owns(s)' /\ Owns(t)')
             /\ Playing(s)' /\ Owns(t)' => Behind(dbQueue', s, t)
  <2> DEFINE j == Job("enter", u, None)
  <2>1. /\ \A r \in Sessions \ {u} : state'[r] = state[r] /\ character'[r] = character[r]
        /\ character'[u] = d /\ dbQueue' = Append(dbQueue, j)
        /\ risked' = IF Overlaps(u, d) THEN risked \cup {d} ELSE risked
    BY <1>3 DEF Enter, TypeOK
  <2>2. j \in Jobs /\ j.do = "enter" /\ j.session = u
    BY JobIsJob
  <2>3. d = c
    BY <1>1, <1>3, <2>1
  <2>4. \A r \in Sessions \ {u} : character[r] = c => ~ Playing(r) /\ ~ Playing(r)'
    BY <2>1, <2>3, <1>2 DEF Overlaps, Playing
  <2>5. ~ Owns(u) /\ ~ Owns(u)' /\ \A i \in DOMAIN dbQueue : dbQueue[i].session # u
    <3>1. ~ Owns(u) /\ u \notin player /\ \A i \in DOMAIN dbQueue : dbQueue[i].session # u
      BY <1>3, Newcomer DEF Enter
    <3>2. player' = player
      BY <1>3 DEF Enter
    <3> QED BY <3>1, <3>2 DEF Owns
  <2>6. ASSUME Playing(s)', Owns(t)' PROVE Behind(dbQueue', s, t)
    <3>1. s = u /\ t # u /\ character[t] = c /\ state'[t] = state[t]
      BY <2>5, <2>6, <1>1, <1>3, <2>1
    <3>2. Waits(dbQueue', "save", t) /\ ~ Playing(t)
      BY <2>4, <2>6, <3>1 DEF Owns, Playing
    <3>3. Waits(dbQueue, "save", t)
      BY <3>2, <2>1, <2>2, <1>0, WaitsAppended
    <3>4. PICK k \in DOMAIN dbQueue : dbQueue[k].do = "save" /\ dbQueue[k].session = t
      BY <3>3 DEF Waits
    <3> DEFINE n == Len(dbQueue) + 1
    <3>5. /\ DOMAIN dbQueue' = DOMAIN dbQueue \cup {n} /\ k < n
          /\ \A i \in DOMAIN dbQueue : dbQueue'[i] = dbQueue[i]
      BY <1>0, <2>1, <2>2, Appended
    <3> HIDE DEF n
    <3> QED BY <3>1, <3>4, <3>5, <2>5 DEF Behind
  <2> QED BY <2>1, <2>4, <2>5, <2>6, <1>1, <1>3
<1>4. ASSUME ~ ((\E d \in Characters : Enter(u, d)) /\ (s = u \/ t = u))
      PROVE  /\ ~ (Playing(s)' /\ Playing(t)')
             /\ ~ (Owns(s)' /\ Owns(t)')
             /\ Playing(s)' /\ Owns(t)' => Behind(dbQueue', s, t)
  <2>1. character[s] = c /\ character[t] = c
    BY <1>1, <1>4, SoundKept
  <2>2. /\ ~ (Playing(s) /\ Playing(t))
        /\ ~ (Owns(s) /\ Owns(t))
        /\ Playing(s) /\ Owns(t) => Behind(dbQueue, s, t)
    BY <1>1, <1>2, <2>1 DEF OneOwner
  <2>3. (Playing(s)' => Playing(s)) /\ (Playing(t)' => Playing(t))
    BY <1>4, PlayingKept
  <2>4. /\ Owns(s)' => Owns(s) \/ (SetPlayer(u) /\ s = u)
        /\ Owns(t)' => Owns(t) \/ (SetPlayer(u) /\ t = u)
    BY Ownership
  <2>5. ~ (Owns(s)' /\ Owns(t)')
    <3>1. SetPlayer(u) /\ s = u /\ Owns(s)' => ~ Owns(t)
      BY <1>1, <1>2, <2>1, AloneAtSet, OwnersChange
    <3>2. SetPlayer(u) /\ t = u /\ Owns(t)' => ~ Owns(s)
      BY <1>1, <1>2, <2>1, AloneAtSet, OwnersChange
    <3> QED BY <3>1, <3>2, <2>2, <2>4, <1>1
  <2>6. ASSUME Playing(s)', Owns(t)' PROVE Behind(dbQueue', s, t)
    <3>1. ~ (SetPlayer(u) /\ t = u)
      BY <2>2, <2>3, <2>6, OwnersChange
    <3>2. Behind(dbQueue, s, t)
      BY <3>1, <2>2, <2>3, <2>4, <2>6
    <3>3. ~ (SavePlayer(u) /\ t = u)
      BY <2>6, OwnersChange
    <3>4. \/ dbQueue' = dbQueue
          \/ /\ dbQueue # <<>> /\ dbQueue' = Tail(dbQueue)
             /\ ~ (dbQueue[1].do = "save" /\ dbQueue[1].session = t)
          \/ \E j \in Jobs : dbQueue' = Append(dbQueue, j) /\ ~ (j.do = "enter" /\ j.session = s)
      BY <3>3, <1>4, DbQueueSteps
    <3> QED BY <3>2, <3>4, <1>0, BehindKept
  <2> QED BY <2>2, <2>3, <2>5, <2>6
<1> QED BY <1>3, <1>4

\* A job that changes a character does so for a player that is accounted for, and risks the
\* progress of one that was saved already.
LEMMA ChangeStep ==
  ASSUME TypeOK, MapJobs, NEW u \in Sessions, Play(u) \/ OnRevive(u)
  PROVE  /\ UNCHANGED <<state, player, dbQueue, dbStep, saved, crossed, character, db, homeless>>
         /\ Accounted(u) /\ u \in player /\ character[u] \in Characters
         /\ loaded'[u] = loaded[u] + 1 /\ \A s \in Sessions \ {u} : loaded'[s] = loaded[s]
         /\ earned'[character[u]] = earned[character[u]] + 1
         /\ \A c \in Characters \ {character[u]} : earned'[c] = earned[c]
         /\ u \in saved => character[u] \in risked'
<1>1. /\ UNCHANGED <<state, player, dbQueue, dbStep, saved, crossed, character, db, homeless>>
      /\ Change(u) /\ \E do : MapJob(do, u)
  BY DEF Play, OnRevive
<1>2. Accounted(u) /\ u \in player /\ character[u] \in Characters
  BY <1>1, OnTheMap
<1> QED BY <1>1, <1>2 DEF Change, TypeOK

\* What other steps do to the progress of the characters.
LEMMA ValueSteps ==
  ASSUME TypeOK, DbJobs, NEW u \in Sessions, StepOf(u), ~ Play(u), ~ OnRevive(u)
  PROVE  /\ earned' = earned
         /\ \A s \in Sessions : loaded'[s] = loaded[s] \/ (Load(u) /\ s = u)
         /\ db' = db \/ SavePlayer(u)
         /\ Load(u) => loaded'[u] = db[character[u]]
         /\ dbStep' = "set" => dbStep = "set" \/ Load(u)
<1>1. earned' = earned
  BY DEF StepOf, Enter, Receive, Post, OnDisconnected, PostSave, PostRemove, Refuse, Load,
     SetPlayer, PostAdd, SavePlayer, AddPlayer, RemoveObject, OnPlayerMove, Update
<1>2. loaded' = loaded \/ Load(u)
  BY DEF StepOf, Enter, Receive, Post, OnDisconnected, PostSave, PostRemove, Refuse,
     SetPlayer, PostAdd, SavePlayer, AddPlayer, RemoveObject, OnPlayerMove, Update
<1>3. Load(u) => loaded' = [loaded EXCEPT ![u] = db[character[u]]]
  BY DEF Load, TryLoadFromDb
<1>4. db' = db \/ SavePlayer(u)
  BY DEF StepOf, Enter, Receive, Post, OnDisconnected, PostSave, PostRemove, Refuse, Load,
     SetPlayer, PostAdd, AddPlayer, RemoveObject, OnPlayerMove, Update
<1>5. dbStep' = "set" => dbStep = "set" \/ Load(u)
  BY DEF StepOf, Enter, Receive, Post, OnDisconnected, PostSave, PostRemove, Refuse,
     SetPlayer, PostAdd, SavePlayer, AddPlayer, RemoveObject, OnPlayerMove, Update
<1> QED BY <1>1, <1>2, <1>3, <1>4, <1>5 DEF TypeOK

\* A step keeps what a session is loading as it is in the database.
LEMMA LoadsFreshKept ==
  ASSUME TypeOK, Lives, DbJobs, MapJobs, LoadsFresh, NEW u \in Sessions, StepOf(u)
  PROVE  LoadsFresh'
<1>0. dbQueue \in Seq(Jobs)
  BY DEF TypeOK
<1>1. SUFFICES ASSUME dbStep' = "set", NEW s \in Sessions, dbQueue'[1].session = s
               PROVE  loaded'[s] = db'[character'[s]]
  BY DEF LoadsFresh
<1>2. CASE Load(u)
  <2>1. UNCHANGED <<dbQueue, db, character>>
    BY <1>2 DEF Load
  <2>2. s = u
    BY <1>1, <1>2, <2>1, Entering DEF Load
  <2>3. loaded'[u] = db[character[u]]
    BY <1>2 DEF Load, TryLoadFromDb, TypeOK
  <2> QED BY <2>1, <2>2, <2>3
<1>3. CASE ~ Load(u)
  <2>1. dbStep = "set"
    BY <1>1, <1>3, ValueSteps, ChangeStep
  <2>2. dbQueue # <<>> /\ 1 \in DOMAIN dbQueue /\ dbQueue[1].do = "enter"
    BY <2>1, <1>0, Taken DEF DbJobs
  <2>3. dbQueue'[1].session = dbQueue[1].session
    <3>1. ~ Refuse(u) /\ ~ PostAdd(u) /\ ~ SavePlayer(u)
      BY <2>1 DEF Refuse, PostAdd, SavePlayer, DbJob
    <3>2. ASSUME NEW j \in Jobs, dbQueue' = Append(dbQueue, j) PROVE dbQueue'[1] = dbQueue[1]
      BY <3>2, <2>2, <1>0, Appended
    <3>3. (\E c \in Characters : Enter(u, c)) \/ PostSave(u) \/ dbQueue' = dbQueue
      BY <3>1 DEF StepOf, Receive, Post, OnDisconnected, PostRemove, Load, SetPlayer,
         AddPlayer, RemoveObject, OnPlayerMove, OnRevive, Update, Play
    <3>4. (\E c \in Characters : Enter(u, c)) \/ PostSave(u) =>
             \E j \in Jobs : dbQueue' = Append(dbQueue, j)
      BY JobIsJob DEF Enter, PostSave
    <3> QED BY <3>2, <3>3, <3>4
  <2>4. s \notin player /\ loaded[s] = db[character[s]]
    BY <1>1, <2>1, <2>2, <2>3 DEF LoadsFresh, DbJobs
  <2>5. character'[s] = character[s]
    <3>1. state[s] # "new"
      BY <1>1, <2>2, <2>3 DEF DbJobs, Lives
    <3> QED BY <3>1, SoundKept DEF Enter
  <2>6. db' = db
    <3>1. ~ SavePlayer(u)
      BY <2>1 DEF SavePlayer, DbJob
    <3> QED BY <3>1, ValueSteps, ChangeStep
  <2>7. loaded'[s] = loaded[s]
    BY <1>3, <2>4, ValueSteps, ChangeStep
  <2> QED BY <2>4, <2>5, <2>6, <2>7
<1> QED BY <1>2, <1>3

\* A session whose player changes is the one in charge of the character, when it is sound.
LEMMA ChangerOwns ==
  ASSUME TypeOK, Lives, DbJobs, MapJobs, NEW u \in Sessions, StepOf(u), Play(u) \/ OnRevive(u),
         Sound(character[u]), character[u] \notin risked'
  PROVE  Owns(u) /\ Owns(u)'
<1>1. Owns(u)
  BY ChangeStep DEF Accounted, Sound
<1>2. UNCHANGED <<state, player, dbQueue>>
  BY ChangeStep
<1> QED BY <1>1, <1>2 DEF Owns

\* A step keeps the progress of a character with the session in charge of it.
LEMMA OwnerHasAllKept ==
  ASSUME TypeOK, Lives, DbJobs, MapJobs, Progress, NEW u \in Sessions, StepOf(u)
  PROVE  OwnerHasAll'
<1>1. SUFFICES ASSUME NEW c \in Characters, NEW s \in Sessions,
                      character'[s] = c, Owns(s)', Sound(c)'
               PROVE  loaded'[s] = earned'[c]
  BY DEF OwnerHasAll
<1>2. Sound(c) /\ c \notin risked'
  BY <1>1, SoundKept DEF Sound
<1>3. Owns(s) \/ (SetPlayer(u) /\ s = u)
  BY <1>1, Ownership
<1>4. character[s] = c
  <2>1. ASSUME NEW d \in Characters, Enter(u, d), s = u PROVE FALSE
    BY <2>1, <1>3, Newcomer, Entering DEF Enter, SetPlayer, Lives
  <2> QED BY <2>1, <1>1, SoundKept
<1>5. CASE SetPlayer(u) /\ s = u /\ ~ Owns(s)
  <2>1. Playing(u) /\ dbStep = "set" /\ dbQueue[1].session = u
    BY <1>1, <1>5, OwnersChange
  <2>2. \A t \in Sessions : character[t] = c => ~ Owns(t)
    BY <2>1, <1>2, <1>4, <1>5, AloneAtSet DEF Progress
  <2>3. db[c] = earned[c] /\ loaded[u] = db[c]
    BY <2>1, <2>2, <1>2, <1>4, <1>5 DEF Progress, DbHasAll, LoadsFresh
  <2>4. UNCHANGED <<loaded, earned>>
    BY <1>5 DEF SetPlayer
  <2> QED BY <2>3, <2>4, <1>5
<1>6. CASE Owns(s)
  <2>1. loaded[s] = earned[c]
    BY <1>2, <1>4, <1>6 DEF Progress, OwnerHasAll
  <2>2. CASE Play(u) \/ OnRevive(u)
    <3>1. CASE character[u] # c
      BY <3>1, <2>1, <2>2, <1>4, ChangeStep
    <3>2. CASE character[u] = c
      <4>1. Owns(u)
        BY <3>2, <2>2, <1>2, ChangerOwns
      <4>2. s = u
        BY <4>1, <3>2, <1>2, <1>4, <1>6 DEF Progress, OneOwner
      <4> QED BY <4>2, <3>2, <2>1, <2>2, ChangeStep
    <3> QED BY <3>1, <3>2
  <2>3. CASE ~ Play(u) /\ ~ OnRevive(u)
    <3>1. ~ (Load(u) /\ s = u)
      BY <1>6, Entering DEF Load
    <3> QED BY <3>1, <2>1, <2>3, ValueSteps
  <2> QED BY <2>2, <2>3
<1> QED BY <1>3, <1>5, <1>6

\* A step keeps the progress of a character that nobody is in charge of in the database.
LEMMA DbHasAllKept ==
  ASSUME TypeOK, Lives, DbJobs, MapJobs, Progress, NEW u \in Sessions, StepOf(u)
  PROVE  DbHasAll'
<1>1. SUFFICES ASSUME NEW c \in Characters, Sound(c)',
                      \A s \in Sessions : character'[s] = c => ~ Owns(s)'
               PROVE  db'[c] = earned'[c]
  BY DEF DbHasAll
<1>2. Sound(c) /\ c \notin risked'
  BY <1>1, SoundKept DEF Sound
<1>3. \A s \in Sessions : character[s] = c => ~ Owns(s)'
  <2>1. ASSUME NEW s \in Sessions, character[s] = c, character'[s] # c PROVE FALSE
    <3>1. s = u /\ \E d \in Characters : Enter(u, d)
      BY <2>1, SoundKept
    <3>2. character[u] = None
      BY <3>1, Newcomer DEF Enter
    <3> QED BY <3>1, <3>2, <2>1, WorldAssumption
  <2> QED BY <2>1, <1>1
<1>4. CASE SavePlayer(u) /\ character[u] = c
  <2>1. Owns(u)
    BY <1>4, OwnersChange
  <2>2. loaded[u] = earned[c]
    BY <2>1, <1>2, <1>4 DEF Progress, OwnerHasAll
  <2>3. db' = [db EXCEPT ![c] = loaded[u]] /\ earned' = earned
    BY <1>4, <1>2 DEF SavePlayer, TrySaveToDb
  <2> QED BY <2>2, <2>3 DEF TypeOK
<1>5. CASE ~ (SavePlayer(u) /\ character[u] = c)
  <2>1. \A s \in Sessions : character[s] = c => ~ Owns(s)
    BY <1>3, <1>5, Ownership
  <2>2. db[c] = earned[c]
    BY <2>1, <1>2 DEF Progress, DbHasAll
  <2>3. CASE Play(u) \/ OnRevive(u)
    <3>1. character[u] # c
      BY <2>1, <2>3, <1>2, ChangerOwns
    <3> QED BY <3>1, <2>2, <2>3, ChangeStep
  <2>4. CASE ~ Play(u) /\ ~ OnRevive(u)
    <3>1. earned' = earned /\ (db' = db \/ SavePlayer(u))
      BY <2>4, ValueSteps
    <3>2. SavePlayer(u) => db'[c] = db[c]
      <4>1. SavePlayer(u) => db' = db \/ db' = [db EXCEPT ![character[u]] = loaded[u]]
        BY DEF SavePlayer, TrySaveToDb
      <4> QED BY <4>1, <1>5 DEF TypeOK
    <3> QED BY <3>1, <3>2, <2>2
  <2> QED BY <2>3, <2>4
<1> QED BY <1>4, <1>5
-----------------------------------------------------------------------------
(* The inductive invariant, and what follows from it *)

\* The invariant holds when the server starts.
LEMMA IInvInit == Init => IInv
<1> SUFFICES ASSUME Init PROVE IInv
  OBVIOUS
<1>0. None \notin Sessions /\ MaxPackets \in Nat
  BY WorldAssumption
<1>1. TypeOK
  BY <1>0 DEF Init, TypeOK
<1>2. DOMAIN dbQueue = {} /\ DOMAIN mapQueue = {}
  BY DEF Init
<1>3. Lives /\ DbJobs /\ AddsFollowed
  BY <1>2 DEF Init, Lives, DbJobs, AddsFollowed
<1>4. MapJobs
  BY <1>2 DEF Init, MapJobs
<1>5. MapAgrees /\ GridAgrees /\ NoGhost
  BY <1>0 DEF Init, MapAgrees, GridAgrees, NoGhost
<1>6. \A s \in Sessions : ~ Owns(s)
  BY DEF Init, Owns
<1>7. Progress
  BY <1>0, <1>6, WorldAssumption DEF Init, Progress, LoadsFresh, OneOwner, OwnerHasAll, DbHasAll
<1> QED BY <1>1, <1>3, <1>4, <1>5, <1>7 DEF IInv

\* Every step keeps it.
LEMMA IInvNext == IInv /\ [Next]_vars => IInv'
<1>1. ASSUME IInv, Next PROVE IInv'
  <2>1. PICK u \in Sessions : StepOf(u)
    BY <1>1, NextIsStep
  <2>2. /\ TypeOK /\ Lives /\ DbJobs /\ MapJobs /\ MapAgrees /\ GridAgrees /\ NoGhost
        /\ AddsFollowed /\ Progress
    BY <1>1 DEF IInv
  <2>3. TypeOK' /\ Lives' /\ DbJobs' /\ MapJobs'
    BY <2>1, <2>2, TypeOKKept, LivesKept, DbJobsKept, MapJobsKept
  <2>4. MapAgrees' /\ GridAgrees' /\ NoGhost' /\ AddsFollowed'
    BY <2>1, <2>2, MapAgreesKept, GridAgreesKept, NoGhostKept, AddsFollowedKept
  <2>5. LoadsFresh' /\ OneOwner' /\ OwnerHasAll' /\ DbHasAll'
    BY <2>1, <2>2, LoadsFreshKept, OneOwnerKept, OwnerHasAllKept, DbHasAllKept DEF Progress
  <2> QED BY <2>3, <2>4, <2>5 DEF IInv, Progress
<1>2. ASSUME IInv, UNCHANGED vars PROVE IInv'
  <2>1. TypeOK' /\ Lives' /\ DbJobs'
    BY <1>2 DEF IInv, vars, TypeOK, Lives, DbJobs, Waits
  <2>2. MapJobs'
    BY <1>2 DEF IInv, vars, MapJobs, Accounted, Crosses, Owns, Waits
  <2>3. MapAgrees' /\ GridAgrees' /\ NoGhost' /\ AddsFollowed'
    BY <1>2 DEF IInv, vars, MapAgrees, GridAgrees, NoGhost, RemovePending, AddsFollowed
  <2>4. Progress'
    BY <1>2 DEF IInv, vars, Progress, LoadsFresh, OneOwner, OwnerHasAll, DbHasAll, Sound, Playing,
       Crosses, Owns, Waits, Behind
  <2> QED BY <2>1, <2>2, <2>3, <2>4 DEF IInv
<1> QED BY <1>1, <1>2

\* When nobody is left of a character, the database has its progress.
LEMMA IInvNoProgressLost == IInv => NoProgressLost
<1> SUFFICES ASSUME IInv, NEW c \in Characters \ risked,
                    \A s \in Sessions : character[s] = c => Quiet(s) /\ s \notin crossed
             PROVE  db[c] = earned[c]
  BY DEF NoProgressLost
<1>1. Sound(c) /\ \A s \in Sessions : character[s] = c => ~ Owns(s)
  <2>1. SUFFICES ASSUME NEW s \in Sessions, character[s] = c PROVE ~ Crosses(s) /\ ~ Owns(s)
    BY DEF Sound
  <2>2. dbQueue \in Seq(Jobs) /\ mapQueue \in Seq(Jobs)
    BY DEF IInv, TypeOK
  <2>3. \A i \in DOMAIN dbQueue : dbQueue[i].session # s
    <3>1. \A i \in DOMAIN dbQueue : dbQueue[i] \in Range(dbQueue \o mapQueue)
      <4>1. \A i \in DOMAIN dbQueue : /\ i \in DOMAIN (dbQueue \o mapQueue)
                                      /\ (dbQueue \o mapQueue)[i] = dbQueue[i]
        BY <2>2, ConcatProperties
      <4> QED BY <4>1 DEF Range
    <3> QED BY <3>1, <2>1 DEF Quiet
  <2>4. dbStep = "add" => 1 \in DOMAIN dbQueue
    BY <2>2, Taken DEF IInv, DbJobs
  <2> QED BY <2>1, <2>3, <2>4 DEF Owns, Crosses, Waits, Quiet
<1> QED BY <1>1 DEF IInv, Progress, DbHasAll

\* All that is proved of the specification follows from one invariant.
LEMMA Invariance == Spec => []IInv
BY IInvInit, IInvNext, PTL DEF Spec

\* The state of the sessions, the queues and the map has its types.
THEOREM TypeCorrect == Spec => []TypeOK
<1>1. IInv => TypeOK
  BY DEF IInv
<1> QED BY <1>1, Invariance, PTL

\* _players and _objects agree, whatever the order of AddPlayer and RemoveObject.
THEOREM PlayersAndObjects == Spec => []MapAgrees
<1>1. IInv => MapAgrees
  BY DEF IInv
<1> QED BY <1>1, Invariance, PTL

\* A player is in the cell it stands on and in no other, but for the named exceptions.
THEOREM OneCellEach == Spec => []GridAgrees
<1>1. IInv => GridAgrees
  BY DEF IInv
<1> QED BY <1>1, Invariance, PTL

\* A player on the map has a session or a RemoveObject to come, or crossed its disconnection.
THEOREM EveryoneLeaves == Spec => []NoGhost
<1>1. IInv => NoGhost
  BY DEF IInv
<1> QED BY <1>1, Invariance, PTL

\* What a character earned is in the database when its sessions have gone.
THEOREM ProgressIsSaved == Spec => []NoProgressLost
BY IInvNoProgressLost, Invariance, PTL
=============================================================================
