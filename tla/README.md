# TLA+ specifications of the MapleStory servers

The repository holds an online game: three C++ servers (login, center, game) on a shared
library, `ServerCore`, and an Unreal client. These modules model what the servers do
concurrently: how jobs are serialised, how a session is driven through Winsock's completion
port, how the bytes of packets get from one server's chunks into another's handlers, how a
character gets from the login server into the game, how it enters, moves in and leaves a map,
how it fights the monsters there, and how its inventory is used and saved. TLC checks the
modules on small instances. TLAPS proves every safety property the runs check, the two
refinements among them, for every instance; liveness stays with TLC.

`PROJECT.json` says which lines each definition models, what each run checks, and which
hazard each property is for.

    tlc -config MCJobQueue.cfg MCJobQueue      # one run; see "Runs" for the others
    tlapm JobQueueProofs.tla                   # one proof module

## The system

Own code of the servers is some 11,600 lines under `src/Server`; the client (9,000 lines) and
the tools are not modelled. There are no tests and hardly any docs: the comments, the
assertions and the names of the `CRASH`es are all that states an intention.

### Components

| component | state | operations | interacts through |
|---|---|---|---|
| **Job system** `ServerCore/job`, `thread/thread_manager.cpp` | per `JobQueue`: `_job_count`, `_job_queue`; `GlobalQueue`; `JobTimer`'s items and `_distributing`; per thread `LJobQueue`, `LEndTickCount` | `Push`, `Execute`, `Reserve`, `Distribute`, `FlushGlobalQueue` | every packet handler and map is a `JobQueue`; 18 workers of the game server and 7 of the login server run the loop Dispatch, Distribute, Flush |
| **Lock** `thread/lock.cpp` | one 32-bit word (writer's id, read count), `_write_count` | `WriteLock`, `WriteUnlock`, `ReadLock`, `ReadUnlock` | guards around every shared container; `DeadLockProfiler` in debug builds |
| **Session, Service, Listener, IocpCore** `ServerCore/network` | `_connected`, `_send_queue`, `_send_registered`, five events with owners, `Service::_sessions` | `Send`, `Disconnect`, `Broadcast`, register and process of connect, accept, recv, send, disconnect | the completion port; virtual `OnConnected`, `OnRecvPacket`, `OnDisconnected` |
| **Login server** | sessions, `login::MigrationStorage` (character to session) | `HandleSelectCharacter`, `HandleMigrationResponse`, `OnDisconnected`; login, list, create, delete | packets to clients and to the center |
| **Center server** | `CenterSessionManager`, `center::MigrationStorage` (character to the two sessions) | `HandleServerRegisterRequest`, `HandleServerMigrationRequest`, `HandleServerMigrationResponse` | packets to login and game servers |
| **Game server, entry** | `AuthStorage` (character to key), `PlayerManager` | `HandleMigrationRequest`, `HandleClientEnter` | packets; jobs of `PlayerDbQueue` |
| **Game sessions and maps** | `GameSession::_player`; per `MapInstance`: `_players`, `_objects`, `_grid`, `_mobs` | `AddPlayer`, `RemoveObject`, `OnPlayerMove`, `OnRevive`, ...; `SavePlayer` | jobs from the network threads, from `PlayerDbQueue` and from `GameTick` |
| **Monsters** `game/objects/mob`, `map_instance.cpp` | state, target (a `weak_ptr`), position, hit points, time of the next attack; `_mobs`, `_mob_spawn_locations`, `_last_respawn_tick` | `Update`, `Attack`, `OnDamaged`, `ChangeState`, `RespawnMobs`, `AddExp` | jobs and timers of their map; `Player` objects that other threads release |
| **Inventory** | `_items` by tab and slot, `_removed_items`, a mutex for each | `SwapItem`, `RemoveItem`, `Equip`, `Unequip`, `TryLoadFromDb`, `TrySaveToDb` | jobs of the map; database thread |
| **Stats, key map** | numbers of one player | `ApplyEquip`, `UpdateStats`, load, save | jobs of the map; database thread |
| **Buffers** `network/send_buffer.cpp`, `recv_buffer.cpp` | per thread `LSendBufferChunk`, per chunk `_used_size`, the manager's chunks; cursors of `RecvBuffer` | `Open`, `Close`, `PushGlobal`; `OnWrite`, `OnRead`, `Clear`; `PacketSession::OnRecv` | packet creators, `Session::RegisterSend`, `ProcessSend`, `ProcessRecv` |
| **Memory, database, data, utilities** | pools, connections, templates | | |

The **behaviours that are hard** are these.

* *Interleavings.* A `JobQueue` is handed from thread to thread by a counter alone. A session
  is sent to, disconnected and dequeued by any thread. A player is written by its network
  thread, the database thread and its map's thread without a lock in common.
* *Ordering.* `AddPlayer` is posted by the database thread, moves and removal by network
  threads; saves race the last jobs of the map.
* *Failure.* Winsock calls fail at once or later; servers crash and restart, and the storages
  of the others outlive them; a client leaves with an answer on its way.
* *Liveness.* Posted jobs run only if workers reach `FlushGlobalQueue` in time, queued packets
  go out only if somebody registered the send, a selection is answered only if three servers
  agree on the route.

### Correctness, component by component

* Job system: one executor per queue, no job stranded, lost or run twice, jobs in order of
  `Push`, one distributor, every job runs.
* Lock: a writer excludes everybody, the word is what the guards add up to, no crash without
  a cause.
* Session: one send and one receive at a time, packets in order, `OnDisconnected` once, events
  own their session, packets arrive, dead sessions leave.
* Buffers: no packet is overwritten while it is sent, no buffer runs out of room, and a handler
  gets the packets that were sent.
* Migration: a key admits one client once, keys told are accepted, nobody is locked out,
  answers reach who waits for them.
* World: the containers of a map agree, players that left are gone, progress is saved.
* Inventory: no operation makes or loses an item, the database becomes the inventory, the two
  threads do not block each other for good.
* Monsters: they swing at the living only, a death is paid once and in full, they come back, and
  the server stops over them for named reasons only.

## The modules

| module | lines of the code | extended by |
|---|---|---|
| `SerialJobs` | what a `JobQueue` promises (abstract) | `JobQueue` (INSTANCE) |
| `JobQueue` | `job_queue.cpp`, `global_queue.cpp`, `job_timer.cpp`, `thread_manager.cpp`, worker loops | `MCJobQueue`, `JobQueueProofs` |
| `Lock` | `lock.cpp`, `lock.h` | `MCLock`, `LockProofs` |
| `Session` | `session.cpp`, `service.cpp`, `listener.cpp`, `iocp_core.cpp` | `MCSession`, `SessionProofs` |
| `Channel` | what a session promises to the handlers at its ends (abstract) | `PacketStream` (INSTANCE) |
| `SendBuffers` | `send_buffer.cpp`, `send_buffer.h`, the packets of `session.cpp`'s sends | `PacketStream` |
| `PacketStream` | `recv_buffer.cpp`, `PacketSession::OnRecv`, `Session::ProcessRecv` | `MCPacketStream`, `PacketStreamProofs` |
| `Migration` | handlers and storages of the three servers | `MCMigration`, `MigrationProofs` |
| `World` | `packet_handler`, `game_session.cpp`, `player_db_queue.cpp`, `map_instance.cpp` | `MCWorld`, `WorldProofs` |
| `Monster` | `monster.cpp`, the five states, `map_instance.cpp` (`Update`, `OnAttack`, `RespawnMobs`), `Player::AddExp` | `MCMonster`, `MonsterProofs` |
| `Inventory` | `inventory.cpp`, the handlers of `map_instance.cpp` that call it | `MCInventory`, `InventoryProofs` |

A definition marked `Slip` is not part of a specification. It is the definition below it with
a mistake a programmer could make: replacing the one by the other must violate the property
`PROJECT.json` names, and does.

How they fit together: `JobQueue` assumes atomic counters and locked queues, which `Lock`
justifies. `Migration` and `World` assume that each handler or map runs its jobs one at a time
in the order posted, which is `SerialJobs`, implemented by `JobQueue`. They assume that packets
of a connection are handled in order by one thread at a time, which is `OneOfEach` and
`SentInOrder` of `Session`, and whole, which is `Channel`, implemented by `PacketStream`.
`PacketStream` in turn takes from `Session` that at most one send of a session is under way.
`Monster` assumes `SerialJobs` of its map's queue. `World` starts where `Migration` ends, at an accepted key; `Inventory` zooms into two of its
steps, a job "play" of the map and `SavePlayer`, which `World` shows may overlap. The
modules are not instantiated in one another: each takes from the one below a property that is
checked or proved there.

### JobQueue

A step is one access to shared memory with the thread-local code around it. `step[t]` is where
a thread is in `Push` or `Execute`, `stage[t]` where in the worker loop. `Push` is `FetchAdd`,
`Enqueue`, `Announce`; `Execute` is `PopAll`, `StartJob`, `FinishJob` for each job, `Settle`
and, with the slice used up, `Yield`. A job may post (`JobPush`, which nests a `Push` in an
`Execute`) and reserve (`JobReserve`). `Distribute` is `BeginDistribute`, `PushExpired` for
each item and `EndDistribute`; its push has `push_only` set and executes the queue at once
unless the thread is executing already. The clock is two actions: `SliceEnds` moves a
thread's clock to the end of its slice and then past it (the code compares with `>=` in one
place and `>` in the other, so "at" is a place of its own), `TimerExpires` makes the next
reservation due. Reserved items are kept in the order of their ticks, in any position a new
tick could take.

`SerialJobs` has two variables, what waits and what runs, and three actions. `IsSerial` says
that `JobQueue` implements it: a job waits from the moment it is in `_job_queue` (or in the
executor's batch) and runs while its `Execute` is inside it. `Waiting(q)` and `Running(q)` are
the mapping: what is left of the batch of the thread that executes q, with the queue behind it.

### Lock

Threads take and drop guards like a stack (`guards[t]`), as the macros force them to.
`WriteLock` and `ReadLock` either count up at once, for the thread that writes already, or
start to spin; `AcquireWrite` and `AcquireRead` are the compare-exchange that succeeds;
`Timeout` is the ten seconds running out. The three `CRASH`es stop the process. The main
thread has id 0 until `ThreadManager` exists, which the lock takes for "no writer"; nothing
locks by then, so `Threads` are those with an id of their own. `READ_LOCK` is not used in the
repository yet.

### Session

`todo[t]` is the list of steps a thread still has to take, the innermost call first, so that a
handler that sends from within `ProcessRecv` nests as in the code. `pending` and `completed`
are the kernel's operations and the completions in the port, `owner` the events whose `_owner`
is set, `socket` the connection. The kernel side is modelled from what `session.cpp` relies
on: an operation is under way, fails at once, or completes with bytes or with zero bytes. An
error at once is either one after which `HandleError` disconnects or one that it only prints
(`failed`). The peer closes or resets at any time. The set of the service has its own lock,
held by `Broadcast` over its sends. One session is modelled; sessions share only that set.

### SendBuffers, PacketStream, Channel

A server is threads that make packets and sessions that send them. `memory` is the bytes of
the chunks, and byte i of packet p is `<<p, i>>`, so that a byte out of place is seen.
`MakeSendBuffer` is what a packet creator does: `SendBufferManager::Open` on the thread's chunk
or one it pops, serialisation into it, `Close`. The references that keep a chunk from being
reset are derived: `Held` says who has a `SendBufferRef` (a thread's `hand`, a session's
`sendQueue`, the buffers of its send event), `Referenced` who has the chunk, and every action
that drops references puts the chunks it freed into `pool` (`Releases`, the deleter
`PushGlobal`). `RegisterSend` gives the queue to `WSASend`, the kernel reads buffer by buffer at
any time before it completes (`Transmit`), and `ProcessSend` clears the event. The steps of
these in `session.cpp` are interleaved in `Session`; here each is one step.

`PacketStream` adds the other end: `Receive` is a completion with any number of bytes that fit,
`OnRecvPacket` one round of the loop in `OnRecv`, `EndRecv` what comes after it, with `Clear`.
The `memcpy` there may be given ranges that overlap, which is undefined: `Moved` then also
yields garbage. `Channel` is the abstraction, a sequence sent and a sequence handled; `IsChannel`
maps what `WSASend` took and what is queued to what was sent.

### Migration

A step is one packet handler. Queues of packets (`toCenter`, `toGame`, `fromGame`, `toLogin`)
are in order, since a connection is. `session[x]` numbers the `CenterSession`s of a server, by
which the center's storage tells a server from the one that was restarted since. The storages'
`Add` inserts and never overwrites, as `emplace` and `insert` do. Crashes empty the memory of
a server, its queues and some of what it had sent last; what another server has received
by then is still handled. The center notices a lost connection in `CenterNotices`, later. A
server whose connection to the center is gone never connects again until it is started anew.
A login session is "in" until `Disconnect` ("closing"), which need not end the handling of
what it sent: `OnRecv` goes on with the bytes it has, on one worker, while another runs
`OnDisconnected` ("gone"), until it runs out of them (`OnRecvEnds`, "over"). So a selection is
posted in any of the first three states, as no handler asks. `HandleMigrationResponse` finds and
removes an entry in one step, though the code makes two accesses; the comment there says what
may come in between.
`asked`, `abandoned`, `late`, `contested` and `voided` are history, used by properties only.
What a selection is refused for (level, list of characters) is left open: a selection that is
refused is not one of the model's.

### World

Three sources of steps: the session's network thread (`Receive`, `Post`, `OnDisconnected`,
`PostSave`, `PostRemove`), the thread on the head of `dbQueue` (`Refuse`, `Load`, `SetPlayer`,
`PostAdd`, `SavePlayer`) and the thread on the head of `mapQueue` (`AddPlayer`,
`RemoveObject`, `OnPlayerMove`, `OnRevive`, `Update`, `Play`). Between two steps of one of
them, any other may go. `_player` stays set when a session is disconnected, and packets it had
sent are handled still, so `Receive` asks for no more than the handlers do. The character is its progress, a counter: `Change` raises it, `Load`
and `SavePlayer` copy it from and to the database. A position is a cell of the grid. A `Player`
starts in the cell with indices 0 and 0 (`Origin`), a revival goes to coordinates 0 and 0
(`Home`). Positions are taken to lie inside the map. Everything a player does apart from
moving and being revived is the one job "play".

### Monster

Everything here runs in jobs of one map, so a step is a job, but for `Update`, which goes
through the monsters one by one (`todo`, in any order): between two of them the network thread
may drop the last reference to a `Player` that left (`Free`). Whoever looks at a target then
either finds it gone or, between `HasTarget` and `lock`, has it go under its hands (`Fleeting`):
an outcome "expired", which the code runs into without a look.

`StateUpdate` is one operator per class of state, each a set of outcomes: the monster it becomes,
whom it swings at, and the state over which `ChangeState` asserts. What is abstracted is what a
condition is made of: in range or not, the animation over or not, arrived or not, killed or
not. `ready` is `_next_attack_time` in the past; `due` is the 15 seconds of `RespawnMobs`. A
template is the set of its actions and the three flags and numbers the code asks for. `blows`
counts the timers of `Attack` for each target. `OnAttackUnknown` is `_objects[target_id]` for an
id that is not there; one flag stands for the nulls it leaves. A touch (`ProcessCollision`) or a
blow may kill or not; the second of grace after a collision, in which a blow does nothing, is one
way not to. (`time - GetLastCollisionTime()` at `monster.cpp:102` is unsigned, and wraps when
the collision is later than the swing: the blow lands then. That is in the choice too.) Players
that the grid of the map still has after they left are `World`'s `NoGhost`; here a monster finds
the players on the map.

### Inventory

Two threads: "map", which executes the queue of the player's map, and "db", which executes the
`PlayerDbQueue`. `holds` are the mutexes they have, shared or alone. `Moves` is a packet of the
client up to the first mutex of its operation, `Lock` takes the next of `LocksOf`, and when it
has them all the operation runs in one step, for nobody else may look (`SwapItem`, `UseItem`,
`Equip`, `Unequip`); `OnUseItem` and `OnEquipItem` then read a tab, `ReadItems`. The save is
`LockRemoved`, `ReadRemoved`, `ClearRemoved`, one `ReadTab` for each tab, and `Store`. Reading
and clearing the list are two steps because `RemoveItem` appends under a mutex it takes shared,
as `SerializeToXml` does. The stored procedures are not in the repository: `Store` deletes the
slots of the list and writes the items, which is what the document has room for, or fails. A
`Player` is loaded by `TryLoadFromDb` into an object no other thread has yet, so that takes one
step. `loaded`, `used`, `overwritten` and `raced` are history.

## Runs

| run | configuration | distinct states | what it shows |
|---|---|---|---|
| `job_queue` | 2 workers, 1 posting thread, 2 queues, 3 jobs | 31,020 | see below |
| `job_queue_live` | the same with 2 jobs, no symmetry | 33,798 | every job runs |
| `lock` | 3 threads, 3 nested guards | 503 | exclusion, exact counters, causes of crashes |
| `lock_order` | the same | violation | "INVALID_UNLOCK_ORDER" of properly nested scopes |
| `session` | 2 threads, 3 packets | 291,546 | sends, receives, disconnects of one session |
| `session_live` | 2 threads, 2 packets, no symmetry | 108,250 | packets arrive, dead sessions leave |
| `migration` | 2 clients, 2 characters, 3 selections, 1 crash | 1,611,525 | keys, storages, answers |
| `migration_live` | the same with 1 character, no symmetry | 418,394 | selections are answered |
| `world` | 2 sessions, 2 characters, 2 cells, 2 packets | 1,531,716 | maps, saves |
| `inventory` | 2 slots a tab, 1 worn, 4 operations, 2 logins | 665,557 | items, saves, deadlock |
| `packet_stream` | 2 threads, 1 session, 5 packets of 3 sizes, 3 chunks | 643,630 | packets get through |
| `monster` | 2 players, 1 spawn point, 5 templates, 3 levels | 494,116 | fights, deaths, returns, crashes |

`job_queue` shows `QueuesOwned`: a queue is in one party's hands, its executor, the thread about
to announce it, or the `GlobalQueue` (`OneOwner`), it is so exactly while it has work
(`WorkIsOwned`), and `_job_count` counts what is in it and on its way (`CountIsExact`). And it
shows `NoJobLost` and `IsSerial`. Three jobs
are needed to see a job pushed while another runs and a third is reserved; a third queue or
worker repeats what two show, as any step involves one queue and one thread. `EveryJobRuns` needs
`Punctual`, see "Fairness".

`lock` shows `GuardsExclude` (a writer excludes everybody, and the word and `_write_count` are
what the guards add up to) and `CrashesExplained`. A third guard is what a write scope in a read scope in a write scope takes, the only
shape that trips `WriteUnlock`. That is the finding of `lock_order`: the check counts any
read of the word, not only reads opened after the write scope it closes, so scopes that are
closed in the right order stop the process with a message that says they were not.

`session` shows `OneOfEach` (one thread drives the send and one the receive at a time),
`SentInOrder`, `CountedOnce` and `EventsOwned`. Two threads are enough for every pair of a driver of the send and an intruder, three
packets for a batch behind a send that is behind another. The exceptions the properties make
are what the code does when Winsock fails at once with an error that `HandleError` only prints:
packets pushed while a send fails at once and its registration is dropped wait for the next
send (`PacketsArrive`), a receive whose owner `RegisterDisconnect` cleared in place of its own event's (`EventsOwned`), a
session that never leaves its service (`SessionsLeave`).

`migration`: two clients on one character, two characters of one client and a retry after an
answer all fit into three selections; one crash can hit any of the three servers at any
moment. `NoLockout`, `StaleEntriesExplained` and `SelectionsAnswered` name what goes wrong:
a key nobody knows locks its character out until the game server restarts; the login
server's storage keeps an entry that its session's end did not remove, being its second or
added after it; the center keeps the
route of a character's first migration and swallows the first answer after a restart.

`world`: two sessions are two players or one character entering twice. Two packets are a move
and what interferes with it. The exceptions are named by history variables: players whose
`AddPlayer` was posted after their session was gone (`crossed`) stay on the map for good;
moves before the addition or after the removal, and revivals away from the revival point, leave
the grid wrong (`stray`); progress is lost by overlapping sessions of one character, failed
saves and jobs that run after the save (`risked`).

`inventory`: a sword and a shield for one slot of what is worn, and two stacks of potions that do
not fit into one, give every branch of the five operations; four operations are a slot that is
emptied and filled again, before and after a save. `SavedAsIs` says that the list of removed
slots together with the items is enough to make the rows the inventory; the exception is
`raced`, an operation after the save began, which may double an item (it moves from a tab that
was read to one that was not) or lose it. `ItemsKept` names `Unequip` into a taken slot, where
`emplace` refuses and the item is erased all the same; its test for space counts the items
worn, not the tab they go to. `WaitsExplained` names a deadlock: `SerializeToXml` has the mutex
of the list and wants a tab, `SwapItem`, `Equip` and `Unequip` have the tab and want the list.
`World` shows that a save overlaps jobs of the map when a session ends, so the two can meet;
nothing times out, and with the thread goes the `PlayerDbQueue` of the whole server.

`packet_stream`: a chunk of four bytes takes two small packets or one middle one, so a thread
keeps, gives up and pops chunks while sends from them are under way; the big one shows the only
reason to stop. Two threads, and three chunks, are what it takes for a chunk to be written by
another thread than the one whose packet it still holds. Twelve bytes never fill the 15 of
the buffer, though `Clear` moves data; that it has room however much is sent is proved, see
below. `Intact` rests on every reference, `StopsExplained` on `Reset` and on the sizes,
`IsChannel` on all of it.

`monster`: five templates, among them monsters that cannot attack, move or stand, and any two
players, so that one kills what aims at the other, a target dies by another blow, and leaves and
is freed. A kill is worth half a level or more than two, with three levels to go. One spawn
point: monsters meet only in the players they hit and in `due`, and what other monsters do to
a player (a touch, a blow under way) one monster's outcomes have as well; two with these templates
are out of TLC's reach in minutes. The proofs are for any number. `CrashesExplained` names four reasons to stop: a template without a state that is
entered unasked (STAND, MOVE, HIT), a null left by an attack on what is not there, and a
target freed between two looks at it. ATTACK is not among them though `MoveState` and
`AttackState` never ask: the reason is proved below.

Symmetry (of threads, queues, jobs, sessions, characters, chunks, packets of a size) is used by safety runs only.
Deadlock is checked for the job system, which always has a step. The other configurations say
`CHECK_DEADLOCK FALSE`: a process stops at a `CRASH`, a session is released and its number of
packets, selections or crashes is bounded, the threads of `Inventory` may block each other, packets
run out and a map may be empty, so that the model really may stop.

### Bounds

`MaxGuards` (nesting), `MaxPackets` (send buffers ever made; packets and hits in `World`),
`MaxSelects`, `MaxFailures`, `MaxLoads` and `MaxMoves` (logins and operations in `Inventory`)
and `MaxBlows` (blows under way when a monster recovers or monsters come back, in `Prompt`) are
the only bounds inside modules, each in the guard of the action it limits. `MaxLevel` is the
code's 300. `Chunks` bounds the chunks in use; a thread that needs one more when none is left
has no step. The job system is bounded by the set `Jobs` alone: a job object is made once.
The 16-bit counters of the lock are taken as unbounded, for guards nest a handful deep.

### Fairness

* `JobQueue!Fairness`: threads are scheduled (WF of `Proceed`), time passes (WF of
  `TimerExpires`), and a worker that again and again comes by a non-empty `GlobalQueue` within
  its slice pops from it (SF of `FlushPop`). `EveryJobRuns` assumes `Punctual`: workers reach
  the flush before their slice of 64 ms is over, infinitely often. `Dispatch` waits at most
  10 ms of it; a load under which every pass takes longer leaves the `GlobalQueue` alone for
  ever, and no code prevents that.
* `Session!Fairness`: threads go on with what they began, a completion in the port is dequeued
  (SF, as workers come back to the port, which is a queue), the kernel completes what it began,
  a receive only once there is no more open connection to wait on.
* `Monster!Fairness`: `GameTick` posts an `Update` every 0.2 s for ever and the clock runs (WF of
  `Update` and `UpdateMonster`; SF of `RespawnDue`, for the bound `MaxBlows` disables it at times,
  which the clock does not know), and a timer's job is run (SF of `BlowLands`, for other jobs of
  the map come between). Players and clients are under no obligation.
  `MobsReturn` is then a matter of the code: that `RespawnMobs` looks at the clock, and that a
  monster that was missed once is not forgotten.
* `Migration!Fairness`: a packet that has arrived is handled (WF of each handler, which
  `EveryJobRuns` justifies). Clients, crashes and restarts are under no obligation.

## Proofs

`JobQueueProofs`, `LockProofs`, `SessionProofs`, `PacketStreamProofs`, `MigrationProofs`,
`WorldProofs`, `MonsterProofs` and `InventoryProofs` hold the theorems. They are for any threads
(finitely many, where something counts them), any sets of queues, jobs, sessions, packets,
clients, characters, cells, players, monsters and items, and any values of the bounds; the
assumptions are those the modules name (`JobAssumption` and so on), which say little more than
that bounds are numbers and that "none" is not one of the things. Each module proves one
inductive invariant, or two where the second needs the first, and its theorems from that.

### Job system

* `TypeCorrect`: `Spec => []TypeOK`. `TypeOK` has the types and `Control`, which
  ties a thread's local variables to the place it is at; it is inductive with both.
* `Ownership`: `Spec => []QueuesOwned`, that is `OneOwner`, `WorkIsOwned` and
  `CountIsExact`. None of the
  three is inductive alone: that `Settle` may leave a queue depends on the exact count, that
  `FetchAdd` may claim one on `WorkIsOwned`, and both on there being one owner. The proof
  rewrites ownership as a set of parties per queue (`Own`) that has at most one member, and
  exactly one while the count is positive; `FetchAdd` adds the party, `Announce`, `FlushPop`
  and `Yield` exchange it, `Settle` removes it, every other action leaves ownership alone
  (`QuietIInv`). Lemmas on appending to and popping from the `GlobalQueue`
  (`AnnounceAppend`, `AnnounceTail`) say what happens to `Announced` and `OnceAnnounced`. From
  `JobAssumption` the proof uses that the threads are finitely many, for the cardinality of the
  pushes on their way.
* `JobsAreKept`: `Spec => []NoJobLost`. The second invariant (`JInv`) says the same without
  counting: of the places a job can be at (`Keepers`) exactly one has it (`Kept`), and has it
  once (`Onces`). Every step takes a job from one keeper to another, or whole sequences
  (`PopAll`, `BeginDistribute`); that the place it goes to is empty needs `Control` and that only
  the distributing thread has expired items (`Expiry`).
* `QueuesAreSerial`: `Spec => IsSerial`, the refinement of `SerialJobs`. With one executor at most
  (`IInv`) the mapping is a function of it (`Views`). `Enqueue` is `Submit`: its job was in `Push`
  and, having one keeper, is known to no queue (`PushedUnknown`). `StartJob` and `FinishJob` are
  `Start` and `Finish`. `PopAll`, and whatever hands a queue on, comes between two batches
  and is not seen (`PopAllUnseen`, `HandOver`); nor is the rest (`Quiet`).

### Lock

* `LockTypes`, `LockIsCorrect` (`Spec => []GuardsExclude`) and `CrashesAreExplained` (`Spec =>
  []CrashesExplained`). The inductive invariant adds that stacks of guards
  are within their bound and that a thread becomes a writer with its first guard only, which
  is what `CrashesExplained` needs: a read that is counted at a `WriteUnlock` is the thread's
  own, above its first guard and below the last. Lemmas say how the two sets of guards change
  when one is pushed or dropped, and their cardinalities with them.

### Session

* `TypeCorrect`, `OneAtATime` (`Spec => []OneOfEach`), `SendsInOrder` (`Spec => []SentInOrder`),
  `CountsOnce` (`Spec => []CountedOnce`) and `EventsAreOwned` (`Spec => []EventsOwned`). What makes
  them inductive are three turns, to send, to receive and to disconnect (`SendTurn`,
  `ReceiveTurn`, `DisconnectTurn`): each is with one party at a time, a thread that has one of its
  steps ahead, the kernel, or a completion in the port (`Alone`). A turn to receive begins as
  the turn to connect; one to disconnect comes with the connection, which is why it is had once.
  `Stacks` says what may be under a step on a thread's stack, so that a step that nests another
  never has its turn twice. Until the session is published nobody can call it (`Unpublished`).
  For the order of packets the invariant has what is on its way (`Way`: sent, under way, queued):
  it is pushed packets in the order of `pushed` (`InOrder`), and all of them unless something
  broke (`Unbroken`). The properties count parties with `Cardinality`; lemmas lead from the turns
  to the counts.

### Packets

* `TypeCorrect`, `BuffersIntact`, `StopsAreExplained` and
  `ImplementsChannel` (`Spec => IsChannel`). The assumptions are the code's constants put as
  weakly as the proofs allow: a chunk is smaller than one buffer of a `RecvBuffer`, which has at
  least three (`RecvAssumption`; ten in the code), and a packet has its header
  (`SendAssumption`). The invariant of the sending end (`SendInv`) says that no two threads
  have one chunk, that nobody refers to a chunk in the pool, that a packet somebody refers to
  lies whole in the used part of its chunk, and that what the kernel has yet to read is in the
  send event. That of the receiving end (`RecvInv`) says that the data of a `RecvBuffer` is the
  last of the stream that was taken (`Buffered`), that it begins, after what `OnRecv` has
  processed, where the packet after those handled begins (`AtPacket`), and that a receive always
  has room for a buffer (`Roomy`). Between receives less than a packet is left, hence less than
  one buffer: so `Clear`, which acts when less than a buffer is free, moves it over more than one
  buffer, where it cannot overlap. What is cut next is then the next packet of the stream, which
  is `Channel`'s `Handle`.

### Migration

* `TypeCorrect`, `KeysOpenOnce` (`Spec => []OneEntry`), `ToldKeysOpen`
  (`Spec => []KeysAreTrue`) and `StaleEntriesHaveReasons` (`Spec => []StaleEntriesExplained`),
  with `MaxSelects` and `MaxFailures` any numbers. The invariant adds `Budget` (every job, request
  and key stems from a selection of its own, so a key is never out of `Keys`), `AuthKeys` (a key
  in `AuthStorage` was made since the game server's start, is unused and belongs to one character,
  which is what `HandleClientEnter` needs to leave the other characters' keys true), `KeysMade`
  (nobody knows or has used a key that is yet to be made, so a new one is nobody else's) and, for
  the entries of the login server's storage, why the session of each may be gone (`Excused`): a
  session that leaves removes one entry, so one that stays behind is its second, or was added by
  a job that ran after `OnDisconnected`, for a packet handled before or after it (`late`). Most steps
  only pass replies on or lose them; `ToldMade`, `KeysKept` and `EntriesKept` say what these leave
  alone.
* `NobodyIsLockedOut` (`Spec => []NoLockout`) and `AnswersWereAwaited` (`Spec => AnswersAreAwaited`,
  an action property) rest on a second invariant (`JInv`). Until the first failure the three
  servers are connected as they were and the center knows the way of every answer (`Calm`). A
  client waits for each of its queued selections and for the one the login server remembers
  (`Waits`), so that an answer, which goes to whom it remembers, is awaited. And a character
  that is neither contested nor abandoned has one selection at most on the whole way from the
  login server and back, remembered exactly while it is beyond it (`OnesAlone`), so that its
  answer finds its client.

### World

* `TypeCorrect`, `PlayersAndObjects` (`Spec => []MapAgrees`), `OneCellEach` (`Spec =>
  []GridAgrees`), `EveryoneLeaves` (`Spec => []NoGhost`) and `ProgressIsSaved` (`Spec =>
  []NoProgressLost`). `DbJobs` and `MapJobs` say what a queued job is for and what it implies
  about its session; `Lives` ties the places of a session to its histories. A packet may be
  handled in any of them, so every player with a map has to be accounted for at any time:
  its progress is yet to be saved or was, or its session was gone before the player was added
  (`Crosses`, which begins before `crossed` does, as `SetPlayer` precedes the post). `NoGhost` needs to know
  that a player which is about to be added will also be removed (`AddsFollowed`): its session is
  still there, was crossed, or its remove job is in the queue behind the add job. `Progress` is
  about characters that are not `risked`: one session at most has a player that is to be saved
  (`OneOwner`), a client that comes back has its enter job behind the save job of the session
  before (`Behind`), and so loads what was saved (`LoadsFresh`); that one player has all the
  progress (`OwnerHasAll`), and the database has it when there is none (`DbHasAll`).

### Monsters

* `TypeCorrect`, `StopsAreExplained` and `SwingsAreAimed` (`Spec => BlowsAimed`).
  The invariant adds `Armed`, that a monster with a target can attack, which is why no state
  needs to ask: targets are set in two places, both of which do. `Sound` and `Aimed` say what an
  outcome of a state may be, one lemma per state.
* `DeathsArePaidFor` (`Spec => DeathsArePaid`), for any number of levels and any costs of them.
  What a player gained in all (`Worth`) adds up the levels below its own with a recursive
  function, `Before`. That `Before` is what its equation says, and a number, takes induction.
  The library's induction theorems have an operator as a parameter and cannot be instantiated
  here, so `Successors` proves induction for a set of numbers: a set with 0 and all successors
  that missed a number would give a finite set as large as a proper subset of itself, which
  the theorem on pigeonholes excludes.

### Inventory

* `TypeCorrect`, `SavesAreFaithful` (`Spec => []SavedAsIs`), `NothingIsLost` (`Spec => []ItemsKept`)
  and `WaitsAreExplained` (`Spec => []WaitsExplained`). `LocksOK`: the map's thread has the first
  mutexes of its operation, in their order, and the database thread the one of the list at most.
  `SaveOK` follows the save of an inventory that no operation raced: every slot emptied since the
  last rows is in the list until it is read and then in the document, the tabs read so far are in
  the document as they are, hence the rows are the inventory after `Store`. `ItemsKept` is
  inductive with the types; items are counted as the cardinality of the set of single items
  (`SingleItems`), so that lemmas on finite sets say what moving, splitting and merging stacks
  do to the count.

### Only model-checked

Every liveness property: `EveryJobRuns`, `PacketsArrive`, `SessionsLeave`, `SelectionsAnswered`
and `MobsReturn`. Liveness under fairness and ENABLED are outside the prover. `lock_order` is a
counterexample and needs no proof. No module here has a RECURSIVE operator.

## Not modelled, and why

* Pools of memory: library calls (`InterlockedPushEntrySList`) behind a table of sizes.
* Serialisation of packets is protobuf's; a packet is its bytes, by number.
* `DeadLockProfiler`: compiled into debug builds only, and a sequential search.
* ODBC: a load or save succeeds or fails. The pool of 15 connections outnumbers its users.
* Undefined behaviour: `GameSession::_player` is read and written on two threads without
  synchronisation, and the login server's storage is iterated while others change it. The
  models take these accesses as atomic; what they show goes wrong even so.
* Login, character list, creation, deletion: a stored procedure and a reply each.
* `JobQueue::Clear`, `JobTimer::Clear`, `PlayerManager::AddPlayer`, both `Inventory::AddItem`
  with `CanHold`, and `RemoveItem` of a whole slot: nobody calls them.
* Game data, statistics, damage, movement of monsters: sequential arithmetic and constants.
* `GameTick` posts an `Update` whether or not the last has run: under load a map's queue grows
  without bound, which no finite instance shows better than the code does.
* The client and the tools.

## Plan

1. **Inventory**, continued: an abstract bag of items which `Inventory` implements while nothing
   races.
2. **Composition**: what `World` and `Monster` assume of a queue, stated as `SerialJobs`' promise
   about the jobs of one queue and proved of it.
3. **DeadLockProfiler**: its search against the definition of a cycle.
