-------------------------------- MODULE World --------------------------------
(***************************************************************************)
(* How players enter, move in and leave a map of the game server.  Three    *)
(* threads meet here without a lock: the one that receives a session's      *)
(* packets or disconnects it, the one that executes the PlayerDbQueue       *)
(* (loads and saves), and the one that executes the map's queue.  Each      *)
(* queue runs its jobs one at a time in the order they were posted (see     *)
(* JobQueue); what one thread does between two posts is what another may    *)
(* see half done.                                                           *)
(*                                                                          *)
(* A client enters once per connection, so a Player object is named by its  *)
(* session.  Its key was checked as in Migration; the same character may be *)
(* given a key again while it is in the game.  A definition marked "Slip"   *)
(* is a mistake one could make in the definition below it, kept to see that *)
(* the properties notice.                                                   *)
(***************************************************************************)
EXTENDS Integers, Sequences, FiniteSets, SequencesExt

CONSTANTS
  Sessions,    \* the GameSessions
  Characters,  \* player ids
  Cells,       \* cells of the map's grid
  Origin,      \* the one with indices 0 and 0, where a Player object starts
  Home,        \* the one that coordinates 0 and 0 are in
  None,
  MaxPackets   \* bound: the packets of the clients and the hits of monsters

ASSUME WorldAssumption ==
  /\ Origin \in Cells /\ Home \in Cells
  /\ None \notin Sessions \cup Characters \cup Cells
  /\ IsFiniteSet(Characters) /\ MaxPackets \in Nat

VARIABLES
  state,     \* of a session: "new", "in", and the places in its OnDisconnected
  handling,  \* the job that the handler of a session's packet is about to post
  packets,   \* how many were received
  dbQueue,   \* PlayerDbQueue: jobs to enter or to save
  mapQueue,  \* the queue of the MapInstance: jobs to add, remove, move, revive or play
  dbStep,    \* where HandleClientEnter is, for the first job of dbQueue
  character, \* the character a session enters with
  player,    \* the sessions whose _player is set
  loaded,    \* per Player object: the progress of the character in it
  pos,       \* and its position, the cell of the grid
  db,        \* the progress of a character in the database
  players,   \* MapInstance::_players
  objects,   \* MapInstance::_objects
  grid,      \* MapInstance::_grid: how often a cell holds a Player object
  homeless,  \* the sessions whose character is on a map that does not exist
  earned,    \* the progress ever made with a character
  saved,     \* the sessions whose SavePlayer has run
  crossed,   \* those whose AddPlayer was posted when their OnDisconnected was over
  stray,     \* those that moved before they were added or after they were removed, or
             \* were revived in another cell
  risked     \* the characters whose progress the code may lose, see NoProgressLost

queues == <<dbQueue, mapQueue>>
objectsOfPlayers == <<loaded, pos>>
map == <<players, objects, grid>>
history == <<earned, saved, crossed, stray, risked>>
vars == <<state, handling, packets, queues, dbStep, character, player, objectsOfPlayers, db, map,
          homeless, history>>

Job(do, s, x) == [do |-> do, session |-> s, cell |-> x]
Jobs == [do : {"enter", "save", "add", "remove", "move", "revive", "play"},
         session : Sessions,
         cell : Cells \cup {None}]
DoNothing == Job("none", None, None)

TypeOK ==
  /\ state \in [Sessions -> {"new", "in", "save", "remove", "gone"}]
  /\ handling \in [Sessions -> Jobs \cup {DoNothing}]
  /\ packets \in 0 .. MaxPackets
  /\ dbQueue \in Seq(Jobs) /\ mapQueue \in Seq(Jobs)
  /\ dbStep \in {"load", "set", "add"}
  /\ character \in [Sessions -> Characters \cup {None}]
  /\ player \subseteq Sessions /\ saved \subseteq player
  /\ \A s \in player : character[s] # None /\ pos[s] # None
  /\ loaded \in [Sessions -> Nat] /\ db \in [Characters -> Nat] /\ earned \in [Characters -> Nat]
  /\ pos \in [Sessions -> Cells \cup {None}]
  /\ players \in [Characters -> Sessions \cup {None}]
  /\ objects \subseteq player
  /\ grid \in [Sessions \X Cells -> Nat]
  /\ homeless \subseteq Sessions
  /\ crossed \subseteq Sessions /\ stray \subseteq Sessions /\ risked \subseteq Characters

Init ==
  /\ state = [s \in Sessions |-> "new"]
  /\ handling = [s \in Sessions |-> DoNothing]
  /\ packets = 0
  /\ dbQueue = <<>> /\ mapQueue = <<>> /\ dbStep = "load"
  /\ character = [s \in Sessions |-> None]
  /\ player = {} /\ objects = {} /\ homeless = {}
  /\ loaded = [s \in Sessions |-> 0]
  /\ pos = [s \in Sessions |-> None]
  /\ db = [c \in Characters |-> 0] /\ earned = [c \in Characters |-> 0]
  /\ players = [c \in Characters |-> None]
  /\ grid = [g \in Sessions \X Cells |-> 0]
  /\ saved = {} /\ crossed = {} /\ stray = {} /\ risked = {}
-----------------------------------------------------------------------------
(* The thread that receives the packets of a session *)

\* Another session of the character has not come to the point where its SavePlayer is
\* posted: the client logs in again before the server has noticed that it left, or twice.
Overlaps(s, c) ==
  \E t \in Sessions \ {s} : character[t] = c /\ state[t] \in {"in", "save"}

\* A client connects and sends GameClientEnter with the key of a character.
Enter(s, c) ==
  /\ state[s] = "new"
  /\ state' = [state EXCEPT ![s] = "in"]
  /\ character' = [character EXCEPT ![s] = c]
  /\ dbQueue' = Append(dbQueue, Job("enter", s, None))
  /\ risked' = IF Overlaps(s, c) THEN risked \cup {c} ELSE risked
  /\ UNCHANGED <<handling, packets, mapQueue, dbStep, player, objectsOfPlayers, db, map, homeless,
                 earned, saved, crossed, stray>>

\* The handler of any other packet looks at _player and its map, then posts a job to it, also
\* for a packet that was received before the session was disconnected: _player stays set.
Receive(s, do, x) ==
  /\ s \in player \ homeless
  /\ handling[s] = DoNothing /\ packets < MaxPackets
  /\ packets' = packets + 1
  /\ handling' = [handling EXCEPT ![s] = Job(do, s, x)]
  /\ UNCHANGED <<state, queues, dbStep, character, player, objectsOfPlayers, db, map, homeless,
                 history>>

Post(s) ==
  /\ handling[s] # DoNothing
  /\ mapQueue' = Append(mapQueue, handling[s])
  /\ handling' = [handling EXCEPT ![s] = DoNothing]
  /\ UNCHANGED <<state, packets, dbQueue, dbStep, character, player, objectsOfPlayers, db, map,
                 homeless, history>>

\* OnDisconnected looks at _player, whatever the cause: the peer, an error, or the server
\* itself.  Without a player it has nothing more to do.
OnDisconnected(s) ==
  /\ state[s] = "in"
  /\ state' = [state EXCEPT ![s] = IF s \in player THEN "save" ELSE "gone"]
  /\ UNCHANGED <<handling, packets, queues, dbStep, character, player, objectsOfPlayers, db, map,
                 homeless, history>>

\* Slip: a session whose save is posted is done, as if it was never on a map.
PostSaveOnly(s) ==
  /\ state[s] = "save"
  /\ state' = [state EXCEPT ![s] = "gone"]
  /\ dbQueue' = Append(dbQueue, Job("save", s, None))
  /\ UNCHANGED <<handling, packets, mapQueue, dbStep, character, player, objectsOfPlayers, db, map,
                 homeless, history>>

PostSave(s) ==
  /\ state[s] = "save"
  /\ state' = [state EXCEPT ![s] = IF s \in homeless THEN "gone" ELSE "remove"]
  /\ dbQueue' = Append(dbQueue, Job("save", s, None))
  /\ UNCHANGED <<handling, packets, mapQueue, dbStep, character, player, objectsOfPlayers, db, map,
                 homeless, history>>

PostRemove(s) ==
  /\ state[s] = "remove"
  /\ state' = [state EXCEPT ![s] = "gone"]
  /\ mapQueue' = Append(mapQueue, Job("remove", s, None))
  /\ UNCHANGED <<handling, packets, dbQueue, dbStep, character, player, objectsOfPlayers, db, map,
                 homeless, history>>
-----------------------------------------------------------------------------
(* The thread that executes the PlayerDbQueue *)

DbJob(do, step, s) ==
  /\ dbQueue # <<>> /\ dbStep = step
  /\ Head(dbQueue).do = do /\ Head(dbQueue).session = s

\* HandleClientEnter: the key is refused or the character cannot be loaded.  (Then the
\* session is disconnected, or the client goes.)
Refuse(s) ==
  /\ DbJob("enter", "load", s)
  /\ dbQueue' = Tail(dbQueue)
  /\ UNCHANGED <<state, handling, packets, mapQueue, dbStep, character, player, objectsOfPlayers,
                 db, map, homeless, history>>

\* The progress is read; the position is not.
TryLoadFromDb(s) ==
  /\ loaded' = [loaded EXCEPT ![s] = db[character[s]]]
  /\ pos' = [pos EXCEPT ![s] = Origin]

\* It makes a Player and loads it.
Load(s) ==
  /\ DbJob("enter", "load", s)
  /\ dbStep' = "set"
  /\ TryLoadFromDb(s)
  /\ UNCHANGED <<state, handling, packets, queues, character, player, db, map, homeless, history>>

\* Slip: the session is not told of the player when its map is there.
SetPlayerOfHomeless(s) ==
  /\ DbJob("enter", "set", s)
  /\ dbStep' = "add"
  /\ homeless' \in {homeless, homeless \cup {s}}
  /\ player' = player \cup homeless'
  /\ UNCHANGED <<state, handling, packets, queues, character, objectsOfPlayers, db, map, history>>

\* SetPlayer, and the response to the client.
SetPlayer(s) ==
  /\ DbJob("enter", "set", s)
  /\ dbStep' = "add"
  /\ player' = player \cup {s}
  /\ homeless' \in {homeless, homeless \cup {s}}
  /\ UNCHANGED <<state, handling, packets, queues, character, objectsOfPlayers, db, map, history>>

\* The map is told to add the player; without a map the session is disconnected.
PostAdd(s) ==
  /\ DbJob("enter", "add", s)
  /\ dbStep' = "load"
  /\ dbQueue' = Tail(dbQueue)
  /\ IF s \in homeless
     THEN UNCHANGED <<mapQueue, crossed>>
     ELSE /\ mapQueue' = Append(mapQueue, Job("add", s, None))
          /\ crossed' = IF state[s] = "gone" THEN crossed \cup {s} ELSE crossed
  /\ UNCHANGED <<state, handling, packets, character, player, objectsOfPlayers, db, map, homeless,
                 earned, saved, stray, risked>>

\* Slip: a player that has left its map already is not saved.
SavePlayerOnMap(s) ==
  /\ DbJob("save", "load", s)
  /\ dbQueue' = Tail(dbQueue)
  /\ saved' = saved \cup {s}
  /\ db' = IF s \in objects THEN [db EXCEPT ![character[s]] = loaded[s]] ELSE db
  /\ UNCHANGED <<state, handling, packets, mapQueue, dbStep, character, player, objectsOfPlayers,
                 map, homeless, earned, crossed, stray, risked>>

\* What the Player object holds now is written, or nothing.
TrySaveToDb(s) ==
  \/ db' = [db EXCEPT ![character[s]] = loaded[s]] /\ UNCHANGED risked
  \/ risked' = risked \cup {character[s]} /\ UNCHANGED db

\* When that fails, it is lost: the session SavePlayer disconnects is disconnected already.
SavePlayer(s) ==
  /\ DbJob("save", "load", s)
  /\ dbQueue' = Tail(dbQueue)
  /\ saved' = saved \cup {s}
  /\ TrySaveToDb(s)
  /\ UNCHANGED <<state, handling, packets, mapQueue, dbStep, character, player, objectsOfPlayers,
                 map, homeless, earned, crossed, stray>>
-----------------------------------------------------------------------------
(* The thread that executes the map's queue *)

MapJob(do, s) ==
  /\ mapQueue # <<>> /\ Head(mapQueue).do = do /\ Head(mapQueue).session = s
  /\ mapQueue' = Tail(mapQueue)

\* Slip: a player is inserted whether or not its character is there already.
AddPlayerAnyway(s) ==
  /\ MapJob("add", s)
  /\ players' = [players EXCEPT ![character[s]] = s]
  /\ objects' = objects \cup {s}
  /\ grid' = [grid EXCEPT ![<<s, pos[s]>>] = @ + 1]
  /\ UNCHANGED <<state, handling, packets, dbQueue, dbStep, character, player, objectsOfPlayers, db,
                 homeless, history>>

\* emplace refuses a player whose character is on the map.
AddPlayer(s) ==
  /\ MapJob("add", s)
  /\ IF players[character[s]] = None
     THEN /\ players' = [players EXCEPT ![character[s]] = s]
          /\ objects' = objects \cup {s}
          /\ grid' = [grid EXCEPT ![<<s, pos[s]>>] = @ + 1]
     ELSE UNCHANGED map
  /\ UNCHANGED <<state, handling, packets, dbQueue, dbStep, character, player, objectsOfPlayers, db,
                 homeless, history>>

\* Slip: a player that is not found by its character's id is left.
RemoveObjectById(s) ==
  /\ MapJob("remove", s)
  /\ IF players[character[s]] # None
     THEN /\ players' = [players EXCEPT ![character[s]] = None]
          /\ objects' = objects \ {s}
          /\ grid' = [grid EXCEPT ![<<s, pos[s]>>] = 0]
     ELSE UNCHANGED map
  /\ UNCHANGED <<state, handling, packets, dbQueue, dbStep, character, player, objectsOfPlayers, db,
                 homeless, history>>

\* The object is looked up by its own id, to erase it from the grid, then once more and its
\* character in _players: a player that was not added is not removed, and neither is the other
\* session of its character.
RemoveObject(s) ==
  /\ MapJob("remove", s)
  /\ grid' = IF s \in objects THEN [grid EXCEPT ![<<s, pos[s]>>] = 0] ELSE grid
  /\ IF s \in objects /\ players[character[s]] # None
     THEN /\ objects' = objects \ {s}
          /\ players' = [players EXCEPT ![character[s]] = None]
     ELSE UNCHANGED <<objects, players>>
  /\ UNCHANGED <<state, handling, packets, dbQueue, dbStep, character, player, objectsOfPlayers, db,
                 homeless, history>>

\* Slip: the player is erased from the cell it moves to.
OnPlayerMoveErasesNew(s) ==
  /\ MapJob("move", s)
  /\ LET x == Head(mapQueue).cell IN
     /\ pos' = [pos EXCEPT ![s] = x]
     /\ grid' = IF x = pos[s] THEN grid ELSE [grid EXCEPT ![<<s, x>>] = 1]
  /\ stray' = IF s \in objects THEN stray ELSE stray \cup {s}
  /\ UNCHANGED <<state, handling, packets, dbQueue, dbStep, character, player, loaded, db, players,
                 objects, homeless, earned, saved, crossed, risked>>

\* The player is erased from the cell it leaves and put into the one it enters.
OnPlayerMove(s) ==
  /\ MapJob("move", s)
  /\ LET x == Head(mapQueue).cell IN
     /\ pos' = [pos EXCEPT ![s] = x]
     /\ grid' = IF x = pos[s] THEN grid
                ELSE [grid EXCEPT ![<<s, pos[s]>>] = 0, ![<<s, x>>] = @ + 1]
  /\ stray' = IF s \in objects THEN stray ELSE stray \cup {s}
  /\ UNCHANGED <<state, handling, packets, dbQueue, dbStep, character, player, loaded, db, players,
                 objects, homeless, earned, saved, crossed, risked>>

\* A job changes the character of a player: its stats, inventory or keys.
Change(s) ==
  /\ loaded' = [loaded EXCEPT ![s] = @ + 1]
  /\ earned' = [earned EXCEPT ![character[s]] = @ + 1]
  /\ risked' = IF s \in saved THEN risked \cup {character[s]} ELSE risked

\* The player is put at coordinates 0 and 0, but not into that cell of the grid.
OnRevive(s) ==
  /\ MapJob("revive", s)
  /\ Change(s)
  /\ pos' = [pos EXCEPT ![s] = Home]
  /\ stray' = IF pos[s] = Home THEN stray ELSE stray \cup {s}
  /\ UNCHANGED <<state, handling, packets, dbQueue, dbStep, character, player, db, map, homeless,
                 saved, crossed>>

\* A monster finds a player in the grid when the map is updated, and hits it: now, or with
\* a job of its own when its attack is over.
Update(s) ==
  /\ \E x \in Cells : grid[<<s, x>>] > 0
  /\ packets < MaxPackets
  /\ packets' = packets + 1
  /\ mapQueue' = Append(mapQueue, Job("play", s, None))
  /\ UNCHANGED <<state, handling, dbQueue, dbStep, character, player, objectsOfPlayers, db, map,
                 homeless, history>>

\* Any other job for a player: it attacks, or changes its inventory or keys, or is hit.
Play(s) ==
  /\ MapJob("play", s)
  /\ Change(s)
  /\ UNCHANGED <<state, handling, packets, dbQueue, dbStep, character, player, pos, db, map,
                 homeless, saved, crossed, stray>>

Next ==
  \E s \in Sessions :
    \/ \E c \in Characters : Enter(s, c)
    \/ \E x \in Cells : Receive(s, "move", x)
    \/ Receive(s, "revive", None) \/ Receive(s, "play", None)
    \/ Post(s) \/ OnDisconnected(s) \/ PostSave(s) \/ PostRemove(s)
    \/ Refuse(s) \/ Load(s) \/ SetPlayer(s) \/ PostAdd(s) \/ SavePlayer(s)
    \/ AddPlayer(s) \/ RemoveObject(s) \/ OnPlayerMove(s) \/ OnRevive(s)
    \/ Update(s) \/ Play(s)

Spec == Init /\ [][Next]_vars
-----------------------------------------------------------------------------
(* Properties *)

\* _players and _objects of a map hold the same players, one per character, and the object
\* of a player is the one its session has: AddPlayer, RemoveObject and a second session of
\* a character, in any order, never leave one without the other.
MapAgrees ==
  /\ objects = {players[c] : c \in {d \in Characters : players[d] # None}}
  /\ \A c \in Characters : players[c] # None => character[players[c]] = c

\* A player that is on the map is in exactly one cell of the grid, the one it stands on,
\* and a player that is not on the map is in none; only the moves of a player that was not
\* added yet (its client hurries) or was removed already (its last packets) break this, and
\* a revival away from Home, which leaves the player in the cell it died in for good.
GridAgrees ==
  \A s \in Sessions \ stray, x \in Cells :
    grid[<<s, x>>] = IF s \in objects /\ pos[s] = x THEN 1 ELSE 0

RemovePending(s) ==
  \/ state[s] \in {"save", "remove"}
  \/ \E j \in Range(mapQueue) : j.do = "remove" /\ j.session = s

\* A session that is gone is gone from the map, unless HandleClientEnter posted its
\* AddPlayer when OnDisconnected was over already: such a player stays for good.
NoGhost ==
  \A s \in objects : state[s] = "in" \/ RemovePending(s) \/ s \in crossed

Quiet(s) ==
  /\ state[s] \in {"new", "gone"} /\ handling[s] = DoNothing
  /\ \A j \in Range(dbQueue \o mapQueue) : j.session # s

\* When all sessions of a character have gone, the database has all the progress made with
\* it, unless its sessions overlapped, a save failed, a job of the map changed the character
\* after SavePlayer had run, or the player stays on the map as NoGhost says, where monsters
\* hit it: loads wait for the saves posted before them.
NoProgressLost ==
  \A c \in Characters \ risked :
    (\A s \in Sessions : character[s] = c => Quiet(s) /\ s \notin crossed) => db[c] = earned[c]
=============================================================================
