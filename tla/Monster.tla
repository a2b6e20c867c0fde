------------------------------ MODULE Monster -------------------------------
(***************************************************************************)
(* The monsters of a map of the game server and their fights with players.  *)
(* All of it runs in jobs of the map's queue, one at a time (JobQueue): the *)
(* tick that updates the map, the clients' packets, players that come and   *)
(* go, and the blows of monsters, which are timers.  What other threads do  *)
(* in between is to release a Player object that left, which a monster only *)
(* has a weak_ptr to.                                                       *)
(*                                                                          *)
(* Positions, ranges, damage, dice and the clock are abstracted to what can *)
(* come of them: somebody is in range or not, a hit kills or not, a moment  *)
(* has come or not.  A definition marked "Slip" is a mistake one could make *)
(* in the definition below it, kept to see that the properties notice.      *)
(***************************************************************************)
EXTENDS Naturals, FiniteSets, FiniteSetsExt

CONSTANTS
  Players,    \* Player objects
  Spawns,     \* SpawnPoints of the map, each the place of one monster at a time
  Templates,  \* MobTemplates: what they can do, and what they are worth
  NoPlayer, NoMob,
  MaxLevel,   \* 300, where AddExp stops
  Need,       \* GetMaxExp of the levels below
  MaxBlows    \* bound: blows under way when a monster recovers or comes back

Acts == {"STAND", "MOVE", "ATTACK", "HIT", "REGEN"}

Mob == [state : Acts, target : Players \cup {NoPlayer}, ready : BOOLEAN]

ASSUME MonsterAssumption ==
  /\ \A k \in Templates :
       k.acts \subseteq Acts /\ k.body \in BOOLEAN /\ k.first \in BOOLEAN /\ k.exp \in Nat
  /\ MaxLevel \in Nat \ {0} /\ Need \in [1 .. MaxLevel - 1 -> Nat \ {0}]
  /\ NoPlayer \notin Players /\ NoMob \notin Mob /\ MaxBlows \in Nat

VARIABLES
  template,  \* MapInstance::_mob_spawn_locations
  mob,       \* MapInstance::_mobs, with the state, target and readiness of each monster
  unknown,   \* _objects holds a null, under the id of something that is not there
  due,       \* the 15 seconds since _last_respawn_tick are over
  todo,      \* the monsters the Update under way has yet to update
  place,     \* of a Player: "off", "on" the map, "left" it, or "gone", which is freed
  alive,     \* GameObject::_is_alive of a Player
  level, exp,
  blows,     \* timers of Monster::Attack, by the player they will hit
  crash      \* why the server stopped: a state that was entered, "null" or "expired"

ofMobs == <<template, mob, unknown, due, todo>>
ofPlayers == <<place, alive, level, exp>>
vars == <<ofMobs, ofPlayers, blows, crash>>

Running == crash = "none"
Idle == Running /\ todo = {}
Living == {s \in Spawns : mob[s] # NoMob}
OnMap == {p \in Players : place[p] = "on"}
UnderWay == SumFunction(blows)

Init ==
  /\ template \in [Spawns -> Templates]
  /\ mob = [s \in Spawns |-> NoMob]
  /\ unknown = FALSE /\ due = TRUE /\ todo = {}
  /\ place = [p \in Players |-> "off"]
  /\ alive = [p \in Players |-> TRUE]
  /\ level = [p \in Players |-> 1] /\ exp = [p \in Players |-> 0]
  /\ blows = [p \in Players |-> 0]
  /\ crash = "none"
-----------------------------------------------------------------------------
(* The state machine of a monster *)

Has(s, act) == act \in template[s].acts

\* A target whose Player object is not referenced any more may be freed while it is looked at.
Fleeting(p) == p # NoPlayer /\ place[p] = "left" /\ blows[p] = 0

\* Slip: a target is let go of when it is freed, not when it is dead.
DropDeadLate(m, dead) == m

\* The target, if it is alive.
DropDead(m, dead) == [m EXCEPT !.target = IF @ \in dead THEN NoPlayer ELSE @]

\* What a step of a monster comes to: the monster, a player it swings at, a crash.
Outcome(m, swing, stop) == [mob |-> m, swing |-> swing, crash |-> stop]
Stay(m) == {Outcome(m, NoPlayer, "none")}

\* ChangeState asserts that the template has the state.  Entering MOVE, OnStatusUpdated
\* locks the target again after it has looked whether it is alive.
ChangeState(s, m, act, dead) ==
  LET next == [DropDead(m, dead) EXCEPT !.state = act] IN
  IF ~ Has(s, act) THEN {Outcome(m, NoPlayer, act)}
  ELSE Stay(next) \cup {Outcome(m, NoPlayer, "expired") :
                          p \in {q \in {next.target} : act = "MOVE" /\ Fleeting(q)}}

\* IsTargetInAttackRange: TRUE, FALSE, or "expired" when the target is freed after HasTarget.
Ranges(s, m) ==
  IF m.target # NoPlayer /\ Has(s, "ATTACK")
  THEN {"near", "far"} \cup {"expired" : p \in {q \in {m.target} : Fleeting(q)}}
  ELSE {"far"}

\* An aggressive monster without a target takes the nearest player of its row, if there is one.
Acquire(s, m, dead) ==
  IF ~ Has(s, "ATTACK") \/ ~ template[s].first THEN {}
  ELSE UNION {LET n == [m EXCEPT !.target = p] IN
              UNION {ChangeState(s, n, IF r = "near" /\ m.ready THEN "ATTACK" ELSE "MOVE", dead) :
                       r \in Ranges(s, n)} : p \in OnMap \ dead}

\* What a monster with a target does about it, by where it finds it.
Approach(s, m, near, far) ==
  UNION {CASE r = "near" -> near [] r = "far" -> far
           [] r = "expired" -> {Outcome(m, NoPlayer, "expired")} : r \in Ranges(s, m)}

StandState(s, m, dead) ==
  IF m.target = NoPlayer
  THEN Acquire(s, m, dead) \cup Stay(m) \cup ChangeState(s, m, "MOVE", dead)
  ELSE Approach(s, m,
         IF m.ready THEN ChangeState(s, m, "ATTACK", dead) ELSE Stay(m),
         ChangeState(s, m, "MOVE", dead))

\* Slip: a monster that arrives attacks, whoever it was going to.
MoveStateAttacks(s, m, dead) ==
  IF m.target = NoPlayer
  THEN Acquire(s, m, dead) \cup Stay(m) \cup ChangeState(s, m, "ATTACK", dead)
  ELSE Approach(s, m,
         ChangeState(s, m, IF m.ready THEN "ATTACK" ELSE "STAND", dead),
         Stay(m) \cup ChangeState(s, m, "ATTACK", dead) \cup ChangeState(s, m, "STAND", dead))

\* On the way, arrived at where the target was, or at the end of its range.
MoveState(s, m, dead) ==
  IF m.target = NoPlayer
  THEN Acquire(s, m, dead) \cup Stay(m) \cup ChangeState(s, m, "STAND", dead)
  ELSE Approach(s, m,
         ChangeState(s, m, IF m.ready THEN "ATTACK" ELSE "STAND", dead),
         Stay(m) \cup ChangeState(s, m, "ATTACK", dead) \cup ChangeState(s, m, "STAND", dead))

\* Monster::Attack, then the end of the animation or not.
AttackState(s, m, dead) ==
  IF m.ready /\ m.target # NoPlayer
  THEN {[o EXCEPT !.swing = m.target] :
          o \in LET n == [m EXCEPT !.ready = FALSE] IN Stay(n) \cup ChangeState(s, n, "STAND", dead)}
  ELSE Stay(m) \cup ChangeState(s, m, "STAND", dead)

\* HitState and RegenState: the end of the animation or not.
WaitState(s, m, dead) == Stay(m) \cup ChangeState(s, m, "STAND", dead)

StateUpdate(s, m, dead) ==
  CASE m.state = "STAND" -> StandState(s, m, dead)
    [] m.state = "MOVE" -> MoveState(s, m, dead)
    [] m.state = "ATTACK" -> AttackState(s, m, dead)
    [] m.state \in {"HIT", "REGEN"} -> WaitState(s, m, dead)
-----------------------------------------------------------------------------
(* Update, the job of GameTick *)

Dead == {p \in Players : ~ alive[p]}

\* Whom ProcessCollision can find in the monster's body.
Touchable(s) ==
  IF template[s].body /\ mob[s].state # "REGEN" THEN OnMap \ Dead ELSE {}

\* RespawnMobs: the monsters that are missing come back together, 15 seconds after the last
\* that did.
Respawned == IF due THEN Spawns \ Living ELSE {}
FirstState(s) == IF Has(s, "REGEN") THEN "REGEN" ELSE "STAND"
Newborn(s) == [state |-> FirstState(s), target |-> NoPlayer, ready |-> TRUE]

\* Nothing happens on a map without players.
Update ==
  /\ Idle /\ OnMap # {}
  /\ mob' = [s \in Spawns |-> IF s \in Respawned THEN Newborn(s) ELSE mob[s]]
  /\ due' = (due /\ Respawned = {})
  /\ todo' = Living \cup Respawned
  /\ crash' = CASE \E s \in Respawned : ~ Has(s, FirstState(s)) -> "STAND"
                [] \A s \in Respawned : Has(s, FirstState(s)) -> IF unknown THEN "null" ELSE "none"
  /\ UNCHANGED <<template, unknown, ofPlayers, blows>>

Becomes(s, o) ==
  /\ mob' = [mob EXCEPT ![s] = o.mob]
  /\ blows' = IF o.swing = NoPlayer THEN blows ELSE [blows EXCEPT ![o.swing] = @ + 1]
  /\ crash' = o.crash

\* Slip: the target is looked at by the states only.
UpdateMonsterUnchecked(s) ==
  /\ Running /\ s \in todo
  /\ todo' = todo \ {s}
  /\ \E killed \in SUBSET Touchable(s) :
       /\ \E o \in StateUpdate(s, mob[s], Dead \cup killed) : Becomes(s, o)
       /\ alive' = [p \in Players |-> alive[p] /\ p \notin killed]
  /\ UNCHANGED <<template, unknown, due, place, level, exp>>

\* Monster::Update: a dead target is let go of.  Otherwise the monster's body hits whom it
\* touches, then its state decides.
UpdateMonster(s) ==
  /\ Running /\ s \in todo
  /\ todo' = todo \ {s}
  /\ IF mob[s].target \in Dead
     THEN /\ \E o \in ChangeState(s, DropDead(mob[s], Dead), "STAND", Dead) : Becomes(s, o)
          /\ UNCHANGED alive
     ELSE \E killed \in SUBSET Touchable(s) :
            /\ \E o \in StateUpdate(s, mob[s], Dead \cup killed) : Becomes(s, o)
            /\ alive' = [p \in Players |-> alive[p] /\ p \notin killed]
  /\ UNCHANGED <<template, unknown, due, place, level, exp>>
-----------------------------------------------------------------------------
(* Jobs for players *)

Enter(p) ==
  /\ Idle /\ place[p] = "off"
  /\ place' = [place EXCEPT ![p] = "on"]
  /\ UNCHANGED <<ofMobs, alive, level, exp, blows, crash>>

Leave(p) ==
  /\ Idle /\ place[p] = "on"
  /\ place' = [place EXCEPT ![p] = "left"]
  /\ UNCHANGED <<ofMobs, alive, level, exp, blows, crash>>

\* Packets a session sent before it was closed may come to the map after it.
Around(p) == place[p] \in {"on", "left"}

OnRevive(p) ==
  /\ Idle /\ Around(p)
  /\ alive' = [alive EXCEPT ![p] = TRUE]
  /\ UNCHANGED <<ofMobs, place, level, exp, blows, crash>>

\* Slip: what is left over when a level is reached is dropped.
AddExpDropsRest(p, gain) ==
  IF level[p] = MaxLevel THEN UNCHANGED <<level, exp>>
  ELSE LET e == exp[p] + gain IN
       IF e < Need[level[p]] THEN exp' = [exp EXCEPT ![p] = e] /\ UNCHANGED level
       ELSE /\ level' = [level EXCEPT ![p] = @ + 1]
            /\ exp' = [exp EXCEPT ![p] = 0]

\* One level at most; the rest is kept, except at the last.
AddExp(p, gain) ==
  IF level[p] = MaxLevel THEN UNCHANGED <<level, exp>>
  ELSE LET e == exp[p] + gain IN
       IF e < Need[level[p]] THEN exp' = [exp EXCEPT ![p] = e] /\ UNCHANGED level
       ELSE /\ level' = [level EXCEPT ![p] = @ + 1]
            /\ exp' = [exp EXCEPT ![p] = IF level[p] + 1 = MaxLevel THEN 0 ELSE e - Need[level[p]]]

\* A hit that a monster survives.  Only one that can attack turns to the attacker.
Survive(p, s) ==
  LET m == IF Has(s, "ATTACK") THEN [mob[s] EXCEPT !.target = p] ELSE mob[s] IN
  /\ \E o \in ChangeState(s, m, "HIT", Dead) : Becomes(s, o)
  /\ UNCHANGED <<level, exp>>

\* RemoveObject, then the attacker is paid.
Die(p, s) ==
  /\ mob' = [mob EXCEPT ![s] = NoMob]
  /\ AddExp(p, template[s].exp)
  /\ UNCHANGED <<blows, crash>>

OnAttack(p, s) ==
  /\ Idle /\ Around(p) /\ alive[p] /\ mob[s] # NoMob
  /\ Survive(p, s) \/ Die(p, s)
  /\ UNCHANGED <<template, unknown, due, todo, place, alive>>

\* A client attacks what is not there: _objects[target_id] inserts a null.
OnAttackUnknown(p) ==
  /\ Idle /\ Around(p) /\ alive[p]
  /\ unknown' = TRUE
  /\ UNCHANGED <<template, mob, due, todo, ofPlayers, blows, crash>>

\* The timer of Attack: it hits its target wherever that is, if it hits at all.
BlowLands(p) ==
  /\ Idle /\ blows[p] > 0
  /\ blows' = [blows EXCEPT ![p] = @ - 1]
  /\ \E survives \in {alive[p], FALSE} : alive' = [alive EXCEPT ![p] = survives]
  /\ UNCHANGED <<ofMobs, place, level, exp, crash>>
-----------------------------------------------------------------------------
(* Other threads, and time *)

\* The last reference to a player that left is dropped; no weak_ptr has it then.
Free(p) ==
  /\ Running /\ Fleeting(p)
  /\ place' = [place EXCEPT ![p] = "gone"]
  /\ mob' = [s \in Spawns |-> IF mob[s] = NoMob THEN NoMob ELSE DropDead(mob[s], {p})]
  /\ UNCHANGED <<template, unknown, due, todo, alive, level, exp, blows, crash>>

Prompt == UnderWay + Cardinality(Spawns) <= MaxBlows

\* _next_attack_time passes.
Recover(s) ==
  /\ Running /\ mob[s] # NoMob /\ ~ mob[s].ready /\ Prompt
  /\ mob' = [mob EXCEPT ![s].ready = TRUE]
  /\ UNCHANGED <<template, unknown, due, todo, ofPlayers, blows, crash>>

\* Slip: every Update starts the 15 seconds anew.
RespawnDueUnseen ==
  /\ Running /\ ~ due /\ Prompt /\ OnMap = {}
  /\ due' = TRUE
  /\ UNCHANGED <<template, mob, unknown, todo, ofPlayers, blows, crash>>

RespawnDue ==
  /\ Running /\ ~ due /\ Prompt
  /\ due' = TRUE
  /\ UNCHANGED <<template, mob, unknown, todo, ofPlayers, blows, crash>>

Next ==
  \/ Update \/ RespawnDue
  \/ \E s \in Spawns : UpdateMonster(s) \/ Recover(s)
  \/ \E p \in Players, s \in Spawns : OnAttack(p, s)
  \/ \E p \in Players :
       \/ Enter(p) \/ Leave(p) \/ Free(p)
       \/ OnRevive(p) \/ OnAttackUnknown(p) \/ BlowLands(p)

\* GameTick posts updates for ever, the clock runs whatever Prompt says, and a job that was
\* posted is run.
Fairness ==
  /\ WF_vars(Update) /\ SF_vars(RespawnDue)
  /\ \A s \in Spawns : WF_vars(UpdateMonster(s))
  /\ \A p \in Players : SF_vars(BlowLands(p))

Spec == Init /\ [][Next]_vars /\ Fairness
-----------------------------------------------------------------------------
(* Properties *)

\* Types; a target is a player that has come and is not freed.
TypeOK ==
  /\ template \in [Spawns -> Templates] /\ mob \in [Spawns -> Mob \cup {NoMob}]
  /\ unknown \in BOOLEAN /\ due \in BOOLEAN /\ todo \subseteq Living
  /\ place \in [Players -> {"off", "on", "left", "gone"}]
  /\ alive \in [Players -> BOOLEAN]
  /\ level \in [Players -> 1 .. MaxLevel] /\ exp \in [Players -> Nat]
  /\ blows \in [Players -> Nat]
  /\ crash \in Acts \cup {"none", "null", "expired"}
  /\ \A s \in Living : mob[s].target # NoPlayer => Around(mob[s].target)

\* The server stops over a template without STAND, MOVE or HIT, over a client that attacks
\* what is not there, and over a target freed between two looks at it: never because a monster
\* that cannot attack does, though MoveState and AttackState never ask whether it can.
CrashesExplained ==
  /\ crash \notin {"ATTACK", "REGEN"}
  /\ crash \in {"STAND", "MOVE", "HIT"} => \E s \in Spawns : ~ Has(s, crash)
  /\ crash = "null" => unknown
  /\ crash = "expired" => \E p \in Players : Fleeting(p)

\* A monster swings only at a player that was alive when its update began, and is its target
\* (Monster::Update, AttackState): the dead are hit by blows that were under way only.
BlowsAimed ==
  [][\A p \in Players :
       blows'[p] > blows[p] =>
         /\ alive[p] /\ Around(p)
         /\ \E s \in todo : mob[s].target = p /\ mob[s].ready /\ Has(s, "ATTACK")]_vars

\* What the levels below one have cost, and what a player has gained in all.
Before[n \in 1 .. MaxLevel] == IF n = 1 THEN 0 ELSE Before[n - 1] + Need[n - 1]
Worth(p) == exp[p] + Before[level[p]]
Dies(s) == mob[s] # NoMob /\ mob'[s] = NoMob
Paid == <<level, exp>>' # <<level, exp>>

\* A monster that goes away was killed by exactly one player, who keeps all of its experience
\* until the last level, and nothing else is paid for, whoever else aims at it, is its target
\* or has left (OnAttack, OnDamaged, RemoveObject, AddExp).
DeathsArePaid ==
  [][/\ \A s \in Spawns :
          Dies(s) => \E p \in Players : /\ alive[p]
                                        /\ Worth(p)' = Worth(p) + template[s].exp \/ level'[p] = MaxLevel
                                        /\ \A q \in Players \ {p} : Worth(q)' = Worth(q)
     /\ Paid => \E s \in Spawns : Dies(s)]_vars

\* A monster that was killed comes back, as long as somebody is on the map (RespawnMobs).
MobsReturn ==
  \A s \in Spawns : []<>(mob[s] # NoMob \/ OnMap = {} \/ ~ Running)
=============================================================================
