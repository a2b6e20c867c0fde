---------------------------- MODULE MonsterProofs ----------------------------
(***************************************************************************)
(* Proofs about Monster, for any players, spawn points and templates.       *)
(***************************************************************************)
EXTENDS Monster, FiniteSetTheorems, TLAPS

\* What the states rely on and never look at: a monster with a target is one that can attack.
Armed == \A s \in Living : mob[s].target # NoPlayer => Has(s, "ATTACK")

\* The part of TypeOK that relates two variables: a target is a player that was not freed.
Reachable == \A s \in Living : mob[s].target # NoPlayer => Around(mob[s].target)

\* The inductive invariant.
IInv == TypeOK /\ Armed /\ CrashesExplained

\* What a step of monster s, which was m, may come to.
Sound(s, m, o) ==
  /\ o.mob \in Mob
  /\ o.mob.target # NoPlayer => /\ o.mob.target = m.target \/ o.mob.target \in OnMap
                                /\ Has(s, "ATTACK")
  /\ o.crash \in {"none", "STAND", "MOVE", "HIT", "expired"}
  /\ o.crash \in {"STAND", "MOVE", "HIT"} => ~ Has(s, o.crash)
  /\ o.crash = "expired" => o.swing = NoPlayer /\ \E p \in Players : Fleeting(p)

\* Whether it swings, and at whom.
Aimed(m, o) == o.swing # NoPlayer => m.ready /\ o.swing = m.target

\* The players on the map are players.
LEMMA OnMapPlayers == OnMap \subseteq Players
BY DEF OnMap

\* A monster that is left as it is.
LEMMA StaySound ==
  ASSUME NEW s, NEW m \in Mob, m.target # NoPlayer => Has(s, "ATTACK"),
         NEW o \in Stay(m)
  PROVE  Sound(s, m, o) /\ Aimed(m, o) /\ o.crash # "expired"
BY DEF Sound, Aimed, Stay, Outcome, Mob

\* To let go of a target that is dead leaves a monster, with the target it had or none.
LEMMA DropDeadMob ==
  ASSUME NEW m \in Mob, NEW dead
  PROVE  /\ DropDead(m, dead) \in Mob
         /\ DropDead(m, dead).target \in {m.target, NoPlayer}
         /\ DropDead(m, dead).state = m.state /\ DropDead(m, dead).ready = m.ready
         /\ DropDead(m, dead).target \in dead => DropDead(m, dead).target = NoPlayer
BY DEF DropDead, Mob

\* ChangeState stops the server over a state the template does not have, and over the target
\* when the monster is about to move.
LEMMA ChangeStateSound ==
  ASSUME NEW s, NEW m \in Mob, NEW act \in {"STAND", "MOVE", "HIT", "ATTACK"}, NEW dead,
         m.target # NoPlayer => Has(s, "ATTACK"), act = "ATTACK" => Has(s, "ATTACK"),
         NEW o \in ChangeState(s, m, act, dead)
  PROVE  /\ Sound(s, m, o) /\ Aimed(m, o)
         /\ act # "MOVE" => o.crash # "expired"
<1> DEFINE next == [DropDead(m, dead) EXCEPT !.state = act]
<1>1. next \in Mob /\ next.target \in {m.target, NoPlayer}
  BY DropDeadMob DEF Mob, Acts
<1>2. CASE ~ Has(s, act)
  <2>1. o = Outcome(m, NoPlayer, act)
    BY <1>2 DEF ChangeState
  <2>2. o.mob = m /\ o.swing = NoPlayer /\ o.crash = act
    BY <2>1 DEF Outcome
  <2>3. QED  BY <1>2, <2>2 DEF Sound, Aimed
<1>3. CASE Has(s, act) /\ o = Outcome(next, NoPlayer, "none")
  <2>1. o.mob = next /\ o.swing = NoPlayer /\ o.crash = "none"
    BY <1>3 DEF Outcome
  <2>2. QED  BY <1>1, <2>1 DEF Sound, Aimed
<1>4. CASE /\ Has(s, act) /\ act = "MOVE"
           /\ o = Outcome(m, NoPlayer, "expired") /\ Fleeting(next.target)
  <2>1. o.mob = m /\ o.swing = NoPlayer /\ o.crash = "expired"
    BY <1>4 DEF Outcome
  <2>2. next.target \in Players /\ Fleeting(next.target)
    BY <1>1, <1>4 DEF Fleeting, Mob
  <2>3. QED  BY <1>4, <2>1, <2>2 DEF Sound, Aimed
<1>5. QED
  <2> HIDE DEF next
  <2>1. CASE Has(s, act)
    <3>1. o \in Stay(next) \cup {Outcome(m, NoPlayer, "expired") :
                                   p \in {q \in {next.target} : act = "MOVE" /\ Fleeting(q)}}
      BY <2>1 DEF ChangeState, next
    <3>2. QED  BY <1>3, <1>4, <2>1, <3>1 DEF Stay
  <2>2. QED  BY <1>2, <2>1

\* A target is looked for in the range of a monster that has one and can attack only.
LEMMA RangesTell ==
  ASSUME NEW s, NEW m, NEW r \in Ranges(s, m)
  PROVE  /\ r \in {"near", "far", "expired"}
         /\ r \in {"near", "expired"} => Has(s, "ATTACK")
         /\ r = "expired" => Fleeting(m.target)
BY DEF Ranges

\* An approach ends near, far, or with a target that is gone.
LEMMA ApproachTells ==
  ASSUME NEW s, NEW m, NEW near, NEW far, NEW o \in Approach(s, m, near, far)
  PROVE  o \in near \/ o \in far \/ (o = Outcome(m, NoPlayer, "expired") /\ Fleeting(m.target))
<1>1. PICK r \in Ranges(s, m) :
        o \in CASE r = "near" -> near [] r = "far" -> far
                [] r = "expired" -> {Outcome(m, NoPlayer, "expired")}
  BY DEF Approach
<1>2. r \in {"near", "far", "expired"} /\ (r = "expired" => Fleeting(m.target))
  BY RangesTell
<1>3. QED  BY <1>1, <1>2

\* The target of a monster expires under its eyes.
LEMMA ExpiredSound ==
  ASSUME NEW s, NEW m \in Mob, m.target # NoPlayer => Has(s, "ATTACK"), Fleeting(m.target)
  PROVE  LET o == Outcome(m, NoPlayer, "expired") IN Sound(s, m, o) /\ Aimed(m, o)
<1>1. m.target \in Players
  BY DEF Fleeting, Mob
<1>2. QED  BY <1>1 DEF Sound, Aimed, Outcome

\* A monster that may take a target can attack it, and takes it from the map.
LEMMA AcquireSound ==
  ASSUME NEW s, NEW m \in Mob, NEW dead, m.target = NoPlayer,
         NEW o \in Acquire(s, m, dead)
  PROVE  Sound(s, m, o) /\ Aimed(m, o)
<1>1. Has(s, "ATTACK")
  BY DEF Acquire
<1>2. PICK p \in OnMap \ dead :
        LET n == [m EXCEPT !.target = p] IN
        o \in UNION {ChangeState(s, n, IF r = "near" /\ m.ready THEN "ATTACK" ELSE "MOVE", dead) :
                       r \in Ranges(s, n)}
  BY DEF Acquire
<1> DEFINE n == [m EXCEPT !.target = p]
<1>3. PICK r \in Ranges(s, n) :
        o \in ChangeState(s, n, IF r = "near" /\ m.ready THEN "ATTACK" ELSE "MOVE", dead)
  BY <1>2
<1>4. n \in Mob /\ n.target = p /\ n.ready = m.ready
  BY OnMapPlayers DEF Mob
<1> HIDE DEF n
<1>5. PICK act \in {"ATTACK", "MOVE"} : o \in ChangeState(s, n, act, dead)
  BY <1>3
<1>6. Sound(s, n, o) /\ Aimed(n, o) /\ o.swing = NoPlayer
  <2>1. Sound(s, n, o) /\ Aimed(n, o)
    BY <1>1, <1>4, <1>5, ChangeStateSound
  <2>2. o.swing = NoPlayer
    BY <1>5 DEF ChangeState, Stay, Outcome
  <2>3. QED  BY <2>1, <2>2
<1>7. QED  BY <1>1, <1>4, <1>6 DEF Sound, Aimed

\* StandState.
LEMMA StandSound ==
  ASSUME NEW s, NEW m \in Mob, NEW dead, m.target # NoPlayer => Has(s, "ATTACK"),
         NEW o \in StandState(s, m, dead)
  PROVE  Sound(s, m, o) /\ Aimed(m, o)
<1>1. CASE m.target = NoPlayer
  <2>1. o \in Acquire(s, m, dead) \/ o \in Stay(m) \/ o \in ChangeState(s, m, "MOVE", dead)
    BY <1>1 DEF StandState
  <2>2. QED  BY <1>1, <2>1, AcquireSound, StaySound, ChangeStateSound
<1>2. CASE m.target # NoPlayer
  <2>1. \/ o \in ChangeState(s, m, "ATTACK", dead) \/ o \in Stay(m)
        \/ o \in ChangeState(s, m, "MOVE", dead)
        \/ o = Outcome(m, NoPlayer, "expired") /\ Fleeting(m.target)
    BY <1>2, ApproachTells DEF StandState
  <2>2. QED  BY <1>2, <2>1, StaySound, ChangeStateSound, ExpiredSound
<1>3. QED  BY <1>1, <1>2

\* MoveState.
LEMMA MoveSound ==
  ASSUME NEW s, NEW m \in Mob, NEW dead, m.target # NoPlayer => Has(s, "ATTACK"),
         NEW o \in MoveState(s, m, dead)
  PROVE  Sound(s, m, o) /\ Aimed(m, o)
<1>1. CASE m.target = NoPlayer
  <2>1. o \in Acquire(s, m, dead) \/ o \in Stay(m) \/ o \in ChangeState(s, m, "STAND", dead)
    BY <1>1 DEF MoveState
  <2>2. QED  BY <1>1, <2>1, AcquireSound, StaySound, ChangeStateSound
<1>2. CASE m.target # NoPlayer
  <2>1. \/ o \in ChangeState(s, m, "ATTACK", dead) \/ o \in Stay(m)
        \/ o \in ChangeState(s, m, "STAND", dead)
        \/ o = Outcome(m, NoPlayer, "expired") /\ Fleeting(m.target)
    BY <1>2, ApproachTells DEF MoveState
  <2>2. QED  BY <1>2, <2>1, StaySound, ChangeStateSound, ExpiredSound
<1>3. QED  BY <1>1, <1>2

\* AttackState swings when the monster is ready and has a target.
LEMMA AttackSound ==
  ASSUME NEW s, NEW m \in Mob, NEW dead, m.target # NoPlayer => Has(s, "ATTACK"),
         NEW o \in AttackState(s, m, dead)
  PROVE  Sound(s, m, o) /\ Aimed(m, o)
<1>1. CASE m.ready /\ m.target # NoPlayer
  <2> DEFINE n == [m EXCEPT !.ready = FALSE]
  <2>1. n \in Mob /\ n.target = m.target
    BY DEF Mob
  <2>2. PICK x \in Stay(n) \cup ChangeState(s, n, "STAND", dead) : o = [x EXCEPT !.swing = m.target]
    BY <1>1 DEF AttackState
  <2> HIDE DEF n
  <2>3. Sound(s, n, x) /\ x.crash # "expired"
    BY <2>1, <2>2, StaySound, ChangeStateSound
  <2>4. o.mob = x.mob /\ o.crash = x.crash /\ o.swing = m.target
    <3>1. \E y, stop : x = Outcome(y, NoPlayer, stop)
      BY <2>2 DEF Stay, ChangeState
    <3>2. QED  BY <2>2, <3>1 DEF Outcome
  <2>5. QED  BY <1>1, <2>1, <2>3, <2>4 DEF Sound, Aimed
<1>2. CASE ~ (m.ready /\ m.target # NoPlayer)
  <2>1. o \in Stay(m) \/ o \in ChangeState(s, m, "STAND", dead)
    BY <1>2 DEF AttackState
  <2>2. QED  BY <2>1, StaySound, ChangeStateSound
<1>3. QED  BY <1>1, <1>2

\* Whatever state the monster is in.
LEMMA UpdateSound ==
  ASSUME NEW s, NEW m \in Mob, NEW dead, m.target # NoPlayer => Has(s, "ATTACK"),
         NEW o \in StateUpdate(s, m, dead)
  PROVE  Sound(s, m, o) /\ Aimed(m, o)
<1>1. m.state \in {"STAND", "MOVE", "ATTACK", "HIT", "REGEN"}
  BY DEF Mob, Acts
<1>2. CASE m.state \in {"HIT", "REGEN"}
  <2>1. o \in Stay(m) \/ o \in ChangeState(s, m, "STAND", dead)
    BY <1>2 DEF StateUpdate, WaitState
  <2>2. QED  BY <2>1, StaySound, ChangeStateSound
<1>3. CASE m.state = "STAND"
  BY <1>3, StandSound DEF StateUpdate
<1>4. CASE m.state = "MOVE"
  BY <1>4, MoveSound DEF StateUpdate
<1>5. CASE m.state = "ATTACK"
  BY <1>5, AttackSound DEF StateUpdate
<1>6. QED  BY <1>1, <1>2, <1>3, <1>4, <1>5
-----------------------------------------------------------------------------
(* The actions *)

\* The map starts without monsters.
LEMMA InitIInv == Init => IInv
<1> SUFFICES ASSUME Init PROVE IInv
  OBVIOUS
<1>1. Living = {}
  BY DEF Init, Living
<1>2. 1 \in 1 .. MaxLevel
  BY MonsterAssumption
<1>3. TypeOK
  BY <1>1, <1>2 DEF Init, TypeOK
<1>4. QED  BY <1>1, <1>3 DEF Init, IInv, Armed, CrashesExplained

\* What one monster does to the map.
LEMMA BecomesIInv ==
  ASSUME IInv, NEW s \in Living, NEW o, Becomes(s, o),
         o.mob \in Mob, o.swing \in Players \cup {NoPlayer},
         o.mob.target # NoPlayer => Around(o.mob.target) /\ Has(s, "ATTACK"),
         o.crash \in {"none", "STAND", "MOVE", "HIT", "expired"},
         o.crash \in {"STAND", "MOVE", "HIT"} => ~ Has(s, o.crash),
         o.crash = "expired" => o.swing = NoPlayer /\ \E p \in Players : Fleeting(p),
         UNCHANGED <<template, unknown, due, place>>, todo' \subseteq todo,
         alive' \in [Players -> BOOLEAN],
         level' \in [Players -> 1 .. MaxLevel], exp' \in [Players -> Nat]
  PROVE  IInv' /\ Living' = Living
<1>1. s \in Spawns /\ mob[s] # NoMob
  BY DEF Living
<1>2. mob' = [mob EXCEPT ![s] = o.mob] /\ crash' = o.crash
  BY DEF Becomes
<1>3. Living' = Living /\ \A x \in Living : mob'[x] = IF x = s THEN o.mob ELSE mob[x]
  BY <1>1, <1>2, MonsterAssumption DEF Living, IInv, TypeOK
<1>4. blows' \in [Players -> Nat]
  BY DEF Becomes, IInv, TypeOK
<1>5. TypeOK'
  <2>1. mob' \in [Spawns -> Mob \cup {NoMob}]
    BY <1>1, <1>2 DEF IInv, TypeOK
  <2>2. \A x \in Living : mob'[x].target # NoPlayer => Around(mob'[x].target)
    BY <1>3 DEF IInv, TypeOK
  <2>3. Reachable'
    BY <1>3, <2>2 DEF Around, Reachable
  <2>4. crash' \in Acts \cup {"none", "null", "expired"}
    BY <1>2 DEF Acts
  <2>5. todo' \subseteq Living'
    BY <1>3 DEF IInv, TypeOK
  <2>6. QED  BY <1>4, <2>1, <2>3, <2>4, <2>5 DEF IInv, TypeOK, Reachable
<1>6. Armed'
  BY <1>3 DEF IInv, Armed, Has
<1>7. CrashesExplained'
  <2>1. o.crash = "expired" => \E p \in Players : Fleeting(p)'
    <3>1. o.crash = "expired" => blows' = blows
      BY DEF Becomes
    <3>2. QED  BY <3>1 DEF Fleeting
  <2>2. QED  BY <1>1, <1>2, <2>1 DEF CrashesExplained, Has
<1>8. QED  BY <1>3, <1>5, <1>6, <1>7 DEF IInv

\* Nothing happens to the monsters but that due, unknown and todo change.
LEMMA ElsewhereIInv ==
  ASSUME IInv, Running, UNCHANGED <<template, mob, crash>>,
         todo' \subseteq Living, due' \in BOOLEAN, unknown' \in BOOLEAN,
         alive' \in [Players -> BOOLEAN],
         level' \in [Players -> 1 .. MaxLevel], exp' \in [Players -> Nat],
         place' \in [Players -> {"off", "on", "left", "gone"}],
         \A p \in Players : Around(p) => Around(p)',
         blows' \in [Players -> Nat]
  PROVE  IInv'
<1>1. Living' = Living
  BY DEF Living
<1>2. Reachable'
  <2>1. \A x \in Living : mob[x].target \in Players \cup {NoPlayer}
    BY DEF IInv, TypeOK, Living, Mob
  <2>2. QED  BY <1>1, <2>1 DEF IInv, TypeOK, Reachable, Around
<1>3. TypeOK'
  BY <1>1, <1>2 DEF IInv, TypeOK, Reachable
<1>4. Armed'
  BY <1>1 DEF IInv, Armed, Has
<1>5. CrashesExplained'
  BY DEF CrashesExplained, Running
<1>6. QED  BY <1>3, <1>4, <1>5 DEF IInv

\* Monster::Update.
LEMMA UpdateMonsterIInv ==
  ASSUME IInv, NEW s \in Spawns, UpdateMonster(s)
  PROVE  /\ IInv' /\ Living' = Living
         /\ \A p \in Players :
              blows'[p] > blows[p] =>
                /\ alive[p] /\ Around(p)
                /\ mob[s].target = p /\ mob[s].ready /\ Has(s, "ATTACK")
<1>1. s \in Living /\ mob[s] \in Mob
  BY DEF UpdateMonster, IInv, TypeOK, Living
<1>2. mob[s].target # NoPlayer => Around(mob[s].target) /\ Has(s, "ATTACK")
  BY <1>1 DEF IInv, TypeOK, Armed
<1>3. /\ UNCHANGED <<template, unknown, due, place, level, exp>>
      /\ todo' \subseteq todo /\ alive' \in [Players -> BOOLEAN]
  BY DEF UpdateMonster, IInv, TypeOK
<1>4. PICK o : /\ Becomes(s, o) /\ Sound(s, mob[s], o) /\ Aimed(mob[s], o)
               /\ o.swing # NoPlayer => mob[s].target \notin Dead
  <2>1. CASE mob[s].target \in Dead
    <3> DEFINE m == DropDead(mob[s], Dead)
    <3>1. PICK o \in ChangeState(s, m, "STAND", Dead) : Becomes(s, o)
      BY <2>1 DEF UpdateMonster
    <3>2. m \in Mob /\ m.target \in {mob[s].target, NoPlayer}
      BY <1>1, DropDeadMob
    <3> HIDE DEF m
    <3>3. Sound(s, m, o)
      BY <1>2, <3>1, <3>2, ChangeStateSound
    <3>4. o.swing = NoPlayer
      BY <3>1 DEF ChangeState, Stay, Outcome
    <3>5. Sound(s, mob[s], o) /\ Aimed(mob[s], o)
      BY <3>2, <3>3, <3>4 DEF Sound, Aimed
    <3>6. QED  BY <3>1, <3>4, <3>5
  <2>2. CASE mob[s].target \notin Dead
    <3>1. PICK killed \in SUBSET Touchable(s) :
            \E o \in StateUpdate(s, mob[s], Dead \cup killed) : Becomes(s, o)
      BY <2>2 DEF UpdateMonster
    <3>2. PICK o \in StateUpdate(s, mob[s], Dead \cup killed) : Becomes(s, o)
      BY <3>1
    <3>3. Sound(s, mob[s], o) /\ Aimed(mob[s], o)
      BY <1>1, <1>2, <3>2, UpdateSound
    <3>4. QED  BY <2>2, <3>2, <3>3
  <2>3. QED  BY <2>1, <2>2
<1>5. o.swing \in Players \cup {NoPlayer}
  BY <1>1, <1>4 DEF Aimed, Mob
<1>6. IInv' /\ Living' = Living
  <2>1. o.mob.target # NoPlayer => Around(o.mob.target) /\ Has(s, "ATTACK")
    BY <1>2, <1>4 DEF Sound, OnMap, Around
  <2>2. level' \in [Players -> 1 .. MaxLevel] /\ exp' \in [Players -> Nat]
    BY <1>3 DEF IInv, TypeOK
  <2>3. QED  BY <1>1, <1>3, <1>4, <1>5, <2>1, <2>2, BecomesIInv DEF Sound
<1>7. ASSUME NEW p \in Players, blows'[p] > blows[p]
      PROVE  /\ alive[p] /\ Around(p)
             /\ mob[s].target = p /\ mob[s].ready /\ Has(s, "ATTACK")
  <2>1. o.swing = p
    BY <1>4, <1>7 DEF Becomes, IInv, TypeOK
  <2>2. p # NoPlayer
    BY MonsterAssumption
  <2>3. QED  BY <1>2, <1>4, <2>1, <2>2 DEF Aimed, Dead
<1>8. QED  BY <1>6, <1>7

\* RespawnMobs, and the null under an id nobody has.
LEMMA UpdateIInv == ASSUME IInv, Update PROVE IInv' /\ Living \subseteq Living'
<1>1. \A s \in Respawned : s \in Spawns /\ Newborn(s) \in Mob /\ Newborn(s).target = NoPlayer
  BY DEF Respawned, Newborn, FirstState, Mob, Acts
<1>2. mob' = [s \in Spawns |-> IF s \in Respawned THEN Newborn(s) ELSE mob[s]]
  BY DEF Update
<1>3. Living' = Living \cup Respawned
  BY <1>1, <1>2, MonsterAssumption DEF Living
<1>4. \A s \in Living' : mob'[s].target # NoPlayer => s \in Living /\ mob'[s] = mob[s]
  BY <1>1, <1>2, <1>3 DEF Living
<1>5. UNCHANGED <<template, unknown, place, alive, level, exp, blows>>
  BY DEF Update, ofPlayers
<1>6. /\ crash' \in {"STAND", "null", "none"}
      /\ crash' = "STAND" => \E s \in Spawns : ~ Has(s, "STAND")
      /\ crash' = "null" => unknown
  <2>1. CASE \E s \in Respawned : ~ Has(s, FirstState(s))
    <3>1. PICK s \in Respawned : ~ Has(s, FirstState(s))
      BY <2>1
    <3>2. s \in Spawns /\ ~ Has(s, "STAND")
      BY <1>1, <3>1 DEF FirstState
    <3>3. crash' = "STAND"
      BY <2>1 DEF Update
    <3>4. QED  BY <3>2, <3>3
  <2>2. CASE \A s \in Respawned : Has(s, FirstState(s))
    <3>1. crash' = IF unknown THEN "null" ELSE "none"
      BY <2>2 DEF Update
    <3>2. QED  BY <3>1
  <2>3. QED  BY <2>1, <2>2
<1>7. TypeOK'
  <2>1. mob' \in [Spawns -> Mob \cup {NoMob}]
    BY <1>1, <1>2 DEF IInv, TypeOK
  <2>2. due' \in BOOLEAN /\ todo' \subseteq Living'
    BY <1>3 DEF Update, IInv, TypeOK
  <2>3. Reachable'
    BY <1>4, <1>5 DEF IInv, TypeOK, Reachable, Around
  <2>4. crash' \in Acts \cup {"none", "null", "expired"}
    BY <1>6 DEF Acts
  <2>5. QED  BY <1>5, <2>1, <2>2, <2>3, <2>4 DEF IInv, TypeOK, Reachable
<1>8. Armed'
  BY <1>4, <1>5 DEF IInv, Armed, Has
<1>9. CrashesExplained'
  BY <1>5, <1>6 DEF CrashesExplained, Has
<1>10. QED  BY <1>3, <1>7, <1>8, <1>9 DEF IInv

\* Experience: a level is one of the game's, what is left of it is not negative.
LEMMA AddExpTypes ==
  ASSUME TypeOK, NEW p \in Players, NEW gain \in Nat, AddExp(p, gain)
  PROVE  level' \in [Players -> 1 .. MaxLevel] /\ exp' \in [Players -> Nat]
<1>1. MaxLevel \in Nat /\ level[p] \in 1 .. MaxLevel /\ exp[p] \in Nat
  BY MonsterAssumption DEF TypeOK
<1>2. CASE level[p] = MaxLevel
  BY <1>2 DEF AddExp, TypeOK
<1>3. CASE level[p] # MaxLevel
  <2> DEFINE e == exp[p] + gain
  <2>1. Need[level[p]] \in Nat /\ level[p] + 1 \in 1 .. MaxLevel /\ e \in Nat
    BY <1>1, <1>3, MonsterAssumption
  <2>2. CASE e < Need[level[p]]
    BY <1>3, <2>1, <2>2 DEF AddExp, TypeOK
  <2>3. CASE ~ (e < Need[level[p]])
    <3> DEFINE rest == IF level[p] + 1 = MaxLevel THEN 0 ELSE e - Need[level[p]]
    <3>1. level' = [level EXCEPT ![p] = level[p] + 1] /\ exp' = [exp EXCEPT ![p] = rest]
      BY <1>3, <2>3 DEF AddExp
    <3>2. rest \in Nat
      BY <2>1, <2>3
    <3>3. QED  BY <2>1, <3>1, <3>2 DEF TypeOK
  <2>4. QED  BY <2>2, <2>3
<1>4. QED  BY <1>2, <1>3

\* A hit that a monster survives, or does not.
LEMMA OnAttackIInv ==
  ASSUME IInv, NEW p \in Players, NEW s \in Spawns, OnAttack(p, s)
  PROVE  /\ IInv' /\ \A q \in Players : blows'[q] = blows[q]
         /\ (Living' = Living /\ UNCHANGED <<level, exp>>) \/ Die(p, s)
<1>1. s \in Living /\ mob[s] \in Mob /\ Around(p)
  BY DEF OnAttack, IInv, TypeOK, Living
<1>2. /\ UNCHANGED <<template, unknown, due, todo, place, alive>> /\ todo = {} /\ Running
      /\ alive' \in [Players -> BOOLEAN]
  BY DEF OnAttack, Idle, IInv, TypeOK
<1>3. CASE Survive(p, s)
  <2> DEFINE m == IF Has(s, "ATTACK") THEN [mob[s] EXCEPT !.target = p] ELSE mob[s]
  <2>1. m \in Mob /\ (m.target # NoPlayer => Around(m.target) /\ Has(s, "ATTACK"))
    BY <1>1 DEF Mob, IInv, TypeOK, Armed
  <2>2. PICK o \in ChangeState(s, m, "HIT", Dead) : Becomes(s, o)
    BY <1>3 DEF Survive
  <2> HIDE DEF m
  <2>3. /\ Sound(s, m, o) /\ o.crash # "expired" /\ o.swing = NoPlayer
        /\ o.mob.target \in {m.target, NoPlayer}
    <3>1. Sound(s, m, o) /\ o.crash # "expired"
      BY <2>1, <2>2, ChangeStateSound
    <3>2. DropDead(m, Dead) \in Mob /\ DropDead(m, Dead).target \in {m.target, NoPlayer}
      BY <2>1, DropDeadMob
    <3>3. \/ o = Outcome(m, NoPlayer, "HIT")
          \/ o = Outcome([DropDead(m, Dead) EXCEPT !.state = "HIT"], NoPlayer, "none")
      BY <2>2 DEF ChangeState, Stay
    <3>4. QED  BY <3>1, <3>2, <3>3 DEF Outcome, Mob
  <2>4. level' \in [Players -> 1 .. MaxLevel] /\ exp' \in [Players -> Nat]
    BY <1>3 DEF Survive, IInv, TypeOK
  <2>5. IInv' /\ Living' = Living
    BY <1>1, <1>2, <2>1, <2>2, <2>3, <2>4, BecomesIInv DEF Sound
  <2>6. blows' = blows
    BY <2>2, <2>3 DEF Becomes
  <2>7. QED  BY <1>3, <2>5, <2>6 DEF Survive
<1>4. CASE Die(p, s)
  <2>1. mob' = [mob EXCEPT ![s] = NoMob] /\ UNCHANGED <<blows, crash>>
    BY <1>4 DEF Die
  <2>2. Living' = Living \ {s} /\ \A x \in Living' : mob'[x] = mob[x]
    BY <1>1, <2>1 DEF Living, IInv, TypeOK
  <2>3. level' \in [Players -> 1 .. MaxLevel] /\ exp' \in [Players -> Nat]
    <3>1. template[s].exp \in Nat
      BY MonsterAssumption DEF IInv, TypeOK
    <3>2. QED  BY <1>4, <3>1, AddExpTypes DEF Die, IInv
  <2>4. mob' \in [Spawns -> Mob \cup {NoMob}]
    BY <2>1 DEF IInv, TypeOK
  <2>5. Reachable'
    BY <1>2, <2>2 DEF IInv, TypeOK, Reachable, Around
  <2>6. TypeOK'
    BY <1>2, <2>1, <2>2, <2>3, <2>4, <2>5 DEF IInv, TypeOK, Reachable
  <2>7. Armed'
    BY <1>2, <2>2 DEF IInv, Armed, Has
  <2>8. CrashesExplained'
    BY <1>2, <2>1 DEF CrashesExplained, Running
  <2>9. QED  BY <1>4, <2>1, <2>6, <2>7, <2>8 DEF IInv
<1>5. QED  BY <1>3, <1>4 DEF OnAttack

\* The last reference to a player is dropped, and the monsters' targets with it.
LEMMA FreeIInv ==
  ASSUME IInv, NEW p \in Players, Free(p) PROVE IInv' /\ Living' = Living
<1>1. /\ UNCHANGED <<template, unknown, due, todo, alive, level, exp, blows, crash>> /\ Running
      /\ place' = [place EXCEPT ![p] = "gone"]
  BY DEF Free
<1>2. mob' = [s \in Spawns |-> IF mob[s] = NoMob THEN NoMob ELSE DropDead(mob[s], {p})]
  BY DEF Free
<1>3. \A s \in Living : /\ DropDead(mob[s], {p}) \in Mob
                        /\ DropDead(mob[s], {p}).target \in {mob[s].target, NoPlayer}
                        /\ DropDead(mob[s], {p}).target = p => p = NoPlayer
  <2>1. \A s \in Living : mob[s] \in Mob
    BY DEF Living, IInv, TypeOK
  <2>2. QED  BY <2>1, DropDeadMob
<1>4. Living' = Living /\ \A s \in Living : mob'[s] = DropDead(mob[s], {p})
  BY <1>2, <1>3, MonsterAssumption DEF Living
<1>5. TypeOK'
  <2>1. mob' \in [Spawns -> Mob \cup {NoMob}]
    BY <1>2, <1>3 DEF Living
  <2>2. \A s \in Living : mob'[s].target # NoPlayer =>
                            /\ mob'[s].target = mob[s].target /\ mob'[s].target # p
                            /\ mob[s].target \in Players
    BY <1>3, <1>4, MonsterAssumption DEF Living, IInv, TypeOK, Mob
  <2>3. Reachable'
    BY <1>1, <1>4, <2>2 DEF IInv, TypeOK, Reachable, Around
  <2>4. place' \in [Players -> {"off", "on", "left", "gone"}]
    BY <1>1 DEF IInv, TypeOK
  <2>5. QED  BY <1>1, <1>4, <2>1, <2>3, <2>4 DEF IInv, TypeOK, Reachable
<1>6. Armed'
  BY <1>1, <1>3, <1>4 DEF IInv, Armed, Has
<1>7. CrashesExplained'
  BY <1>1 DEF CrashesExplained, Running
<1>8. QED  BY <1>4, <1>5, <1>6, <1>7 DEF IInv

\* A monster can attack again.
LEMMA RecoverIInv ==
  ASSUME IInv, NEW s \in Spawns, Recover(s) PROVE IInv' /\ Living' = Living
<1> DEFINE o == Outcome([mob[s] EXCEPT !.ready = TRUE], NoPlayer, "none")
<1>1. s \in Living /\ mob[s] \in Mob
  BY DEF Recover, Living, IInv, TypeOK
<1>2. /\ o.mob \in Mob /\ o.mob.target = mob[s].target /\ o.swing = NoPlayer /\ o.crash = "none"
      /\ Becomes(s, o)
  <2>1. [mob[s] EXCEPT !.ready = TRUE] \in Mob
    BY <1>1 DEF Mob
  <2>2. mob' = [mob EXCEPT ![s] = [mob[s] EXCEPT !.ready = TRUE]]
    BY DEF Recover
  <2>3. blows' = blows /\ crash' = "none"
    BY DEF Recover, Running
  <2>4. QED  BY <1>1, <2>1, <2>2, <2>3 DEF Outcome, Becomes, Mob
<1> HIDE DEF o
<1>3. o.mob.target # NoPlayer => Around(o.mob.target) /\ Has(s, "ATTACK")
  BY <1>1, <1>2 DEF IInv, TypeOK, Armed
<1>4. /\ UNCHANGED <<template, unknown, due, todo, place>>
      /\ alive' \in [Players -> BOOLEAN]
      /\ level' \in [Players -> 1 .. MaxLevel] /\ exp' \in [Players -> Nat]
  BY DEF Recover, ofPlayers, IInv, TypeOK
<1>5. QED  BY <1>1, <1>2, <1>3, <1>4, BecomesIInv

\* What leaves the monsters alone: players and their blows.
LEMMA PlayersIInv ==
  ASSUME IInv, NEW p \in Players,
         \/ Enter(p) \/ Leave(p) \/ OnRevive(p) \/ OnAttackUnknown(p) \/ BlowLands(p)
  PROVE  IInv' /\ \A q \in Players : blows'[q] = blows[q] \/ blows'[q] = blows[q] - 1
<1>1. Running /\ UNCHANGED <<template, mob, crash>> /\ todo' = todo
  BY DEF Enter, Leave, OnRevive, OnAttackUnknown, BlowLands, Idle, ofMobs, ofPlayers
<1>2. due' \in BOOLEAN /\ unknown' \in BOOLEAN /\ todo' \subseteq Living
  BY <1>1 DEF Enter, Leave, OnRevive, OnAttackUnknown, BlowLands, ofMobs, IInv, TypeOK
<1>3. level' \in [Players -> 1 .. MaxLevel] /\ exp' \in [Players -> Nat]
  BY DEF Enter, Leave, OnRevive, OnAttackUnknown, BlowLands, ofPlayers, IInv, TypeOK
<1>4. alive' \in [Players -> BOOLEAN]
  <2>1. UNCHANGED alive \/ \E b \in BOOLEAN : alive' = [alive EXCEPT ![p] = b]
    BY DEF Enter, Leave, OnRevive, OnAttackUnknown, BlowLands, ofPlayers, IInv, TypeOK
  <2>2. QED  BY <2>1 DEF IInv, TypeOK
<1>5. /\ place' \in [Players -> {"off", "on", "left", "gone"}]
      /\ \A q \in Players : Around(q) => Around(q)'
  BY DEF Enter, Leave, OnRevive, OnAttackUnknown, BlowLands, ofPlayers, Around,
         IInv, TypeOK
<1>6. UNCHANGED blows \/ (blows[p] > 0 /\ blows' = [blows EXCEPT ![p] = blows[p] - 1])
  BY DEF Enter, Leave, OnRevive, OnAttackUnknown, BlowLands
<1>7. blows' \in [Players -> Nat]
  BY <1>6 DEF IInv, TypeOK
<1>8. IInv'
  BY <1>1, <1>2, <1>3, <1>4, <1>5, <1>7, ElsewhereIInv
<1>9. \A q \in Players : blows'[q] = blows[q] \/ blows'[q] = blows[q] - 1
  BY <1>6 DEF IInv, TypeOK
<1>10. QED  BY <1>8, <1>9

\* The 15 seconds are over.
LEMMA RespawnDueIInv == ASSUME IInv, RespawnDue PROVE IInv'
<1>1. /\ Running /\ UNCHANGED <<template, mob, unknown, todo, place, alive, level, exp, blows, crash>>
      /\ due' = TRUE
  BY DEF RespawnDue, ofPlayers
<1>2. QED  BY <1>1, ElsewhereIInv DEF IInv, TypeOK, Around

\* Swings in this step are those of one monster, whose update it is.
Swings ==
  \A p \in Players :
    blows'[p] > blows[p] =>
      /\ alive[p] /\ Around(p)
      /\ \E s \in todo : mob[s].target = p /\ mob[s].ready /\ Has(s, "ATTACK")

\* No step breaks the invariant, and only the update of a monster swings.
LEMMA NextIInv == IInv /\ [Next]_vars => IInv' /\ Swings
<1> SUFFICES ASSUME IInv, [Next]_vars PROVE IInv' /\ Swings
  OBVIOUS
<1>0. blows \in [Players -> Nat]
  BY DEF IInv, TypeOK
<1>1. CASE Update
  BY <1>0, <1>1, UpdateIInv DEF Update, Swings
<1>2. CASE RespawnDue
  BY <1>0, <1>2, RespawnDueIInv DEF RespawnDue, Swings
<1>3. ASSUME NEW s \in Spawns, UpdateMonster(s) PROVE IInv' /\ Swings
  <2>1. s \in todo
    BY <1>3 DEF UpdateMonster
  <2>2. QED  BY <1>3, <2>1, UpdateMonsterIInv DEF Swings
<1>4. ASSUME NEW s \in Spawns, Recover(s) PROVE IInv' /\ Swings
  <2>1. blows' = blows
    BY <1>4 DEF Recover
  <2>2. QED  BY <1>0, <1>4, <2>1, RecoverIInv DEF Swings
<1>5. ASSUME NEW p \in Players, NEW s \in Spawns, OnAttack(p, s) PROVE IInv' /\ Swings
  BY <1>0, <1>5, OnAttackIInv DEF Swings
<1>6. ASSUME NEW p \in Players,
             Enter(p) \/ Leave(p) \/ OnRevive(p) \/ OnAttackUnknown(p) \/ BlowLands(p)
      PROVE  IInv' /\ Swings
  BY <1>0, <1>6, PlayersIInv DEF Swings
<1>7. ASSUME NEW p \in Players, Free(p) PROVE IInv' /\ Swings
  <2>1. blows' = blows
    BY <1>7 DEF Free
  <2>2. QED  BY <1>0, <1>7, <2>1, FreeIInv DEF Swings
<1>8. CASE UNCHANGED vars
  <2>1. UNCHANGED <<template, mob, unknown, due, todo, place, alive, level, exp, blows, crash>>
    BY <1>8 DEF vars, ofMobs, ofPlayers
  <2>2. Living' = Living /\ UNCHANGED <<Running>>
    BY <2>1 DEF Living, Running
  <2>3. TypeOK' /\ Armed' /\ CrashesExplained'
    BY <2>1, <2>2 DEF IInv, TypeOK, Armed, CrashesExplained, Has, Around, Fleeting
  <2>4. QED  BY <1>0, <2>1, <2>3 DEF IInv, Swings
<1>9. QED  BY <1>1, <1>2, <1>3, <1>4, <1>5, <1>6, <1>7, <1>8 DEF Next

\* The invariant holds in every behaviour.
LEMMA Invariance == Spec => []IInv
<1>1. Init => IInv
  BY InitIInv
<1>2. IInv /\ [Next]_vars => IInv'
  BY NextIInv
<1>3. QED  BY <1>1, <1>2, PTL DEF Spec

\* The variables of Monster keep their types, and a monster's target is a player that has come
\* to the map and is not freed.
THEOREM TypeCorrect == Spec => []TypeOK
<1>1. IInv => TypeOK
  BY DEF IInv
<1>2. QED  BY <1>1, Invariance, PTL

\* However many players and monsters, and whatever their templates can do: the server stops for
\* the four reasons named, and no monster without ATTACK ever attacks.
THEOREM StopsAreExplained == Spec => []CrashesExplained
<1>1. IInv => CrashesExplained
  BY DEF IInv
<1>2. QED  BY <1>1, Invariance, PTL

\* A monster swings only at its own target, when it is ready, can attack, and the target lives.
THEOREM SwingsAreAimed == Spec => BlowsAimed
<1>1. IInv /\ [Next]_vars =>
        [\A p \in Players :
           blows'[p] > blows[p] =>
             /\ alive[p] /\ Around(p)
             /\ \E s \in todo : mob[s].target = p /\ mob[s].ready /\ Has(s, "ATTACK")]_vars
  BY NextIInv DEF Swings
<1>2. QED  BY <1>1, Invariance, PTL DEF Spec, BlowsAimed
-----------------------------------------------------------------------------
(* What is gained is kept: experience over all levels                        *)

\* Induction over numbers, as a statement about a set that has 0 and with each number the next.
\* Were t missing from it, the numbers before the first gap would be finitely many, and adding
\* one would put them all among those without 0.
LEMMA Successors ==
  ASSUME NEW S, 0 \in S, \A n \in Nat : n \in S => n + 1 \in S
  PROVE  \A n \in Nat : n \in S
<1> SUFFICES ASSUME NEW t \in Nat, t \notin S PROVE FALSE
  OBVIOUS
<1> DEFINE L == {n \in 0 .. t : \A m \in 0 .. n : m \in S}
           f == [n \in L |-> n + 1]
<1>1. 0 \in L
  BY DEF L
<1>2. ASSUME NEW n \in L PROVE n + 1 \in L \ {0}
  <2>1. n \in Nat /\ n \in S /\ n + 1 \in S /\ n <= t /\ n # t
    OBVIOUS
  <2>2. \A m \in 0 .. n + 1 : m \in 0 .. n \/ m = n + 1
    BY <2>1
  <2> QED BY <2>1, <2>2
<1>3. IsFiniteSet(L) /\ Cardinality(L) \in Nat
  <2>1. IsFiniteSet(0 .. t) /\ L \subseteq 0 .. t
    BY FS_Interval
  <2> QED BY <2>1, FS_Subset, FS_CardinalityType
<1> HIDE DEF L
<1>4. IsFiniteSet(L \ {0}) /\ Cardinality(L \ {0}) < Cardinality(L)
  <2>1. IsFiniteSet(L \ {0}) /\ Cardinality(L \ {0}) = Cardinality(L) - 1
    BY <1>1, <1>3, FS_RemoveElement
  <2> QED BY <1>3, <2>1
<1>5. f \in [L -> L \ {0}]
  BY <1>2
<1>6. \E x, y \in L : x # y /\ f[x] = f[y]
  <2> HIDE DEF f
  <2> QED BY <1>3, <1>4, <1>5, FS_PigeonHole
<1>7. \A x \in L : x \in Nat
  BY DEF L
<1> QED BY <1>6, <1>7

\* So are the levels: what holds of the first, and of the next one with each, holds of all.
LEMMA EachLevel ==
  ASSUME NEW S, 1 \in S, \A n \in 1 .. MaxLevel - 1 : n \in S => n + 1 \in S
  PROVE  \A n \in 1 .. MaxLevel : n \in S
<1> DEFINE T == {n \in Nat : n + 1 \in 1 .. MaxLevel => n + 1 \in S}
<1>1. 0 \in T
  OBVIOUS
<1>2. ASSUME NEW n \in Nat, n \in T PROVE n + 1 \in T
  <2>1. CASE n + 2 \in 1 .. MaxLevel
    <3>1. n + 1 \in 1 .. MaxLevel - 1 /\ n + 1 \in 1 .. MaxLevel /\ n + 1 + 1 = n + 2
      BY <2>1, MonsterAssumption
    <3> QED BY <1>2, <3>1
  <2>2. CASE n + 2 \notin 1 .. MaxLevel
    BY <2>2
  <2> QED BY <2>1, <2>2
<1>3. \A n \in Nat : n \in T
  <2> HIDE DEF T
  <2> QED BY <1>1, <1>2, Successors
<1>4. ASSUME NEW n \in 1 .. MaxLevel PROVE n \in S
  <2>1. n - 1 \in Nat /\ n - 1 + 1 = n
    BY MonsterAssumption
  <2> QED BY <1>3, <2>1
<1> QED BY <1>4

\* What the levels cost is defined.
LEMMA BeforeDefined ==
  Before = [n \in 1 .. MaxLevel |-> IF n = 1 THEN 0 ELSE Before[n - 1] + Need[n - 1]]
<1> DEFINE Costs(g, m) == g = [n \in 1 .. m |-> IF n = 1 THEN 0 ELSE g[n - 1] + Need[n - 1]]
           S == {m \in 1 .. MaxLevel : \E g : Costs(g, m)}
<1>1. 1 \in S
  <2> DEFINE g == [n \in 1 .. 1 |-> 0]
  <2>1. Costs(g, 1)
    OBVIOUS
  <2>2. 1 \in 1 .. MaxLevel
    BY MonsterAssumption
  <2> QED BY <2>1, <2>2
<1>2. ASSUME NEW m \in 1 .. MaxLevel - 1, m \in S PROVE m + 1 \in S
  <2>1. PICK g : Costs(g, m)
    BY <1>2
  <2> DEFINE h == [n \in 1 .. m + 1 |-> IF n = m + 1 THEN g[m] + Need[m] ELSE g[n]]
  <2>2. m \in Nat \ {0} /\ m + 1 \in 1 .. MaxLevel
    BY MonsterAssumption
  <2>3. ASSUME NEW n \in 1 .. m + 1
        PROVE  h[n] = IF n = 1 THEN 0 ELSE h[n - 1] + Need[n - 1]
    <3>1. CASE n = m + 1
      <4>1. n # 1 /\ n - 1 = m /\ h[n] = g[m] + Need[m] /\ m \in 1 .. m + 1 /\ m # m + 1
        BY <2>2, <3>1
      <4>2. h[m] = g[m]
        BY <4>1
      <4> QED BY <4>1, <4>2
    <3>2. CASE n # m + 1
      <4>1. n \in 1 .. m /\ (n # 1 => n - 1 \in 1 .. m + 1 /\ n - 1 # m + 1)
        BY <2>2, <3>2
      <4>2. h[n] = g[n] /\ (n # 1 => h[n - 1] = g[n - 1])
        BY <3>2, <4>1
      <4>3. g[n] = IF n = 1 THEN 0 ELSE g[n - 1] + Need[n - 1]
        BY <2>1, <4>1
      <4> QED BY <4>2, <4>3
    <3> QED BY <3>1, <3>2
  <2>4. h = [n \in 1 .. m + 1 |-> h[n]]
    OBVIOUS
  <2> HIDE DEF h
  <2>5. Costs(h, m + 1)
    BY <2>3, <2>4
  <2> QED BY <2>2, <2>5
<1>3. MaxLevel \in S
  <2> HIDE DEF S
  <2>1. \A n \in 1 .. MaxLevel : n \in S
    BY <1>1, <1>2, EachLevel
  <2> QED BY <2>1, MonsterAssumption
<1>4. \E g : Costs(g, MaxLevel)
  BY <1>3
<1> QED BY <1>4 DEF Before

\* What the levels below one cost in all is a number; the next one costs Need more.
LEMMA BeforeNext ==
  /\ \A n \in 1 .. MaxLevel : Before[n] \in Nat
  /\ \A n \in 1 .. MaxLevel - 1 : Before[n + 1] = Before[n] + Need[n]
<1> DEFINE S == {n \in 1 .. MaxLevel : Before[n] \in Nat}
<1>1. Before[1] = 0 /\ 1 \in 1 .. MaxLevel
  BY BeforeDefined, MonsterAssumption
<1>2. ASSUME NEW n \in 1 .. MaxLevel - 1 PROVE Before[n + 1] = Before[n] + Need[n]
  <2>1. n + 1 \in 1 .. MaxLevel /\ n + 1 # 1 /\ (n + 1) - 1 = n
    BY MonsterAssumption
  <2> QED BY <2>1, BeforeDefined
<1>3. ASSUME NEW n \in 1 .. MaxLevel - 1, n \in S PROVE n + 1 \in S
  <2>1. n + 1 \in 1 .. MaxLevel /\ Need[n] \in Nat
    BY MonsterAssumption
  <2> QED BY <1>2, <1>3, <2>1
<1>4. 1 \in S
  BY <1>1
<1>5. \A n \in 1 .. MaxLevel : n \in S
  <2> HIDE DEF S
  <2> QED BY <1>3, <1>4, EachLevel
<1> QED BY <1>2, <1>5

\* Who kills a monster keeps all of its experience, up to the last level, and nobody else gains.
LEMMA AddExpWorth ==
  ASSUME TypeOK, NEW p \in Players, NEW gain \in Nat, AddExp(p, gain)
  PROVE  /\ Worth(p)' = Worth(p) + gain \/ level'[p] = MaxLevel
         /\ \A q \in Players \ {p} : Worth(q)' = Worth(q)
<1>1. MaxLevel \in Nat /\ level[p] \in 1 .. MaxLevel /\ exp[p] \in Nat
  BY MonsterAssumption DEF TypeOK
<1>2. CASE level[p] = MaxLevel
  BY <1>2 DEF AddExp, Worth
<1>3. CASE level[p] # MaxLevel
  <2> DEFINE e == exp[p] + gain
  <2>1. /\ level[p] \in 1 .. MaxLevel - 1 /\ Need[level[p]] \in Nat /\ e \in Nat
        /\ Before[level[p]] \in Nat /\ Before[level[p] + 1] = Before[level[p]] + Need[level[p]]
    <3>1. level[p] \in 1 .. MaxLevel - 1
      BY <1>1, <1>3
    <3>2. Need[level[p]] \in Nat /\ e \in Nat
      BY <1>1, <3>1, MonsterAssumption
    <3>3. QED  BY <1>1, <3>1, <3>2, BeforeNext
  <2>2. CASE e < Need[level[p]]
    <3>1. exp' = [exp EXCEPT ![p] = e] /\ level' = level
      BY <1>3, <2>2 DEF AddExp
    <3>2. exp'[p] = e /\ \A q \in Players \ {p} : exp'[q] = exp[q]
      BY <3>1 DEF TypeOK
    <3>3. \A q \in Players \ {p} : Worth(q)' = Worth(q)
      BY <3>1, <3>2 DEF Worth
    <3>4. Worth(p)' = e + Before[level[p]] /\ Worth(p) = exp[p] + Before[level[p]]
      BY <3>1, <3>2 DEF Worth
    <3>5. QED  BY <1>1, <2>1, <3>3, <3>4
  <2>3. CASE ~ (e < Need[level[p]])
    <3> DEFINE rest == IF level[p] + 1 = MaxLevel THEN 0 ELSE e - Need[level[p]]
    <3>1. level' = [level EXCEPT ![p] = level[p] + 1] /\ exp' = [exp EXCEPT ![p] = rest]
      BY <1>3, <2>3 DEF AddExp
    <3>2. /\ exp'[p] = rest /\ level'[p] = level[p] + 1
          /\ \A q \in Players \ {p} : exp'[q] = exp[q] /\ level'[q] = level[q]
      BY <3>1 DEF TypeOK
    <3>3. \A q \in Players \ {p} : Worth(q)' = Worth(q)
      BY <3>2 DEF Worth
    <3>4. Worth(p)' = rest + Before[level[p] + 1] /\ Worth(p) = exp[p] + Before[level[p]]
      BY <3>2 DEF Worth
    <3>5. level[p] + 1 # MaxLevel => Worth(p)' = Worth(p) + gain
      BY <1>1, <2>1, <3>4
    <3>6. QED  BY <3>2, <3>3, <3>5
  <2>4. QED  BY <2>2, <2>3
<1>4. QED  BY <1>2, <1>3

\* What a step pays for.
Payment ==
  /\ \A s \in Spawns :
       Dies(s) => \E p \in Players :
                    /\ alive[p]
                    /\ Worth(p)' = Worth(p) + template[s].exp \/ level'[p] = MaxLevel
                    /\ \A q \in Players \ {p} : Worth(q)' = Worth(q)
  /\ Paid => \E s \in Spawns : Dies(s)

\* A monster is there before it dies, and not after.
LEMMA NoDeath ==
  ASSUME Living \subseteq Living', UNCHANGED <<level, exp>> PROVE Payment
BY DEF Payment, Living, Dies, Paid

\* A hit pays if the monster dies, and then whoever hit it.
LEMMA OnAttackPays ==
  ASSUME IInv, NEW p \in Players, NEW s \in Spawns, OnAttack(p, s) PROVE Payment
<1>1. CASE Living' = Living /\ UNCHANGED <<level, exp>>
  BY <1>1, NoDeath
<1>2. CASE Die(p, s)
  <2>1. TypeOK /\ alive[p] /\ mob[s] # NoMob /\ mob' = [mob EXCEPT ![s] = NoMob]
    BY <1>2 DEF Die, OnAttack, IInv
  <2>2. Dies(s) /\ \A x \in Spawns : Dies(x) => x = s
    BY <2>1 DEF Dies, TypeOK
  <2>3. template[s].exp \in Nat
    BY <2>1, MonsterAssumption DEF TypeOK
  <2>4. /\ Worth(p)' = Worth(p) + template[s].exp \/ level'[p] = MaxLevel
        /\ \A q \in Players \ {p} : Worth(q)' = Worth(q)
    BY <1>2, <2>1, <2>3, AddExpWorth DEF Die
  <2>5. QED  BY <2>1, <2>2, <2>4 DEF Payment
<1>3. QED  BY <1>1, <1>2, OnAttackIInv

\* Nothing but the death of a monster is paid for, and that in full.
LEMMA NextPays == IInv /\ [Next]_vars => Payment
<1> SUFFICES ASSUME IInv, [Next]_vars PROVE Payment
  OBVIOUS
<1>1. CASE Update
  <2>1. UNCHANGED <<level, exp>>
    BY <1>1 DEF Update, ofPlayers
  <2>2. QED  BY <1>1, <2>1, UpdateIInv, NoDeath
<1>2. ASSUME NEW s \in Spawns, UpdateMonster(s) PROVE Payment
  <2>1. UNCHANGED <<level, exp>>
    BY <1>2 DEF UpdateMonster
  <2>2. QED  BY <1>2, <2>1, UpdateMonsterIInv, NoDeath
<1>3. ASSUME NEW s \in Spawns, Recover(s) PROVE Payment
  <2>1. UNCHANGED <<level, exp>>
    BY <1>3 DEF Recover, ofPlayers
  <2>2. QED  BY <1>3, <2>1, RecoverIInv, NoDeath
<1>4. ASSUME NEW p \in Players, Free(p) PROVE Payment
  <2>1. UNCHANGED <<level, exp>>
    BY <1>4 DEF Free
  <2>2. QED  BY <1>4, <2>1, FreeIInv, NoDeath
<1>5. ASSUME \/ RespawnDue
             \/ \E p \in Players : \/ Enter(p) \/ Leave(p) \/ OnRevive(p)
                                  \/ OnAttackUnknown(p) \/ BlowLands(p)
             \/ UNCHANGED vars
      PROVE  Payment
  <2>1. UNCHANGED <<mob, level, exp>>
    BY <1>5 DEF RespawnDue, Enter, Leave, OnRevive, OnAttackUnknown, BlowLands, ofMobs, ofPlayers,
                vars
  <2>2. Living' = Living
    BY <2>1 DEF Living
  <2>3. QED  BY <2>1, <2>2, NoDeath
<1>6. QED  BY <1>1, <1>2, <1>3, <1>4, <1>5, OnAttackPays DEF Next

\* A monster that goes away was killed by one player, who keeps all of its experience until the
\* last level, and nothing else is paid for.
THEOREM DeathsArePaidFor == Spec => DeathsArePaid
<1>1. IInv /\ [Next]_vars =>
        [/\ \A s \in Spawns :
              Dies(s) => \E p \in Players :
                           /\ alive[p]
                           /\ Worth(p)' = Worth(p) + template[s].exp \/ level'[p] = MaxLevel
                           /\ \A q \in Players \ {p} : Worth(q)' = Worth(q)
         /\ Paid => \E s \in Spawns : Dies(s)]_vars
  BY NextPays DEF Payment
<1>2. QED  BY <1>1, Invariance, PTL DEF Spec, DeathsArePaid
=============================================================================
