\* Two players and one monster at a time, of five kinds; a kill is worth half a level or
\* more than two.
CONSTANTS
  Players = {p1, p2}
  Spawns = {s1}
  NoPlayer = NoPlayer
  NoMob = NoMob
  MaxLevel = 3
  MaxBlows = 2
  Templates <- Kinds
  Need <- Needs
SPECIFICATION Spec

INVARIANTS TypeOK CrashesExplained
PROPERTIES BlowsAimed DeathsArePaid MobsReturn
CHECK_DEADLOCK FALSE
