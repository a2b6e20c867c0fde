\* Two sessions, of one character that comes back or of two, two cells, two packets.
CONSTANTS
  Sessions = {s1, s2}
  Characters = {c1, c2}
  Cells = {x1, x2}
  Origin = x1
  Home = x2
  None = None
  MaxPackets = 2
SPECIFICATION Spec
SYMMETRY Symmetry
INVARIANTS TypeOK MapAgrees GridAgrees NoGhost NoProgressLost
CHECK_DEADLOCK FALSE
