\* Safety: two clients, two characters, three selections, one crash of any server.
CONSTANTS
  Sessions = {s1, s2}
  Characters = {c1, c2}
  None = None
  MaxSelects = 3
  MaxFailures = 1
SPECIFICATION Spec
SYMMETRY Symmetry
INVARIANTS TypeOK OneEntry KeysAreTrue NoLockout StaleEntriesExplained
PROPERTIES AnswersAreAwaited
CHECK_DEADLOCK FALSE
