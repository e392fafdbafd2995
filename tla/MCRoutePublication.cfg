SPECIFICATION Spec
CONSTANTS
  r1 = r1
  r2 = r2
  n1 = n1
  n2 = n2
  Relays = {r1, r2}
  Nodes = {n1, n2}
  ReadQuorum = 1
  WriteQuorum = 2
  MaxSessions = 2
  Clocks = {1}
  MaxAttempts = 3
  Scripts <- Lives
SYMMETRY NodeSymmetry
INVARIANTS
  CurrentIsReadable
  NotStranded
  HaltedIsQuiet
  SuspendedRelayIsEmpty
PROPERTY StreamsSurviveRefresh
CHECK_DEADLOCK FALSE
