SPECIFICATION Spec
CONSTANTS
  Procs = {p1, p2, p3, p4, p5}
  Limit = 2
CHECK_DEADLOCK FALSE
INVARIANTS PermitsBounded NoLostWakeup FlushHasSignaller
