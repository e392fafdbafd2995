SPECIFICATION Spec
CONSTANTS
  Payloads = {a, b}
  Origin = 1
  MaxCounter = 5
  Window = 3
  GapTimeout = 2
  MaxTime = 2
CHECK_DEADLOCK FALSE
INVARIANTS NoncesUnique GapIsTimed WindowIsExact
PROPERTIES KeepsPromise
