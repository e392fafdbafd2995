SPECIFICATION MCSpec
CONSTANTS
  k2 = k2
  Keys = {k1, k2}
  Requests = {r1, r2}
  Relaying = TRUE
  Punching = TRUE
  MaxHandshakes = 2
  MaxSuspends = 2
INVARIANTS TablesAgree OneConnection HandoverIsFinal StreamHasOwner
PROPERTIES SlotsAreFreed
CHECK_DEADLOCK FALSE
