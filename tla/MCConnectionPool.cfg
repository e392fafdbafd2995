SPECIFICATION FairSpec
CONSTANTS
  MaxDials = 4
  MaxDrops = 1
CHECK_DEADLOCK FALSE
INVARIANTS LiveAreTracked
PROPERTIES Converges
