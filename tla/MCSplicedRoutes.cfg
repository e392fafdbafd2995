SPECIFICATION MCSpec
CONSTANTS
  Sources = {s1, s2}
  MaxSpliced = 2
INVARIANT PathAgrees
PROPERTIES
  OpenIsAnswered
  ClosedIsReleased
CHECK_DEADLOCK FALSE
