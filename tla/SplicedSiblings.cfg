SPECIFICATION Spec
CONSTANTS
  Sources = {s1, s2}
  MaxSpliced = 2
INVARIANT SiblingsSurvive
CHECK_DEADLOCK FALSE
