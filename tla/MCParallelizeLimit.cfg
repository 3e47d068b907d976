SPECIFICATION Spec
CONSTANTS
  N = 4
  NPara = 2
  MayFail = FALSE
INVARIANTS
  AtMostNPara
CHECK_DEADLOCK FALSE
