SPECIFICATION Spec
CONSTANTS
  N = 3
  NPara = 2
  MayFail = TRUE
INVARIANTS
  TypeOK
  CountIsExact
  WholeResults
PROPERTIES
  Returns
CHECK_DEADLOCK FALSE
