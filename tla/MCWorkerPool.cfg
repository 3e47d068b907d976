SPECIFICATION Spec
CONSTANTS
  Sites <- All
  NVar = 5
  NParallel = 4
  NFr = 1
  Jfam <- FamilyOf
  Strangers <- Stranger
  MayFail = TRUE
INVARIANTS
  TypeOK
  OneWriter
  OwnBase
  MissingWhenUsed
PROPERTIES
  GoesOn
CHECK_DEADLOCK FALSE
