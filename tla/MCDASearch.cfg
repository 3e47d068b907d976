SPECIFICATION Spec
CONSTANTS
  Workers <- MCWorkers
  Strangers <- MCStrangers
  NRows = 2
  NCols = 3
  NCons = 1
  NSlots = 2
  NTurn = 2
  MaxTurn = 99
  NW = 1
  Fates <- MCFates
  MayKill = TRUE
CONSTRAINTS Undisturbed ShortRow
INVARIANTS
  TypeOK
  ReportedRight
  OnlySerialCells
PROPERTIES
  Terminates
CHECK_DEADLOCK FALSE
