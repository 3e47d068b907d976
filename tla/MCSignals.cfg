SPECIFICATION Spec
CONSTANTS
  FPE = FPE
  CHLD = CHLD
  Sigs <- TwoSignals
  Trapped <- OneTrapped
  MaxCalls = 3
  MaxRaises = 2
INVARIANTS
  TypeOK
  RightCommand
  OnlyFailuresLeak
  MaskRestored
PROPERTIES
  Handled
CHECK_DEADLOCK FALSE
