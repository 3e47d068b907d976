CONSTANTS
  NWords = 4
  Symbols = {u, v}
  Real = Real
  MaxLevel = 2
  MaxLen = 2
  Extra = 1
SPECIFICATION Spec
SYMMETRY MCSymmetry
INVARIANTS
  TypeOK
  FreedOnce
  StackAlive
  WordsAccounted
PROPERTIES
  StackUnchanged
