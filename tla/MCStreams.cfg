SPECIFICATION Spec
CONSTANTS
  NSlots = 2
  a1 = a1
  a2 = a2
  a3 = a3
  Addrs <- MCAddrs
  Texts <- MCTexts
  Strings <- MCStrings
SYMMETRY MCSymmetry
INVARIANTS
  TypeOK
  InputRestored
  MappingsAccounted
PROPERTIES
  ReadsInOrder
CHECK_DEADLOCK FALSE
