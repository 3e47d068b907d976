CONSTANTS
  MinWords = 2
  MinSeg1 = 3
  MinSeg2 = 3
  NIndex = 5
  Span = 1
  HashSize = 2
  MpSize = 8
  NResv = 5
  SepAge = 2
  MaxHeld = 3
  Requests <- MCRequests
  ChunkAddr <- MCChunkAddr
  Garbage <- MCGarbage
SPECIFICATION Spec
INVARIANTS
  TypeOK
  ListsSound
  Accounting
PROPERTIES
  GrowsOnlyWhenNeeded
  ImplementsBlockStore
CHECK_DEADLOCK FALSE
