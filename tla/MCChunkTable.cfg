CONSTANTS
  NCbk = 7
  Chunks <- MCChunks
SPECIFICATION Spec
INVARIANTS
  ExactlyTheHeap
  NeverMergesDown
CHECK_DEADLOCK FALSE
