CONSTANTS
  MinWords = 2
  Requests <- MCRequests
  ChunkAddr <- MCChunkAddr
  ChunkSize <- MCChunkSize
SPECIFICATION Spec
INVARIANTS
  Tiling
  Neighbours
PROPERTY HeldStable
