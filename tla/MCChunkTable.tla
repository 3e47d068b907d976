---------------------------- MODULE MCChunkTable ----------------------------
\* Chunks of three words that touch or not, taken in any order.
EXTENDS ChunkTable

MCChunks == {[lo |-> a, hi |-> a + 2] : a \in {2, 5, 8, 11, 15, 18}}
=============================================================================
