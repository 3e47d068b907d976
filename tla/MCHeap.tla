------------------------------- MODULE MCHeap -------------------------------
\* A heap scaled down: blocks of 2 words and more, lists for sizes up to 5.
EXTENDS Heap

MCRequests  == {1, 2, 5}
MCChunkAddr == {0, 8, 17}
MCGarbage   == {0, 1}
=============================================================================
