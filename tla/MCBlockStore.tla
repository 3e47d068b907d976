---------------------------- MODULE MCBlockStore ----------------------------
\* A small instance of BlockStore: three places for chunks, two of which
\* touch, and the last one stands alone.
EXTENDS BlockStore

MCRequests  == {2, 3, 5}
MCChunkAddr == {0, 8, 17}
MCChunkSize == {8}
=============================================================================
