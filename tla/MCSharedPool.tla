---------------------------- MODULE MCSharedPool ----------------------------
(* A parent and a child, a table of two entries, three places in the heap: *)
(* a block is reused, appended, evicted or left out of the table.          *)
EXTENDS SharedPool, TLC

CONSTANTS a1, a2, a3

MCProcs == {1, 2}
MCAddrs == {a1, a2, a3}
MCSizes == {1, 2}
MCCloseArgs == {-1, 0, 1}
MCSymmetry == Permutations(MCAddrs)

\* While both processes live, each uses at most two places.
FewBlocks == Cardinality(alive) = 2 => \A p \in alive : Cardinality(heap[p]) <= 2
=============================================================================
