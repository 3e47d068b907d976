---------------------------- MODULE MCTempLevels ----------------------------
EXTENDS TempLevels

\* Nothing tells one symbol from another.
MCSymmetry == Permutations(Symbols)
=============================================================================
