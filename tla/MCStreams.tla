----------------------------- MODULE MCStreams -----------------------------
(* Constants of the run of Streams.                                        *)
EXTENDS Streams

CONSTANTS a1, a2, a3

MCAddrs == {a1, a2, a3}
MCSymmetry == Permutations(MCAddrs)
MCTexts == {<<"L", "N", "S", "L">>, <<"S", "B", "N", "L">>, <<"L", "S", "S", "N">>}
MCStrings == {<<"L", "S", "S", "S">>, <<"S", "L", "N">>}
=============================================================================
