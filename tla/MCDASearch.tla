----------------------------- MODULE MCDASearch -----------------------------
(* Constants of the run of DASearch.  A particle is lost at once, survives, *)
(* or either: at most one cell is of the last kind, and then no worker is  *)
(* killed and the parent has no other child.  All particles of the second  *)
(* row survive, so that its search ends after one cell.                    *)
EXTENDS DASearch

MCWorkers   == {1}
MCStrangers == {9}
MCFates     == {{0}, {2}, {0, 2}}

Uncertain   == {x \in Rows \X Cols : Cardinality(fate[x[1]][x[2]]) > 1}
Undisturbed ==
  \/ Uncertain = {}
  \/ Cardinality(Uncertain) = 1 /\ upset = {} /\ \A c \in MCStrangers : pc[c] = "none"
ShortRow    == \A c \in Cols : fate[2][c] = {2}
=============================================================================
