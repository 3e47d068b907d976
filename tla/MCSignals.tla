----------------------------- MODULE MCSignals -----------------------------
(* Constants of the run of Signals: SIGFPE, which SAD traps, and SIGCHLD.  *)
EXTENDS Signals

CONSTANTS FPE, CHLD

TwoSignals == {FPE, CHLD}
OneTrapped == {FPE}
=============================================================================
