---------------------------- MODULE MCWorkerPool ----------------------------
(* Constants of the run of WorkerPool.                                    *)
EXTENDS WorkerPool

All == {"NumDerv", "EVDeriv", "Qu", "Track", "Spectrum", "OffMom"}

\* Families 2, -2 and 3 of momenta 1, -1 and 0.
FamilyOf == [f \in {-2, 2, 3} |-> IF f = 2 THEN 1 ELSE IF f = -2 THEN -1 ELSE 0]

Stranger == {9}
=============================================================================
