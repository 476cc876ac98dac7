----------------------------- MODULE MCRoutines -----------------------------
(* Small instances of Routines for TLC.                                      *)
EXTENDS Routines, TLC

CONSTANTS r1, r2, k1, k2

OneRun == {r1}
TwoRuns == {r1, r2}
OneCaller == {k1}
NoCallers == {}
TwoCallers == {k1, k2}

(* The callers are interchangeable (used without liveness only).             *)
Interchangeable == Permutations({k1, k2})
=============================================================================
