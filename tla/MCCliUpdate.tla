---------------------------- MODULE MCCliUpdate -----------------------------
(* Small instances of CliUpdate for TLC.  Three releases are needed for a   *)
(* version that is neither current nor last-known-good; two are enough where *)
(* only one update happens.  One pid means every restart reuses the pid of   *)
(* the process that died, two that it may get another one.                   *)
EXTENDS CliUpdate

CONSTANTS p1, p2

ThreeReleases == 1 .. 3
TwoReleases == 1 .. 2
OnePid == {p1}
TwoPids == {p1, p2}
=============================================================================
