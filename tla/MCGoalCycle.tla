---------------------------- MODULE MCGoalCycle -----------------------------
(* Small instances of GoalCycle for TLC.                                     *)
EXTENDS GoalCycle

CONSTANTS c1, c2, c3

TwoCycles == {c1, c2}
NoTools == {2}
BatchOfThree == {0, 3}
=============================================================================
