----------------------------- MODULE MCSchedule -----------------------------
(* A small instance of Schedule for TLC.                                     *)
EXTENDS Schedule

CONSTANTS h1, h2, e1

TwoHandlers == {h1, h2}
OneEditor == {e1}
=============================================================================
