------------------------------ MODULE TurnGate ------------------------------
(***************************************************************************)
(* What the turn service promises to whoever replaces the program: a turn    *)
(* begins at most once and ends for good, and the newest turn of every       *)
(* conversation and the installation of an update exclude each other.  A     *)
(* conversation is not limited to one turn: the next one overtakes a turn    *)
(* that is still at work, which the gate then no longer protects.            *)
(***************************************************************************)
CONSTANTS Turn, Of

VARIABLES
  status,   \* of every turn: "new", "live", "overtaken" or "over"
  closed    \* an update is being installed, or is installed and waits for the restart

TypeOK == status \in [Turn -> {"new", "live", "overtaken", "over"}] /\ closed \in BOOLEAN

Init == status = [t \in Turn |-> "new"] /\ closed = FALSE

(* The new turn overtakes the one its conversation has at work.               *)
Overtake(t, u) == IF Of[u] = Of[t] /\ status[u] = "live" THEN "overtaken" ELSE status[u]

Begin(t) ==
  /\ status[t] = "new"
  /\ ~closed
  /\ status' = [u \in Turn |-> IF u = t THEN "live" ELSE Overtake(t, u)]
  /\ UNCHANGED closed

Refuse(t) ==
  /\ status[t] = "new"
  /\ closed
  /\ status' = [status EXCEPT ![t] = "over"]
  /\ UNCHANGED closed

End(t) ==
  /\ status[t] \in {"live", "overtaken"}
  /\ status' = [status EXCEPT ![t] = "over"]
  /\ UNCHANGED closed

Close ==
  /\ \A t \in Turn : status[t] # "live"
  /\ closed' = TRUE
  /\ UNCHANGED status

Reopen == closed' = FALSE /\ UNCHANGED status

Next == (\E t \in Turn : Begin(t) \/ Refuse(t) \/ End(t)) \/ Close \/ Reopen

Spec == Init /\ [][Next]_<<status, closed>>
=============================================================================
