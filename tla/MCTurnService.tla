--------------------------- MODULE MCTurnService ---------------------------
(* A small instance of TurnService for TLC: two turns of a conversation, one  *)
(* after the other or at the same time.                                      *)
EXTENDS TurnService, TLC

CONSTANTS t1, t2, c1

TwoTurns == {t1, t2}
OneConversation == {c1}
Together == t1 :> c1 @@ t2 :> c1
Anything == {"survivor", "garbled"}
=============================================================================
