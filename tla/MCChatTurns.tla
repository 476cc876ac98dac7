---------------------------- MODULE MCChatTurns -----------------------------
(* A small instance of ChatTurns for TLC: three messages of a conversation.   *)
EXTENDS ChatTurns

CONSTANTS t1, t2, t3, c1

ThreeTurns == {t1, t2, t3}
OneConversation == {c1}
Together == t1 :> c1 @@ t2 :> c1 @@ t3 :> c1
=============================================================================
