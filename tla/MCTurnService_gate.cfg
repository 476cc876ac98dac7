SPECIFICATION FairSpec
CONSTANTS
  t1 = t1
  t2 = t2
  c1 = c1
  NoTurn = NoTurn
  Turn <- TwoTurns
  Conversation <- OneConversation
  Of <- Together
  Rogue <- Anything
INVARIANTS
  LiveTurnIsMapped
  PreparationIsStoppable
PROPERTIES
  GateSpec
  InterruptCloses
CHECK_DEADLOCK FALSE
