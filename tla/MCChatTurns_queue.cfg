SPECIFICATION FairSpec
CONSTANTS
  t1 = t1
  t2 = t2
  t3 = t3
  c1 = c1
  NoTurn = NoTurn
  Turn <- ThreeTurns
  Conversation <- OneConversation
  Of <- Together
INVARIANTS
  ReservedForOne
  BusyWillEnd
PROPERTY
  QueuedLeaves
CHECK_DEADLOCK FALSE
