SPECIFICATION FairSpec
CONSTANTS
  c1 = c1
  c2 = c2
  k1 = k1
  k2 = k2
  NoCall = NoCall
  Call <- TwoCalls
  Client <- TwoClients
  Of <- Each
  Id <- OneId
  IdOf <- SameId
  MaxPorts = 2
INVARIANTS
  TypeOK
  ReaderKnows
  OneAtATime
  ApprovalMinded
  RequestMinded
PROPERTY
  RelayEnds
CHECK_DEADLOCK FALSE
