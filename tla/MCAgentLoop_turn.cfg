SPECIFICATION FairSpec
CONSTANTS
  Call <- Tools
  Batches <- OnesAndPairs
  MaxSteps = 4
  HintAfter = 2
  StopAfter = 1
INVARIANTS
  CallsAnswered
  ClaimIsChecked
PROPERTIES
  StopIsHeeded
  TurnEnds
CHECK_DEADLOCK FALSE
