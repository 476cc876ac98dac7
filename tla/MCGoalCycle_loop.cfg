SPECIFICATION Spec
CONSTANTS
  c1 = c1
  c2 = c2
  c3 = c3
  NoCycle = NoCycle
  NoGoal = NoGoal
  Cycle <- TwoCycles
  Batches <- BatchOfThree
  Toolless <- NoTools
  Text = {"x"}
  MaxErrors = 2
  LoopThreshold = 2
  Stagnation = 2
INVARIANTS
  AbortedNeverWaits
  RunningIsDriven
  LoopsFitGoal
  PointerConsistent
PROPERTIES
  DoneByEvidence
  KilledWasRead
CHECK_DEADLOCK FALSE
