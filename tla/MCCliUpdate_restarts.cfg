SPECIFICATION Spec
CONSTANTS
  p1 = p1
  p2 = p2
  NoPid = NoPid
  Version <- TwoReleases
  Pid <- TwoPids
  MaxDamage = 1
  MaxLeases = 1
INVARIANTS
  RejectedNotOffered
  GateMeansVetted
PROPERTIES
  LeasesSurviveScan
  OperationsEnd
