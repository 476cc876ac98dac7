SPECIFICATION FairSpec
CONSTANTS
  r1 = r1
  r2 = r2
  k1 = k1
  k2 = k2
  NoJob = NoJob
  Run <- TwoRuns
  Caller <- NoCallers
  Steps = 1
  Mode = {"live", "simulation"}
PROPERTY
  PendingLeaves
CHECK_DEADLOCK FALSE
