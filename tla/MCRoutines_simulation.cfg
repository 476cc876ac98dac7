SPECIFICATION Spec
CONSTANTS
  r1 = r1
  r2 = r2
  k1 = k1
  k2 = k2
  NoJob = NoJob
  Run <- OneRun
  Caller <- OneCaller
  Steps = 1
  Mode = {"live", "simulation"}
INVARIANT
  SimulationNeverActs
CHECK_DEADLOCK FALSE
