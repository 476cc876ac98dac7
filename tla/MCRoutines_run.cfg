SPECIFICATION Spec
CONSTANTS
  r1 = r1
  r2 = r2
  k1 = k1
  k2 = k2
  NoJob = NoJob
  Run <- OneRun
  Caller <- TwoCallers
  Steps = 2
  Mode = {"live"}
SYMMETRY
  Interchangeable
INVARIANTS
  RunIsMinded
  ShownAsItRuns
  OneUnconfirmed
  CompletedRanAll
CHECK_DEADLOCK FALSE
