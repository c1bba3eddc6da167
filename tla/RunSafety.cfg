SPECIFICATION Spec
CONSTANTS
  r1 = r1
  r2 = r2
  w1 = w1
  w2 = w2
  Runs <- TwoRuns
  Workers <- TwoWorkers
  NoRun = NoRun
  Free = Free
  Api = Api
  Reaps = TRUE
  Once = TRUE
  MaxFaults = 1
  MaxCrashes = 1
SYMMETRY Symmetry
INVARIANTS
  TypeOK
  OneExecutor
  ToolOnlyAfterStarted
  RowAgreesWithLog
  ResultsStand
PROPERTY KeepsContract
