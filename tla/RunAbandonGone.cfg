SPECIFICATION Spec
CONSTANTS
  r1 = r1
  r2 = r2
  w1 = w1
  w2 = w2
  Runs <- OneRun
  Workers <- TwoWorkers
  NoRun = NoRun
  Free = Free
  Api = Api
  Reaps = TRUE
  Once = TRUE
  MaxFaults = 0
  MaxCrashes = 0
PROPERTIES
  AbandonedOnlyWhenGone
