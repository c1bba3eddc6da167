SPECIFICATION Spec
CONSTANTS
  performance = performance
  formal = formal
  evidence = evidence
  w1 = w1
  w2 = w2
  Roles <- ThreeRoles
  DependsOn <- Join
  Evidence = evidence
  ToolNodes <- OnlyFormal
  Workers <- TwoWorkers
  Nobody = Nobody
  Estimate = 1
  MostTokens = 1
  TaskTokens = 1
  MissionTokens = 2
  MaxMishaps = 1
INVARIANT CeilingIsHard
CHECK_DEADLOCK FALSE
