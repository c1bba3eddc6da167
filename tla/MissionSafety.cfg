SPECIFICATION Spec
CONSTANTS
  performance = performance
  formal = formal
  evidence = evidence
  w1 = w1
  w2 = w2
  Roles <- ThreeRoles
  DependsOn <- Join
  Evidence = evidence
  ToolNodes <- OnlyFormal
  Workers <- TwoWorkers
  Nobody = Nobody
  Estimate = 1
  MostTokens = 2
  TaskTokens = 1
  MissionTokens = 2
  MaxMishaps = 2
INVARIANTS
  AskedAndListed
  CompletedIsEarned
  DoubtsNeedAPerson
  ToolsRunOnce
  BudgetHolds
CHECK_DEADLOCK FALSE
