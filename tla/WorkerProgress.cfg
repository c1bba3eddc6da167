SPECIFICATION Spec
CONSTANTS
  r1 = r1
  performance = performance
  formal = formal
  evidence = evidence
  w1 = w1
  w2 = w2
  NoRun = NoRun
  Free = Free
  Api = Api
  Nobody = Nobody
PROPERTIES
  RunningEnds
  MissionMoves
CHECK_DEADLOCK FALSE
