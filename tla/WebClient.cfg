SPECIFICATION PartsSpec
CONSTANTS
  MaxEvents = 4
  MaxBatch = 2
  MaxQueue = 3
  Refused = {2}
  MaxFailures = 2
  Runs = {"r1", "r2"}
  LogPieces = 2
  ChunkPieces = 2
  KeptPieces = 2
  MaxClicks = 2
  MaxFaults = 1
  LoadSlots = 0
  MaxListFaults = 0
  T0Choices <- T0Tried
  T0Default <- BaseT0
  SweepTicks = 2
  QueueBound = 2
  MaxPageClicks = 3
  T1Default <- T1Base
  T1Values <- T1Tried
  X1Default <- X1Base
  X1Values <- X1Tried
  Steps = 2
  MaxEdits = 0
  HammingBits = 71
  Patterns <- NoneAndAll
  MaxFlips = 2
  Lanes = 4
  Spares = 2
  FailureLists <- FailedLanes
INVARIANTS
  EventsAreAccounted
  LogIsOfTheSelection
  RunningIsDriven
  AdviceMatchesGates
  ModelsAreSound
PROPERTY ClientCatchesUp
CHECK_DEADLOCK FALSE
