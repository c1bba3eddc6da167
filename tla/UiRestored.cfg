SPECIFICATION Spec
CONSTANTS
  MaxEvents = 5
  MaxBatch = 2
  MaxQueue = 5
  Refused = {2}
  MaxFailures = 2
INVARIANT NothingDroppedSilently
