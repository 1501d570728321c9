SPECIFICATION EFairSpec
CONSTANTS
  MaxBatch = 2
  CapFactor = 1
  MaxEvents = 3
  MaxChunk = 1
  MaxFailures = 2
  MaxPurges = 1
  MaxLoads = 1
INVARIANTS
  BufferSound
PROPERTIES
  EventuallyStored
CHECK_DEADLOCK FALSE
