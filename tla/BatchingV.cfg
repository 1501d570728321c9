SPECIFICATION ESpec
CONSTANTS
  MaxBatch = 2
  CapFactor = 2
  MaxEvents = 5
  MaxChunk = 2
  MaxFailures = 0
  MaxPurges = 1
  MaxLoads = 1
INVARIANTS
  ConsistentRead
  ErasedForGood
CHECK_DEADLOCK FALSE
