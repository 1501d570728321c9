SPECIFICATION ESpec
CONSTANTS
  MaxBatch = 2
  CapFactor = 2
  MaxEvents = 6
  MaxChunk = 2
  MaxFailures = 2
  MaxPurges = 0
  MaxLoads = 0
PROPERTIES
  OldestDropped
CHECK_DEADLOCK FALSE
