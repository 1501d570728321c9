SPECIFICATION BFairSpec
CONSTANTS
  Callers = {a, b, c, d}
  MaxConcurrency = 2
INVARIANTS
  SlotsSound
PROPERTIES
  PoolSpec EventuallyServed
