SPECIFICATION ASpec
CONSTANTS
  FailureThreshold = 3
  SuccessThreshold = 2
  ResetTimeout = 2
  Buckets = 3
  Callers = {c1, c2, c3}
  MaxAttempts = 2
  MaxRequests = 2
  Interval = 2
INVARIANTS
  HardCeiling
