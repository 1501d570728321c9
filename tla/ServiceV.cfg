SPECIFICATION CSpec
CONSTANTS
  Requests = {r1, r2}
  TTL = 1
  MaxRuns = 2
  Outlives = FALSE
  Asking = {1, 2}
  Humans = {h1, h2}
  Deadline = 1
  Patience = 2
INVARIANTS
  ActsOnce
  DecisionStands
PROPERTIES
  DeadlineKept
  PendingMeansInFlight
CHECK_DEADLOCK FALSE
