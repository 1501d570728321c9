SPECIFICATION CSpec
CONSTANTS
  Requests = {r1, r2}
  TTL = 1
  MaxRuns = 2
  Outlives = TRUE
  Asking = {1, 2}
  Humans = {h1, h2}
  Deadline = 1
  Patience = 2
INVARIANTS
  ReservationHonoured
CHECK_DEADLOCK FALSE
