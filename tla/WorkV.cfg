SPECIFICATION GSpec
CONSTANTS
  Keys = {a, b}
  Timed = {a}
  MaxAttempts = 2
  Workers = {w1}
  None = None
INVARIANTS
  ReportedOnce
  NotLost
  StopDrains
  BodiesAlone
CHECK_DEADLOCK FALSE
