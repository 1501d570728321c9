SPECIFICATION GSpec
CONSTANTS
  Keys = {a, b}
  Timed = {a}
  MaxAttempts = 2
  Workers = {w1, w2}
  None = None
INVARIANTS
  ClosedIsQuiet
CHECK_DEADLOCK FALSE
