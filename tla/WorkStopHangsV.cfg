SPECIFICATION GFairSpec
CONSTANTS
  Keys = {a, b}
  Timed = {a}
  MaxAttempts = 2
  Workers = {w1}
  None = None
PROPERTIES
  StopEnds
CHECK_DEADLOCK FALSE
