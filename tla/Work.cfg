SPECIFICATION GFairSpec
CONSTANTS
  Keys = {a, b}
  Timed = {a}
  MaxAttempts = 2
  Workers = {w1}
  None = None
INVARIANTS
  KeysExact
  ClosedIsQuiet
PROPERTIES
  QueueMoves
CHECK_DEADLOCK FALSE
