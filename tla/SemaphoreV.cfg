SPECIFICATION SSpec
CONSTANTS
  Runs = {a, b, c, d}
  Limit = 1
  QueueLimit = 2
INVARIANTS
  AtMostLimit
PROPERTIES
  ShedsOnlyWhenFull
