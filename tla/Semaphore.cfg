SPECIFICATION SFairSpec
CONSTANTS
  Runs = {a, b, c, d, e}
  Limit = 2
  QueueLimit = 4
INVARIANTS
  PermitsSound
PROPERTIES
  EventuallyRuns
