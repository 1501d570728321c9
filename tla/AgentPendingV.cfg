SPECIFICATION RSpec
CONSTANTS
  Calls = {send, read}
  NoCall = NoCall
  Gated = {send}
  Suspending = {read}
  MaxSteps = 3
  MaxRetries = 1
  MaxLost = 1
  MaxDrives = 3
  Answerers = {a}
  OneByOne = TRUE
PROPERTIES
  PendingFirst
CHECK_DEADLOCK FALSE
