SPECIFICATION RFairSpec
CONSTANTS
  Calls = {send, read}
  NoCall = NoCall
  Gated = {send}
  Suspending = {read}
  MaxSteps = 2
  MaxRetries = 1
  MaxLost = 1
  MaxDrives = 3
  Answerers = {a}
  OneByOne = TRUE
INVARIANTS
  BudgetAcrossResumes
  SuspensionAnswerable
  StreamsComplete
PROPERTIES
  GatedNeedsAnswer
  AnswersSettle
CHECK_DEADLOCK FALSE
