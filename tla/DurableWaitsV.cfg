SPECIFICATION DFairSpec
CONSTANTS
  a = a  b = b  c = c  d = d  lone = lone
  Nodes = {a, b, c}
  Kind <- PairKind
  Out <- JoinOut
  RaceJoins = {}
  Returns <- Quiet
  Labels <- AnyLabels
  Default = "__default__"
  MaxRetries <- NoRetry
  Selective = {}
  SignalName <- OneName
  TimedSignals = {a, b}
  MaxConcurrency = 2
  MaxLoops = 1
  Calls = {}
  MaxCalls = 0
  PluginFaults = FALSE
  MaxCrashes = 0
  MaxResumes = 1
  MaxLost = 0
  LateLoads = TRUE
INVARIANTS
  SequenceUnique
PROPERTIES
  Terminates
CHECK_DEADLOCK FALSE
