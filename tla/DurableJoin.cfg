SPECIFICATION DSpec
CONSTANTS
  a = a  b = b  c = c  d = d  lone = lone
  Nodes = {a, b, c}
  Kind <- Tasks
  Out <- JoinOut
  RaceJoins = {}
  Returns <- Quiet
  Labels <- AnyLabels
  Default = "__default__"
  MaxRetries <- LeafRetry
  Selective = {b}
  SignalName <- OwnNames
  TimedSignals = {}
  MaxConcurrency = 2
  MaxLoops = 1
  Calls = {"abort"}
  MaxCalls = 1
  PluginFaults = FALSE
  MaxCrashes = 2
  MaxResumes = 0
  MaxLost = 1
  LateLoads = FALSE
INVARIANTS
  OrderKept CompletesOnce FailureHasCause LogSound
PROPERTIES
  NoReexecution
CHECK_DEADLOCK FALSE
