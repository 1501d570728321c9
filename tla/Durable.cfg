SPECIFICATION DFairSpec
CONSTANTS
  a = a  b = b  c = c  d = d  lone = lone
  Nodes = {a, b, c, d}
  Kind <- OneRouter
  Out <- RouteJoinOut
  RaceJoins = {}
  Returns <- DecidesNo
  Labels <- AnyLabels
  Default = "__default__"
  MaxRetries <- NoRetry
  Selective = {}
  SignalName <- OwnNames
  TimedSignals = {}
  MaxConcurrency = 2
  MaxLoops = 1
  Calls = {}
  MaxCalls = 0
  PluginFaults = FALSE
  MaxCrashes = 2
  MaxResumes = 1
  MaxLost = 0
  LateLoads = FALSE
INVARIANTS
  ReplayAgrees DecisionKept
PROPERTIES
  CrashRecovered
CHECK_DEADLOCK FALSE
