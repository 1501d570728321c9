SPECIFICATION Spec
CONSTANTS
  a = a  b = b  c = c  d = d  lone = lone
  Nodes = {a, b, c, d}
  Kind <- OneRouter
  Out <- MergeOut
  RaceJoins = {}
  Returns <- Decides
  Labels <- AnyLabels
  Default = "__default__"
  MaxRetries <- NoRetry
  Selective = {}
  SignalName <- OwnNames
  TimedSignals = {}
  MaxConcurrency = 2
  MaxLoops = 1
  Calls = {}
  MaxCalls = 0
  PluginFaults = FALSE
INVARIANTS
  MergesRun
CHECK_DEADLOCK FALSE
