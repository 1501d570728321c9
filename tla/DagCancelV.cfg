SPECIFICATION FairSpec
CONSTANTS
  a = a  b = b  c = c  d = d  lone = lone
  Nodes = {a, b, c}
  Kind <- WaitKind
  Out <- WaitOut
  RaceJoins = {}
  Returns <- Quiet
  Labels <- AnyLabels
  Default = "__default__"
  MaxRetries <- NoRetry
  Selective = {}
  SignalName <- OwnNames
  TimedSignals = {}
  MaxConcurrency = 2
  MaxLoops = 1
  Calls = {"cancel"}
  MaxCalls = 1
  PluginFaults = FALSE
PROPERTIES
  CancelEnds
CHECK_DEADLOCK FALSE
