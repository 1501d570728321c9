SPECIFICATION Spec
CONSTANTS
  a = a  b = b  c = c  d = d  lone = lone
  Nodes = {a, b, c}
  Kind <- OneRouter
  Out <- OptionalOut
  RaceJoins = {}
  Returns <- Decides
  Labels <- AnyLabels
  Default = "__default__"
  MaxRetries <- NoRetry
  Selective = {}
  SignalName <- OwnNames
  TimedSignals = {}
  MaxConcurrency = 2
  MaxLoops = 1
  Calls = {}
  MaxCalls = 0
  PluginFaults = FALSE
INVARIANTS
  RouteTaken
CHECK_DEADLOCK FALSE
