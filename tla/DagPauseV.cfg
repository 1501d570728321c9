SPECIFICATION Spec
CONSTANTS
  a = a  b = b  c = c  d = d  lone = lone
  Nodes = {a, b, c, d}
  Kind <- Tasks
  Out <- JoinOut
  RaceJoins = {}
  Returns <- Quiet
  Labels <- AnyLabels
  Default = "__default__"
  MaxRetries <- SomeRetry
  Selective = {}
  SignalName <- OwnNames
  TimedSignals = {}
  MaxConcurrency = 2
  MaxLoops = 2
  Calls = {"pause"}
  MaxCalls = 1
  PluginFaults = FALSE
INVARIANTS
  ConcurrencyBound
  RetriesPickedUp
  FailureSkipsDownstream
PROPERTIES
  FailFast
CHECK_DEADLOCK FALSE
