SPECIFICATION Spec
CONSTANTS
  a = a  b = b  c = c  d = d  lone = lone
  Nodes = {a, b, c, d, lone}
  Kind <- OneRouter
  Out <- StepsOut
  RaceJoins = {}
  Returns <- DecideTwice
  Labels <- AnyLabels
  Default = "__default__"
  MaxRetries <- LeafRetry
  Selective = {}
  SignalName <- OwnNames
  TimedSignals = {}
  MaxConcurrency = 2
  MaxLoops = 1
  Calls = {"abort"}
  MaxCalls = 1
  PluginFaults = TRUE
INVARIANTS
  CompletedRan OnlyMatchingStart LoopsRest
PROPERTIES
  FailFast
CHECK_DEADLOCK FALSE
