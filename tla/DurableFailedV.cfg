SPECIFICATION DSpec
CONSTANTS
  a = a  b = b  c = c  d = d  lone = lone
  Nodes = {a, b, c}
  Kind <- Tasks
  Out <- JoinOut
  RaceJoins = {}
  Returns <- Quiet
  Labels <- AnyLabels
  Default = "__default__"
  MaxRetries <- NoRetry
  Selective = {}
  SignalName <- OwnNames
  TimedSignals = {}
  MaxConcurrency = 2
  MaxLoops = 1
  Calls = {}
  MaxCalls = 0
  PluginFaults = FALSE
  MaxCrashes = 0
  MaxResumes = 1
  MaxLost = 0
  LateLoads = FALSE
PROPERTIES
  TerminalIsFinal
CHECK_DEADLOCK FALSE
