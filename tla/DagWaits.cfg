SPECIFICATION FairSpec
CONSTANTS
  a = a  b = b  c = c  d = d  lone = lone
  Nodes = {a, b, c}
  Kind <- MixedKind
  Out <- JoinOut
  RaceJoins = {c}
  Returns <- Quiet
  Labels <- AnyLabels
  Default = "__default__"
  MaxRetries <- SomeRetry
  Selective = {}
  SignalName <- OwnNames
  TimedSignals = {b}
  MaxConcurrency = 1
  MaxLoops = 2
  Calls = {"pause", "cancel"}
  MaxCalls = 2
  PluginFaults = FALSE
INVARIANTS
  LoopsSound
PROPERTIES
  SettledForGood Terminates
CHECK_DEADLOCK FALSE
