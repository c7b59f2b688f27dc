SPECIFICATION Spec
CONSTANTS
  LoopUnits <- NestedUnits
  MaxUnits = 6
  MaxNesting = 2
  HalfFrame = 20
  MaxLoopDepth = 2
  MaxTriggers = 1
  NumChannels = 1
  SignalValues = {0}
  Programs <- LoopPrograms
  IntMax = 1000
  IdleDelay = 60000
  TimeModulus = 1000000
  SuspendLimit = 2
  Targets = {50, 1000}
  Sources0 = {"null"}
INVARIANTS LoopsUnroll LoopsAreCounted
