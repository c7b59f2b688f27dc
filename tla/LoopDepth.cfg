SPECIFICATION Spec
CONSTANTS
  LoopUnits <- DeepUnits
  MaxUnits = 10
  MaxNesting = 5
  HalfFrame = 20
  MaxLoopDepth = 4
  MaxTriggers = 1
  NumChannels = 1
  SignalValues = {0}
  Programs <- LoopPrograms
  IntMax = 1000
  IdleDelay = 60000
  TimeModulus = 1000000
  SuspendLimit = 2
  Targets = {50, 1000}
  Sources0 = {"null"}
INVARIANT LoopsAreCounted
