SPECIFICATION Spec
CONSTANTS
  Units <- MainLoopUnits
  MaxUnits = 2
  HalfFrame = 20
  MaxLoopDepth = 4
  MaxTriggers = 2
  NumChannels = 2
  SignalValues = {0, 255}
  Programs <- MCPrograms
  IntMax = 127
  IdleDelay = 60000
  TimeModulus = 1000000
  SuspendLimit = 2
  Sources0 = {"wild"}
  HostTimes = {0, 30}
INVARIANTS TypeOK LateCallsDoNotDrift NeverEarly FatalErrorsStop OneTriggerPerNonzeroChannel
CHECK_DEADLOCK FALSE
