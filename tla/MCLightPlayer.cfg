SPECIFICATION AnswersFairSpec
CONSTANTS
  Units <- TimedUnits
  MaxUnits = 3
  HalfFrame = 20
  MaxLoopDepth = 1
  MaxTriggers = 1
  NumChannels = 1
  SignalValues = {0}
  Programs <- MCPrograms
  IntMax = 1000
  IdleDelay = 60000
  TimeModulus = 1000000
  SuspendLimit = 2
  Probes = {20}
  Targets = {0, 10, 20, 50}
  Sources0 = {"null"}
INVARIANTS IInv ExecutesOnTime FadeTracksWakeup NextNotBeforeTarget SettledAnswersAgree
PROPERTIES StepTimesGoForward FadesAreContinuous SeekTerminates ImplementsPlayhead
