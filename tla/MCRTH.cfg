SPECIFICATION PlanSpec
CONSTANTS
  Byte <- MCByte
  Blocks = {k1, k2}
  NoBlock = null
  Array = array
  SizeBits = 10
  SizeMax = 1023
  MaxObject = 511
  MaxDuration = 60000
  WordBits = 16
  PlanMaxDuration = 1000
  MsecPerSec = 1000
  MaxMsec = 205000
  Plans <- MCPlans
  Times <- MCTimes
  Starts <- MCStarts
INVARIANTS EvaluatesToMeant ScaleIsEnough FliesTheEntry
CHECK_DEADLOCK FALSE
