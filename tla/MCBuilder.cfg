SPECIFICATION Spec
CONSTANTS
  Byte <- MCByte
  Blocks = {k1, k2}
  NoBlock = null
  Array = array
  SizeBits = 8
  SizeMax = 255
  MaxObject = 127
  MaxDuration = 10
  Scales = {0, 2}
  Positions <- MCPositions
  Durations = {7, 25}
  MaxParts = 2
INVARIANTS BytesHaveOneOwner BuiltAsAsked
PROPERTIES HandsOver SegmentsAreKept LeaksOnlyWithoutMemory
