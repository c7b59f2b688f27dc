SPECIFICATION EdgesSpec
CONSTANTS
  Samples = {0, 128, 255}
  DebounceMs = 0
  LastTime = 8
INVARIANT EdgesAlternate
