SPECIFICATION EdgesSpec
CONSTANTS
  Samples = {0, 128, 255}
  DebounceMs = 3
  LastTime = 6
INVARIANT EdgesAreDebounced
