SPECIFICATION FairSpec
CONSTANTS
  Files <- MCFiles
  Sources = {"memory", "file", "pipe"}
  ChunkSize = 12
  Crcs <- MCCrcs
  CrcStep <- MCCrcStep
  Blocks = {k1, k2}
  NoBlock = null
  Lent <- MCLent
  TypesAsked = {1, 2, 5}
INVARIANTS AnswersAreTrue OpensSoundFiles MemoryIsOwned
PROPERTY CallsReturn
