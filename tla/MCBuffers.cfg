SPECIFICATION Spec
CONSTANTS
  Byte = {0, 1}
  Blocks = {k1, k2, k3}
  NoBlock = null
  Array = array
  SizeBits = 4
  SizeMax = 9
  MaxObject = 4
  Names = {a, b}
  Lengths <- MCLengths
  Strings <- MCStrings
INVARIANTS WritesStayInside OneOwner
PROPERTIES LeaksOnlyWithoutMemory ImplementsByteString
SYMMETRY MCSymmetry
