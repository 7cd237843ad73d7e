\* Four registers, three of which can be read.
SPECIFICATION ConfigSpec
CONSTANTS
  ConfigSpaceSize = 4
  Readable = 3
  Byte = {0, 1}
INVARIANTS
  WritesArePrefix
  SuccessMeansAll
