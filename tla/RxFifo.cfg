CONSTANTS
  Length = 5
  Modulus = 16
  Byte = {0}
  Chunk = 3
  ReadMax = 4
  Sequence = 11
SPECIFICATION Spec
INVARIANTS NoOverrun
