CONSTANTS
  Length = 5
  Modulus = 16
  Byte = {0, 1}
  NodeMax = 3
  MaxPiece = 4
  Block = 2
  MaxRefused = 2
SPECIFICATION Spec
INVARIANTS TypeOK FlagTells CountsAddUp
PROPERTIES PiecesStayWhole IsQueue
