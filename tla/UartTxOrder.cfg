SPECIFICATION Spec
CONSTANTS
  Block = 2
  MaxPiece = 2
  MaxUnits = 7
  MaxIrqs = 1
INVARIANT SentInOrder
