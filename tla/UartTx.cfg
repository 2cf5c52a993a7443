SPECIFICATION Spec
CONSTANTS
  Block = 3
  MaxPiece = 4
  MaxUnits = 16
  MaxIrqs = 2
INVARIANT TypeOK
INVARIANT NothingLost
INVARIANT FlagsTellTruth
INVARIANT NoTornBlock
PROPERTY BusyEnds
PROPERTY RingDrains
