\* Two ports with as many slots, and two blocks for connections.  Pieces of one
\* to two units, of which the transmit ring takes only the short ones.
CONSTANTS
  MAX_SERIAL_NUM = 2
  MAX_QUEUE_NUM = 2
  MaxRead = 1
  BufLength = 2
  LocalPiece = 1
  MaxMemory = 2
  SerialPiece = 2
  Modulus = 16
  Blocks = {b0, b1}
  RemoteTables <- MCTables
  NetPiece = 2
  MaxUnits <- MCUnits
SPECIFICATION Spec
INVARIANTS TypeOK AccountsRight MemoryBounded SlotsSuffice
PROPERTIES AreQueues ServerDrains ClientDrains
