\* Three bridges in a ring.
CONSTANTS
  Bridge = {1, 2, 3}
  Port = {11, 12, 21, 22, 31, 32}
  Owner <- MCOwner
  PortId <- MCPortId
  BrTimes <- MCTimes
  ForceVersion <- MCVersion
  AdminEdge = {11, 12, 21, 22, 31, 32}
  NonStp = {}
  FullDuplex = {11, 12, 21, 22, 31, 32}
  Speed <- MCSpeed
  TxHoldCount = 3
  MigrateTime = 3
  LinkDelay = 3
  Peer <- RingPeer
  UpAtStart = {{11, 12, 21, 22, 31, 32}}
  Foreign = {}
  MaxDisturb = 0
SPECIFICATION Spec
INVARIANTS NoLoop
PROPERTIES BestRootWins
