\* A bridge with a cable between two of its own ports.
CONSTANTS
  Bridge = {1}
  Port = {11, 12, 13, 14}
  Owner <- MCOwner
  PortId <- MCPortId
  BrTimes <- MCTimes
  ForceVersion <- MCVersion
  AdminEdge = {11, 12, 13, 14}
  NonStp = {14}
  FullDuplex = {11, 12, 13, 14}
  Speed <- MCSpeed
  TxHoldCount = 3
  MigrateTime = 3
  LinkDelay = 3
  Peer <- LoopbackPeer
  UpAtStart = {{11, 12, 13, 14}}
  Foreign = {}
  MaxDisturb = 0
SPECIFICATION Spec
PROPERTIES ConfirmedByRoot
