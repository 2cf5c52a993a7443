\* Bridge 2 is held to STP. One cable is in at the start; it may be pulled, or
\* the second one plugged in.
CONSTANTS
  Bridge = {1, 2}
  Port = {11, 12, 21, 22}
  Owner <- MCOwner
  PortId <- MCPortId
  BrTimes <- MCTimes
  ForceVersion <- MixedVersion
  AdminEdge = {11, 12, 21, 22}
  NonStp = {}
  FullDuplex = {11, 12, 21, 22}
  Speed <- MCSpeed
  TxHoldCount = 3
  MigrateTime = 3
  LinkDelay = 3
  Peer <- ParallelPeer
  UpAtStart = {{11, 21}}
  Foreign = {}
  MaxDisturb = 1
SPECIFICATION Spec
INVARIANTS OpenLinksHeard
PROPERTIES UpdateEnds Converges BestRootWins
