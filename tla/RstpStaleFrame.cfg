\* Two bridges joined by two cables.
CONSTANTS
  Bridge = {1, 2}
  Port = {11, 12, 21, 22}
  Owner <- MCOwner
  PortId <- MCPortId
  BrTimes <- MCTimes
  ForceVersion <- MCVersion
  AdminEdge = {11, 12, 21, 22}
  NonStp = {}
  FullDuplex = {11, 12, 21, 22}
  Speed <- MCSpeed
  TxHoldCount = 3
  MigrateTime = 3
  LinkDelay = 3
  Peer <- ParallelPeer
  UpAtStart = {{11, 12, 21, 22}}
  Foreign = {}
  MaxDisturb = 1
SPECIFICATION Spec
INVARIANTS EnabledFollowsLink
