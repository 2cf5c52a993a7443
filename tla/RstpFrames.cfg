\* A bridge with a cable between two of its own ports and a port with a
\* neighbour that is not modelled. The clock tells how long nothing has come from
\* there: Hop is 4 seconds here, and the clock runs one second past
\* (LongestAge - 1) * Hop.
CONSTANTS
  Bridge = {1}
  Port = {11, 12, 13}
  Owner <- MCOwner
  PortId <- MCPortId
  BrTimes <- MCTimes
  ForceVersion <- MCVersion
  AdminEdge = {11, 12, 13}
  NonStp = {}
  FullDuplex = {11, 12, 13}
  Speed <- MCSpeed
  TxHoldCount = 3
  MigrateTime = 3
  LinkDelay = 3
  Peer <- LoopbackPeer
  UpAtStart = {{11, 12, 13}}
  Foreign <- ForeignFrames
  MaxDisturb = 2
  Part = {{1}}
  LongestHello = 1
  LongestAge = 6
  Horizon = 21
SPECIFICATION ClockSpec
INVARIANTS BlockedStaysShut RolesSettled OneRootPort NoStaleInfo NewsDiesOut DeadRootsForgotten TcOnlyWhenActive
