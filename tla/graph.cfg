SPECIFICATION FairGraphSpec
CONSTANTS
  split = split guard = guard merge = merge
  in = in typed = typed checked = checked direct = direct out = out
  NoNode = NoNode
  Nodes = {split, guard, merge}
  Edges = {in, typed, checked, direct, out}
  Consumer <- DiamondConsumer
  Outputs <- DiamondOutputs
  RootIn = in
  RootOut = out
  JoinOrder <- DiamondJoin
  Capacity <- RoomAtTheEnd
  Builds <- DiamondBuilds
  Feeders = {feeder}
  Owners = {owner}
  MaxItems = 2
  Paths = 2
CHECK_DEADLOCK FALSE
INVARIANTS
  GraphTypeOK
  DeliveredInOrder
  NothingLost
  NoEarlyEndUndropped
PROPERTIES
  CancelStopsWorkers
  WaitEnds
