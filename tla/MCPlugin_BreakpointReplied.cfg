\* One instance; the host asks one thing per update.
CONSTANTS
  Instances = {i1}
  NULL = NULL
  Addrs <- MCAddrs
  Entry = 0
  Successors <- MCSuccessors
  Burst = 3
  l1 = l1
  l2 = l2
  Locations <- MCLocations
  Resolve <- MCResolve
  NoField = NoField
  NoPC = NoPC
  ZeroSlot = ZeroSlot
  Capacity = 2
  MaxId = 1
  MaxEvents = 1
SPECIFICATION Spec
PROPERTY BreakpointReplied
CHECK_DEADLOCK FALSE
