\* Two instances, so that the global one may not be the one updated.
CONSTANTS
  Instances = {i1, i2}
  NULL = NULL
  Addrs <- MCAddrs
  Entry = 0
  Successors <- MCSuccessors
  Burst = 2
  l1 = l1
  l2 = l2
  Locations <- MCLocations
  Resolve <- MCResolve
  NoField = NoField
  NoPC = NoPC
  ZeroSlot = ZeroSlot
  Capacity = 1
  MaxId = 1
  MaxEvents = 1
SPECIFICATION FairSpec
INVARIANT TypeOK
INVARIANT NoDanglingDebugger
INVARIANT LocationLag
INVARIANT HostViewCurrent
PROPERTY StoppedStaysPut
PROPERTY StepCompletes
\* A crash of the host, and an undefined step, are final.
CHECK_DEADLOCK FALSE
