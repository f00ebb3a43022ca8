CONSTANTS
  Locations = {l1, l2}
  PCs = {p1, p2}
  NoPC = NoPC
  ZeroSlot = ZeroSlot
  Capacity = 3
  MaxId = 5
SPECIFICATION Spec
INVARIANT TypeOK
INVARIANT UniqueIds
PROPERTY DeletesExactly
PROPERTY ImplementsSet
\* AddPastEnd is undefined behaviour: nothing follows it.
CHECK_DEADLOCK FALSE
