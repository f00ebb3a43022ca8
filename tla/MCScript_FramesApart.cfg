CONSTANTS
  Objects = {1, 2}
  Rising = {2}
  WeaklyHeld = {1}
  Modes <- MCModes
  Uses = {"steps", "cycles"}
  Moves = 4
  Holders = {t1, t2}
  Nobody = Nobody
  MaxFlags = 2
  small = small  mid = mid  big = big
  Fn <- MCFn
  HostFns = {small, mid}
  DestructFns = {small, big}
  Callers = {"factory", "destructor", "compare"}
  BlockSize = 12
  \* no second block
  MaxStack = 8
  Reserve = 4
  BlockAt <- MCBlockAt
  MaxBlocks = 2
  MaxCalls = 4
  None = None
  Key <- MCKey
  Nil = 0
SPECIFICATION MCSpec
INVARIANT FramesApart
\* An object ends for good, a bounded script stops, and an assertion ends the program.
CHECK_DEADLOCK FALSE
