SPECIFICATION Spec
CONSTANTS
  Pids = {1, 2, 3, 4}
  FdCount = 4
  OpenCount = 4
  PipeCount = 1
  RefMax = 4
  PipeCapacity = 2
  MaxEntries = 4
  MaxChildren = 2
  Bounds <- MCBounds
  Sizes = {1, 2}
  WaitTargets = {2, Any}
  NoFd = NoFd
  Console = Console
  NoSlot = NoSlot
  NoChild = NoChild
  NoCall = NoCall
  NoKey = NoKey
  Any = Any
INVARIANTS RefsAccounted NoLostWakeup ZombieKept
PROPERTY WaitReturns
CHECK_DEADLOCK FALSE
