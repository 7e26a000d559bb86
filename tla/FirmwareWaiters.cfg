SPECIFICATION Spec
CONSTANTS
  LowestPrio = 11
  MaxTasks = 4
  MaxEvents = 3
  MaxQs = 1
  MaxFlags = 1
  SemMax = 2
  QSize = 2
  NBlocks = 2
  BufLen = 3
  FifoLen = 1
  HostTimeout = 2
  MaxFd = 6
  RxMod = 6
  TickMod = 3
  TicksPerSec = 1
  Programs <- MCUndisciplined
INVARIANTS
  ListOfWaiters
