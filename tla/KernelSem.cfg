CONSTANTS
  NR_TASKS = 4
  NumSem = 2
  Quantum = 1
  TickMax = 2
  IntMax = 1
  SemValues = {0, 1, 3}
  CIRCBUFF_SIZE = 1
  ReadCounts = {}
  MaxPid = 5
  MaxReaders = 0
  AllocMayFail = FALSE
SPECIFICATION Spec
INVARIANTS
  NoPCBLost
  WaitersConsistent
  DestroyedIsPending
  UniquePids
  OwnerAlive
PROPERTY ImplementsSemaphores
