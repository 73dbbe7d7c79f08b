CONSTANTS
  NR_TASKS = 3
  NumSem = 0
  Quantum = 2
  TickMax = 3
  IntMax = 0
  SemValues = {}
  CIRCBUFF_SIZE = 2
  ReadCounts = {1}
  MaxPid = 3
  MaxReaders = 1
  AllocMayFail = FALSE
SPECIFICATION Spec
INVARIANT IdleOnlyWhenAlone
