CONSTANTS
  NR_TASKS = 3
  NumSem = 0
  Quantum = 1
  TickMax = 2
  IntMax = 0
  SemValues = {}
  CIRCBUFF_SIZE = 1
  ReadCounts = {1}
  MaxPid = 3
  MaxReaders = 1
  AllocMayFail = FALSE
  MaxTime = 2
  MaxTrans = 2
SPECIFICATION StatsSpec
INVARIANTS
  TimeChargedOnce
  
  StatsOfTheLiving
CHECK_DEADLOCK FALSE
