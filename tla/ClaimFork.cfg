CONSTANTS
  NR_TASKS = 3
  NumSem = 0
  Quantum = 2
  TickMax = 3
  IntMax = 0
  SemValues = {}
  CIRCBUFF_SIZE = 1
  ReadCounts = {}
  MaxPid = 3
  MaxReaders = 0
  AllocMayFail = TRUE
SPECIFICATION Spec
PROPERTY ForkRestoresPCB
