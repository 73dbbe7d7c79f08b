CONSTANTS
  NR_TASKS = 4
  NumSem = 0
  Quantum = 2
  TickMax = 3
  IntMax = 0
  SemValues = {}
  CIRCBUFF_SIZE = 2
  ReadCounts = {1, 2}
  MaxPid = 4
  MaxReaders = 2
  AllocMayFail = FALSE
SPECIFICATION Spec
PROPERTY ReadDeliversAll
