CONSTANTS
  NR_TASKS = 4
  NumSem = 0
  Quantum = 2
  TickMax = 3
  IntMax = 0
  SemValues = {}
  CIRCBUFF_SIZE = 1
  ReadCounts = {1}
  MaxPid = 4
  MaxReaders = 3
  AllocMayFail = FALSE
SPECIFICATION TypingSpec
PROPERTY EveryReaderServed
