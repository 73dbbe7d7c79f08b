CONSTANTS
  NR_TASKS = 4
  NumSem = 0
  Quantum = 1
  TickMax = 2
  IntMax = 0
  SemValues = {}
  CIRCBUFF_SIZE = 2
  ReadCounts = {1, 3, 5}
  MaxPid = 4
  MaxReaders = 3
  AllocMayFail = FALSE
SPECIFICATION FairSpec
INVARIANTS
  NoPCBLost
  OneReaderCopies
  WokenInTime
PROPERTIES
  ReadyRuns
  SingleReadReturns
