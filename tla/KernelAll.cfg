CONSTANTS
  NR_TASKS = 4
  NumSem = 1
  Quantum = 1
  TickMax = 2
  IntMax = 1
  SemValues = {0, 1}
  CIRCBUFF_SIZE = 1
  ReadCounts = {2}
  MaxPid = 4
  MaxReaders = 4
  AllocMayFail = TRUE
SPECIFICATION Spec
INVARIANTS
  TypeOK
  LinkedOnce
  CurrentUnlinked
  ListedAsStated
  IdleNeverBlocks
  QuantumInRange
PROPERTY ReadyInTurn
