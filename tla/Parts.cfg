CONSTANTS
  CIRCBUFF_SIZE = 3
  Char = {a, b}
  ListHead = {h1, h2}
  ListNode = {n1, n2, n3, n4}
  NULL = NULL
  SECTOR = 4
  PARAGRAPH = 2
  SEC_PISTA = 3
  SEGMENT = 5
  INITSEG = 3
  SYSSIZE = 28
  ImLimit = 64
  BUFFER = 16
  USER_BYTES = 24
  SysSizes = {7, 30}
  UsrSizes = {1, 20, 30, 98}
  NUM_COLUMNS = 3
  NUM_ROWS = 2
  FirstRow = 1
  size_block = 4
  ClockCell <- ClockCorner
  UserText <- Texts
  Errnos = {0, 9, 38}
SPECIFICATION PartsSpec
INVARIANTS
  RingInv
  Represents
  RegistersKept
  LoadedInOrder
  ImageInPlace
  RowIntact
  WritesExactly
  PerrorSaysErrno
PROPERTIES
  ImplementsFifo
  ErrorsReported
CHECK_DEADLOCK FALSE
