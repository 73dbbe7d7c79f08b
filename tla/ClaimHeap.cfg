CONSTANTS
  NR_TASKS = 4
  MaxUncounted = 0
  TOTAL_PAGES = 14
  NUM_PAG_KERNEL = 2
  NUM_PAG_CODE = 1
  NUM_PAG_DATA = 1
  PAGE_SIZE = 2
  Increments = {1, 2, 8}
  Decrements = {1, 2, 9}
SPECIFICATION Spec
PROPERTY HeapFreedOnExit
CHECK_DEADLOCK FALSE
