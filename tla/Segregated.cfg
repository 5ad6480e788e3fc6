SPECIFICATION Spec
CONSTANTS
  mem_start_brk = 8
  MAX_HEAP = 112
  INT_MOD = 256
  CLASS_NUM = 2
  Ids = {0, 256, 1}
  Sizes = {9, 17}
  ReallocSizes = {0, 25}
  MoreTraces = FALSE
  Stale = {9}
CHECK_DEADLOCK FALSE
INVARIANTS HeapSound ScanComplete RefitFinds
PROPERTIES ImplementsContract CallsReturn
