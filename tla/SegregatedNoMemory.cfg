SPECIFICATION Spec
CONSTANTS
  mem_start_brk = 8
  MAX_HEAP = 96
  INT_MOD = 256
  CLASS_NUM = 2
  Ids = {1, 2, 3}
  Sizes = {9, 17}
  ReallocSizes = {}
  MoreTraces = FALSE
  Stale = {0}
CHECK_DEADLOCK FALSE
INVARIANT NoCrash
