SPECIFICATION Spec
CONSTANTS
  mem_start_brk = 8
  MAX_HEAP = 120
  INT_MOD = 256
  CLASS_NUM = 2
  Ids = {1, 2}
  Sizes = {1}
  ReallocSizes = {}
  MoreTraces = FALSE
  Stale = {0}
CHECK_DEADLOCK FALSE
INVARIANT LinksFit
