SPECIFICATION Spec
CONSTANTS
  mem_start_brk = 8
  MAX_HEAP = 168
  INT_MOD = 256
  CLASS_NUM = 2
  Ids = {1, 2, 3}
  Sizes = {9, 33}
  ReallocSizes = {40}
  MoreTraces = FALSE
  Stale = {0}
CHECK_DEADLOCK FALSE
PROPERTY OthersUntouched
