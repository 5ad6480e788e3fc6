SPECIFICATION MainSpec
CONSTANTS
  mem_start_brk = 8
  MAX_HEAP = 56
  INT_MOD = 128
  Ids = {0, 128, 384}
  Sizes = {1, 17}
  ReallocSizes = {0, 25}
  MoreTraces = TRUE
  Stale = {9}
  MaxOps = 4
  Speeds = 2
CHECK_DEADLOCK FALSE
INVARIANTS IInv ExtendOnlyWhenFull FirstFit Repeatable UtilAtMostOne
PROPERTIES DriverAccepts ImplementsContract CallsReturn
