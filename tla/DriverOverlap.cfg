SPECIFICATION Spec
CONSTANTS
  mem_start_brk = 8
  MAX_HEAP = 40
  INT_MOD = 64
  Ids = {1, 2}
  Sizes = {4, 20}
  ReallocSizes = {}
  MoreTraces = TRUE
  Answers = {0, 8, 16, 24, 32}
CHECK_DEADLOCK FALSE
INVARIANT PayloadsDisjoint
