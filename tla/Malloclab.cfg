SPECIFICATION LabSpec
CONSTANTS
  mem_start_brk = 8
  MAX_HEAP = 40
  INT_MOD = 64
  Ids = {1, 2, 3}
  Sizes = {12}
  ReallocSizes = {0, 12}
  MoreTraces = TRUE
  Answers = {0, 8, 12, 16, 24, 32, 40}
  Word = 4
  Costs = {1, 4}
  Durations = {1, 3}
  Second = 3
  kbest = 2
  maxsamples = 3
  epsilon = 50
  THRESHOLD = 2
  RECORDTHRESH = 3
  NEVENT = 2
  MAX_ETIME = 2
  Runs = 3
CHECK_DEADLOCK FALSE
INVARIANTS RangesMatch PayloadsInHeap PayloadsDisjoint Measured Compensated BestSample
PROPERTIES MeasurementEnds
