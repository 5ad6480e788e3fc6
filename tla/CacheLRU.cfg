SPECIFICATION Spec
CONSTANTS
  num_S = 2
  num_E = 2
  Blocks = {1, 2, 19}
  UINT_MOD = 16
  MaxLines = 5
CHECK_DEADLOCK FALSE
INVARIANTS ZeroMeansEmpty OrderSound Conserved
PROPERTIES ImplementsLRU
