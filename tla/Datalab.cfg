SPECIFICATION Spec
CONSTANTS
  TEST_RANGE = 9
  Samples <- SampleVals
  ArgVals <- UserVals
CHECK_DEADLOCK FALSE
INVARIANTS PuzzlesAgree PassMeansAgree
PROPERTIES Ends
