SPECIFICATION Spec
CONSTANTS
  TEST_RANGE = 9
  Samples <- SampleVals
  ArgVals <- LargeFloat
CHECK_DEADLOCK FALSE
INVARIANTS TwiceDoubles
