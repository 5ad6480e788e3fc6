SPECIFICATION Spec
CONSTANTS
  MaxTimeouts = 3
CHECK_DEADLOCK FALSE
INVARIANTS Transposes OwnResults FullMarks
PROPERTIES DriverEnds
