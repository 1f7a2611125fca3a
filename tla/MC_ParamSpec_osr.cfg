CONSTANTS
  ArgVals <- MCArgVals
  Undefined = "undefined"
  MaxArgs = 2
  Frames <- MCFrames
  MaxCompiles = 3
SPECIFICATION Spec
INVARIANT OsrOnlyWithEntry
CHECK_DEADLOCK FALSE
