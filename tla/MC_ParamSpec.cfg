CONSTANTS
  ArgVals <- MCArgVals
  Undefined = "undefined"
  MaxArgs = 2
  Frames <- MCFrames
  MaxCompiles = 3
SPECIFICATION Spec
INVARIANT ConstantsMatchFrame
CHECK_DEADLOCK FALSE
