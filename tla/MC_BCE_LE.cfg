CONSTANTS
  Graphs <- LEGraphs
  ParamVals <- MCParamVals
SPECIFICATION Spec
INVARIANT BCESound
CHECK_DEADLOCK FALSE
