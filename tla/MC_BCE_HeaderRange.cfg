CONSTANTS
  Graphs <- HeaderRangeGraphs
  ParamVals <- MCParamVals
SPECIFICATION Spec
INVARIANT BCESound
CHECK_DEADLOCK FALSE
