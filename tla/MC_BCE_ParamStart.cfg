CONSTANTS
  Graphs <- NegativeIndexGraphs
  ParamVals <- MCParamVals
SPECIFICATION Spec
INVARIANT BCESound
CHECK_DEADLOCK FALSE
