CONSTANTS
  Graphs <- ForeignIncGraphs
  ParamVals <- MCParamVals
SPECIFICATION Spec
INVARIANT BCESound
CHECK_DEADLOCK FALSE
