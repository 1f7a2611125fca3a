CONSTANTS
  Graphs <- AllSafeGraphs
  ParamVals <- MCParamVals
SPECIFICATION Spec
INVARIANT TypeOK
INVARIANT BCESound
INVARIANT IVRangeCorrect
INVARIANT NoDanglingUse
CHECK_DEADLOCK FALSE
