CONSTANTS
  N = 3
  Graphs <- MCGraphs3
  Runs = 2
SPECIFICATION Spec
INVARIANT TypeOK
INVARIANT SemanticsPreserved
INVARIANT FixpointReached
PROPERTY Termination
PROPERTY AbstractSpec
CHECK_DEADLOCK FALSE
