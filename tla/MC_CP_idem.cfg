CONSTANTS
  N = 3
  Graphs <- MCGraphs3
  Runs = 2
SPECIFICATION Spec
INVARIANT Idempotent
CHECK_DEADLOCK FALSE
