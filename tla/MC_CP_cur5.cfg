CONSTANTS
  N = 5
  Graphs <- Curated5
  Runs = 1
SPECIFICATION Spec
INVARIANT SemanticsPreserved
INVARIANT FixpointReached
PROPERTY LatticeMonotone
PROPERTY Termination
CHECK_DEADLOCK FALSE
