CONSTANTS
  W = 4
  Regs <- MCRegs
  Progs <- MCProgs
  InitVals <- MCInitVals
  MaxMag = 9
  MaxDen = 2
SPECIFICATION Spec
INVARIANT TypeOK TypeSetSound
PROPERTY ResultCorrect
VIEW StateView
