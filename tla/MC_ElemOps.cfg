CONSTANTS
  Vals <- MCVals
  Cap = 3
  Protos <- MCProtos
  Strs <- MCSeqs
  ArgLists <- MCArgs
  Hole = Hole
  Absent = Absent
  Setter = Setter
  Undef = Undef
  ThisV = ThisV
  Garbage = Garbage
SPECIFICATION Spec
PROPERTY GetCorrect SetCorrect
