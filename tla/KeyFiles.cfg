SPECIFICATION Spec
CONSTANTS
  Degrees <- MCDegrees
  MaxRuns = 3
  Faults = {"open", "kill", "full"}
  ForeignLines <- MCForeignLines
  MaxLines = 4
  Base = 2
  BadNum = BadNum
  NoNum = NoNum
  NULL = NULL
INVARIANTS
  TypeOK
  PairWhole
  FieldsInPlace
  AcceptedFiles
