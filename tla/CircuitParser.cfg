SPECIFICATION Spec
CONSTANTS
  Lines <- AllLines
  MaxLines = 5
  BadNum = BadNum
  HugeNum = HugeNum
  NoNum = NoNum
  NULL = NULL
  SortFails = TRUE
INVARIANTS
  TypeOK
  LegalFilesParse
  CompleteFilesWellFormed
  EdgesCoverOperands
