SPECIFICATION Spec
CONSTANTS
  Batches <- MCBatches
  ForeignLines <- MCForeignLines
  MaxLines = 5
  Base = 2
  BadNum = BadNum
  HugeNum = HugeNum
  NoNum = NoNum
  NULL = NULL
INVARIANTS
  TypeOK
  RoundTrip
  TornIsPrefix
  StoresInBounds
  CorruptedAfterTag
