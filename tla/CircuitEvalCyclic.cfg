SPECIFICATION Spec
CONSTANTS
  Values <- MCValues
  Constants <- MCConstants
  Plus <- MCPlus
  Times <- MCTimes
  Scale <- MCScale
  Circuits <- CyclicWirings
  InputVectors <- OneInput
  Meaning <- MCMeaning
  NULL = NULL
  GARBAGE = GARBAGE
  CounterMod = 4
INVARIANTS
  OkMeansResult
