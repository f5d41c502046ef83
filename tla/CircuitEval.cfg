SPECIFICATION FairSpec
CONSTANTS
  Values <- MCValues
  Constants <- MCConstants
  Plus <- MCPlus
  Times <- MCTimes
  Scale <- MCScale
  Circuits <- MCCircuits
  InputVectors <- MCInputs
  Meaning <- MCMeaning
  NULL = NULL
  GARBAGE = GARBAGE
  CounterMod = 4
INVARIANTS
  TypeOK
  IInv
  OperandsAlive
  ResultCorrect
  NoWrongResult
  GarbageUntouched
  FreedAtLastRead
PROPERTIES
  NoLeak
  Terminates
  ImplementsFunction
