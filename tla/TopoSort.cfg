SPECIFICATION FairSpec
CONSTANTS
  Circuits <- MCCircuits
  NoArith = NoArith
  NoGraph = NoGraph
  Faults <- AllFaults
INVARIANTS
  TypeOK
  SortComplete
  TempsRemoved
PROPERTIES
  CallEnds
