SPECIFICATION OpsSpec
CONSTANTS
  P = 3
  ABORT = ABORT
  Operands <- MCOperands
  Constants <- MCConstants
  MaxOps = 3
INVARIANTS
  Homomorphic
PROPERTIES
  AbortOnlyOnZero
