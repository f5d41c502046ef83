SPECIFICATION Spec
CONSTANTS
  P = 5
  ABORT = ABORT
  Circuits <- FewPrograms
  Messages <- MCMessages
  Claims <- MCClaims
  RandomTs <- MCTs
  Degrees = {3}
INVARIANTS
  HonestEvalDelivers
