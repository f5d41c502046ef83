SPECIFICATION Spec
CONSTANTS
  P = 5
  ABORT = ABORT
  Circuits <- FewPrograms
  Messages <- MCMessages
  Claims <- MCClaims
  RandomTs <- MCTs
  Degrees = {2}
INVARIANTS
  EvaluationCorrect
