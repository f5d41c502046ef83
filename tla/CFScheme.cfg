SPECIFICATION Spec
CONSTANTS
  P = 5
  ABORT = ABORT
  Circuits <- Programs
  Messages <- MCMessages
  Claims <- MCClaims
  RandomTs <- MCTs
  Degrees = {0, 2, 3}
INVARIANTS
  TagsHomomorphic
  HonestAccepted
  OthersRejected
  DegreeBoundExact
