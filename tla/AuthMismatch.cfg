SPECIFICATION Spec
CONSTANTS
  P = 11
  PRF <- MCPRF
  LongLabel = 9
  NULL = NULL
  Procs = {p1, p2}
  KeyNames = {"k"}
  TagNames = {"t", "u"}
  MessageNames = {"m23", "m2", "empty", "none", "5", "a", "b", "c"}
  Contents <- MCContents
  HexValue <- MCHexValue
  Sessions <- MismatchSessions
  Faults = {}
  Stray <- MCStray
  BadArith = BadArith
  BadNum = BadNum
INVARIANT AuthRefusesMismatch
