CONSTANTS
  Agent = {a1, a2}
  Limit = 1
  Window = 1
  Parallel = 2
  ResetAbove = 2
  SweepAbove = 1
  MaxUpsets = 3
SPECIFICATION FairSpec
INVARIANTS
  TypeOK
  FailuresBounded
PROPERTIES
  FingerprintStays
  AgentGetsThrough
CHECK_DEADLOCK FALSE
