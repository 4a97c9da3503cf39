CONSTANTS
  Process = {p1, p2, p3}
  Bundle = {b1}
  NoBundle = NoBundle
  StaleAge = 2
  Faults = {"crash", "childCrash", "error", "lockError", "stall", "finalCheck"}
  MaxFaults = 3
SPECIFICATION FairSpec
INVARIANTS
  TypeOK
  OneSuccess
  NothingLost
PROPERTIES
  ConsumedForGood
  BundleApplied
CHECK_DEADLOCK FALSE
