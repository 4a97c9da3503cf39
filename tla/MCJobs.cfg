CONSTANTS
  t1 = t1
  t2 = t2
  linux = linux
  windows = windows
  WorkerId = {w1}
  JobId = {j1}
  Attempt = {a1, a2}
  NoAttempt = NoAttempt
  Code = {c1}
  NoCode = NoCode
  OS = {linux, windows}
  AnyOS = AnyOS
  Task = {t1, t2}
  TaskOS <- MCTaskOS
  MaxFailures = 0
  PairingTTL = 1
  OfflineAfter = 0
  Faults = {"crash", "saveError"}
  MaxNow = 1
  MaxIssue = 1
  MaxCert = 1
SPECIFICATION Spec
SYMMETRY MCSymmetry
INVARIANTS
  RefInt
  ResultFromOwner
PROPERTIES
  AttemptStable
CHECK_DEADLOCK FALSE
