CONSTANTS
  t1 = t1
  t2 = t2
  linux = linux
  windows = windows
  WorkerId = {w1}
  JobId = {j1}
  Attempt = {a1, a2}
  NoAttempt = NoAttempt
  Code = {}
  NoCode = NoCode
  OS = {linux, windows}
  AnyOS = AnyOS
  Task = {t1, t2}
  TaskOS <- MCTaskOS
  MaxFailures = 0
  PairingTTL = 1
  OfflineAfter = 0
  Faults = {"crash"}
  MaxNow = 1
  MaxIssue = 1
  MaxCert = 1
  NetFaults = {"loss", "timeout", "workerCrash"}
SPECIFICATION GridSpec
INVARIANTS
  GridTypeOK
PROPERTIES
  OwnedEndIsFinal
  JobsRefine
CHECK_DEADLOCK FALSE
