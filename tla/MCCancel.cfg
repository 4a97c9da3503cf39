CONSTANTS
  t1 = t1
  t2 = t2
  linux = linux
  windows = windows
  WorkerId = {w1}
  JobId = {j1}
  Attempt = {a1, a2}
  NoAttempt = NoAttempt
  Code = {}
  NoCode = NoCode
  OS = {linux}
  AnyOS = AnyOS
  Task = {t1}
  TaskOS <- MCTaskOS
  MaxFailures = 0
  PairingTTL = 1
  OfflineAfter = 1
  Faults = {}
  MaxNow = 0
  MaxIssue = 1
  MaxCert = 1
  NetFaults = {}
SPECIFICATION GridSpec
PROPERTIES
  CancelIsFinal
CHECK_DEADLOCK FALSE
