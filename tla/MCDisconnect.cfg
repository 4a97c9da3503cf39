CONSTANTS
  t1 = t1
  t2 = t2
  linux = linux
  windows = windows
  WorkerId = {w1}
  JobId = {j1}
  Attempt = {a1}
  NoAttempt = NoAttempt
  Code = {}
  NoCode = NoCode
  OS = {linux}
  AnyOS = AnyOS
  Task = {t1}
  TaskOS <- MCTaskOS
  MaxFailures = 0
  PairingTTL = 1
  OfflineAfter = 0
  Faults = {}
  MaxNow = 1
  MaxIssue = 1
  MaxCert = 1
  NetFaults = {"workerCrash"}
SPECIFICATION FairGridSpec
PROPERTIES
  OrphansSettled
CHECK_DEADLOCK FALSE
