CONSTANTS
  h1 = h1
  linux = linux
  WorkerId = {w1, w2, w3}
  JobId = {}
  Attempt = {}
  NoAttempt = NoAttempt
  Code = {c1}
  NoCode = NoCode
  OS = {linux}
  AnyOS = AnyOS
  Task = {}
  TaskOS <- MCTaskOS
  MaxFailures = 0
  PairingTTL = 0
  OfflineAfter = 1
  Faults = {"crash", "saveError"}
  MaxNow = 1
  MaxIssue = 6
  MaxCert = 3
  Proc = {p1}
  Host = {h1}
  HomeOf <- MCHomeOf
  NoWorker = NoWorker
  HostFaults = {"kill", "timeout"}
  MaxMishaps = 2
SPECIFICATION FairEnlistSpec
INVARIANTS
  ServingSaved
PROPERTIES
  Enlists
CHECK_DEADLOCK FALSE
