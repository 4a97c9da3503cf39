CONSTANTS
  h1 = h1
  linux = linux
  WorkerId = {w1, w2, w3}
  JobId = {}
  Attempt = {}
  NoAttempt = NoAttempt
  Code = {c1, c2}
  NoCode = NoCode
  OS = {linux}
  AnyOS = AnyOS
  Task = {}
  TaskOS <- MCTaskOS
  MaxFailures = 0
  PairingTTL = 0
  OfflineAfter = 0
  Faults = {"crash"}
  MaxNow = 0
  MaxIssue = 4
  MaxCert = 2
  Proc = {p1, p2}
  Host = {h1}
  HomeOf <- MCHomeOf
  NoWorker = NoWorker
  HostFaults = {"kill", "timeout", "typo", "diskFull", "reset"}
  MaxMishaps = 3
SPECIFICATION EnlistSpec
SYMMETRY MCSymmetry
INVARIANTS
  EnlistTypeOK
  CredsHonoured
  TypeOK
  CodeSingleUse
  GuessBound
  DurableAnswers
  PinnedCertificate
CHECK_DEADLOCK FALSE
