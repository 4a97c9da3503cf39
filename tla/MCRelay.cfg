CONSTANTS
  Agent = {a, b}
  MsgId = {m1, m2}
  Key = {k1}
  NoKey = NoKey
  Outcome = {r1}
  NoOutcome = NoOutcome
  TTLs = {0, 3}
  DefaultTTL = 1
  MaxTTL = 1
  Faults = {"crash", "saveError"}
  MaxNow = 1
  MaxToken = 2
SPECIFICATION Spec
SYMMETRY MCSymmetry
INVARIANTS
  TypeOK
  KeysUnique
  SentDurable
  ConfirmedEndDurable
  HandledOnce
  PrintedTokenAccepted
PROPERTIES
  MailRefines
CHECK_DEADLOCK FALSE
