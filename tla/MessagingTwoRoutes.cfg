\* Two sides, two routes that lose calls and answers, all kinds of events.
SPECIFICATION Spec
CONSTANTS
  Endpoints = {a, b}
  None = None
  a = a
  b = b
  t1 = t1
  t2 = t2
  t3 = t3
  Transactions = {t1, t2, t3}
  RouteCount = 2
  Packets = 1
  Chunks = 1
  MaxRetired = 1
  MaxSessions = 2
  MaxPending = 3
  MaxSkip = 2
  HistoryLimit = 1
  HistoryTarget = 0
  BatchLimit = 2
  Kinds = {"message", "prekey", "routes"}
  MaxDiscards = 1
  MaxFaults = 1
  MaxInvalid = 0
SYMMETRY Symmetry
INVARIANTS AcceptedNotLost RatchetAccounts SessionIntroduced ControlsInOrder
PROPERTIES AppliesOnce
CHECK_DEADLOCK FALSE
