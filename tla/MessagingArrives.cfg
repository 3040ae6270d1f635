\* One route, pages of one packet, attachments of two chunks, the pump running.
SPECIFICATION FairSpec
CONSTANTS
  Endpoints = {a, b}
  None = None
  a = a
  b = b
  t1 = t1
  t2 = t2
  Transactions = {t1, t2}
  RouteCount = 1
  Packets = 2
  Chunks = 2
  MaxRetired = 1
  MaxSessions = 4
  MaxPending = 3
  MaxSkip = 2
  HistoryLimit = 2
  HistoryTarget = 1
  BatchLimit = 1
  Kinds = {"attachment", "prekey"}
  MaxDiscards = 0
  MaxFaults = 1
  MaxInvalid = 1
PROPERTIES EverythingArrives
CHECK_DEADLOCK FALSE
