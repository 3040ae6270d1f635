\* Retries, a lost log, retention, crashes: what the reader ends up with.
SPECIFICATION Spec
CONSTANTS
  whole = whole
  split = split
  broken = broken
  Bundles <- MCBundles
  Damaged = {broken}
  Parts <- MCParts
  Packets <- MCPackets
  MaxBuffered = 1
  MaxTombstones = 1
  PageLimit = 2
  MaxLog = 4
  MaxRestores = 1
  MaxLapses = 1
  MaxFaults = 1
INVARIANTS ReadsOneHistory NothingSkipped GapOnlyAfterLoss
CHECK_DEADLOCK FALSE
