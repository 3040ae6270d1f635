\* Liveness on two hosts with finitely many faults.
SPECIFICATION FairSpec
CONSTANTS
  Hosts = {h1, h2}
  Records = {r1}
  NoRecord = NoRecord
  MaxGeneration = 1
  MaxFaults = 2
  MaxRestores = 0
PROPERTIES InterruptedWorkResolves ErasedScopeIsEmptied
