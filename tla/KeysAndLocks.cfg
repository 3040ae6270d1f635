\* Two keys; locks, cancellations, unplugged keys and a failing helper at any step.
SPECIFICATION FairSpec
CONSTANTS
  Keys = {k1, k2}
  NoKey = NoKey
  MaxFaults = 2
INVARIANTS GuardedWhileOpen NeverWithoutKeys
PROPERTIES PulledKeyLocks OperationsEnd
