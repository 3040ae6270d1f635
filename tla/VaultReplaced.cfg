\* A vault is burned and replaced under crashes, locks, a lost ciphertext and late operations.
SPECIFICATION FairSpec
CONSTANTS
  Pairings = {p1, p2}
  Tasks = {t1}
  Burns = {b1}
  Writers = {w1}
  MaxVaults = 2
  MaxSessions = 2
  MaxWrites = 2
  MaxFaults = 1
  MaxLosses = 1
PROPERTIES ErasedBeforeBurned ScopeNeverRelapses PersonaFrozenByBurn BurnCompletes
