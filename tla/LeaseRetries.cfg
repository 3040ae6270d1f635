\* Requests resent, late, lost and forked; proofs replayed.
SPECIFICATION FairLease
CONSTANTS
  Proofs = {p1, p2, p3}
  LedgerLimit = 2
  MaxSigned = 4
  MaxLost = 2
INVARIANTS LeaseIsOneChain
PROPERTIES TeardownIsLearned
CHECK_DEADLOCK FALSE
