\* Two devices with one invitation; interruptions, cancellations and expiry.
SPECIFICATION FairSpec
CONSTANTS
  Offerer = o
  Responders = {r1, r2}
  MaxMint = 2
INVARIANTS EveryStateResumes ReadyIsMutual
PROPERTIES NothingUnreadDeleted PairingCompletes
CHECK_DEADLOCK FALSE
