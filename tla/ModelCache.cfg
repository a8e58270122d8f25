\* Two processes, and one edit, replacement, failure, kill or power failure.
SPECIFICATION FairSpec
CONSTANTS
  Procs = {p1, p2}
  MaxTrouble = 1
INVARIANTS
  CacheIsSound
  ReceiptsAreReliable
PROPERTIES
  LeaseIsOfReceipt
  ModelIsVerified
CHECK_DEADLOCK FALSE
