\* Three attempts at one build under two kills, an error and a lost stage.
SPECIFICATION FairSpec
CONSTANTS
  Procs = {p1, p2}
  Nobody = Nobody
  Inodes = {1, 2}
  MaxAttempts = 3
  MaxCrashes = 2
  MaxErrors = 1
  MaxLosses = 1
INVARIANTS
  BuildIsSound
  RecoveryIsPossible
PROPERTIES
  PublishedIsKept
  ImplementsBuildLifecycle
  LookupCompletes
CHECK_DEADLOCK FALSE
