\* One owner, recoverers and the sweep under a kill, a power failure and an error.
SPECIFICATION FairSpec
CONSTANTS
  Procs = {p1, p2}
  RootPaths = {log}
  NestedPaths = {sample}
  Nobody = Nobody
  MaxKills = 1
  MaxLosses = 1
  MaxErrors = 1
INVARIANTS
  RecordIsSound
  OwnersAreUndisturbed
  FaultsAreContained
PROPERTIES
  ImplementsLifecycle
  DeadRunIsFinalized
