\* A preparation, leases and clean-ups of one source under one fault or edit.
SPECIFICATION FairSpec
CONSTANTS
  Procs = {p1, p2}
  Nobody = Nobody
  MaxKills = 1
  MaxErrors = 1
  MaxEdits = 1
  MaxFaults = 1
  MaxEvents = 7
INVARIANTS
  PreparationIsSound
  LeftoversAreKnown
PROPERTIES
  ChangesAreKept
  CleanupConverges
CHECK_DEADLOCK FALSE
