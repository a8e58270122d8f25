SPECIFICATION Spec
CONSTANTS
  Procs = {p1, p2}
  Nobody = Nobody
  MaxKills = 0
  MaxErrors = 0
  MaxEdits = 0
  MaxFaults = 0
  MaxEvents = 8
INVARIANT RegistryStaysLoadable
CHECK_DEADLOCK FALSE
