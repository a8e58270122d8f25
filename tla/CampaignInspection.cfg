SPECIFICATION Spec
CONSTANTS
  c1 = c1
  c2 = c2
  Procs = {p1, p2}
  Nobody = Nobody
  Plan <- OneCandidate
  MaxSuiteRuns = 10
  MaxCrashes = 0
  MaxChanges = 0
  MaxRaises = 0
  MaxFaults = 0
INVARIANT InspectionIsHarmless
CHECK_DEADLOCK FALSE
