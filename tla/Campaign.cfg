\* Two candidates, two faults of any kind, resumed again and again.
SPECIFICATION FairSpec
CONSTANTS
  c1 = c1
  c2 = c2
  Procs = {p1}
  Nobody = Nobody
  Plan <- TwoCandidates
  MaxSuiteRuns = 10
  MaxCrashes = 1
  MaxChanges = 1
  MaxRaises = 1
  MaxFaults = 2
INVARIANTS
  StateIsSound
  PromotionIsEarned
PROPERTIES
  HistoryIsFinal
  CampaignEnds
CHECK_DEADLOCK FALSE
