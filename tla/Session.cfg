SPECIFICATION FairSpec
CONSTANTS
  t1 = t1
  Trees <- One
  StartPhases = {"agent", "record", "halt", "merging"}
  MaxWork = 2
  MaxRounds = 2
  MaxTrouble = 4
INVARIANTS ReportIsTruthful ForceNeverWaits RequestStopsWork
PROPERTIES LedgerDropsOnlyDead ProcessEnds StopHonoured
CHECK_DEADLOCK FALSE
