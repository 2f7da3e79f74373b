SPECIFICATION FairSpec
CONSTANTS
  t1 = t1
  s1 = s1
  Tracker = {t1}
  Sweeper = s1
  MaxAttempts = 1
  MaxRuns = 2
  MaxCycles = 2
  MaxFaults = 0
PROPERTIES
  EveryHoldEnds
CHECK_DEADLOCK FALSE
