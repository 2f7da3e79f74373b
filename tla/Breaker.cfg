SPECIFICATION FairSpec
CONSTANTS
  Invocation = {i1, i2}
  Manager = {a1}
  Scheduler = scheduler
  Tracker = {t1}
  None = None
  Budget = 2
  WindowTicks = 1
  RecoveryTimeout = 1
  HalfOpenFloor = 2
  MaxLag = 0
  MaxFaults = 1
INVARIANTS
  TypeOK
  BudgetPerWindow
  EpisodeIsNotOvertimed
PROPERTIES
  OutageIsNotClobbered
  NoStateIsFinal
CHECK_DEADLOCK FALSE
