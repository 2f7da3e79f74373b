SPECIFICATION FairSpec
CONSTANTS
  t1 = t1
  s1 = s1
  Tracker = {t1}
  Sweeper = s1
  MaxAttempts = 2
  MaxRuns = 2
  MaxCycles = 2
  MaxFaults = 1
INVARIANTS
  TypeOK
  OneFinalizeAtATime
  ClosedByItsFinalizeRun
  FinalStatusNeedsAFinalRun
  ObjectSpeaksForTheReview
PROPERTIES
  MovesForward
  FinalizedInTurn
  ReviewMovesOn
CHECK_DEADLOCK FALSE
