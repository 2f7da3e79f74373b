SPECIFICATION FairSpec
CONSTANTS
  a = a
  b = b
  t1 = t1
  t2 = t2
  File = {a, b}
  Tracker = {t1, t2}
  MaxRuns = 2
  MaxUploads = 3
  MaxFaults = 1
CONSTRAINT Undisturbed
INVARIANTS
  TypeOK
  ZipHoldsEveryResult
PROPERTIES
  AnswerIsFinal
  JobEnds
CHECK_DEADLOCK FALSE
