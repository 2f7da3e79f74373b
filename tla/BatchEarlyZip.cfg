SPECIFICATION Spec
CONSTANTS
  a = a
  b = b
  t1 = t1
  t2 = t2
  File = {a, b}
  Tracker = {t1, t2}
  MaxRuns = 1
  MaxUploads = 2
  MaxFaults = 0
INVARIANT SuccessHasEveryResult
CHECK_DEADLOCK FALSE
