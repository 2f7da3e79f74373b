SPECIFICATION Spec
CONSTANTS
  p = p
  s = s
  t1 = t1
  t2 = t2
  d1 = d1
  d2 = d2
  Output = {p, s}
  Page = {p}
  Tracker = {t1}
  Admin = {d1}
  MaxRuns = 2
  MaxFaults = 0
INVARIANTS
  VersionReturnsItsRunsBytes
CHECK_DEADLOCK FALSE
