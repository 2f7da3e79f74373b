SPECIFICATION Spec
CONSTANTS
  p = p
  s = s
  t1 = t1
  t2 = t2
  d1 = d1
  d2 = d2
  Output = {p, s}
  Page = {p}
  Tracker = {t1, t2}
  Admin = {d1, d2}
  MaxRuns = 3
  MaxFaults = 1
SYMMETRY Symmetry
CONSTRAINT Undisturbed
INVARIANTS
  TypeOK
  DeletionSparesOtherVersions
PROPERTIES
  DeletionSparesTheDocument
CHECK_DEADLOCK FALSE
