SPECIFICATION FairSpec
CONSTANTS
  Message = {m1, m2}
  Invocation = {i1, i2}
  None = None
  MaxConcurrent = 1
  Grace = 1
  ConfiguredMaxAge = 0
  ListMargin = 1
  MaxDeliveries = 2
  MaxFaults = 1
  Deficits = {0, 1}
INVARIANTS
  TypeOK
  SlotsAreAccountedFor
  UnderstatementIsBounded
  CapHolds
PROPERTIES
  StartsOnceOrIsDropped
  NeverDrivenNegative
  IntakeNeverWedges
CHECK_DEADLOCK FALSE
