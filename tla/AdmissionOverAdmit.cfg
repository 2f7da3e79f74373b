SPECIFICATION Spec
CONSTANTS
  Message = {m1, m2, m3}
  Invocation = {i1, i2}
  None = None
  MaxConcurrent = 1
  Grace = 1
  ConfiguredMaxAge = 1
  ListMargin = 1
  MaxDeliveries = 1
  MaxFaults = 0
  Deficits = {0}
SYMMETRY Symmetry
INVARIANT OverAdmissionNeedsAHandBack
CHECK_DEADLOCK FALSE
