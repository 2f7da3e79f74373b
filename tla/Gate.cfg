SPECIFICATION FairSpec
CONSTANTS
  p1 = p1
  p2 = p2
  Worker = {p1, p2}
  MaxUploads = 2
  MaxRepeats = 2
  MaxFaults = 1
INVARIANTS
  TypeOK
  QueuedHasAMessage
  QueuedOncePerHold
PROPERTIES
  OwnRefusalLands
  RefusalIsFinal
  HeldIsDecided
CHECK_DEADLOCK FALSE
