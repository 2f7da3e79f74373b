SPECIFICATION FairSpec
CONSTANTS
  Invocation = {i1, i2}
  Caller = {c1, c2}
  MaxSteps = 2
  MaxDeliveries = 2
  MaxFaults = 1
INVARIANTS
  TypeOK
  EarlyAbortPreventsStart
  AbortedRunIsBeingStopped
  AcceptedAbortBeatsTheStart
  OneExecution
  StatusFollowsExecution
PROPERTIES
  AbortedRunIsStopped
CHECK_DEADLOCK FALSE
