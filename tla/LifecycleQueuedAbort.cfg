SPECIFICATION Spec
CONSTANTS
  Invocation = {i1}
  Caller = {c1}
  MaxSteps = 1
  MaxDeliveries = 1
  MaxFaults = 0
INVARIANT QueuedAbortIsNotLost
CHECK_DEADLOCK FALSE
