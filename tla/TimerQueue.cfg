SPECIFICATION Spec
CONSTANTS
  MaxTimers = 2
  MaxTime = 1
  Delays = {1}
  Periods = {0}
  DestroyTwice = FALSE
INVARIANT
  QueueIsComplete
