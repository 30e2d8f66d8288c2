SPECIFICATION Spec
CONSTANTS
  MaxTimers = 2
  MaxTime = 1
  Delays = {0}
  Periods = {0, 1}
  DestroyTwice = TRUE
INVARIANT
  RacingDestroyHandled
