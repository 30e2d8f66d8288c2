SPECIFICATION FairSpec
CONSTANTS
  MaxTimers = 2
  MaxTime = 2
  Delays = {0, 1, 3}
  Periods = {0, 1}
  DestroyTwice = FALSE
INVARIANTS
  NoDanglingReference
  TimerInv
PROPERTIES
  NoCallAfterDestroy
  TimersLeaveQueue
  DestructorEnds
