SPECIFICATION FairSpec
CONSTANTS
  TIMER_EVENT_NUM = 3
  a = a
  b = b
  Clients = {a, b}
  Forgetful = {b}
  Sleepers = {b}
  TICKS = 2
  Timeouts <- Periods
  MaxLag = 1
  None = None
INVARIANTS TypeOK PoolIsConsistent WalkIsSafe NearestIsFirst NothingDueIsLeft
PROPERTIES OnlyForgettersLoseHandles TimersKeepPromise EveryTimerRuns
