CONSTANTS
  IsLoop = FALSE
  Interval = 2
  Starter = {t1}
  MaxClock = 7
  MaxCalls = 5
SPECIFICATION FairTimerSpec
PROPERTY CalledOnce
CHECK_DEADLOCK FALSE
