CONSTANTS
  IsLoop = TRUE
  Interval = 2
  Starter = {t1, t2}
  MaxClock = 7
  MaxCalls = 5
SPECIFICATION FairTimerSpec
INVARIANTS OnSchedule
PROPERTIES NoCallAfterStop EveryInterval
CHECK_DEADLOCK FALSE
