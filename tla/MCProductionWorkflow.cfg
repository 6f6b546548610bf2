CONSTANTS
  Horizon <- MidSession
  Completed <- CompletedAt
  Window <- WindowTimes
  Schedule <- ScheduleSet
  Backoff = 1
  MaxRecovery = 2
  None = None
SPECIFICATION FairSpec
INVARIANT DailyMatchesT0
PROPERTIES NoLateSuccessor NeverStranded
CHECK_DEADLOCK FALSE
