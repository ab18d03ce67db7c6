CONSTANTS
  t1 = t1
  t2 = t2
  t3 = t3
  t4 = t4
  None = None
  Tasks = {t1, t2, t3, t4}
  ScheduleOf <- MCScheduleOf
  Period <- MCPeriod
  LeaseDuration = 2
  MaxTime = 3
  MaxFailures = 1
  MaxRestarts = 1
SPECIFICATION FairSpec
INVARIANTS TypeOK FiresOncePerDue BlockedOnlyAfterFault
PROPERTIES DueFires StopEndsLoop
CHECK_DEADLOCK FALSE
