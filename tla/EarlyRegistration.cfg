CONSTANTS
  t1 = t1
  NoID = NoID
  Tasks = {t1}
  Stoppers = {}
  maxRetries = 2
  ReportsID = {TRUE}
  MaxFaults = 0
  MaxChecks = 1
  MaxRestarts = 0
SPECIFICATION FairSpec
PROPERTY ScheduledTaskStarts
CHECK_DEADLOCK FALSE
