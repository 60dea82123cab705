CONSTANTS
  t1 = t1
  t2 = t2
  NoID = NoID
  Tasks = {t1, t2}
  queueSize = 1
  maxConcurrent = 1
  maxRetries = 1
  ReportsID = {TRUE, FALSE}
  MaxFaults = 1
  MaxChecks = 1
SPECIFICATION FairSpec
INVARIANT CreationInSlot
PROPERTY AcceptedTaskSettles
CHECK_DEADLOCK FALSE
