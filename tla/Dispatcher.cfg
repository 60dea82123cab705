CONSTANTS
  t1 = t1
  t2 = t2
  t3 = t3
  t4 = t4
  Tasks = {t1, t2, t3, t4}
  queueSize = 1
  maxConcurrent = 2
SPECIFICATION FairSpec
INVARIANTS TypeOK ConcurrencyLimit OnePlace
PROPERTIES BackPressure PoolSpec AcceptedTaskRuns ShutdownEndsLoop
CHECK_DEADLOCK FALSE
