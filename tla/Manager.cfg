CONSTANTS
  t1 = t1
  Tasks = {t1}
  numWorkers = 2
  MaxEvents = 3
  MaxStarts = 2
  MaxFaults = 1
SPECIFICATION FairSpec
INVARIANTS MapsAgree StopReachesHome
PROPERTIES ViewNeverGoesBack ViewCatchesUp
CHECK_DEADLOCK FALSE
