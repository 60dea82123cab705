CONSTANTS
  t1 = t1
  c1 = c1
  c2 = c2
  NoID = NoID
  Tasks = {t1}
  Stoppers = {c1, c2}
  maxRetries = 2
  ReportsID = {TRUE, FALSE}
  MaxFaults = 1
  MaxChecks = 1
  MaxRestarts = 1
SPECIFICATION FairSpec
INVARIANTS ActiveHasContainer CompletedMeansRemoved CommandLaunchedOnce
PROPERTIES NoResurrection CreatingSettles StoppingSettles
CHECK_DEADLOCK FALSE
