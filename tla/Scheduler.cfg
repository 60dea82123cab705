CONSTANTS
  numNodes = 3
  Levels = {1, 2}
  Readings <- MCReadings
  Word = 16
  DiskTotal = 1
SPECIFICATION SchedulerSpec
INVARIANTS RoundRobinFair 
