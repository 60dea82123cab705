CONSTANTS
  Observers = {}
  Final = {"COMPLETED"}
  MaxMessages = 1
  MaxFaults = 0
SPECIFICATION Spec
INVARIANT NoPanic
CHECK_DEADLOCK FALSE
