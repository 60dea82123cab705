CONSTANTS
  c1 = c1
  c2 = c2
  k1 = k1
  v1 = v1
  v2 = v2
  None = None
  Clients = {c1, c2}
  Keys = {k1}
  Values = {v1, v2}
  Objects = {1, 2, 3, 4}
  MaxFaults = 1
  MaxRestarts = 1
SPECIFICATION Spec
INVARIANTS PanicJustified
PROPERTY KVSpec
CHECK_DEADLOCK FALSE
