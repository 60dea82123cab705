CONSTANTS
  Bridge = Bridge
  None = None
  p = p
  q = q
  i1 = i1
  i2 = i2
  s1 = s1
  d1 = d1
  Pools = {p, q}
  PoolIDs = {i1, i2}
  Sandboxes = {s1}
  Deleters = {d1}
  count = 2
  MaxFaults = 1
  MaxStops = 1
SPECIFICATION Spec
SYMMETRY Symmetry
INVARIANTS ReadyTracksAll OnePoolPerID CleanupRemovesAll FailedCreateLeavesNothing
PROPERTIES OnlyOwnersRemove HealthReport
CHECK_DEADLOCK FALSE
