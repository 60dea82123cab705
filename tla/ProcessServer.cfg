CONSTANTS
  c1 = c1
  c2 = c2
  Calls = {c1, c2}
  MaxLines = 2
SPECIFICATION Spec
SYMMETRY Symmetry
INVARIANTS BusyHasOwner PipeOrder
CHECK_DEADLOCK FALSE
