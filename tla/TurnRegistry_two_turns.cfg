SPECIFICATION Spec
CONSTANTS
  Requests = {r1, r2, r3}
  Abandon = {TRUE}
  MaxText = 1
SYMMETRY Symmetry
INVARIANTS OneTurnPerThread
CHECK_DEADLOCK FALSE
