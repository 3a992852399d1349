SPECIFICATION Spec
CONSTANTS
  Requests = {r1, r2, r3}
  Environments <- OnlyAbandoned
SYMMETRY Symmetry
INVARIANTS RightHistory
CHECK_DEADLOCK FALSE
