SPECIFICATION Spec
CONSTANTS
  Requests = {r1, r2, r3, r4}
  Environments <- OrderlyAndUnruly
SYMMETRY Symmetry
INVARIANTS HistoryWhenCalm HistoryComplete InferredNeverRefused IInv
CHECK_DEADLOCK FALSE
