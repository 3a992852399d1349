SPECIFICATION Spec
CONSTANTS
  Calls = {c1}
  Streams = {s1, s2}
  First = s1
  Parallel = TRUE
  Lossy = FALSE
  Patient = TRUE
  Retries = FALSE
  MaxText = 1
PROPERTIES ResumedTurnContinues
CHECK_DEADLOCK FALSE
