SPECIFICATION FairSpec
CONSTANTS
  Calls = {c1, c2}
  Streams = {s1, s2, s3}
  First = s1
  Parallel = TRUE
  Lossy = FALSE
  Patient = TRUE
  Retries = FALSE
  MaxText = 1
PROPERTIES CallbackResolved StreamsEnd
CHECK_DEADLOCK FALSE
