SPECIFICATION Spec
CONSTANTS
  Calls = {c1, c2, c3}
  Streams = {s1, s2, s3}
  First = s1
  Parallel = FALSE
  Lossy = TRUE
  Patient = FALSE
  Retries = TRUE
  MaxText = 1
SYMMETRY Symmetry
INVARIANTS NoStrandedCallback CallbackAccounted AcknowledgeFindsCallback IInv
PROPERTIES NeverShownAgain ImplementsToolCallbacks
CHECK_DEADLOCK FALSE
