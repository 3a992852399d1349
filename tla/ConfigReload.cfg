SPECIFICATION FairSpec
CONSTANTS
  Requests = {q1, q2}
  MaxWrites = 2
  MaxReloads = 2
  Flaky = FALSE
  Worker = worker
  None = None
INVARIANTS ExitIsClean
PROPERTIES LastConfigServed ShutdownCompletes
CHECK_DEADLOCK FALSE
