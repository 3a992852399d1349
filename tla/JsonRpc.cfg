SPECIFICATION FairSpec
CONSTANTS
  Callers = {c1, c2, c3}
INVARIANTS ReaderNeverBlocks HandshakeFirst
PROPERTIES LostConnectionReleases
CHECK_DEADLOCK FALSE
