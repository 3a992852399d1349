SPECIFICATION FairSpec
CONSTANTS
  Requests = {r1, r2}
  Abandon = {TRUE, FALSE}
  MaxText = 2
INVARIANTS NoStaleReservation OwnTurnOnly
PROPERTIES ThreadIsFreed StreamEventuallyEnds
CHECK_DEADLOCK FALSE
