SPECIFICATION MCSpec
CONSTANTS
  Subjects = {"runtime", "catalogue", "affinity", "turn", "chatgpt", "cache"}
  Requests = {q1, q2}
  Reloaders = {w1, w2}
  MaxReloads = 3
  None = None
  Accounts = {1, 2}
  Callers = {c1, c2}
  MaxCalls = 3
  Nobody = Nobody
  Routes <- MCRoutes
  MaxIds = 4
  NoId = NoId
  Unset = Unset
  NoItem = NoItem
  Forms <- MCForms
  MaxBlocks = 3
  Apis = {"chat"}
  ItemKinds <- MCItemKinds
  MaxItems = 3
  Keys = {k1, k2, k3}
  Values = {v1, v2}
  MaxEntries = 2
  MaxClock = 2
  Forever = Forever
INVARIANTS
  RunsOnOpenGateway NoGatewayLeaked IInv
  CatalogueIsActive CallersKeepControl AffinityIsStable
  EventsWellFormed SameEitherWay ReplayedAsSaid
  OnlyFinishedCompletes AnswerIsWhole CacheOnlyForgets
PROPERTIES ReloadEnds CatalogueRecovers
CHECK_DEADLOCK FALSE
