SPECIFICATION FairSpec
CONSTANTS
  None = None
  Url = {u1, u2}
  Validated = {u1}
  Blocks = 3
  MaxAttempts = 3
  ReadTimeout = TRUE
  MaxGen = 2
  MaxCalls = 4
  MaxKills = 2
INVARIANT DeliveredWhole
PROPERTIES ImplementsWholeFile CallEnds
CHECK_DEADLOCK FALSE
