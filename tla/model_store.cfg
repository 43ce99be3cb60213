SPECIFICATION FairSpec
CONSTANTS
  None = None
  s1 = s1
  s2 = s2
  Process = {p1, p2}
  Snapshot = {s1, s2}
  Command <- MCCommand
  MaxCommands = 3
  MaxEdits = 1
  MaxKills = 1
  MaxErrors = 1
INVARIANTS PointersAreWhole NothingIsDestroyed
PROPERTIES EditsAreKept FailureRestores CommandsEnd
CHECK_DEADLOCK FALSE
