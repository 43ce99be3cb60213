SPECIFICATION FairSpec
CONSTANTS
  None = None
  v1 = v1
  v2 = v2
  shared = shared
  only = only
  Process = {p1, p2}
  Version = {v1, v2}
  Name = {shared, only}
  Bins <- MCBins
  Tree = {t1, t2}
  Damage = {"torn", "hollow"}
  Command <- OneVersion
  MaxCommands = 2
  MaxKills = 1
  MaxErrors = 2
INVARIANTS InstalledIsKept SelectedIsThere
PROPERTIES FailureIsUndone ImplementsGlobalTool CommandsEnd
CHECK_DEADLOCK FALSE
