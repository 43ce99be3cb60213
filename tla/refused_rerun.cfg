SPECIFICATION Spec
CONSTANTS
  None = None
  v1 = v1
  v2 = v2
  shared = shared
  only = only
  Process = {p1, p2}
  Version = {v1, v2}
  Name = {shared, only}
  Bins <- MCBins
  Tree = {t1, t2}
  Damage = {"torn"}
  Command <- OneVersion
  MaxCommands = 3
  MaxKills = 1
  MaxErrors = 0
INVARIANTS RerunRepairs
CHECK_DEADLOCK FALSE
