SPECIFICATION PlanSpec
CONSTANTS
  a = a
  b = b
  c = c
  d = d
  Task = {a, b, c, d}
  Sets <- SmallSets
INVARIANTS EachOnce DependenciesFirst PlanIsClosed PrerequisitesAreAll CyclesAreReported SimpleHintsHold
CHECK_DEADLOCK FALSE
