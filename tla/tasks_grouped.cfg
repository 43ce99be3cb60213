SPECIFICATION FairSpec
CONSTANTS
  all = all
  left = left
  right = right
  prep = prep
  nested = nested
  clean = clean
  Task = {all, left, right, prep, nested, clean}
  Plans <- GroupedPlans
  Sources = {left}
  Batch = 2
  Errors = {"body", "post", "sources"}
  MaxEdits = 2
  MaxRuns = 2
  None = None
INVARIANTS OncePerRun TeardownFollowsBody ExitCodeIsHonest
PROPERTIES PrerequisitesFirst SkippedIsCurrent FailureIsSaved RunEnds
CHECK_DEADLOCK FALSE
