SPECIFICATION CacheSpec
CONSTANTS
  Nil = Nil
  a1 = a1
  a2 = a2
  a3 = a3
  s1 = s1
  s2 = s2
  Artifact = {a1, a2, a3}
  Session = {s1, s2}
  Collector = {c1}
  Uses <- Sharing
  Size <- MCSize
  Rank <- MCRank
  Limit = 2
  MaxAge = 2
  Recent = 1
  MaxTime = 2
  MaxOps = 2
  MaxKilled = 1
INVARIANT FilesAreManaged
PROPERTIES InUseIsKept FailedRetryKept CollectsWhatItMust
CHECK_DEADLOCK FALSE
