SPECIFICATION Spec
CONSTANTS
  v1 = v1
  v2 = v2
  h1 = h1
  h2 = h2
  None = None
  p1 = p1
  p2 = p2
  Version = {v1, v2}
  Hash = {h1, h2}
  Tree <- MCTree
  Installer = {p1, p2}
  Remover = {}
  Collector = {}
  Inode = {i1, i2, i3, i4, i5, i6}
  Modes = {"hardlink"}
  SameDevice = FALSE
  Locked = {v2}
  Attested = {v1}
  Evictable = {v1, v2}
  MaxUrls = 1
  MaxOps = 2
  MaxKills = 0
  MaxEdits = 0
INVARIANT ConcurrentIngestsSeeWhole
CHECK_DEADLOCK FALSE
