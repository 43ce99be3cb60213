SPECIFICATION Spec
CONSTANTS
  v1 = v1
  v2 = v2
  h1 = h1
  h2 = h2
  None = None
  p1 = p1
  p2 = p2
  Version = {v1, v2}
  Hash = {h1, h2}
  Tree <- MCTree
  Installer = {p1, p2}
  Remover = {r1}
  Collector = {}
  Inode = {i1, i2, i3, i4, i5}
  Modes = {"hardlink"}
  SameDevice = TRUE
  Locked = {v1}
  Attested = {v2}
  Evictable = {}
  MaxUrls = 1
  MaxOps = 3
  MaxKills = 1
  MaxEdits = 1
INVARIANTS MarkerMeansComplete RepairedAtCommit
PROPERTY CompleteIsStable
SYMMETRY Installers
CHECK_DEADLOCK FALSE
