SPECIFICATION Spec
CONSTANTS
  tApp = tApp
  tAlias = tAlias
  tSelf = tSelf
  tMeta = tMeta
  s1 = s1
  Targets = {tAlias}
  Url <- MCUrl
  Lands <- MCLands
  Marks = {FALSE}
  Hops = {TRUE}
  OwnPort = "8080"
  MetadataIPs = {"169.254.169.254"}
  Reqs = {r1, r2, r3}
  Slugs = {s1}
  NoRow = NoRow
  NoTarget = NoTarget
  NoReq = NoReq
  Elsewhere = Elsewhere
  Faulty = FALSE
  Workers = {w1, w2}
  QueueLen = 1
SYMMETRY Symmetry
INVARIANTS Accounted CleanShutdownAccounts LoopBounded
CHECK_DEADLOCK FALSE
