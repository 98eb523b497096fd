SPECIFICATION MainSpec
CONSTANTS
  tApp = tApp
  tAlias = tAlias
  tSelf = tSelf
  tMeta = tMeta
  s1 = s1
  Targets = {tAlias}
  Url <- MCUrl
  Lands <- MCLands
  Marks = {TRUE, FALSE}
  Hops = {FALSE}
  OwnPort = "8080"
  MetadataIPs = {"169.254.169.254"}
  Reqs = {r1, r2}
  Slugs = {s1}
  NoRow = NoRow
  NoTarget = NoTarget
  NoReq = NoReq
  Elsewhere = Elsewhere
  Faulty = FALSE
  Workers = {w1}
  QueueLen = 1
PROPERTIES CaptureAnswered ShutdownEnds ForwardSettles
CHECK_DEADLOCK FALSE
