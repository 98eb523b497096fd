SPECIFICATION Spec
CONSTANTS
  tApp = tApp
  tMeta = tMeta
  sKey = sKey
  sText = sText
  Secrets = {sKey, sText}
  Base64 = {sKey}
  NoSecret = "none"
  Captured <- MCCaptured
  Targets = {tApp}
  Url <- MCUrl
  OwnPort = "8080"
  MetadataIPs = {"169.254.169.254"}
  Batches = {b1}
  MaxTimes = 3
  Faulty = FALSE
INVARIANT ResultsArrive
CHECK_DEADLOCK FALSE
