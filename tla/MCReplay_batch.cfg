SPECIFICATION FairSpec
CONSTANTS
  tApp = tApp
  tMeta = tMeta
  sKey = sKey
  sText = sText
  Secrets = {sKey, sText}
  Base64 = {sKey}
  NoSecret = "none"
  Captured <- MCCaptured
  Targets = {tApp, tMeta}
  Url <- MCUrl
  OwnPort = "8080"
  MetadataIPs = {"169.254.169.254"}
  Batches = {b1}
  MaxTimes = 3
  Faulty = TRUE
INVARIANTS TypeOK ResultsComplete WireTold HistoryAgrees AtMostOneLate AtMostOneStray ExitTells ResignVerifies
PROPERTY BatchEnds
CHECK_DEADLOCK FALSE
