CONSTANTS
  Wsi = {w1, w2}
  NoWsi = NoWsi
  isAutoReconnect = TRUE
  connectionDelayOnFailure = 1
  isNeedSignature = TRUE
  isV2 = TRUE
  symbols <- OneSymbol
  hasErrorHandler = TRUE
  callbackMayThrow = TRUE
  promptService = TRUE
  MaxBuffer = 2
SPECIFICATION FairSpec
PROPERTIES RefusalIsReported
CHECK_DEADLOCK FALSE
