CONSTANTS
  Wsi = {w1, w2}
  NoWsi = NoWsi
  isAutoReconnect = TRUE
  connectionDelayOnFailure = 1
  isNeedSignature = FALSE
  isV2 = FALSE
  symbols <- OneSymbol
  hasErrorHandler = TRUE
  callbackMayThrow = TRUE
  promptService = TRUE
  MaxBuffer = 2
SPECIFICATION FairSpec
PROPERTIES FailedAttemptIsRetried
CHECK_DEADLOCK FALSE
