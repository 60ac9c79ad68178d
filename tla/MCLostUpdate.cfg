CONSTANTS
  Wsi = {w1}
  NoWsi = NoWsi
  isAutoReconnect = TRUE
  connectionDelayOnFailure = 1
  isNeedSignature = FALSE
  isV2 = FALSE
  symbols <- OneSymbol
  hasErrorHandler = TRUE
  callbackMayThrow = FALSE
  promptService = FALSE
  MaxBuffer = 1
SPECIFICATION FairSpec
PROPERTIES SilentSessionEnds
CHECK_DEADLOCK FALSE
