CONSTANTS
  Wsi = {w1, w2}
  NoWsi = NoWsi
  isAutoReconnect = TRUE
  connectionDelayOnFailure = 1
  isNeedSignature = FALSE
  isV2 = FALSE
  symbols <- OneSymbol
  hasErrorHandler = FALSE
  callbackMayThrow = FALSE
  promptService = TRUE
  MaxBuffer = 2
SPECIFICATION Spec
INVARIANTS ErrorsDoNotEndService
CHECK_DEADLOCK FALSE
