CONSTANTS
  Wsi = {w1, w2}
  NoWsi = NoWsi
  isAutoReconnect = TRUE
  connectionDelayOnFailure = 1
  isNeedSignature = FALSE
  isV2 = FALSE
  symbols <- OneSymbol
  hasErrorHandler = TRUE
  callbackMayThrow = TRUE
  promptService = FALSE
  MaxBuffer = 2
SPECIFICATION Spec
INVARIANTS TypeOK ClientIsAttached ConnectedHasSession
SYMMETRY Sockets
CHECK_DEADLOCK FALSE
