CONSTANTS
  Wsi = {w1, w2}
  NoWsi = NoWsi
  isAutoReconnect = TRUE
  connectionDelayOnFailure = 1
  isNeedSignature = FALSE
  isV2 = FALSE
  symbols <- TwoSymbols
  hasErrorHandler = TRUE
  callbackMayThrow = TRUE
  promptService = TRUE
  MaxBuffer = 2
SPECIFICATION FairSpec
INVARIANTS OneSession GivenUpIsEnding
PROPERTIES ImplementsSession ImplementsLine CloseIsFinal SilentSessionEnds OpenSessionSubscribes LostSessionIsRetried
CHECK_DEADLOCK FALSE
