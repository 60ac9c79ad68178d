CONSTANTS
  Wsi = {w1, w2}
  NoWsi = NoWsi
  isAutoReconnect = FALSE
  connectionDelayOnFailure = 1
  isNeedSignature = TRUE
  isV2 = FALSE
  symbols <- TwoSymbols
  hasErrorHandler = TRUE
  callbackMayThrow = TRUE
  promptService = FALSE
  MaxBuffer = 3
  autoClose = TRUE
SPECIFICATION FairRequestSpec
INVARIANTS SubscribedWhenAuthorised
PROPERTIES ImplementsSession ReturnIsComplete AnswersEndRequest
CHECK_DEADLOCK FALSE
