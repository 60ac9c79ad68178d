CONSTANTS
  Wsi = {w1, w2}
  NoWsi = NoWsi
  isAutoReconnect = TRUE
  connectionDelayOnFailure = 1
  isNeedSignature = TRUE
  isV2 = TRUE
  symbols <- TwoSymbols
  hasErrorHandler = TRUE
  callbackMayThrow = TRUE
  promptService = TRUE
  MaxBuffer = 3
SPECIFICATION FairSpec
INVARIANTS QueuedIsDue
PROPERTIES NoTopicBeforeVerdict QueueDrains
CHECK_DEADLOCK FALSE
