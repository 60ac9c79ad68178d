CONSTANTS
  Connection = {c1, c2, c3}
  NoConnection = NoConnection
  isAutoReconnect = TRUE
SPECIFICATION FairSpec
INVARIANTS TypeOK WatchedOnce OpenIsWatched
PROPERTIES ImplementsLines LostIsReconnected
CHECK_DEADLOCK FALSE
