CONSTANTS
  Connection = {c1, c2}
  NoConnection = NoConnection
  isAutoReconnect = TRUE
SPECIFICATION FairSpec
PROPERTY DeleteReleases
CHECK_DEADLOCK FALSE
