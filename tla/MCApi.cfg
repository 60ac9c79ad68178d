SPECIFICATION FairSpec
CONSTANTS
  t1 = t1
  t2 = t2
  k1 = k1
  k2 = k2
  NoKey = NoKey
  NoAccount = NoAccount
  Thread <- MCThread
  Keys <- MCKeys
  Access <- MCAccess
  Menu <- MCMenu
  Listens <- MCListens
  Kind <- MCKind
  Wanted <- MCWanted
  MaxSymbols = 2
  MaxMoves = 1
INVARIANTS TypeOK SnapshotIsPast UserIsKnown OrderReachesItsAccount CommandsAreSpecific
  FeedIsUnderstood LoopWaitsForAll
PROPERTIES CompositeIsWhole ImplementsRemoteCall CallsEnd
CHECK_DEADLOCK FALSE
