SPECIFICATION FairSpec
CONSTANTS
  t1 = t1
  t2 = t2
  Torrents <- MCTorrents
  Contents <- MCContents
  MinConfirmations = 2
  MaxFaults = 1
INVARIANTS
  TypeOK
  CacheKeysTrue
  KnownContentStays
PROPERTIES
  SuspectMovesNothing
  EmergencyStops
CHECK_DEADLOCK FALSE
