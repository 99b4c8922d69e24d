SPECIFICATION Spec
CONSTANTS
  t1 = t1
  t2 = t2
  Torrents <- MCTorrents
  Contents <- MCContents
  MinConfirmations = 2
  MaxFaults = 1
INVARIANTS
  OnlyOrphansMove
CHECK_DEADLOCK FALSE
