SPECIFICATION Spec
CONSTANTS
  t1 = t1
  t2 = t2
  m1 = m1
  m2 = m2
  txt = txt
  NoTorrent = NoTorrent
  Torrents <- MCTorrents
  Files <- MCFiles
  Media <- MCMedia
  MaxJobs = 3
  MaxAttempts = 1
  MaxBatches = 2
  MaxInflight = 2
  AmountLeftCountsUnwanted = FALSE
  MaxCleanups = 1
  MaxLapses = 0
  MaxCrashes = 0
  MaxReconciles = 0
SYMMETRY MediaSymmetry
INVARIANTS
  TypeOK
  CleanupOnlyVerified
  PinnedReserved
  LiveBatchesDisjoint
  OneLiveUpload
  MediaNotLost
PROPERTIES
  KeepsPromise
  DeleteOnlyVerified
  SettledIsFinal
CHECK_DEADLOCK FALSE
