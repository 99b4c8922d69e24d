SPECIFICATION Spec
CONSTANTS
  t1 = t1
  t2 = t2
  m1 = m1
  m2 = m2
  txt = txt
  NoTorrent = NoTorrent
  Torrents <- MCTorrents
  Files <- MCMedia
  Media <- MCMedia
  MaxJobs = 2
  MaxAttempts = 1
  MaxBatches = 2
  MaxInflight = 2
  AmountLeftCountsUnwanted = FALSE
  MaxCleanups = 0
  MaxLapses = 1
  MaxCrashes = 0
  MaxReconciles = 0
INVARIANT VerifiedIsDeferred
CHECK_DEADLOCK FALSE
