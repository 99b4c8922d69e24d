SPECIFICATION Spec
CONSTANTS
  t1 = t1
  t2 = t2
  Torrents <- MCTorrents
  Left <- MCLeft
  Exposure <- MCExposure
  Claim <- MCClaim
  FreeLevels <- MCFree
  EmergencyFloor = 2
  DiskFloor = 4
  RecoverBelow = 4
  RecoveryMargin = 0
  RecoveryMaxLeft = 3
  ActiveSlots = 1
  RecoverySlots = 1
  ResidentSlots = 1
  MaxActiveLike = 2
  MaxExposure = 3
  Concurrency = 1
  MaxTicks = 3
  MaxEvents = 1
INVARIANTS
  TypeOK
  StartsFit
  ProbesBounded
PROPERTIES
  CooldownHonoured
  CallsMatchReservations
CHECK_DEADLOCK FALSE
