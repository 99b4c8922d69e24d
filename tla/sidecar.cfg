SPECIFICATION FairSpec
CONSTANTS
  u1 = u1
  u2 = u2
  g1 = g1
  NoGroup = NoGroup
  Uploads <- MCUploads
  Groups <- MCGroups
  GroupOf <- MCGroupOf
  Recognized <- MCRecognized
  NArtifacts = 2
  NoUpload = NoUpload
  MaxJobs = 6
  MaxAttempts = 2
  MaxManifests = 3
  AllowPassthrough = TRUE
  FaultSteps = {"read", "scrape", "enqueue"}
  MaxFaults = 1
INVARIANTS
  TypeOK
  NoRefreshLost
  VerifiedIsStored
PROPERTIES
  VerifiedWhenStored
  ContentShown
CHECK_DEADLOCK FALSE
