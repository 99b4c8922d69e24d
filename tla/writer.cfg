SPECIFICATION FairSpec
CONSTANTS
  main = main
  upload = upload
  Callers <- MCCallers
  MaxCalls = 2
  MaxStops = 1
  MaxThreads = 4
INVARIANTS
  TypeOK
  OneWriter
PROPERTIES
  WritesAreAtomic
  CallsReturn
CHECK_DEADLOCK FALSE
