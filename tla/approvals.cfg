SPECIFICATION FairSpec
CONSTANTS
  boss = boss
  guest = guest
  Users <- MCUsers
  RoleOf <- MCRoleOf
  Commands <- MCCommands
  MaxUpdates = 3
  MaxMessages = 2
  MaxFaults = 1
INVARIANTS
  TypeOK
  RowsAgree
  DecidedByAdmin
PROPERTIES
  KeepsPromise
  CommandArrives
CHECK_DEADLOCK FALSE
