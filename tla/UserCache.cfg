CONSTANTS
  Readers = {r1, r2}
  PermissionReaders = {r1}
  TTL = 2
  CallLimit = 1
  MaxPending = 1
  MaxFaults = 1

SPECIFICATION FairSpec

INVARIANTS
  TypeOK
  UserIsRecent
  PermissionsAreRecent
  StaleHasACause

PROPERTIES
  EventuallyFresh
