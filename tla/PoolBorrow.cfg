\* Three borrowers of a pool the driver limits to two connections, which can be
\* replaced twice.
CONSTANTS
  Borrowers = {b1, b2, b3}
  Admins = {}
  InitialConnections = 1
  IncrementalConnections = 2
  MaxConnections = 3
  DriverMax = 2
  MaxOpened = 4
  NoThread = NoThread

SPECIFICATION FairSpec

INVARIANTS
  TypeOK
  BusyIsInUse
  PoolBounded
  OpenWithinLimit

PROPERTIES
  ImplementsLending
  GetServed
