\* A refresh overlaps a return: the flag of a connection in use is cleared.
CONSTANTS
  Borrowers = {b1, b2}
  Admins = {a1}
  InitialConnections = 2
  IncrementalConnections = 1
  MaxConnections = 2
  DriverMax = 0
  MaxOpened = 5
  NoThread = NoThread

SPECIFICATION Spec

INVARIANT
  BusyIsInUse
