\* Two borrowers and a thread that refreshes, closes and creates the pool.
CONSTANTS
  Borrowers = {b1, b2}
  Admins = {a1}
  InitialConnections = 2
  IncrementalConnections = 1
  MaxConnections = 2
  DriverMax = 0
  MaxOpened = 4
  NoThread = NoThread

SPECIFICATION Spec
SYMMETRY AnyOrder

INVARIANTS
  NoBusyLeak

PROPERTY
  FreedByBorrower
