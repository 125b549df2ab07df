CONSTANTS
  MaxSearches = 2
  Slots = {i1, i2}

SPECIFICATION FairSpec

INVARIANTS
  TypeOK
  NotFoundIffNothing
  NextContinuesPage

PROPERTIES
  PageRecovers

\* The user may do nothing more.
CHECK_DEADLOCK FALSE
