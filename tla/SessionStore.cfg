CONSTANTS
  Takers = {t1, t2, t3}
  Setters = {s1}
  Window = 3
  CallLimit = 1
  MaxFaults = 1

SPECIFICATION Spec

INVARIANTS
  TypeOK
  OneTaker
  TakenOnce
  RefusedOnlyIfTaken
