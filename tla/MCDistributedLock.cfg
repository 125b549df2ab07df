\* One lease of 3 ticks, its expiry under a client that died, a takeover by two
\* contenders and the earlier expiry the loser leaves behind all fit in 8 ticks.
CONSTANTS
  Clients = {c1, c2, c3}
  ExpireMillis = 2
  TimeoutRounds = 1
  AttemptLimit = 1
  HoldLimit = 2
  MaxTime = 8

SPECIFICATION Spec
SYMMETRY AnyOrder

INVARIANTS
  TypeOK
  MutualExclusion
  OverwriteIsSmall
  LeaseCoversOwner
  PromptUnlock

PROPERTY
  ImplementsMutex

\* The clock stops at MaxTime.
CHECK_DEADLOCK FALSE
