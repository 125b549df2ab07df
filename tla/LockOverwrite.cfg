\* The loser of a takeover overwrites the expiry of the winner with an earlier one,
\* and another client takes the lock over while the winner is within its own lease.
CONSTANTS
  Clients = {c1, c2, c3}
  ExpireMillis = 2
  TimeoutRounds = 1
  AttemptLimit = 1
  HoldLimit = 3
  MaxTime = 9

SPECIFICATION Spec
SYMMETRY AnyOrder

INVARIANTS
  MutualExclusion

\* The clock stops at MaxTime.
CHECK_DEADLOCK FALSE
