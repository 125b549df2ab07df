\* One account with four requests, or two that share them; a payment can end a debt.
CONSTANTS
  Requests = {r1, r2, r3, r4}
  Accounts = {a1, a2}
  InitialMoney = 1
  MaxCost = 2
  MaxTopUps = 2

SPECIFICATION Spec
SYMMETRY AnyOrder

INVARIANT
  OverdraftBounded

\* The requests come to an end.
CHECK_DEADLOCK FALSE
