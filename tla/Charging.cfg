\* Three requests can share an account or not; two prices and two units of money make
\* every overdraft and every lost charge possible.
CONSTANTS
  Requests = {r1, r2, r3}
  OrgUsers = {org1}
  ExtUsers = {ext1}
  InitialMoney = 2
  MaxCost = 2

SPECIFICATION Spec
SYMMETRY AnyOrder

INVARIANTS
  TypeOK
  NeverOvercharged
  ExactUnlessOverlapping
  OverdraftBounded
  UnpaidMeansDrained
  DeliveredIsRecorded

\* The requests come to an end.
CHECK_DEADLOCK FALSE
