CONSTANTS
  Nodes = {n1, n2}
  RoutingKeys = {k1, k2}
  ConsumedKeys = {k1}
  Messages = {m1, m2}
  MaxFaults = 1

SPECIFICATION FairSpec

INVARIANTS
  TypeOK
  NullMeansRaced
  QueueIsWatched

PROPERTIES
  ImplementsChannel
  InOrder
  OnMessageReturns

\* All messages have been sent, and no node knows a routing key.
CHECK_DEADLOCK FALSE
