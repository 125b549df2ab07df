------------------------ MODULE ConnectionPoolProofs ------------------------
(***************************************************************************)
(* Theorems of ConnectionPool for any number of threads, any limits and    *)
(* any number of connections.                                              *)
(***************************************************************************)
EXTENDS ConnectionPool, SequenceTheorems, FiniteSetTheorems, TLAPS

-----------------------------------------------------------------------------
(* The two operations on the vector of wrappers *)

LEMMA ExtendPool ==
  ASSUME NEW s \in Seq(Connections), NEW q \in Seq(Connections)
  PROVE  /\ s \o q \in Seq(Connections)
         /\ Len(s \o q) = Len(s) + Len(q)
         /\ \A i \in 1..Len(s) : (s \o q)[i] = s[i]
         /\ \A i \in Len(s) + 1 .. Len(s) + Len(q) : (s \o q)[i] = q[i - Len(s)]
<1>1. /\ s \o q \in Seq(Connections)
      /\ Len(s \o q) = Len(s) + Len(q)
      /\ \A i \in 1..Len(s) + Len(q) :
           (s \o q)[i] = IF i <= Len(s) THEN s[i] ELSE q[i - Len(s)]
  BY ConcatProperties, Zenon
<1>2. ASSUME NEW i \in 1..Len(s)
      PROVE  (s \o q)[i] = s[i]
  <2>1. i \in 1..Len(s) + Len(q) /\ i <= Len(s)
    OBVIOUS
  <2> QED
    BY <1>1, <2>1
<1>3. ASSUME NEW i \in Len(s) + 1 .. Len(s) + Len(q)
      PROVE  (s \o q)[i] = q[i - Len(s)]
  <2>1. i \in 1..Len(s) + Len(q) /\ ~(i <= Len(s))
    OBVIOUS
  <2> QED
    BY <1>1, <2>1
<1> QED
  BY <1>1, <1>2, <1>3

LEMMA ShrinkPool ==
  ASSUME NEW s \in Seq(Connections), NEW k \in 1..Len(s),
         NEW p, p = RemoveAt(s, k)
  PROVE  /\ p \in Seq(Connections)
         /\ Len(p) = Len(s) - 1
         /\ \A i \in 1..Len(p) : p[i] = IF i < k THEN s[i] ELSE s[i + 1]
<1> DEFINE front == SubSeq(s, 1, k - 1)
           back == SubSeq(s, k + 1, Len(s))
<1>1. front \in Seq(Connections) /\ Len(front) = k - 1
      /\ \A i \in 1..k - 1 : front[i] = s[i]
  OBVIOUS
<1>2. back \in Seq(Connections) /\ Len(back) = Len(s) - k
      /\ \A i \in 1..Len(s) - k : back[i] = s[i + k]
  OBVIOUS
<1>3. p = front \o back
  BY DEF RemoveAt
<1> HIDE DEF front, back
<1>4. /\ front \o back \in Seq(Connections)
      /\ Len(front \o back) = Len(front) + Len(back)
      /\ \A i \in 1..Len(front) + Len(back) :
           (front \o back)[i] = IF i <= Len(front) THEN front[i] ELSE back[i - Len(front)]
  BY <1>1, <1>2, ConcatProperties, Zenon
<1>5. /\ p \in Seq(Connections)
      /\ Len(p) = Len(s) - 1
      /\ \A i \in 1..Len(p) : p[i] = IF i <= k - 1 THEN front[i] ELSE back[i - (k - 1)]
  BY <1>1, <1>2, <1>3, <1>4
<1>6. ASSUME NEW i \in 1..Len(p), i < k
      PROVE  p[i] = s[i]
  <2>1. i \in 1..k - 1 /\ i <= k - 1
    BY <1>5, <1>6
  <2>2. p[i] = front[i]
    BY <1>5, <2>1
  <2> QED
    BY <1>1, <2>1, <2>2
<1>7. ASSUME NEW i \in 1..Len(p), ~(i < k)
      PROVE  p[i] = s[i + 1]
  <2>1. i - (k - 1) \in 1..Len(s) - k /\ i - (k - 1) + k = i + 1 /\ ~(i <= k - 1)
    BY <1>5, <1>7
  <2>2. p[i] = back[i - (k - 1)]
    BY <1>5, <2>1
  <2>3. back[i - (k - 1)] = s[i - (k - 1) + k]
    BY <1>2, <2>1
  <2> QED
    BY <2>1, <2>2, <2>3
<1> QED
  BY <1>5, <1>6, <1>7

LEMMA PoolElements ==
  ASSUME pool \in Seq(Connections)
  PROVE  \A w : w \in Wrappers <=> \E i \in 1..Len(pool) : w = pool[i]
BY DEF Wrappers, Range

LEMMA ConstantTypes ==
  /\ Nothing \notin Connections
  /\ \A n : n \in Connections <=> n \in Int /\ 1 <= n /\ n <= MaxOpened
  /\ MaxOpened \in Nat
  /\ InitialConnections \in Nat
  /\ IncrementalConnections \in Nat
  /\ MaxConnections \in Int
  /\ DriverMax \in Nat
BY PoolAssumption DEF Nothing, Connections

LEMMA OpeningTypes ==
  ASSUME NEW old \in [Connections -> Statuses], NEW first, NEW lost, NEW made
  PROVE  Opening(old, first, lost, made) \in [Connections -> Statuses]
BY DEF Opening, Statuses

\* The part of createConnections that concerns the vector: the connections that are
\* wrapped follow those that were lost.
LEMMA CreateConnectionsEffect ==
  ASSUME TypeOK, NEW n \in Nat, CreateConnections(n)
  PROVE  \E first \in Nat, made \in 0..n :
           /\ opened <= first
           /\ opened' = first + made
           /\ opened' \in 0..MaxOpened
           /\ pool' \in Seq(Connections)
           /\ Len(pool') = Len(pool) + made
           /\ \A i \in 1..Len(pool) : pool'[i] = pool[i]
           /\ \A i \in Len(pool) + 1 .. Len(pool) + made :
                pool'[i] = first + (i - Len(pool))
           /\ status' \in [Connections -> Statuses]
           /\ \A c \in Connections : status'[c] \in {"open", "broken"} =>
                status[c] \in {"open", "broken"} \/ c \in first + 1 .. opened'
           /\ maxConnections' \in Int
           /\ maxConnections' = IF made > 0 /\ pool = <<>> THEN Lowered(maxConnections)
                                                           ELSE maxConnections
           /\ made > 0 => Fits(Len(pool'), maxConnections')
<1>1. PICK lost \in 0..n, made \in 0..n :
        /\ opened + lost + made <= MaxOpened
        /\ made > 0 => Fits(Len(pool) + made,
                            IF made > 0 /\ pool = <<>> THEN Lowered(maxConnections)
                                                       ELSE maxConnections)
        /\ pool' = pool \o [i \in 1..made |-> opened + lost + i]
        /\ opened' = opened + lost + made
        /\ status' = Opening(status, opened, lost, made)
        /\ maxConnections' = IF made > 0 /\ pool = <<>> THEN Lowered(maxConnections)
                                                        ELSE maxConnections
  BY DEF CreateConnections
<1> DEFINE first == opened + lost
<1>2. /\ pool \in Seq(Connections) /\ opened \in Nat /\ made \in Nat /\ lost \in Nat
      /\ maxConnections \in Int /\ status \in [Connections -> Statuses]
  BY ConstantTypes DEF TypeOK, PoolTypes, ThreadTypes
<1>3. /\ first \in Nat /\ opened <= first /\ opened' = first + made
      /\ first + made <= MaxOpened
      /\ pool' = pool \o [i \in 1..made |-> first + i]
  BY <1>1, <1>2
<1>4. status' \in [Connections -> Statuses]
  BY <1>1, <1>2, OpeningTypes
<1>5. \A c \in Connections : status'[c] \in {"open", "broken"} =>
        status[c] \in {"open", "broken"} \/ c \in first + 1 .. opened'
  BY <1>1, <1>2 DEF Opening
<1> HIDE DEF first
<1>6. /\ pool' \in Seq(Connections)
      /\ Len(pool') = Len(pool) + made
      /\ \A i \in 1..Len(pool) : pool'[i] = pool[i]
      /\ \A i \in Len(pool) + 1 .. Len(pool) + made : pool'[i] = first + (i - Len(pool))
  <2> DEFINE q == [i \in 1..made |-> first + i]
  <2>1. q \in Seq(Connections) /\ Len(q) = made /\ \A i \in 1..made : q[i] = first + i
    <3>1. \A i \in 1..made : first + i \in Connections
      BY <1>2, <1>3, ConstantTypes DEF Connections
    <3> QED
      BY <1>2, <1>3, <3>1
  <2>2. pool' = pool \o q
    BY <1>3
  <2> HIDE DEF q
  <2>3. /\ pool' \in Seq(Connections)
        /\ Len(pool') = Len(pool) + Len(q)
        /\ \A i \in 1..Len(pool) : pool'[i] = pool[i]
        /\ \A i \in Len(pool) + 1 .. Len(pool) + Len(q) : pool'[i] = q[i - Len(pool)]
    BY <1>2, <2>1, <2>2, ExtendPool, Zenon
  <2>4. \A i \in Len(pool) + 1 .. Len(pool) + made : i - Len(pool) \in 1..made
    BY <1>2
  <2> QED
    BY <2>1, <2>3, <2>4
<1>7. opened' \in 0..MaxOpened /\ maxConnections' \in Int
  BY <1>1, <1>2, <1>3, ConstantTypes DEF Lowered
<1>8. made > 0 => Fits(Len(pool'), maxConnections')
  BY <1>1, <1>6
<1> QED
  BY <1>1, <1>3, <1>4, <1>5, <1>6, <1>7, <1>8

LEMMA ReplaceTypes ==
  ASSUME TypeOK, NEW w \in Connections, NEW c, Replace(w, c)
  PROVE  /\ c \in Connections
         /\ opened' \in 0..MaxOpened
         /\ status' \in [Connections -> Statuses]
         /\ conn' \in [Connections -> Connections]
<1>1. opened \in 0..MaxOpened /\ opened < MaxOpened /\ c = opened + 1
  BY DEF TypeOK, PoolTypes, ThreadTypes, Replace
<1>2. c \in Connections
  BY <1>1, ConstantTypes
<1>3. opened' \in 0..MaxOpened
  BY <1>1, ConstantTypes DEF Replace
<1>4. LeftBehind(conn[w]) \subseteq Statuses
  BY DEF LeftBehind, Statuses
<1> QED
  BY <1>2, <1>3, <1>4 DEF TypeOK, PoolTypes, ThreadTypes, Replace, Statuses

-----------------------------------------------------------------------------
(* Type correctness *)

\* What the constructor leaves.
LEMMA InitEffect ==
  ASSUME Init
  PROVE  \E first \in Nat, made \in 0..InitialConnections :
           /\ opened = first + made
           /\ opened \in 0..MaxOpened
           /\ pool \in Seq(Connections)
           /\ Len(pool) = made
           /\ \A i \in 1..made : pool[i] = first + i /\ conn[first + i] = first + i
           /\ status \in [Connections -> Statuses]
           /\ \A c \in Connections :
                status[c] \in {"open", "broken"} => c \in first + 1 .. opened
           /\ maxConnections \in Int
           /\ made > 0 => Fits(made, maxConnections)
<1>1. PICK lost \in 0..InitialConnections, made \in 0..InitialConnections :
        /\ lost + made <= MaxOpened
        /\ maxConnections = IF made > 0 THEN Lowered(MaxConnections) ELSE MaxConnections
        /\ made > 0 => Fits(made, maxConnections)
        /\ pool = [i \in 1..made |-> lost + i]
        /\ opened = lost + made
        /\ status = Opening([c \in Connections |-> "unused"], 0, lost, made)
  BY DEF Init
<1>2. /\ made \in Nat /\ lost \in Nat
      /\ \A i \in 1..made : lost + i \in Connections
  <2>1. lost + made <= MaxOpened /\ made \in Nat /\ lost \in Nat
    BY <1>1, ConstantTypes
  <2> QED
    BY <2>1, ConstantTypes DEF Connections
<1>3. /\ pool \in Seq(Connections) /\ Len(pool) = made
      /\ \A i \in 1..made : pool[i] = lost + i
  BY <1>1, <1>2
<1>4. \A i \in 1..made : conn[lost + i] = lost + i
  BY <1>2 DEF Init
<1>5. opened \in 0..MaxOpened /\ maxConnections \in Int
  BY <1>1, <1>2, ConstantTypes DEF Lowered
<1>6. status \in [Connections -> Statuses]
  <2>1. [c \in Connections |-> "unused"] \in [Connections -> Statuses]
    BY DEF Statuses
  <2> QED
    BY <1>1, <2>1, OpeningTypes
<1>7. \A c \in Connections : status[c] \in {"open", "broken"} => c \in lost + 1 .. opened
  BY <1>1, <1>2 DEF Opening
<1> QED
  BY <1>1, <1>2, <1>3, <1>4, <1>5, <1>6, <1>7

LEMMA TypeInit == Init => TypeOK
<1> SUFFICES ASSUME Init PROVE TypeOK
  OBVIOUS
<1>1. /\ pool \in Seq(Connections) /\ opened \in 0..MaxOpened /\ maxConnections \in Int
      /\ status \in [Connections -> Statuses]
  BY InitEffect
<1> QED
  BY <1>1, PoolAssumption DEF TypeOK, PoolTypes, ThreadTypes, Init, Nothing

LEMMA TypeStep == TypeOK /\ [Next]_vars => TypeOK'
<1> SUFFICES ASSUME TypeOK, [Next]_vars PROVE PoolTypes' /\ ThreadTypes'
  BY DEF TypeOK
<1> USE PoolAssumption
<1> USE DEF TypeOK, ThreadTypes, Threads, Goto
<1>0. UNCHANGED poolVars => PoolTypes'
  BY DEF PoolTypes, poolVars
<1>1. ASSUME NEW c \in Connections, Break(c) PROVE PoolTypes' /\ ThreadTypes'
  BY <1>1 DEF Break, PoolTypes, Statuses
<1>2. ASSUME NEW t \in Borrowers, GetConnection(t) PROVE PoolTypes' /\ ThreadTypes'
  BY <1>0, <1>2 DEF GetConnection, Enter
<1>3. ASSUME NEW t \in Borrowers, Find(t) PROVE PoolTypes' /\ ThreadTypes'
  <2>1. PICK i \in 1..Len(pool) :
          /\ busy' = [busy EXCEPT ![pool[i]] = TRUE]
          /\ TestAndHand(t, pool[i])
    BY <1>3 DEF Find, FirstIdle, Idle, SetBusy
  <2>2. pool[i] \in Connections /\ conn[pool[i]] \in Connections
    BY DEF PoolTypes
  <2>3. /\ opened' \in 0..MaxOpened
        /\ status' \in [Connections -> Statuses]
        /\ conn' \in [Connections -> Connections]
        /\ \E c \in Connections : held' = [held EXCEPT ![t] = c]
    <3>1. CASE Replace(pool[i], opened + 1) /\ held' = [held EXCEPT ![t] = opened + 1]
      BY <2>2, <3>1, ReplaceTypes
    <3>2. CASE /\ ReplaceRefused(pool[i]) \/ UNCHANGED <<status, opened, conn>>
               /\ held' = [held EXCEPT ![t] = conn[pool[i]]]
      BY <2>2, <3>2 DEF ReplaceRefused, PoolTypes, Statuses
    <3> QED
      BY <2>1, <3>1, <3>2 DEF TestAndHand
  <2>4. PoolTypes'
    BY <1>3, <2>1, <2>3 DEF PoolTypes, Find
  <2>5. PICK c \in Connections : held' = [held EXCEPT ![t] = c]
    BY <2>3
  <2>6. ThreadTypes'
    BY <1>3, <2>5, ConstantTypes DEF Find
  <2> QED
    BY <2>4, <2>6
<1>4. ASSUME NEW t \in Borrowers, FindNothing(t) PROVE PoolTypes' /\ ThreadTypes'
  BY <1>0, <1>4 DEF FindNothing
<1>5. ASSUME NEW t \in Borrowers, Grow(t) PROVE PoolTypes' /\ ThreadTypes'
  <2>1. /\ opened' \in 0..MaxOpened
        /\ pool' \in Seq(Connections)
        /\ status' \in [Connections -> Statuses]
        /\ maxConnections' \in Int
    BY <1>5, CreateConnectionsEffect DEF Grow
  <2> QED
    BY <1>5, <2>1 DEF PoolTypes, Grow
<1>6. ASSUME NEW t \in Borrowers, ReturnConnection(t) PROVE PoolTypes' /\ ThreadTypes'
  BY <1>0, <1>6 DEF ReturnConnection, Done
<1>7. ASSUME NEW t \in Borrowers, ReturnFind(t) PROVE PoolTypes' /\ ThreadTypes'
  <2>1. PICK w \in Wrappers : hit' = [hit EXCEPT ![t] = w]
    BY <1>7 DEF ReturnFind, Matching
  <2>2. w \in Connections
    BY <2>1, PoolElements DEF PoolTypes
  <2> QED
    BY <1>0, <1>7, <2>1, <2>2, ConstantTypes DEF ReturnFind
<1>8. ASSUME NEW t \in Borrowers, ReturnMiss(t) PROVE PoolTypes' /\ ThreadTypes'
  BY <1>0, <1>8 DEF ReturnMiss, Done
<1>9. ASSUME NEW t \in Borrowers, ReturnFree(t) PROVE PoolTypes' /\ ThreadTypes'
  BY <1>9 DEF ReturnFree, Done, PoolTypes
<1>10. ASSUME NEW a \in Admins, RefreshConnections(a) PROVE PoolTypes' /\ ThreadTypes'
  BY <1>0, <1>10 DEF RefreshConnections, Enter
<1>11. ASSUME NEW a \in Admins, RefreshNext(a) PROVE PoolTypes' /\ ThreadTypes'
  <2>1. at \in 1..Len(pool)
    BY <1>11 DEF RefreshNext, PoolTypes
  <2>2. pool[at] \in Connections /\ conn[pool[at]] \in Connections
    BY <2>1 DEF PoolTypes
  <2>3. CASE /\ Replace(pool[at], opened + 1)
             /\ Freed(pool[at])
             /\ at' = at + 1
             /\ UNCHANGED <<monitor, stage>>
    <3>1. /\ opened' \in 0..MaxOpened
          /\ status' \in [Connections -> Statuses]
          /\ conn' \in [Connections -> Connections]
      BY <2>2, <2>3, ReplaceTypes
    <3>2. PoolTypes'
      BY <1>11, <2>3, <3>1 DEF RefreshNext, Freed, PoolTypes
    <3>3. ThreadTypes'
      BY <1>11, <2>3 DEF RefreshNext
    <3> QED
      BY <3>2, <3>3
  <2>4. CASE /\ ReplaceRefused(pool[at])
             /\ Leave(a)
             /\ UNCHANGED <<busy, at>>
    <3>1. PoolTypes'
      BY <1>11, <2>2, <2>4 DEF RefreshNext, ReplaceRefused, PoolTypes, Statuses
    <3>2. ThreadTypes'
      BY <1>11, <2>4 DEF RefreshNext, Leave
    <3> QED
      BY <3>1, <3>2
  <2> QED
    BY <1>11, <2>3, <2>4 DEF RefreshNext
<1>12. ASSUME NEW a \in Admins, RefreshEnd(a) PROVE PoolTypes' /\ ThreadTypes'
  BY <1>0, <1>12 DEF RefreshEnd, Leave
<1>13. ASSUME NEW a \in Admins, CloseConnectionPool(a) PROVE PoolTypes' /\ ThreadTypes'
  BY <1>0, <1>13 DEF CloseConnectionPool, Enter
<1>14. ASSUME NEW a \in Admins, CloseNext(a) PROVE PoolTypes' /\ ThreadTypes'
  <2>1. pool' \in Seq(Connections)
    BY <1>14, ShrinkPool DEF CloseNext, PoolTypes, Statuses
  <2>2. at' \in Nat \ {0}
    BY <1>14 DEF CloseNext
  <2>3. ThreadTypes'
    BY <1>14, <2>2 DEF CloseNext
  <2>4. LeftBehind(conn[pool[at]]) \subseteq Statuses
    BY DEF LeftBehind, Statuses
  <2>5. PoolTypes'
    BY <1>14, <2>1, <2>4 DEF CloseNext, PoolTypes
  <2> QED
    BY <2>3, <2>5
<1>15. ASSUME NEW a \in Admins, CloseEnd(a) PROVE PoolTypes' /\ ThreadTypes'
  <2>1. PoolTypes'
    <3>1. pool' \in Seq(Connections)
      BY <1>15, EmptySeq, Zenon DEF CloseEnd
    <3> QED
      BY <1>15, <3>1 DEF CloseEnd, PoolTypes
  <2>2. ThreadTypes'
    BY <1>15 DEF CloseEnd, Leave
  <2> QED
    BY <2>1, <2>2
<1>16. ASSUME NEW a \in Admins, CreatePool(a) PROVE PoolTypes' /\ ThreadTypes'
  <2>1. /\ opened' \in 0..MaxOpened
        /\ pool' \in Seq(Connections)
        /\ status' \in [Connections -> Statuses]
        /\ maxConnections' \in Int
    BY <1>16, CreateConnectionsEffect DEF CreatePool
  <2> QED
    BY <1>16, <2>1 DEF PoolTypes, CreatePool
<1>17. CASE UNCHANGED vars
  BY <1>0, <1>17 DEF vars, poolVars
<1> QED
  BY <1>1, <1>2, <1>3, <1>4, <1>5, <1>6, <1>7, <1>8, <1>9, <1>10, <1>11, <1>12,
     <1>13, <1>14, <1>15, <1>16, <1>17 DEF Next, Serving, Administering

\* Every variable of ConnectionPool stays in its type, and the monitor, the held
\* connection and the found wrapper agree with the stage of each thread.
THEOREM TypeCorrect == Spec => []TypeOK
<1>1. Init => TypeOK
  BY TypeInit
<1>2. TypeOK /\ [Next]_vars => TypeOK'
  BY TypeStep
<1> QED
  BY <1>1, <1>2, PTL DEF Spec

-----------------------------------------------------------------------------
(* The invariant that holds with any administrators *)

\* A connection with a number above opened has never been seen by the pool.
Fresh ==
  /\ \A i \in 1..Len(pool) : pool[i] <= opened /\ conn[pool[i]] <= opened
  /\ \A w \in Connections : w > opened => conn[w] = w /\ ~busy[w]
  /\ \A t \in Threads : held[t] <= opened

DistinctWrappers == \A i, j \in 1..Len(pool) : i # j => pool[i] # pool[j]

NoPoolNoWrappers == ~exists => pool = <<>>

\* closeConnectionPool cannot end while another thread is in a synchronized method.
MonitorNeedsPool == monitor # NoThread => exists

\* The wrapper a borrower has found may have been refreshed since, but no other
\* carries its connection.
FoundOnlyMatch ==
  \A t \in Threads : hit[t] # Nothing =>
    \A i \in 1..Len(pool) : conn[pool[i]] = held[t] => pool[i] = hit[t]

\* NoBusyLeak, by position.
BusyIsLent ==
  (\A a \in Admins : stage[a] # "close") =>
    \A i \in 1..Len(pool) : busy[pool[i]] => \E t \in Borrowers : held[t] = conn[pool[i]]

PoolInv ==
  /\ Fresh
  /\ DistinctWrappers
  /\ DistinctConnections
  /\ PoolBounded
  /\ NoPoolNoWrappers
  /\ MonitorNeedsPool
  /\ FoundOnlyMatch
  /\ BusyIsLent

HeldDistinct ==
  \A t, u \in Threads : t # u /\ held[t] # Nothing => held[t] # held[u]

HeldIsBusy ==
  \A t \in Threads, i \in 1..Len(pool) :
    held[t] # Nothing /\ conn[pool[i]] = held[t] => busy[pool[i]]

\* What the busy flag is for.
LendInv == HeldDistinct /\ HeldIsBusy

LEMMA PoolInit == Init => PoolInv /\ LendInv
<1> SUFFICES ASSUME Init PROVE PoolInv /\ LendInv
  OBVIOUS
<1>1. PICK first \in Nat, made \in 0..InitialConnections :
        /\ opened = first + made
        /\ Len(pool) = made
        /\ \A i \in 1..made : pool[i] = first + i /\ conn[first + i] = first + i
        /\ made > 0 => Fits(made, maxConnections)
        /\ maxConnections \in Int
  BY InitEffect
<1>2. made \in Nat
  BY <1>1, ConstantTypes
<1>3. \A i \in 1..Len(pool) : pool[i] = first + i /\ conn[pool[i]] = first + i
  BY <1>1
<1>4. /\ conn = [w \in Connections |-> w]
      /\ busy = [w \in Connections |-> FALSE]
      /\ held = [t \in Threads |-> Nothing]
      /\ hit = [t \in Threads |-> Nothing]
      /\ monitor = NoThread
      /\ exists
  BY DEF Init
<1>5. Fresh
  <2>1. \A i \in 1..Len(pool) : pool[i] <= opened /\ conn[pool[i]] <= opened
    BY <1>1, <1>2, <1>3
  <2>2. \A w \in Connections : conn[w] = w /\ ~busy[w]
    BY <1>4
  <2>3. \A t \in Threads : held[t] <= opened
    BY <1>1, <1>2, <1>4 DEF Nothing
  <2> QED
    BY <2>1, <2>2, <2>3 DEF Fresh
<1>6. DistinctWrappers /\ DistinctConnections
  BY <1>1, <1>2, <1>3 DEF DistinctWrappers, DistinctConnections
<1>7. PoolBounded
  BY <1>1, <1>2 DEF PoolBounded, Fits
<1>8. NoPoolNoWrappers /\ MonitorNeedsPool /\ FoundOnlyMatch
  BY <1>4 DEF NoPoolNoWrappers, MonitorNeedsPool, FoundOnlyMatch
<1>9. BusyIsLent
  BY <1>4, TypeInit DEF BusyIsLent, TypeOK, PoolTypes
<1>10. LendInv
  BY <1>4 DEF LendInv, HeldDistinct, HeldIsBusy
<1> QED
  BY <1>5, <1>6, <1>7, <1>8, <1>9, <1>10 DEF PoolInv

\* What a replaced connection does to the pool.
LEMMA ReplaceEffect ==
  ASSUME TypeOK, Fresh, DistinctWrappers, NEW k \in 1..Len(pool),
         Replace(pool[k], opened + 1)
  PROVE  /\ opened' = opened + 1
         /\ pool[k] <= opened
         /\ conn'[pool[k]] = opened + 1
         /\ \A w \in Connections : w # pool[k] => conn'[w] = conn[w]
         /\ \A i \in 1..Len(pool) : i # k => conn'[pool[i]] = conn[pool[i]]
<1>1. pool[k] \in Connections /\ pool[k] <= opened
  BY DEF TypeOK, PoolTypes, Fresh
<1>2. \A i \in 1..Len(pool) : pool[i] \in Connections /\ (i # k => pool[i] # pool[k])
  BY DEF TypeOK, PoolTypes, DistinctWrappers
<1> QED
  BY <1>1, <1>2 DEF Replace, TypeOK, PoolTypes

LEMMA ReplaceKeepsDistinct ==
  ASSUME TypeOK, Fresh, DistinctWrappers, DistinctConnections,
         NEW k \in 1..Len(pool), Replace(pool[k], opened + 1), pool' = pool
  PROVE  /\ \A i \in 1..Len(pool') : pool'[i] <= opened' /\ conn'[pool'[i]] <= opened'
         /\ DistinctConnections'
<1>1. opened \in Nat /\ \A i \in 1..Len(pool) :
        /\ pool[i] \in Connections /\ pool[i] \in Int /\ conn[pool[i]] \in Int
        /\ pool[i] <= opened /\ conn[pool[i]] <= opened
  BY ConstantTypes DEF TypeOK, PoolTypes, Fresh
<1>2. \A i \in 1..Len(pool') : pool'[i] <= opened' /\ conn'[pool'[i]] <= opened'
  BY <1>1, ReplaceEffect
<1>3. \A i \in 1..Len(pool) : i # k => conn'[pool[i]] # conn'[pool[k]]
  BY <1>1, ReplaceEffect
<1>4. DistinctConnections'
  BY <1>1, <1>3, ReplaceEffect DEF DistinctConnections
<1> QED
  BY <1>2, <1>4

\* What createConnections does to the invariant, whoever calls it.
LEMMA CreateKeepsPoolInv ==
  ASSUME TypeOK, PoolInv, NEW n \in Nat, CreateConnections(n),
         UNCHANGED <<conn, busy, held, hit>>,
         \A a \in Admins : stage'[a] = "close" <=> stage[a] = "close",
         exists'
  PROVE  PoolInv'
<1>1. PICK first \in Nat, made \in 0..n :
        /\ opened <= first
        /\ opened' = first + made
        /\ opened' \in 0..MaxOpened
        /\ pool' \in Seq(Connections)
        /\ Len(pool') = Len(pool) + made
        /\ \A i \in 1..Len(pool) : pool'[i] = pool[i]
        /\ \A i \in Len(pool) + 1 .. Len(pool) + made :
             pool'[i] = first + (i - Len(pool))
        /\ maxConnections' = IF made > 0 /\ pool = <<>> THEN Lowered(maxConnections)
                                                        ELSE maxConnections
        /\ made > 0 => Fits(Len(pool'), maxConnections')
  BY CreateConnectionsEffect DEF TypeOK
<1>2. /\ opened \in Nat /\ made \in Nat /\ Len(pool) \in Nat
      /\ maxConnections \in Int /\ pool \in Seq(Connections)
  BY <1>1 DEF TypeOK, PoolTypes
<1>3. ASSUME NEW i \in 1..Len(pool'), i <= Len(pool)
      PROVE  /\ i \in 1..Len(pool)
             /\ pool'[i] = pool[i]
             /\ pool'[i] \in Connections
             /\ pool'[i] <= opened
             /\ conn[pool'[i]] <= opened
  <2>1. i \in 1..Len(pool)
    BY <1>1, <1>2, <1>3
  <2> QED
    BY <1>1, <1>2, <2>1 DEF PoolInv, Fresh
<1>4. ASSUME NEW i \in 1..Len(pool'), ~(i <= Len(pool))
      PROVE  /\ pool'[i] = first + (i - Len(pool))
             /\ pool'[i] \in Connections
             /\ pool'[i] > opened
             /\ pool'[i] <= opened'
             /\ conn[pool'[i]] = pool'[i]
             /\ ~busy[pool'[i]]
  <2>1. i \in Len(pool) + 1 .. Len(pool) + made
    BY <1>1, <1>2, <1>4
  <2>2. pool'[i] = first + (i - Len(pool))
    BY <1>1, <2>1
  <2>3. pool'[i] > opened /\ pool'[i] <= opened'
    BY <1>1, <1>2, <2>1, <2>2
  <2>4. pool'[i] \in Connections
    BY <1>1, <2>1
  <2> QED
    BY <2>2, <2>3, <2>4 DEF PoolInv, Fresh
<1>5. \A c \in Connections : c \in Int /\ conn[c] \in Int
  BY ConstantTypes DEF TypeOK, PoolTypes
<1>6. Fresh'
  <2>1. ASSUME NEW i \in 1..Len(pool')
        PROVE  pool'[i] <= opened' /\ conn'[pool'[i]] <= opened'
    <3> DEFINE w == pool'[i]
    <3>1. w \in Connections /\ w <= opened' /\ conn[w] <= opened'
      <4>1. CASE i <= Len(pool)
        <5>1. w \in Connections /\ w <= opened /\ conn[w] <= opened
          BY <1>3, <4>1
        <5>2. w \in Int /\ conn[w] \in Int
          BY <1>5, <5>1
        <5>3. opened' = first + made /\ opened <= first
          BY <1>1
        <5> HIDE DEF w
        <5> QED
          BY <1>2, <5>1, <5>2, <5>3
      <4>2. CASE ~(i <= Len(pool))
        BY <1>4, <4>2
      <4> QED
        BY <4>1, <4>2
    <3> QED
      BY <3>1
  <2>2. ASSUME NEW w \in Connections, w > opened' PROVE conn'[w] = w /\ ~busy'[w]
    <3>1. w > opened
      BY <1>1, <1>2, <1>5, <2>2
    <3> QED
      BY <3>1 DEF PoolInv, Fresh
  <2>3. ASSUME NEW t \in Threads PROVE held'[t] <= opened'
    <3>1. held[t] \in Int /\ held[t] <= opened
      BY ConstantTypes DEF PoolInv, Fresh, TypeOK, ThreadTypes, Nothing
    <3>2. held'[t] = held[t] /\ opened' = first + made /\ opened <= first
      BY <1>1
    <3> QED
      BY <1>2, <3>1, <3>2
  <2> QED
    BY <2>1, <2>2, <2>3 DEF Fresh
<1>7. DistinctWrappers' /\ DistinctConnections'
  <2> SUFFICES ASSUME NEW i \in 1..Len(pool'), NEW j \in 1..Len(pool'), i # j
               PROVE  pool'[i] # pool'[j] /\ conn[pool'[i]] # conn[pool'[j]]
    BY DEF DistinctWrappers, DistinctConnections
  <2>1. CASE i <= Len(pool) /\ j <= Len(pool)
    BY <1>3, <2>1 DEF PoolInv, DistinctWrappers, DistinctConnections
  <2>2. CASE i <= Len(pool) /\ ~(j <= Len(pool))
    <3>1. pool'[i] \in Connections /\ pool'[i] <= opened /\ conn[pool'[i]] <= opened
      BY <1>3, <2>2
    <3>2. pool'[j] \in Connections /\ pool'[j] > opened /\ conn[pool'[j]] = pool'[j]
      BY <1>4, <2>2
    <3> QED
      BY <1>2, <1>5, <3>1, <3>2
  <2>3. CASE ~(i <= Len(pool)) /\ j <= Len(pool)
    <3>1. pool'[j] \in Connections /\ pool'[j] <= opened /\ conn[pool'[j]] <= opened
      BY <1>3, <2>3
    <3>2. pool'[i] \in Connections /\ pool'[i] > opened /\ conn[pool'[i]] = pool'[i]
      BY <1>4, <2>3
    <3> QED
      BY <1>2, <1>5, <3>1, <3>2
  <2>4. CASE ~(i <= Len(pool)) /\ ~(j <= Len(pool))
    BY <1>2, <1>4, <2>4
  <2> QED
    BY <2>1, <2>2, <2>3, <2>4
<1>8. PoolBounded'
  <2>1. CASE made = 0
    BY <1>1, <1>2, <2>1 DEF PoolInv, PoolBounded
  <2>2. CASE made > 0
    BY <1>1, <2>2 DEF PoolBounded, Fits
  <2> QED
    BY <1>2, <2>1, <2>2
<1>9. NoPoolNoWrappers' /\ MonitorNeedsPool'
  BY DEF NoPoolNoWrappers, MonitorNeedsPool
<1>10. FoundOnlyMatch'
  <2> SUFFICES ASSUME NEW t \in Threads, hit[t] # Nothing,
                      NEW i \in 1..Len(pool'), conn[pool'[i]] = held[t]
               PROVE  pool'[i] = hit[t]
    BY DEF FoundOnlyMatch
  <2>1. CASE i <= Len(pool)
    BY <1>3, <2>1 DEF PoolInv, FoundOnlyMatch
  <2>2. CASE ~(i <= Len(pool))
    <3>1. held[t] <= opened
      BY DEF PoolInv, Fresh
    <3> QED
      BY <1>2, <1>4, <1>5, <2>2, <3>1
  <2> QED
    BY <2>1, <2>2
<1>11. BusyIsLent'
  <2> SUFFICES ASSUME \A a \in Admins : stage[a] # "close",
                      NEW i \in 1..Len(pool'), busy[pool'[i]]
               PROVE  \E t \in Borrowers : held[t] = conn[pool'[i]]
    BY DEF BusyIsLent
  <2> QED
    BY <1>3, <1>4 DEF PoolInv, BusyIsLent
<1> QED
  BY <1>6, <1>7, <1>8, <1>9, <1>10, <1>11 DEF PoolInv

\* Steps that neither touch the wrappers nor hand over a connection.
LEMMA SamePool ==
  ASSUME PoolInv, UNCHANGED <<exists, pool, conn, busy, maxConnections, opened, held, hit>>,
         \A a \in Admins : stage[a] = "close" => stage'[a] = "close",
         monitor' # NoThread => exists
  PROVE  PoolInv'
<1>1. Fresh' /\ DistinctWrappers' /\ DistinctConnections' /\ PoolBounded'
  BY DEF PoolInv, Fresh, DistinctWrappers, DistinctConnections, PoolBounded
<1>2. NoPoolNoWrappers' /\ MonitorNeedsPool' /\ FoundOnlyMatch' /\ BusyIsLent'
  BY DEF PoolInv, NoPoolNoWrappers, MonitorNeedsPool, FoundOnlyMatch, BusyIsLent
<1> QED
  BY <1>1, <1>2 DEF PoolInv

\* A borrower leaves: its wrapper, if the pool still has one, is the one it frees.
LEMMA BorrowerLeaves ==
  ASSUME TypeOK, PoolInv, NEW t \in Borrowers, Done(t),
         UNCHANGED <<exists, pool, conn, maxConnections, opened, monitor>>,
         busy' = busy \/ \E w \in Connections : busy' = [busy EXCEPT ![w] = FALSE],
         (\A a \in Admins : stage[a] # "close") =>
           \A i \in 1..Len(pool) : conn[pool[i]] = held[t] => ~busy'[pool[i]]
  PROVE  PoolInv'
<1>1. /\ \A w \in Connections : busy'[w] => busy[w]
      /\ \A u \in Threads : u # t => held'[u] = held[u] /\ hit'[u] = hit[u]
      /\ held'[t] = Nothing /\ hit'[t] = Nothing
      /\ \A i \in 1..Len(pool) : pool[i] \in Connections
  BY DEF Done, TypeOK, PoolTypes, ThreadTypes, Threads
<1>2. Fresh'
  BY <1>1 DEF PoolInv, Fresh, TypeOK, PoolTypes, Nothing
<1>3. DistinctWrappers' /\ DistinctConnections' /\ PoolBounded'
  BY DEF PoolInv, DistinctWrappers, DistinctConnections, PoolBounded
<1>4. NoPoolNoWrappers' /\ MonitorNeedsPool'
  BY DEF PoolInv, NoPoolNoWrappers, MonitorNeedsPool
<1>5. FoundOnlyMatch'
  BY <1>1 DEF PoolInv, FoundOnlyMatch
<1>6. BusyIsLent'
  <2> SUFFICES ASSUME \A a \in Admins : stage'[a] # "close",
                      NEW i \in 1..Len(pool), busy'[pool[i]]
               PROVE  \E u \in Borrowers : held'[u] = conn[pool[i]]
    BY DEF BusyIsLent
  <2>0. \A a \in Admins : stage[a] # "close"
    BY PoolAssumption DEF Done, Goto, TypeOK, ThreadTypes, Threads
  <2>1. PICK u \in Borrowers : held[u] = conn[pool[i]]
    BY <1>1, <2>0 DEF PoolInv, BusyIsLent
  <2>2. u # t
    BY <2>0, <2>1
  <2> QED
    BY <1>1, <2>1, <2>2 DEF Threads
<1> QED
  BY <1>2, <1>3, <1>4, <1>5, <1>6 DEF PoolInv

\* A search that succeeds: an idle wrapper is marked, and the borrower gets the
\* connection the wrapper carries now, the old one or a fresh one.
LEMMA FindEffect ==
  ASSUME TypeOK, PoolInv, NEW t \in Borrowers, Find(t)
  PROVE  \E k \in 1..Len(pool), c \in Connections :
           /\ ~busy[pool[k]]
           /\ busy' = [busy EXCEPT ![pool[k]] = TRUE]
           /\ held' = [held EXCEPT ![t] = c]
           /\ c = conn'[pool[k]]
           /\ c = conn[pool[k]] \/ c = opened + 1
           /\ c <= opened'
           /\ opened' \in {opened, opened + 1}
           /\ \A w \in Connections : w # pool[k] => conn'[w] = conn[w]
           /\ UNCHANGED <<opened, conn>> \/ Replace(pool[k], opened + 1)
<1>1. PICK k \in 1..Len(pool) :
        /\ ~busy[pool[k]]
        /\ busy' = [busy EXCEPT ![pool[k]] = TRUE]
        /\ TestAndHand(t, pool[k])
  BY DEF Find, FirstIdle, Idle, SetBusy
<1>2. /\ opened \in Nat
      /\ pool[k] \in Connections /\ conn[pool[k]] \in Connections /\ conn[pool[k]] <= opened
  BY ConstantTypes DEF TypeOK, PoolTypes, PoolInv, Fresh
<1>3. CASE Replace(pool[k], opened + 1) /\ held' = [held EXCEPT ![t] = opened + 1]
  <2>1. /\ opened' = opened + 1 /\ conn'[pool[k]] = opened + 1
        /\ \A w \in Connections : w # pool[k] => conn'[w] = conn[w]
    BY <1>3, ReplaceEffect DEF PoolInv
  <2>2. opened + 1 \in Connections
    BY <1>2, <1>3, ReplaceTypes
  <2>3. opened + 1 <= opened' /\ opened' \in {opened, opened + 1}
    BY <1>2, <2>1
  <2> QED
    BY <1>1, <1>3, <2>1, <2>2, <2>3
<1>4. CASE UNCHANGED <<opened, conn>> /\ held' = [held EXCEPT ![t] = conn[pool[k]]]
  BY <1>1, <1>2, <1>4
<1> QED
  BY <1>1, <1>3, <1>4 DEF TestAndHand, ReplaceRefused

LEMMA PoolInvStep == TypeOK /\ PoolInv /\ [Next]_vars => PoolInv'
<1> SUFFICES ASSUME TypeOK, PoolInv, [Next]_vars PROVE PoolInv'
  OBVIOUS
<1> USE PoolAssumption
<1>1. ASSUME NEW c \in Connections, Break(c) PROVE PoolInv'
  BY <1>1, SamePool DEF Break, PoolInv, MonitorNeedsPool
<1>2. ASSUME NEW t \in Borrowers, GetConnection(t) PROVE PoolInv'
  BY <1>2, SamePool DEF GetConnection, Enter, Goto, poolVars, TypeOK, ThreadTypes, Threads
<1>3. ASSUME NEW t \in Borrowers, Find(t) PROVE PoolInv'
  <2>1. PICK k \in 1..Len(pool), c \in Connections :
          /\ ~busy[pool[k]]
          /\ busy' = [busy EXCEPT ![pool[k]] = TRUE]
          /\ held' = [held EXCEPT ![t] = c]
          /\ c = conn'[pool[k]]
          /\ c = conn[pool[k]] \/ c = opened + 1
          /\ c <= opened'
          /\ opened' \in {opened, opened + 1}
          /\ \A w \in Connections : w # pool[k] => conn'[w] = conn[w]
          /\ UNCHANGED <<opened, conn>> \/ Replace(pool[k], opened + 1)
    BY <1>3, FindEffect
  <2>2. /\ opened \in Nat
        /\ \A w \in Connections : w \in Int /\ w # Nothing
        /\ \A i \in 1..Len(pool) :
             /\ pool[i] \in Connections /\ conn[pool[i]] \in Connections
             /\ pool[i] <= opened /\ conn[pool[i]] <= opened
             /\ i # k => pool[i] # pool[k]
        /\ \A u \in Threads : held[u] \in Int /\ held[u] <= opened
    <3>1. opened \in Nat
      BY DEF TypeOK, PoolTypes
    <3>2. \A w \in Connections : w \in Int /\ w # Nothing
      BY ConstantTypes DEF Nothing
    <3>3. ASSUME NEW i \in 1..Len(pool)
          PROVE  /\ pool[i] \in Connections /\ conn[pool[i]] \in Connections
                 /\ pool[i] <= opened /\ conn[pool[i]] <= opened
                 /\ i # k => pool[i] # pool[k]
      BY DEF TypeOK, PoolTypes, PoolInv, Fresh, DistinctWrappers
    <3>4. \A u \in Threads : held[u] \in Int /\ held[u] <= opened
      BY ConstantTypes DEF TypeOK, ThreadTypes, PoolInv, Fresh, Nothing
    <3> QED
      BY <3>1, <3>2, <3>3, <3>4
  <2>3. /\ t \in Threads
        /\ held[t] = Nothing /\ hit[t] = Nothing
        /\ UNCHANGED <<exists, pool, maxConnections, hit>>
        /\ \A a \in Admins : stage'[a] = stage[a]
        /\ monitor' = NoThread
    BY <1>3 DEF Find, Goto, TypeOK, ThreadTypes, Threads
  <2>4. /\ c = conn'[pool[k]] /\ c <= opened' /\ held' = [held EXCEPT ![t] = c]
        /\ \A u \in Threads : c = held[u] => c = conn[pool[k]]
        /\ UNCHANGED <<opened, conn>> \/ Replace(pool[k], opened + 1)
    BY <2>1, <2>2
  <2>5. /\ c = conn'[pool[k]]
        /\ opened' \in {opened, opened + 1}
        /\ c <= opened'
        /\ \A w \in Connections : w # pool[k] => conn'[w] = conn[w]
        /\ \A u \in Threads : c = held[u] => c = conn[pool[k]]
    BY <2>1, <2>4
  <2>6. Fresh'
    <3>1. \A i \in 1..Len(pool) : pool[i] <= opened' /\ conn'[pool[i]] <= opened'
      BY <2>2, <2>5
    <3>2. ASSUME NEW w \in Connections, w > opened' PROVE conn'[w] = w /\ ~busy'[w]
      <4>1. w > opened /\ w # pool[k]
        BY <2>2, <2>5, <3>2
      <4>2. conn[w] = w /\ ~busy[w]
        BY <4>1 DEF PoolInv, Fresh
      <4>3. conn'[w] = conn[w]
        BY <2>5, <4>1
      <4>4. busy'[w] = busy[w]
        BY <2>1, <4>1 DEF TypeOK, PoolTypes
      <4> QED
        BY <4>2, <4>3, <4>4
    <3>3. \A u \in Threads : held'[u] <= opened'
      BY <2>2, <2>3, <2>4, <2>5 DEF TypeOK, ThreadTypes
    <3> QED
      BY <2>3, <3>1, <3>2, <3>3 DEF Fresh
  <2>7. DistinctConnections'
    <3>1. CASE UNCHANGED <<opened, conn>>
      BY <2>3, <3>1 DEF PoolInv, DistinctConnections
    <3>2. CASE Replace(pool[k], opened + 1)
      BY <2>3, <3>2, ReplaceKeepsDistinct DEF PoolInv
    <3> QED
      BY <2>4, <3>1, <3>2
  <2>8. DistinctWrappers' /\ PoolBounded' /\ NoPoolNoWrappers' /\ MonitorNeedsPool'
    BY <2>3 DEF PoolInv, DistinctWrappers, PoolBounded, NoPoolNoWrappers, MonitorNeedsPool
  <2>9. FoundOnlyMatch'
    <3> SUFFICES ASSUME NEW u \in Threads, hit[u] # Nothing,
                        NEW i \in 1..Len(pool), conn'[pool[i]] = held'[u]
                 PROVE  pool[i] = hit[u]
      BY <2>3 DEF FoundOnlyMatch
    <3>1. u # t /\ held'[u] = held[u]
      BY <2>3, <2>4 DEF TypeOK, ThreadTypes
    <3>2. conn[pool[i]] = held[u]
      BY <2>2, <2>5, <3>1
    <3> QED
      BY <3>2 DEF PoolInv, FoundOnlyMatch
  <2>10. BusyIsLent'
    <3> SUFFICES ASSUME NEW i \in 1..Len(pool), busy'[pool[i]],
                        \A a \in Admins : stage[a] # "close"
                 PROVE  \E u \in Borrowers : held'[u] = conn'[pool[i]]
      BY <2>3 DEF BusyIsLent
    <3>1. CASE i = k
      BY <2>3, <2>4, <3>1 DEF TypeOK, ThreadTypes
    <3>2. CASE i # k
      <4>1. busy[pool[i]] /\ conn'[pool[i]] = conn[pool[i]]
        BY <2>1, <2>2, <2>5, <3>2 DEF TypeOK, PoolTypes
      <4>2. PICK u \in Borrowers : held[u] = conn[pool[i]]
        BY <4>1 DEF PoolInv, BusyIsLent
      <4>3. u # t /\ u \in Threads
        BY <2>2, <2>3, <4>2 DEF Threads
      <4> QED
        BY <2>4, <4>1, <4>2, <4>3 DEF TypeOK, ThreadTypes
    <3> QED
      BY <3>1, <3>2
  <2> QED
    BY <2>6, <2>7, <2>8, <2>9, <2>10 DEF PoolInv
<1>4. ASSUME NEW t \in Borrowers, FindNothing(t) PROVE PoolInv'
  BY <1>4, SamePool DEF FindNothing, Goto, poolVars, TypeOK, ThreadTypes, Threads,
     PoolInv, MonitorNeedsPool
<1>5. ASSUME NEW t \in Borrowers, Grow(t) PROVE PoolInv'
  <2>1. exists' /\ UNCHANGED <<conn, busy, held, hit>>
    BY <1>5 DEF Grow, PoolInv, MonitorNeedsPool, TypeOK, ThreadTypes, Threads
  <2>2. \A a \in Admins : stage'[a] = "close" <=> stage[a] = "close"
    BY <1>5 DEF Grow, Goto, TypeOK, ThreadTypes, Threads
  <2> QED
    BY <1>5, <2>1, <2>2, ConstantTypes, CreateKeepsPoolInv DEF Grow
<1>6. ASSUME NEW t \in Borrowers, ReturnConnection(t) PROVE PoolInv'
  <2>1. CASE exists
    <3>1. \A a \in Admins : stage[a] = "close" => stage'[a] = "close"
      BY <1>6, <2>1 DEF ReturnConnection, Goto, TypeOK, ThreadTypes, Threads
    <3> QED
      BY <1>6, <2>1, <3>1, SamePool DEF ReturnConnection, poolVars
  <2>2. CASE ~exists
    <3>1. Len(pool) = 0
      BY <2>2 DEF PoolInv, NoPoolNoWrappers
    <3> QED
      BY <1>6, <2>2, <3>1, BorrowerLeaves DEF ReturnConnection, poolVars
  <2> QED
    BY <2>1, <2>2
<1>7. ASSUME NEW t \in Borrowers, ReturnFind(t) PROVE PoolInv'
  <2>1. PICK w \in Matching(t) : hit' = [hit EXCEPT ![t] = w]
    BY <1>7 DEF ReturnFind
  <2>2. PICK k \in 1..Len(pool) : w = pool[k] /\ conn[pool[k]] = held[t]
    BY <2>1, PoolElements DEF Matching, TypeOK, PoolTypes
  <2>3. FoundOnlyMatch'
    BY <1>7, <2>1, <2>2 DEF ReturnFind, poolVars, PoolInv, FoundOnlyMatch,
       DistinctConnections, TypeOK, ThreadTypes
  <2>4. BusyIsLent'
    BY <1>7 DEF ReturnFind, poolVars, Goto, PoolInv, BusyIsLent, TypeOK, ThreadTypes, Threads
  <2>5. Fresh' /\ DistinctWrappers' /\ DistinctConnections' /\ PoolBounded'
        /\ NoPoolNoWrappers' /\ MonitorNeedsPool'
    BY <1>7 DEF ReturnFind, poolVars, PoolInv, Fresh, DistinctWrappers, DistinctConnections,
       PoolBounded, NoPoolNoWrappers, MonitorNeedsPool
  <2> QED
    BY <2>3, <2>4, <2>5 DEF PoolInv
<1>8. ASSUME NEW t \in Borrowers, ReturnMiss(t) PROVE PoolInv'
  <2>1. ASSUME \A a \in Admins : stage[a] # "close", NEW i \in 1..Len(pool)
        PROVE  conn[pool[i]] # held[t]
    <3>1. CASE ~exists
      BY <3>1 DEF PoolInv, NoPoolNoWrappers
    <3>2. CASE Matching(t) = {}
      BY <3>2, PoolElements DEF Matching, TypeOK, PoolTypes
    <3> QED
      BY <1>8, <2>1, <3>1, <3>2 DEF ReturnMiss
  <2> QED
    BY <1>8, <2>1, BorrowerLeaves DEF ReturnMiss, poolVars
<1>9. ASSUME NEW t \in Borrowers, ReturnFree(t) PROVE PoolInv'
  <2>1. hit[t] \in Connections /\ t \in Threads
    BY <1>9 DEF ReturnFree, TypeOK, ThreadTypes, Threads
  <2>2. \A i \in 1..Len(pool) : conn[pool[i]] = held[t] => pool[i] = hit[t]
    BY <2>1, ConstantTypes DEF PoolInv, FoundOnlyMatch
  <2>3. busy' = [busy EXCEPT ![hit[t]] = FALSE]
    BY <1>9 DEF ReturnFree
  <2>4. \A i \in 1..Len(pool) : conn[pool[i]] = held[t] => ~busy'[pool[i]]
    BY <2>1, <2>2, <2>3 DEF TypeOK, PoolTypes
  <2> QED
    BY <1>9, <2>1, <2>3, <2>4, BorrowerLeaves DEF ReturnFree
<1>10. ASSUME NEW a \in Admins, RefreshConnections(a) PROVE PoolInv'
  BY <1>10, SamePool DEF RefreshConnections, Enter, Goto, poolVars, TypeOK, ThreadTypes, Threads
<1>11. ASSUME NEW a \in Admins, RefreshNext(a) PROVE PoolInv'
  <2>1. at \in 1..Len(pool) /\ a \in Threads
    BY <1>11 DEF RefreshNext, TypeOK, PoolTypes, ThreadTypes, Threads
  <2>2. CASE /\ ReplaceRefused(pool[at])
             /\ Leave(a)
             /\ UNCHANGED <<busy, at>>
    <3>1. \A b \in Admins : stage[b] = "close" => stage'[b] = "close"
      BY <1>11, <2>1, <2>2 DEF RefreshNext, Leave, Goto, TypeOK, ThreadTypes
    <3> QED
      BY <1>11, <2>2, <3>1, SamePool DEF RefreshNext, ReplaceRefused, Leave
  <2>3. CASE /\ Replace(pool[at], opened + 1)
             /\ Freed(pool[at])
             /\ at' = at + 1
             /\ UNCHANGED <<monitor, stage>>
    <3>1. /\ opened \in Nat
          /\ \A c \in Connections : c \in Int /\ c # Nothing
          /\ \A i \in 1..Len(pool) :
               /\ pool[i] \in Connections /\ conn[pool[i]] \in Connections
               /\ pool[i] <= opened /\ conn[pool[i]] <= opened
               /\ i # at => pool[i] # pool[at]
          /\ \A u \in Threads : held[u] \in Int /\ held[u] <= opened
      BY <2>1, ConstantTypes DEF TypeOK, PoolTypes, ThreadTypes, PoolInv, Fresh,
         DistinctWrappers, Nothing
    <3>2. UNCHANGED <<exists, pool, maxConnections, held, hit, stage, monitor>>
      BY <1>11, <2>3 DEF RefreshNext
    <3>3. /\ opened' = opened + 1
          /\ conn'[pool[at]] = opened + 1
          /\ \A w \in Connections : w # pool[at] => conn'[w] = conn[w]
      BY <2>1, <2>3, ReplaceEffect DEF PoolInv
    <3>4. /\ \A i \in 1..Len(pool) : pool[i] <= opened' /\ conn'[pool[i]] <= opened'
          /\ DistinctConnections'
      BY <2>1, <2>3, <3>2, ReplaceKeepsDistinct DEF PoolInv
    <3>5. Fresh'
      <4>1. \A w \in Connections : w > opened' => conn'[w] = w /\ ~busy'[w]
        BY <2>1, <2>3, <3>1, <3>3 DEF PoolInv, Fresh, Freed, TypeOK, PoolTypes
      <4>2. \A u \in Threads : held[u] <= opened'
        BY <3>1, <3>3
      <4> QED
        BY <3>2, <3>4, <4>1, <4>2 DEF Fresh
    <3>6. DistinctWrappers' /\ PoolBounded' /\ NoPoolNoWrappers' /\ MonitorNeedsPool'
      BY <3>2 DEF PoolInv, DistinctWrappers, PoolBounded, NoPoolNoWrappers, MonitorNeedsPool
    <3>7. FoundOnlyMatch'
      <4> SUFFICES ASSUME NEW u \in Threads, hit[u] # Nothing,
                          NEW i \in 1..Len(pool), conn'[pool[i]] = held[u]
                   PROVE  pool[i] = hit[u]
        BY <3>2 DEF FoundOnlyMatch
      <4>1. i # at
        BY <3>1, <3>3
      <4>2. conn[pool[i]] = held[u]
        BY <3>1, <3>3, <4>1
      <4> QED
        BY <4>2 DEF PoolInv, FoundOnlyMatch
    <3>8. BusyIsLent'
      <4> SUFFICES ASSUME NEW i \in 1..Len(pool), busy'[pool[i]],
                          \A b \in Admins : stage[b] # "close"
                   PROVE  \E u \in Borrowers : held[u] = conn'[pool[i]]
        BY <3>2 DEF BusyIsLent
      <4>1. i # at /\ busy[pool[i]]
        BY <2>1, <2>3, <3>1 DEF Freed, TypeOK, PoolTypes
      <4> QED
        BY <3>1, <3>3, <4>1 DEF PoolInv, BusyIsLent
    <3> QED
      BY <3>4, <3>5, <3>6, <3>7, <3>8 DEF PoolInv
  <2> QED
    BY <1>11, <2>2, <2>3 DEF RefreshNext
<1>12. ASSUME NEW a \in Admins, RefreshEnd(a) PROVE PoolInv'
  BY <1>12, SamePool DEF RefreshEnd, Leave, Goto, poolVars, TypeOK, ThreadTypes, Threads
<1>13. ASSUME NEW a \in Admins, CloseConnectionPool(a) PROVE PoolInv'
  BY <1>13, SamePool DEF CloseConnectionPool, Enter, Goto, poolVars, TypeOK, ThreadTypes,
     Threads
<1>14. ASSUME NEW a \in Admins, CloseNext(a) PROVE PoolInv'
  <2> DEFINE old(i) == IF i < at THEN i ELSE i + 1
  <2>1. at \in 1..Len(pool) /\ pool' = RemoveAt(pool, at)
    BY <1>14 DEF CloseNext, TypeOK, PoolTypes, ThreadTypes
  <2>2. /\ UNCHANGED <<exists, conn, busy, maxConnections, opened, monitor, stage, held, hit>>
        /\ stage[a] = "close"
    BY <1>14 DEF CloseNext
  <2>3. /\ Len(pool) \in Nat
        /\ Len(pool') = Len(pool) - 1
        /\ \A i \in 1..Len(pool') : pool'[i] = IF i < at THEN pool[i] ELSE pool[i + 1]
    BY <2>1, ShrinkPool DEF TypeOK, PoolTypes
  <2>4. \A i \in 1..Len(pool') : old(i) \in 1..Len(pool) /\ pool'[i] = pool[old(i)]
    BY <2>1, <2>3
  <2>5. \A i, j \in 1..Len(pool') : i # j => old(i) # old(j)
    BY <2>1, <2>3
  <2> HIDE DEF old
  <2>6. Fresh'
    BY <2>2, <2>4 DEF PoolInv, Fresh
  <2>7. DistinctWrappers' /\ DistinctConnections'
    <3> SUFFICES ASSUME NEW i \in 1..Len(pool'), NEW j \in 1..Len(pool'), i # j
                 PROVE  pool'[i] # pool'[j] /\ conn[pool'[i]] # conn[pool'[j]]
      BY <2>2 DEF DistinctWrappers, DistinctConnections
    <3>1. /\ pool'[i] = pool[old(i)] /\ pool'[j] = pool[old(j)]
          /\ old(i) # old(j) /\ old(i) \in 1..Len(pool) /\ old(j) \in 1..Len(pool)
      BY <2>4, <2>5
    <3> QED
      BY <3>1 DEF PoolInv, DistinctWrappers, DistinctConnections
  <2>8. PoolBounded'
    BY <2>2, <2>3 DEF PoolInv, PoolBounded, TypeOK, PoolTypes
  <2>9. NoPoolNoWrappers' /\ MonitorNeedsPool'
    BY <1>14, <2>2 DEF PoolInv, NoPoolNoWrappers, MonitorNeedsPool, TypeOK, ThreadTypes, Threads
  <2>10. FoundOnlyMatch' /\ BusyIsLent'
    BY <2>2, <2>4 DEF PoolInv, FoundOnlyMatch, BusyIsLent
  <2> QED
    BY <2>6, <2>7, <2>8, <2>9, <2>10 DEF PoolInv
<1>15. ASSUME NEW a \in Admins, CloseEnd(a) PROVE PoolInv'
  <2>1. /\ pool' = <<>> /\ monitor' = NoThread
        /\ UNCHANGED <<conn, busy, maxConnections, opened, held, hit>>
    BY <1>15 DEF CloseEnd, Leave
  <2>2. Len(pool') = 0
    BY <2>1
  <2>3. Fresh' /\ DistinctWrappers' /\ DistinctConnections'
    BY <2>1, <2>2 DEF PoolInv, Fresh, DistinctWrappers, DistinctConnections
  <2>4. PoolBounded'
    BY <2>1, <2>2 DEF PoolBounded, TypeOK, PoolTypes
  <2>5. NoPoolNoWrappers' /\ MonitorNeedsPool' /\ FoundOnlyMatch' /\ BusyIsLent'
    BY <2>1, <2>2 DEF NoPoolNoWrappers, MonitorNeedsPool, FoundOnlyMatch, BusyIsLent
  <2> QED
    BY <2>3, <2>4, <2>5 DEF PoolInv
<1>16. ASSUME NEW a \in Admins, CreatePool(a) PROVE PoolInv'
  BY <1>16, ConstantTypes, CreateKeepsPoolInv DEF CreatePool
<1>17. CASE UNCHANGED vars
  BY <1>17, SamePool DEF vars, PoolInv, MonitorNeedsPool
<1> QED
  BY <1>1, <1>2, <1>3, <1>4, <1>5, <1>6, <1>7, <1>8, <1>9, <1>10, <1>11, <1>12,
     <1>13, <1>14, <1>15, <1>16, <1>17 DEF Next, Serving, Administering

LEMMA PoolInvariant == Spec => [](TypeOK /\ PoolInv)
<1>1. Init => TypeOK /\ PoolInv
  BY TypeInit, PoolInit
<1>2. TypeOK /\ PoolInv /\ [Next]_vars => TypeOK' /\ PoolInv'
  BY TypeStep, PoolInvStep
<1> QED
  BY <1>1, <1>2, PTL DEF Spec

\* Whatever refreshConnections, closeConnectionPool and createPool do meanwhile:
\* no two wrappers carry the same connection, the pool keeps to its limit, and a
\* busy wrapper has a borrower that will free it.
THEOREM PoolIsSound == Spec => [](DistinctConnections /\ PoolBounded /\ NoBusyLeak)
<1>1. TypeOK /\ PoolInv => NoBusyLeak
  <2> SUFFICES ASSUME TypeOK, PoolInv, \A a \in Admins : stage[a] # "close",
                      NEW w \in Wrappers, busy[w]
               PROVE  \E t \in Borrowers : held[t] = conn[w]
    BY DEF NoBusyLeak
  <2>1. PICK i \in 1..Len(pool) : w = pool[i]
    BY PoolElements DEF TypeOK, PoolTypes
  <2> QED
    BY <2>1 DEF PoolInv, BusyIsLent
<1>2. TypeOK /\ PoolInv => DistinctConnections /\ PoolBounded /\ NoBusyLeak
  BY <1>1 DEF PoolInv
<1> QED
  BY <1>2, PoolInvariant, PTL

\* createConnections stops at maxConnections, whatever the driver refuses and
\* whatever was closed before: the pool keeps to its limit.
THEOREM PoolKeepsToLimit == Spec => []PoolBounded
BY PoolIsSound, PTL

\* returnConnection finds one wrapper at most: no two carry the same connection.
THEOREM WrappersAreDistinct == Spec => []DistinctConnections
BY PoolIsSound, PTL

\* The busy flag of a wrapper whose connection stays is cleared by the borrower of
\* that connection, or by one whose connection was taken out of the pool between its
\* search and its setBusy(false).
THEOREM FlagIsFreedByBorrower == Spec => FreedByBorrower
<1> DEFINE Freeing == \A w \in Wrappers :
                        busy[w] /\ ~busy'[w] /\ conn'[w] = conn[w] =>
                          \E t \in Borrowers :
                            /\ held[t] # Nothing /\ held'[t] = Nothing
                            /\ held[t] = conn[w] \/ StaleReturn(t)
<1>1. TypeOK /\ PoolInv /\ [Next]_vars => Freeing
  <2> SUFFICES ASSUME TypeOK, PoolInv, [Next]_vars, NEW w \in Wrappers,
                      busy[w], ~busy'[w], conn'[w] = conn[w]
               PROVE  \E t \in Borrowers :
                        /\ held[t] # Nothing /\ held'[t] = Nothing
                        /\ held[t] = conn[w] \/ StaleReturn(t)
    OBVIOUS
  <2>1. PICK k \in 1..Len(pool) : w = pool[k]
    BY PoolElements DEF TypeOK, PoolTypes
  <2>2. w \in Connections /\ conn[w] <= opened /\ conn[w] \in Int /\ opened \in Int
    BY <2>1, ConstantTypes DEF TypeOK, PoolTypes, PoolInv, Fresh
  <2>3. ASSUME NEW t \in Borrowers, Find(t) PROVE FALSE
    BY <2>2, <2>3 DEF Find, SetBusy, TypeOK, PoolTypes
  <2>4. ASSUME NEW t \in Borrowers, ReturnFree(t)
        PROVE  /\ held[t] # Nothing /\ held'[t] = Nothing
               /\ held[t] = conn[w] \/ StaleReturn(t)
    <3>1. hit[t] = w
      BY <2>2, <2>4 DEF ReturnFree, TypeOK, PoolTypes
    <3>2. stage[t] = "free" /\ held[t] # Nothing /\ held'[t] = Nothing
      BY <2>4 DEF ReturnFree, Done, TypeOK, ThreadTypes, Threads
    <3>3. CASE held[t] # conn[w]
      <4>1. \A i \in 1..Len(pool) : conn[pool[i]] = held[t] => pool[i] = w
        BY <2>4, <3>1, ConstantTypes DEF PoolInv, FoundOnlyMatch, Threads, ReturnFree,
           TypeOK, ThreadTypes
      <4>2. \A v \in Wrappers : conn[v] # held[t]
        BY <3>3, <4>1, PoolElements DEF TypeOK, PoolTypes
      <4> QED
        BY <3>2, <4>2 DEF StaleReturn
    <3> QED
      BY <3>2, <3>3
  <2>5. ASSUME NEW a \in Admins, RefreshNext(a) PROVE FALSE
    <3>1. at \in 1..Len(pool) /\ Replace(pool[at], opened + 1) /\ Freed(pool[at])
      BY <2>5 DEF RefreshNext, TypeOK, PoolTypes, ThreadTypes
    <3>2. w = pool[at]
      BY <2>2, <3>1 DEF Freed, TypeOK, PoolTypes
    <3>3. conn'[w] = opened + 1
      BY <3>1, <3>2, ReplaceEffect DEF PoolInv
    <3> QED
      BY <2>2, <3>3
  <2>6. UNCHANGED busy \/ (\E t \in Borrowers : Find(t) \/ ReturnFree(t))
                       \/ \E a \in Admins : RefreshNext(a)
    BY DEF Next, Serving, Administering, Break, GetConnection, FindNothing, Grow,
       ReturnConnection, ReturnFind, ReturnMiss, RefreshConnections, RefreshEnd,
       CloseConnectionPool, CloseNext, CloseEnd, CreatePool, vars, poolVars
  <2> QED
    BY <2>3, <2>4, <2>5, <2>6
<1>2. TypeOK /\ PoolInv /\ [Next]_vars => [Freeing]_vars
  BY <1>1
<1> QED
  BY <1>2, PoolInvariant, PTL DEF Spec, FreedByBorrower

-----------------------------------------------------------------------------
(* The busy flag, as long as no return is stale *)

\* No borrower clears the flag of a wrapper that has got another connection since the
\* borrower found it.
NoStaleReturn == \A t \in Borrowers : ~(ReturnFree(t) /\ StaleReturn(t))

LEMMA LendInvStep ==
  ASSUME TypeOK, PoolInv, LendInv, [Next]_vars, [NoStaleReturn]_vars
  PROVE  LendInv'
<1>1. /\ opened \in Nat
      /\ \A t \in Borrowers : t \in Threads
      /\ \A w \in Connections : w \in Int /\ w # Nothing
      /\ \A i \in 1..Len(pool) :
           pool[i] \in Connections /\ conn[pool[i]] \in Connections /\ conn[pool[i]] <= opened
      /\ \A u \in Threads : held[u] \in Int /\ held[u] <= opened
  BY ConstantTypes DEF Threads, TypeOK, PoolTypes, ThreadTypes, PoolInv, Fresh, Nothing
<1>2. ASSUME NEW t \in Borrowers, Find(t) PROVE LendInv'
  <2>1. PICK k \in 1..Len(pool), c \in Connections :
          /\ ~busy[pool[k]]
          /\ busy' = [busy EXCEPT ![pool[k]] = TRUE]
          /\ held' = [held EXCEPT ![t] = c]
          /\ c = conn'[pool[k]]
          /\ c = conn[pool[k]] \/ c = opened + 1
          /\ \A w \in Connections : w # pool[k] => conn'[w] = conn[w]
    BY <1>2, FindEffect
  <2>2. pool' = pool /\ held[t] = Nothing
    BY <1>1, <1>2 DEF Find, TypeOK, ThreadTypes
  <2>3. /\ held'[t] = c
        /\ \A u \in Threads : u # t => held'[u] = held[u]
    BY <1>1, <2>1 DEF TypeOK, ThreadTypes
  <2>4. \A u \in Threads : held[u] # Nothing => held[u] # conn[pool[k]] /\ held[u] # c
    BY <1>1, <2>1 DEF LendInv, HeldIsBusy
  <2>5. HeldDistinct'
    BY <2>2, <2>3, <2>4 DEF LendInv, HeldDistinct
  <2>6. HeldIsBusy'
    <3> SUFFICES ASSUME NEW u \in Threads, NEW i \in 1..Len(pool),
                        held'[u] # Nothing, conn'[pool[i]] = held'[u]
                 PROVE  busy'[pool[i]]
      BY <2>2 DEF HeldIsBusy
    <3>1. CASE pool[i] = pool[k]
      BY <1>1, <2>1, <3>1 DEF TypeOK, PoolTypes
    <3>2. CASE pool[i] # pool[k]
      <4>1. conn[pool[i]] = held'[u] /\ busy'[pool[i]] = busy[pool[i]]
        BY <1>1, <2>1, <3>2 DEF TypeOK, PoolTypes
      <4>2. CASE u = t
        <5>1. conn[pool[i]] # conn[pool[k]]
          BY <3>2 DEF PoolInv, DistinctConnections
        <5> QED
          BY <1>1, <2>1, <2>3, <4>1, <4>2, <5>1
      <4>3. CASE u # t
        BY <2>3, <4>1, <4>3 DEF LendInv, HeldIsBusy
      <4> QED
        BY <4>2, <4>3
    <3> QED
      BY <3>1, <3>2
  <2> QED
    BY <2>5, <2>6 DEF LendInv
<1>3. ASSUME NEW t \in Borrowers, ReturnFree(t), ~StaleReturn(t) PROVE LendInv'
  <2>1. /\ UNCHANGED <<pool, conn>>
        /\ busy' = [busy EXCEPT ![hit[t]] = FALSE]
        /\ held'[t] = Nothing
        /\ \A u \in Threads : u # t => held'[u] = held[u]
    BY <1>1, <1>3 DEF ReturnFree, Done, TypeOK, ThreadTypes
  <2>2. stage[t] = "free" /\ hit[t] \in Connections /\ hit[t] # Nothing /\ held[t] # Nothing
    BY <1>1, <1>3 DEF ReturnFree, TypeOK, ThreadTypes
  <2>3. conn[hit[t]] = held[t]
    <3>1. PICK w \in Wrappers : conn[w] = held[t]
      BY <1>3, <2>2 DEF StaleReturn
    <3>2. PICK i \in 1..Len(pool) : w = pool[i]
      BY PoolElements DEF TypeOK, PoolTypes
    <3> QED
      BY <1>1, <2>2, <3>1, <3>2 DEF PoolInv, FoundOnlyMatch
  <2>4. HeldDistinct'
    BY <2>1 DEF LendInv, HeldDistinct
  <2>5. HeldIsBusy'
    <3> SUFFICES ASSUME NEW u \in Threads, NEW i \in 1..Len(pool),
                        held'[u] # Nothing, conn[pool[i]] = held'[u]
                 PROVE  busy'[pool[i]]
      BY <2>1 DEF HeldIsBusy
    <3>1. u # t /\ held'[u] = held[u] /\ busy[pool[i]]
      BY <2>1 DEF LendInv, HeldIsBusy
    <3>2. pool[i] # hit[t]
      BY <1>1, <2>2, <2>3, <3>1 DEF LendInv, HeldDistinct
    <3> QED
      BY <1>1, <2>1, <2>2, <3>1, <3>2 DEF TypeOK, PoolTypes
  <2> QED
    BY <2>4, <2>5 DEF LendInv
<1>4. ASSUME NEW n \in Nat, CreateConnections(n), UNCHANGED <<conn, busy, held>>
      PROVE  LendInv'
  <2>1. PICK first \in Nat, made \in 0..n :
          /\ opened <= first
          /\ pool' \in Seq(Connections)
          /\ Len(pool') = Len(pool) + made
          /\ \A i \in 1..Len(pool) : pool'[i] = pool[i]
          /\ \A i \in Len(pool) + 1 .. Len(pool) + made : pool'[i] = first + (i - Len(pool))
    BY <1>4, CreateConnectionsEffect
  <2>2. Len(pool) \in Nat /\ made \in Nat
    BY <2>1 DEF TypeOK, PoolTypes
  <2>3. HeldIsBusy'
    <3> SUFFICES ASSUME NEW u \in Threads, NEW i \in 1..Len(pool'),
                        held[u] # Nothing, conn[pool'[i]] = held[u]
                 PROVE  busy[pool'[i]]
      BY <1>4 DEF HeldIsBusy
    <3>1. CASE i <= Len(pool)
      BY <2>1, <2>2, <3>1 DEF LendInv, HeldIsBusy
    <3>2. CASE ~(i <= Len(pool))
      <4>1. i \in Len(pool) + 1 .. Len(pool) + made /\ i - Len(pool) >= 1
        BY <2>1, <2>2, <3>2
      <4>2. pool'[i] > opened /\ pool'[i] \in Connections
        BY <1>1, <2>1, <4>1
      <4>3. conn[pool'[i]] = pool'[i]
        BY <4>2 DEF PoolInv, Fresh
      <4>4. held[u] <= opened /\ held[u] \in Int /\ pool'[i] \in Int
        BY <1>1, <4>2
      <4> QED
        BY <1>1, <4>2, <4>3, <4>4
    <3> QED
      BY <3>1, <3>2
  <2> QED
    BY <1>4, <2>3 DEF LendInv, HeldDistinct
<1>5. ASSUME NEW a \in Admins, RefreshNext(a) PROVE LendInv'
  <2>1. at \in 1..Len(pool) /\ UNCHANGED <<pool, held>>
    BY <1>5 DEF RefreshNext, TypeOK, PoolTypes, ThreadTypes
  <2>2. CASE UNCHANGED <<busy, conn>>
    BY <2>1, <2>2 DEF LendInv, HeldDistinct, HeldIsBusy
  <2>3. CASE Replace(pool[at], opened + 1) /\ Freed(pool[at])
    <3>1. /\ conn'[pool[at]] = opened + 1
          /\ \A i \in 1..Len(pool) : i # at => /\ pool[i] # pool[at]
                                              /\ conn'[pool[i]] = conn[pool[i]]
                                              /\ busy'[pool[i]] = busy[pool[i]]
      <4>1. \A i \in 1..Len(pool) : i # at => pool[i] # pool[at]
        BY <2>1 DEF PoolInv, DistinctWrappers
      <4> QED
        BY <1>1, <2>1, <2>3, <4>1, ReplaceEffect DEF PoolInv, Freed, TypeOK, PoolTypes
    <3>2. HeldIsBusy'
      <4> SUFFICES ASSUME NEW u \in Threads, NEW i \in 1..Len(pool),
                          held[u] # Nothing, conn'[pool[i]] = held[u]
                   PROVE  busy'[pool[i]]
        BY <2>1 DEF HeldIsBusy
      <4>1. i # at
        BY <1>1, <3>1
      <4> QED
        BY <3>1, <4>1 DEF LendInv, HeldIsBusy
    <3> QED
      BY <2>1, <3>2 DEF LendInv, HeldDistinct
  <2> QED
    BY <1>5, <2>2, <2>3 DEF RefreshNext, ReplaceRefused
<1>6. ASSUME NEW a \in Admins, CloseNext(a) PROVE LendInv'
  <2> DEFINE old(i) == IF i < at THEN i ELSE i + 1
  <2>1. at \in 1..Len(pool) /\ pool' = RemoveAt(pool, at) /\ UNCHANGED <<conn, busy, held>>
    BY <1>6 DEF CloseNext, TypeOK, PoolTypes, ThreadTypes
  <2>2. /\ Len(pool) \in Nat
        /\ Len(pool') = Len(pool) - 1
        /\ \A i \in 1..Len(pool') : pool'[i] = IF i < at THEN pool[i] ELSE pool[i + 1]
    BY <2>1, ShrinkPool DEF TypeOK, PoolTypes
  <2>3. \A i \in 1..Len(pool') : old(i) \in 1..Len(pool) /\ pool'[i] = pool[old(i)]
    BY <2>1, <2>2
  <2> HIDE DEF old
  <2> QED
    BY <2>1, <2>3 DEF LendInv, HeldDistinct, HeldIsBusy
<1>7. ASSUME NEW a \in Admins, CloseEnd(a) PROVE LendInv'
  <2>1. pool' = <<>> /\ UNCHANGED <<conn, busy, held>>
    BY <1>7 DEF CloseEnd
  <2>2. Len(pool') = 0
    BY <2>1
  <2> QED
    BY <2>1, <2>2 DEF LendInv, HeldDistinct, HeldIsBusy
<1>8. ASSUME UNCHANGED <<pool, conn, busy>>,
             UNCHANGED held \/ \E t \in Borrowers : Done(t)
      PROVE  LendInv'
  <2>1. \A u \in Threads : held'[u] \in {held[u], Nothing}
    BY <1>1, <1>8 DEF Done, TypeOK, ThreadTypes
  <2>2. HeldDistinct'
    BY <2>1 DEF LendInv, HeldDistinct
  <2>3. HeldIsBusy'
    BY <1>8, <2>1 DEF LendInv, HeldIsBusy
  <2> QED
    BY <2>2, <2>3 DEF LendInv
<1>9. CASE UNCHANGED vars
  BY <1>8, <1>9 DEF vars
<1>10. CASE Next /\ NoStaleReturn
  <2>1. ASSUME NEW t \in Borrowers, GetConnection(t) \/ Serving(t) PROVE LendInv'
    <3>1. CASE Grow(t)
      BY <1>4, <3>1, ConstantTypes DEF Grow
    <3>2. CASE ReturnFree(t)
      BY <1>3, <1>10, <3>2 DEF NoStaleReturn
    <3> QED
      BY <1>2, <1>8, <2>1, <3>1, <3>2 DEF Serving, GetConnection, FindNothing,
         ReturnConnection, ReturnFind, ReturnMiss, poolVars
  <2>2. ASSUME NEW a \in Admins, Administering(a) PROVE LendInv'
    <3>1. CASE CreatePool(a)
      BY <1>4, <3>1, ConstantTypes DEF CreatePool
    <3> QED
      BY <1>5, <1>6, <1>7, <1>8, <2>2, <3>1 DEF Administering, RefreshConnections, RefreshEnd,
         CloseConnectionPool, poolVars
  <2>3. ASSUME NEW c \in Connections, Break(c) PROVE LendInv'
    BY <1>8, <2>3 DEF Break
  <2> QED
    BY <1>10, <2>1, <2>2, <2>3 DEF Next
<1> QED
  BY <1>9, <1>10

\* A successful search lends a connection nobody has.
LEMMA FindLends ==
  ASSUME TypeOK, PoolInv, LendInv, NEW t \in Borrowers, Find(t)
  PROVE  \E c \in Connections :
           /\ held' = [held EXCEPT ![t] = c]
           /\ held[t] = Nothing
           /\ \A u \in Borrowers : held[u] # c
<1>1. PICK k \in 1..Len(pool), c \in Connections :
        /\ ~busy[pool[k]]
        /\ held' = [held EXCEPT ![t] = c]
        /\ c = conn[pool[k]] \/ c = opened + 1
  BY FindEffect
<1>2. held[t] = Nothing
  BY DEF Find, TypeOK, ThreadTypes, Threads
<1>3. ASSUME NEW u \in Borrowers PROVE held[u] # c
  <2>1. /\ u \in Threads /\ opened \in Nat /\ held[u] <= opened /\ held[u] \in Int
        /\ held[u] = c => held[u] # Nothing
    BY ConstantTypes DEF Threads, PoolInv, Fresh, TypeOK, PoolTypes, ThreadTypes, Nothing
  <2>2. CASE c = conn[pool[k]]
    BY <1>1, <2>1, <2>2 DEF LendInv, HeldIsBusy
  <2>3. CASE c = opened + 1
    BY <2>1, <2>3
  <2> QED
    BY <1>1, <2>2, <2>3
<1> QED
  BY <1>1, <1>2, <1>3

LEMMA LendingStep ==
  ASSUME TypeOK, PoolInv, LendInv, [Next]_vars
  PROVE  [Lend!Next]_[b \in Borrowers |-> held[b]]
<1> DEFINE lent == [b \in Borrowers |-> held[b]]
<1>1. ASSUME NEW t \in Borrowers, Find(t) PROVE \E c \in Connections : Lend!Lend(t, c)
  <2>1. PICK c \in Connections :
          /\ held' = [held EXCEPT ![t] = c]
          /\ held[t] = Nothing
          /\ \A u \in Borrowers : held[u] # c
    BY <1>1, FindLends
  <2>2. lent' = [lent EXCEPT ![t] = c]
    BY <2>1 DEF TypeOK, ThreadTypes, Threads
  <2> QED
    BY <2>1, <2>2 DEF Lend!Lend
<1>2. ASSUME NEW t \in Borrowers, Done(t) PROVE lent' = lent \/ Lend!GiveBack(t)
  <2>1. lent' = [lent EXCEPT ![t] = Nothing]
    BY <1>2 DEF Done, TypeOK, ThreadTypes, Threads
  <2>2. CASE held[t] = Nothing
    BY <2>1, <2>2
  <2>3. CASE held[t] # Nothing
    BY <2>1, <2>3 DEF Lend!GiveBack
  <2> QED
    BY <2>2, <2>3
<1>3. ASSUME UNCHANGED held PROVE lent' = lent
  BY <1>3
<1>4. \/ UNCHANGED held
      \/ \E t \in Borrowers : Find(t) \/ Done(t)
  BY DEF Next, Serving, Administering, Break, GetConnection, FindNothing, Grow,
     ReturnConnection, ReturnFind, ReturnMiss, ReturnFree, RefreshConnections, RefreshNext,
     RefreshEnd, CloseConnectionPool, CloseNext, CloseEnd, CreatePool, vars
<1> QED
  BY <1>1, <1>2, <1>3, <1>4 DEF Lend!Next

LEMMA LendInvariant ==
  Spec /\ [][NoStaleReturn]_vars => [](TypeOK /\ PoolInv /\ LendInv)
<1>1. Init => TypeOK /\ PoolInv /\ LendInv
  BY TypeInit, PoolInit
<1>2. TypeOK /\ PoolInv /\ LendInv /\ [Next]_vars /\ [NoStaleReturn]_vars
        => TypeOK' /\ PoolInv' /\ LendInv'
  BY TypeStep, PoolInvStep, LendInvStep
<1> QED
  BY <1>1, <1>2, PTL DEF Spec

\* The stale return is the only way the busy flag of WrapperConnection goes wrong:
\* whoever refreshes, closes and creates the pool meanwhile, it means what its comment
\* says as long as no borrower clears the flag of a wrapper refreshConnections has
\* given another connection in between.
THEOREM OnlyStaleReturnsMislead ==
  Spec /\ [][NoStaleReturn]_vars => []BusyIsInUse
<1>1. TypeOK /\ LendInv => BusyIsInUse
  <2> SUFFICES ASSUME TypeOK, LendInv, NEW t \in Borrowers, NEW w \in Wrappers,
                      held[t] # Nothing, conn[w] = held[t]
               PROVE  busy[w]
    BY DEF BusyIsInUse
  <2>1. PICK i \in 1..Len(pool) : w = pool[i]
    BY PoolElements DEF TypeOK, PoolTypes
  <2> QED
    BY <2>1 DEF LendInv, HeldIsBusy, Threads
<1> QED
  BY <1>1, LendInvariant, PTL

\* And without stale returns the pool implements Lending, whatever the administrators
\* do: getConnection hands out only connections that no borrower has.
THEOREM LendingWithoutStaleReturns ==
  Spec /\ [][NoStaleReturn]_vars => ImplementsLending
<1>1. Init => Lend!Init
  BY DEF Init, Lend!Init, Threads
<1>2. TypeOK /\ PoolInv /\ LendInv /\ [Next]_vars => [Lend!Next]_[b \in Borrowers |-> held[b]]
  BY LendingStep
<1> QED
  BY <1>1, <1>2, LendInvariant, PTL DEF Spec, ImplementsLending, Lend!Spec

-----------------------------------------------------------------------------
(* Without administrators *)

\* The connection of a borrower that has found its wrapper is still in the pool.
FoundIsThere ==
  \A t \in Threads : hit[t] # Nothing => \E i \in 1..Len(pool) : conn[pool[i]] = held[t]

LEMMA FoundIsThereStep ==
  ASSUME Admins = {}, TypeOK, PoolInv, LendInv, FoundIsThere, [Next]_vars
  PROVE  FoundIsThere'
<1>1. /\ Threads = Borrowers
      /\ \A i \in 1..Len(pool) : pool[i] \in Connections
  BY DEF Threads, TypeOK, PoolTypes
<1>2. ASSUME NEW t \in Borrowers, Find(t) PROVE FoundIsThere'
  <2>1. PICK k \in 1..Len(pool), c \in Connections :
          /\ ~busy[pool[k]]
          /\ held' = [held EXCEPT ![t] = c]
          /\ \A w \in Connections : w # pool[k] => conn'[w] = conn[w]
    BY <1>2, FindEffect
  <2>2. UNCHANGED <<pool, hit>> /\ hit[t] = Nothing
    BY <1>1, <1>2 DEF Find, TypeOK, ThreadTypes
  <2> SUFFICES ASSUME NEW u \in Threads, hit[u] # Nothing
               PROVE  \E i \in 1..Len(pool) : conn'[pool[i]] = held'[u]
    BY <2>2 DEF FoundIsThere
  <2>3. u # t /\ held[u] # Nothing /\ held'[u] = held[u]
    BY <2>1, <2>2 DEF TypeOK, ThreadTypes
  <2>4. PICK i \in 1..Len(pool) : conn[pool[i]] = held[u]
    BY DEF FoundIsThere
  <2>5. busy[pool[i]]
    BY <2>3, <2>4 DEF LendInv, HeldIsBusy
  <2>6. conn'[pool[i]] = conn[pool[i]]
    BY <1>1, <2>1, <2>5
  <2> QED
    BY <2>3, <2>4, <2>6
<1>3. ASSUME NEW t \in Borrowers, Grow(t) PROVE FoundIsThere'
  <2>1. UNCHANGED <<conn, held, hit>>
    BY <1>3 DEF Grow
  <2>2. PICK made \in 0..IncrementalConnections :
          /\ Len(pool') = Len(pool) + made
          /\ \A i \in 1..Len(pool) : pool'[i] = pool[i]
    BY <1>3, ConstantTypes, CreateConnectionsEffect DEF Grow
  <2>3. Len(pool) \in Nat /\ made \in Nat
    BY <2>2, ConstantTypes DEF TypeOK, PoolTypes
  <2>4. \A i \in 1..Len(pool) : i \in 1..Len(pool')
    BY <2>2, <2>3
  <2> QED
    BY <2>1, <2>2, <2>4 DEF FoundIsThere
<1>4. ASSUME NEW t \in Borrowers, ReturnFind(t) PROVE FoundIsThere'
  <2>1. PICK w \in Wrappers : conn[w] = held[t] /\ hit' = [hit EXCEPT ![t] = w]
    BY <1>4 DEF ReturnFind, Matching
  <2>2. PICK i \in 1..Len(pool) : w = pool[i]
    BY PoolElements DEF TypeOK, PoolTypes
  <2>3. UNCHANGED <<pool, conn, held>>
    BY <1>4 DEF ReturnFind, poolVars
  <2> QED
    BY <2>1, <2>2, <2>3 DEF FoundIsThere, TypeOK, ThreadTypes
<1>5. ASSUME UNCHANGED <<pool, conn>>,
             UNCHANGED <<held, hit>> \/ \E t \in Borrowers : Done(t)
      PROVE  FoundIsThere'
  <2>1. \A u \in Threads : hit'[u] # Nothing => hit'[u] = hit[u] /\ held'[u] = held[u]
    BY <1>1, <1>5 DEF Done, TypeOK, ThreadTypes
  <2> QED
    BY <1>5, <2>1 DEF FoundIsThere
<1> QED
  BY <1>2, <1>3, <1>4, <1>5 DEF Next, Serving, Break, GetConnection, FindNothing,
     ReturnConnection, ReturnMiss, ReturnFree, vars, poolVars

\* Where nobody refreshes or closes the pool, no return is stale.
LEMMA ReturnsAreNotStale ==
  ASSUME Admins = {}
  PROVE  Spec => [][NoStaleReturn]_vars
<1> DEFINE I == TypeOK /\ PoolInv /\ LendInv /\ FoundIsThere
<1>1. Init => I
  BY TypeInit, PoolInit DEF Init, FoundIsThere
<1>2. I => NoStaleReturn
  <2> SUFFICES ASSUME I, NEW t \in Borrowers, StaleReturn(t)
               PROVE  FALSE
    BY DEF NoStaleReturn
  <2>1. t \in Threads /\ hit[t] # Nothing
    BY DEF StaleReturn, TypeOK, ThreadTypes, Threads
  <2>2. PICK i \in 1..Len(pool) : conn[pool[i]] = held[t]
    BY <2>1 DEF FoundIsThere
  <2>3. pool[i] \in Wrappers
    BY PoolElements DEF TypeOK, PoolTypes
  <2> QED
    BY <2>2, <2>3 DEF StaleReturn
<1>3. I /\ [Next]_vars => I'
  <2> SUFFICES ASSUME I, [Next]_vars PROVE I'
    OBVIOUS
  <2>1. TypeOK' /\ PoolInv' /\ FoundIsThere'
    BY TypeStep, PoolInvStep, FoundIsThereStep
  <2>2. LendInv'
    BY <1>2, LendInvStep
  <2> QED
    BY <2>1, <2>2
<1>4. I /\ [Next]_vars => [NoStaleReturn]_vars
  BY <1>2
<1> HIDE DEF I
<1> QED
  BY <1>1, <1>3, <1>4, PTL DEF Spec

\* As long as nobody refreshes or closes the pool, the busy flag of WrapperConnection
\* means what its comment says, in spite of the unsynchronized returnConnection.
THEOREM BusyFlagIsRight ==
  ASSUME Admins = {}
  PROVE  Spec => []BusyIsInUse
BY ReturnsAreNotStale, OnlyStaleReturnsMislead, PTL

\* And the pool implements Lending: getConnection hands out only connections that no
\* borrower has.
THEOREM PoolImplementsLending ==
  ASSUME Admins = {}
  PROVE  Spec => ImplementsLending
BY ReturnsAreNotStale, LendingWithoutStaleReturns, PTL

-----------------------------------------------------------------------------
(* The connections that are open, as long as no pool is closed *)

Alive == {c \in Connections : status[c] \in {"open", "broken"}}

\* Every connection that the database sees, but for the lost ones, is carried by a
\* wrapper.
OpenIsWrapped ==
  /\ exists
  /\ \A c \in Alive : \E i \in 1..Len(pool) : conn[pool[i]] = c

\* Nobody is in closeConnectionPool.
NoClose == \A a \in Admins : stage[a] # "close"

LEMMA OpenIsWrappedInit == Init => OpenIsWrapped
<1> SUFFICES ASSUME Init, NEW c \in Alive
             PROVE  \E i \in 1..Len(pool) : conn[pool[i]] = c
  BY DEF OpenIsWrapped, Init
<1>1. PICK first \in Nat, made \in 0..InitialConnections :
        /\ opened = first + made
        /\ Len(pool) = made
        /\ \A i \in 1..made : pool[i] = first + i /\ conn[first + i] = first + i
        /\ \A x \in Connections :
             status[x] \in {"open", "broken"} => x \in first + 1 .. opened
  BY InitEffect
<1>2. c \in first + 1 .. opened /\ made \in Nat
  BY <1>1, ConstantTypes DEF Alive
<1>3. c - first \in 1..made /\ first + (c - first) = c
  BY <1>1, <1>2
<1> QED
  BY <1>1, <1>3

\* Wherever a connection is replaced, by getConnection or by refreshConnections.
LEMMA ReplaceKeepsWrapped ==
  ASSUME TypeOK, PoolInv, OpenIsWrapped, NEW k \in 1..Len(pool),
         Replace(pool[k], opened + 1) \/ ReplaceRefused(pool[k]),
         UNCHANGED <<exists, pool>>
  PROVE  OpenIsWrapped'
<1>1. \A i \in 1..Len(pool) : pool[i] \in Connections /\ conn[pool[i]] \in Connections
  BY DEF TypeOK, PoolTypes
<1>2. CASE ReplaceRefused(pool[k])
  <2>1. Alive' \subseteq Alive /\ conn' = conn
    BY <1>1, <1>2 DEF ReplaceRefused, Alive, TypeOK, PoolTypes
  <2> QED
    BY <2>1 DEF OpenIsWrapped
<1>3. CASE Replace(pool[k], opened + 1)
  <2> SUFFICES ASSUME NEW c \in Alive'
               PROVE  \E i \in 1..Len(pool) : conn'[pool[i]] = c
    BY DEF OpenIsWrapped
  <2>1. /\ conn'[pool[k]] = opened + 1
        /\ \A i \in 1..Len(pool) : i # k => conn'[pool[i]] = conn[pool[i]]
    BY <1>3, ReplaceEffect DEF PoolInv
  <2>2. CASE c = opened + 1
    BY <2>1, <2>2
  <2>3. CASE c # opened + 1
    <3>1. c \in Alive /\ c # conn[pool[k]]
      BY <1>1, <1>3, <2>3 DEF Alive, Replace, LeftBehind, TypeOK, PoolTypes
    <3>2. PICK i \in 1..Len(pool) : conn[pool[i]] = c
      BY <3>1 DEF OpenIsWrapped
    <3> QED
      BY <2>1, <3>1, <3>2
  <2> QED
    BY <2>2, <2>3
<1> QED
  BY <1>2, <1>3

LEMMA OpenIsWrappedStep ==
  ASSUME TypeOK, PoolInv, OpenIsWrapped, NoClose, [Next]_vars
  PROVE  OpenIsWrapped'
<1>1. ASSUME NEW x \in Connections, Break(x) PROVE OpenIsWrapped'
  <2>1. Alive' = Alive /\ UNCHANGED <<exists, pool, conn>>
    BY <1>1 DEF Break, Alive, TypeOK, PoolTypes
  <2> QED
    BY <2>1 DEF OpenIsWrapped
<1>2. ASSUME NEW t \in Borrowers, Find(t) PROVE OpenIsWrapped'
  <2>1. PICK k \in 1..Len(pool) : TestAndHand(t, pool[k])
    BY <1>2 DEF Find, FirstIdle, Idle
  <2>2. UNCHANGED <<exists, pool>>
    BY <1>2 DEF Find
  <2>3. CASE UNCHANGED <<status, conn>>
    BY <2>2, <2>3 DEF OpenIsWrapped, Alive
  <2> QED
    BY <2>1, <2>2, <2>3, ReplaceKeepsWrapped DEF TestAndHand
<1>3. ASSUME NEW t \in Borrowers, Grow(t) PROVE OpenIsWrapped'
  <2> SUFFICES ASSUME NEW c \in Alive'
               PROVE  \E i \in 1..Len(pool') : conn'[pool'[i]] = c
    BY <1>3 DEF OpenIsWrapped, Grow
  <2>1. PICK first \in Nat, made \in 0..IncrementalConnections :
          /\ opened <= first
          /\ opened' = first + made
          /\ pool' \in Seq(Connections)
          /\ Len(pool') = Len(pool) + made
          /\ \A i \in 1..Len(pool) : pool'[i] = pool[i]
          /\ \A i \in Len(pool) + 1 .. Len(pool) + made : pool'[i] = first + (i - Len(pool))
          /\ \A x \in Connections : status'[x] \in {"open", "broken"} =>
               status[x] \in {"open", "broken"} \/ x \in first + 1 .. opened'
    BY <1>3, ConstantTypes, CreateConnectionsEffect DEF Grow
  <2>2. c \in Connections /\ (c \in Alive \/ c \in first + 1 .. opened')
    BY <2>1 DEF Alive
  <2>3. /\ Len(pool) \in Nat /\ made \in Nat /\ opened \in Nat /\ c \in Int
        /\ conn' = conn
    BY <1>3, <2>1, <2>2, ConstantTypes DEF Grow, TypeOK, PoolTypes
  <2>4. CASE c \in Alive
    <3>1. PICK i \in 1..Len(pool) : conn[pool[i]] = c
      BY <2>4 DEF OpenIsWrapped
    <3>2. i \in 1..Len(pool')
      BY <2>1, <2>3
    <3> QED
      BY <2>1, <2>3, <3>1, <3>2
  <2>5. CASE c \in first + 1 .. opened'
    <3>1. Len(pool) + (c - first) \in Len(pool) + 1 .. Len(pool) + made
      BY <2>1, <2>3, <2>5
    <3>2. pool'[Len(pool) + (c - first)] = c
      BY <2>1, <2>3, <2>5, <3>1
    <3>3. c > opened
      BY <2>1, <2>3, <2>5
    <3>4. conn[c] = c
      BY <2>2, <3>3 DEF PoolInv, Fresh
    <3>5. Len(pool) + (c - first) \in 1..Len(pool')
      BY <2>1, <2>3, <3>1
    <3> QED
      BY <2>3, <3>2, <3>4, <3>5
  <2> QED
    BY <2>2, <2>4, <2>5
<1>4. ASSUME NEW a \in Admins, RefreshNext(a) PROVE OpenIsWrapped'
  <2>1. at \in 1..Len(pool) /\ UNCHANGED <<exists, pool>>
    BY <1>4 DEF RefreshNext, TypeOK, PoolTypes, ThreadTypes
  <2> QED
    BY <1>4, <2>1, ReplaceKeepsWrapped DEF RefreshNext
<1>5. ASSUME NEW a \in Admins, CloseNext(a) \/ CloseEnd(a) \/ CreatePool(a) PROVE FALSE
  BY <1>5 DEF CloseNext, CloseEnd, CreatePool, NoClose, OpenIsWrapped
<1>6. ASSUME UNCHANGED <<exists, pool, conn, status>> PROVE OpenIsWrapped'
  BY <1>6 DEF OpenIsWrapped, Alive
<1> QED
  BY <1>1, <1>2, <1>3, <1>4, <1>5, <1>6 DEF Next, Serving, Administering, GetConnection,
     FindNothing, ReturnConnection, ReturnFind, ReturnMiss, ReturnFree, RefreshConnections,
     RefreshEnd, CloseConnectionPool, vars, poolVars

\* So there are no more of them than wrappers.
LEMMA AliveIsCounted ==
  ASSUME TypeOK, OpenIsWrapped
  PROVE  Cardinality(Alive) <= Len(pool)
<1> DEFINE position == [c \in Alive |-> CHOOSE i \in 1..Len(pool) : conn[pool[i]] = c]
<1>1. \A c \in Alive : position[c] \in 1..Len(pool) /\ conn[pool[position[c]]] = c
  BY DEF OpenIsWrapped
<1>2. position \in Injection(Alive, 1..Len(pool))
  BY <1>1 DEF Injection, IsInjective
<1>3. Len(pool) \in Nat
  BY DEF TypeOK, PoolTypes
<1>4. IsFiniteSet(1..Len(pool)) /\ Cardinality(1..Len(pool)) = Len(pool)
  <2>1. 1 \in Int /\ Len(pool) \in Int
    BY <1>3
  <2>2. /\ IsFiniteSet(1..Len(pool))
        /\ Cardinality(1..Len(pool)) = IF 1 > Len(pool) THEN 0 ELSE Len(pool) - 1 + 1
    BY <2>1, FS_Interval, Zenon
  <2> QED
    BY <1>3, <2>2
<1> QED
  BY <1>2, <1>4, FS_Injection

\* As long as nobody closes the pool, whoever refreshes it: testConnection and
\* refreshConnections close what they replace, or fail to, and createConnections counts
\* what there is: the database never sees more connections than maxConnections and
\* those that a failed newConnection or closeConnection has left behind.
THEOREM OpenKeepsToLimitUntilClosed ==
  Spec /\ []NoClose => []OpenWithinLimit
<1>1. Init => TypeOK /\ PoolInv /\ OpenIsWrapped
  BY TypeInit, PoolInit, OpenIsWrappedInit
<1>2. TypeOK /\ PoolInv /\ OpenIsWrapped /\ NoClose /\ [Next]_vars
        => TypeOK' /\ PoolInv' /\ OpenIsWrapped'
  BY TypeStep, PoolInvStep, OpenIsWrappedStep
<1>3. TypeOK /\ PoolInv /\ OpenIsWrapped => OpenWithinLimit
  <2> SUFFICES ASSUME TypeOK, PoolInv, OpenIsWrapped, maxConnections > 0
               PROVE  Cardinality(Seen) <= maxConnections + Cardinality(Lost)
    BY DEF OpenWithinLimit
  <2>1. Cardinality(Alive) <= Len(pool) /\ Len(pool) <= maxConnections
    BY AliveIsCounted DEF PoolInv, PoolBounded
  <2>2. Cardinality(Alive) \in Nat /\ Len(pool) \in Nat /\ maxConnections \in Int
    <3>1. Alive \subseteq Connections /\ IsFiniteSet(Connections)
      BY ConstantTypes, FS_Interval DEF Alive, Connections
    <3> QED
      BY <3>1, FS_Subset, FS_CardinalityType DEF TypeOK, PoolTypes
  <2>3. Cardinality(Seen) = Cardinality(Alive) + Cardinality(Lost)
        /\ Cardinality(Lost) \in Nat
    <3>1. /\ Alive \subseteq Connections /\ Lost \subseteq Connections
          /\ IsFiniteSet(Connections)
      BY ConstantTypes, FS_Interval DEF Alive, Lost, Connections
    <3>2. IsFiniteSet(Alive) /\ IsFiniteSet(Lost)
      BY <3>1, FS_Subset
    <3>3. Seen = Alive \cup Lost /\ Alive \cap Lost = {}
      BY DEF Seen, Alive, Lost
    <3>4. Cardinality(Alive \cap Lost) = 0
      BY <3>3, FS_EmptySet
    <3>5. Cardinality(Alive) \in Nat /\ Cardinality(Lost) \in Nat
      BY <3>2, FS_CardinalityType
    <3>6. Cardinality(Alive \cup Lost)
            = Cardinality(Alive) + Cardinality(Lost) - Cardinality(Alive \cap Lost)
      BY <3>2, FS_Union
    <3>7. Cardinality(Seen) = Cardinality(Alive \cup Lost)
      BY <3>3
    <3> HIDE DEF Alive, Lost, Seen
    <3> QED
      BY <3>4, <3>5, <3>6, <3>7
  <2> QED
    BY <2>1, <2>2, <2>3
<1> QED
  BY <1>1, <1>2, <1>3, PTL DEF Spec

\* Where there is nobody to close the pool, that is so for ever.
THEOREM OpenConnectionsKeepToLimit ==
  ASSUME Admins = {}
  PROVE  Spec => []OpenWithinLimit
<1>1. NoClose
  BY DEF NoClose
<1> QED
  BY <1>1, OpenKeepsToLimitUntilClosed, PTL

-----------------------------------------------------------------------------
(* Waiting with the monitor *)

\* getConnection sleeps with the monitor, and another borrower can end its wait: when
\* it finds every wrapper busy, there is a borrower that has a connection of the pool
\* and is on its way to give it back, for which it needs no monitor.
WaitIsEnded ==
  \A t \in Borrowers : monitor = t /\ pool # <<>> /\ Idle = {} =>
    \E u \in Borrowers \ {t} :
      /\ stage[u] \in {"inUse", "find", "free"}
      /\ \E w \in Wrappers : conn[w] = held[u]

\* The waits of getConnection are for borrowers that do not wait for it: not a single
\* thread holds the monitor and all the connections.
THEOREM WaitingIsForBorrowers == Spec => []WaitIsEnded
<1>1. TypeOK /\ PoolInv => WaitIsEnded
  <2> SUFFICES ASSUME TypeOK, PoolInv, NEW t \in Borrowers,
                      monitor = t, pool # <<>>, Idle = {}
               PROVE  \E u \in Borrowers \ {t} :
                        /\ stage[u] \in {"inUse", "find", "free"}
                        /\ \E w \in Wrappers : conn[w] = held[u]
    BY DEF WaitIsEnded
  <2>1. 1 \in 1..Len(pool) /\ busy[pool[1]]
    <3>1. 1 \in 1..Len(pool)
      BY EmptySeq DEF TypeOK, PoolTypes
    <3> QED
      BY <3>1 DEF Idle
  <2>2. \A a \in Admins : stage[a] # "close"
    BY PoolAssumption DEF TypeOK, ThreadTypes, Threads
  <2>3. PICK u \in Borrowers : held[u] = conn[pool[1]]
    BY <2>1, <2>2 DEF PoolInv, BusyIsLent
  <2>4. held[u] # Nothing /\ stage[u] \in {"inUse", "find", "free"}
    BY <2>1, <2>3, ConstantTypes DEF TypeOK, PoolTypes, ThreadTypes, Threads
  <2>5. u # t
    BY <2>4 DEF TypeOK, ThreadTypes, Threads
  <2>6. pool[1] \in Wrappers
    BY <2>1, PoolElements DEF TypeOK, PoolTypes
  <2> QED
    BY <2>3, <2>4, <2>5, <2>6
<1> QED
  BY <1>1, PoolInvariant, PTL

=============================================================================
