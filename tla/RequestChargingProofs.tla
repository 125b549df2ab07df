----------------------- MODULE RequestChargingProofs ------------------------
(***************************************************************************)
(* Theorems of RequestCharging for any requests, accounts and prices.      *)
(***************************************************************************)
EXTENDS RequestCharging, FiniteSetTheorems, TLAPS

-----------------------------------------------------------------------------
(* Type correctness *)

LEMMA TypeInit == Init => TypeOK
BY ChargingAssumption DEF Init, TypeOK, Orders, Last

LEMMA ChargeTypes ==
  ASSUME TypeOK, NEW r \in Requests, Charge(r)
  PROVE  /\ money' \in [Users -> Int]
         /\ billed' \in [Users -> Nat]
         /\ overtaken' \in SUBSET Requests
<1>1. seen[r] \in Int /\ cost[r] \in Nat
  BY ChargingAssumption DEF TypeOK
<1>2. money' \in [Users -> Int] /\ billed' \in [Users -> Nat]
  BY <1>1 DEF TypeOK, Charge, Remaining
<1>3. overtaken' \in SUBSET Requests
  BY DEF TypeOK, Charge
<1> QED
  BY <1>2, <1>3

LEMMA TypeStep == TypeOK /\ [Next]_vars => TypeOK'
<1> SUFFICES ASSUME TypeOK, [Next]_vars PROVE TypeOK'
  OBVIOUS
<1> USE ChargingAssumption DEF TypeOK, Last
<1>1. ASSUME NEW r \in Requests, Receive(r) PROVE TypeOK'
  BY <1>1 DEF Receive
<1>2. ASSUME NEW r \in Requests, Pass(r) PROVE TypeOK'
  BY <1>2 DEF Pass, At, NextService
<1>3. ASSUME NEW r \in Requests, PreFree(r) PROVE TypeOK'
  BY <1>3 DEF PreFree, At, NextService
<1>4. ASSUME NEW r \in Requests, PreCharging(r) PROVE TypeOK'
  BY <1>4 DEF PreCharging, At, NextService
<1>5. ASSUME NEW r \in Requests, PreRefuse(r) PROVE TypeOK'
  BY <1>5 DEF PreRefuse, Answer
<1>6. ASSUME NEW r \in Requests, Invoke(r) PROVE TypeOK'
  BY <1>6 DEF Invoke
<1>7. ASSUME NEW r \in Requests, PostFree(r) PROVE TypeOK'
  BY <1>7 DEF PostFree, At, NextService
<1>8. ASSUME NEW r \in Requests, PostUnverified(r) PROVE TypeOK'
  BY <1>8 DEF PostUnverified, At, NextService
<1>9. ASSUME NEW r \in Requests, PostInsufficient(r) PROVE TypeOK'
  BY <1>9 DEF PostInsufficient, At, NextService
<1>10. ASSUME NEW r \in Requests, PostRead(r) PROVE TypeOK'
  BY <1>10 DEF PostRead, At
<1>11. ASSUME NEW r \in Requests, PostWrite(r) PROVE TypeOK'
  <2>1. /\ money' \in [Users -> Int]
        /\ billed' \in [Users -> Nat]
        /\ overtaken' \in SUBSET Requests
    BY <1>11, ChargeTypes DEF PostWrite
  <2>2. stage[r] = "write" /\ pos[r] <= Last
    BY <1>11 DEF PostWrite, Charge
  <2>3. pos' \in [Requests -> 1..Last + 1]
    BY <1>11, <2>2 DEF PostWrite
  <2>4. /\ stage' \in [Requests -> {"new", "pre", "post", "write", "done"}]
        /\ \A q \in Requests : stage'[q] = "write" => pos'[q] <= Last
    BY <1>11, <2>2 DEF PostWrite
  <2>5. verdict' \in [Requests -> {"none", "true", "unverified", "insufficient"}]
    BY <1>11 DEF PostWrite
  <2>6. UNCHANGED <<services, accessQueue, user, inResource, cost, seen, response, overlapped>>
    BY <1>11 DEF PostWrite
  <2> QED
    BY <2>1, <2>3, <2>4, <2>5, <2>6
<1>12. ASSUME NEW r \in Requests, PostResultMQ(r) PROVE TypeOK'
  BY <1>12 DEF PostResultMQ, At, NextService
<1>13. ASSUME NEW r \in Requests, PostFail(r) PROVE TypeOK'
  <2>1. CASE Charge(r) /\ UNCHANGED accessQueue
    BY <1>13, <2>1, ChargeTypes DEF PostFail, Answer
  <2>2. CASE UNCHANGED <<money, billed, overtaken>>
    BY <1>13, <2>2 DEF PostFail, Answer
  <2> QED
    BY <1>13, <2>1, <2>2 DEF PostFail
<1>14. ASSUME NEW r \in Requests, Respond(r) PROVE TypeOK'
  <2>1. PICK what \in {"result", "failure"} : Answer(r, what)
    BY <1>14 DEF Respond
  <2> QED
    BY <1>14, <2>1 DEF Respond, Answer
<1>15. CASE UNCHANGED vars
  BY <1>15 DEF vars
<1> QED
  BY <1>1, <1>2, <1>3, <1>4, <1>5, <1>6, <1>7, <1>8, <1>9, <1>10, <1>11, <1>12,
     <1>13, <1>14, <1>15 DEF Next, Handle

\* Every variable of RequestCharging stays in its type.
THEOREM TypeCorrect == Spec => []TypeOK
<1>1. Init => TypeOK
  BY TypeInit
<1>2. TypeOK /\ [Next]_vars => TypeOK'
  BY TypeStep
<1> QED
  BY <1>1, <1>2, PTL DEF Spec

-----------------------------------------------------------------------------
(* Money *)

\* What a request has read is money the account had, and no less than the charged
\* prices leave of it.
SeenIsSound ==
  \A r \in Requests : stage[r] = "write" =>
    seen[r] > 0 /\ seen[r] >= InitialMoney - billed[user[r]]

\* The only request that charges an account has read what the account still has.
SeenIsCurrent ==
  \A r \in Requests : stage[r] = "write" /\ user[r] \notin overlapped =>
    /\ seen[r] = money[user[r]]
    /\ \A q \in Requests : stage[q] = "write" /\ user[q] = user[r] => q = r

MoneyInv ==
  /\ NeverOvercharged
  /\ ExactUnlessOverlapping
  /\ OverdraftBounded
  /\ SeenIsSound
  /\ SeenIsCurrent

\* Most steps leave the accounts alone and start no charge.
LEMMA MoneyUntouched ==
  ASSUME TypeOK, MoneyInv, UNCHANGED <<money, billed, overlapped, user>>,
         \A r \in Requests : stage'[r] = "write" =>
           stage[r] = "write" /\ seen'[r] = seen[r]
  PROVE  MoneyInv'
BY DEF MoneyInv, NeverOvercharged, ExactUnlessOverlapping, OverdraftBounded, SeenIsSound,
   SeenIsCurrent

LEMMA MoneyStep == TypeOK /\ MoneyInv /\ [Next]_vars => MoneyInv'
<1> SUFFICES ASSUME TypeOK, MoneyInv, [Next]_vars PROVE MoneyInv'
  OBVIOUS
<1>1. ASSUME NEW r \in Requests, PostRead(r) PROVE MoneyInv'
  <2>1. /\ stage[r] # "write" /\ stage' = [stage EXCEPT ![r] = "write"]
        /\ money[user[r]] > 0
        /\ seen' = [seen EXCEPT ![r] = money[user[r]]]
        /\ overlapped' = IF Writing(user[r]) = {} THEN overlapped
                                                 ELSE overlapped \union {user[r]}
        /\ UNCHANGED <<money, billed, user>>
    BY <1>1 DEF PostRead, At, HasMoney
  <2>2. NeverOvercharged' /\ ExactUnlessOverlapping' /\ OverdraftBounded'
    BY <2>1 DEF MoneyInv, NeverOvercharged, ExactUnlessOverlapping, OverdraftBounded
  <2>3. SeenIsSound'
    BY <2>1 DEF TypeOK, MoneyInv, NeverOvercharged, SeenIsSound
  <2>4. SeenIsCurrent'
    BY <2>1 DEF TypeOK, MoneyInv, SeenIsCurrent, Writing
  <2> QED
    BY <2>2, <2>3, <2>4 DEF MoneyInv
<1>2. ASSUME NEW r \in Requests, Charge(r), PostWrite(r) \/ PostFail(r) PROVE MoneyInv'
  <2>1. /\ stage[r] = "write"
        /\ \E s \in {"post", "done"} : stage' = [stage EXCEPT ![r] = s]
        /\ money' = [money EXCEPT ![user[r]] = seen[r] - cost[r]]
        /\ billed' = [billed EXCEPT ![user[r]] = @ + cost[r]]
        /\ \A q \in Requests : q # r => seen'[q] = seen[q]
        /\ UNCHANGED <<user, overlapped>>
    <3>1. /\ stage[r] = "write"
          /\ money' = [money EXCEPT ![user[r]] = seen[r] - cost[r]]
          /\ billed' = [billed EXCEPT ![user[r]] = @ + cost[r]]
      BY <1>2 DEF Charge, Remaining
    <3>2. CASE PostWrite(r)
      BY <3>1, <3>2 DEF PostWrite
    <3>3. CASE PostFail(r)
      BY <3>1, <3>3 DEF TypeOK, PostFail, Answer
    <3> QED
      BY <1>2, <3>2, <3>3
  <2>2. /\ user[r] \in Users
        /\ seen[r] \in Int /\ cost[r] \in Nat /\ cost[r] <= MaxCost
        /\ InitialMoney \in Nat /\ MaxCost \in Nat
        /\ \A u \in Users : money[u] \in Int /\ billed[u] \in Nat
    BY ChargingAssumption DEF TypeOK
  <2>3. /\ money'[user[r]] = seen[r] - cost[r]
        /\ billed'[user[r]] = billed[user[r]] + cost[r]
        /\ \A u \in Users : u # user[r] => money'[u] = money[u] /\ billed'[u] = billed[u]
        /\ \A u \in Users : billed'[u] \in Nat /\ billed'[u] >= billed[u]
        /\ \A q \in Requests : stage'[q] = "write" => q # r /\ stage[q] = "write"
    <3>1. money \in [Users -> Int] /\ billed \in [Users -> Nat]
      BY DEF TypeOK
    <3>2. /\ money'[user[r]] = seen[r] - cost[r]
          /\ billed'[user[r]] = billed[user[r]] + cost[r]
          /\ \A u \in Users : u # user[r] => money'[u] = money[u] /\ billed'[u] = billed[u]
      BY <2>1, <2>2, <3>1
    <3>3. ASSUME NEW u \in Users PROVE billed'[u] \in Nat /\ billed'[u] >= billed[u]
      BY <2>2, <3>2
    <3>4. \A q \in Requests : stage'[q] = "write" => q # r /\ stage[q] = "write"
      BY <2>1 DEF TypeOK
    <3> QED
      BY <3>2, <3>3, <3>4
  <2>4. NeverOvercharged'
    BY <2>1, <2>2, <2>3 DEF MoneyInv, NeverOvercharged, SeenIsSound
  <2>5. ExactUnlessOverlapping'
    BY <2>1, <2>2, <2>3 DEF MoneyInv, ExactUnlessOverlapping, SeenIsCurrent
  <2>6. OverdraftBounded'
    BY <2>1, <2>2, <2>3 DEF MoneyInv, OverdraftBounded, SeenIsSound
  <2>7. SeenIsSound'
    <3> SUFFICES ASSUME NEW q \in Requests, stage'[q] = "write"
                 PROVE  seen'[q] > 0 /\ seen'[q] >= InitialMoney - billed'[user'[q]]
      BY DEF SeenIsSound
    <3>1. seen[q] > 0 /\ seen[q] >= InitialMoney - billed[user[q]]
      BY <2>3 DEF MoneyInv, SeenIsSound
    <3>2. seen[q] \in Int /\ user[q] \in Users
      BY DEF TypeOK
    <3> QED
      BY <2>1, <2>2, <2>3, <3>1, <3>2
  <2>8. SeenIsCurrent'
    BY <2>1, <2>2, <2>3 DEF TypeOK, MoneyInv, SeenIsCurrent
  <2> QED
    BY <2>4, <2>5, <2>6, <2>7, <2>8 DEF MoneyInv
<1>3. ASSUME UNCHANGED <<money, billed, overlapped, user>>,
             \A r \in Requests : stage'[r] = "write" =>
               stage[r] = "write" /\ seen'[r] = seen[r]
      PROVE  MoneyInv'
  BY <1>3, MoneyUntouched
<1>4. ASSUME NEW r \in Requests,
             \/ Receive(r) \/ Pass(r) \/ PreFree(r) \/ PreCharging(r) \/ PreRefuse(r)
             \/ Invoke(r) \/ PostFree(r) \/ PostUnverified(r) \/ PostInsufficient(r)
             \/ PostResultMQ(r) \/ Respond(r)
             \/ /\ PostFail(r)
                /\ ~Charge(r)
      PROVE  MoneyInv'
  <2>1. UNCHANGED <<money, billed, overlapped, user>>
    BY <1>4 DEF Receive, Pass, PreFree, PreCharging, PreRefuse, Invoke, PostFree,
       PostUnverified, PostInsufficient, PostResultMQ, PostFail, Respond
  <2>2. \A q \in Requests : stage'[q] = "write" => stage[q] = "write" /\ seen'[q] = seen[q]
    BY <1>4 DEF TypeOK, Receive, Pass, PreFree, PreCharging, PreRefuse, Invoke, PostFree,
       PostUnverified, PostInsufficient, PostResultMQ, PostFail, Respond, NextService, Answer
  <2> QED
    BY <1>3, <2>1, <2>2
<1>5. CASE UNCHANGED vars
  BY <1>3, <1>5 DEF vars
<1> QED
  BY <1>1, <1>2, <1>4, <1>5 DEF Next, Handle, PostWrite

LEMMA MoneyInit == Init => MoneyInv
BY ChargingAssumption DEF Init, MoneyInv, NeverOvercharged, ExactUnlessOverlapping,
   OverdraftBounded, SeenIsSound, SeenIsCurrent

\* For any requests in any interleaving: no account is overcharged, one whose charges
\* do not overlap is charged exactly, and no account is overdrawn by a whole price.
THEOREM AccountsAreSound ==
  Spec => [](NeverOvercharged /\ ExactUnlessOverlapping /\ OverdraftBounded)
<1>1. Init => TypeOK /\ MoneyInv
  BY TypeInit, MoneyInit
<1>2. TypeOK /\ MoneyInv /\ [Next]_vars => TypeOK' /\ MoneyInv'
  BY TypeStep, MoneyStep
<1>3. MoneyInv => NeverOvercharged /\ ExactUnlessOverlapping /\ OverdraftBounded
  BY DEF MoneyInv
<1> QED
  BY <1>1, <1>2, <1>3, PTL DEF Spec

\* charge reads the balance again: what it writes is exact unless another charge of the
\* account comes between its read and its write.
THEOREM ChargesAreExact == Spec => []ExactUnlessOverlapping
BY AccountsAreSound, PTL

\* preHandle lets any number of requests pass on the same money, and yet the last
\* charge is of an account with money: it goes below zero by less than one price.
THEOREM OverdraftIsBounded == Spec => []OverdraftBounded
BY AccountsAreSound, PTL

-----------------------------------------------------------------------------
(* What is delivered, recorded and left unpaid *)

\* A service that postHandle has been through has done its part.
Recorded ==
  \A r \in Requests : stage[r] \in {"post", "write"} =>
    \A i \in 1..Last : i < pos[r] =>
      /\ services[i] = "resultMQ" => r \in accessQueue
      /\ services[i] = "charging" => verdict[r] # "none"

\* Only the charging service writes.
WritesInCharging == \A r \in Requests : stage[r] = "write" => services[pos[r]] = "charging"

DeliveryInv ==
  /\ services \in Orders
  /\ WritesInCharging
  /\ Recorded
  /\ DeliveredIsRecorded

\* A verdict is reached in postHandle only.
VerdictIsLate ==
  \A r \in Requests : stage[r] \in {"new", "pre"} => verdict[r] = "none"

\* The money that preHandle has seen is there until a charge with a price.
MoneyLeft ==
  \A r \in Requests : inResource[r] /\ r \notin overtaken => money[user[r]] > 0

UnpaidInv ==
  /\ UnpaidMeansDrained
  /\ VerdictIsLate
  /\ MoneyLeft

LEMMA EveryServiceRuns ==
  ASSUME services \in Orders, NEW s \in Services
  PROVE  \E i \in 1..Last : services[i] = s
<1>1. /\ services[1] \in Services /\ services[2] \in Services /\ services[3] \in Services
      /\ services[1] # services[2] /\ services[1] # services[3]
      /\ services[2] # services[3]
  BY DEF Orders, Last
<1>2. services[1] = s \/ services[2] = s \/ services[3] = s
  BY <1>1 DEF Services
<1> QED
  BY <1>2 DEF Last

\* A service that is passed has nothing to record, or has recorded it.
LEMMA RecordedOnward ==
  ASSUME TypeOK, Recorded, NEW r \in Requests, services' = services,
         stage[r] \in {"post", "write"},
         stage' = [stage EXCEPT ![r] = "post"], pos' = [pos EXCEPT ![r] = @ + 1],
         accessQueue \subseteq accessQueue',
         \A q \in Requests : verdict[q] # "none" => verdict'[q] # "none",
         services[pos[r]] = "resultMQ" => r \in accessQueue',
         services[pos[r]] = "charging" => verdict'[r] # "none"
  PROVE  Recorded'
<1> SUFFICES ASSUME NEW q \in Requests, stage'[q] \in {"post", "write"},
                    NEW i \in 1..Last, i < pos'[q]
             PROVE  /\ services[i] = "resultMQ" => q \in accessQueue'
                    /\ services[i] = "charging" => verdict'[q] # "none"
  BY DEF Recorded
<1>1. CASE q = r /\ i = pos[r]
  BY <1>1
<1>2. CASE q # r \/ i # pos[r]
  <2>1. stage[q] \in {"post", "write"} /\ i < pos[q]
    BY <1>2 DEF TypeOK, Last
  <2> QED
    BY <2>1 DEF Recorded
<1> QED
  BY <1>1, <1>2

LEMMA DeliveryStep == TypeOK /\ DeliveryInv /\ [Next]_vars => DeliveryInv'
<1> SUFFICES ASSUME TypeOK, DeliveryInv, [Next]_vars PROVE DeliveryInv'
  OBVIOUS
<1>1. services' = services
  BY DEF Next, Handle, Receive, Pass, PreFree, PreCharging, PreRefuse, Invoke, PostFree,
     PostUnverified, PostInsufficient, PostRead, PostWrite, PostResultMQ, PostFail,
     Respond, vars
<1>2. /\ accessQueue \subseteq accessQueue'
      /\ \A q \in Requests : verdict[q] # "none" => verdict'[q] # "none"
  <2>1. accessQueue \subseteq accessQueue'
    BY DEF Next, Handle, Receive, Pass, PreFree, PreCharging, PreRefuse, Invoke,
       PostFree, PostUnverified, PostInsufficient, PostRead, PostWrite, PostResultMQ,
       PostFail, Respond, vars
  <2>2. ASSUME NEW r \in Requests,
               PostFree(r) \/ PostUnverified(r) \/ PostInsufficient(r) \/ PostWrite(r)
        PROVE  \A q \in Requests : verdict[q] # "none" => verdict'[q] # "none"
    BY <2>2 DEF TypeOK, PostFree, PostUnverified, PostInsufficient, PostWrite
  <2>3. ASSUME NEW r \in Requests,
               \/ Receive(r) \/ Pass(r) \/ PreFree(r) \/ PreCharging(r) \/ PreRefuse(r)
               \/ Invoke(r) \/ PostRead(r) \/ PostResultMQ(r) \/ PostFail(r) \/ Respond(r)
        PROVE  verdict' = verdict
    BY <2>3 DEF Receive, Pass, PreFree, PreCharging, PreRefuse, Invoke, PostRead,
       PostResultMQ, PostFail, Respond
  <2>4. CASE UNCHANGED vars
    BY <2>4 DEF vars
  <2> QED
    BY <2>1, <2>2, <2>3, <2>4 DEF Next, Handle
<1>3. ASSUME NEW r \in Requests,
             \/ Pass(r) \/ PostFree(r) \/ PostUnverified(r) \/ PostInsufficient(r)
             \/ PostWrite(r) \/ PostResultMQ(r),
             stage[r] \in {"post", "write"}
      PROVE  Recorded'
  <2>1. /\ stage' = [stage EXCEPT ![r] = "post"]
        /\ pos' = [pos EXCEPT ![r] = @ + 1]
    BY <1>3 DEF TypeOK, Pass, PostFree, PostUnverified, PostInsufficient, PostWrite,
       PostResultMQ, NextService, At
  <2>2. /\ services[pos[r]] = "resultMQ" => r \in accessQueue'
        /\ services[pos[r]] = "charging" => verdict'[r] # "none"
    BY <1>3 DEF TypeOK, Pass, PostFree, PostUnverified, PostInsufficient, PostWrite,
       PostResultMQ, At, Charge, DeliveryInv, WritesInCharging
  <2> QED
    BY <1>1, <1>2, <1>3, <2>1, <2>2, RecordedOnward DEF DeliveryInv
<1>4. ASSUME NEW r \in Requests,
             \/ stage[r] = "pre" /\ (Pass(r) \/ PreFree(r) \/ PreCharging(r))
             \/ Receive(r) \/ PreRefuse(r) \/ Invoke(r) \/ PostRead(r) \/ PostFail(r)
             \/ Respond(r)
      PROVE  Recorded'
  <2>1. \A q \in Requests : q # r =>
          stage'[q] = stage[q] /\ pos'[q] = pos[q]
    BY <1>4 DEF TypeOK, Receive, Pass, PreFree, PreCharging, PreRefuse, Invoke, PostRead,
       PostFail, Respond, NextService, Answer
  <2>2. \/ stage'[r] \in {"pre", "done"}
        \/ stage'[r] = "post" /\ pos'[r] = 1
        \/ stage[r] = "post" /\ pos'[r] = pos[r]
    BY <1>4 DEF TypeOK, Receive, Pass, PreFree, PreCharging, PreRefuse, Invoke, PostRead,
       PostFail, Respond, NextService, Answer, At
  <2> QED
    BY <1>1, <1>2, <2>1, <2>2 DEF DeliveryInv, Recorded, Last
<1>5. CASE UNCHANGED vars
  BY <1>5 DEF vars, DeliveryInv, Recorded, WritesInCharging, DeliveredIsRecorded
<1>6. ASSUME NEW r \in Requests, Handle(r) PROVE Recorded'
  <2>1. Pass(r) => stage[r] \in {"pre", "post"}
    BY DEF Pass, At
  <2>2. PreFree(r) \/ PreCharging(r) => stage[r] = "pre"
    BY DEF PreFree, PreCharging, At
  <2>3. PostFree(r) \/ PostUnverified(r) \/ PostInsufficient(r) \/ PostWrite(r)
        \/ PostResultMQ(r) => stage[r] \in {"post", "write"}
    BY DEF PostFree, PostUnverified, PostInsufficient, PostWrite, Charge, PostResultMQ, At
  <2> QED
    BY <1>3, <1>4, <1>6, <2>1, <2>2, <2>3 DEF Handle
<1>7. ASSUME NEW r \in Requests, Handle(r) PROVE WritesInCharging'
  <2>1. \/ PostRead(r)
        \/ \A q \in Requests : stage'[q] = "write" => stage[q] = "write" /\ pos'[q] = pos[q]
    BY <1>7 DEF TypeOK, Handle, Receive, Pass, PreFree, PreCharging, PreRefuse, Invoke,
       PostFree, PostUnverified, PostInsufficient, PostWrite, Charge, PostResultMQ, PostFail,
       Respond, NextService, Answer, At
  <2>2. CASE PostRead(r)
    BY <1>1, <2>2 DEF TypeOK, DeliveryInv, WritesInCharging, PostRead, At
  <2>3. CASE \A q \in Requests : stage'[q] = "write" => stage[q] = "write" /\ pos'[q] = pos[q]
    BY <1>1, <2>3 DEF DeliveryInv, WritesInCharging
  <2> QED
    BY <2>1, <2>2, <2>3
<1>8. ASSUME NEW r \in Requests, Handle(r) PROVE DeliveredIsRecorded'
  <2>1. CASE Respond(r)
    <3>1. r \in accessQueue /\ verdict[r] # "none"
      <4>1. stage[r] = "post" /\ \A i \in 1..Last : i < pos[r]
        BY <2>1 DEF TypeOK, Respond, Last
      <4> QED
        BY <4>1, EveryServiceRuns DEF DeliveryInv, Recorded, Services
    <3> QED
      BY <1>2, <2>1, <3>1 DEF TypeOK, DeliveryInv, DeliveredIsRecorded, Respond, Answer
  <2>2. CASE ~Respond(r)
    <3>1. \A q \in Requests : response'[q] = "result" => response[q] = "result"
      BY <1>8, <2>2 DEF TypeOK, Handle, Receive, Pass, PreFree, PreCharging, PreRefuse,
         Invoke, PostFree, PostUnverified, PostInsufficient, PostRead, PostWrite,
         PostResultMQ, PostFail, Answer
    <3> QED
      BY <1>2, <3>1 DEF DeliveryInv, DeliveredIsRecorded
  <2> QED
    BY <2>1, <2>2
<1>9. services' \in Orders
  BY <1>1 DEF DeliveryInv
<1> QED
  BY <1>5, <1>6, <1>7, <1>8, <1>9 DEF Next, DeliveryInv

LEMMA DeliveryInit == Init => DeliveryInv
BY DEF Init, DeliveryInv, Recorded, WritesInCharging, DeliveredIsRecorded

\* Whatever the order of the services, no result leaves before its access message and
\* before the charging service has had it.
THEOREM DeliveryIsRecorded == Spec => []DeliveredIsRecorded
<1>1. Init => TypeOK /\ DeliveryInv
  BY TypeInit, DeliveryInit
<1>2. TypeOK /\ DeliveryInv /\ [Next]_vars => TypeOK' /\ DeliveryInv'
  BY TypeStep, DeliveryStep
<1>3. DeliveryInv => DeliveredIsRecorded
  BY DEF DeliveryInv
<1> QED
  BY <1>1, <1>2, <1>3, PTL DEF Spec

-----------------------------------------------------------------------------
(* A request that is not charged *)

LEMMA UnpaidStep == TypeOK /\ MoneyInv /\ UnpaidInv /\ [Next]_vars => UnpaidInv'
<1> SUFFICES ASSUME TypeOK, MoneyInv, UnpaidInv, [Next]_vars PROVE UnpaidInv'
  OBVIOUS
<1>1. ASSUME NEW r \in Requests, Charge(r), PostWrite(r) \/ PostFail(r) PROVE UnpaidInv'
  <2>1. /\ stage[r] = "write"
        /\ stage'[r] \in {"post", "done"} /\ \A q \in Requests : q # r => stage'[q] = stage[q]
        /\ money' = [money EXCEPT ![user[r]] = seen[r] - cost[r]]
        /\ overtaken' = IF cost[r] > 0
                        THEN overtaken \union {q \in Requests : user[q] = user[r]}
                        ELSE overtaken
        /\ \A q \in Requests : verdict'[q] = "insufficient" => verdict[q] = "insufficient"
        /\ \A q \in Requests : q # r => verdict'[q] = verdict[q]
        /\ \A q \in Requests : inResource'[q] => inResource[q]
        /\ UNCHANGED user
    BY <1>1 DEF TypeOK, PostWrite, PostFail, Charge, Answer, Remaining
  <2>2. seen[r] \in Int /\ seen[r] > 0 /\ cost[r] \in Nat
    BY <2>1, ChargingAssumption DEF TypeOK, MoneyInv, SeenIsSound
  <2>3. UnpaidMeansDrained'
    BY <2>1 DEF TypeOK, UnpaidInv, UnpaidMeansDrained
  <2>4. VerdictIsLate'
    BY <2>1 DEF TypeOK, UnpaidInv, VerdictIsLate
  <2>5. MoneyLeft'
    <3> SUFFICES ASSUME NEW x \in Requests, inResource[x], x \notin overtaken'
                 PROVE  money'[user[x]] > 0
      BY <2>1 DEF MoneyLeft
    <3>1. CASE user[x] = user[r]
      <4>1. cost[r] = 0
        BY <2>1, <2>2, <3>1
      <4> QED
        BY <2>1, <2>2, <3>1, <4>1 DEF TypeOK
    <3>2. CASE user[x] # user[r]
      BY <2>1, <3>2 DEF TypeOK, UnpaidInv, MoneyLeft
    <3> QED
      BY <3>1, <3>2
  <2> QED
    BY <2>3, <2>4, <2>5 DEF UnpaidInv
<1>2. ASSUME NEW r \in Requests, PreCharging(r) PROVE UnpaidInv'
  <2>1. /\ stage[r] = "pre" /\ money[user[r]] > 0
        /\ inResource' = [inResource EXCEPT ![r] = TRUE]
        /\ overtaken' = overtaken \ {r}
        /\ UNCHANGED <<stage, user, money, verdict>>
    BY <1>2 DEF TypeOK, PreCharging, HasMoney, At, NextService
  <2>2. verdict[r] = "none"
    BY <2>1 DEF UnpaidInv, VerdictIsLate
  <2>3. UnpaidMeansDrained'
    BY <2>1, <2>2 DEF TypeOK, UnpaidInv, UnpaidMeansDrained
  <2>4. VerdictIsLate' /\ MoneyLeft'
    BY <2>1 DEF TypeOK, UnpaidInv, VerdictIsLate, MoneyLeft
  <2> QED
    BY <2>3, <2>4 DEF UnpaidInv
<1>3. ASSUME NEW r \in Requests,
             \/ Receive(r) \/ Pass(r) \/ PreFree(r) \/ PreRefuse(r) \/ Invoke(r)
             \/ PostFree(r) \/ PostUnverified(r) \/ PostInsufficient(r) \/ PostRead(r)
             \/ PostResultMQ(r) \/ Respond(r)
             \/ /\ PostFail(r)
                /\ ~Charge(r)
      PROVE  UnpaidInv'
  <2>1. /\ UNCHANGED <<user, overtaken, money>>
        /\ \A q \in Requests : inResource'[q] => inResource[q]
    BY <1>3 DEF TypeOK, Receive, Pass, PreFree, PreRefuse, Invoke, PostFree, PostUnverified,
       PostInsufficient, PostRead, PostResultMQ, PostFail, Respond, Answer
  <2>2. \A q \in Requests : stage'[q] \in {"new", "pre"} =>
          stage[q] \in {"new", "pre"} /\ verdict'[q] = verdict[q]
    BY <1>3 DEF TypeOK, Receive, Pass, PreFree, PreRefuse, Invoke, PostFree,
       PostUnverified, PostInsufficient, PostRead, PostResultMQ, PostFail, Respond, Answer,
       NextService, At
  <2>3. \A q \in Requests : verdict'[q] = "insufficient" =>
          verdict[q] = "insufficient" \/ (inResource[q] /\ money[user[q]] <= 0)
    <3>1. CASE PostInsufficient(r)
      <4>1. money[user[r]] \in Int
        BY DEF TypeOK
      <4> QED
        BY <3>1, <4>1 DEF TypeOK, PostInsufficient, HasMoney
    <3>2. CASE ~PostInsufficient(r)
      BY <1>3, <3>2 DEF TypeOK, Receive, Pass, PreFree, PreRefuse, Invoke, PostFree,
         PostUnverified, PostRead, PostResultMQ, PostFail, Respond
    <3> QED
      BY <3>1, <3>2
  <2>4. UnpaidMeansDrained'
    <3> SUFFICES ASSUME NEW q \in Requests, verdict'[q] = "insufficient"
                 PROVE  q \in overtaken
      BY <2>1 DEF UnpaidMeansDrained
    <3>1. CASE inResource[q] /\ money[user[q]] <= 0
      <4>1. money[user[q]] \in Int
        BY DEF TypeOK
      <4> QED
        BY <3>1, <4>1 DEF UnpaidInv, MoneyLeft
    <3> QED
      BY <2>3, <3>1 DEF UnpaidInv, UnpaidMeansDrained
  <2>5. VerdictIsLate' /\ MoneyLeft'
    BY <2>1, <2>2 DEF UnpaidInv, VerdictIsLate, MoneyLeft
  <2> QED
    BY <2>4, <2>5 DEF UnpaidInv
<1>4. CASE UNCHANGED vars
  BY <1>4 DEF vars, UnpaidInv, UnpaidMeansDrained, VerdictIsLate, MoneyLeft
<1> QED
  BY <1>1, <1>2, <1>3, <1>4 DEF Next, Handle, PostWrite

LEMMA UnpaidInit == Init => UnpaidInv
BY DEF Init, UnpaidInv, UnpaidMeansDrained, VerdictIsLate, MoneyLeft

\* For any requests and prices: a request goes unpaid for want of money only when
\* its account has paid for another one since its preHandle.
THEOREM UnpaidIsOvertaken == Spec => []UnpaidMeansDrained
<1>1. Init => TypeOK /\ MoneyInv /\ UnpaidInv
  BY TypeInit, MoneyInit, UnpaidInit
<1>2. TypeOK /\ MoneyInv /\ UnpaidInv /\ [Next]_vars => TypeOK' /\ MoneyInv' /\ UnpaidInv'
  BY TypeStep, MoneyStep, UnpaidStep
<1>3. UnpaidInv => UnpaidMeansDrained
  BY DEF UnpaidInv
<1> QED
  BY <1>1, <1>2, <1>3, PTL DEF Spec

-----------------------------------------------------------------------------
(* A request that is charged twice *)

\* The requests of an account that are answered, or have been charged or let off.
Settled(u) ==
  {r \in Requests : user[r] = u /\ (stage[r] = "done" \/ verdict[r] # "none")}

\* A request that the charging service has still to see, or is charging, is not settled.
ChargedLater ==
  \A r \in Requests :
    /\ stage[r] \in {"new", "pre", "write"} => verdict[r] = "none"
    /\ stage[r] = "post" =>
         \A i \in 1..Last : i >= pos[r] /\ services[i] = "charging" => verdict[r] = "none"

\* The prices written for an account are those of its settled requests, one for each.
OnePriceEach == \A u \in Users : billed[u] <= MaxCost * Cardinality(Settled(u))

\* What an account has lost, races or not, is at most a price for each of them.
LossIsPriced ==
  \A u \in Users : money[u] >= InitialMoney - MaxCost * Cardinality(Settled(u))

ChargeInv == ChargedLater /\ OnePriceEach

LEMMA SettledIsFinite ==
  ASSUME IsFiniteSet(Requests), NEW u
  PROVE  IsFiniteSet(Settled(u)) /\ Cardinality(Settled(u)) \in Nat
<1>1. Settled(u) \subseteq Requests
  BY DEF Settled
<1> QED
  BY <1>1, FS_Subset, FS_CardinalityType

LEMMA LaterStep ==
  TypeOK /\ DeliveryInv /\ ChargedLater /\ [Next]_vars => ChargedLater'
<1> SUFFICES ASSUME TypeOK, DeliveryInv, ChargedLater, [Next]_vars PROVE ChargedLater'
  OBVIOUS
<1>1. services' = services
  BY DEF Next, Handle, Receive, Pass, PreFree, PreCharging, PreRefuse, Invoke, PostFree,
     PostUnverified, PostInsufficient, PostRead, PostWrite, PostResultMQ, PostFail,
     Respond, vars
<1>2. ASSUME NEW r \in Requests,
             \A q \in Requests : q # r =>
               stage'[q] = stage[q] /\ pos'[q] = pos[q] /\ verdict'[q] = verdict[q],
             \/ stage'[r] = "done"
             \/ /\ stage'[r] \in {"pre", "write"}
                /\ verdict'[r] = "none"
             \/ /\ stage'[r] = "post"
                /\ \A i \in 1..Last : i >= pos'[r] /\ services[i] = "charging"
                                        => verdict'[r] = "none"
      PROVE  ChargedLater'
  BY <1>1, <1>2 DEF ChargedLater
<1>3. ASSUME NEW r \in Requests,
             \/ Receive(r) \/ Pass(r) \/ PreFree(r) \/ PreCharging(r) \/ PreRefuse(r)
             \/ Invoke(r) \/ PostRead(r) \/ PostResultMQ(r) \/ Respond(r)
      PROVE  ChargedLater'
  <2>1. \A q \in Requests : q # r =>
          stage'[q] = stage[q] /\ pos'[q] = pos[q] /\ verdict'[q] = verdict[q]
    BY <1>3 DEF TypeOK, Receive, Pass, PreFree, PreCharging, PreRefuse, Invoke, PostRead,
       PostResultMQ, Respond, NextService, Answer
  <2>2. verdict' = verdict
    BY <1>3 DEF Receive, Pass, PreFree, PreCharging, PreRefuse, Invoke, PostRead,
       PostResultMQ, Respond
  <2>3. \/ stage'[r] = "done"
        \/ stage[r] \in {"new", "pre"} /\ stage'[r] \in {"pre", "post"}
        \/ At(r, "post", "charging") /\ stage'[r] = "write"
        \/ stage[r] = "post" /\ stage'[r] = "post" /\ pos'[r] = pos[r] + 1
    BY <1>3 DEF TypeOK, Receive, Pass, PreFree, PreCharging, PreRefuse, Invoke, PostRead,
       PostResultMQ, Respond, NextService, Answer, At
  <2>4. pos[r] \in 1..Last + 1
    BY DEF TypeOK
  <2> QED
    BY <1>2, <2>1, <2>2, <2>3, <2>4 DEF ChargedLater, At, Last
<1>4. ASSUME NEW r \in Requests,
             PostFree(r) \/ PostUnverified(r) \/ PostInsufficient(r) \/ PostWrite(r)
      PROVE  ChargedLater'
  <2>1. \A q \in Requests : q # r =>
          stage'[q] = stage[q] /\ pos'[q] = pos[q] /\ verdict'[q] = verdict[q]
    BY <1>4 DEF TypeOK, PostFree, PostUnverified, PostInsufficient, PostWrite, NextService
  <2>2. /\ stage'[r] = "post" /\ pos'[r] = pos[r] + 1
        /\ pos[r] \in 1..Last /\ services[pos[r]] = "charging"
    BY <1>4 DEF TypeOK, PostFree, PostUnverified, PostInsufficient, PostWrite, Charge,
       NextService, At, DeliveryInv, WritesInCharging, Last
  <2>3. \A i \in 1..Last : i >= pos'[r] => services[i] # "charging"
    BY <2>2 DEF DeliveryInv, Orders, Last
  <2> QED
    BY <1>2, <2>1, <2>2, <2>3
<1>5. ASSUME NEW r \in Requests, PostFail(r) PROVE ChargedLater'
  <2>1. /\ \A q \in Requests : q # r =>
             stage'[q] = stage[q] /\ pos'[q] = pos[q] /\ verdict'[q] = verdict[q]
        /\ stage'[r] = "done"
    BY <1>5 DEF TypeOK, PostFail, Answer
  <2> QED
    BY <1>2, <2>1
<1>6. CASE UNCHANGED vars
  BY <1>6 DEF vars, ChargedLater
<1> QED
  BY <1>3, <1>4, <1>5, <1>6 DEF Next, Handle

LEMMA TimesMonotonic ==
  ASSUME NEW c \in Nat, NEW m \in Nat, NEW n \in Nat, m <= n
  PROVE  c * m <= c * n
<1> DEFINE d == n - m
<1>1. d \in Nat /\ n = m + d
  OBVIOUS
<1>2. c * d \in Nat
  BY <1>1
<1>3. c * n = c * m + c * d
  BY <1>1
<1> QED
  BY <1>2, <1>3

\* A request that is answered stays so, and so does a verdict.
LEMMA SettledForGood ==
  ASSUME TypeOK, [Next]_vars, NEW q \in Requests, stage[q] = "done" \/ verdict[q] # "none"
  PROVE  stage'[q] = "done" \/ verdict'[q] # "none"
<1>1. ASSUME NEW r \in Requests,
             PostFree(r) \/ PostUnverified(r) \/ PostInsufficient(r) \/ PostWrite(r)
      PROVE  (verdict[q] # "none" => verdict'[q] # "none") /\ stage[r] # "done"
  BY <1>1 DEF TypeOK, PostFree, PostUnverified, PostInsufficient, PostWrite, Charge, At
<1>2. ASSUME NEW r \in Requests,
             \/ Receive(r) \/ Pass(r) \/ PreFree(r) \/ PreCharging(r) \/ PreRefuse(r)
             \/ Invoke(r) \/ PostRead(r) \/ PostResultMQ(r) \/ PostFail(r)
             \/ Respond(r)
      PROVE  verdict' = verdict /\ stage[r] # "done"
  BY <1>2 DEF Receive, Pass, PreFree, PreCharging, PreRefuse, Invoke, PostRead,
     PostResultMQ, PostFail, Respond, Charge, At
<1>3. ASSUME NEW r \in Requests, Handle(r), stage[r] # "done"
      PROVE  stage[q] = "done" => stage'[q] = "done"
  BY <1>3 DEF TypeOK, Handle, Receive, Pass, PreFree, PreCharging, PreRefuse, Invoke,
     PostFree, PostUnverified, PostInsufficient, PostRead, PostWrite, PostResultMQ,
     PostFail, Respond, NextService, Answer
<1>4. CASE UNCHANGED vars
  BY <1>4 DEF vars
<1> QED
  BY <1>1, <1>2, <1>3, <1>4 DEF Next, Handle

\* A step that writes no price unsettles nothing; one that does settles its request.
LEMMA PriceStep ==
  ASSUME IsFiniteSet(Requests), TypeOK, TypeOK', ChargeInv, [Next]_vars
  PROVE  OnePriceEach'
<1>1. user' = user
  BY DEF Next, Handle, Receive, Pass, PreFree, PreCharging, PreRefuse, Invoke, PostFree,
     PostUnverified, PostInsufficient, PostRead, PostWrite, PostResultMQ, PostFail,
     Respond, vars
<1>2. \A q \in Requests : stage[q] = "done" \/ verdict[q] # "none"
                            => stage'[q] = "done" \/ verdict'[q] # "none"
  BY SettledForGood
<1> SUFFICES ASSUME NEW u \in Users
             PROVE  billed'[u] <= MaxCost * Cardinality(Settled(u))'
  BY DEF OnePriceEach
<1> DEFINE n == Cardinality(Settled(u))
           next == {r \in Requests : user'[r] = u /\ (stage'[r] = "done" \/ verdict'[r] # "none")}
<1>3. /\ Settled(u)' = next
      /\ IsFiniteSet(next) /\ Cardinality(next) \in Nat
  <2>1. Settled(u)' = next
    BY DEF Settled
  <2>2. next \subseteq Requests
    OBVIOUS
  <2> QED
    BY <2>1, <2>2, FS_Subset, FS_CardinalityType
<1>4. /\ IsFiniteSet(Settled(u)) /\ n \in Nat
      /\ MaxCost \in Nat /\ billed[u] \in Nat /\ billed'[u] \in Nat
      /\ billed[u] <= MaxCost * n
  BY SettledIsFinite, ChargingAssumption DEF TypeOK, ChargeInv, OnePriceEach
<1>5. Settled(u) \subseteq next
  BY <1>1, <1>2 DEF Settled
<1>6. CASE billed'[u] = billed[u]
  <2>1. n <= Cardinality(next)
    BY <1>3, <1>5, FS_Subset
  <2>2. MaxCost * n <= MaxCost * Cardinality(next)
    BY <1>3, <1>4, <2>1, TimesMonotonic
  <2>3. MaxCost * n \in Nat /\ MaxCost * Cardinality(next) \in Nat
    BY <1>3, <1>4
  <2> QED
    BY <1>3, <1>4, <1>6, <2>2, <2>3
<1>7. ASSUME NEW r \in Requests, Charge(r), PostWrite(r) \/ PostFail(r), user[r] = u
      PROVE  billed'[u] <= MaxCost * Cardinality(Settled(u))'
  <2>1. billed'[u] = billed[u] + cost[r] /\ cost[r] \in Nat /\ cost[r] <= MaxCost
    BY <1>4, <1>7, ChargingAssumption DEF TypeOK, Charge
  <2>2. r \in next /\ r \notin Settled(u)
    <3>1. stage[r] = "write" /\ verdict[r] = "none"
      BY <1>7 DEF Charge, ChargeInv, ChargedLater
    <3>2. verdict'[r] # "none" \/ stage'[r] = "done"
      BY <1>7 DEF TypeOK, PostWrite, PostFail, Answer
    <3> QED
      BY <1>1, <1>7, <3>1, <3>2 DEF Settled
  <2>3. n + 1 <= Cardinality(next)
    <3>1. Settled(u) \union {r} \subseteq next
      BY <1>5, <2>2
    <3>2. Cardinality(Settled(u) \union {r}) = n + 1
      BY <1>4, <2>2, FS_AddElement
    <3> QED
      BY <1>3, <3>1, <3>2, FS_Subset
  <2>4. MaxCost * (n + 1) <= MaxCost * Cardinality(next)
    BY <1>3, <1>4, <2>3, TimesMonotonic
  <2>5. MaxCost * (n + 1) = MaxCost * n + MaxCost
    BY <1>4
  <2>6. MaxCost * n \in Nat /\ MaxCost * Cardinality(next) \in Nat
    BY <1>3, <1>4
  <2> QED
    BY <1>3, <1>4, <2>1, <2>4, <2>5, <2>6
<1>8. CASE \E r \in Requests : PostWrite(r) \/ (PostFail(r) /\ Charge(r))
  <2>1. PICK r \in Requests : Charge(r) /\ (PostWrite(r) \/ PostFail(r))
    BY <1>8 DEF PostWrite
  <2>2. user[r] # u => billed'[u] = billed[u]
    BY <2>1 DEF TypeOK, Charge
  <2> QED
    BY <1>6, <1>7, <2>1, <2>2
<1>9. CASE ~ \E r \in Requests : PostWrite(r) \/ (PostFail(r) /\ Charge(r))
  <2>1. billed' = billed
    BY <1>9 DEF Next, Handle, Receive, Pass, PreFree, PreCharging, PreRefuse, Invoke,
       PostFree, PostUnverified, PostInsufficient, PostRead, PostResultMQ, PostFail,
       Respond, vars
  <2> QED
    BY <1>6, <2>1
<1> QED
  BY <1>8, <1>9

LEMMA ChargeInit == ASSUME IsFiniteSet(Requests) PROVE Init => ChargeInv
<1> SUFFICES ASSUME Init PROVE ChargeInv
  OBVIOUS
<1>1. ChargedLater
  BY DEF Init, ChargedLater
<1>2. ASSUME NEW u \in Users PROVE billed[u] <= MaxCost * Cardinality(Settled(u))
  <2>1. MaxCost * Cardinality(Settled(u)) \in Nat
    BY SettledIsFinite, ChargingAssumption
  <2> QED
    BY <2>1 DEF Init
<1> QED
  BY <1>1, <1>2 DEF ChargeInv, OnePriceEach

\* However the reads and writes of its requests interleave, wherever the charging
\* service stands among the services and whatever fails, no request is charged twice,
\* and what an account has lost is at most one price for each request that was
\* charged, let off or answered.
THEOREM ChargedOnce ==
  ASSUME IsFiniteSet(Requests)
  PROVE  Spec => [](OnePriceEach /\ LossIsPriced)
<1> DEFINE IInv == TypeOK /\ MoneyInv /\ DeliveryInv /\ ChargeInv
<1>1. Init => IInv
  BY TypeInit, MoneyInit, DeliveryInit, ChargeInit
<1>2. IInv /\ [Next]_vars => IInv'
  <2> SUFFICES ASSUME IInv, [Next]_vars PROVE IInv'
    OBVIOUS
  <2>1. TypeOK' /\ MoneyInv' /\ DeliveryInv' /\ ChargedLater'
    BY TypeStep, MoneyStep, DeliveryStep, LaterStep DEF ChargeInv
  <2>2. OnePriceEach'
    BY <2>1, PriceStep
  <2> QED
    BY <2>1, <2>2 DEF ChargeInv
<1>3. IInv => OnePriceEach /\ LossIsPriced
  <2> SUFFICES ASSUME IInv PROVE LossIsPriced
    BY DEF ChargeInv
  <2> SUFFICES ASSUME NEW u \in Users
               PROVE  money[u] >= InitialMoney - MaxCost * Cardinality(Settled(u))
    BY DEF LossIsPriced
  <2>1. /\ money[u] >= InitialMoney - billed[u]
        /\ billed[u] <= MaxCost * Cardinality(Settled(u))
    BY DEF MoneyInv, NeverOvercharged, ChargeInv, OnePriceEach
  <2>2. /\ money[u] \in Int /\ billed[u] \in Nat /\ InitialMoney \in Nat
        /\ MaxCost * Cardinality(Settled(u)) \in Nat
    BY SettledIsFinite, ChargingAssumption DEF TypeOK
  <2> QED
    BY <2>1, <2>2
<1> QED
  BY <1>1, <1>2, <1>3, PTL DEF Spec

=============================================================================
