------------------------- MODULE ShiroChargingProofs -------------------------
(***************************************************************************)
(* Theorems of ShiroCharging for any requests, accounts, prices and        *)
(* payments.                                                               *)
(***************************************************************************)
EXTENDS ShiroCharging, FiniteSetTheorems, TLAPS

-----------------------------------------------------------------------------
(* Counting the admitted requests *)

LEMMA AdmittedIsFinite ==
  ASSUME NEW a \in Accounts
  PROVE  /\ IsFiniteSet(Admitted(a))
         /\ Cardinality(Admitted(a)) \in 0..Cardinality(Requests)
<1>1. Admitted(a) \subseteq Requests
  BY DEF Admitted
<1>2. IsFiniteSet(Admitted(a)) /\ Cardinality(Admitted(a)) <= Cardinality(Requests)
  BY <1>1, FS_Subset, ChargingAssumption
<1>3. Cardinality(Admitted(a)) \in Nat /\ Cardinality(Requests) \in Nat
  BY <1>2, FS_CardinalityType, ChargingAssumption
<1> QED
  BY <1>2, <1>3

\* A request that is admitted makes one more.
LEMMA OneMore ==
  ASSUME TypeOK, NEW r \in Requests, Admit(r), NEW a \in Accounts
  PROVE  Cardinality(Admitted(a))' =
           IF a = account[r] THEN Cardinality(Admitted(a)) + 1 ELSE Cardinality(Admitted(a))
<1>1. CASE a = account[r]
  <2>1. r \notin Admitted(a) /\ Admitted(a)' = Admitted(a) \union {r}
    BY <1>1 DEF Admit, Goto, Admitted, TypeOK
  <2> QED
    BY <1>1, <2>1, AdmittedIsFinite, FS_AddElement
<1>2. CASE a # account[r]
  <2>1. Admitted(a)' = Admitted(a)
    BY <1>2 DEF Admit, Goto, Admitted, TypeOK
  <2> QED
    BY <1>2, <2>1
<1> QED
  BY <1>1, <1>2

\* One that leaves makes one less.
LEMMA OneLess ==
  ASSUME TypeOK, NEW r \in Requests, stage[r] \in {"invoke", "charge"},
         NEW place, place \notin {"invoke", "charge"}, Goto(r, place),
         UNCHANGED account, NEW a \in Accounts
  PROVE  Cardinality(Admitted(a))' =
           IF a = account[r] THEN Cardinality(Admitted(a)) - 1 ELSE Cardinality(Admitted(a))
<1>1. CASE a = account[r]
  <2>1. r \in Admitted(a) /\ Admitted(a)' = Admitted(a) \ {r}
    BY <1>1 DEF Goto, Admitted, TypeOK
  <2> QED
    BY <1>1, <2>1, AdmittedIsFinite, FS_RemoveElement
<1>2. CASE a # account[r]
  <2>1. Admitted(a)' = Admitted(a)
    BY <1>2 DEF Goto, Admitted, TypeOK
  <2> QED
    BY <1>2, <2>1
<1> QED
  BY <1>1, <1>2

\* All others leave the number as it is.
LEMMA AsMany ==
  ASSUME TypeOK, NEW r \in Requests,
         Refuse(r) \/ Invoke(r) \/ Respond(r) \/ (Fail(r) /\ stage[r] # "invoke"),
         NEW a \in Accounts
  PROVE  Admitted(a)' = Admitted(a)
BY DEF Refuse, Invoke, Respond, Fail, Goto, Admitted, TypeOK

-----------------------------------------------------------------------------
(* Type correctness *)

LEMMA TypeInit == Init => TypeOK
BY ChargingAssumption, FS_CardinalityType DEF Init, TypeOK

LEMMA AdmitType == ASSUME TypeOK, NEW r \in Requests, Admit(r) PROVE TypeOK'
<1> DEFINE a == account[r]
           n == Cardinality(Admitted(a))
<1>1. a \in Accounts
  BY DEF TypeOK
<1>2. n + 1 \in 0..Cardinality(Requests)
  <2>1. Cardinality(Admitted(a))' \in 0..Cardinality(Requests)
    <3>1. Admitted(a)' \subseteq Requests
      BY DEF Admitted
    <3>2. IsFiniteSet(Admitted(a)') /\ Cardinality(Admitted(a)') <= Cardinality(Requests)
      BY <3>1, FS_Subset, ChargingAssumption
    <3> QED
      BY <3>2, FS_CardinalityType, ChargingAssumption
  <2>2. Cardinality(Admitted(a))' = n + 1
    <3>1. r \notin Admitted(a) /\ Admitted(a)' = Admitted(a) \union {r}
      BY DEF Admit, Goto, Admitted, TypeOK
    <3> QED
      BY <1>1, <3>1, AdmittedIsFinite, FS_AddElement
  <2> QED
    BY <2>1, <2>2
<1>3. peak[a] \in 0..Cardinality(Requests)
  BY <1>1 DEF TypeOK
<1>4. peak' = [peak EXCEPT ![a] = Larger(peak[a], n + 1)]
  BY DEF Admit
<1>5. Larger(peak[a], n + 1) \in 0..Cardinality(Requests)
  BY <1>2, <1>3 DEF Larger
<1>6. peak' \in [Accounts -> 0..Cardinality(Requests)]
  BY <1>4, <1>5 DEF TypeOK
<1> QED
  BY <1>6 DEF Admit, Goto, TypeOK

LEMMA TypeStep == TypeOK /\ [Next]_vars => TypeOK'
<1> SUFFICES ASSUME TypeOK, [Next]_vars PROVE TypeOK'
  OBVIOUS
<1> USE ChargingAssumption
<1>1. ASSUME NEW r \in Requests, Admit(r) PROVE TypeOK'
  BY <1>1, AdmitType
<1>2. ASSUME NEW r \in Requests, Refuse(r) PROVE TypeOK'
  BY <1>2 DEF Refuse, Goto, TypeOK
<1>3. ASSUME NEW r \in Requests, Invoke(r) PROVE TypeOK'
  BY <1>3 DEF Invoke, Goto, TypeOK
<1>4. ASSUME NEW r \in Requests, Charge(r) PROVE TypeOK'
  BY <1>4 DEF Charge, Pay, Goto, TypeOK
<1>5. ASSUME NEW r \in Requests, ChargeFails(r) PROVE TypeOK'
  BY <1>5 DEF ChargeFails, Pay, Goto, TypeOK
<1>6. ASSUME NEW r \in Requests, Respond(r) PROVE TypeOK'
  BY <1>6 DEF Respond, Goto, TypeOK
<1>7. ASSUME NEW r \in Requests, Fail(r) PROVE TypeOK'
  BY <1>7 DEF Fail, Goto, TypeOK
<1>8. ASSUME NEW a \in Accounts, TopUp(a) PROVE TypeOK'
  BY <1>8 DEF TopUp, TypeOK
<1>9. CASE UNCHANGED vars
  BY <1>9 DEF vars, TypeOK
<1> QED
  BY <1>1, <1>2, <1>3, <1>4, <1>5, <1>6, <1>7, <1>8, <1>9 DEF Next, Handle

\* The balance stays a number, every request in one stage of handle, and a peak within
\* the number of requests.
THEOREM TypeCorrect == Spec => []TypeOK
BY TypeInit, TypeStep, PTL DEF Spec

-----------------------------------------------------------------------------
(* The bound of the overdraft *)

\* What the admitted requests of an account can still take leaves less than one price
\* for each of the others that were admitted at the peak.
Reserve(a) ==
  LET n == Cardinality(Admitted(a)) IN
  /\ n <= peak[a]
  /\ peak[a] = 0 => money[a] >= 0
  /\ peak[a] > 0 => money[a] + MaxCost * (peak[a] - n) > 0

ReserveInv == \A a \in Accounts : Reserve(a)

LEMMA Product ==
  ASSUME NEW c \in Nat, NEW d \in Nat, NEW n \in Nat
  PROVE  c * d >= 0 /\ c * (d + 1) = c * d + c /\ c * (d + n) = c * d + c * n
OBVIOUS

LEMMA ReserveInit == Init => ReserveInv
<1> SUFFICES ASSUME Init, NEW a \in Accounts PROVE Reserve(a)
  BY DEF ReserveInv
<1>1. Admitted(a) = {}
  BY DEF Init, Admitted
<1>2. Cardinality(Admitted(a)) = 0
  BY <1>1, FS_EmptySet
<1> QED
  BY <1>2, ChargingAssumption DEF Init, Reserve

\* The balance falls by at most one price when a request leaves.
LEMMA ReserveWhenLeaving ==
  ASSUME TypeOK, ReserveInv, NEW r \in Requests, stage[r] \in {"invoke", "charge"},
         NEW place, place \notin {"invoke", "charge"}, Goto(r, place),
         UNCHANGED <<account, peak>>, Pay(r) \/ UNCHANGED money, NEW a \in Accounts
  PROVE  Reserve(a)'
<1> DEFINE n == Cardinality(Admitted(a))
<1>1. n \in Nat /\ peak[a] \in Nat /\ money[a] \in Int /\ cost[r] \in 0..MaxCost
  BY AdmittedIsFinite, ChargingAssumption, FS_CardinalityType DEF TypeOK
<1>2. Reserve(a)
  BY DEF ReserveInv
<1>3. CASE a = account[r]
  <2>1. Cardinality(Admitted(a))' = n - 1 /\ n - 1 \in Nat
    <3>1. Cardinality(Admitted(a))' = n - 1
      BY <1>3, OneLess
    <3>2. Admitted(a)' \subseteq Requests
      BY DEF Admitted
    <3> QED
      BY <3>1, <3>2, FS_Subset, FS_CardinalityType, ChargingAssumption
  <2>2. money'[a] >= money[a] - MaxCost
    BY <1>1, <1>3, ChargingAssumption DEF Pay, TypeOK
  <2>3. peak'[a] = peak[a] /\ money'[a] \in Int
    BY <1>1, <1>3, ChargingAssumption DEF Pay, TypeOK
  <2>4. n <= peak[a] /\ peak[a] - n \in Nat
    BY <1>1, <1>2 DEF Reserve
  <2>5. MaxCost * (peak[a] - (n - 1)) = MaxCost * (peak[a] - n) + MaxCost
    BY <1>1, <2>4, Product, ChargingAssumption, (peak[a] - n) + 1 = peak[a] - (n - 1)
  <2>6. peak[a] > 0 /\ money[a] + MaxCost * (peak[a] - n) > 0
    BY <1>1, <1>2, <2>1, <2>4 DEF Reserve
  <2>7. MaxCost * (peak[a] - n) \in Int
    BY <1>1, ChargingAssumption
  <2>8. money'[a] + MaxCost * (peak[a] - (n - 1)) > 0
    BY <1>1, <2>2, <2>3, <2>5, <2>6, <2>7, ChargingAssumption
  <2> QED
    BY <1>1, <2>1, <2>3, <2>4, <2>6, <2>8 DEF Reserve
<1>4. CASE a # account[r]
  <2>1. Cardinality(Admitted(a))' = n
    BY <1>4, OneLess
  <2>2. money'[a] = money[a] /\ peak'[a] = peak[a]
    BY <1>4 DEF Pay, TypeOK
  <2> QED
    BY <1>2, <2>1, <2>2 DEF Reserve
<1> QED
  BY <1>3, <1>4

LEMMA ReserveWhenAdmitted ==
  ASSUME TypeOK, ReserveInv, NEW r \in Requests, Admit(r), NEW a \in Accounts
  PROVE  Reserve(a)'
<1> DEFINE n == Cardinality(Admitted(a))
<1>1. n \in Nat /\ peak[a] \in Nat /\ money[a] \in Int /\ MaxCost \in Nat
  BY AdmittedIsFinite, ChargingAssumption, FS_CardinalityType DEF TypeOK
<1>2. Reserve(a) /\ money' = money
  BY DEF ReserveInv, Admit
<1>3. CASE a = account[r]
  <2>1. Cardinality(Admitted(a))' = n + 1
    BY <1>3, OneMore
  <2>2. peak'[a] = Larger(peak[a], n + 1) /\ money[a] > 0
    BY <1>3 DEF Admit, TypeOK
  <2>3. peak'[a] \in Nat /\ peak'[a] - (n + 1) \in Nat
    BY <1>1, <2>2 DEF Larger
  <2>4. MaxCost * (peak'[a] - (n + 1)) >= 0
    BY <1>1, <2>3, Product
  <2>5. MaxCost * (peak'[a] - (n + 1)) \in Int
    BY <1>1, <2>3
  <2>6. money[a] + MaxCost * (peak'[a] - (n + 1)) > 0
    BY <1>1, <2>2, <2>4, <2>5
  <2> QED
    BY <1>1, <1>2, <2>1, <2>2, <2>3, <2>6 DEF Reserve
<1>4. CASE a # account[r]
  <2>1. Cardinality(Admitted(a))' = n
    BY <1>4, OneMore
  <2>2. peak'[a] = peak[a]
    BY <1>4 DEF Admit, TypeOK
  <2> QED
    BY <1>2, <2>1, <2>2 DEF Reserve
<1> QED
  BY <1>3, <1>4

LEMMA ReserveStep == TypeOK /\ ReserveInv /\ [Next]_vars => ReserveInv'
<1> SUFFICES ASSUME TypeOK, ReserveInv, [Next]_vars, NEW a \in Accounts PROVE Reserve(a)'
  BY DEF ReserveInv
<1>0. Reserve(a)
  BY DEF ReserveInv
<1>1. ASSUME NEW r \in Requests, Admit(r) PROVE Reserve(a)'
  BY <1>1, ReserveWhenAdmitted
<1>2. ASSUME NEW r \in Requests,
             Refuse(r) \/ Invoke(r) \/ Respond(r) \/ (Fail(r) /\ stage[r] # "invoke")
      PROVE  Reserve(a)'
  <2>1. Admitted(a)' = Admitted(a)
    BY <1>2, AsMany
  <2>2. UNCHANGED <<money, peak>>
    BY <1>2 DEF Refuse, Invoke, Respond, Fail
  <2> QED
    BY <1>0, <2>1, <2>2 DEF Reserve
<1>3. ASSUME NEW r \in Requests, Fail(r), stage[r] = "invoke" PROVE Reserve(a)'
  BY <1>3, ReserveWhenLeaving DEF Fail
<1>4. ASSUME NEW r \in Requests, Charge(r) PROVE Reserve(a)'
  BY <1>4, ReserveWhenLeaving DEF Charge
<1>5. ASSUME NEW r \in Requests, ChargeFails(r) PROVE Reserve(a)'
  BY <1>5, ReserveWhenLeaving DEF ChargeFails
<1>6. ASSUME NEW b \in Accounts, TopUp(b) PROVE Reserve(a)'
  <2>1. Admitted(a)' = Admitted(a) /\ peak' = peak
    BY <1>6 DEF TopUp, Admitted
  <2>2. money[a] \in Int /\ money'[a] \in {money[a], money[a] + 1}
    BY <1>6 DEF TopUp, TypeOK
  <2>3. Cardinality(Admitted(a)) \in Nat /\ peak[a] \in Nat /\ MaxCost \in Nat
    BY AdmittedIsFinite, ChargingAssumption, FS_CardinalityType DEF TypeOK
  <2> DEFINE n == Cardinality(Admitted(a))
             owed == MaxCost * (peak[a] - n)
  <2>4. owed \in Int
    BY <2>3
  <2>5. /\ n <= peak[a]
        /\ peak[a] = 0 => money'[a] >= 0
        /\ peak[a] > 0 => money'[a] + owed > 0
    <3>1. /\ n <= peak[a]
          /\ peak[a] = 0 => money[a] >= 0
          /\ peak[a] > 0 => money[a] + owed > 0
      BY <1>0 DEF Reserve
    <3> HIDE DEF n, owed
    <3> QED
      BY <2>2, <2>3, <2>4, <3>1
  <2>6. Cardinality(Admitted(a))' = n
    BY <2>1
  <2> QED
    BY <2>1, <2>5, <2>6 DEF Reserve
<1>7. CASE UNCHANGED vars
  <2>1. Admitted(a)' = Admitted(a) /\ UNCHANGED <<money, peak>>
    BY <1>7 DEF vars, Admitted
  <2> QED
    BY <1>0, <2>1 DEF Reserve
<1> QED
  BY <1>1, <1>2, <1>3, <1>4, <1>5, <1>6, <1>7 DEF Next, Handle

LEMMA ReserveIsEnough == TypeOK /\ ReserveInv => OverdraftBounded
<1> SUFFICES ASSUME TypeOK, ReserveInv, NEW a \in Accounts, money[a] < 0
             PROVE  -money[a] < MaxCost * peak[a]
  BY DEF OverdraftBounded
<1> DEFINE n == Cardinality(Admitted(a))
           d == peak[a] - n
<1>1. n \in Nat /\ peak[a] \in Nat /\ money[a] \in Int /\ MaxCost \in Nat
  BY AdmittedIsFinite, ChargingAssumption, FS_CardinalityType DEF TypeOK
<1>2. d \in Nat /\ peak[a] = d + n /\ money[a] + MaxCost * d > 0
  BY <1>1 DEF ReserveInv, Reserve
<1>3. MaxCost * peak[a] = MaxCost * d + MaxCost * n /\ MaxCost * n >= 0
  BY <1>1, <1>2, Product
<1>4. MaxCost * d \in Int /\ MaxCost * n \in Int
  BY <1>1, <1>2
<1> HIDE DEF n, d
<1> QED
  BY <1>1, <1>2, <1>3, <1>4

\* For any number of requests, accounts and payments, an account is overdrawn by less
\* than one price for each of the requests it had at once, although no charge is lost.
THEOREM OverdraftIsBounded == Spec => []OverdraftBounded
<1>1. Init => TypeOK /\ ReserveInv
  BY TypeInit, ReserveInit
<1>2. TypeOK /\ ReserveInv /\ [Next]_vars => (TypeOK /\ ReserveInv)'
  BY TypeStep, ReserveStep
<1> QED
  BY <1>1, <1>2, ReserveIsEnough, PTL DEF Spec

-----------------------------------------------------------------------------
(* A request that is charged twice *)

\* The requests of an account that have been charged or have failed.
Charged(a) ==
  {r \in Requests : account[r] = a /\ stage[r] \in {"respond", "done", "failed"}}

\* What is gone from an account is at most one price for each of them.
LossIsPriced ==
  \A a \in Accounts : money[a] >= InitialMoney - MaxCost * Cardinality(Charged(a))

LEMMA ChargedIsFinite ==
  ASSUME NEW a
  PROVE  IsFiniteSet(Charged(a)) /\ Cardinality(Charged(a)) \in Nat
<1>1. Charged(a) \subseteq Requests
  BY DEF Charged
<1> QED
  BY <1>1, FS_Subset, FS_CardinalityType, ChargingAssumption

LEMMA ChargedType ==
  ASSUME TypeOK, NEW a \in Accounts
  PROVE  /\ money[a] \in Int /\ InitialMoney \in Nat /\ MaxCost \in Nat
         /\ MaxCost * Cardinality(Charged(a)) \in Nat
BY ChargedIsFinite, ChargingAssumption DEF TypeOK

\* Charge and ChargeFails take a price from an account that has one more charged request.
LEMMA LossWhenCharging ==
  ASSUME TypeOK, LossIsPriced, NEW r \in Requests, Charge(r) \/ ChargeFails(r)
  PROVE  LossIsPriced'
<1> SUFFICES ASSUME NEW a \in Accounts
             PROVE  money'[a] >= InitialMoney - MaxCost * Cardinality(Charged(a))'
  BY DEF LossIsPriced
<1> DEFINE n == Cardinality(Charged(a))
<1>1. money[a] >= InitialMoney - MaxCost * n
  BY DEF LossIsPriced
<1>2. /\ stage[r] = "charge" /\ account' = account
      /\ stage' \in {[stage EXCEPT ![r] = "respond"], [stage EXCEPT ![r] = "failed"]}
      /\ Pay(r) \/ UNCHANGED money
  BY DEF Charge, ChargeFails, Goto
<1>3. CASE a = account[r]
  <2>1. r \notin Charged(a) /\ Charged(a)' = Charged(a) \union {r}
    BY <1>2, <1>3 DEF Charged, TypeOK
  <2>2. Cardinality(Charged(a))' = n + 1
    BY <2>1, ChargedIsFinite, FS_AddElement
  <2>3. money'[a] >= money[a] - MaxCost /\ money'[a] \in Int
    BY <1>2, <1>3, ChargingAssumption DEF Pay, TypeOK
  <2>4. n \in Nat /\ MaxCost * (n + 1) = MaxCost * n + MaxCost
    BY ChargedIsFinite, Product, ChargingAssumption
  <2> QED
    BY <1>1, <2>2, <2>3, <2>4, ChargedType
<1>4. CASE a # account[r]
  <2>1. Charged(a)' = Charged(a)
    BY <1>2, <1>4 DEF Charged, TypeOK
  <2>2. money'[a] = money[a]
    BY <1>2, <1>4 DEF Pay, TypeOK
  <2> QED
    BY <1>1, <2>1, <2>2
<1> QED
  BY <1>3, <1>4

\* Every other step takes nothing, and no request that was charged is charged anew.
LEMMA LossOtherwise ==
  ASSUME TypeOK, LossIsPriced, account' = account,
         \A a \in Accounts : money'[a] \in Int /\ money'[a] >= money[a],
         \A r \in Requests : stage[r] \in {"respond", "done", "failed"}
                               => stage'[r] \in {"respond", "done", "failed"}
  PROVE  LossIsPriced'
<1> SUFFICES ASSUME NEW a \in Accounts
             PROVE  money'[a] >= InitialMoney - MaxCost * Cardinality(Charged(a))'
  BY DEF LossIsPriced
<1> DEFINE n == Cardinality(Charged(a))
           later == {r \in Requests : account[r] = a
                                      /\ stage'[r] \in {"respond", "done", "failed"}}
           k == Cardinality(later)
<1>1. Charged(a)' = later /\ Charged(a) \subseteq later /\ later \subseteq Requests
  BY DEF Charged
<1>2. n \in Nat /\ k \in Nat /\ n <= k
  BY <1>1, ChargedIsFinite, FS_Subset, FS_CardinalityType, ChargingAssumption
<1>3. k - n \in Nat /\ n + (k - n) = k
  BY <1>2
<1>4. MaxCost * k = MaxCost * n + MaxCost * (k - n) /\ MaxCost * (k - n) >= 0
  BY <1>2, <1>3, Product, ChargingAssumption
<1>5. MaxCost * k \in Nat /\ MaxCost * n \in Nat /\ MaxCost * (k - n) \in Nat
  BY <1>2, <1>3, ChargingAssumption
<1>6. /\ money[a] >= InitialMoney - MaxCost * n
      /\ money[a] \in Int /\ InitialMoney \in Nat
      /\ money'[a] \in Int /\ money'[a] >= money[a]
  BY ChargedType DEF LossIsPriced
<1> HIDE DEF n, k
<1>7. money'[a] >= InitialMoney - MaxCost * k
  BY <1>4, <1>5, <1>6
<1> QED
  BY <1>1, <1>7 DEF k

LEMMA LossStep == TypeOK /\ LossIsPriced /\ [Next]_vars => LossIsPriced'
<1> SUFFICES ASSUME TypeOK, LossIsPriced, [Next]_vars PROVE LossIsPriced'
  OBVIOUS
<1>1. ASSUME NEW r \in Requests, Charge(r) \/ ChargeFails(r) PROVE LossIsPriced'
  BY <1>1, LossWhenCharging
<1>2. ASSUME NEW r \in Requests,
             Admit(r) \/ Refuse(r) \/ Invoke(r) \/ Respond(r) \/ Fail(r)
      PROVE  LossIsPriced'
  <2>1. UNCHANGED <<account, money>>
    BY <1>2 DEF Admit, Refuse, Invoke, Respond, Fail
  <2>2. \A q \in Requests : stage[q] \in {"respond", "done", "failed"}
                              => stage'[q] \in {"respond", "done", "failed"}
    BY <1>2 DEF TypeOK, Admit, Refuse, Invoke, Respond, Fail, Goto
  <2> QED
    BY <2>1, <2>2, LossOtherwise DEF TypeOK
<1>3. ASSUME NEW a \in Accounts, TopUp(a) PROVE LossIsPriced'
  <2>1. /\ UNCHANGED <<account, stage>>
        /\ \A b \in Accounts : money'[b] \in Int /\ money'[b] >= money[b]
    BY <1>3 DEF TopUp, TypeOK
  <2> QED
    BY <2>1, LossOtherwise
<1>4. CASE UNCHANGED vars
  BY <1>4, LossOtherwise DEF vars, TypeOK
<1> QED
  BY <1>1, <1>2, <1>3, <1>4 DEF Next, Handle

LEMMA LossInit == Init => LossIsPriced
<1> SUFFICES ASSUME Init, NEW a \in Accounts
             PROVE  money[a] >= InitialMoney - MaxCost * Cardinality(Charged(a))
  BY DEF LossIsPriced
<1>1. TypeOK
  BY TypeInit
<1> QED
  BY <1>1, ChargedType DEF Init

\* The relative UPDATE is carried out at most once for a request, by whatever requests
\* it is overtaken and wherever it fails: an account loses at most a price for each.
THEOREM ChargedOnce == Spec => []LossIsPriced
BY LossInit, LossStep, TypeInit, TypeStep, PTL DEF Spec

=============================================================================
