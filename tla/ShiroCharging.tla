---------------------------- MODULE ShiroCharging ----------------------------
(***************************************************************************)
(* Charging in devplat-auth-shiro: UrlHandlerAdapter reads the balance of  *)
(* the account of an /ext request once, runs the interface if there is any *)
(* money, and has MoneyChargingServiceImpl take the price of the result    *)
(* with one relative UPDATE.  No charge is lost, so nothing limits how far *)
(* the requests that read the same last money overdraw it together.        *)
(***************************************************************************)
EXTENDS Integers, FiniteSets

CONSTANTS
  Requests,
  Accounts,
  InitialMoney,
  MaxCost,      \* bound: the price of a result
  MaxTopUps     \* bound: payments of customers

ASSUME ChargingAssumption ==
  /\ IsFiniteSet(Requests)
  /\ InitialMoney \in Nat /\ MaxCost \in Nat /\ MaxTopUps \in Nat

VARIABLES
  money,      \* REMAINING_MONEY
  account,    \* the account of each request
  stage,      \* where each request is in handle
  cost,       \* incOrDec, once there is a result
  topUps,     \* payments so far
  peak        \* history: the most requests of an account that were admitted at once

vars == <<money, account, stage, cost, topUps, peak>>

TypeOK ==
  /\ money \in [Accounts -> Int]
  /\ account \in [Requests -> Accounts]
  /\ stage \in [Requests -> {"new", "invoke", "charge", "respond", "done", "refused", "failed"}]
  /\ cost \in [Requests -> 0..MaxCost]
  /\ topUps \in 0..MaxTopUps
  /\ peak \in [Accounts -> 0..Cardinality(Requests)]

Init ==
  /\ money = [a \in Accounts |-> InitialMoney]
  /\ account \in [Requests -> Accounts]
  /\ stage = [r \in Requests |-> "new"]
  /\ cost = [r \in Requests |-> 0]
  /\ topUps = 0
  /\ peak = [a \in Accounts |-> 0]

\* The requests of an account that have found money and have not paid.
Admitted(a) == {r \in Requests : account[r] = a /\ stage[r] \in {"invoke", "charge"}}

Goto(r, place) == stage' = [stage EXCEPT ![r] = place]

-----------------------------------------------------------------------------
Larger(m, n) == IF m > n THEN m ELSE n

\* Mutant: the balance is not tested.
AdmitAnyway(r) ==
  LET a == account[r] IN
  /\ stage[r] = "new"
  /\ Goto(r, "invoke")
  /\ peak' = [peak EXCEPT ![a] = Larger(@, Cardinality(Admitted(a)) + 1)]
  /\ UNCHANGED <<money, account, cost, topUps>>

\* readAccessUserControlByAccount, and the test of the balance
Admit(r) ==
  LET a == account[r] IN
  /\ stage[r] = "new"
  /\ money[a] > 0
  /\ Goto(r, "invoke")
  /\ peak' = [peak EXCEPT ![a] = Larger(@, Cardinality(Admitted(a)) + 1)]
  /\ UNCHANGED <<money, account, cost, topUps>>

Refuse(r) ==
  /\ stage[r] = "new"
  /\ money[account[r]] <= 0
  /\ Goto(r, "refused")
  /\ UNCHANGED <<money, account, cost, topUps, peak>>

\* The interface is called, and its result priced: a failure, an interface that is not
\* known, or one the account has no prices for, costs nothing.
Invoke(r) ==
  /\ stage[r] = "invoke"
  /\ cost' \in {[cost EXCEPT ![r] = price] : price \in 0..MaxCost}
  /\ Goto(r, "charge")
  /\ UNCHANGED <<money, account, topUps, peak>>

\* updateRemainingMoneyIncOrDec
Pay(r) == money' = [money EXCEPT ![account[r]] = @ - cost[r]]

Charge(r) ==
  /\ stage[r] = "charge"
  /\ Pay(r)
  /\ Goto(r, "respond")
  /\ UNCHANGED <<account, cost, topUps, peak>>

\* The database fails before or after it has taken the money.
ChargeFails(r) ==
  /\ stage[r] = "charge"
  /\ Pay(r) \/ UNCHANGED money
  /\ Goto(r, "failed")
  /\ UNCHANGED <<account, cost, topUps, peak>>

Respond(r) ==
  /\ stage[r] = "respond"
  /\ Goto(r, "done")
  /\ UNCHANGED <<money, account, cost, topUps, peak>>

\* Anything else throws, or the JVM ends.
Fail(r) ==
  /\ stage[r] \in {"new", "invoke", "respond"}
  /\ Goto(r, "failed")
  /\ UNCHANGED <<money, account, cost, topUps, peak>>

\* A payment, entered in the database.
TopUp(a) ==
  /\ topUps < MaxTopUps
  /\ topUps' = topUps + 1
  /\ money' = [money EXCEPT ![a] = @ + 1]
  /\ UNCHANGED <<account, stage, cost, peak>>

Handle(r) ==
  \/ Admit(r) \/ Refuse(r) \/ Invoke(r) \/ Charge(r) \/ ChargeFails(r)
  \/ Respond(r) \/ Fail(r)

Next == (\E r \in Requests : Handle(r)) \/ (\E a \in Accounts : TopUp(a))

Spec == Init /\ [][Next]_vars

-----------------------------------------------------------------------------
(* Properties *)

\* An account is overdrawn by less than one price for each of the requests that it had
\* at the same time when it had most of them, however many it makes one after another.
OverdraftBounded ==
  \A a \in Accounts : money[a] < 0 => -money[a] < MaxCost * peak[a]

=============================================================================
