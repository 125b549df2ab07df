-------------------------- MODULE RequestCharging ---------------------------
(***************************************************************************)
(* A request of devplat-auth: UrlHandlerAdapter.handle runs preHandle of   *)
(* every IRequestService, the controller's method, postHandle of every     *)
(* service, and writes the response.  ChargingServiceImpl refuses a request *)
(* of an account without money and afterwards takes the price from the     *)
(* account, by reading remainingMoney and writing back the difference;     *)
(* ResultMQServiceImpl records the request in the access queue;            *)
(* SensitiveWordServiceImpl refuses sensitive queries.                     *)
(*                                                                         *)
(* Requests run concurrently, on threads of one or several web nodes, and  *)
(* meet only in the database.  Each read and each write of it is a step.   *)
(***************************************************************************)
EXTENDS Integers

CONSTANTS
  Requests,         \* bound: the requests that ever arrive
  OrgUsers,         \* accounts that call the interfaces, logged in
  ExtUsers,         \* accounts that call /ext with an accessId
  InitialMoney,     \* remainingMoney of every account at first
  MaxCost           \* bound: the price of the dearest request

Users == OrgUsers \union ExtUsers
Services == {"charging", "resultMQ", "sensitiveWord"}
Last == 3           \* how many services there are

ASSUME ChargingAssumption ==
  /\ InitialMoney \in Nat
  /\ MaxCost \in Nat
  /\ Users # {}

VARIABLES
  services,     \* requestServiceList: the beans, in the order of the context
  money,        \* T_USER_ATTRIBUTE, key remainingMoney
  accessQueue,  \* the requests that have a message in the requestAccess queue
  stage,        \* where each request is in handle
  pos,          \* its place in requestServiceList
  user,         \* its account
  inResource,   \* its attribute isInResource
  cost,         \* incOrDec
  seen,         \* the remainingMoney postHandle has read
  verdict,      \* what ChargingServiceImpl.postHandle has returned for it
  response,     \* what the client gets
  billed,       \* history: the sum of the prices written for each account
  overtaken,    \* history: requests whose account has paid a price since preHandle
  overlapped    \* history: accounts that two requests charged at the same time

vars == <<services, money, accessQueue, stage, pos, user, inResource, cost, seen,
          verdict, response, billed, overtaken, overlapped>>

Orders == {o \in [1..Last -> Services] : \A i, j \in 1..Last : i # j => o[i] # o[j]}

TypeOK ==
  /\ services \in [1..Last -> Services]
  /\ money \in [Users -> Int]
  /\ accessQueue \in SUBSET Requests
  /\ stage \in [Requests -> {"new", "pre", "post", "write", "done"}]
  /\ pos \in [Requests -> 1..Last + 1]
  /\ user \in [Requests -> Users]
  /\ inResource \in [Requests -> BOOLEAN]
  /\ cost \in [Requests -> 0..MaxCost]
  /\ seen \in [Requests -> Int]
  /\ verdict \in [Requests -> {"none", "true", "unverified", "insufficient"}]
  /\ response \in [Requests -> {"none", "result", "failure"}]
  /\ billed \in [Users -> Nat]
  /\ overtaken \in SUBSET Requests
  /\ overlapped \in SUBSET Users
  /\ \A r \in Requests : stage[r] = "write" => pos[r] <= Last

Init ==
  /\ services \in Orders
  /\ money = [u \in Users |-> InitialMoney]
  /\ accessQueue = {}
  /\ stage = [r \in Requests |-> "new"]
  /\ pos = [r \in Requests |-> 1]
  /\ user \in [Requests -> Users]
  /\ inResource = [r \in Requests |-> FALSE]
  /\ cost = [r \in Requests |-> 0]
  /\ seen = [r \in Requests |-> 0]
  /\ verdict = [r \in Requests |-> "none"]
  /\ response = [r \in Requests |-> "none"]
  /\ billed = [u \in Users |-> 0]
  /\ overtaken = {}
  /\ overlapped = {}

At(r, s, service) ==
  /\ stage[r] = s
  /\ pos[r] <= Last
  /\ services[pos[r]] = service

\* Mutant: a service that has passed is skipped together with the next one.
NextButOne(r) ==
  /\ pos' = [pos EXCEPT ![r] = @ + 2]
  /\ UNCHANGED stage

NextService(r) ==
  /\ pos' = [pos EXCEPT ![r] = @ + 1]
  /\ UNCHANGED stage

\* The client is answered; the request and its attributes are gone.
Answer(r, what) ==
  /\ stage' = [stage EXCEPT ![r] = "done"]
  /\ response' = [response EXCEPT ![r] = what]
  /\ pos' = [pos EXCEPT ![r] = 1]
  /\ inResource' = [inResource EXCEPT ![r] = FALSE]
  /\ cost' = [cost EXCEPT ![r] = 0]
  /\ seen' = [seen EXCEPT ![r] = 0]

Receive(r) ==
  /\ stage[r] = "new"
  /\ stage' = [stage EXCEPT ![r] = "pre"]
  /\ UNCHANGED <<services, money, accessQueue, pos, user, inResource, cost, seen,
                 verdict, response, billed, overtaken, overlapped>>

\* A service that has nothing to do here, or nothing to object.
Pass(r) ==
  /\ \/ At(r, "pre", "sensitiveWord") \/ At(r, "pre", "resultMQ")
     \/ At(r, "post", "sensitiveWord")
  /\ NextService(r)
  /\ UNCHANGED <<services, money, accessQueue, user, inResource, cost, seen,
                 verdict, response, billed, overtaken, overlapped>>

-----------------------------------------------------------------------------
(* preHandle *)

\* ChargingServiceImpl.preHandle of an interface that is not a resource, or of /app.
PreFree(r) ==
  /\ At(r, "pre", "charging")
  /\ user[r] \in OrgUsers
  /\ inResource' = [inResource EXCEPT ![r] = FALSE]
  /\ NextService(r)
  /\ UNCHANGED <<services, money, accessQueue, user, cost, seen, verdict, response,
                 billed, overtaken, overlapped>>

\* Mutant: the account is not tested.
AnyAccount(r) == TRUE

HasMoney(r) == money[user[r]] > 0

\* Mutant: only postHandle tests the account.
PreUntested(r) ==
  /\ At(r, "pre", "charging")
  /\ inResource' = [inResource EXCEPT ![r] = TRUE]
  /\ overtaken' = overtaken \ {r}
  /\ NextService(r)
  /\ UNCHANGED <<services, money, accessQueue, user, cost, seen, verdict, response,
                 billed, overlapped>>

\* Of a resource: the account must have money.
PreCharging(r) ==
  /\ At(r, "pre", "charging")
  /\ HasMoney(r)
  /\ inResource' = [inResource EXCEPT ![r] = TRUE]
  /\ overtaken' = overtaken \ {r}
  /\ NextService(r)
  /\ UNCHANGED <<services, money, accessQueue, user, cost, seen, verdict, response,
                 billed, overlapped>>

\* A service refuses the request, or throws: nobody is logged in, the account or the
\* resource does not exist, the balance is used up, a word is sensitive, or the
\* database or Redis does not answer.  No postHandle runs.
PreRefuse(r) ==
  /\ At(r, "pre", "charging") \/ At(r, "pre", "sensitiveWord")
  /\ Answer(r, "failure")
  /\ UNCHANGED <<services, money, accessQueue, user, verdict, billed, overtaken, overlapped>>

\* The controller's method returns a result, a failure being one of them.
Invoke(r) ==
  /\ stage[r] = "pre"
  /\ pos[r] > Last
  /\ stage' = [stage EXCEPT ![r] = "post"]
  /\ pos' = [pos EXCEPT ![r] = 1]
  /\ UNCHANGED <<services, money, accessQueue, user, inResource, cost, seen,
                 verdict, response, billed, overtaken, overlapped>>

-----------------------------------------------------------------------------
(* postHandle *)

\* ChargingServiceImpl.postHandle of a request that is free.
PostFree(r) ==
  /\ At(r, "post", "charging")
  /\ ~inResource[r]
  /\ verdict' = [verdict EXCEPT ![r] = "true"]
  /\ NextService(r)
  /\ UNCHANGED <<services, money, accessQueue, user, inResource, cost, seen,
                 response, billed, overtaken, overlapped>>

\* The session has lost its user meanwhile, or an /ext resource has no price: it
\* returns false with an exception, which handle does not look at.
PostUnverified(r) ==
  /\ At(r, "post", "charging")
  /\ inResource[r]
  /\ verdict' = [verdict EXCEPT ![r] = "unverified"]
  /\ NextService(r)
  /\ UNCHANGED <<services, money, accessQueue, user, inResource, cost, seen,
                 response, billed, overtaken, overlapped>>

\* calculateIncOrDec gives the price of the result, 0 when there is none for its code.
\* Then the money is read: none is left, and false is returned ...
PostInsufficient(r) ==
  /\ At(r, "post", "charging")
  /\ inResource[r]
  /\ ~HasMoney(r)
  /\ \E c \in 0..MaxCost : cost' = [cost EXCEPT ![r] = c]
  /\ verdict' = [verdict EXCEPT ![r] = "insufficient"]
  /\ NextService(r)
  /\ UNCHANGED <<services, money, accessQueue, user, inResource, seen,
                 response, billed, overtaken, overlapped>>

Writing(u) == {r \in Requests : stage[r] = "write" /\ user[r] = u}

\* ... or what is left is kept for the subtraction.
PostRead(r) ==
  /\ At(r, "post", "charging")
  /\ inResource[r]
  /\ HasMoney(r)
  /\ \E c \in 0..MaxCost : cost' = [cost EXCEPT ![r] = c]
  /\ seen' = [seen EXCEPT ![r] = money[user[r]]]
  /\ stage' = [stage EXCEPT ![r] = "write"]
  /\ overlapped' = IF Writing(user[r]) = {} THEN overlapped
                                           ELSE overlapped \union {user[r]}
  /\ UNCHANGED <<services, money, accessQueue, pos, user, inResource, verdict,
                 response, billed, overtaken>>

\* Mutant: the price is taken twice.
RemainingTwice(r) == seen[r] - 2 * cost[r]

\* Mutant: an account cannot go below zero.
RemainingNotBelowZero(r) == IF cost[r] > seen[r] THEN 0 ELSE seen[r] - cost[r]

Remaining(r) == seen[r] - cost[r]

\* updateRemainingMoneyByUserId: the difference is written, also when the price is 0.
Charge(r) ==
  /\ stage[r] = "write"
  /\ money' = [money EXCEPT ![user[r]] = Remaining(r)]
  /\ billed' = [billed EXCEPT ![user[r]] = @ + cost[r]]
  /\ overtaken' = IF cost[r] > 0 THEN overtaken \union {q \in Requests : user[q] = user[r]}
                                ELSE overtaken

PostWrite(r) ==
  /\ Charge(r)
  /\ verdict' = [verdict EXCEPT ![r] = "true"]
  /\ stage' = [stage EXCEPT ![r] = "post"]
  /\ pos' = [pos EXCEPT ![r] = @ + 1]
  /\ UNCHANGED <<services, accessQueue, user, inResource, cost, seen, response, overlapped>>

\* Mutant: the access queue is best effort.
PostResultMQLossy(r) ==
  /\ At(r, "post", "resultMQ")
  /\ accessQueue' \in {accessQueue, accessQueue \union {r}}
  /\ NextService(r)
  /\ UNCHANGED <<services, money, user, inResource, cost, seen, verdict, response,
                 billed, overtaken, overlapped>>

\* ResultMQServiceImpl.postHandle.
PostResultMQ(r) ==
  /\ At(r, "post", "resultMQ")
  /\ accessQueue' = accessQueue \union {r}
  /\ NextService(r)
  /\ UNCHANGED <<services, money, user, inResource, cost, seen, verdict, response,
                 billed, overtaken, overlapped>>

\* A service throws: the price of an interface is missing, the database or Redis does
\* not answer, whether or not it has done what it was asked.  The services after it
\* are skipped and the result is withheld.
PostFail(r) ==
  /\ \/ /\ At(r, "post", "charging") \/ stage[r] = "write"
        /\ UNCHANGED <<money, billed, overtaken, accessQueue>>
     \/ /\ Charge(r)
        /\ UNCHANGED accessQueue
     \/ /\ At(r, "post", "resultMQ")
        /\ accessQueue' \in {accessQueue, accessQueue \union {r}}
        /\ UNCHANGED <<money, billed, overtaken>>
  /\ Answer(r, "failure")
  /\ UNCHANGED <<services, user, verdict, overlapped>>

\* writeResponse; a result that cannot be written is answered by a failure.
Respond(r) ==
  /\ stage[r] = "post"
  /\ pos[r] > Last
  /\ Answer(r, "result") \/ Answer(r, "failure")
  /\ UNCHANGED <<services, money, accessQueue, user, verdict, billed, overtaken, overlapped>>

-----------------------------------------------------------------------------
Handle(r) ==
  \/ Receive(r) \/ Pass(r)
  \/ PreFree(r) \/ PreCharging(r) \/ PreRefuse(r)
  \/ Invoke(r)
  \/ PostFree(r) \/ PostUnverified(r) \/ PostInsufficient(r) \/ PostRead(r)
  \/ PostWrite(r) \/ PostResultMQ(r) \/ PostFail(r)
  \/ Respond(r)

Next == \E r \in Requests : Handle(r)

Spec == Init /\ [][Next]_vars

-----------------------------------------------------------------------------
(* Properties *)

\* Whatever the races between reading and writing remainingMoney, an account is never
\* left with less than the prices of its charged requests account for.
NeverOvercharged == \A u \in Users : money[u] >= InitialMoney - billed[u]

\* And exactly with that, unless two of its requests were between their read and their
\* write at the same time: preHandle's read and the prices of other accounts do no harm.
ExactUnlessOverlapping ==
  \A u \in Users \ overlapped : money[u] = InitialMoney - billed[u]

\* However many requests of an account pass preHandle together, the account does not
\* go below zero by as much as the dearest request.
OverdraftBounded == \A u \in Users : money[u] >= 0 \/ money[u] > -MaxCost

\* A request that has run but is not charged for want of money (its result is delivered
\* all the same) has been overtaken, since its preHandle, by a charge to its account.
UnpaidMeansDrained ==
  \A r \in Requests : verdict[r] = "insufficient" => r \in overtaken

\* A result is delivered only after the access queue has its message and after the
\* charging service has returned, wherever the two stand in requestServiceList.
DeliveredIsRecorded ==
  \A r \in Requests : response[r] = "result" => r \in accessQueue /\ verdict[r] # "none"

=============================================================================
