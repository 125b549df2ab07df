-------------------------- MODULE RedisQueueProofs ---------------------------
(***************************************************************************)
(* Theorems of RedisQueue for any nodes, routing keys, consumers, messages *)
(* and number of faults.                                                   *)
(***************************************************************************)
EXTENDS RedisQueue, TLAPS

-----------------------------------------------------------------------------
(* Both ends of a list *)

LEMMA Shortened ==
  ASSUME NEW S, NEW q \in Seq(S), q # <<>>
  PROVE  /\ Head(q) = q[1] /\ q[1] \in S
         /\ Tail(q) \in Seq(S)
         /\ Len(q) \in Nat \ {0}
         /\ Len(Tail(q)) = Len(q) - 1
         /\ \A i \in 1..(Len(q) - 1) : Tail(q)[i] = q[i + 1]
OBVIOUS

LEMMA Extended ==
  ASSUME NEW S, NEW q \in Seq(S), NEW e \in S
  PROVE  /\ Append(q, e) \in Seq(S)
         /\ Len(Append(q, e)) = Len(q) + 1
         /\ Append(q, e)[Len(q) + 1] = e
         /\ \A i \in 1..Len(q) : Append(q, e)[i] = q[i]
OBVIOUS

LEMMA Singleton ==
  ASSUME NEW S, NEW q \in Seq(S), q # <<>>, Len(q) <= 1
  PROVE  Len(q) = 1 /\ q = <<q[1]>>
<1>1. Len(q) \in Nat \ {0}
  BY Shortened
<1>2. Len(q) = 1
  BY <1>1
<1> QED
  BY <1>2

LEMMA PopTypes ==
  ASSUME TypeOK, NEW k \in RoutingKeys
  PROVE  /\ Rest(k) \in Seq(Entries)
         /\ First(k) \in Seq(Entries)
         /\ Len(First(k)) <= 1
         /\ queue[k] \in Seq(Entries)
         /\ Pops(k) \in Nat
<1>1. queue[k] \in Seq(Entries)
  BY DEF TypeOK
<1>2. CASE queue[k] = <<>>
  BY <1>1, <1>2 DEF Rest, First, Pops
<1>3. CASE queue[k] # <<>>
  <2>1. Head(queue[k]) \in Entries /\ Tail(queue[k]) \in Seq(Entries) /\ Len(queue[k]) \in Nat
    BY <1>1, <1>3, Shortened
  <2> QED
    BY <1>1, <1>3, <2>1 DEF Rest, First, Pops
<1> QED
  BY <1>2, <1>3

\* The entry that rpush appends.
Entry(m) == [key |-> key[m], msg |-> m, no |-> pushed[key[m]] + 1]

LEMMA AppendTypes ==
  ASSUME TypeOK, NEW m \in Messages, AppendMessage(m)
  PROVE  /\ key[m] \in RoutingKeys /\ Entry(m) \in Entries
         /\ queue[key[m]] \in Seq(Entries)
         /\ queue' = [queue EXCEPT ![key[m]] = Append(@, Entry(m))]
         /\ pushed' = [pushed EXCEPT ![key[m]] = @ + 1]
         /\ pushed' \in [RoutingKeys -> Nat]
         /\ queue' \in [RoutingKeys -> Seq(Entries)]
<1>1. key[m] \in RoutingKeys /\ pushed[key[m]] \in Nat
  BY DEF TypeOK
<1>2. Entry(m) \in Entries
  BY <1>1 DEF Entry, Entries
<1>3. queue[key[m]] \in Seq(Entries)
  BY <1>1 DEF TypeOK
<1>4. Append(queue[key[m]], Entry(m)) \in Seq(Entries)
  BY <1>2, <1>3, Extended
<1>5. /\ queue' = [queue EXCEPT ![key[m]] = Append(@, Entry(m))]
      /\ pushed' = [pushed EXCEPT ![key[m]] = @ + 1]
  BY DEF AppendMessage, Entry
<1>6. pushed' \in [RoutingKeys -> Nat]
  BY <1>1, <1>5 DEF TypeOK
<1>7. queue' \in [RoutingKeys -> Seq(Entries)]
  BY <1>4, <1>5 DEF TypeOK
<1> QED
  BY <1>1, <1>2, <1>3, <1>5, <1>6, <1>7

-----------------------------------------------------------------------------
(* Type correctness *)

\* A listener goes on to pop only while it has messages left to pop, and has one in
\* its hands only between the pop and the consumers.
Counted ==
  \A n \in Nodes : /\ round[n] = "pop" => left[n] # 0
                   /\ round[n] # "hand" => hand[n] = <<>>

TypeInv == TypeOK /\ Counted

LEMMA TypeInit == Init => TypeInv
<1> SUFFICES ASSUME Init PROVE TypeInv
  OBVIOUS
<1> USE QueueAssumption
<1>1. (CHOOSE k \in RoutingKeys : TRUE) \in RoutingKeys
  OBVIOUS
<1>2. current \in [Nodes -> RoutingKeys]
  BY <1>1 DEF Init
<1>3. queue \in [RoutingKeys -> Seq(Entries)] /\ hand \in [Nodes -> Seq(Entries)]
  BY DEF Init
<1>4. handled \in Seq(Entries) /\ \A n \in Nodes : Len(hand[n]) <= 1
  BY DEF Init
<1>5. TypeOK
  BY <1>2, <1>3, <1>4 DEF Init, TypeOK
<1>6. Counted
  BY DEF Init, Counted
<1> QED
  BY <1>5, <1>6 DEF TypeInv

LEMMA FaultType == TypeOK /\ Fault => faults' \in 0..MaxFaults
BY QueueAssumption DEF TypeOK, Fault

Listening ==
  /\ round \in [Nodes -> {"idle", "next", "pop", "hand"}]
  /\ todo \in [Nodes -> SUBSET RoutingKeys]
  /\ modified \in SUBSET Nodes
  /\ current \in [Nodes -> RoutingKeys]
  /\ left \in [Nodes -> Nat]
  /\ hand \in [Nodes -> Seq(Entries)]
  /\ \A n \in Nodes : Len(hand[n]) <= 1
  /\ Counted

LEMMA EndRoundType ==
  ASSUME TypeInv, NEW n \in Nodes, EndRound(n)
  PROVE  Listening'
<1>1. <<>> \in Seq(Entries) /\ Len(<<>>) <= 1
  OBVIOUS
<1>2. hand' \in [Nodes -> Seq(Entries)] /\ \A o \in Nodes : Len(hand'[o]) <= 1
  BY <1>1 DEF EndRound, TypeInv, TypeOK
<1>3. Counted'
  BY DEF EndRound, TypeInv, TypeOK, Counted
<1> QED
  BY <1>2, <1>3 DEF EndRound, TypeInv, TypeOK, Listening

LEMMA HandledType ==
  ASSUME TypeInv, NEW n \in Nodes, Handled(n) \/ UNCHANGED <<handled, last>>
  PROVE  handled' \in Seq(Entries) /\ last' \in [Nodes -> [RoutingKeys -> Nat]]
<1>1. CASE Handled(n) /\ hand[n] # <<>> /\ current[n] \in ConsumedKeys
  <2>1. hand[n] \in Seq(Entries) /\ current[n] \in RoutingKeys
    BY DEF TypeInv, TypeOK
  <2>2. hand[n][1] \in Entries
    BY <1>1, <2>1, Shortened
  <2>3. hand[n][1].no \in Nat
    BY <2>2 DEF Entries
  <2>4. handled' = handled \o hand[n]
    BY <1>1 DEF Handled
  <2>5. handled' \in Seq(Entries)
    BY <2>1, <2>4 DEF TypeInv, TypeOK
  <2>6. last' = [last EXCEPT ![n][current[n]] = hand[n][1].no]
    BY <1>1 DEF Handled
  <2>7. last' \in [Nodes -> [RoutingKeys -> Nat]]
    BY <2>1, <2>3, <2>6 DEF TypeInv, TypeOK
  <2> QED
    BY <2>5, <2>7
<1>2. CASE UNCHANGED <<handled, last>>
  BY <1>2 DEF TypeInv, TypeOK
<1> QED
  BY <1>1, <1>2 DEF Handled

LEMMA SendType ==
  ASSUME TypeInv, NEW m \in Messages, SendMessage(m)
  PROVE  TypeInv'
<1> USE DEF TypeInv
<1>1. CASE SendKnown(m)
  BY <1>1 DEF SendKnown, TypeOK, Counted, listening
<1>2. CASE SendUnknown(m)
  BY <1>2 DEF SendUnknown, TypeOK, Counted, listening
<1>3. CASE Add(m)
  <2>1. PICK base \in {routingKeys[sender[m]], seen[m]} :
          /\ routingKeys' = [routingKeys EXCEPT ![sender[m]] = base \union {key[m]}]
          /\ forgotten' = forgotten \union (routingKeys[sender[m]] \ (base \union {key[m]}))
    BY <1>3 DEF Add
  <2>2. sender[m] \in Nodes /\ key[m] \in RoutingKeys /\ base \subseteq RoutingKeys
    BY DEF TypeOK
  <2>3. routingKeys' \in [Nodes -> SUBSET RoutingKeys] /\ forgotten' \in SUBSET RoutingKeys
    BY <2>1, <2>2 DEF TypeOK
  <2>4. modified' \in SUBSET Nodes /\ todo' \in [Nodes -> SUBSET RoutingKeys]
    <3>1. CASE round[sender[m]] = "idle"
      BY <1>3, <3>1 DEF Add, TypeOK
    <3>2. CASE round[sender[m]] # "idle"
      <4>1. modified' = modified \union {sender[m]}
        BY <1>3, <3>2 DEF Add
      <4>2. PICK more \in SUBSET {key[m]} : todo' = [todo EXCEPT ![sender[m]] = @ \union more]
        BY <1>3, <3>2 DEF Add
      <4>3. more \subseteq RoutingKeys
        BY <2>2
      <4> QED
        BY <2>2, <4>1, <4>2, <4>3 DEF TypeOK
    <3> QED
      BY <3>1, <3>2
  <2> QED
    BY <1>3, <2>3, <2>4 DEF Add, TypeOK, Counted
<1>4. CASE Push(m)
  BY <1>4, AppendTypes DEF Push, TypeOK, Counted, listening
<1>5. CASE PushUnanswered(m)
  <2>1. queue' \in [RoutingKeys -> Seq(Entries)] /\ pushed' \in [RoutingKeys -> Nat]
    BY <1>5, AppendTypes DEF PushUnanswered, TypeOK
  <2> QED
    BY <1>5, <2>1, FaultType DEF PushUnanswered, TypeOK, Counted, listening
<1> QED
  BY <1>1, <1>2, <1>3, <1>4, <1>5 DEF SendMessage

LEMMA RoundType ==
  ASSUME TypeInv, NEW n \in Nodes, BeginRound(n) \/ AskFails(n) \/ NoMoreKeys(n)
  PROVE  TypeInv'
<1> USE DEF TypeInv
<1>1. CASE BeginRound(n)
  BY <1>1 DEF BeginRound, TypeOK, Counted, sending
<1>2. CASE AskFails(n)
  <2>1. faults' \in 0..MaxFaults
    BY <1>2, FaultType DEF AskFails, TypeOK
  <2> QED
    BY <1>2, <2>1, EndRoundType DEF AskFails, TypeOK, Listening, sending
<1>3. CASE NoMoreKeys(n)
  BY <1>3, EndRoundType DEF NoMoreKeys, TypeOK, Listening, sending
<1> QED
  BY <1>1, <1>2, <1>3

LEMMA AskType == ASSUME TypeInv, NEW n \in Nodes, AskLength(n) PROVE TypeInv'
<1> USE DEF TypeInv
<1>1. PICK k \in todo[n] :
        /\ todo' = [todo EXCEPT ![n] = @ \ {k}]
        /\ current' = [current EXCEPT ![n] = k]
        /\ left' = [left EXCEPT ![n] = Pops(k)]
        /\ round' = [round EXCEPT ![n] = PopOrNext(k)]
  BY DEF AskLength
<1>2. k \in RoutingKeys
  BY DEF TypeOK
<1>3. Pops(k) \in Nat /\ queue[k] \in Seq(Entries)
  BY <1>2, PopTypes
<1>4. /\ todo' \in [Nodes -> SUBSET RoutingKeys] /\ current' \in [Nodes -> RoutingKeys]
      /\ left' \in [Nodes -> Nat]
      /\ round' \in [Nodes -> {"idle", "next", "pop", "hand"}]
  BY <1>1, <1>2, <1>3 DEF TypeOK, PopOrNext
<1>5. PopOrNext(k) = "pop" => Pops(k) # 0
  BY <1>3, Shortened DEF PopOrNext, Pops
<1>6. PopOrNext(k) # "hand" /\ hand[n] = <<>> /\ hand' = hand
  BY DEF AskLength, Counted, PopOrNext
<1>7. Counted'
  BY <1>1, <1>5, <1>6 DEF Counted, TypeOK
<1> QED
  BY <1>4, <1>7 DEF AskLength, TypeOK, sending

LEMMA PopType ==
  ASSUME TypeInv, NEW n \in Nodes, Pop(n) \/ PopUnanswered(n) \/ PopFails(n)
  PROVE  TypeInv'
<1> USE DEF TypeInv
<1> DEFINE k == current[n]
<1>1. k \in RoutingKeys
  BY DEF TypeOK
<1>2. /\ Rest(k) \in Seq(Entries) /\ First(k) \in Seq(Entries) /\ Len(First(k)) <= 1
  BY <1>1, PopTypes
<1>3. [queue EXCEPT ![k] = Rest(k)] \in [RoutingKeys -> Seq(Entries)]
  BY <1>1, <1>2 DEF TypeOK
<1>4. CASE Pop(n)
  <2>1. queue' \in [RoutingKeys -> Seq(Entries)]
    BY <1>3, <1>4 DEF Pop
  <2>2. hand' \in [Nodes -> Seq(Entries)] /\ \A o \in Nodes : Len(hand'[o]) <= 1
    BY <1>2, <1>4 DEF Pop, TypeOK
  <2>3. left[n] - 1 \in Nat
    BY <1>4 DEF Pop, TypeOK, Counted
  <2>4. left' \in [Nodes -> Nat]
    BY <1>4, <2>3 DEF Pop, TypeOK
  <2>5. Counted'
    BY <1>4 DEF Pop, TypeOK, Counted
  <2>6. raced' \in SUBSET Nodes
    BY <1>4 DEF Pop, TypeOK, Draining
  <2> QED
    BY <1>4, <2>1, <2>2, <2>4, <2>5, <2>6 DEF Pop, TypeOK, sending
<1>5. CASE PopUnanswered(n)
  <2>1. queue' \in [RoutingKeys -> Seq(Entries)] /\ raced' \in SUBSET Nodes
    BY <1>3, <1>5 DEF PopUnanswered, TypeOK, Draining
  <2> QED
    BY <1>5, <2>1, FaultType DEF PopUnanswered, TypeOK, Counted, sending, listening
<1>6. CASE PopFails(n)
  <2>1. queue' \in [RoutingKeys -> Seq(Entries)] /\ raced' \in SUBSET Nodes
    BY <1>3, <1>6 DEF PopFails, TypeOK, Draining
  <2> QED
    BY <1>6, <2>1, FaultType, EndRoundType DEF PopFails, TypeOK, Listening, sending
<1> QED
  BY <1>4, <1>5, <1>6

LEMMA DeliverType ==
  ASSUME TypeInv, NEW n \in Nodes, Deliver(n) \/ ConsumerThrows(n)
  PROVE  TypeInv'
<1> USE DEF TypeInv
<1>1. handled' \in Seq(Entries) /\ last' \in [Nodes -> [RoutingKeys -> Nat]]
  BY HandledType DEF Deliver, ConsumerThrows
<1>2. CASE Deliver(n)
  <2>1. <<>> \in Seq(Entries) /\ Len(<<>>) <= 1
    OBVIOUS
  <2>2. hand' \in [Nodes -> Seq(Entries)] /\ \A o \in Nodes : Len(hand'[o]) <= 1
    BY <1>2, <2>1 DEF Deliver, TypeOK
  <2>3. round' \in [Nodes -> {"idle", "next", "pop", "hand"}]
    BY <1>2 DEF Deliver, TypeOK
  <2>4. Counted'
    BY <1>2 DEF Deliver, TypeOK, Counted
  <2> QED
    BY <1>1, <1>2, <2>2, <2>3, <2>4 DEF Deliver, TypeOK, sending
<1>3. CASE ConsumerThrows(n)
  BY <1>1, <1>3, EndRoundType DEF ConsumerThrows, TypeOK, Listening, sending
<1> QED
  BY <1>2, <1>3

LEMMA RestartType == ASSUME TypeInv, NEW n \in Nodes, Restart(n) PROVE TypeInv'
<1> USE DEF TypeInv
<1>1. Listening'
  BY EndRoundType DEF Restart
<1>2. stage' \in [Messages -> {"new", "add", "push", "done"}]
  BY DEF Restart, TypeOK
<1>3. seen' \in [Messages -> SUBSET RoutingKeys]
  BY DEF Restart, TypeOK
<1>4. routingKeys' \in [Nodes -> SUBSET RoutingKeys] /\ forgotten' \in SUBSET RoutingKeys
  BY DEF Restart, TypeOK
<1>5. faults' \in 0..MaxFaults
  BY FaultType DEF Restart
<1> QED
  BY <1>1, <1>2, <1>3, <1>4, <1>5 DEF Restart, TypeOK, Listening

LEMMA TypeStep == TypeInv /\ [Next]_vars => TypeInv'
<1> SUFFICES ASSUME TypeInv, [Next]_vars PROVE TypeInv'
  OBVIOUS
<1>1. ASSUME NEW m \in Messages, SendMessage(m) PROVE TypeInv'
  BY <1>1, SendType
<1>2. ASSUME NEW n \in Nodes, OnMessage(n) PROVE TypeInv'
  BY <1>2, RoundType, AskType, PopType, DeliverType DEF OnMessage
<1>3. ASSUME NEW n \in Nodes, Restart(n) PROVE TypeInv'
  BY <1>3, RestartType
<1>4. CASE UNCHANGED vars
  BY <1>4 DEF vars, sending, listening, TypeInv, TypeOK, Counted
<1> QED
  BY <1>1, <1>2, <1>3, <1>4 DEF Next

\* Every variable keeps its type; a listener counts the messages it has still to pop
\* down to zero and not further.
THEOREM TypeCorrect == Spec => []TypeOK
BY TypeInit, TypeStep, PTL DEF Spec, TypeInv

-----------------------------------------------------------------------------
(* Watched lists *)

\* A message that is about to be appended has its routing key in the set of its node.
Registered ==
  \A m \in Messages :
    stage[m] = "push" => key[m] \in routingKeys[sender[m]] \/ key[m] \in forgotten

WatchInv == Registered /\ QueueIsWatched

LEMMA WatchInit == Init => WatchInv
BY DEF Init, WatchInv, Registered, QueueIsWatched

\* The routing keys known to a node change only in Add and Restart, and those that go
\* are remembered.
LEMMA SendWatched ==
  ASSUME TypeOK, WatchInv, NEW m \in Messages, SendMessage(m)
  PROVE  WatchInv'
<1> USE DEF WatchInv
<1>1. CASE SendKnown(m) \/ SendUnknown(m)
  BY <1>1 DEF SendKnown, SendUnknown, TypeOK, Registered, QueueIsWatched, Known
<1>2. CASE Add(m)
  <2>1. PICK base \in {routingKeys[sender[m]], seen[m]} :
          /\ routingKeys' = [routingKeys EXCEPT ![sender[m]] = base \union {key[m]}]
          /\ forgotten' = forgotten \union (routingKeys[sender[m]] \ (base \union {key[m]}))
    BY <1>2 DEF Add
  <2>2. sender[m] \in Nodes
    BY DEF TypeOK
  <2>3. \A n \in Nodes, k \in RoutingKeys :
          k \in routingKeys[n] => k \in routingKeys'[n] \/ k \in forgotten'
    BY <2>1, <2>2 DEF TypeOK
  <2>4. forgotten \subseteq forgotten' /\ key[m] \in routingKeys'[sender[m]]
    BY <2>1, <2>2 DEF TypeOK
  <2>5. /\ stage' = [stage EXCEPT ![m] = "push"]
        /\ UNCHANGED <<queue, sender, key>>
    BY <1>2 DEF Add
  <2>6. Registered'
    BY <2>2, <2>3, <2>4, <2>5 DEF Registered, TypeOK
  <2>7. QueueIsWatched'
    BY <2>3, <2>4, <2>5 DEF QueueIsWatched, Known
  <2> QED
    BY <2>6, <2>7
<1>3. CASE Push(m) \/ PushUnanswered(m)
  <2>1. /\ stage[m] = "push" /\ sender[m] \in Nodes
        /\ UNCHANGED <<routingKeys, sender, key, forgotten>>
        /\ stage' \in {stage, [stage EXCEPT ![m] = "done"]}
    BY <1>3 DEF Push, PushUnanswered, TypeOK
  <2>2. \A k \in RoutingKeys \ {key[m]} : queue'[k] = queue[k]
    BY <1>3 DEF Push, PushUnanswered, AppendMessage, TypeOK
  <2>3. Known(key[m]) \/ key[m] \in forgotten
    BY <2>1 DEF Registered, Known
  <2>4. Registered'
    BY <2>1 DEF Registered, TypeOK
  <2>5. QueueIsWatched'
    BY <2>1, <2>2, <2>3 DEF QueueIsWatched, Known
  <2> QED
    BY <2>4, <2>5
<1> QED
  BY <1>1, <1>2, <1>3 DEF SendMessage

LEMMA MessageWatched ==
  ASSUME TypeOK, WatchInv, NEW n \in Nodes, OnMessage(n)
  PROVE  WatchInv'
<1>1. UNCHANGED <<routingKeys, sending, forgotten>>
  BY DEF OnMessage, BeginRound, AskLength, AskFails, NoMoreKeys, Pop, PopUnanswered,
         PopFails, Deliver, ConsumerThrows
<1>2. \A k \in RoutingKeys : queue[k] = <<>> => queue'[k] = <<>>
  BY DEF OnMessage, BeginRound, AskLength, AskFails, NoMoreKeys, Pop, PopUnanswered,
         PopFails, Deliver, ConsumerThrows, Rest, TypeOK
<1> QED
  BY <1>1, <1>2 DEF WatchInv, Registered, QueueIsWatched, Known, sending

LEMMA RestartWatched ==
  ASSUME TypeOK, WatchInv, NEW n \in Nodes, Restart(n)
  PROVE  WatchInv'
<1>1. \A o \in Nodes, k \in RoutingKeys :
        k \in routingKeys[o] => k \in routingKeys'[o] \/ k \in forgotten'
  BY DEF Restart, TypeOK
<1>2. forgotten \subseteq forgotten' /\ UNCHANGED <<queue, sender, key>>
  BY DEF Restart
<1>3. \A m \in Messages : stage'[m] = "push" => stage[m] = "push"
  BY DEF Restart
<1> QED
  BY <1>1, <1>2, <1>3 DEF WatchInv, Registered, QueueIsWatched, Known, TypeOK

\* sendMessage makes the routing key known before it appends: a list with messages is
\* watched by a node unless a restart or a race for the HashSet has dropped its key.
THEOREM ListsAreWatched == Spec => []QueueIsWatched
<1>1. TypeInv /\ WatchInv /\ [Next]_vars => (TypeInv /\ WatchInv)'
  <2> SUFFICES ASSUME TypeInv, WatchInv, [Next]_vars PROVE WatchInv'
    BY TypeStep
  <2>1. CASE UNCHANGED vars
    BY <2>1 DEF vars, sending, WatchInv, Registered, QueueIsWatched, Known
  <2> QED
    BY <2>1, SendWatched, MessageWatched, RestartWatched DEF Next, TypeInv
<1> QED
  BY <1>1, TypeInit, WatchInit, PTL DEF Spec, WatchInv

-----------------------------------------------------------------------------
(* Nulls *)

\* A list nobody else has popped from is as long as the listener has to pop from it.
Enough ==
  \A n \in Nodes : round[n] \in {"pop", "hand"} /\ n \notin raced
                   => Len(queue[current[n]]) >= left[n]

NullInv == Enough /\ NullMeansRaced

LEMMA SendNull ==
  ASSUME TypeInv, NullInv, NEW m \in Messages, SendMessage(m)
  PROVE  NullInv'
<1>1. UNCHANGED <<round, current, left, hand, raced>>
  BY DEF SendMessage, SendKnown, SendUnknown, Add, Push, PushUnanswered, listening
<1>2. \A k \in RoutingKeys : Len(queue[k]) \in Nat /\ Len(queue'[k]) >= Len(queue[k])
  <2>1. CASE queue' = queue
    BY <2>1 DEF TypeInv, TypeOK
  <2>2. CASE AppendMessage(m)
    <3>1. /\ key[m] \in RoutingKeys /\ Entry(m) \in Entries
          /\ queue[key[m]] \in Seq(Entries)
          /\ queue' = [queue EXCEPT ![key[m]] = Append(@, Entry(m))]
      BY <2>2, AppendTypes DEF TypeInv
    <3>2. Len(Append(queue[key[m]], Entry(m))) = Len(queue[key[m]]) + 1
      BY <3>1, Extended
    <3>3. \A k \in RoutingKeys : Len(queue[k]) \in Nat
      BY DEF TypeInv, TypeOK
    <3> QED
      BY <3>1, <3>2, <3>3 DEF TypeInv, TypeOK
  <2> QED
    BY <2>1, <2>2 DEF SendMessage, SendKnown, SendUnknown, Add, Push, PushUnanswered
<1>3. \A n \in Nodes : current[n] \in RoutingKeys /\ left[n] \in Nat /\ left'[n] = left[n]
  BY <1>1 DEF TypeInv, TypeOK
<1>4. \A k \in RoutingKeys : Len(queue'[k]) \in Int
  BY SendType DEF TypeInv, TypeOK
<1>5. Enough'
  <2> SUFFICES ASSUME NEW n \in Nodes, round[n] \in {"pop", "hand"}, n \notin raced
               PROVE  Len(queue[current[n]])' >= left'[n]
    BY <1>1 DEF Enough
  <2>1. Len(queue[current[n]]) >= left[n]
    BY DEF NullInv, Enough
  <2>2. Len(queue[current[n]])' = Len(queue'[current[n]])
    BY <1>1
  <2> QED
    BY <1>2, <1>3, <1>4, <2>1, <2>2
<1>6. NullMeansRaced'
  BY <1>1 DEF NullInv, NullMeansRaced
<1> QED
  BY <1>5, <1>6 DEF NullInv

\* A pop races with the other listeners of the list.
LEMMA PopNull ==
  ASSUME TypeInv, NullInv, NEW n \in Nodes,
         queue' = [queue EXCEPT ![current[n]] = Rest(current[n])],
         Draining(current[n]) \ {n} \subseteq raced', raced \subseteq raced',
         NEW o \in Nodes \ {n}, o \notin raced',
         UNCHANGED <<round[o], current[o], left[o], hand[o]>>
  PROVE  /\ round[o] \in {"pop", "hand"} => Len(queue[current[o]])' >= left'[o]
         /\ ~(round'[o] = "hand" /\ hand'[o] = <<>>)
<1>1. o \notin raced
  OBVIOUS
<1>2. round[o] \in {"pop", "hand"} => current[o] # current[n]
  BY DEF Draining
<1>3. current[o] \in RoutingKeys /\ current[n] \in RoutingKeys
  BY DEF TypeInv, TypeOK
<1>4. round[o] \in {"pop", "hand"} => queue'[current[o]] = queue[current[o]]
  BY <1>2, <1>3 DEF TypeInv, TypeOK
<1> QED
  BY <1>1, <1>4 DEF NullInv, Enough, NullMeansRaced

LEMMA MessageNull ==
  ASSUME TypeInv, NullInv, NEW n \in Nodes, OnMessage(n) \/ Restart(n)
  PROVE  NullInv'
<1> DEFINE k == current[n]
<1>1. k \in RoutingKeys /\ left[n] \in Nat /\ queue[k] \in Seq(Entries)
  BY DEF TypeInv, TypeOK
\* Nothing is popped, and another listener sees no difference.
<1>2. ASSUME queue' = queue, raced' \in {raced, raced \ {n}},
             \A o \in Nodes \ {n} : UNCHANGED <<round[o], current[o], left[o], hand[o]>>,
             \/ round'[n] \in {"idle", "next"}
             \/ round'[n] = "pop" /\ n \notin raced' => Len(queue[current[n]])' >= left'[n],
             round'[n] # "hand"
      PROVE  NullInv'
  BY <1>2 DEF NullInv, Enough, NullMeansRaced, TypeInv, TypeOK
<1>3. ASSUME EndRound(n)
      PROVE  /\ \A o \in Nodes \ {n} : UNCHANGED <<round[o], current[o], left[o], hand[o]>>
             /\ round'[n] = "idle"
  BY <1>3 DEF EndRound, TypeInv, TypeOK
<1>4. CASE BeginRound(n)
  BY <1>2, <1>4 DEF BeginRound, TypeInv, TypeOK
<1>5. CASE AskFails(n) \/ NoMoreKeys(n) \/ ConsumerThrows(n) \/ Restart(n)
  BY <1>2, <1>3, <1>5 DEF AskFails, NoMoreKeys, ConsumerThrows, Restart
<1>6. CASE AskLength(n)
  <2>1. PICK c \in todo[n] :
          /\ current' = [current EXCEPT ![n] = c]
          /\ left' = [left EXCEPT ![n] = Pops(c)]
          /\ round' = [round EXCEPT ![n] = PopOrNext(c)]
    BY <1>6 DEF AskLength
  <2>2. c \in RoutingKeys
    BY DEF TypeInv, TypeOK
  <2>3. Pops(c) = Len(queue[c]) /\ Len(queue[c]) \in Nat /\ PopOrNext(c) # "hand"
    BY <2>2 DEF Pops, PopOrNext, TypeInv, TypeOK
  <2>4. queue' = queue /\ raced' = raced \ {n} /\ UNCHANGED hand
    BY <1>6 DEF AskLength
  <2>5. current'[n] = c /\ left'[n] = Pops(c) /\ round'[n] = PopOrNext(c)
    BY <2>1 DEF TypeInv, TypeOK
  <2>6. \A o \in Nodes \ {n} : UNCHANGED <<round[o], current[o], left[o], hand[o]>>
    BY <2>1, <2>4 DEF TypeInv, TypeOK
  <2> QED
    BY <1>2, <2>3, <2>4, <2>5, <2>6
<1>7. CASE Pop(n)
  <2>1. \A o \in Nodes \ {n} : UNCHANGED <<round[o], current[o], left[o], hand[o]>>
    BY <1>7 DEF Pop, TypeInv, TypeOK
  <2>2. /\ queue' = [queue EXCEPT ![k] = Rest(k)]
        /\ raced' = raced \union (Draining(k) \ {n})
    BY <1>7 DEF Pop
  <2>3. /\ round'[n] = "hand" /\ current'[n] = k
        /\ left'[n] = left[n] - 1 /\ hand'[n] = First(k)
    BY <1>7 DEF Pop, TypeInv, TypeOK
  <2>4. queue'[k] = Rest(k)
    BY <1>1, <2>2 DEF TypeInv, TypeOK
  <2>5. ASSUME n \notin raced'
        PROVE  Len(queue'[k]) >= left[n] - 1 /\ First(k) # <<>>
    <3>1. Len(queue[k]) >= left[n] /\ left[n] # 0
      BY <1>7, <2>2, <2>5 DEF Pop, NullInv, Enough, TypeInv, Counted
    <3>2. queue[k] # <<>>
      BY <1>1, <3>1
    <3>3. Rest(k) = Tail(queue[k]) /\ First(k) = <<Head(queue[k])>>
      BY <3>2 DEF Rest, First
    <3>4. Len(Tail(queue[k])) = Len(queue[k]) - 1 /\ Len(queue[k]) \in Nat
      BY <1>1, <3>2, Shortened
    <3> QED
      BY <1>1, <2>4, <3>1, <3>3, <3>4
  <2>6. ASSUME NEW o \in Nodes \ {n}, o \notin raced'
        PROVE  /\ round'[o] \in {"pop", "hand"} => Len(queue[current[o]])' >= left'[o]
               /\ ~(round'[o] = "hand" /\ hand'[o] = <<>>)
    BY <2>1, <2>2, <2>6, PopNull
  <2> QED
    BY <2>3, <2>5, <2>6 DEF NullInv, Enough, NullMeansRaced
<1>8. CASE PopUnanswered(n)
  <2>1. UNCHANGED <<round, current, left, hand>>
    BY <1>8 DEF PopUnanswered, listening
  <2>2. /\ queue' = [queue EXCEPT ![k] = Rest(k)]
        /\ raced' = raced \union Draining(k) /\ n \in Draining(k)
    BY <1>8 DEF PopUnanswered, Draining
  <2>3. ASSUME NEW o \in Nodes \ {n}, o \notin raced'
        PROVE  /\ round'[o] \in {"pop", "hand"} => Len(queue[current[o]])' >= left'[o]
               /\ ~(round'[o] = "hand" /\ hand'[o] = <<>>)
    BY <2>1, <2>2, <2>3, PopNull
  <2> QED
    BY <2>2, <2>3 DEF NullInv, Enough, NullMeansRaced
<1>9. CASE PopFails(n)
  <2>1. /\ \A o \in Nodes \ {n} : UNCHANGED <<round[o], current[o], left[o], hand[o]>>
        /\ round'[n] = "idle"
    BY <1>3, <1>9 DEF PopFails
  <2>2. CASE UNCHANGED <<queue, raced>>
    BY <1>2, <2>1, <2>2
  <2>3. CASE /\ queue' = [queue EXCEPT ![k] = Rest(k)]
             /\ raced' = raced \union (Draining(k) \ {n})
    <3>1. ASSUME NEW o \in Nodes \ {n}, o \notin raced'
          PROVE  /\ round'[o] \in {"pop", "hand"} => Len(queue[current[o]])' >= left'[o]
                 /\ ~(round'[o] = "hand" /\ hand'[o] = <<>>)
      BY <2>1, <2>3, <3>1, PopNull
    <3> QED
      BY <2>1, <3>1 DEF NullInv, Enough, NullMeansRaced
  <2> QED
    BY <1>9, <2>2, <2>3 DEF PopFails
<1>10. CASE Deliver(n)
  <2>1. queue' = queue /\ raced' = raced /\ UNCHANGED <<current, left>>
    BY <1>10 DEF Deliver
  <2>2. /\ \A o \in Nodes \ {n} : UNCHANGED <<round[o], current[o], left[o], hand[o]>>
        /\ round'[n] \in {"next", "pop"} /\ round[n] = "hand"
    BY <1>10 DEF Deliver, TypeInv, TypeOK
  <2>3. n \notin raced' => Len(queue[current[n]])' >= left'[n]
    BY <2>1, <2>2 DEF NullInv, Enough
  <2> QED
    BY <1>2, <2>1, <2>2, <2>3
<1> QED
  BY <1>4, <1>5, <1>6, <1>7, <1>8, <1>9, <1>10 DEF OnMessage

\* A consumer is handed null only when another pop has shortened the list since its
\* length was read.
THEOREM NullsAreRaces == Spec => []NullMeansRaced
<1>1. Init => NullInv
  BY DEF Init, NullInv, Enough, NullMeansRaced
<1>2. TypeInv /\ NullInv /\ [Next]_vars => (TypeInv /\ NullInv)'
  <2> SUFFICES ASSUME TypeInv, NullInv, [Next]_vars PROVE NullInv'
    BY TypeStep
  <2>1. CASE UNCHANGED vars
    BY <2>1 DEF vars, listening, NullInv, Enough, NullMeansRaced
  <2> QED
    BY <2>1, SendNull, MessageNull DEF Next
<1> QED
  BY <1>1, <1>2, TypeInit, PTL DEF Spec, NullInv

-----------------------------------------------------------------------------
(* The order of a list *)

Below(x, q) == \A i \in 1..Len(q) : x < q[i].no

Sorted(k, q, top) ==
  /\ \A i \in 1..Len(q) : q[i].key = k /\ q[i].no <= top
  /\ \A i, j \in 1..Len(q) : i < j => q[i].no < q[j].no

LEMMA BelowRest ==
  ASSUME NEW q \in Seq(Entries), q # <<>>, NEW x, Below(x, q)
  PROVE  Below(x, Tail(q))
BY Shortened DEF Below

LEMMA SortedRest ==
  ASSUME NEW q \in Seq(Entries), q # <<>>, NEW k, NEW top \in Nat, Sorted(k, q, top)
  PROVE  /\ Sorted(k, Tail(q), top)
         /\ Below(q[1].no, Tail(q))
         /\ q[1].key = k /\ q[1].no <= top
<1>1. /\ Len(q) \in Nat \ {0} /\ Len(Tail(q)) = Len(q) - 1
      /\ \A i \in 1..(Len(q) - 1) : Tail(q)[i] = q[i + 1]
  BY Shortened
<1>2. \A i \in 1..Len(Tail(q)) : i + 1 \in 1..Len(q) /\ 1 \in 1..Len(q) /\ 1 < i + 1
  BY <1>1
<1>3. Sorted(k, Tail(q), top)
  BY <1>1, <1>2 DEF Sorted
<1>4. Below(q[1].no, Tail(q))
  BY <1>1, <1>2 DEF Sorted, Below
<1> QED
  BY <1>1, <1>3, <1>4 DEF Sorted

LEMMA BelowAppend ==
  ASSUME NEW q \in Seq(Entries), NEW e \in Entries, NEW x, Below(x, q), x < e.no
  PROVE  Below(x, Append(q, e))
<1>1. Len(q) \in Nat
  OBVIOUS
<1> QED
  BY <1>1, Extended DEF Below

LEMMA SortedAppend ==
  ASSUME NEW q \in Seq(Entries), NEW k, NEW top \in Nat, Sorted(k, q, top),
         NEW e \in Entries, e.key = k, e.no = top + 1
  PROVE  Sorted(k, Append(q, e), top + 1)
<1>1. /\ Len(q) \in Nat /\ Len(Append(q, e)) = Len(q) + 1
      /\ Append(q, e)[Len(q) + 1] = e
      /\ \A i \in 1..Len(q) : Append(q, e)[i] = q[i]
  BY Extended
<1>2. \A i \in 1..Len(q) : q[i].no \in Nat
  <2>1. \A i \in 1..Len(q) : q[i] \in Entries
    OBVIOUS
  <2> QED
    BY <2>1 DEF Entries
<1>3. ASSUME NEW i \in 1..Len(Append(q, e))
      PROVE  Append(q, e)[i].key = k /\ Append(q, e)[i].no <= top + 1
  BY <1>1, <1>2 DEF Sorted
<1>4. ASSUME NEW i \in 1..Len(Append(q, e)), NEW j \in 1..Len(Append(q, e)), i < j
      PROVE  Append(q, e)[i].no < Append(q, e)[j].no
  <2>1. i \in 1..Len(q)
    BY <1>1, <1>4
  <2>2. CASE j \in 1..Len(q)
    BY <1>1, <1>4, <2>1, <2>2 DEF Sorted
  <2>3. CASE j = Len(q) + 1
    BY <1>1, <1>2, <2>1, <2>3 DEF Sorted
  <2> QED
    BY <1>1, <2>2, <2>3
<1> QED
  BY <1>3, <1>4 DEF Sorted

ListsSorted == \A k \in RoutingKeys : Sorted(k, queue[k], pushed[k])

LastIsPast ==
  \A n \in Nodes, k \in RoutingKeys :
    last[n][k] <= pushed[k] /\ Below(last[n][k], queue[k])

\* What a listener has popped comes after all it has handled of the list and before
\* all that is left in it.
HandIsNext ==
  \A n \in Nodes : hand[n] # <<>> =>
    LET k == current[n]  e == hand[n][1] IN
    /\ e.key = k /\ e.no <= pushed[k]
    /\ last[n][k] < e.no /\ Below(e.no, queue[k])

HandsDiffer ==
  \A n, o \in Nodes : n # o /\ hand[n] # <<>> /\ hand[o] # <<>> => hand[n][1] # hand[o][1]

OrderInv == ListsSorted /\ LastIsPast /\ HandIsNext /\ HandsDiffer

LEMMA OrderInit == Init => OrderInv
BY DEF Init, OrderInv, ListsSorted, LastIsPast, HandIsNext, HandsDiffer, Sorted, Below

LEMMA HandType ==
  ASSUME TypeInv, NEW n \in Nodes, hand[n] # <<>>
  PROVE  /\ hand[n][1] \in Entries /\ hand[n][1].no \in Nat \ {0}
         /\ hand[n] = <<hand[n][1]>>
         /\ current[n] \in RoutingKeys
<1>1. hand[n] \in Seq(Entries) /\ Len(hand[n]) <= 1 /\ current[n] \in RoutingKeys
  BY DEF TypeInv, TypeOK
<1>2. hand[n][1] \in Entries
  BY <1>1, Shortened
<1>3. hand[n] = <<hand[n][1]>>
  BY <1>1, Singleton
<1> QED
  BY <1>1, <1>2, <1>3 DEF Entries

LEMMA AppendOrder ==
  ASSUME TypeInv, OrderInv, NEW m \in Messages, AppendMessage(m),
         UNCHANGED <<current, hand, last>>
  PROVE  OrderInv'
<1> DEFINE k == key[m]  e == Entry(m)
<1>1. /\ k \in RoutingKeys /\ e \in Entries /\ queue[k] \in Seq(Entries)
      /\ queue' = [queue EXCEPT ![k] = Append(@, e)]
      /\ pushed' = [pushed EXCEPT ![k] = @ + 1]
  BY AppendTypes DEF TypeInv
<1>2. e.key = k /\ e.no = pushed[k] + 1 /\ pushed[k] \in Nat
  BY <1>1 DEF Entry, TypeInv, TypeOK
<1>3. /\ \A j \in RoutingKeys \ {k} : queue'[j] = queue[j] /\ pushed'[j] = pushed[j]
      /\ queue'[k] = Append(queue[k], e) /\ pushed'[k] = pushed[k] + 1
      /\ \A j \in RoutingKeys : pushed[j] \in Nat
  BY <1>1 DEF TypeInv, TypeOK
<1> HIDE DEF k, e
<1>4. Sorted(k, queue[k], pushed[k])
  BY <1>1 DEF OrderInv, ListsSorted
<1>5. Sorted(k, queue'[k], pushed'[k])
  BY <1>1, <1>2, <1>3, <1>4, SortedAppend
<1>6. ListsSorted'
  BY <1>3, <1>5 DEF OrderInv, ListsSorted
<1>7. ASSUME NEW x \in Nat, NEW j \in RoutingKeys, x <= pushed[j], Below(x, queue[j])
      PROVE  x <= pushed'[j] /\ Below(x, queue'[j])
  <2>1. CASE j # k
    BY <1>3, <1>7, <2>1
  <2>2. CASE j = k
    <3>1. x < e.no
      BY <1>2, <1>7, <2>2
    <3> QED
      BY <1>1, <1>2, <1>3, <1>7, <2>2, <3>1, BelowAppend
  <2> QED
    BY <2>1, <2>2
<1>8. LastIsPast'
  <2> SUFFICES ASSUME NEW n \in Nodes, NEW j \in RoutingKeys
               PROVE  last[n][j] <= pushed'[j] /\ Below(last[n][j], queue'[j])
    BY DEF LastIsPast
  <2>1. last[n][j] \in Nat
    BY DEF TypeInv, TypeOK
  <2> QED
    BY <1>7, <2>1 DEF OrderInv, LastIsPast
<1>9. HandIsNext'
  <2> SUFFICES ASSUME NEW n \in Nodes, hand[n] # <<>>
               PROVE  /\ hand[n][1].key = current[n] /\ hand[n][1].no <= pushed'[current[n]]
                      /\ last[n][current[n]] < hand[n][1].no
                      /\ Below(hand[n][1].no, queue'[current[n]])
    BY DEF HandIsNext
  <2>1. hand[n][1].no \in Nat /\ current[n] \in RoutingKeys
    BY HandType
  <2> QED
    BY <1>7, <2>1 DEF OrderInv, HandIsNext
<1>10. HandsDiffer'
  BY DEF OrderInv, HandsDiffer
<1> QED
  BY <1>6, <1>8, <1>9, <1>10 DEF OrderInv

LEMMA RestOrder ==
  ASSUME TypeInv, OrderInv, NEW k \in RoutingKeys,
         queue' \in {queue, [queue EXCEPT ![k] = Rest(k)]}, pushed' = pushed
  PROVE  /\ ListsSorted'
         /\ \A x \in Nat, j \in RoutingKeys : Below(x, queue[j]) => Below(x, queue'[j])
<1>1. queue[k] \in Seq(Entries) /\ pushed[k] \in Nat /\ Sorted(k, queue[k], pushed[k])
  BY DEF TypeInv, TypeOK, OrderInv, ListsSorted
<1>2. CASE queue' = queue
  BY <1>2 DEF OrderInv, ListsSorted
<1>3. CASE queue' = [queue EXCEPT ![k] = Rest(k)] /\ queue[k] = <<>>
  <2>1. queue' = queue
    BY <1>3 DEF Rest, TypeInv, TypeOK
  <2> QED
    BY <1>2, <2>1
<1>4. CASE queue' = [queue EXCEPT ![k] = Rest(k)] /\ queue[k] # <<>>
  <2>1. /\ queue'[k] = Tail(queue[k])
        /\ \A j \in RoutingKeys \ {k} : queue'[j] = queue[j]
    BY <1>4 DEF Rest, TypeInv, TypeOK
  <2>2. Sorted(k, queue'[k], pushed[k])
    BY <1>1, <1>4, <2>1, SortedRest
  <2>3. \A x \in Nat : Below(x, queue[k]) => Below(x, queue'[k])
    BY <1>1, <1>4, <2>1, BelowRest
  <2> QED
    BY <2>1, <2>2, <2>3 DEF OrderInv, ListsSorted
<1> QED
  BY <1>2, <1>3, <1>4

\* Entries are lost, from the front of a list or from hands, and none is handled.
LEMMA LossOrder ==
  ASSUME TypeInv, OrderInv, NEW k \in RoutingKeys,
         queue' \in {queue, [queue EXCEPT ![k] = Rest(k)]}, UNCHANGED <<pushed, last>>,
         \A n \in Nodes : \/ hand'[n] = <<>>
                          \/ hand'[n] = hand[n] /\ current'[n] = current[n]
  PROVE  OrderInv'
<1>1. /\ ListsSorted'
      /\ \A x \in Nat, j \in RoutingKeys : Below(x, queue[j]) => Below(x, queue'[j])
  BY RestOrder
<1>2. LastIsPast'
  <2> SUFFICES ASSUME NEW n \in Nodes, NEW j \in RoutingKeys
               PROVE  last[n][j] <= pushed[j] /\ Below(last[n][j], queue'[j])
    BY DEF LastIsPast
  <2>1. last[n][j] \in Nat
    BY DEF TypeInv, TypeOK
  <2> QED
    BY <1>1, <2>1 DEF OrderInv, LastIsPast
<1>3. HandIsNext'
  <2> SUFFICES ASSUME NEW n \in Nodes, hand'[n] # <<>>
               PROVE  /\ hand[n][1].key = current[n] /\ hand[n][1].no <= pushed[current[n]]
                      /\ last[n][current[n]] < hand[n][1].no
                      /\ Below(hand[n][1].no, queue'[current[n]])
    BY DEF HandIsNext
  <2>1. hand[n] # <<>> /\ hand[n][1].no \in Nat /\ current[n] \in RoutingKeys
    BY HandType
  <2> QED
    BY <1>1, <2>1 DEF OrderInv, HandIsNext
<1>4. HandsDiffer'
  BY DEF OrderInv, HandsDiffer
<1> QED
  BY <1>1, <1>2, <1>3, <1>4 DEF OrderInv

LEMMA PopOrder ==
  ASSUME TypeInv, OrderInv, NEW n \in Nodes, Pop(n)
  PROVE  OrderInv'
<1> DEFINE k == current[n]  q == queue[k]
<1>1. /\ k \in RoutingKeys /\ q \in Seq(Entries) /\ pushed[k] \in Nat
      /\ Sorted(k, q, pushed[k])
  BY DEF TypeInv, TypeOK, OrderInv, ListsSorted
<1>2. /\ queue' = [queue EXCEPT ![k] = Rest(k)]
      /\ hand' = [hand EXCEPT ![n] = First(k)]
      /\ UNCHANGED <<pushed, last, current>>
  BY DEF Pop
<1>3. hand'[n] = First(k) /\ \A o \in Nodes \ {n} : hand'[o] = hand[o]
  BY <1>2 DEF TypeInv, TypeOK
<1>4. CASE q = <<>>
  BY <1>1, <1>2, <1>3, <1>4, LossOrder DEF First
<1>5. CASE q # <<>>
  <2>1. queue'[k] = Tail(q) /\ hand'[n] = <<q[1]>> /\ q[1] \in Entries
    BY <1>1, <1>2, <1>3, <1>5, Shortened DEF Rest, First, TypeInv, TypeOK
  <2>2. /\ ListsSorted'
        /\ \A x \in Nat, j \in RoutingKeys : Below(x, queue[j]) => Below(x, queue'[j])
    BY <1>1, <1>2, RestOrder
  <2>3. q[1].key = k /\ q[1].no <= pushed[k] /\ Below(q[1].no, queue'[k])
    BY <1>1, <1>5, <2>1, SortedRest
  <2>4. Len(q) \in Nat \ {0}
    BY <1>1, <1>5, Shortened
  <2>5. last[n][k] < q[1].no
    BY <1>1, <2>4 DEF OrderInv, LastIsPast, Below
  <2>6. LastIsPast'
    <3> SUFFICES ASSUME NEW o \in Nodes, NEW j \in RoutingKeys
                 PROVE  last[o][j] <= pushed[j] /\ Below(last[o][j], queue'[j])
      BY <1>2 DEF LastIsPast
    <3>1. last[o][j] \in Nat
      BY DEF TypeInv, TypeOK
    <3> QED
      BY <2>2, <3>1 DEF OrderInv, LastIsPast
  <2>7. HandIsNext'
    <3> SUFFICES ASSUME NEW o \in Nodes, hand'[o] # <<>>
                 PROVE  /\ hand'[o][1].key = current[o]
                        /\ hand'[o][1].no <= pushed[current[o]]
                        /\ last[o][current[o]] < hand'[o][1].no
                        /\ Below(hand'[o][1].no, queue'[current[o]])
      BY <1>2 DEF HandIsNext
    <3>1. CASE o = n
      BY <2>1, <2>3, <2>5, <3>1
    <3>2. CASE o # n
      <4>1. hand'[o] = hand[o] /\ hand[o][1].no \in Nat /\ current[o] \in RoutingKeys
        BY <1>3, <3>2, HandType
      <4> QED
        BY <2>2, <4>1 DEF OrderInv, HandIsNext
    <3> QED
      BY <3>1, <3>2
  \* The entry another listener holds comes before the first one of the list.
  <2>8. ASSUME NEW o \in Nodes \ {n}, hand[o] # <<>>
        PROVE  hand[o][1] # q[1]
    <3>1. hand[o][1].key = current[o] /\ Below(hand[o][1].no, queue[current[o]])
      BY <2>8 DEF OrderInv, HandIsNext
    <3>2. hand[o][1].no \in Nat
      BY <2>8, HandType
    <3> QED
      BY <2>3, <2>4, <3>1, <3>2 DEF Below
  <2>9. HandsDiffer'
    <3> SUFFICES ASSUME NEW o \in Nodes, NEW p \in Nodes, o # p,
                        hand'[o] # <<>>, hand'[p] # <<>>
                 PROVE  hand'[o][1] # hand'[p][1]
      BY DEF HandsDiffer
    <3> QED
      BY <1>3, <2>1, <2>8 DEF OrderInv, HandsDiffer
  <2> QED
    BY <2>2, <2>6, <2>7, <2>9 DEF OrderInv
<1> QED
  BY <1>4, <1>5

LEMMA HandledOrder ==
  ASSUME TypeInv, OrderInv, NEW n \in Nodes, Handled(n),
         hand' = [hand EXCEPT ![n] = <<>>], UNCHANGED <<queue, pushed, current>>
  PROVE  OrderInv'
<1> DEFINE k == current[n]  e == hand[n][1]
<1>1. CASE UNCHANGED last
  BY <1>1, LossOrder DEF TypeInv, TypeOK
<1>2. CASE hand[n] # <<>> /\ last' = [last EXCEPT ![n][k] = e.no]
  <2>1. k \in RoutingKeys /\ e.no \in Nat
    BY <1>2, HandType
  <2>2. e.no <= pushed[k] /\ Below(e.no, queue[k])
    BY <1>2 DEF OrderInv, HandIsNext
  <2>3. \A o \in Nodes, j \in RoutingKeys :
          last'[o][j] = IF o = n /\ j = k THEN e.no ELSE last[o][j]
    BY <1>2, <2>1 DEF TypeInv, TypeOK
  <2>4. hand'[n] = <<>> /\ \A o \in Nodes \ {n} : hand'[o] = hand[o] /\ current[o] \in RoutingKeys
    BY DEF TypeInv, TypeOK
  <2> HIDE DEF k, e
  <2>5. LastIsPast'
    BY <2>2, <2>3 DEF OrderInv, LastIsPast
  <2>6. HandIsNext'
    BY <2>3, <2>4 DEF OrderInv, HandIsNext
  <2>7. HandsDiffer' /\ ListsSorted'
    BY <2>4 DEF OrderInv, HandsDiffer, ListsSorted
  <2> QED
    BY <2>5, <2>6, <2>7 DEF OrderInv
<1> QED
  BY <1>1, <1>2 DEF Handled

LEMMA EndRoundHands ==
  ASSUME TypeInv, NEW n \in Nodes, EndRound(n)
  PROVE  /\ UNCHANGED current
         /\ hand' = [hand EXCEPT ![n] = <<>>]
         /\ \A o \in Nodes : hand'[o] = <<>> \/ hand'[o] = hand[o]
BY DEF EndRound, TypeInv, TypeOK

LEMMA OrderStep == TypeInv /\ OrderInv /\ [Next]_vars => OrderInv'
<1> SUFFICES ASSUME TypeInv, OrderInv, [Next]_vars PROVE OrderInv'
  OBVIOUS
<1>1. ASSUME UNCHANGED <<queue, pushed, current, hand, last>> PROVE OrderInv'
  BY <1>1 DEF OrderInv, ListsSorted, LastIsPast, HandIsNext, HandsDiffer
<1>2. ASSUME NEW m \in Messages, SendMessage(m) PROVE OrderInv'
  <2>1. CASE AppendMessage(m) /\ UNCHANGED <<current, hand, last>>
    BY <2>1, AppendOrder
  <2> QED
    BY <1>1, <1>2, <2>1 DEF SendMessage, SendKnown, SendUnknown, Add, Push, PushUnanswered,
                            listening
<1>3. ASSUME NEW n \in Nodes, BeginRound(n) PROVE OrderInv'
  BY <1>1, <1>3 DEF BeginRound
<1>4. ASSUME NEW n \in Nodes, AskFails(n) \/ NoMoreKeys(n) \/ Restart(n) PROVE OrderInv'
  <2>1. EndRound(n) /\ UNCHANGED <<queue, pushed, last>> /\ current[n] \in RoutingKeys
    BY <1>4 DEF AskFails, NoMoreKeys, Restart, TypeInv, TypeOK
  <2> QED
    BY <2>1, EndRoundHands, LossOrder
<1>5. ASSUME NEW n \in Nodes, AskLength(n) PROVE OrderInv'
  <2>1. PICK k \in todo[n] : current' = [current EXCEPT ![n] = k]
    BY <1>5 DEF AskLength
  <2>2. /\ hand[n] = <<>> /\ UNCHANGED <<queue, pushed, hand, last>>
        /\ k \in RoutingKeys
    BY <1>5 DEF AskLength, TypeInv, TypeOK, Counted
  <2>3. \A o \in Nodes \ {n} : current'[o] = current[o]
    BY <2>1 DEF TypeInv, TypeOK
  <2> QED
    BY <2>2, <2>3, LossOrder
<1>6. ASSUME NEW n \in Nodes, Pop(n) PROVE OrderInv'
  BY <1>6, PopOrder
<1>7. ASSUME NEW n \in Nodes, PopUnanswered(n) PROVE OrderInv'
  <2>1. /\ current[n] \in RoutingKeys
        /\ queue' = [queue EXCEPT ![current[n]] = Rest(current[n])]
        /\ UNCHANGED <<pushed, last, hand, current>>
    BY <1>7 DEF PopUnanswered, listening, TypeInv, TypeOK
  <2> QED
    BY <2>1, LossOrder
<1>8. ASSUME NEW n \in Nodes, PopFails(n) PROVE OrderInv'
  <2>1. /\ current[n] \in RoutingKeys /\ EndRound(n)
        /\ queue' \in {queue, [queue EXCEPT ![current[n]] = Rest(current[n])]}
        /\ UNCHANGED <<pushed, last>>
    BY <1>8 DEF PopFails, TypeInv, TypeOK
  <2> QED
    BY <2>1, EndRoundHands, LossOrder
<1>9. ASSUME NEW n \in Nodes, Deliver(n) PROVE OrderInv'
  BY <1>9, HandledOrder DEF Deliver
<1>10. ASSUME NEW n \in Nodes, ConsumerThrows(n) PROVE OrderInv'
  <2>1. /\ EndRound(n) /\ current[n] \in RoutingKeys
        /\ UNCHANGED <<queue, pushed>> /\ (Handled(n) \/ UNCHANGED last)
    BY <1>10 DEF ConsumerThrows, TypeInv, TypeOK
  <2>2. CASE Handled(n)
    BY <2>1, <2>2, EndRoundHands, HandledOrder
  <2>3. CASE UNCHANGED last
    BY <2>1, <2>3, EndRoundHands, LossOrder
  <2> QED
    BY <2>1, <2>2, <2>3
<1>11. CASE UNCHANGED vars
  BY <1>1, <1>11 DEF vars, listening
<1> QED
  BY <1>2, <1>3, <1>4, <1>5, <1>6, <1>7, <1>8, <1>9, <1>10, <1>11 DEF Next, OnMessage

LEMMA HandledLater ==
  ASSUME TypeInv, OrderInv, NEW o \in Nodes, Handled(o) \/ UNCHANGED last
  PROVE  \A n \in Nodes, k \in RoutingKeys : last'[n][k] # last[n][k]
                                            => last'[n][k] > last[n][k]
<1>1. CASE UNCHANGED last
  BY <1>1
<1>2. CASE hand[o] # <<>> /\ last' = [last EXCEPT ![o][current[o]] = hand[o][1].no]
  <2>1. last[o][current[o]] < hand[o][1].no /\ current[o] \in RoutingKeys
    BY <1>2, HandType DEF OrderInv, HandIsNext
  <2> QED
    BY <1>2, <2>1 DEF TypeInv, TypeOK
<1> QED
  BY <1>1, <1>2 DEF Handled

LEMMA OrderInvHolds == Spec => [](TypeInv /\ OrderInv)
<1>1. TypeInv /\ OrderInv /\ [Next]_vars => (TypeInv /\ OrderInv)'
  BY TypeStep, OrderStep
<1> QED
  BY <1>1, TypeInit, OrderInit, PTL DEF Spec

\* A node handles the messages of a routing key in the order in which they were
\* appended, whatever other nodes pop and faults lose in between.
THEOREM HandledInOrder == Spec => InOrder
<1>1. TypeInv /\ OrderInv /\ [Next]_vars
        => [\A n \in Nodes, k \in RoutingKeys : last'[n][k] # last[n][k]
                                               => last'[n][k] > last[n][k]]_vars
  <2> SUFFICES ASSUME TypeInv, OrderInv, Next
               PROVE  \A n \in Nodes, k \in RoutingKeys : last'[n][k] # last[n][k]
                                                        => last'[n][k] > last[n][k]
    OBVIOUS
  <2>1. CASE UNCHANGED last
    BY <2>1
  <2>2. ASSUME NEW n \in Nodes, Handled(n)
        PROVE  \A o \in Nodes, k \in RoutingKeys : last'[o][k] # last[o][k]
                                                 => last'[o][k] > last[o][k]
    BY <2>2, HandledLater
  <2>3. ASSUME NEW m \in Messages, SendMessage(m) PROVE UNCHANGED last
    BY <2>3 DEF SendMessage, SendKnown, SendUnknown, Add, Push, PushUnanswered
  <2>4. ASSUME NEW n \in Nodes, OnMessage(n) PROVE Handled(n) \/ UNCHANGED last
    BY <2>4 DEF OnMessage, BeginRound, AskLength, AskFails, NoMoreKeys, Pop, PopUnanswered,
                PopFails, Deliver, ConsumerThrows
  <2>5. ASSUME NEW n \in Nodes, Restart(n) PROVE UNCHANGED last
    BY <2>5 DEF Restart
  <2> QED
    BY <2>1, <2>2, <2>3, <2>4, <2>5 DEF Next
<1> QED
  BY <1>1, OrderInvHolds, PTL DEF Spec, InOrder

-----------------------------------------------------------------------------
(* The lists and the hands of the listeners as a lossy channel *)

In(e, q) == \E i \in 1..Len(q) : e = q[i]

HeldIn(q, h) ==
  (UNION {Range(q[k]) : k \in RoutingKeys}) \union (UNION {Range(h[n]) : n \in Nodes})

LEMMA HeldMembers ==
  ASSUME NEW q \in [RoutingKeys -> Seq(Entries)], NEW h \in [Nodes -> Seq(Entries)],
         \A n \in Nodes : Len(h[n]) <= 1, NEW e
  PROVE  e \in HeldIn(q, h)
         <=> \/ \E k \in RoutingKeys : In(e, q[k])
             \/ \E n \in Nodes : h[n] # <<>> /\ e = h[n][1]
<1>1. ASSUME NEW s \in Seq(Entries) PROVE e \in Range(s) <=> In(e, s)
  <2>1. DOMAIN s = 1..Len(s)
    OBVIOUS
  <2> QED
    BY <2>1 DEF Range, In
<1>2. ASSUME NEW s \in Seq(Entries), Len(s) <= 1
      PROVE  In(e, s) <=> s # <<>> /\ e = s[1]
  <2>1. CASE s = <<>>
    BY <2>1 DEF In
  <2>2. CASE s # <<>>
    <3>1. Len(s) = 1
      BY <1>2, <2>2, Singleton
    <3> QED
      BY <2>2, <3>1 DEF In
  <2> QED
    BY <2>1, <2>2
<1>3. \A n \in Nodes : e \in Range(h[n]) <=> h[n] # <<>> /\ e = h[n][1]
  BY <1>1, <1>2
<1>4. \A k \in RoutingKeys : e \in Range(q[k]) <=> In(e, q[k])
  BY <1>1
<1> QED
  BY <1>3, <1>4 DEF HeldIn

InLists(e) == \E k \in RoutingKeys : In(e, queue[k])
InHands(e) == \E n \in Nodes : hand[n] # <<>> /\ e = hand[n][1]

LEMMA HeldNow == ASSUME TypeInv, NEW e PROVE e \in Held <=> InLists(e) \/ InHands(e)
<1>1. /\ queue \in [RoutingKeys -> Seq(Entries)] /\ hand \in [Nodes -> Seq(Entries)]
      /\ \A n \in Nodes : Len(hand[n]) <= 1
  BY DEF TypeInv, TypeOK
<1>2. Held = HeldIn(queue, hand)
  BY DEF Held, HeldIn
<1>3. e \in HeldIn(queue, hand)
      <=> \/ \E k \in RoutingKeys : In(e, queue[k])
          \/ \E n \in Nodes : hand[n] # <<>> /\ e = hand[n][1]
  BY <1>1, HeldMembers
<1> QED
  BY <1>2, <1>3 DEF InLists, InHands

LEMMA HeldThen ==
  ASSUME TypeInv', NEW e PROVE e \in Held' <=> InLists(e)' \/ InHands(e)'
<1>1. /\ queue' \in [RoutingKeys -> Seq(Entries)] /\ hand' \in [Nodes -> Seq(Entries)]
      /\ \A n \in Nodes : Len(hand'[n]) <= 1
  BY DEF TypeInv, TypeOK
<1>2. Held' = HeldIn(queue', hand')
  BY DEF Held, HeldIn
<1>3. e \in HeldIn(queue', hand')
      <=> \/ \E k \in RoutingKeys : In(e, queue'[k])
          \/ \E n \in Nodes : hand'[n] # <<>> /\ e = hand'[n][1]
  BY <1>1, HeldMembers
<1> QED
  BY <1>2, <1>3 DEF InLists, InHands

LEMMA InAppend ==
  ASSUME NEW q \in Seq(Entries), NEW a \in Entries, NEW e
  PROVE  In(e, Append(q, a)) <=> In(e, q) \/ e = a
<1>1. /\ Len(q) \in Nat /\ Len(Append(q, a)) = Len(q) + 1
      /\ Append(q, a)[Len(q) + 1] = a
      /\ \A i \in 1..Len(q) : Append(q, a)[i] = q[i]
  BY Extended
<1>2. ASSUME In(e, q) \/ e = a PROVE In(e, Append(q, a))
  BY <1>1, <1>2 DEF In
<1>3. ASSUME In(e, Append(q, a)) PROVE In(e, q) \/ e = a
  <2>1. PICK i \in 1..(Len(q) + 1) : e = Append(q, a)[i]
    BY <1>1, <1>3 DEF In
  <2> QED
    BY <1>1, <2>1 DEF In
<1> QED
  BY <1>2, <1>3

LEMMA InRest ==
  ASSUME NEW q \in Seq(Entries), q # <<>>, NEW e
  PROVE  In(e, q) <=> e = q[1] \/ In(e, Tail(q))
<1>1. /\ Len(q) \in Nat \ {0} /\ Len(Tail(q)) = Len(q) - 1
      /\ \A i \in 1..(Len(q) - 1) : Tail(q)[i] = q[i + 1]
  BY Shortened
<1>2. ASSUME In(e, q) PROVE e = q[1] \/ In(e, Tail(q))
  <2>1. PICK i \in 1..Len(q) : e = q[i]
    BY <1>2 DEF In
  <2>2. CASE i # 1
    <3>1. i - 1 \in 1..(Len(q) - 1) /\ e = Tail(q)[i - 1]
      BY <1>1, <2>1, <2>2
    <3> QED
      BY <1>1, <3>1 DEF In
  <2> QED
    BY <2>1, <2>2
<1>3. ASSUME e = q[1] PROVE In(e, q)
  BY <1>1, <1>3 DEF In
<1>4. ASSUME In(e, Tail(q)) PROVE In(e, q)
  <2>1. PICK i \in 1..(Len(q) - 1) : e = q[i + 1]
    BY <1>1, <1>4 DEF In
  <2>2. i + 1 \in 1..Len(q)
    BY <1>1
  <2> QED
    BY <2>1, <2>2 DEF In
<1> QED
  BY <1>2, <1>3, <1>4

LEMMA PutStep ==
  ASSUME TypeInv, TypeInv', OrderInv, NEW m \in Messages, AppendMessage(m),
         UNCHANGED <<hand, handled>>
  PROVE  Channel!Put
<1> DEFINE k == key[m]  a == Entry(m)
<1>1. /\ k \in RoutingKeys /\ a \in Entries /\ queue[k] \in Seq(Entries)
      /\ queue' = [queue EXCEPT ![k] = Append(@, a)]
  BY AppendTypes DEF TypeInv
<1>2. a.key = k /\ a.no = pushed[k] + 1 /\ pushed[k] \in Nat
  BY <1>1 DEF Entry, TypeInv, TypeOK
<1>3. queue'[k] = Append(queue[k], a) /\ \A j \in RoutingKeys \ {k} : queue'[j] = queue[j]
  BY <1>1 DEF TypeInv, TypeOK
<1> HIDE DEF k, a
<1>4. ~InLists(a)
  <2> SUFFICES ASSUME NEW j \in RoutingKeys, NEW i \in 1..Len(queue[j]), a = queue[j][i]
               PROVE  FALSE
    BY DEF InLists, In
  <2>1. a.key = j /\ a.no <= pushed[j]
    BY DEF OrderInv, ListsSorted, Sorted
  <2> QED
    BY <1>2, <2>1
<1>5. ~InHands(a)
  <2> SUFFICES ASSUME NEW n \in Nodes, hand[n] # <<>>, a = hand[n][1] PROVE FALSE
    BY DEF InHands
  <2>1. a.key = current[n] /\ a.no <= pushed[current[n]]
    BY DEF OrderInv, HandIsNext
  <2> QED
    BY <1>2, <2>1
<1>6. \A e : InLists(e)' <=> InLists(e) \/ e = a
  <2>1. \A e : In(e, queue'[k]) <=> In(e, queue[k]) \/ e = a
    BY <1>1, <1>3, InAppend
  <2> QED
    BY <1>1, <1>3, <2>1 DEF InLists
<1>7. \A e : InHands(e)' <=> InHands(e)
  BY DEF InHands
<1>8. Held' = Held \union {a} /\ a \notin Held
  BY <1>4, <1>5, <1>6, <1>7, HeldNow, HeldThen
<1> QED
  BY <1>8 DEF Channel!Put

LEMMA RestMembers ==
  ASSUME TypeInv, NEW k \in RoutingKeys, queue' = [queue EXCEPT ![k] = Rest(k)]
  PROVE  /\ queue[k] = <<>> => \A e : InLists(e)' <=> InLists(e)
         /\ queue[k] # <<>> => \A e : InLists(e) <=> e = queue[k][1] \/ InLists(e)'
<1>1. queue[k] \in Seq(Entries)
  BY DEF TypeInv, TypeOK
<1>2. queue'[k] = Rest(k) /\ \A j \in RoutingKeys \ {k} : queue'[j] = queue[j]
  BY DEF TypeInv, TypeOK
<1>3. CASE queue[k] = <<>>
  <2>1. \A j \in RoutingKeys : queue'[j] = queue[j]
    BY <1>2, <1>3 DEF Rest
  <2> QED
    BY <1>3, <2>1 DEF InLists
<1>4. CASE queue[k] # <<>>
  <2>1. \A e : In(e, queue[k]) <=> e = queue[k][1] \/ In(e, queue'[k])
    BY <1>1, <1>2, <1>4, InRest DEF Rest
  <2> QED
    BY <1>2, <1>4, <2>1 DEF InLists
<1> QED
  BY <1>3, <1>4

LEMMA LoseStep ==
  ASSUME TypeInv, TypeInv', NEW k \in RoutingKeys,
         queue' \in {queue, [queue EXCEPT ![k] = Rest(k)]}, UNCHANGED handled,
         \A n \in Nodes : hand'[n] = <<>> \/ hand'[n] = hand[n]
  PROVE  Channel!Lose
<1>1. \A e : InLists(e)' => InLists(e)
  <2>1. CASE queue' = queue
    BY <2>1 DEF InLists
  <2>2. CASE queue' = [queue EXCEPT ![k] = Rest(k)]
    BY <2>2, RestMembers
  <2> QED
    BY <2>1, <2>2
<1>2. \A e : InHands(e)' => InHands(e)
  BY DEF InHands
<1>3. Held' \subseteq Held
  BY <1>1, <1>2, HeldNow, HeldThen
<1> QED
  BY <1>3 DEF Channel!Lose

\* A pop moves the first entry of a list into the hands of the listener.
LEMMA MoveStep ==
  ASSUME TypeInv, TypeInv', NEW n \in Nodes, Pop(n)
  PROVE  Channel!Lose
<1> DEFINE k == current[n]
<1>1. k \in RoutingKeys /\ queue[k] \in Seq(Entries) /\ hand[n] = <<>>
  BY DEF Pop, TypeInv, TypeOK, Counted
<1>2. queue' = [queue EXCEPT ![k] = Rest(k)] /\ handled' = handled
  BY DEF Pop
<1>3. hand'[n] = First(k) /\ \A o \in Nodes \ {n} : hand'[o] = hand[o]
  BY DEF Pop, TypeInv, TypeOK
<1>4. CASE queue[k] = <<>>
  <2>1. \A o \in Nodes : hand'[o] = <<>> \/ hand'[o] = hand[o]
    BY <1>3, <1>4 DEF First
  <2> QED
    BY <1>1, <1>2, <2>1, LoseStep
<1>5. CASE queue[k] # <<>>
  <2>1. hand'[n] = <<queue[k][1]>>
    BY <1>1, <1>3, <1>5, Shortened DEF First
  <2>2. \A e : InHands(e)' <=> InHands(e) \/ e = queue[k][1]
    BY <1>1, <1>3, <2>1 DEF InHands
  <2>3. \A e : InLists(e) <=> e = queue[k][1] \/ InLists(e)'
    BY <1>1, <1>2, <1>5, RestMembers
  <2>4. Held' \subseteq Held
    BY <2>2, <2>3, HeldNow, HeldThen
  <2> QED
    BY <1>2, <2>4 DEF Channel!Lose
<1> QED
  BY <1>4, <1>5

LEMMA HandleStep ==
  ASSUME TypeInv, TypeInv', OrderInv, NEW n \in Nodes, Handled(n),
         hand' = [hand EXCEPT ![n] = <<>>], UNCHANGED queue
  PROVE  Channel!Lose \/ \E e \in Held : Channel!Handle(e)
<1>1. hand'[n] = <<>> /\ \A o \in Nodes \ {n} : hand'[o] = hand[o]
  BY DEF TypeInv, TypeOK
<1>2. CASE UNCHANGED handled
  <2>1. current[n] \in RoutingKeys
    BY DEF TypeInv, TypeOK
  <2> QED
    BY <1>1, <1>2, <2>1, LoseStep
<1>3. CASE hand[n] # <<>> /\ handled' = handled \o hand[n]
  <2> DEFINE a == hand[n][1]
  <2>1. a \in Entries /\ hand[n] = <<a>> /\ current[n] \in RoutingKeys /\ a.no \in Nat
    BY <1>3, HandType
  <2>2. a.key = current[n] /\ Below(a.no, queue[current[n]])
    BY <1>3 DEF OrderInv, HandIsNext
  <2>3. InHands(a)
    BY <1>3 DEF InHands
  <2>4. ASSUME NEW o \in Nodes \ {n}, hand[o] # <<>> PROVE hand[o][1] # a
    BY <1>3, <2>4 DEF OrderInv, HandsDiffer
  <2> HIDE DEF a
  <2>5. ~InLists(a)
    <3> SUFFICES ASSUME NEW j \in RoutingKeys, NEW i \in 1..Len(queue[j]), a = queue[j][i]
                 PROVE  FALSE
      BY DEF InLists, In
    <3>1. a.key = j
      BY DEF OrderInv, ListsSorted, Sorted
    <3>2. a.no < a.no
      BY <2>2, <3>1 DEF Below
    <3> QED
      BY <2>1, <3>2
  <2>6. \A e : InHands(e)' <=> InHands(e) /\ e # a
    BY <1>1, <1>3, <2>4 DEF InHands, a
  <2>7. \A e : InLists(e)' <=> InLists(e)
    BY DEF InLists
  <2>8. Held' = Held \ {a} /\ a \in Held
    BY <2>3, <2>5, <2>6, <2>7, HeldNow, HeldThen
  <2>9. handled' = Append(handled, a)
    BY <1>3, <2>1 DEF TypeInv, TypeOK
  <2> QED
    BY <2>8, <2>9 DEF Channel!Handle
<1> QED
  BY <1>2, <1>3 DEF Handled

LEMMA ChannelStep ==
  TypeInv /\ OrderInv /\ [Next]_vars => [Channel!Next]_<<Held, handled>>
<1> SUFFICES ASSUME TypeInv, OrderInv, [Next]_vars PROVE [Channel!Next]_<<Held, handled>>
  OBVIOUS
<1>0. TypeInv'
  BY TypeStep
<1>1. ASSUME UNCHANGED <<queue, hand, handled>> PROVE UNCHANGED <<Held, handled>>
  BY <1>1 DEF Held
<1>2. ASSUME NEW m \in Messages, SendMessage(m) PROVE [Channel!Next]_<<Held, handled>>
  <2>1. CASE AppendMessage(m) /\ UNCHANGED <<hand, handled>>
    BY <1>0, <2>1, PutStep DEF Channel!Next
  <2> QED
    BY <1>1, <1>2, <2>1 DEF SendMessage, SendKnown, SendUnknown, Add, Push, PushUnanswered,
                            listening
<1>3. ASSUME NEW n \in Nodes, BeginRound(n) \/ AskLength(n)
      PROVE  [Channel!Next]_<<Held, handled>>
  BY <1>1, <1>3 DEF BeginRound, AskLength
<1>4. ASSUME NEW n \in Nodes, PopUnanswered(n) PROVE Channel!Next
  <2>1. /\ current[n] \in RoutingKeys
        /\ queue' = [queue EXCEPT ![current[n]] = Rest(current[n])]
        /\ UNCHANGED <<handled, hand>>
    BY <1>4 DEF PopUnanswered, listening, TypeInv, TypeOK
  <2> QED
    BY <1>0, <2>1, LoseStep DEF Channel!Next
<1>5. ASSUME NEW n \in Nodes, EndRound(n), UNCHANGED handled,
             queue' \in {queue, [queue EXCEPT ![current[n]] = Rest(current[n])]}
      PROVE  Channel!Next
  <2>1. current[n] \in RoutingKeys
    BY DEF TypeInv, TypeOK
  <2> QED
    BY <1>0, <1>5, <2>1, EndRoundHands, LoseStep DEF Channel!Next
<1>6. ASSUME NEW n \in Nodes, AskFails(n) \/ NoMoreKeys(n) \/ PopFails(n) \/ Restart(n)
      PROVE  Channel!Next
  BY <1>5, <1>6 DEF AskFails, NoMoreKeys, PopFails, Restart
<1>7. ASSUME NEW n \in Nodes, Pop(n) PROVE Channel!Next
  BY <1>0, <1>7, MoveStep DEF Channel!Next
<1>8. ASSUME NEW n \in Nodes, Deliver(n) PROVE Channel!Next
  BY <1>0, <1>8, HandleStep DEF Deliver, Channel!Next
<1>9. ASSUME NEW n \in Nodes, ConsumerThrows(n) PROVE Channel!Next
  <2>1. EndRound(n) /\ queue' = queue /\ (Handled(n) \/ UNCHANGED handled)
    BY <1>9 DEF ConsumerThrows
  <2>2. CASE UNCHANGED handled
    BY <1>5, <2>1, <2>2
  <2>3. CASE Handled(n)
    BY <1>0, <2>1, <2>3, EndRoundHands, HandleStep DEF Channel!Next
  <2> QED
    BY <2>1, <2>2, <2>3
<1>10. CASE UNCHANGED vars
  BY <1>1, <1>10 DEF vars, listening
<1> QED
  BY <1>2, <1>3, <1>4, <1>6, <1>7, <1>8, <1>9, <1>10 DEF Next, OnMessage

\* The lists and listeners of all nodes are a channel that loses messages and never
\* invents or repeats one: nothing is handled that was not appended, and nothing twice
\* that was appended once.
THEOREM QueueIsLossyChannel == Spec => ImplementsChannel
<1>1. Init => Channel!Init
  <2> SUFFICES ASSUME Init PROVE Held = {} /\ handled = <<>>
    BY DEF Channel!Init
  <2>1. \A e : ~InLists(e) /\ ~InHands(e)
    BY DEF Init, InLists, InHands, In
  <2> QED
    BY <2>1, TypeInit, HeldNow DEF Init
<1>2. TypeInv /\ OrderInv /\ [Next]_vars => [Channel!Next]_<<Held, handled>>
  BY ChannelStep
<1> QED
  BY <1>1, <1>2, OrderInvHolds, PTL DEF Spec, ImplementsChannel, Channel!Spec

-----------------------------------------------------------------------------
(* Order and rounds *)

\* A message that enters a list is placed behind all that wait in it, and one that
\* leaves it was before all that stay.
FirstInFirstOut ==
  \A k \in RoutingKeys :
    /\ \A e, f : In(e, queue[k]) /\ In(f, queue'[k]) /\ ~In(f, queue[k]) => e.no < f.no
    /\ \A e, f : In(e, queue[k]) /\ ~In(e, queue'[k]) /\ In(f, queue'[k]) => e.no < f.no

LEMMA QueueEffect ==
  ASSUME TypeInv, [Next]_vars
  PROVE  \/ queue' = queue
         \/ \E m \in Messages : AppendMessage(m)
         \/ \E k \in RoutingKeys : queue' = [queue EXCEPT ![k] = Rest(k)]
<1>1. ASSUME NEW m \in Messages, SendMessage(m) PROVE queue' = queue \/ AppendMessage(m)
  BY <1>1 DEF SendMessage, SendKnown, SendUnknown, Add, Push, PushUnanswered
<1>2. ASSUME NEW n \in Nodes, OnMessage(n)
      PROVE  \/ queue' = queue
             \/ queue' = [queue EXCEPT ![current[n]] = Rest(current[n])]
  BY <1>2 DEF OnMessage, BeginRound, AskLength, AskFails, NoMoreKeys, Pop, PopUnanswered,
              PopFails, Deliver, ConsumerThrows
<1>3. ASSUME NEW n \in Nodes, Restart(n) PROVE queue' = queue
  BY <1>3 DEF Restart
<1>4. \A n \in Nodes : current[n] \in RoutingKeys
  BY DEF TypeInv, TypeOK
<1> QED
  BY <1>1, <1>2, <1>3, <1>4 DEF Next, vars

LEMMA FifoStep == TypeInv /\ OrderInv /\ [Next]_vars => FirstInFirstOut
<1> SUFFICES ASSUME TypeInv, OrderInv, [Next]_vars, NEW k \in RoutingKeys
             PROVE  /\ \A e, f : In(e, queue[k]) /\ In(f, queue'[k]) /\ ~In(f, queue[k])
                                   => e.no < f.no
                    /\ \A e, f : In(e, queue[k]) /\ ~In(e, queue'[k]) /\ In(f, queue'[k])
                                   => e.no < f.no
  BY DEF FirstInFirstOut
<1>1. queue[k] \in Seq(Entries) /\ pushed[k] \in Nat /\ Sorted(k, queue[k], pushed[k])
  BY DEF TypeInv, TypeOK, OrderInv, ListsSorted
<1>2. CASE queue'[k] = queue[k]
  BY <1>2
<1>3. ASSUME NEW m \in Messages, AppendMessage(m), key[m] = k
      PROVE  \A e, f : /\ In(e, queue[k]) => In(e, queue'[k])
                       /\ In(e, queue[k]) /\ In(f, queue'[k]) /\ ~In(f, queue[k])
                            => e.no < f.no
  <2>1. Entry(m) \in Entries /\ queue'[k] = Append(queue[k], Entry(m))
    BY <1>3, AppendTypes DEF TypeInv, TypeOK
  <2>2. Entry(m).no = pushed[k] + 1
    BY <1>3 DEF Entry
  <2>3. \A f : In(f, queue'[k]) <=> In(f, queue[k]) \/ f = Entry(m)
    BY <1>1, <2>1, InAppend
  <2>4. ASSUME NEW e, In(e, queue[k]) PROVE e.no < pushed[k] + 1
    <3>1. PICK i \in 1..Len(queue[k]) : e = queue[k][i]
      BY <2>4 DEF In
    <3>2. e \in Entries /\ e.no <= pushed[k]
      BY <1>1, <3>1 DEF Sorted
    <3> QED
      BY <1>1, <3>2 DEF Entries
  <2> QED
    BY <2>2, <2>3, <2>4
<1>4. ASSUME queue'[k] = Rest(k), queue[k] # <<>>
      PROVE  \A e, f : /\ In(f, queue'[k]) => In(f, queue[k])
                       /\ In(e, queue[k]) /\ ~In(e, queue'[k]) /\ In(f, queue'[k])
                            => e.no < f.no
  <2>1. queue'[k] = Tail(queue[k])
    BY <1>4 DEF Rest
  <2>2. \A e : In(e, queue[k]) <=> e = queue[k][1] \/ In(e, queue'[k])
    BY <1>1, <1>4, <2>1, InRest
  <2>3. \A f : In(f, queue'[k]) => queue[k][1].no < f.no
    BY <1>1, <1>4, <2>1, SortedRest DEF Below, In
  <2> QED
    BY <2>2, <2>3
<1>5. CASE \E m \in Messages : AppendMessage(m)
  <2>1. PICK m \in Messages : AppendMessage(m)
    BY <1>5
  <2>2. key[m] # k => queue'[k] = queue[k]
    BY <2>1, AppendTypes DEF TypeInv, TypeOK
  <2> QED
    BY <1>2, <1>3, <2>1, <2>2
<1>6. CASE \E j \in RoutingKeys : queue' = [queue EXCEPT ![j] = Rest(j)]
  <2>1. queue'[k] = queue[k] \/ queue'[k] = Rest(k)
    BY <1>6 DEF TypeInv, TypeOK
  <2>2. queue[k] = <<>> => Rest(k) = queue[k]
    BY DEF Rest
  <2> QED
    BY <1>2, <1>4, <2>1, <2>2
<1> QED
  BY <1>2, <1>5, <1>6, QueueEffect

\* Whoever pops, repeats a command or fails, nothing overtakes a message in its list:
\* with every one that leaves, those behind it come nearer to the listeners.
THEOREM NobodyOvertakes == Spec => [][FirstInFirstOut]_vars
<1>1. TypeInv /\ OrderInv /\ [Next]_vars => [FirstInFirstOut]_vars
  BY FifoStep
<1> QED
  BY <1>1, OrderInvHolds, PTL DEF Spec

\* The steps a listener has still to make with the key that its iterator has returned.
PopsLeft(n) == 2 * left[n] + (IF round[n] = "hand" THEN 1 ELSE 0)

\* A message adds its key, which it does once.
Adding(m) == stage[m] = "add" /\ stage'[m] = "push"

\* A step of a listener in its round ends the round, takes a key from the iterator,
\* or brings it nearer to the end of its list, unless it is a fault.  Nobody else's
\* step gives it more to pop, and only a message that adds its key gives it more keys.
RoundAdvances ==
  \A n \in Nodes : round[n] # "idle" =>
    /\ PopsLeft(n) \in Nat
    /\ OnMessage(n) => \/ round'[n] = "idle"
                       \/ todo'[n] \subseteq todo[n] /\ todo'[n] # todo[n]
                       \/ todo'[n] = todo[n] /\ PopsLeft(n)' < PopsLeft(n)
                       \/ faults' = faults + 1
    /\ ~OnMessage(n) => \/ round'[n] = "idle"
                        \/ /\ PopsLeft(n)' = PopsLeft(n)
                           /\ todo'[n] = todo[n] \/ \E m \in Messages : Adding(m)

LEMMA RoundStep == TypeInv /\ [Next]_vars => RoundAdvances
<1> SUFFICES ASSUME TypeInv, [Next]_vars, NEW n \in Nodes, round[n] # "idle"
             PROVE  /\ PopsLeft(n) \in Nat
                    /\ OnMessage(n) => \/ round'[n] = "idle"
                                       \/ todo'[n] \subseteq todo[n] /\ todo'[n] # todo[n]
                                       \/ todo'[n] = todo[n] /\ PopsLeft(n)' < PopsLeft(n)
                                       \/ faults' = faults + 1
                    /\ ~OnMessage(n) => \/ round'[n] = "idle"
                                        \/ /\ PopsLeft(n)' = PopsLeft(n)
                                           /\ todo'[n] = todo[n] \/ \E m \in Messages : Adding(m)
  BY DEF RoundAdvances
<1>1. /\ left[n] \in Nat
      /\ round[n] = "pop" => left[n] # 0
      /\ round \in [Nodes -> {"idle", "next", "pop", "hand"}]
      /\ left \in [Nodes -> Nat]
      /\ todo \in [Nodes -> SUBSET RoutingKeys]
  BY DEF TypeInv, TypeOK, Counted
<1>2. PopsLeft(n) \in Nat
  BY <1>1 DEF PopsLeft
<1>3. ASSUME OnMessage(n)
      PROVE  \/ round'[n] = "idle"
             \/ todo'[n] \subseteq todo[n] /\ todo'[n] # todo[n]
             \/ todo'[n] = todo[n] /\ PopsLeft(n)' < PopsLeft(n)
             \/ faults' = faults + 1
  <2>1. CASE BeginRound(n)
    BY <2>1 DEF BeginRound
  <2>2. CASE AskLength(n)
    BY <1>1, <2>2 DEF AskLength
  <2>3. CASE AskFails(n) \/ NoMoreKeys(n) \/ PopFails(n) \/ ConsumerThrows(n)
    BY <1>1, <2>3 DEF AskFails, NoMoreKeys, PopFails, ConsumerThrows, EndRound
  <2>4. CASE Pop(n)
    <3>1. /\ round[n] = "pop" /\ round'[n] = "hand" /\ left'[n] = left[n] - 1
          /\ todo' = todo
      BY <1>1, <2>4 DEF Pop
    <3> QED
      BY <1>1, <3>1 DEF PopsLeft
  <2>5. CASE PopUnanswered(n)
    BY <2>5 DEF PopUnanswered, Fault
  <2>6. CASE Deliver(n)
    <3>1. round[n] = "hand" /\ round'[n] # "hand" /\ UNCHANGED <<left, todo>>
      BY <1>1, <2>6 DEF Deliver
    <3> QED
      BY <1>1, <3>1 DEF PopsLeft
  <2> QED
    BY <1>3, <2>1, <2>2, <2>3, <2>4, <2>5, <2>6 DEF OnMessage
<1>4. ASSUME NEW m \in Messages, SendMessage(m)
      PROVE  PopsLeft(n)' = PopsLeft(n) /\ (todo'[n] = todo[n] \/ Adding(m))
  <2>1. CASE Add(m)
    <3>1. UNCHANGED <<left, round>>
      BY <2>1 DEF Add
    <3>2. Adding(m)
      BY <2>1 DEF Add, Adding, TypeInv, TypeOK
    <3> QED
      BY <3>1, <3>2 DEF PopsLeft
  <2>2. CASE ~Add(m)
    BY <1>4, <2>2 DEF SendMessage, SendKnown, SendUnknown, Push, PushUnanswered, listening,
       PopsLeft
  <2> QED
    BY <2>1, <2>2
<1>5. ASSUME NEW o \in Nodes, o # n, OnMessage(o) \/ Restart(o)
      PROVE  PopsLeft(n)' = PopsLeft(n) /\ todo'[n] = todo[n]
  <2>1. left'[n] = left[n] /\ round'[n] = round[n] /\ todo'[n] = todo[n]
    BY <1>1, <1>5 DEF OnMessage, BeginRound, AskLength, AskFails, NoMoreKeys, Pop,
       PopUnanswered, PopFails, Deliver, ConsumerThrows, Restart, EndRound, listening
  <2> QED
    BY <2>1 DEF PopsLeft
<1>6. CASE Restart(n)
  BY <1>1, <1>2, <1>3, <1>6 DEF Restart, EndRound
<1>7. CASE UNCHANGED vars
  <2>1. PopsLeft(n)' = PopsLeft(n) /\ todo'[n] = todo[n]
    BY <1>7 DEF vars, listening, PopsLeft
  <2> QED
    BY <1>2, <1>3, <2>1
<1> QED
  BY <1>2, <1>3, <1>4, <1>5, <1>6, <1>7 DEF Next

\* Every round of a listener comes to its end: it can neither be kept popping by those
\* that append to the list it drains, nor asking by those that add keys.
THEOREM RoundsEnd == Spec => [][RoundAdvances]_vars
<1>1. TypeInv /\ [Next]_vars => [RoundAdvances]_vars
  BY RoundStep
<1> QED
  BY <1>1, TypeInit, TypeStep, PTL DEF Spec

=============================================================================
