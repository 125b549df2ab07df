----------------------------- MODULE RedisQueue -----------------------------
(***************************************************************************)
(* The message queue of devplat-redis.  RedisMQServiceImpl.sendMessage adds *)
(* the routing key to a static HashSet of its JVM and appends the message  *)
(* to a Redis list; RedisMQListener.onMessage, scheduled in every node,    *)
(* goes through the keys of its JVM, asks for the length of each list,     *)
(* pops as many messages and hands each to the consumers.                  *)
(*                                                                         *)
(* Every Redis command is a step, and so is every access to the HashSet,   *)
(* which no lock protects.  JedisCluster repeats a command whose answer it *)
(* has not got, whether or not Redis has carried it out.                   *)
(***************************************************************************)
EXTENDS Integers, Sequences, FiniteSets, Functions

CONSTANTS
  Nodes,          \* web nodes, a JVM each
  RoutingKeys,
  ConsumedKeys,   \* the routing keys that have a consumer
  Messages,       \* bound: the messages that are ever sent
  MaxFaults       \* bound: restarts, failed commands, lost answers

ASSUME QueueAssumption ==
  /\ RoutingKeys # {}
  /\ ConsumedKeys \subseteq RoutingKeys
  /\ MaxFaults \in Nat

VARIABLES
  routingKeys,  \* the static HashSet of each JVM
  queue,        \* the Redis list of each routing key
  stage,        \* where each message is in sendMessage
  sender, key,  \* the node that sends it, and its routing key
  seen,         \* the routing keys sendMessage has found in the set
  round,        \* where the listener of each node is in onMessage
  todo,         \* the keys its iterator has still to return
  modified,     \* nodes whose set has changed under the iterator
  current,      \* the key the iterator has returned
  left,         \* mqLength - m
  hand,         \* the message it has popped, if any
  faults,       \* restarts, failed commands and lost answers so far
  pushed,       \* history: how many messages each list has ever got
  handled,      \* history: the messages handed to a consumer
  last,         \* history: the last message of each key a node has handled
  raced,        \* history: nodes whose list got shorter by another's pop
  forgotten     \* history: keys dropped from a set by a restart or a race

sending == <<stage, sender, key, seen>>
listening == <<round, todo, modified, current, left, hand>>
vars == <<routingKeys, queue, sending, listening, faults, pushed, handled, last,
          raced, forgotten>>

\* The no-th message of the list of a routing key.
Entries == [key : RoutingKeys, msg : Messages, no : Nat \ {0}]

TypeOK ==
  /\ routingKeys \in [Nodes -> SUBSET RoutingKeys]
  /\ queue \in [RoutingKeys -> Seq(Entries)]
  /\ stage \in [Messages -> {"new", "add", "push", "done"}]
  /\ sender \in [Messages -> Nodes]
  /\ key \in [Messages -> RoutingKeys]
  /\ seen \in [Messages -> SUBSET RoutingKeys]
  /\ round \in [Nodes -> {"idle", "next", "pop", "hand"}]
  /\ todo \in [Nodes -> SUBSET RoutingKeys]
  /\ modified \in SUBSET Nodes
  /\ current \in [Nodes -> RoutingKeys]
  /\ left \in [Nodes -> Nat]
  /\ hand \in [Nodes -> Seq(Entries)]
  /\ faults \in 0..MaxFaults
  /\ pushed \in [RoutingKeys -> Nat]
  /\ handled \in Seq(Entries)
  /\ last \in [Nodes -> [RoutingKeys -> Nat]]
  /\ raced \in SUBSET Nodes
  /\ forgotten \in SUBSET RoutingKeys
  /\ \A n \in Nodes : Len(hand[n]) <= 1

Init ==
  /\ routingKeys = [n \in Nodes |-> {}]
  /\ queue = [k \in RoutingKeys |-> <<>>]
  /\ stage = [m \in Messages |-> "new"]
  /\ sender \in [Messages -> Nodes]
  /\ key \in [Messages -> RoutingKeys]
  /\ seen = [m \in Messages |-> {}]
  /\ round = [n \in Nodes |-> "idle"]
  /\ todo = [n \in Nodes |-> {}]
  /\ modified = {}
  /\ current = [n \in Nodes |-> CHOOSE k \in RoutingKeys : TRUE]
  /\ left = [n \in Nodes |-> 0]
  /\ hand = [n \in Nodes |-> <<>>]
  /\ faults = 0
  /\ pushed = [k \in RoutingKeys |-> 0]
  /\ handled = <<>>
  /\ last = [n \in Nodes |-> [k \in RoutingKeys |-> 0]]
  /\ raced = {}
  /\ forgotten = {}

Fault == faults < MaxFaults /\ faults' = faults + 1

-----------------------------------------------------------------------------
(* sendMessage *)

\* The key is in the set already ...
SendKnown(m) ==
  /\ stage[m] = "new"
  /\ key[m] \in routingKeys[sender[m]]
  /\ stage' = [stage EXCEPT ![m] = "push"]
  /\ UNCHANGED <<routingKeys, queue, sender, key, seen, listening, faults, pushed,
                 handled, last, raced, forgotten>>

\* Mutant: the key of a first message is not kept.
SendUnregistered(m) ==
  /\ stage[m] = "new"
  /\ key[m] \notin routingKeys[sender[m]]
  /\ stage' = [stage EXCEPT ![m] = "push"]
  /\ UNCHANGED <<routingKeys, queue, sender, key, seen, listening, faults, pushed,
                 handled, last, raced, forgotten>>

\* ... or it is not, and is added.
SendUnknown(m) ==
  /\ stage[m] = "new"
  /\ key[m] \notin routingKeys[sender[m]]
  /\ stage' = [stage EXCEPT ![m] = "add"]
  /\ seen' = [seen EXCEPT ![m] = routingKeys[sender[m]]]
  /\ UNCHANGED <<routingKeys, queue, sender, key, listening, faults, pushed,
                 handled, last, raced, forgotten>>

\* HashSet.add without a lock: keys added since the set was read can be overwritten,
\* and an iterator over it may or may not return the new key.
Add(m) ==
  LET n == sender[m] IN
  /\ stage[m] = "add"
  /\ stage' = [stage EXCEPT ![m] = "push"]
  /\ \E base \in {routingKeys[n], seen[m]} :
       /\ routingKeys' = [routingKeys EXCEPT ![n] = base \union {key[m]}]
       /\ forgotten' = forgotten \union (routingKeys[n] \ (base \union {key[m]}))
  /\ seen' = [seen EXCEPT ![m] = {}]
  /\ IF round[n] = "idle"
     THEN UNCHANGED <<modified, todo>>
     ELSE /\ modified' = modified \union {n}
          /\ \E more \in SUBSET {key[m]} : todo' = [todo EXCEPT ![n] = @ \union more]
  /\ UNCHANGED <<queue, sender, key, round, current, left, hand, faults, pushed,
                 handled, last, raced>>

\* Mutant: lpush
PrependMessage(m) ==
  LET k == key[m] IN
  /\ pushed' = [pushed EXCEPT ![k] = @ + 1]
  /\ queue' = [queue EXCEPT ![k] = <<[key |-> k, msg |-> m, no |-> pushed[k] + 1]>> \o @]

\* rpush
AppendMessage(m) ==
  LET k == key[m] IN
  /\ pushed' = [pushed EXCEPT ![k] = @ + 1]
  /\ queue' = [queue EXCEPT ![k] = Append(@, [key |-> k, msg |-> m, no |-> pushed[k] + 1])]

Push(m) ==
  /\ stage[m] = "push"
  /\ AppendMessage(m)
  /\ stage' = [stage EXCEPT ![m] = "done"]
  /\ UNCHANGED <<routingKeys, sender, key, seen, listening, faults, handled, last,
                 raced, forgotten>>

\* The answer to rpush is lost: JedisCluster repeats the command, or gives up.
PushUnanswered(m) ==
  /\ stage[m] = "push"
  /\ Fault
  /\ \/ AppendMessage(m)
     \/ UNCHANGED <<pushed, queue>>
  /\ stage' \in {stage, [stage EXCEPT ![m] = "done"]}
  /\ UNCHANGED <<routingKeys, sender, key, seen, listening, handled, last, raced,
                 forgotten>>

-----------------------------------------------------------------------------
(* onMessage *)

BeginRound(n) ==
  /\ round[n] = "idle"
  /\ routingKeys[n] # {}
  /\ round' = [round EXCEPT ![n] = "next"]
  /\ todo' = [todo EXCEPT ![n] = routingKeys[n]]
  /\ modified' = modified \ {n}
  /\ UNCHANGED <<routingKeys, queue, sending, current, left, hand, faults, pushed,
                 handled, last, raced, forgotten>>

\* onMessage returns or throws; the scheduler runs it again.
EndRound(n) ==
  /\ round' = [round EXCEPT ![n] = "idle"]
  /\ todo' = [todo EXCEPT ![n] = {}]
  /\ modified' = modified \ {n}
  /\ left' = [left EXCEPT ![n] = 0]
  /\ hand' = [hand EXCEPT ![n] = <<>>]
  /\ UNCHANGED current

\* Mutant: m <= mqLength
OnePopMore(k) == Len(queue[k]) + 1

Pops(k) == Len(queue[k])

\* Mutant: the loop tests its condition at the end.
PopAlways(k) == "pop"

PopOrNext(k) == IF queue[k] = <<>> THEN "next" ELSE "pop"

\* The iterator returns a key, in the HashSet's order, and the length of its list is
\* read.
AskLength(n) ==
  /\ round[n] = "next"
  /\ \E k \in todo[n] :
       /\ todo' = [todo EXCEPT ![n] = @ \ {k}]
       /\ current' = [current EXCEPT ![n] = k]
       /\ left' = [left EXCEPT ![n] = Pops(k)]
       /\ round' = [round EXCEPT ![n] = PopOrNext(k)]
  /\ raced' = raced \ {n}
  /\ UNCHANGED <<routingKeys, queue, sending, modified, hand, faults, pushed, handled,
                 last, forgotten>>

\* llen fails, or the iterator notices that its set has changed.
AskFails(n) ==
  /\ round[n] = "next"
  /\ todo[n] # {}
  /\ \/ Fault
     \/ n \in modified /\ UNCHANGED faults
  /\ EndRound(n)
  /\ UNCHANGED <<routingKeys, queue, sending, pushed, handled, last, raced, forgotten>>

NoMoreKeys(n) ==
  /\ round[n] = "next"
  /\ todo[n] = {}
  /\ EndRound(n)
  /\ UNCHANGED <<routingKeys, queue, sending, faults, pushed, handled, last, raced,
                 forgotten>>

\* Those that have read the length of the list before it got shorter.
Draining(k) == {n \in Nodes : round[n] \in {"pop", "hand"} /\ current[n] = k}

\* The end of the list that lpop takes from, and what it leaves.
First(k) == IF queue[k] = <<>> THEN <<>> ELSE <<Head(queue[k])>>

\* Mutant: the message is read and not removed.
AllOf(k) == queue[k]

Rest(k) == IF queue[k] = <<>> THEN <<>> ELSE Tail(queue[k])

\* Mutant: the loop does not count its pops.
PopUncounted(n) ==
  LET k == current[n] IN
  /\ round[n] = "pop"
  /\ round' = [round EXCEPT ![n] = "hand"]
  /\ hand' = [hand EXCEPT ![n] = First(k)]
  /\ queue' = [queue EXCEPT ![k] = Rest(k)]
  /\ raced' = raced \union (Draining(k) \ {n})
  /\ UNCHANGED <<routingKeys, sending, todo, modified, current, left, faults, pushed,
                 handled, last, forgotten>>

\* lpop: null if another node has emptied the list.
Pop(n) ==
  LET k == current[n] IN
  /\ round[n] = "pop"
  /\ round' = [round EXCEPT ![n] = "hand"]
  /\ hand' = [hand EXCEPT ![n] = First(k)]
  /\ queue' = [queue EXCEPT ![k] = Rest(k)]
  /\ left' = [left EXCEPT ![n] = @ - 1]
  /\ raced' = raced \union (Draining(k) \ {n})
  /\ UNCHANGED <<routingKeys, sending, todo, modified, current, faults, pushed,
                 handled, last, forgotten>>

\* The answer to lpop is lost, with the message if it was carried out: JedisCluster
\* repeats the command ...
PopUnanswered(n) ==
  LET k == current[n] IN
  /\ round[n] = "pop"
  /\ Fault
  /\ queue' = [queue EXCEPT ![k] = Rest(k)]
  /\ raced' = raced \union Draining(k)
  /\ UNCHANGED <<routingKeys, sending, listening, pushed, handled, last, forgotten>>

\* ... or gives up.
PopFails(n) ==
  LET k == current[n] IN
  /\ round[n] = "pop"
  /\ Fault
  /\ \/ /\ queue' = [queue EXCEPT ![k] = Rest(k)]
        /\ raced' = raced \union (Draining(k) \ {n})
     \/ UNCHANGED <<queue, raced>>
  /\ EndRound(n)
  /\ UNCHANGED <<routingKeys, sending, pushed, handled, last, forgotten>>

\* handleMessage of the consumer of the routing key, if there is one.
Handled(n) ==
  IF hand[n] # <<>> /\ current[n] \in ConsumedKeys
  THEN /\ handled' = handled \o hand[n]
       /\ last' = [last EXCEPT ![n][current[n]] = hand[n][1].no]
  ELSE UNCHANGED <<handled, last>>

Deliver(n) ==
  /\ round[n] = "hand"
  /\ Handled(n)
  /\ round' = [round EXCEPT ![n] = IF left[n] = 0 THEN "next" ELSE "pop"]
  /\ hand' = [hand EXCEPT ![n] = <<>>]
  /\ UNCHANGED <<routingKeys, queue, sending, todo, modified, current, left, faults,
                 pushed, raced, forgotten>>

\* A consumer throws, before or after the one of the routing key: the round is over.
ConsumerThrows(n) ==
  /\ round[n] = "hand"
  /\ Handled(n) \/ UNCHANGED <<handled, last>>
  /\ EndRound(n)
  /\ UNCHANGED <<routingKeys, queue, sending, faults, pushed, raced, forgotten>>

-----------------------------------------------------------------------------
\* The JVM ends and starts anew.
Restart(n) ==
  /\ Fault
  /\ forgotten' = forgotten \union routingKeys[n]
  /\ routingKeys' = [routingKeys EXCEPT ![n] = {}]
  /\ stage' = [m \in Messages |->
                 IF sender[m] = n /\ stage[m] \in {"add", "push"} THEN "done" ELSE stage[m]]
  /\ seen' = [m \in Messages |-> IF sender[m] = n THEN {} ELSE seen[m]]
  /\ EndRound(n)
  /\ UNCHANGED <<queue, sender, key, pushed, handled, last, raced>>

SendMessage(m) ==
  \/ SendKnown(m) \/ SendUnknown(m) \/ Add(m) \/ Push(m) \/ PushUnanswered(m)

OnMessage(n) ==
  \/ BeginRound(n) \/ AskLength(n) \/ AskFails(n) \/ NoMoreKeys(n)
  \/ Pop(n) \/ PopUnanswered(n) \/ PopFails(n)
  \/ Deliver(n) \/ ConsumerThrows(n)

Next ==
  \/ \E m \in Messages : SendMessage(m)
  \/ \E n \in Nodes : OnMessage(n) \/ Restart(n)

Spec == Init /\ [][Next]_vars

\* The scheduler runs onMessage again and again, and each of its steps ends.
FairSpec == Spec /\ \A n \in Nodes : WF_vars(OnMessage(n))

-----------------------------------------------------------------------------
(* Properties *)

Held ==
  (UNION {Range(queue[k]) : k \in RoutingKeys})
    \union (UNION {Range(hand[n]) : n \in Nodes})

Channel == INSTANCE LossyChannel WITH held <- Held

\* However nodes race for the lists and commands are repeated, a consumer gets nothing
\* that was not appended, and nothing twice that was appended once.
ImplementsChannel == Channel!Spec

\* The messages of a routing key that a node handles are handled in the order of its
\* list, whatever is lost or popped by others in between.
InOrder ==
  [][\A n \in Nodes, k \in RoutingKeys : last'[n][k] # last[n][k]
                                        => last'[n][k] > last[n][k]]_vars

\* A consumer is handed null only if the list got shorter, by a pop that is not the
\* listener's own, after its length was read.
NullMeansRaced ==
  \A n \in Nodes : round[n] = "hand" /\ hand[n] = <<>> => n \in raced

Known(k) == \E n \in Nodes : k \in routingKeys[n]

\* A list with messages is known to a node that reads it, unless a restart or a lost
\* update of the HashSet has dropped its routing key.
QueueIsWatched == \A k \in RoutingKeys : queue[k] # <<>> => Known(k) \/ k \in forgotten

\* A round ends, whatever is appended to the lists, popped by others or thrown by
\* consumers meanwhile: the length of a list is read once, and a null is handed on.
\* When it is a consumer that ends it, the keys behind are not read, and nothing says
\* that the next round comes further.
OnMessageReturns ==
  \A n \in Nodes : round[n] # "idle" ~> round[n] = "idle"

=============================================================================
