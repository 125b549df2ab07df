-------------------------- MODULE DistributedLock --------------------------
(***************************************************************************)
(* org.cisiondata.utils.redis.DistributedLock: clients in several JVMs     *)
(* contend for one Redis key whose VALUE is the time the lock expires; the *)
(* key itself has no time to live.  Every Redis command is one step, and   *)
(* RedisClusterUtils swallows its failures: the caller of a failed command *)
(* sees 0 or null, whether or not the command took effect.  JedisCluster   *)
(* repeats a command whose answer is lost, maxRedirections times at most;  *)
(* here any number of times.                                               *)
(*                                                                         *)
(* Each call uses its own DistributedLock object, so the flag `locked' of  *)
(* the source is stage[c] = "held".                                        *)
(***************************************************************************)
EXTENDS Integers

CONSTANTS
  Clients,         \* the threads that call lock()
  ExpireMillis,    \* expireMillis, in ticks of the shared clock
  TimeoutRounds,   \* timeoutMillis / DEFAULT_ACQUIRY_RESOLUTION_MILLIS
  AttemptLimit,    \* an attempt's commands end within this many ticks of its start
  HoldLimit,       \* an owner calls unlock() within this many ticks of its attempt's start
  MaxTime          \* bound on the clock

ASSUME ClockAssumption ==
  /\ ExpireMillis \in Nat
  /\ TimeoutRounds \in Nat
  /\ AttemptLimit \in Nat
  /\ HoldLimit \in Nat
  /\ MaxTime \in Nat
  /\ AttemptLimit <= HoldLimit

VARIABLES
  now,         \* System.currentTimeMillis(), the same in every JVM
  value,       \* the value of lockKey in Redis, Absent when there is no key
  stage,       \* where each client is in lock()
  began,       \* when the client's current attempt computed its expireTime
  expireTime,  \* local of lock()
  lockTime,    \* local of lock(): what get() returned
  timeout,     \* local of lock(), in rounds of DEFAULT_ACQUIRY_RESOLUTION_MILLIS
  struck       \* history: whose key the DEL of another client has removed

vars == <<now, value, stage, began, expireTime, lockTime, timeout, struck>>
locals == <<began, expireTime, lockTime, timeout>>

Absent == 0
Attempting == {"setnx", "get", "check", "getSet"}

\* "unlock" and "repeat": in unlock(), before the key is deleted for the first time
\* and after.
Stages == Attempting \cup {"idle", "sleep", "held", "unlock", "repeat"}

\* The clients whose key should be in Redis.
Keyed == {c \in Clients : stage[c] \in {"held", "unlock"}}

TypeOK ==
  /\ now \in Nat
  /\ value \in Nat
  /\ stage \in [Clients -> Stages]
  /\ began \in [Clients -> Nat]
  /\ expireTime \in [Clients -> Nat]
  /\ lockTime \in [Clients -> Nat]
  /\ timeout \in [Clients -> -1..TimeoutRounds]
  /\ \A c \in Clients : stage[c] \in Attempting => timeout[c] >= 0
  /\ struck \subseteq Keyed

Init ==
  /\ now = 1
  /\ value = Absent
  /\ stage = [c \in Clients |-> "idle"]
  /\ began = [c \in Clients |-> 0]
  /\ expireTime = [c \in Clients |-> 0]
  /\ lockTime = [c \in Clients |-> 0]
  /\ timeout = [c \in Clients |-> 0]
  /\ struck = {}

Goto(c, s) == stage' = [stage EXCEPT ![c] = s]

\* The locals of an attempt go out of scope.
EndAttempt(c) ==
  /\ began' = [began EXCEPT ![c] = 0]
  /\ expireTime' = [expireTime EXCEPT ![c] = 0]
  /\ lockTime' = [lockTime EXCEPT ![c] = Absent]

\* The call is over, or the client that made it is.
EndCall(c) ==
  /\ Goto(c, "idle")
  /\ EndAttempt(c)
  /\ timeout' = [timeout EXCEPT ![c] = 0]

\* lock() returns true.
Own(c) ==
  /\ Goto(c, "held")
  /\ lockTime' = [lockTime EXCEPT ![c] = Absent]
  /\ timeout' = [timeout EXCEPT ![c] = 0]
  /\ UNCHANGED <<began, expireTime, struck>>

-----------------------------------------------------------------------------
(* lock() *)

\* Mutant: the lease is forgotten.
ExpiryWithoutLease(t) == t + 1

ExpiryFrom(t) == t + ExpireMillis + 1

\* The top of the loop: the attempt's expireTime is fixed before any command.
BeginAttempt(c) ==
  /\ Goto(c, "setnx")
  /\ began' = [began EXCEPT ![c] = now]
  /\ expireTime' = [expireTime EXCEPT ![c] = ExpiryFrom(now)]
  /\ UNCHANGED lockTime

Lock(c) ==
  /\ stage[c] = "idle"
  /\ timeout' = [timeout EXCEPT ![c] = TimeoutRounds]
  /\ BeginAttempt(c)
  /\ UNCHANGED <<now, value, struck>>

\* setnx: 1 creates the key and is the lock; 0 is an existing key, or a failure
\* after which the key may have been created all the same.
SetNxGranted(c) ==
  /\ stage[c] = "setnx"
  /\ value = Absent
  /\ value' = expireTime[c]
  /\ Own(c)
  /\ UNCHANGED now

SetNxRefused(c) ==
  /\ stage[c] = "setnx"
  /\ \/ UNCHANGED value
     \/ value = Absent /\ value' = expireTime[c]
  /\ Goto(c, "get")
  /\ UNCHANGED <<now, locals, struck>>

\* The key is created, the answer is lost and the command is repeated.
SetNxUnanswered(c) ==
  /\ stage[c] = "setnx"
  /\ value = Absent
  /\ value' = expireTime[c]
  /\ UNCHANGED <<now, stage, locals, struck>>

\* get: the current value; null when there is no key or the command fails.
Get(c) ==
  /\ stage[c] = "get"
  /\ \E read \in {value, Absent} : lockTime' = [lockTime EXCEPT ![c] = read]
  /\ Goto(c, "check")
  /\ UNCHANGED <<now, value, began, expireTime, timeout, struck>>

\* The end of a round that did not get the lock: one resolution less to wait.
Pause(c) ==
  /\ Goto(c, "sleep")
  /\ EndAttempt(c)
  /\ timeout' = [timeout EXCEPT ![c] = @ - 1]
  /\ UNCHANGED struck

\* The clock is read when the value has arrived, later than the command.
\* Mutant: the value is not compared with the clock.
SeenAtAll(c) == lockTime[c] # Absent

SeenExpired(c) ==
  /\ lockTime[c] # Absent
  /\ lockTime[c] < now

Check(c) ==
  /\ stage[c] = "check"
  /\ \/ SeenExpired(c) /\ Goto(c, "getSet") /\ UNCHANGED <<locals, struck>>
     \/ ~SeenExpired(c) /\ Pause(c)
  /\ UNCHANGED <<now, value>>

\* Mutant: whoever replaces a value takes the lock.
AnyPrevious(c, oldTime) == oldTime # Absent

IsOurs(c, oldTime) ==
  /\ oldTime # Absent
  /\ oldTime = lockTime[c]

\* getSet overwrites the key; only the client that replaced the expired value it
\* had read owns the lock.  A loser has overwritten the winner's expiry (or has
\* made a key nobody owns) and goes on waiting.
GetSet(c) ==
  /\ stage[c] = "getSet"
  /\ value' = expireTime[c]
  /\ \/ IsOurs(c, value) /\ Own(c)
     \/ ~IsOurs(c, value) /\ Pause(c)
  /\ UNCHANGED now

\* A failed getSet returns null, whether or not it was applied.
GetSetFailed(c) ==
  /\ stage[c] = "getSet"
  /\ value' \in {value, expireTime[c]}
  /\ Pause(c)
  /\ UNCHANGED now

\* The key is overwritten, the old value is lost and the command is repeated.
GetSetUnanswered(c) ==
  /\ stage[c] = "getSet"
  /\ value' = expireTime[c]
  /\ UNCHANGED <<now, stage, locals, struck>>

\* Mutant: the loop never gives up.
TryAgain(c) == TRUE

TimeLeft(c) == timeout[c] >= 0

Retry(c) ==
  /\ stage[c] = "sleep"
  /\ TimeLeft(c)
  /\ BeginAttempt(c)
  /\ UNCHANGED <<now, value, timeout, struck>>

\* lock() returns false when the time is up and when its sleep is interrupted (the
\* catch block); the caller's unlock() is then a no-op: `locked' is false.
\* Mutant: unlock() without the test of `locked'.
GiveUpAndDelete(c) ==
  /\ EndCall(c)
  /\ value' = Absent

GiveUp(c) ==
  /\ EndCall(c)
  /\ UNCHANGED value

TimedOut(c) ==
  /\ stage[c] = "sleep"
  /\ ~TimeLeft(c)
  /\ GiveUp(c)
  /\ UNCHANGED <<now, struck>>

Interrupted(c) ==
  /\ stage[c] = "sleep"
  /\ GiveUp(c)
  /\ UNCHANGED <<now, struck>>

-----------------------------------------------------------------------------
(* unlock(), the end of a JVM, and time *)

\* The owner is done: its DEL is under way, for as long as the network takes.
Unlock(c) ==
  /\ stage[c] = "held"
  /\ Goto(c, "unlock")
  /\ began' = [began EXCEPT ![c] = 0]
  /\ UNCHANGED <<now, value, expireTime, lockTime, timeout, struck>>

\* The DEL of c removes the key, whoever's value it holds.
Deleted(c) ==
  /\ value' = Absent
  /\ struck' = (struck \cup Keyed) \ {c}

\* unlock() returns: the key is deleted, or the failure is logged and forgotten.
Delete(c) ==
  /\ stage[c] \in {"unlock", "repeat"}
  /\ \/ Deleted(c)
     \/ UNCHANGED value /\ struck' = struck \ {c}
  /\ EndCall(c)
  /\ UNCHANGED now

\* The key is deleted, the answer is lost and the DEL is repeated, when the key may
\* be another owner's.
DeleteUnanswered(c) ==
  /\ stage[c] \in {"unlock", "repeat"}
  /\ Deleted(c)
  /\ Goto(c, "repeat")
  /\ EndAttempt(c)
  /\ UNCHANGED <<now, timeout>>

\* The client's JVM dies wherever it is; the key stays.
Crash(c) ==
  /\ stage[c] # "idle"
  /\ EndCall(c)
  /\ struck' = struck \ {c}
  /\ UNCHANGED <<now, value>>

\* Time passes, but not past the limits of the clients that are in an attempt or
\* own the lock.
Tick ==
  /\ now < MaxTime
  /\ \A c \in Clients :
       /\ stage[c] \in Attempting => now < began[c] + AttemptLimit
       /\ stage[c] = "held" => now < began[c] + HoldLimit
  /\ now' = now + 1
  /\ UNCHANGED <<value, stage, locals, struck>>

\* A step of lock().
Running(c) ==
  \/ SetNxGranted(c) \/ SetNxRefused(c) \/ Get(c) \/ Check(c)
  \/ GetSet(c) \/ GetSetFailed(c)
  \/ Retry(c) \/ TimedOut(c) \/ Interrupted(c)

\* A command is carried out and will be repeated.
Unanswered(c) ==
  SetNxUnanswered(c) \/ GetSetUnanswered(c) \/ DeleteUnanswered(c)

Next ==
  \/ Tick
  \/ \E c \in Clients :
       Lock(c) \/ Running(c) \/ Unlock(c) \/ Delete(c) \/ Unanswered(c) \/ Crash(c)

Spec == Init /\ [][Next]_vars

-----------------------------------------------------------------------------
(* Properties *)

\* lock() has returned true, unlock() has not been called.
Owners == {c \in Clients : stage[c] = "held"}

\* The owners whose key no DEL of another client has removed: a DEL that is repeated
\* after it was carried out, or arrives after the lease, takes the lock from the next
\* owner, who is not told.
Holders == Owners \ struck

\* The timing the algorithm needs: a lease outlives the longest hold by the time
\* an attempt may take.
Timely == HoldLimit + AttemptLimit <= ExpireMillis + 1

\* lock() has returned true to at most one client that has not unlocked yet and
\* whose key nobody's unlock() has deleted.
MutualExclusion ==
  \A c, d \in Holders : c = d

\* A loser's getSet replaces the owner's expiry by its own, "a very small
\* difference": the key of an owner is there, unless another's unlock() deleted it,
\* and expires at most AttemptLimit earlier than the owner asked for.
OverwriteIsSmall ==
  \A c \in Holders : value # Absent /\ value >= expireTime[c] - AttemptLimit

\* No contender that looks at the key while the lock is held sees it expired.
LeaseCoversOwner ==
  Holders # {} => value >= now

\* An unlock() whose DEL has not been carried out yet, within the lease.
Prompt(c) ==
  /\ stage[c] = "unlock" /\ c \notin struck
  /\ now + AttemptLimit <= expireTime[c]

\* The first DEL of an unlock() finds no other owner while the lease lasts: only a
\* repeated or an overdue one takes the lock from somebody.
PromptUnlock ==
  \A c \in Clients : Prompt(c) => Holders = {}

\* The lock implements what such a lock promises.
Abstract == INSTANCE Mutex WITH
  owners <- Owners,
  robbed <- Owners \cap struck,
  releasing <- {c \in Clients : stage[c] \in {"unlock", "repeat"}}

ImplementsMutex == Abstract!Spec

=============================================================================
