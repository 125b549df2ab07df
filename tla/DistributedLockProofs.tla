----------------------- MODULE DistributedLockProofs ------------------------
(***************************************************************************)
(* DistributedLock is a mutual-exclusion lock, for any set of clients, any *)
(* lease, any duration of an attempt and any delay or repetition of a      *)
(* command, for the owners whose key no unlock() of another client has     *)
(* deleted and as long as these are punctual: each has called unlock()     *)
(* AttemptLimit before its own expiry.  Timely makes every owner punctual. *)
(*                                                                         *)
(* The invariant the proof rests on is that of the keepers: the key of an  *)
(* owner, or of an unlock() whose DEL is still to come within the lease,   *)
(* is in Redis and, although losers overwrite it, it expires at most       *)
(* AttemptLimit before the keeper's own expiry.  A client in "getSet" has  *)
(* read a value that has already expired, so it cannot be the value of a   *)
(* keeper's key.                                                           *)
(***************************************************************************)
EXTENDS DistributedLock, TLAPS

\* What an attempt or an owner knows of the clock.
ClockInv ==
  \A c \in Clients :
    /\ stage[c] \in Attempting =>
         /\ began[c] <= now
         /\ now <= began[c] + AttemptLimit
         /\ expireTime[c] = began[c] + ExpireMillis + 1
    /\ stage[c] = "held" =>
         /\ began[c] <= now
         /\ now <= began[c] + HoldLimit
         /\ expireTime[c] = began[c] + ExpireMillis + 1
    /\ stage[c] = "unlock" => expireTime[c] <= now + ExpireMillis + 1
    /\ stage[c] = "getSet" => lockTime[c] < now

\* The clients the key in Redis still protects.
Keepers == Holders \cup {c \in Clients : Prompt(c)}

KeepersExclude == \A c, d \in Keepers : c = d

KeeperInv == \A c \in Keepers : value # Absent /\ value >= expireTime[c] - AttemptLimit

IInv ==
  /\ TypeOK
  /\ ClockInv
  /\ KeeperInv
  /\ KeepersExclude

\* What is asked of the owners: an attempt's time is left before the owner's expiry.
Punctual == \A c \in Holders : now + AttemptLimit <= expireTime[c]

-----------------------------------------------------------------------------
\* Every step keeps the types of the state.
LEMMA TypeStep == TypeOK /\ [Next]_vars => TypeOK'
  <1> SUFFICES ASSUME TypeOK, [Next]_vars PROVE TypeOK'
    OBVIOUS
  <1> USE ClockAssumption DEF TypeOK, Stages, Absent, Goto, EndAttempt, EndCall,
        Own, Pause, locals, Attempting, TimeLeft, Keyed
  <1>1. CASE Tick
    BY <1>1 DEF Tick
  <1>2. ASSUME NEW c \in Clients, Lock(c) PROVE TypeOK'
    BY <1>2 DEF Lock, BeginAttempt, ExpiryFrom
  <1>3. ASSUME NEW c \in Clients, SetNxGranted(c) PROVE TypeOK'
    BY <1>3 DEF SetNxGranted
  <1>4. ASSUME NEW c \in Clients, SetNxRefused(c) PROVE TypeOK'
    BY <1>4 DEF SetNxRefused
  <1>5. ASSUME NEW c \in Clients, Get(c) PROVE TypeOK'
    BY <1>5 DEF Get
  <1>6. ASSUME NEW c \in Clients, Check(c) PROVE TypeOK'
    BY <1>6 DEF Check
  <1>7. ASSUME NEW c \in Clients, GetSet(c) PROVE TypeOK'
    BY <1>7 DEF GetSet
  <1>8. ASSUME NEW c \in Clients, GetSetFailed(c) PROVE TypeOK'
    BY <1>8 DEF GetSetFailed
  <1>9. ASSUME NEW c \in Clients, Retry(c) PROVE TypeOK'
    BY <1>9 DEF Retry, BeginAttempt, ExpiryFrom
  <1>10. ASSUME NEW c \in Clients, TimedOut(c) PROVE TypeOK'
    BY <1>10 DEF TimedOut, GiveUp
  <1>11. ASSUME NEW c \in Clients, Interrupted(c) PROVE TypeOK'
    BY <1>11 DEF Interrupted, GiveUp
  <1>12. ASSUME NEW c \in Clients, Unlock(c) PROVE TypeOK'
    BY <1>12 DEF Unlock
  <1>13. ASSUME NEW c \in Clients, Crash(c) PROVE TypeOK'
    BY <1>13 DEF Crash
  <1>14. ASSUME NEW c \in Clients, Delete(c) PROVE TypeOK'
    BY <1>14 DEF Delete, Deleted, Keyed
  <1>15. ASSUME NEW c \in Clients, SetNxUnanswered(c) \/ GetSetUnanswered(c) PROVE TypeOK'
    BY <1>15 DEF SetNxUnanswered, GetSetUnanswered
  <1>16. ASSUME NEW c \in Clients, DeleteUnanswered(c) PROVE TypeOK'
    BY <1>16 DEF DeleteUnanswered, Deleted, Keyed
  <1>17. CASE UNCHANGED vars
    BY <1>17 DEF vars
  <1> QED
    BY <1>1, <1>2, <1>3, <1>4, <1>5, <1>6, <1>7, <1>8, <1>9, <1>10, <1>11, <1>12,
       <1>13, <1>14, <1>15, <1>16, <1>17 DEF Next, Running, Unanswered

\* The clock and the leases: what the attempts and the owners know of the time
\* stays true in every step.
LEMMA ClockStep == TypeOK /\ ClockInv /\ [Next]_vars => ClockInv'
  <1> SUFFICES ASSUME TypeOK, ClockInv, [Next]_vars PROVE ClockInv'
    OBVIOUS
  <1> USE ClockAssumption DEF TypeOK, ClockInv, Stages, Attempting, Absent, Goto,
        EndAttempt, EndCall, Own, Pause, locals
  <1>1. CASE Tick
    BY <1>1 DEF Tick
  <1>2. ASSUME NEW c \in Clients, Lock(c) PROVE ClockInv'
    BY <1>2 DEF Lock, BeginAttempt, ExpiryFrom
  <1>3. ASSUME NEW c \in Clients, SetNxGranted(c) PROVE ClockInv'
    BY <1>3 DEF SetNxGranted
  <1>4. ASSUME NEW c \in Clients, SetNxRefused(c) PROVE ClockInv'
    BY <1>4 DEF SetNxRefused
  <1>5. ASSUME NEW c \in Clients, Get(c) PROVE ClockInv'
    BY <1>5 DEF Get
  <1>6. ASSUME NEW c \in Clients, Check(c) PROVE ClockInv'
    BY <1>6 DEF Check, SeenExpired
  <1>7. ASSUME NEW c \in Clients, GetSet(c) PROVE ClockInv'
    BY <1>7 DEF GetSet
  <1>8. ASSUME NEW c \in Clients, GetSetFailed(c) PROVE ClockInv'
    BY <1>8 DEF GetSetFailed
  <1>9. ASSUME NEW c \in Clients, Retry(c) PROVE ClockInv'
    BY <1>9 DEF Retry, BeginAttempt, ExpiryFrom
  <1>10. ASSUME NEW c \in Clients, TimedOut(c) PROVE ClockInv'
    BY <1>10 DEF TimedOut, GiveUp
  <1>11. ASSUME NEW c \in Clients, Interrupted(c) PROVE ClockInv'
    BY <1>11 DEF Interrupted, GiveUp
  <1>12. ASSUME NEW c \in Clients, Unlock(c) PROVE ClockInv'
    BY <1>12 DEF Unlock
  <1>13. ASSUME NEW c \in Clients, Crash(c) PROVE ClockInv'
    BY <1>13 DEF Crash
  <1>14. ASSUME NEW c \in Clients, Delete(c) PROVE ClockInv'
    BY <1>14 DEF Delete, Deleted, Keyed
  <1>15. ASSUME NEW c \in Clients, SetNxUnanswered(c) \/ GetSetUnanswered(c) PROVE ClockInv'
    BY <1>15 DEF SetNxUnanswered, GetSetUnanswered
  <1>16. ASSUME NEW c \in Clients, DeleteUnanswered(c) PROVE ClockInv'
    BY <1>16 DEF DeleteUnanswered, Deleted, Keyed
  <1>17. CASE UNCHANGED vars
    BY <1>17 DEF vars
  <1> QED
    BY <1>1, <1>2, <1>3, <1>4, <1>5, <1>6, <1>7, <1>8, <1>9, <1>10, <1>11, <1>12,
       <1>13, <1>14, <1>15, <1>16, <1>17 DEF Next, Running, Unanswered

-----------------------------------------------------------------------------
\* A lease that outlives the longest hold by an attempt makes every owner punctual.
LEMMA TimelyIsPunctual == ASSUME Timely PROVE IInv => Punctual
  <1> SUFFICES ASSUME IInv, NEW c \in Holders
               PROVE  now + AttemptLimit <= expireTime[c]
    BY DEF Punctual
  <1>1. /\ now \in Nat /\ began[c] \in Nat
        /\ now <= began[c] + HoldLimit
        /\ expireTime[c] = began[c] + ExpireMillis + 1
    BY DEF IInv, TypeOK, ClockInv, Holders, Owners
  <1> QED
    BY <1>1, ClockAssumption DEF Timely

\* The key of a keeper is in Redis and has not expired, when owners are punctual.
LEMMA KeptKeyIsAlive ==
  ASSUME Punctual, IInv, NEW c \in Keepers
  PROVE  value # Absent /\ value >= now
  <1>1. /\ now \in Nat /\ value \in Nat /\ expireTime[c] \in Nat
        /\ value # Absent /\ value >= expireTime[c] - AttemptLimit
    BY DEF IInv, TypeOK, KeeperInv, Keepers, Holders, Owners, Prompt
  <1>2. now + AttemptLimit <= expireTime[c]
    BY DEF Punctual, Keepers, Prompt
  <1> QED
    BY <1>1, <1>2, ClockAssumption

\* The two steps that make an owner find the lock free: the key does not exist, or
\* it has expired.
LEMMA GrantedWhenFree ==
  ASSUME Punctual, IInv, NEW c \in Clients,
         \/ SetNxGranted(c)
         \/ GetSet(c) /\ IsOurs(c, value)
  PROVE  Keepers = {}
  <1> SUFFICES ASSUME NEW d \in Keepers PROVE FALSE
    OBVIOUS
  <1>1. value # Absent /\ value >= now
    BY KeptKeyIsAlive
  <1>2. CASE SetNxGranted(c)
    BY <1>1, <1>2 DEF SetNxGranted
  <1>3. CASE GetSet(c) /\ IsOurs(c, value)
    BY <1>1, <1>3 DEF GetSet, IsOurs, IInv, TypeOK, ClockInv
  <1> QED
    BY <1>2, <1>3

\* A client becomes a keeper only when the lock is granted to it; until then its
\* expiry is its own.
LEMMA KeepersStep ==
  ASSUME IInv, [Next]_vars, NEW k \in Keepers'
  PROVE  \/ k \in Keepers /\ expireTime'[k] = expireTime[k]
         \/ /\ SetNxGranted(k) \/ (GetSet(k) /\ IsOurs(k, value))
            /\ expireTime'[k] = expireTime[k] /\ stage'[k] = "held"
  <1>0. TypeOK
    BY DEF IInv
  <1> USE <1>0, ClockAssumption
      DEF TypeOK, Keepers, Holders, Owners, Prompt, Goto, EndAttempt, EndCall, Own,
          Pause, locals
  <1>1. CASE Tick
    BY <1>1 DEF Tick
  <1>2. ASSUME NEW c \in Clients, Lock(c) \/ Retry(c)
        PROVE  k \in Keepers /\ expireTime'[k] = expireTime[k]
    BY <1>2 DEF Lock, Retry, BeginAttempt
  <1>3. ASSUME NEW c \in Clients, SetNxGranted(c)
        PROVE  \/ k = c /\ expireTime'[k] = expireTime[k] /\ stage'[k] = "held"
               \/ k \in Keepers /\ expireTime'[k] = expireTime[k]
    BY <1>3 DEF SetNxGranted
  <1>4. ASSUME NEW c \in Clients,
               SetNxRefused(c) \/ SetNxUnanswered(c) \/ GetSetUnanswered(c) \/ Get(c)
        PROVE  k \in Keepers /\ expireTime'[k] = expireTime[k]
    BY <1>4 DEF SetNxRefused, SetNxUnanswered, GetSetUnanswered, Get
  <1>5. ASSUME NEW c \in Clients, Check(c) \/ GetSetFailed(c)
        PROVE  k \in Keepers /\ expireTime'[k] = expireTime[k]
    BY <1>5 DEF Check, GetSetFailed
  <1>6. ASSUME NEW c \in Clients, GetSet(c)
        PROVE  \/ /\ k = c /\ IsOurs(c, value)
                  /\ expireTime'[k] = expireTime[k] /\ stage'[k] = "held"
               \/ k \in Keepers /\ expireTime'[k] = expireTime[k]
    BY <1>6 DEF GetSet
  <1>7. ASSUME NEW c \in Clients, TimedOut(c) \/ Interrupted(c) \/ Crash(c)
        PROVE  k \in Keepers /\ expireTime'[k] = expireTime[k]
    BY <1>7 DEF TimedOut, Interrupted, GiveUp, Crash
  <1>8. ASSUME NEW c \in Clients, Unlock(c)
        PROVE  k \in Keepers /\ expireTime'[k] = expireTime[k]
    BY <1>8 DEF Unlock
  <1>9. ASSUME NEW c \in Clients, Delete(c) \/ DeleteUnanswered(c)
        PROVE  k \in Keepers /\ expireTime'[k] = expireTime[k]
    BY <1>9 DEF Delete, DeleteUnanswered, Deleted, Keyed
  <1>10. CASE UNCHANGED vars
    BY <1>10 DEF vars
  <1> HIDE DEF TypeOK, Keepers
  <1> QED
    BY <1>1, <1>2, <1>3, <1>4, <1>5, <1>6, <1>7, <1>8, <1>9, <1>10
       DEF Next, Running, Unanswered

LEMMA ExclusionStep ==
  ASSUME Punctual, IInv, [Next]_vars
  PROVE  KeepersExclude'
  <1> SUFFICES ASSUME NEW c \in Keepers', NEW d \in Keepers' PROVE c = d
    BY DEF KeepersExclude
  <1> DEFINE Granted(k) == SetNxGranted(k) \/ (GetSet(k) /\ IsOurs(k, value))
  <1>1. c \in Keepers \/ (Granted(c) /\ stage'[c] = "held")
    BY KeepersStep
  <1>2. d \in Keepers \/ (Granted(d) /\ stage'[d] = "held")
    BY KeepersStep
  <1>3. ASSUME NEW k \in Clients, Granted(k) PROVE Keepers = {}
    BY <1>3, GrantedWhenFree
  <1>4. c \in Clients /\ d \in Clients
    BY DEF Keepers, Holders, Owners
  <1>5. CASE c \in Keepers /\ d \in Keepers
    BY <1>5 DEF IInv, KeepersExclude
  <1>6. CASE Granted(c) /\ Granted(d) /\ stage'[d] = "held"
    <2>1. stage[d] # "held" /\ stage' = [stage EXCEPT ![c] = "held"]
      BY <1>6 DEF SetNxGranted, GetSet, Own, Goto, IInv, TypeOK, Pause, IsOurs
    <2> QED
      BY <1>4, <1>6, <2>1 DEF IInv, TypeOK
  <1> HIDE DEF Granted
  <1> QED
    BY <1>1, <1>2, <1>3, <1>4, <1>5, <1>6

\* A keeper's key survives every step of the others: a loser's expiry was computed
\* at most AttemptLimit before it overwrites the owner's, punctual or not, and only a
\* DEL that strikes the keeper removes it.
LEMMA KeeperStep ==
  ASSUME IInv, [Next]_vars
  PROVE  KeeperInv'
  <1> SUFFICES ASSUME NEW k \in Keepers'
               PROVE  value' # Absent /\ value' >= expireTime'[k] - AttemptLimit
    BY DEF KeeperInv
  <1>0. TypeOK /\ ClockInv
    BY DEF IInv
  <1>a. k \in Clients
    BY DEF Keepers, Holders, Owners
  <1>1. CASE k \in Keepers /\ expireTime'[k] = expireTime[k]
    <2>1. value # Absent /\ value >= expireTime[k] - AttemptLimit
      BY <1>1 DEF IInv, KeeperInv
    <2>2. /\ stage[k] \in {"held", "unlock"} /\ k \notin struck
          /\ expireTime[k] \in Nat /\ expireTime[k] <= now + ExpireMillis + 1
          /\ value \in Nat /\ now \in Nat
      <3>1. CASE stage[k] = "held"
        BY <1>0, <1>1, <1>a, <3>1, ClockAssumption
           DEF Keepers, Holders, Owners, TypeOK, ClockInv, Prompt
      <3>2. CASE stage[k] = "unlock"
        BY <1>0, <1>1, <1>a, <3>2, ClockAssumption
           DEF Keepers, Holders, Owners, TypeOK, ClockInv, Prompt
      <3> QED
        BY <1>1, <3>1, <3>2 DEF Keepers, Holders, Owners, Prompt
    <2>3. CASE value' = value
      BY <1>1, <2>1, <2>3
    <2>4. ASSUME NEW c \in Clients, stage[c] \in Attempting, value' = expireTime[c]
          PROVE  value' # Absent /\ value' >= expireTime[k] - AttemptLimit
      <3>1. /\ expireTime[c] \in Nat /\ began[c] \in Nat
            /\ now <= began[c] + AttemptLimit
            /\ expireTime[c] = began[c] + ExpireMillis + 1
        BY <1>0, <2>4 DEF TypeOK, ClockInv
      <3> QED
        BY <2>2, <2>4, <3>1, ClockAssumption DEF Absent
    <2>5. ASSUME NEW c \in Clients, Deleted(c), stage[c] \in {"unlock", "repeat"},
                 stage'[c] # "unlock", stage'[c] # "held"
          PROVE  FALSE
      BY <2>2, <2>5 DEF Deleted, Keyed, Keepers, Holders, Owners, Prompt
    <2>6. \/ value' = value
          \/ \E c \in Clients : stage[c] \in Attempting /\ value' = expireTime[c]
          \/ \E c \in Clients : /\ Deleted(c) /\ stage[c] \in {"unlock", "repeat"}
                               /\ stage'[c] # "unlock" /\ stage'[c] # "held"
      <3>1. ASSUME NEW c \in Clients, Delete(c) \/ DeleteUnanswered(c)
            PROVE  \/ value' = value
                   \/ /\ Deleted(c) /\ stage[c] \in {"unlock", "repeat"}
                      /\ stage'[c] # "unlock" /\ stage'[c] # "held"
        BY <1>0, <3>1 DEF Delete, DeleteUnanswered, EndCall, Goto, TypeOK
      <3>2. ASSUME NEW c \in Clients,
                   \/ SetNxGranted(c) \/ SetNxRefused(c) \/ SetNxUnanswered(c)
                   \/ GetSet(c) \/ GetSetFailed(c) \/ GetSetUnanswered(c)
            PROVE  value' = value \/ (stage[c] \in Attempting /\ value' = expireTime[c])
        BY <3>2 DEF SetNxGranted, SetNxRefused, SetNxUnanswered, GetSet, GetSetFailed,
           GetSetUnanswered, Attempting
      <3>3. ASSUME NEW c \in Clients,
                   \/ Lock(c) \/ Get(c) \/ Check(c) \/ Retry(c) \/ TimedOut(c)
                   \/ Interrupted(c) \/ Unlock(c) \/ Crash(c)
            PROVE  value' = value
        BY <3>3 DEF Lock, Get, Check, Retry, TimedOut, Interrupted, GiveUp, Unlock, Crash
      <3>4. CASE Tick \/ UNCHANGED vars
        BY <3>4 DEF Tick, vars
      <3> QED
        BY <3>1, <3>2, <3>3, <3>4 DEF Next, Running, Unanswered
    <2> QED
      BY <1>1, <2>3, <2>4, <2>5, <2>6
  <1>2. CASE /\ SetNxGranted(k) \/ GetSet(k)
             /\ expireTime'[k] = expireTime[k]
    BY <1>0, <1>2, <1>a, ClockAssumption
       DEF SetNxGranted, GetSet, TypeOK, ClockInv, Attempting, Absent
  <1> QED
    BY <1>1, <1>2, KeepersStep

-----------------------------------------------------------------------------
LEMMA InitIInv == Init => IInv
  BY ClockAssumption
     DEF Init, IInv, TypeOK, ClockInv, KeeperInv, KeepersExclude, Keepers, Holders,
         Owners, Prompt, Stages, Attempting, Absent

LEMMA IInvStep == Punctual /\ IInv /\ [Next]_vars => IInv'
  <1> SUFFICES ASSUME Punctual, IInv, [Next]_vars PROVE IInv'
    OBVIOUS
  <1>1. TypeOK' /\ ClockInv'
    BY TypeStep, ClockStep DEF IInv
  <1> QED
    BY <1>1, ExclusionStep, KeeperStep DEF IInv

\* The variables of lock() keep their types, and an attempt is only begun while
\* there is time left, whatever the timing.
THEOREM TypeCorrect == Spec => []TypeOK
  <1>1. Init => TypeOK
    BY InitIInv DEF IInv
  <1> QED
    BY <1>1, TypeStep, PTL DEF Spec

\* What the invariant says of the owners.
LEMMA KeptLock ==
  Punctual /\ IInv =>
    MutualExclusion /\ OverwriteIsSmall /\ LeaseCoversOwner /\ PromptUnlock
  <1> SUFFICES ASSUME Punctual, IInv
               PROVE  MutualExclusion /\ OverwriteIsSmall /\ LeaseCoversOwner
                        /\ PromptUnlock
    OBVIOUS
  <1>1. MutualExclusion /\ OverwriteIsSmall
    BY DEF IInv, KeepersExclude, KeeperInv, Keepers, MutualExclusion, OverwriteIsSmall
  <1>2. LeaseCoversOwner
    BY KeptKeyIsAlive DEF LeaseCoversOwner, Keepers
  <1>3. PromptUnlock
    BY DEF IInv, KeepersExclude, Keepers, PromptUnlock, Prompt, Holders, Owners
  <1> QED
    BY <1>1, <1>2, <1>3

\* Whatever the lease, and however often a command is repeated: as long as every
\* owner so far has unlocked in time, lock() has not returned true to a second client
\* beside an owner whose key nobody's unlock() has deleted, that key outlives the
\* hold, a loser's getSet costs it AttemptLimit at most, and the first DEL of an
\* unlock() within the lease takes the lock from nobody.
THEOREM PunctualOwnersExclude ==
  Spec /\ []Punctual =>
    [](MutualExclusion /\ OverwriteIsSmall /\ LeaseCoversOwner /\ PromptUnlock)
  BY KeptLock, InitIInv, IInvStep, PTL DEF Spec

\* What a step is of the abstract lock.
LEMMA MutexStep ==
  ASSUME Punctual, IInv, [Next]_vars
  PROVE  [Abstract!Next]_(Abstract!vars)
  <1>0. TypeOK
    BY DEF IInv
  <1> USE <1>0 DEF TypeOK, Keyed, Owners, Goto, EndAttempt, EndCall, Own, Pause,
        locals, Abstract!vars
  <1>1. CASE Tick \/ UNCHANGED vars
    BY <1>1 DEF Tick, vars
  <1>2. ASSUME NEW c \in Clients,
               \/ Lock(c) \/ Retry(c) \/ Get(c) \/ Check(c) \/ TimedOut(c) \/ Interrupted(c)
               \/ SetNxRefused(c) \/ SetNxUnanswered(c)
               \/ GetSetFailed(c) \/ GetSetUnanswered(c)
               \/ (GetSet(c) /\ ~IsOurs(c, value))
        PROVE  UNCHANGED Abstract!vars
    <2>1. struck' = struck
      BY <1>2 DEF Lock, Retry, Get, Check, TimedOut, Interrupted, SetNxRefused,
         SetNxUnanswered, GetSetFailed, GetSetUnanswered, GetSet
    <2>2. /\ stage[c] \notin {"held", "unlock", "repeat"}
          /\ stage'[c] \notin {"held", "unlock", "repeat"}
          /\ \A d \in Clients \ {c} : stage'[d] = stage[d]
      BY <1>2 DEF Lock, Retry, BeginAttempt, Get, Check, TimedOut, Interrupted, GiveUp,
         SetNxRefused, SetNxUnanswered, GetSetFailed, GetSetUnanswered, GetSet
    <2>3. Owners' = Owners
          /\ {d \in Clients : stage'[d] \in {"unlock", "repeat"}}
               = {d \in Clients : stage[d] \in {"unlock", "repeat"}}
      BY <2>2
    <2> QED
      BY <2>1, <2>3
  <1>3. ASSUME NEW c \in Clients, SetNxGranted(c) \/ (GetSet(c) /\ IsOurs(c, value))
        PROVE  Abstract!Grant(c)
    <2>1. Owners \subseteq Owners \cap struck
      BY <1>3, GrantedWhenFree DEF Keepers, Holders
    <2>2. /\ stage[c] \in {"setnx", "getSet"}
          /\ stage' = [stage EXCEPT ![c] = "held"] /\ struck' = struck
      BY <1>3 DEF SetNxGranted, GetSet, IsOurs
    <2>3. c \notin struck
      BY <2>2
    <2> QED
      BY <2>1, <2>2, <2>3 DEF Abstract!Grant
  <1>4. ASSUME NEW c \in Clients, Unlock(c) PROVE Abstract!Release(c)
    BY <1>4 DEF Unlock, Abstract!Release
  <1>5. ASSUME NEW c \in Clients, Delete(c) \/ DeleteUnanswered(c)
        PROVE  Abstract!Released(c)
    <2>1. c \notin Owners /\ Owners' = Owners
      BY <1>5 DEF Delete, DeleteUnanswered
    <2>2. struck' = struck \ {c} \/ struck' = (struck \cup Keyed) \ {c}
      BY <1>5 DEF Delete, DeleteUnanswered, Deleted
    <2>3. (Owners \cap struck)' \in {Owners \cap struck, Owners}
      BY <2>1, <2>2
    <2>4. {d \in Clients : stage'[d] \in {"unlock", "repeat"}}
            \in {{d \in Clients : stage[d] \in {"unlock", "repeat"}},
                 {d \in Clients : stage[d] \in {"unlock", "repeat"}} \ {c}}
      BY <1>5 DEF Delete, DeleteUnanswered
    <2> QED
      BY <1>5, <2>1, <2>3, <2>4 DEF Abstract!Released, Delete, DeleteUnanswered
  <1>6. ASSUME NEW c \in Clients, Crash(c)
        PROVE  UNCHANGED Abstract!vars \/ Abstract!Die(c)
    BY <1>6 DEF Crash, Abstract!Die
  <1> HIDE DEF TypeOK, Owners, Abstract!vars
  <1> QED
    BY <1>1, <1>2, <1>3, <1>4, <1>5, <1>6 DEF Next, Running, Unanswered, Abstract!Next

\* And every step of the Redis lock is a step of the abstract lock, or none.
THEOREM PunctualOwnersImplementMutex == Spec /\ []Punctual => ImplementsMutex
  <1>1. Init => Abstract!Init
    BY DEF Init, Abstract!Init, Owners
  <1>2. Punctual /\ IInv /\ [Next]_vars => [Abstract!Next]_(Abstract!vars)
    BY MutexStep
  <1> QED
    BY <1>1, <1>2, InitIInv, IInvStep, PTL DEF Spec, ImplementsMutex, Abstract!Spec

-----------------------------------------------------------------------------
(* lock() gives up *)

\* The commands, reads of the clock and waits a call of lock() has left.
Rank ==
  [getSet |-> 2, check |-> 3, get |-> 4, setnx |-> 5, sleep |-> 6]

Locking == Attempting \cup {"sleep"}

StepsLeft(c) ==
  IF stage[c] \in Locking THEN 5 * timeout[c] + Rank[stage[c]] ELSE 0

LEMMA StepsLeftType == ASSUME TypeOK, NEW c \in Clients PROVE StepsLeft(c) \in Nat
  <1>1. /\ stage[c] \in Stages /\ timeout[c] \in Int /\ timeout[c] >= -1
        /\ stage[c] \in Attempting => timeout[c] >= 0
    BY ClockAssumption DEF TypeOK
  <1> QED
    BY <1>1 DEF StepsLeft, Rank, Locking, Stages, Attempting

\* What a step does to what the calls have left.
LEMMA StepsLeftStep ==
  ASSUME TypeOK, [Next]_vars, NEW c \in Clients, ~Lock(c)
  PROVE  /\ StepsLeft(c)' <= StepsLeft(c)
         /\ Running(c) => StepsLeft(c)' < StepsLeft(c)
  <1> DEFINE Kept == stage'[c] = stage[c] /\ timeout'[c] = timeout[c]
             Ended == stage'[c] \notin Locking
  <1> DEFINE Elsewhere(d) ==
               Lock(d) \/ Running(d) \/ Unlock(d) \/ Delete(d) \/ Unanswered(d) \/ Crash(d)
  <1>0. /\ stage[c] \in Stages /\ timeout[c] \in Int /\ timeout[c] >= -1
        /\ stage[c] \in Attempting => timeout[c] >= 0
    BY ClockAssumption DEF TypeOK
  <1>1. StepsLeft(c) \in Int /\ StepsLeft(c) >= 0
        /\ (stage[c] \in Locking => StepsLeft(c) > 0)
    BY <1>0 DEF StepsLeft, Rank, Locking, Stages, Attempting
  <1>2. Kept => StepsLeft(c)' = StepsLeft(c)
    BY DEF StepsLeft
  <1>3. Ended => StepsLeft(c)' = 0
    BY DEF StepsLeft
  <1> USE <1>0, <1>1, <1>2, <1>3
  <1>4. ASSUME Running(c) PROVE StepsLeft(c)' < StepsLeft(c)
    <2> USE DEF Goto, EndAttempt, EndCall, Own, Pause, locals, TypeOK
    <2>1. CASE SetNxGranted(c)
      BY <2>1 DEF SetNxGranted, Locking, Attempting
    <2>2. CASE SetNxRefused(c)
      BY <2>2 DEF SetNxRefused, StepsLeft, Rank, Locking, Attempting
    <2>3. CASE Get(c)
      BY <2>3 DEF Get, StepsLeft, Rank, Locking, Attempting
    <2>4. CASE Check(c)
      <3>1. CASE Goto(c, "getSet") /\ UNCHANGED locals
        BY <2>4, <3>1 DEF Check, StepsLeft, Rank, Locking, Attempting
      <3>2. CASE Pause(c)
        BY <2>4, <3>2 DEF Check, StepsLeft, Rank, Locking, Attempting
      <3> QED
        BY <2>4, <3>1, <3>2 DEF Check
    <2>5. CASE GetSet(c) \/ GetSetFailed(c)
      <3>1. CASE Own(c)
        BY <2>5, <3>1 DEF GetSet, GetSetFailed, Locking, Attempting
      <3>2. CASE Pause(c)
        BY <2>5, <3>2 DEF GetSet, GetSetFailed, StepsLeft, Rank, Locking, Attempting
      <3> QED
        BY <2>5, <3>1, <3>2 DEF GetSet, GetSetFailed
    <2>6. CASE Retry(c)
      BY <2>6 DEF Retry, BeginAttempt, StepsLeft, Rank, Locking, Attempting
    <2>7. CASE TimedOut(c) \/ Interrupted(c)
      BY <2>7 DEF TimedOut, Interrupted, GiveUp, Locking, Attempting
    <2> QED
      BY <1>4, <2>1, <2>2, <2>3, <2>4, <2>5, <2>6, <2>7 DEF Running
  <1>5. ASSUME ~Running(c) PROVE StepsLeft(c)' <= StepsLeft(c)
    <2>1. CASE Tick \/ UNCHANGED vars
      BY <2>1 DEF Tick, locals, vars
    <2>2. ASSUME NEW d \in Clients, d # c, Elsewhere(d)
          PROVE  Kept
      BY <2>2 DEF Lock, Running, Unlock, Delete, Unanswered, SetNxUnanswered,
         GetSetUnanswered, DeleteUnanswered, Crash, SetNxGranted, SetNxRefused, Get, Check,
         GetSet, GetSetFailed, Retry, TimedOut, Interrupted, GiveUp, BeginAttempt, Goto,
         EndAttempt, EndCall, Own, Pause, locals, TypeOK
    <2>3. CASE Unlock(c) \/ Delete(c) \/ DeleteUnanswered(c) \/ Crash(c)
      BY <2>3 DEF Unlock, Delete, DeleteUnanswered, Crash, EndCall, Goto, Locking,
         Attempting, TypeOK
    <2>4. CASE SetNxUnanswered(c) \/ GetSetUnanswered(c)
      BY <2>4 DEF SetNxUnanswered, GetSetUnanswered, locals
    <2>5. CASE \E d \in Clients : Elsewhere(d)
      <3>1. PICK d \in Clients : Elsewhere(d)
        BY <2>5
      <3>2. CASE d = c
        BY <1>5, <2>3, <2>4, <3>1, <3>2 DEF Unanswered
      <3>3. CASE d # c
        <4>1. Kept
          BY <2>2, <3>1, <3>3
        <4> QED
          BY <4>1
      <3> QED
        BY <3>2, <3>3
    <2> QED
      BY <2>1, <2>5 DEF Next
  <1>6. StepsLeft(c)' \in Nat
    <2>1. /\ stage'[c] \in Stages /\ timeout'[c] \in Int /\ timeout'[c] >= -1
          /\ stage'[c] \in Attempting => timeout'[c] >= 0
      BY TypeStep, ClockAssumption DEF TypeOK
    <2> QED
      BY <2>1 DEF StepsLeft, Rank, Locking, Stages, Attempting
  <1> QED
    BY <1>4, <1>5, <1>6

\* lock() is wait-free: whatever the other clients, Redis and the clock do, a call
\* returns, or throws, after at most 5 * TimeoutRounds + 5 commands, reads of the
\* clock and waits of its own.  A command that is repeated counts once.
THEOREM LockGivesUp ==
  Spec => /\ [](\A c \in Clients : StepsLeft(c) \in Nat)
          /\ [][\A c \in Clients :
                  \/ Lock(c) /\ StepsLeft(c)' = 5 * TimeoutRounds + 5
                  \/ /\ StepsLeft(c)' <= StepsLeft(c)
                     /\ Running(c) => StepsLeft(c)' < StepsLeft(c)]_vars
  <1> DEFINE Natural == \A c \in Clients : StepsLeft(c) \in Nat
             Fewer == \A c \in Clients :
                        \/ Lock(c) /\ StepsLeft(c)' = 5 * TimeoutRounds + 5
                        \/ /\ StepsLeft(c)' <= StepsLeft(c)
                           /\ Running(c) => StepsLeft(c)' < StepsLeft(c)
  <1>1. TypeOK => Natural
    BY StepsLeftType
  <1>2. ASSUME TypeOK, NEW c \in Clients, Lock(c)
        PROVE  StepsLeft(c)' = 5 * TimeoutRounds + 5
    <2>1. stage'[c] = "setnx" /\ timeout'[c] = TimeoutRounds
      BY <1>2 DEF Lock, BeginAttempt, Goto, TypeOK
    <2> QED
      BY <2>1, ClockAssumption DEF StepsLeft, Rank, Locking, Attempting
  <1>3. TypeOK /\ [Next]_vars => [Fewer]_vars
    BY <1>2, StepsLeftStep
  <1> HIDE DEF Natural, Fewer
  <1>4. Spec => []Natural /\ [][Fewer]_vars
    BY <1>1, <1>3, TypeCorrect, PTL DEF Spec
  <1> QED
    BY <1>4 DEF Natural, Fewer

-----------------------------------------------------------------------------
(* With a lease that outlives the longest hold by an attempt *)

LEMMA AlwaysPunctual == ASSUME Timely PROVE Spec => []Punctual
  <1>1. IInv => Punctual
    BY TimelyIsPunctual
  <1> QED
    BY <1>1, InitIInv, IInvStep, PTL DEF Spec

\* lock() never returns true to a second client before the first has unlocked,
\* unless the unlock() of another client has deleted the first one's key; that key
\* outlives the hold, and no first DEL within the lease is such a delete.
THEOREM LockIsExclusive ==
  ASSUME Timely
  PROVE  Spec =>
           [](MutualExclusion /\ OverwriteIsSmall /\ LeaseCoversOwner /\ PromptUnlock)
  BY AlwaysPunctual, PunctualOwnersExclude, PTL

\* lock() gives up a lost race without repairing what its getSet wrote: the value
\* it leaves under the owner's key is at most AttemptLimit older than the owner's.
THEOREM OverwriteCostsLittle == ASSUME Timely PROVE Spec => []OverwriteIsSmall
  BY LockIsExclusive, PTL

\* The key of an owner that no other unlock() has deleted is there, and not past,
\* while it has the lock.
THEOREM LeaseOutlivesOwner == ASSUME Timely PROVE Spec => []LeaseCoversOwner
  BY LockIsExclusive, PTL

\* An unlock() that is carried out once and within the lease takes the lock from
\* nobody: the excuse of the other theorems is a repeated or an overdue DEL.
THEOREM PromptUnlockIsSafe == ASSUME Timely PROVE Spec => []PromptUnlock
  BY LockIsExclusive, PTL

\* Every step of the Redis lock is a step of the abstract lock, or none.
THEOREM LockImplementsMutex == ASSUME Timely PROVE Spec => ImplementsMutex
  BY AlwaysPunctual, PunctualOwnersImplementMutex, PTL

=============================================================================
