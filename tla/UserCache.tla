----------------------------- MODULE UserCache -----------------------------
(***************************************************************************)
(* The two Redis caches of an account in devplat-auth: the user, which     *)
(* UserServiceImpl.readUserByAccount fills and whose changes through the   *)
(* service delete it, and the permissions, which AuthServiceImpl fills     *)
(* from the user and the roles and nothing deletes.  A charge changes the  *)
(* remainingMoney that the cached user carries among its attributes, and   *)
(* deletes nothing.  Each entry lives for 1800 seconds.                    *)
(*                                                                         *)
(* RedisClusterUtils.set is two commands, set and expire; it and get and   *)
(* delete swallow every exception.  Of a copy of the user or of the roles  *)
(* only its age is kept: Current, or the ticks since the database replaced *)
(* it; permissions are as old as the older of what they are computed from. *)
(* A call stores what it has read at most CallLimit ticks before.          *)
(***************************************************************************)
EXTENDS Integers

CONSTANTS
  Readers,            \* calls of readUserByAccount
  PermissionReaders,  \* those that can be calls of readPermissionIdentitiesByAccount
  TTL,                \* 1800 seconds, in ticks
  CallLimit,          \* ticks from the first read of a call to its last command
  MaxPending,         \* bound: updates under way
  MaxFaults           \* bound: deletes that fail and expires that fail

ASSUME CacheAssumption ==
  /\ PermissionReaders \subseteq Readers
  /\ TTL \in Nat \ {0} /\ CallLimit \in Nat
  /\ MaxPending \in Nat /\ MaxFaults \in Nat

VARIABLES
  exists,     \* whether the database has a row for the account
  user,       \* the cached user, if any
  perms,      \* the cached permissions, if any
  evicting,   \* updates that have written the user and not yet deleted its entry
  pc,         \* where each call is
  call,       \* "user" or "perms"
  got,        \* the age of the older of the user and the roles it has read
  held,       \* ticks since it read the first of them
  faults,     \* deletes and expires that have failed so far
  charged,    \* history: the last change of the cached user was a charge
  excused,    \* history: the cached user should have been deleted and was not, or it
              \*          was replaced before it was stored
  unexpired   \* history: the caches an expire of which has failed

readers == <<pc, call, got, held>>
vars == <<exists, user, perms, evicting, readers, faults, charged, excused, unexpired>>

\* The ages of copies; they are counted up to Old.
Current == -1
Old == 2 * TTL + 4 * CallLimit + 1
Ages == Current..Old

None == [ttl |-> 0]   \* no entry
Forever == -1         \* the ttl of an entry without expiry
Lives == {Forever} \union 1..TTL

TypeOK ==
  /\ exists \in BOOLEAN
  /\ user \in [age : Ages, ttl : Lives] \union {None}
  /\ perms \in [age : Ages, ttl : Lives] \union {None}
  /\ evicting \in 0..MaxPending
  /\ pc \in [Readers -> {"idle", "perms", "user", "database", "set", "expire",
                         "roles", "setPerms", "expirePerms"}]
  /\ call \in [Readers -> {"user", "perms"}]
  /\ got \in [Readers -> Ages]
  /\ held \in [Readers -> 0..CallLimit]
  /\ faults \in 0..MaxFaults
  /\ charged \in BOOLEAN /\ excused \in BOOLEAN
  /\ unexpired \in SUBSET {"user", "perms"}

Init ==
  /\ exists = TRUE
  /\ user = None /\ perms = None
  /\ evicting = 0
  /\ pc = [r \in Readers |-> "idle"]
  /\ call = [r \in Readers |-> "user"]
  /\ got = [r \in Readers |-> Current]
  /\ held = [r \in Readers |-> 0]
  /\ faults = 0
  /\ charged = FALSE /\ excused = FALSE
  /\ unexpired = {}

\* The calls that have read something, and those that have still to store it.
Holding(r) == pc[r] \in {"set", "expire", "roles", "setPerms", "expirePerms"}
HoldsUser(r) ==
  pc[r] \in {"set", "roles", "setPerms"} \/ (pc[r] = "expire" /\ call[r] = "perms")
HoldsRoles(r) == pc[r] = "setPerms"

Fault == faults < MaxFaults /\ faults' = faults + 1

-----------------------------------------------------------------------------
(* The calls *)

Goto(r, place) == pc' = [pc EXCEPT ![r] = place]

\* The call returns or throws, and has nothing in its hands any more.
Return(r) ==
  /\ Goto(r, "idle")
  /\ call' = [call EXCEPT ![r] = "user"]
  /\ got' = [got EXCEPT ![r] = Current]
  /\ held' = [held EXCEPT ![r] = 0]

\* readUserByAccount is over: it returns the user, or readPermissionIdentities goes on
\* with it.
UserIsRead(r, age) ==
  IF call[r] = "user"
  THEN Return(r)
  ELSE /\ Goto(r, "roles")
       /\ got' = [got EXCEPT ![r] = age]
       /\ UNCHANGED <<call, held>>

ReadUser(r) ==
  /\ pc[r] = "idle"
  /\ Goto(r, "user")
  /\ UNCHANGED <<exists, user, perms, evicting, call, got, held, faults, charged,
                 excused, unexpired>>

ReadPermissions(r) ==
  /\ pc[r] = "idle"
  /\ Goto(r, "perms")
  /\ call' = [call EXCEPT ![r] = "perms"]
  /\ UNCHANGED <<exists, user, perms, evicting, got, held, faults, charged, excused,
                 unexpired>>

PermissionHit(r) ==
  /\ pc[r] = "perms"
  /\ perms # None
  /\ Return(r)
  /\ UNCHANGED <<exists, user, perms, evicting, faults, charged, excused, unexpired>>

\* There is no entry, or get has failed.
PermissionMiss(r) ==
  /\ pc[r] = "perms"
  /\ Goto(r, "user")
  /\ UNCHANGED <<exists, user, perms, evicting, call, got, held, faults, charged,
                 excused, unexpired>>

\* Mutant: a hit renews the entry.
Renewed == [user EXCEPT !.ttl = TTL]

Kept == user

UserHit(r) ==
  /\ pc[r] = "user"
  /\ user # None
  /\ user' = Kept
  /\ UserIsRead(r, user.age)
  /\ UNCHANGED <<exists, perms, evicting, faults, charged, excused, unexpired>>

UserMiss(r) ==
  /\ pc[r] = "user"
  /\ Goto(r, "database")
  /\ UNCHANGED <<exists, user, perms, evicting, call, got, held, faults, charged,
                 excused, unexpired>>

QueryUser(r) ==
  /\ pc[r] = "database"
  /\ exists
  /\ Goto(r, "set")
  /\ UNCHANGED <<exists, user, perms, evicting, call, got, held, faults, charged,
                 excused, unexpired>>

\* There is no such row, the user is disabled, or the database fails.
QueryThrows(r) ==
  /\ pc[r] \in {"database", "roles"}
  /\ Return(r)
  /\ UNCHANGED <<exists, user, perms, evicting, faults, charged, excused, unexpired>>

\* The first command of set stores the user and removes the expiry.
SetUser(r) ==
  /\ pc[r] = "set"
  /\ user' = [age |-> got[r], ttl |-> Forever]
  /\ excused' = (got[r] # Current)
  /\ charged' = FALSE
  /\ Goto(r, "expire")
  /\ got' = IF call[r] = "perms" THEN got ELSE [got EXCEPT ![r] = Current]
  /\ UNCHANGED <<exists, perms, evicting, call, held, faults, unexpired>>

SetUserFails(r) ==
  /\ pc[r] = "set"
  /\ UserIsRead(r, got[r])
  /\ UNCHANGED <<exists, user, perms, evicting, faults, charged, excused, unexpired>>

\* Mutant: expire brings back an entry that has been deleted.
ExpiredAnyway(entry) == [entry EXCEPT !.ttl = TTL]

\* Mutant: set without an expiry
NotExpired(entry) == entry

\* expire finds whatever entry is there now.
Expired(entry) == IF entry = None THEN None ELSE [entry EXCEPT !.ttl = TTL]

ExpireUser(r) ==
  /\ pc[r] = "expire"
  /\ user' = Expired(user)
  /\ UserIsRead(r, got[r])
  /\ UNCHANGED <<exists, perms, evicting, faults, charged, excused, unexpired>>

\* The command fails, or the JVM ends before it.
ExpireUserFails(r) ==
  /\ pc[r] = "expire"
  /\ Fault
  /\ unexpired' = unexpired \union {"user"}
  /\ UserIsRead(r, got[r])
  /\ UNCHANGED <<exists, user, perms, evicting, charged, excused>>

\* readPermissionIdentitiesByUserId
QueryRoles(r) ==
  /\ pc[r] = "roles"
  /\ Goto(r, "setPerms")
  /\ UNCHANGED <<exists, user, perms, evicting, call, got, held, faults, charged,
                 excused, unexpired>>

SetPermissions(r) ==
  /\ pc[r] = "setPerms"
  /\ perms' = [age |-> got[r], ttl |-> Forever]
  /\ Goto(r, "expirePerms")
  /\ got' = [got EXCEPT ![r] = Current]
  /\ UNCHANGED <<exists, user, evicting, call, held, faults, charged, excused,
                 unexpired>>

SetPermissionsFails(r) ==
  /\ pc[r] = "setPerms"
  /\ Return(r)
  /\ UNCHANGED <<exists, user, perms, evicting, faults, charged, excused, unexpired>>

ExpirePermissions(r) ==
  /\ pc[r] = "expirePerms"
  /\ perms' = Expired(perms)
  /\ Return(r)
  /\ UNCHANGED <<exists, user, evicting, faults, charged, excused, unexpired>>

ExpirePermissionsFails(r) ==
  /\ pc[r] = "expirePerms"
  /\ Fault
  /\ unexpired' = unexpired \union {"perms"}
  /\ Return(r)
  /\ UNCHANGED <<exists, user, perms, evicting, charged, excused>>

-----------------------------------------------------------------------------
(* The changes *)

Replaced(age) == IF age = Current THEN 0 ELSE age

\* Copies of the user, wherever they are, have been replaced.
UserReplaced ==
  /\ user' = IF user = None THEN None ELSE [user EXCEPT !.age = Replaced(@)]
  /\ perms' = IF perms = None THEN None ELSE [perms EXCEPT !.age = Replaced(@)]
  /\ got' = [r \in Readers |-> IF HoldsUser(r) THEN Replaced(got[r]) ELSE Current]

\* Mutant: an update without postHandle
UpdateOnly ==
  /\ exists
  /\ UserReplaced
  /\ charged' = FALSE
  /\ UNCHANGED <<exists, evicting, pc, call, held, faults, excused, unexpired>>

\* update writes the row and the attributes; postHandle will delete the entry ...
Update ==
  /\ exists
  /\ evicting < MaxPending
  /\ evicting' = evicting + 1
  /\ UserReplaced
  /\ charged' = FALSE
  /\ UNCHANGED <<exists, pc, call, held, faults, excused, unexpired>>

\* ... unless an attribute cannot be written after the row has been.
UpdateThrows ==
  /\ exists
  /\ Fault
  /\ excused' = (user # None)
  /\ UserReplaced
  /\ charged' = FALSE
  /\ UNCHANGED <<exists, evicting, pc, call, held, unexpired>>

\* insert has a postHandle too.
Insert ==
  /\ ~exists
  /\ evicting < MaxPending
  /\ exists' = TRUE
  /\ evicting' = evicting + 1
  /\ charged' = FALSE
  /\ UNCHANGED <<user, perms, readers, faults, excused, unexpired>>

\* deleteByPK has none.
DeleteByPK ==
  /\ exists
  /\ exists' = FALSE
  /\ excused' = (user # None)
  /\ UserReplaced
  /\ charged' = FALSE
  /\ UNCHANGED <<evicting, pc, call, held, faults, unexpired>>

\* A charge writes remainingMoney straight to T_USER_ATTRIBUTE: the cached user carries
\* it, and its entry stays.
Charge ==
  /\ exists
  /\ UserReplaced
  /\ charged' = (user # None)
  /\ UNCHANGED <<exists, evicting, pc, call, held, faults, excused, unexpired>>

DeleteEntry == user' = None /\ excused' = FALSE /\ charged' = FALSE

PostHandle ==
  /\ evicting > 0
  /\ evicting' = evicting - 1
  /\ DeleteEntry
  /\ UNCHANGED <<exists, perms, readers, faults, unexpired>>

\* The delete fails, or the JVM ends before it.
PostHandleFails ==
  /\ evicting > 0
  /\ Fault
  /\ evicting' = evicting - 1
  /\ excused' = (user # None)
  /\ UNCHANGED <<exists, user, perms, readers, charged, unexpired>>

\* deleteUserCache, and updateUserPassword, whose update is of an empty User.
DeleteUserCache ==
  /\ DeleteEntry
  /\ UNCHANGED <<exists, perms, evicting, readers, faults, unexpired>>

\* Roles or permissions of the user change, and no cache is told.
ChangeRoles ==
  /\ perms' = IF perms = None THEN None ELSE [perms EXCEPT !.age = Replaced(@)]
  /\ got' = [r \in Readers |-> IF HoldsRoles(r) THEN Replaced(got[r]) ELSE got[r]]
  /\ UNCHANGED <<exists, user, evicting, pc, call, held, faults, charged, excused,
                 unexpired>>

-----------------------------------------------------------------------------
\* Once an expire has failed there is no bound left to count for.
Older(age) == IF age \in {Current, Old} \/ unexpired # {} THEN age ELSE age + 1

Later(entry) ==
  IF entry.ttl \in {0, 1} THEN None
  ELSE [age |-> Older(entry.age),
        ttl |-> IF entry.ttl = Forever THEN Forever ELSE entry.ttl - 1]

Tick ==
  /\ \A r \in Readers : Holding(r) => held[r] < CallLimit
  /\ held' = [r \in Readers |-> IF Holding(r) THEN held[r] + 1 ELSE held[r]]
  /\ got' = [r \in Readers |-> Older(got[r])]
  /\ user' = Later(user)
  /\ perms' = Later(perms)
  /\ excused' = (excused /\ user' # None)
  /\ charged' = (charged /\ user' # None)
  /\ UNCHANGED <<exists, evicting, pc, call, faults, unexpired>>

Begin(r) == ReadUser(r) \/ (r \in PermissionReaders /\ ReadPermissions(r))

Proceed(r) ==
  \/ PermissionHit(r) \/ PermissionMiss(r)
  \/ UserHit(r) \/ UserMiss(r) \/ QueryUser(r) \/ QueryThrows(r)
  \/ SetUser(r) \/ SetUserFails(r) \/ ExpireUser(r) \/ ExpireUserFails(r)
  \/ QueryRoles(r) \/ SetPermissions(r) \/ SetPermissionsFails(r)
  \/ ExpirePermissions(r) \/ ExpirePermissionsFails(r)

Replace == Update \/ UpdateThrows \/ Insert \/ DeleteByPK \/ Charge \/ ChangeRoles

Forget == PostHandle \/ PostHandleFails \/ DeleteUserCache

Next == (\E r \in Readers : Begin(r) \/ Proceed(r)) \/ Replace \/ Forget \/ Tick

Spec == Init /\ [][Next]_vars

\* Time passes, and a call that has begun goes on.
FairSpec == Spec /\ WF_vars(Tick) /\ \A r \in Readers : WF_vars(Proceed(r))

-----------------------------------------------------------------------------
(* Properties *)

\* A call is between the two commands of set.
Expiring(place) == \E r \in Readers : pc[r] = place

\* A user in the cache was that of the database at most TTL ticks and two calls ago,
\* whatever deletes were lost: the other call is one that stored before it and whose
\* expire comes late.  Only a failed expire lets it last longer.
UserIsRecent ==
  user # None /\ "user" \notin unexpired =>
    IF user.ttl = Forever
    THEN Expiring("expire")
    ELSE user.age <= TTL - user.ttl + 2 * CallLimit

\* Cached permissions can be computed from a cached user: they were those of the
\* database at most twice that long ago.
PermissionsAreRecent ==
  perms # None /\ unexpired = {} =>
    IF perms.ttl = Forever
    THEN Expiring("expirePerms")
    ELSE perms.age <= 2 * TTL - perms.ttl + 4 * CallLimit

\* A cached user that is not the one of the database is about to be deleted, or its
\* delete was lost or never asked for, or it was stored by a call that had read it
\* before the change, or else it was a charge that changed it last, which asks for no
\* delete: after any other change only the first three can leave it there.
StaleHasACause ==
  user # None /\ user.age # Current => evicting > 0 \/ excused \/ charged

Fresh ==
  /\ user # None => user.age = Current
  /\ perms # None => perms.age = Current

\* When the user, its money and its roles change no more, both caches agree with the
\* database some time later, unless an expire has failed.
EventuallyFresh == <>[][~Replace]_vars => <>[](Fresh \/ unexpired # {})

=============================================================================
