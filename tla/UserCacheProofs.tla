--------------------------- MODULE UserCacheProofs ---------------------------
(***************************************************************************)
(* Theorems of UserCache for any calls, lifetime of entries, length of a   *)
(* call, number of pending updates and number of faults.                   *)
(***************************************************************************)
EXTENDS UserCache, TLAPS

-----------------------------------------------------------------------------
(* Entries *)

Entry == [age : Ages, ttl : Lives]

LEMMA Numbers ==
  /\ TTL \in Nat \ {0} /\ CallLimit \in Nat /\ Old \in Nat
  /\ Current \in Ages /\ 0 \in Ages /\ Current = -1 /\ Forever \in Lives /\ TTL \in Lives
  /\ Ages \subseteq Int /\ Lives \subseteq Int /\ 0 \notin Lives
BY CacheAssumption DEF Old, Current, Ages, Lives, Forever

LEMMA EntryIsNotNone ==
  ASSUME NEW e \in Entry
  PROVE  /\ e # None /\ e.age \in Ages /\ e.ttl \in Lives
         /\ e.ttl = Forever \/ e.ttl \in 1..TTL
<1>1. e.age \in Ages /\ e.ttl \in Lives
  BY DEF Entry
<1>2. None.ttl = 0
  BY DEF None
<1>3. e.ttl # 0
  BY <1>1, Numbers
<1> QED
  BY <1>1, <1>2, <1>3 DEF Lives

LEMMA ReplacedAge ==
  ASSUME NEW age \in Ages
  PROVE  /\ Replaced(age) \in Ages
         /\ Replaced(age) = age \/ Replaced(age) = 0
         /\ Replaced(age) # Current
BY Numbers DEF Replaced

LEMMA OlderAge ==
  ASSUME NEW age \in Ages
  PROVE  /\ Older(age) \in Ages
         /\ Older(age) <= age + 1
         /\ age = Current => Older(age) = Current
BY Numbers DEF Older, Ages, Current

\* What becomes of an entry when its contents are replaced, ...
LEMMA ReplacedEntry ==
  ASSUME NEW e \in Entry
  PROVE  LET f == [e EXCEPT !.age = Replaced(@)] IN
         f \in Entry /\ f.age = Replaced(e.age) /\ f.ttl = e.ttl
BY ReplacedAge DEF Entry

\* ... when it is expired, ...
LEMMA ExpiredEntry ==
  ASSUME NEW e \in Entry \union {None}
  PROVE  /\ e = None => Expired(e) = None
         /\ e # None => /\ Expired(e) \in Entry
                        /\ Expired(e).age = e.age /\ Expired(e).ttl = TTL
BY Numbers DEF Entry, Expired

\* ... and when time passes.
LEMMA LaterEntry ==
  ASSUME NEW e \in Entry \union {None}, Later(e) # None
  PROVE  /\ e \in Entry /\ Later(e) \in Entry
         /\ Later(e).age = Older(e.age)
         /\ IF e.ttl = Forever THEN Later(e).ttl = Forever
                               ELSE e.ttl \in 2..TTL /\ Later(e).ttl = e.ttl - 1
<1>1. e # None /\ e \in Entry
  BY DEF Later, None
<1>2. e.age \in Ages /\ (e.ttl = Forever \/ e.ttl \in 1..TTL)
  BY <1>1, EntryIsNotNone
<1>3. e.ttl \notin {0, 1}
  BY DEF Later
<1>4. Later(e) = [age |-> Older(e.age),
                  ttl |-> IF e.ttl = Forever THEN Forever ELSE e.ttl - 1]
  BY <1>3 DEF Later
<1>5. Older(e.age) \in Ages
  BY <1>2, OlderAge
<1>6. e.ttl = Forever \/ (e.ttl \in 2..TTL /\ e.ttl - 1 \in 1..TTL /\ e.ttl # Forever)
  BY <1>2, <1>3, Numbers DEF Forever
<1>7. Later(e).ttl \in Lives
  BY <1>4, <1>6 DEF Lives
<1> QED
  BY <1>1, <1>4, <1>5, <1>6, <1>7 DEF Entry

-----------------------------------------------------------------------------
(* Type correctness *)

LEMMA TypeInit == Init => TypeOK
<1> SUFFICES ASSUME Init PROVE TypeOK
  OBVIOUS
<1>1. 0 \in 0..CallLimit /\ 0 \in 0..MaxPending /\ 0 \in 0..MaxFaults /\ Current \in Ages
  BY Numbers, CacheAssumption
<1>2. /\ got \in [Readers -> Ages] /\ held \in [Readers -> 0..CallLimit]
      /\ evicting \in 0..MaxPending /\ faults \in 0..MaxFaults
  BY <1>1 DEF Init
<1> QED
  BY <1>2 DEF Init, TypeOK

LEMMA FaultType == TypeOK /\ Fault => faults' \in 0..MaxFaults
BY CacheAssumption DEF TypeOK, Fault

Calls ==
  /\ pc \in [Readers -> {"idle", "perms", "user", "database", "set", "expire",
                         "roles", "setPerms", "expirePerms"}]
  /\ call \in [Readers -> {"user", "perms"}]
  /\ got \in [Readers -> Ages]
  /\ held \in [Readers -> 0..CallLimit]

LEMMA ReturnType == ASSUME TypeOK, NEW r \in Readers, Return(r) PROVE Calls'
BY Numbers DEF Return, Goto, TypeOK, Calls

LEMMA UserIsReadType ==
  ASSUME TypeOK, NEW r \in Readers, NEW age \in Ages, UserIsRead(r, age)
  PROVE  Calls'
<1>1. CASE Return(r)
  BY <1>1, ReturnType
<1>2. CASE Goto(r, "roles") /\ got' = [got EXCEPT ![r] = age] /\ UNCHANGED <<call, held>>
  BY <1>2 DEF Goto, TypeOK, Calls
<1> QED
  BY <1>1, <1>2 DEF UserIsRead

LEMMA BeginType == ASSUME TypeOK, NEW r \in Readers, Begin(r) PROVE TypeOK'
BY DEF Begin, ReadUser, ReadPermissions, Goto, TypeOK

LEMMA ReadType ==
  ASSUME TypeOK, NEW r \in Readers,
         \/ PermissionHit(r) \/ PermissionMiss(r) \/ UserHit(r) \/ UserMiss(r)
         \/ QueryUser(r) \/ QueryThrows(r) \/ QueryRoles(r)
  PROVE  TypeOK'
<1>1. CASE PermissionHit(r) \/ QueryThrows(r)
  BY <1>1, ReturnType DEF PermissionHit, QueryThrows, TypeOK, Calls
<1>2. CASE PermissionMiss(r) \/ UserMiss(r) \/ QueryUser(r) \/ QueryRoles(r)
  BY <1>2 DEF PermissionMiss, UserMiss, QueryUser, QueryRoles, Goto, TypeOK
<1>3. CASE UserHit(r)
  <2>1. user \in Entry /\ user.age \in Ages
    BY <1>3, EntryIsNotNone DEF UserHit, TypeOK, Entry
  <2>2. Calls'
    BY <1>3, <2>1, UserIsReadType DEF UserHit
  <2> QED
    BY <1>3, <2>2 DEF UserHit, Kept, TypeOK, Calls
<1> QED
  BY <1>1, <1>2, <1>3

LEMMA UserType ==
  ASSUME TypeOK, NEW r \in Readers,
         SetUser(r) \/ SetUserFails(r) \/ ExpireUser(r) \/ ExpireUserFails(r)
  PROVE  TypeOK'
<1>1. got[r] \in Ages
  BY DEF TypeOK
<1>2. CASE SetUser(r)
  <2>1. user' \in [age : Ages, ttl : Lives]
    BY <1>1, <1>2, Numbers DEF SetUser
  <2>2. got' \in [Readers -> Ages]
    BY <1>2, Numbers DEF SetUser, TypeOK
  <2>3. excused' \in BOOLEAN /\ charged' \in BOOLEAN
    BY <1>2 DEF SetUser
  <2> QED
    BY <1>2, <2>1, <2>2, <2>3 DEF SetUser, Goto, TypeOK
<1>3. CASE SetUserFails(r)
  BY <1>1, <1>3, UserIsReadType DEF SetUserFails, TypeOK, Calls
<1>4. CASE ExpireUser(r)
  <2>1. user' \in [age : Ages, ttl : Lives] \union {None}
    BY <1>4, ExpiredEntry DEF ExpireUser, TypeOK, Entry
  <2> QED
    BY <1>1, <1>4, <2>1, UserIsReadType DEF ExpireUser, TypeOK, Calls
<1>5. CASE ExpireUserFails(r)
  BY <1>1, <1>5, UserIsReadType, FaultType DEF ExpireUserFails, TypeOK, Calls
<1> QED
  BY <1>2, <1>3, <1>4, <1>5

LEMMA PermissionsType ==
  ASSUME TypeOK, NEW r \in Readers,
         \/ SetPermissions(r) \/ SetPermissionsFails(r)
         \/ ExpirePermissions(r) \/ ExpirePermissionsFails(r)
  PROVE  TypeOK'
<1>1. CASE SetPermissions(r)
  <2>1. perms' \in [age : Ages, ttl : Lives]
    BY <1>1, Numbers DEF SetPermissions, TypeOK
  <2>2. got' \in [Readers -> Ages]
    BY <1>1, Numbers DEF SetPermissions, TypeOK
  <2> QED
    BY <1>1, <2>1, <2>2 DEF SetPermissions, Goto, TypeOK
<1>2. CASE SetPermissionsFails(r)
  BY <1>2, ReturnType DEF SetPermissionsFails, TypeOK, Calls
<1>3. CASE ExpirePermissions(r)
  <2>1. perms' \in [age : Ages, ttl : Lives] \union {None}
    BY <1>3, ExpiredEntry DEF ExpirePermissions, TypeOK, Entry
  <2> QED
    BY <1>3, <2>1, ReturnType DEF ExpirePermissions, TypeOK, Calls
<1>4. CASE ExpirePermissionsFails(r)
  BY <1>4, ReturnType, FaultType DEF ExpirePermissionsFails, TypeOK, Calls
<1> QED
  BY <1>1, <1>2, <1>3, <1>4

\* The copies of the user, and the cached permissions, when they are replaced
LEMMA UserReplacedType ==
  ASSUME TypeOK, UserReplaced
  PROVE  /\ user' \in [age : Ages, ttl : Lives] \union {None}
         /\ perms' \in [age : Ages, ttl : Lives] \union {None}
         /\ got' \in [Readers -> Ages]
<1>1. user' \in [age : Ages, ttl : Lives] \union {None}
  BY ReplacedEntry DEF UserReplaced, TypeOK, Entry
<1>2. perms' \in [age : Ages, ttl : Lives] \union {None}
  BY ReplacedEntry DEF UserReplaced, TypeOK, Entry
<1>3. got' \in [Readers -> Ages]
  BY ReplacedAge, Numbers DEF UserReplaced, TypeOK
<1> QED
  BY <1>1, <1>2, <1>3

LEMMA ReplaceType == ASSUME TypeOK, Replace PROVE TypeOK'
<1>1. CASE Update
  <2>1. evicting' \in 0..MaxPending
    BY <1>1, CacheAssumption DEF Update, TypeOK
  <2> QED
    BY <1>1, <2>1, UserReplacedType DEF Update, TypeOK
<1>2. CASE UpdateThrows
  BY <1>2, UserReplacedType, FaultType DEF UpdateThrows, TypeOK
<1>3. CASE Insert
  <2>1. evicting' \in 0..MaxPending
    BY <1>3, CacheAssumption DEF Insert, TypeOK
  <2> QED
    BY <1>3, <2>1 DEF Insert, TypeOK, readers
<1>4. CASE DeleteByPK
  BY <1>4, UserReplacedType DEF DeleteByPK, TypeOK
<1>5. CASE ChangeRoles
  <2>1. perms' \in [age : Ages, ttl : Lives] \union {None}
    BY <1>5, ReplacedEntry DEF ChangeRoles, TypeOK, Entry
  <2>2. got' \in [Readers -> Ages]
    BY <1>5, ReplacedAge DEF ChangeRoles, TypeOK
  <2> QED
    BY <1>5, <2>1, <2>2 DEF ChangeRoles, TypeOK
<1>6. CASE Charge
  BY <1>6, UserReplacedType DEF Charge, TypeOK
<1> QED
  BY <1>1, <1>2, <1>3, <1>4, <1>5, <1>6 DEF Replace

LEMMA ForgetType == ASSUME TypeOK, Forget PROVE TypeOK'
<1>1. CASE PostHandle \/ DeleteUserCache
  <2>1. evicting' \in 0..MaxPending
    BY <1>1, CacheAssumption DEF PostHandle, DeleteUserCache, TypeOK
  <2>2. /\ user' = None /\ excused' = FALSE /\ charged' = FALSE
        /\ UNCHANGED <<exists, perms, readers, faults, unexpired>>
    BY <1>1 DEF PostHandle, DeleteUserCache, DeleteEntry
  <2> QED
    BY <2>1, <2>2 DEF TypeOK, readers
<1>2. CASE PostHandleFails
  BY <1>2, FaultType, CacheAssumption DEF PostHandleFails, TypeOK, readers
<1> QED
  BY <1>1, <1>2 DEF Forget

LEMMA TickType == ASSUME TypeOK, Tick PROVE TypeOK'
<1>1. held' \in [Readers -> 0..CallLimit]
  BY CacheAssumption DEF Tick, TypeOK
<1>2. got' \in [Readers -> Ages]
  BY OlderAge DEF Tick, TypeOK
<1>3. /\ user' \in [age : Ages, ttl : Lives] \union {None}
      /\ perms' \in [age : Ages, ttl : Lives] \union {None}
  BY LaterEntry DEF Tick, TypeOK, Entry
<1>4. excused' \in BOOLEAN /\ charged' \in BOOLEAN
  BY DEF Tick, TypeOK
<1> QED
  BY <1>1, <1>2, <1>3, <1>4 DEF Tick, TypeOK

LEMMA TypeStep == TypeOK /\ [Next]_vars => TypeOK'
<1> SUFFICES ASSUME TypeOK, [Next]_vars PROVE TypeOK'
  OBVIOUS
<1>1. CASE UNCHANGED vars
  BY <1>1 DEF vars, readers, TypeOK
<1> QED
  BY <1>1, BeginType, ReadType, UserType, PermissionsType, ReplaceType, ForgetType, TickType
     DEF Next, Proceed

\* Every variable keeps its type: ages and lifetimes stay within what they are counted to.
THEOREM TypeCorrect == Spec => []TypeOK
BY TypeInit, TypeStep, PTL DEF Spec

-----------------------------------------------------------------------------
(* Stale users *)

LEMMA StaleStep == TypeOK /\ StaleHasACause /\ [Next]_vars => StaleHasACause'
<1> SUFFICES ASSUME TypeOK, StaleHasACause, [Next]_vars PROVE StaleHasACause'
  OBVIOUS
<1>1. ASSUME UNCHANGED <<user, evicting, charged, excused>> PROVE StaleHasACause'
  BY <1>1 DEF StaleHasACause
<1>2. ASSUME NEW r \in Readers, Begin(r) PROVE StaleHasACause'
  BY <1>1, <1>2 DEF Begin, ReadUser, ReadPermissions
<1>3. ASSUME NEW r \in Readers, Proceed(r) PROVE StaleHasACause'
  <2>1. CASE SetUser(r)
    BY <2>1 DEF SetUser, StaleHasACause
  <2>2. CASE ExpireUser(r)
    <3>1. user' # None => user # None /\ user'.age = user.age
      BY <2>2, ExpiredEntry DEF ExpireUser, TypeOK, Entry
    <3> QED
      BY <2>2, <3>1 DEF ExpireUser, StaleHasACause
  <2> QED
    BY <1>1, <1>3, <2>1, <2>2
       DEF Proceed, PermissionHit, PermissionMiss, UserHit, Kept, UserMiss, QueryUser,
           QueryThrows, SetUserFails, ExpireUserFails, QueryRoles, SetPermissions,
           SetPermissionsFails, ExpirePermissions, ExpirePermissionsFails
<1>4. CASE Replace
  <2>1. CASE Update
    BY <2>1 DEF Update, StaleHasACause, TypeOK
  <2>2. CASE UpdateThrows \/ DeleteByPK
    <3>1. user' # None => user # None
      BY <2>2 DEF UpdateThrows, DeleteByPK, UserReplaced
    <3> QED
      BY <2>2, <3>1 DEF UpdateThrows, DeleteByPK, StaleHasACause
  <2>3. CASE Insert
    BY <2>3 DEF Insert, StaleHasACause, TypeOK
  <2>4. CASE ChangeRoles
    BY <1>1, <2>4 DEF ChangeRoles
  <2>5. CASE Charge
    BY <2>5 DEF Charge, UserReplaced, StaleHasACause
  <2> QED
    BY <1>4, <2>1, <2>2, <2>3, <2>4, <2>5 DEF Replace
<1>5. CASE Forget
  BY <1>5 DEF Forget, PostHandle, PostHandleFails, DeleteUserCache, DeleteEntry,
              StaleHasACause
<1>6. CASE Tick
  <2>1. user' # None => user # None /\ user.age \in Ages /\ user'.age = Older(user.age)
    BY <1>6, LaterEntry, EntryIsNotNone DEF Tick, TypeOK, Entry
  <2>2. user' # None /\ user'.age # Current => user.age # Current
    BY <2>1, OlderAge
  <2> QED
    BY <1>6, <2>1, <2>2 DEF Tick, StaleHasACause
<1>7. CASE UNCHANGED vars
  BY <1>1, <1>7 DEF vars
<1> QED
  BY <1>2, <1>3, <1>4, <1>5, <1>6, <1>7 DEF Next

\* A cached user differs from the database only while its delete is under way, or when
\* the delete was lost or never asked for, or when a call that had read the user before
\* the change stores it, or when a charge changed it last, which deletes nothing.
THEOREM StaleUsersAreExplained == Spec => []StaleHasACause
<1>1. Init => StaleHasACause
  BY DEF Init, StaleHasACause
<1> QED
  BY <1>1, TypeInit, StaleStep, TypeStep, PTL DEF Spec

-----------------------------------------------------------------------------
(* Ages *)

\* A call that has not yet read anything has nothing.
NothingRead ==
  \A r \in Readers :
    /\ pc[r] \in {"idle", "perms", "user", "database"} => got[r] = Current /\ held[r] = 0
    /\ pc[r] = "idle" => call[r] = "user"

\* A user that is read from the database is as old as the call that has read it.  An
\* entry that is there while a call is about to expire it has been stored since, by that
\* call or by one that had read the user at most CallLimit ticks before.
UserAges ==
  "user" \notin unexpired =>
    /\ \A r \in Readers : pc[r] = "set" => got[r] <= held[r]
    /\ \A r \in Readers : pc[r] = "expire" =>
         /\ user # None => user.age <= CallLimit + held[r]
         /\ got[r] <= held[r]
    /\ UserIsRecent

UserInv == NothingRead /\ UserAges

LEMMA UserInit == Init => UserInv
BY DEF Init, UserInv, NothingRead, UserAges, UserIsRecent

\* What an action may do to a user in the cache so that UserInv holds after it.
LEMMA UserAgesKept ==
  ASSUME TypeOK, UserInv, NothingRead', unexpired \subseteq unexpired',
         \/ user' = None
         \/ user # None /\ user'.ttl = user.ttl /\ user'.age \in {user.age, 0},
         \A r \in Readers :
           /\ held'[r] = held[r] \/ pc'[r] \notin {"set", "expire"}
           /\ pc'[r] = "set" => got'[r] = Current \/ (pc[r] = "set" /\ got'[r] \in {got[r], 0})
           /\ pc'[r] = "expire" => /\ pc[r] = "expire"
                                   /\ got'[r] \in {got[r], Current, 0}
           /\ pc[r] = "expire" => pc'[r] = "expire" \/ "user" \in unexpired'
  PROVE  UserInv'
<1> SUFFICES ASSUME "user" \notin unexpired' PROVE UserAges'
  BY DEF UserInv, UserAges
<1>1. /\ UserAges /\ "user" \notin unexpired /\ CallLimit \in Nat /\ TTL \in Nat \ {0}
      /\ Current = -1
  BY Numbers DEF UserInv
<1>2. \A r \in Readers : held[r] \in 0..CallLimit /\ got[r] \in Int
  BY Numbers DEF TypeOK
<1>3. user' # None => user \in Entry /\ user.age \in Int /\ user.ttl \in Int /\ user.ttl <= TTL
  <2>1. user' # None => user \in Entry
    BY DEF TypeOK, Entry
  <2>2. user \in Entry => user.age \in Int /\ (user.ttl = -1 \/ user.ttl \in 1..TTL)
    BY EntryIsNotNone, Numbers DEF Forever
  <2>3. user \in Entry => user.ttl \in Int /\ user.ttl <= TTL
    BY <1>1, <2>2
  <2> QED
    BY <2>1, <2>2, <2>3
<1>4. \A r \in Readers : pc'[r] = "set" => got'[r] <= held'[r]
  BY <1>1, <1>2 DEF UserAges
<1>5. \A r \in Readers : pc'[r] = "expire" =>
        /\ user' # None => user'.age <= CallLimit + held'[r]
        /\ got'[r] <= held'[r]
  BY <1>1, <1>2, <1>3 DEF UserAges
<1>6. UserIsRecent'
  <2> SUFFICES ASSUME user' # None
               PROVE  IF user'.ttl = Forever
                      THEN \E r \in Readers : pc'[r] = "expire"
                      ELSE user'.age <= TTL - user'.ttl + 2 * CallLimit
    BY DEF UserIsRecent, Expiring
  <2>1. IF user.ttl = Forever THEN \E r \in Readers : pc[r] = "expire"
                              ELSE user.age <= TTL - user.ttl + 2 * CallLimit
    BY <1>1 DEF UserAges, UserIsRecent, Expiring
  <2>2. CASE user.ttl = Forever
    BY <2>1, <2>2
  <2>3. CASE user.ttl # Forever
    BY <1>1, <1>3, <2>1, <2>3
  <2> QED
    BY <2>2, <2>3
<1> QED
  BY <1>4, <1>5, <1>6 DEF UserAges

LEMMA NothingReadStep == TypeOK /\ NothingRead /\ [Next]_vars => NothingRead'
<1> SUFFICES ASSUME TypeOK, NothingRead, [Next]_vars PROVE NothingRead'
  OBVIOUS
<1>1. ASSUME UNCHANGED <<pc, call, got, held>> PROVE NothingRead'
  BY <1>1 DEF NothingRead
<1>2. ASSUME NEW r \in Readers, Begin(r) PROVE NothingRead'
  BY <1>2 DEF Begin, ReadUser, ReadPermissions, Goto, NothingRead, TypeOK
<1>3. ASSUME NEW r \in Readers, Return(r) PROVE NothingRead'
  BY <1>3 DEF Return, Goto, NothingRead, TypeOK
<1>4. ASSUME NEW r \in Readers, NEW place, Goto(r, place), UNCHANGED <<call, held>>,
             \A o \in Readers \ {r} : got'[o] = got[o],
             \/ place \notin {"idle", "perms", "user", "database"}
             \/ place # "idle" /\ got' = got /\ pc[r] \in {"perms", "user"}
      PROVE  NothingRead'
  BY <1>4 DEF Goto, NothingRead, TypeOK
<1>5. ASSUME NEW r \in Readers, NEW age, UserIsRead(r, age) PROVE NothingRead'
  <2>1. CASE Goto(r, "roles") /\ got' = [got EXCEPT ![r] = age] /\ UNCHANGED <<call, held>>
    BY <1>4, <2>1 DEF TypeOK
  <2> QED
    BY <1>3, <1>5, <2>1 DEF UserIsRead
<1>6. ASSUME NEW r \in Readers, Proceed(r) PROVE NothingRead'
  <2>1. CASE \/ PermissionHit(r) \/ QueryThrows(r) \/ SetPermissionsFails(r)
             \/ ExpirePermissions(r) \/ ExpirePermissionsFails(r)
    BY <1>3, <2>1 DEF PermissionHit, QueryThrows, SetPermissionsFails, ExpirePermissions,
                      ExpirePermissionsFails
  <2>2. CASE \/ PermissionMiss(r) \/ UserMiss(r) \/ QueryUser(r) \/ QueryRoles(r)
             \/ SetUser(r) \/ SetPermissions(r)
    <3>1. UNCHANGED <<call, held>> /\ \A o \in Readers \ {r} : got'[o] = got[o]
      BY <2>2 DEF PermissionMiss, UserMiss, QueryUser, QueryRoles, SetUser, SetPermissions,
                  TypeOK
    <3> QED
      BY <1>4, <2>2, <3>1 DEF PermissionMiss, UserMiss, QueryUser, QueryRoles, SetUser,
                              SetPermissions
  <2>3. CASE UserHit(r) \/ SetUserFails(r) \/ ExpireUser(r) \/ ExpireUserFails(r)
    BY <1>5, <2>3 DEF UserHit, SetUserFails, ExpireUser, ExpireUserFails
  <2> QED
    BY <1>6, <2>1, <2>2, <2>3 DEF Proceed
<1>7. CASE Replace
  <2>1. ASSUME UserReplaced, UNCHANGED <<pc, call, held>> PROVE NothingRead'
    BY <2>1 DEF UserReplaced, HoldsUser, NothingRead, TypeOK
  <2>2. CASE ChangeRoles
    BY <2>2 DEF ChangeRoles, HoldsRoles, NothingRead, TypeOK
  <2> QED
    BY <1>1, <1>7, <2>1, <2>2 DEF Replace, Update, UpdateThrows, Insert, DeleteByPK, Charge,
       readers
<1>8. CASE Forget
  BY <1>1, <1>8 DEF Forget, PostHandle, PostHandleFails, DeleteUserCache, readers
<1>9. CASE Tick
  <2>1. /\ \A r \in Readers : got'[r] = Older(got[r])
        /\ \A r \in Readers : held'[r] = IF Holding(r) THEN held[r] + 1 ELSE held[r]
        /\ UNCHANGED <<pc, call>>
    BY <1>9 DEF Tick, TypeOK
  <2>2. Older(Current) = Current
    BY DEF Older
  <2> QED
    BY <2>1, <2>2 DEF Holding, NothingRead
<1>10. CASE UNCHANGED vars
  BY <1>1, <1>10 DEF vars, readers
<1> QED
  BY <1>2, <1>6, <1>7, <1>8, <1>9, <1>10 DEF Next

LEMMA SetUserStep ==
  ASSUME TypeOK, UserInv, NothingRead', NEW r \in Readers, SetUser(r)
  PROVE  UserInv'
<1> SUFFICES ASSUME "user" \notin unexpired' PROVE UserAges'
  BY DEF UserInv, UserAges
<1>1. /\ UserAges /\ "user" \notin unexpired /\ CallLimit \in Nat /\ Current = -1
  BY Numbers DEF UserInv, SetUser
<1>2. \A o \in Readers : held[o] \in 0..CallLimit /\ got[o] \in Int
  BY Numbers DEF TypeOK
<1>3. user' = [age |-> got[r], ttl |-> Forever] /\ UNCHANGED held
  BY DEF SetUser
<1>4. /\ pc[r] = "set" /\ pc'[r] = "expire" /\ got'[r] \in {got[r], Current}
      /\ \A o \in Readers \ {r} : pc'[o] = pc[o] /\ got'[o] = got[o]
  BY DEF SetUser, Goto, TypeOK
<1>5. got[r] <= held[r]
  BY <1>1, <1>4 DEF UserAges
<1>6. \A o \in Readers : pc'[o] = "set" => got'[o] <= held'[o]
  BY <1>1, <1>3, <1>4 DEF UserAges
<1>7. \A o \in Readers : pc'[o] = "expire" =>
        user'.age <= CallLimit + held'[o] /\ got'[o] <= held'[o]
  BY <1>1, <1>2, <1>3, <1>4, <1>5 DEF UserAges
<1>8. UserIsRecent'
  BY <1>3, <1>4 DEF UserIsRecent, Expiring
<1> QED
  BY <1>6, <1>7, <1>8 DEF UserAges

LEMMA ExpireUserStep ==
  ASSUME TypeOK, UserInv, NothingRead', NEW r \in Readers, ExpireUser(r)
  PROVE  UserInv'
<1> SUFFICES ASSUME "user" \notin unexpired' PROVE UserAges'
  BY DEF UserInv, UserAges
<1>1. /\ UserAges /\ "user" \notin unexpired /\ CallLimit \in Nat /\ Current = -1
      /\ TTL \in Nat \ {0}
  BY Numbers DEF UserInv, ExpireUser
<1>2. \A o \in Readers : held[o] \in 0..CallLimit /\ got[o] \in Int
  BY Numbers DEF TypeOK
<1>3. /\ pc[r] = "expire" /\ pc'[r] \in {"idle", "roles"}
      /\ \A o \in Readers \ {r} : pc'[o] = pc[o] /\ got'[o] = got[o] /\ held'[o] = held[o]
  BY DEF ExpireUser, UserIsRead, Return, Goto, TypeOK
<1>4. user' # None => user \in Entry /\ user # None /\ user'.age = user.age /\ user'.ttl = TTL
  BY ExpiredEntry DEF ExpireUser, TypeOK, Entry
<1>5. user' # None => user.age \in Int
  BY <1>4, EntryIsNotNone, Numbers
<1>6. \A o \in Readers : pc'[o] = "set" => got'[o] <= held'[o]
  BY <1>1, <1>3 DEF UserAges
<1>7. \A o \in Readers : pc'[o] = "expire" =>
        /\ user' # None => user'.age <= CallLimit + held'[o]
        /\ got'[o] <= held'[o]
  BY <1>1, <1>3, <1>4 DEF UserAges
<1>8. user' # None => user'.age <= TTL - user'.ttl + 2 * CallLimit
  <2>1. user' # None => user.age <= CallLimit + held[r]
    BY <1>1, <1>3, <1>4 DEF UserAges
  <2> QED
    BY <1>1, <1>2, <1>4, <1>5, <2>1
<1>9. UserIsRecent'
  BY <1>1, <1>4, <1>8 DEF UserIsRecent, Forever
<1> QED
  BY <1>6, <1>7, <1>9 DEF UserAges

LEMMA TickUserStep ==
  ASSUME TypeOK, UserInv, NothingRead', Tick
  PROVE  UserInv'
<1> SUFFICES ASSUME "user" \notin unexpired' PROVE UserAges'
  BY DEF UserInv, UserAges
<1>1. /\ UserAges /\ "user" \notin unexpired /\ CallLimit \in Nat /\ Current = -1
      /\ TTL \in Nat \ {0}
  BY Numbers DEF UserInv, Tick
<1>2. \A o \in Readers : held[o] \in 0..CallLimit /\ got[o] \in Ages /\ got[o] \in Int
  BY Numbers DEF TypeOK
<1>3. \A o \in Readers : /\ pc'[o] = pc[o] /\ got'[o] = Older(got[o])
                         /\ pc[o] \in {"set", "expire"} => held'[o] = held[o] + 1
  BY DEF Tick, TypeOK, Holding
<1>4. \A o \in Readers : got'[o] <= got[o] + 1 /\ got'[o] \in Int
  BY <1>2, <1>3, OlderAge, Numbers
<1>5. user' # None =>
        /\ user \in Entry /\ user # None /\ user'.age = Older(user.age)
        /\ IF user.ttl = Forever THEN user'.ttl = Forever
                                 ELSE user.ttl \in 2..TTL /\ user'.ttl = user.ttl - 1
  BY LaterEntry, EntryIsNotNone DEF Tick, TypeOK, Entry
<1>6. user' # None => user.age \in Int /\ user'.age \in Int /\ user'.age <= user.age + 1
  BY <1>5, EntryIsNotNone, OlderAge, Numbers
<1>7. \A o \in Readers : pc'[o] = "set" => got'[o] <= held'[o]
  BY <1>1, <1>2, <1>3, <1>4 DEF UserAges
<1>8. \A o \in Readers : pc'[o] = "expire" =>
        /\ user' # None => user'.age <= CallLimit + held'[o]
        /\ got'[o] <= held'[o]
  BY <1>1, <1>2, <1>3, <1>4, <1>5, <1>6 DEF UserAges
<1>9. UserIsRecent'
  <2> SUFFICES ASSUME user' # None
               PROVE  IF user'.ttl = Forever
                      THEN \E o \in Readers : pc'[o] = "expire"
                      ELSE user'.age <= TTL - user'.ttl + 2 * CallLimit
    BY DEF UserIsRecent, Expiring
  <2>1. IF user.ttl = Forever THEN \E o \in Readers : pc[o] = "expire"
                              ELSE user.age <= TTL - user.ttl + 2 * CallLimit
    BY <1>1, <1>5 DEF UserAges, UserIsRecent, Expiring
  <2>2. CASE user.ttl = Forever
    BY <1>3, <1>5, <2>1, <2>2
  <2>3. CASE user.ttl # Forever
    <3>1. user'.ttl = user.ttl - 1 /\ user.ttl \in 2..TTL
      BY <1>5, <2>3
    <3> QED
      BY <1>1, <1>6, <2>1, <2>3, <3>1 DEF Forever
  <2> QED
    BY <2>2, <2>3
<1> QED
  BY <1>7, <1>8, <1>9 DEF UserAges

LEMMA UserStep == TypeOK /\ UserInv /\ [Next]_vars => UserInv'
<1> SUFFICES ASSUME TypeOK, UserInv, [Next]_vars PROVE UserInv'
  OBVIOUS
<1>0. NothingRead' /\ NothingRead
  BY NothingReadStep DEF UserInv
<1>1. ASSUME NEW r \in Readers, Begin(r) PROVE UserInv'
  <2>1. UNCHANGED <<user, unexpired, got, held>>
    BY <1>1 DEF Begin, ReadUser, ReadPermissions
  <2>2. /\ pc[r] = "idle" /\ pc'[r] \in {"user", "perms"}
        /\ \A o \in Readers \ {r} : pc'[o] = pc[o]
    BY <1>1 DEF Begin, ReadUser, ReadPermissions, Goto, TypeOK
  <2> QED
    BY <1>0, <2>1, <2>2, UserAgesKept
<1>2. ASSUME NEW r \in Readers, Proceed(r), ~SetUser(r), ~ExpireUser(r) PROVE UserInv'
  <2>1. user' = user /\ unexpired \subseteq unexpired'
    BY <1>2 DEF Proceed, PermissionHit, PermissionMiss, UserHit, Kept, UserMiss, QueryUser,
           QueryThrows, SetUserFails, ExpireUserFails, QueryRoles, SetPermissions,
           SetPermissionsFails, ExpirePermissions, ExpirePermissionsFails
  <2>2. \A o \in Readers \ {r} : pc'[o] = pc[o] /\ got'[o] = got[o] /\ held'[o] = held[o]
    BY <1>2 DEF Proceed, PermissionHit, PermissionMiss, UserHit, UserMiss, QueryUser,
           QueryThrows, SetUserFails, ExpireUserFails, QueryRoles, SetPermissions,
           SetPermissionsFails, ExpirePermissions, ExpirePermissionsFails, UserIsRead,
           Return, Goto, TypeOK
  <2>3. /\ pc'[r] # "expire"
        /\ pc'[r] = "set" => got'[r] = got[r] /\ held'[r] = held[r] /\ pc[r] = "database"
        /\ pc[r] = "expire" => "user" \in unexpired'
    BY <1>2 DEF Proceed, PermissionHit, PermissionMiss, UserHit, UserMiss, QueryUser,
           QueryThrows, SetUserFails, ExpireUserFails, QueryRoles, SetPermissions,
           SetPermissionsFails, ExpirePermissions, ExpirePermissionsFails, UserIsRead,
           Return, Goto, TypeOK
  <2>4. pc'[r] = "set" => got'[r] = Current
    BY <1>0, <2>3 DEF NothingRead
  <2>5. user' = None \/ (user # None /\ user'.ttl = user.ttl /\ user'.age \in {user.age, 0})
    BY <2>1
  <2>6. \A o \in Readers :
          /\ held'[o] = held[o] \/ pc'[o] \notin {"set", "expire"}
          /\ pc'[o] = "set" => got'[o] = Current \/ (pc[o] = "set" /\ got'[o] \in {got[o], 0})
          /\ pc'[o] = "expire" => /\ pc[o] = "expire"
                                  /\ got'[o] \in {got[o], Current, 0}
          /\ pc[o] = "expire" => pc'[o] = "expire" \/ "user" \in unexpired'
    BY <2>2, <2>3, <2>4
  <2> QED
    BY <1>0, <2>1, <2>5, <2>6, UserAgesKept
<1>3. ASSUME UNCHANGED <<pc, held, unexpired>>,
             \A o \in Readers : got'[o] \in {got[o], Current, 0} /\
                  (pc[o] = "set" => got'[o] \in {got[o], 0}),
             user' = None \/ (user # None /\ user'.ttl = user.ttl /\ user'.age \in {user.age, 0})
      PROVE  UserInv'
  BY <1>0, <1>3, UserAgesKept
<1>4. ASSUME UserReplaced, UNCHANGED <<pc, held, unexpired>> PROVE UserInv'
  <2>1. \A o \in Readers : got'[o] = IF HoldsUser(o) THEN Replaced(got[o]) ELSE Current
    BY <1>4 DEF UserReplaced
  <2>2. \A o \in Readers : got'[o] \in {got[o], Current, 0} /\
                  (pc[o] = "set" => got'[o] \in {got[o], 0})
    BY <2>1, ReplacedAge DEF HoldsUser, TypeOK
  <2>3. user' = None \/ (user # None /\ user'.ttl = user.ttl /\ user'.age \in {user.age, 0})
    <3>1. CASE user = None
      BY <1>4, <3>1 DEF UserReplaced
    <3>2. CASE user # None
      <4>1. user \in Entry /\ user' = [user EXCEPT !.age = Replaced(@)]
        BY <1>4, <3>2 DEF UserReplaced, TypeOK, Entry
      <4> QED
        BY <3>2, <4>1, ReplacedEntry, ReplacedAge, EntryIsNotNone
    <3> QED
      BY <3>1, <3>2
  <2> QED
    BY <1>3, <1>4, <2>2, <2>3
<1>5. CASE Replace
  <2>1. CASE ChangeRoles
    <3>1. \A o \in Readers : got'[o] = IF HoldsRoles(o) THEN Replaced(got[o]) ELSE got[o]
      BY <2>1 DEF ChangeRoles
    <3>2. \A o \in Readers : got'[o] \in {got[o], Current, 0} /\
                  (pc[o] = "set" => got'[o] \in {got[o], 0})
      BY <3>1, ReplacedAge DEF HoldsRoles, TypeOK
    <3> QED
      BY <1>3, <2>1, <3>2 DEF ChangeRoles
  <2>2. CASE Insert
    BY <1>3, <2>2 DEF Insert, readers
  <2> QED
    BY <1>4, <1>5, <2>1, <2>2 DEF Replace, Update, UpdateThrows, DeleteByPK, Charge
<1>6. CASE Forget
  BY <1>3, <1>6 DEF Forget, PostHandle, PostHandleFails, DeleteUserCache, DeleteEntry, readers
<1>7. CASE UNCHANGED vars
  BY <1>3, <1>7 DEF vars, readers
<1> QED
  BY <1>0, <1>1, <1>2, <1>5, <1>6, <1>7, SetUserStep, ExpireUserStep, TickUserStep
     DEF Next

\* A cached user was that of the database at most an entry's lifetime and two calls ago,
\* whatever deletes were lost; only a failed expire lets it last longer.
THEOREM UsersAreRecent == Spec => []UserIsRecent
<1>1. TypeOK /\ UserInv /\ [Next]_vars => (TypeOK /\ UserInv)'
  BY TypeStep, UserStep
<1>2. UserInv => UserIsRecent
  BY DEF UserInv, UserAges, UserIsRecent
<1> QED
  BY <1>1, <1>2, TypeInit, UserInit, PTL DEF Spec

-----------------------------------------------------------------------------
(* Ages of permissions *)

\* The oldest user that a call can find in the cache
OldestUser == TTL + 2 * CallLimit

\* Permissions are computed from a user that was in the cache when the call began; the
\* entry that is there while a call is about to expire it has been stored since.
PermissionAges ==
  unexpired = {} =>
    /\ \A r \in Readers : pc[r] \in {"roles", "setPerms"} => got[r] <= OldestUser + held[r]
    /\ \A r \in Readers : pc[r] = "expirePerms" /\ perms # None
                          => perms.age <= OldestUser + CallLimit + held[r]
    /\ PermissionsAreRecent

LEMMA PermissionInit == Init => PermissionAges
BY DEF Init, PermissionAges, PermissionsAreRecent

LEMMA CallTypes ==
  ASSUME TypeOK
  PROVE  /\ OldestUser \in Nat
         /\ \A r \in Readers : /\ held[r] \in 0..CallLimit /\ held[r] \in Nat
                               /\ got[r] \in Ages /\ got[r] \in Int
<1>1. TTL \in Nat /\ CallLimit \in Nat /\ Ages \subseteq Int
  BY Numbers
<1>2. OldestUser \in Nat
  BY <1>1 DEF OldestUser
<1>3. \A r \in Readers : held[r] \in 0..CallLimit /\ got[r] \in Ages
  BY DEF TypeOK
<1>4. (\A x \in 0..CallLimit : x \in Nat) /\ \A x \in Ages : x \in Int
  BY <1>1
<1> QED
  BY <1>2, <1>3, <1>4, Zenon

LEMMA FoundUser ==
  ASSUME TypeOK, UserInv, user # None, unexpired = {}
  PROVE  user.age <= OldestUser
<1>1. CallLimit \in Nat /\ TTL \in Nat \ {0} /\ UserAges /\ "user" \notin unexpired
  BY Numbers DEF UserInv
<1>2. user \in Entry
  BY DEF TypeOK, Entry
<1>3. user.age \in Int /\ (user.ttl = Forever \/ user.ttl \in 1..TTL)
  BY <1>2, EntryIsNotNone, Numbers
<1>4. CASE user.ttl = Forever
  <2>1. PICK s \in Readers : pc[s] = "expire"
    BY <1>1, <1>4 DEF UserAges, UserIsRecent, Expiring
  <2>2. user.age <= CallLimit + held[s] /\ held[s] \in 0..CallLimit
    BY <1>1, <2>1 DEF UserAges, TypeOK
  <2> QED
    BY <1>1, <1>3, <2>2 DEF OldestUser
<1>5. CASE user.ttl # Forever
  <2>1. user.age <= TTL - user.ttl + 2 * CallLimit
    BY <1>1, <1>5 DEF UserAges, UserIsRecent
  <2> QED
    BY <1>1, <1>3, <1>5, <2>1 DEF OldestUser
<1> QED
  BY <1>4, <1>5

\* What an action may do to the permissions in the cache so that PermissionAges holds
\* after it.
LEMMA PermissionAgesKept ==
  ASSUME TypeOK, PermissionAges, unexpired \subseteq unexpired',
         perms' # None => perms # None /\ perms'.ttl = perms.ttl /\ perms'.age \in {perms.age, 0},
         \A r \in Readers :
           /\ pc'[r] \in {"roles", "setPerms"} =>
                \/ unexpired' # {}
                \/ got'[r] \in Int /\ got'[r] <= OldestUser + held'[r]
           /\ pc'[r] = "expirePerms" => pc[r] = "expirePerms" /\ held'[r] = held[r]
           /\ pc[r] = "expirePerms" => pc'[r] = "expirePerms" \/ unexpired' # {}
  PROVE  PermissionAges'
<1> SUFFICES ASSUME unexpired' = {} PROVE PermissionAges'
  BY DEF PermissionAges
<1>1. PermissionAges /\ unexpired = {} /\ CallLimit \in Nat /\ TTL \in Nat \ {0}
  BY Numbers
<1>2. OldestUser \in Nat /\ \A r \in Readers : held[r] \in 0..CallLimit
  BY CallTypes
<1>3. perms' # None => perms \in Entry
  BY DEF TypeOK, Entry
<1>4. perms \in Entry => perms.age \in Int /\ (perms.ttl = -1 \/ perms.ttl \in 1..TTL)
  BY EntryIsNotNone, Numbers DEF Forever
<1>5. \A r \in Readers : pc'[r] \in {"roles", "setPerms"} => got'[r] <= OldestUser + held'[r]
  OBVIOUS
<1>6. \A r \in Readers : pc'[r] = "expirePerms" /\ perms' # None
                         => perms'.age <= OldestUser + CallLimit + held'[r]
  BY <1>1, <1>2, <1>3, <1>4 DEF PermissionAges
<1>7. PermissionsAreRecent'
  <2> SUFFICES ASSUME perms' # None
               PROVE  IF perms'.ttl = Forever
                      THEN \E r \in Readers : pc'[r] = "expirePerms"
                      ELSE perms'.age <= 2 * TTL - perms'.ttl + 4 * CallLimit
    BY DEF PermissionsAreRecent, Expiring
  <2>1. IF perms.ttl = Forever THEN \E r \in Readers : pc[r] = "expirePerms"
                               ELSE perms.age <= 2 * TTL - perms.ttl + 4 * CallLimit
    BY <1>1 DEF PermissionAges, PermissionsAreRecent, Expiring
  <2>2. CASE perms.ttl = Forever
    BY <2>1, <2>2
  <2>3. CASE perms.ttl # Forever
    <3>1. perms.age \in Int /\ perms.ttl \in 1..TTL
      BY <1>3, <1>4, <2>3 DEF Forever
    <3> QED
      BY <1>1, <2>1, <2>3, <3>1
  <2> QED
    BY <2>2, <2>3
<1> QED
  BY <1>5, <1>6, <1>7 DEF PermissionAges

LEMMA SetPermissionsStep ==
  ASSUME TypeOK, PermissionAges, NEW r \in Readers, SetPermissions(r)
  PROVE  PermissionAges'
<1> SUFFICES ASSUME unexpired' = {} PROVE PermissionAges'
  BY DEF PermissionAges
<1>1. /\ PermissionAges /\ unexpired = {} /\ CallLimit \in Nat /\ TTL \in Nat \ {0}
      /\ Current = -1
  BY Numbers DEF SetPermissions
<1>2. /\ OldestUser \in Nat
      /\ \A o \in Readers : held[o] \in 0..CallLimit /\ got[o] \in Int
  BY CallTypes
<1>3. perms' = [age |-> got[r], ttl |-> Forever] /\ UNCHANGED held
  BY DEF SetPermissions
<1>4. /\ pc[r] = "setPerms" /\ pc'[r] = "expirePerms"
      /\ \A o \in Readers \ {r} : pc'[o] = pc[o] /\ got'[o] = got[o]
  BY DEF SetPermissions, Goto, TypeOK
<1>5. got[r] <= OldestUser + held[r]
  BY <1>1, <1>4 DEF PermissionAges
<1>6. \A o \in Readers : pc'[o] \in {"roles", "setPerms"} => got'[o] <= OldestUser + held'[o]
  BY <1>1, <1>3, <1>4 DEF PermissionAges
<1>7. \A o \in Readers : pc'[o] = "expirePerms"
                         => perms'.age <= OldestUser + CallLimit + held'[o]
  BY <1>1, <1>2, <1>3, <1>5
<1>8. PermissionsAreRecent'
  BY <1>3, <1>4 DEF PermissionsAreRecent, Expiring
<1> QED
  BY <1>6, <1>7, <1>8 DEF PermissionAges

LEMMA ExpirePermissionsStep ==
  ASSUME TypeOK, PermissionAges, NEW r \in Readers, ExpirePermissions(r)
  PROVE  PermissionAges'
<1> SUFFICES ASSUME unexpired' = {} PROVE PermissionAges'
  BY DEF PermissionAges
<1>1. PermissionAges /\ unexpired = {} /\ CallLimit \in Nat /\ TTL \in Nat \ {0}
  BY Numbers DEF ExpirePermissions
<1>2. /\ OldestUser = TTL + 2 * CallLimit
      /\ \A o \in Readers : held[o] \in 0..CallLimit
  BY <1>1 DEF OldestUser, TypeOK
<1>3. /\ pc[r] = "expirePerms" /\ pc'[r] = "idle"
      /\ \A o \in Readers \ {r} : pc'[o] = pc[o] /\ got'[o] = got[o] /\ held'[o] = held[o]
  BY DEF ExpirePermissions, Return, Goto, TypeOK
<1>4. perms' # None =>
        perms \in Entry /\ perms # None /\ perms'.age = perms.age /\ perms'.ttl = TTL
  BY ExpiredEntry DEF ExpirePermissions, TypeOK, Entry
<1>5. perms' # None => perms.age \in Int
  BY <1>4, EntryIsNotNone, Numbers
<1>6. \A o \in Readers : pc'[o] \in {"roles", "setPerms"} => got'[o] <= OldestUser + held'[o]
  BY <1>1, <1>3 DEF PermissionAges
<1>7. \A o \in Readers : pc'[o] = "expirePerms" /\ perms' # None
                         => perms'.age <= OldestUser + CallLimit + held'[o]
  BY <1>1, <1>3, <1>4 DEF PermissionAges
<1>8. perms' # None => perms'.age <= 2 * TTL - perms'.ttl + 4 * CallLimit
  <2>1. perms' # None => perms.age <= OldestUser + CallLimit + held[r]
    BY <1>1, <1>3, <1>4 DEF PermissionAges
  <2> QED
    BY <1>1, <1>2, <1>4, <1>5, <2>1
<1>9. PermissionsAreRecent'
  BY <1>1, <1>4, <1>8 DEF PermissionsAreRecent, Forever
<1> QED
  BY <1>6, <1>7, <1>9 DEF PermissionAges

LEMMA TickPermissionsStep ==
  ASSUME TypeOK, PermissionAges, Tick
  PROVE  PermissionAges'
<1> SUFFICES ASSUME unexpired' = {} PROVE PermissionAges'
  BY DEF PermissionAges
<1>1. PermissionAges /\ unexpired = {} /\ CallLimit \in Nat /\ TTL \in Nat \ {0}
  BY Numbers DEF Tick
<1>2. /\ OldestUser \in Nat
      /\ \A o \in Readers : held[o] \in 0..CallLimit /\ got[o] \in Ages /\ got[o] \in Int
  BY CallTypes
<1>3. \A o \in Readers :
        /\ pc'[o] = pc[o] /\ got'[o] = Older(got[o])
        /\ pc[o] \in {"roles", "setPerms", "expirePerms"} => held'[o] = held[o] + 1
  BY DEF Tick, TypeOK, Holding
<1>4. \A o \in Readers : got'[o] <= got[o] + 1 /\ got'[o] \in Int
  BY <1>2, <1>3, OlderAge, Numbers
<1>5. perms' # None =>
        /\ perms \in Entry /\ perms # None /\ perms'.age = Older(perms.age)
        /\ IF perms.ttl = Forever THEN perms'.ttl = Forever
                                  ELSE perms.ttl \in 2..TTL /\ perms'.ttl = perms.ttl - 1
  BY LaterEntry, EntryIsNotNone DEF Tick, TypeOK, Entry
<1>6. perms' # None => perms.age \in Int /\ perms'.age \in Int /\ perms'.age <= perms.age + 1
  BY <1>5, EntryIsNotNone, OlderAge, Numbers
<1>7. \A o \in Readers : pc'[o] \in {"roles", "setPerms"} => got'[o] <= OldestUser + held'[o]
  BY <1>1, <1>2, <1>3, <1>4 DEF PermissionAges
<1>8. \A o \in Readers : pc'[o] = "expirePerms" /\ perms' # None
                         => perms'.age <= OldestUser + CallLimit + held'[o]
  BY <1>1, <1>2, <1>3, <1>5, <1>6 DEF PermissionAges
<1>9. PermissionsAreRecent'
  <2> SUFFICES ASSUME perms' # None
               PROVE  IF perms'.ttl = Forever
                      THEN \E o \in Readers : pc'[o] = "expirePerms"
                      ELSE perms'.age <= 2 * TTL - perms'.ttl + 4 * CallLimit
    BY DEF PermissionsAreRecent, Expiring
  <2>1. IF perms.ttl = Forever THEN \E o \in Readers : pc[o] = "expirePerms"
                               ELSE perms.age <= 2 * TTL - perms.ttl + 4 * CallLimit
    BY <1>1, <1>5 DEF PermissionAges, PermissionsAreRecent, Expiring
  <2>2. CASE perms.ttl = Forever
    BY <1>3, <1>5, <2>1, <2>2
  <2>3. CASE perms.ttl # Forever
    <3>1. perms'.ttl = perms.ttl - 1 /\ perms.ttl \in 2..TTL
      BY <1>5, <2>3
    <3> QED
      BY <1>1, <1>6, <2>1, <2>3, <3>1 DEF Forever
  <2> QED
    BY <2>2, <2>3
<1> QED
  BY <1>7, <1>8, <1>9 DEF PermissionAges

\* readUserByAccount hands over a user that is not older than one found in the cache.
LEMMA HandedOver ==
  ASSUME TypeOK, UserInv, unexpired = {}, NEW r \in Readers,
         \/ pc[r] \in {"set", "expire"}
         \/ user # None
  PROVE  /\ pc[r] \in {"set", "expire"} => got[r] <= OldestUser + held[r] /\ got[r] \in Int
         /\ user # None => user.age <= OldestUser + held[r] /\ user.age \in Int
<1>1. OldestUser \in Nat /\ held[r] \in Nat /\ got[r] \in Int
  BY CallTypes
<1>2. pc[r] \in {"set", "expire"} => got[r] <= held[r]
  BY DEF UserInv, UserAges
<1>3. user # None => user.age <= OldestUser /\ user.age \in Int
  <2>1. user # None => user \in Entry
    BY DEF TypeOK, Entry
  <2> QED
    BY <2>1, FoundUser, EntryIsNotNone, Numbers
<1> QED
  BY <1>1, <1>2, <1>3

LEMMA PermissionStep == TypeOK /\ UserInv /\ PermissionAges /\ [Next]_vars => PermissionAges'
<1> SUFFICES ASSUME TypeOK, UserInv, PermissionAges, [Next]_vars PROVE PermissionAges'
  OBVIOUS
<1>1. \A o \in Readers : unexpired = {} /\ pc[o] \in {"roles", "setPerms"}
                         => got[o] \in Int /\ got[o] <= OldestUser + held[o]
  BY Numbers DEF PermissionAges, TypeOK
\* One call goes on, and neither stores nor expires permissions.
<1>2. ASSUME NEW r \in Readers, perms' = perms, unexpired \subseteq unexpired',
             \A o \in Readers \ {r} : pc'[o] = pc[o] /\ got'[o] = got[o] /\ held'[o] = held[o],
             pc'[r] # "expirePerms", pc[r] = "expirePerms" => unexpired' # {},
             pc'[r] \in {"roles", "setPerms"} /\ unexpired' = {} =>
               got'[r] \in Int /\ got'[r] <= OldestUser + held'[r]
      PROVE  PermissionAges'
  <2>1. \A o \in Readers :
           /\ pc'[o] \in {"roles", "setPerms"} =>
                \/ unexpired' # {}
                \/ got'[o] \in Int /\ got'[o] <= OldestUser + held'[o]
           /\ pc'[o] = "expirePerms" => pc[o] = "expirePerms" /\ held'[o] = held[o]
           /\ pc[o] = "expirePerms" => pc'[o] = "expirePerms" \/ unexpired' # {}
    BY <1>1, <1>2
  <2> QED
    BY <1>2, <2>1, PermissionAgesKept
<1>3. ASSUME NEW r \in Readers, Begin(r) PROVE PermissionAges'
  <2>1. /\ UNCHANGED <<perms, unexpired, got, held>>
        /\ pc[r] = "idle" /\ pc'[r] \in {"user", "perms"}
        /\ \A o \in Readers \ {r} : pc'[o] = pc[o]
    BY <1>3 DEF Begin, ReadUser, ReadPermissions, Goto, TypeOK
  <2> QED
    BY <1>2, <2>1
<1>4. ASSUME NEW r \in Readers, Return(r), perms' = perms, unexpired \subseteq unexpired',
             pc[r] = "expirePerms" => unexpired' # {}
      PROVE  PermissionAges'
  <2>1. /\ pc'[r] = "idle"
        /\ \A o \in Readers \ {r} : pc'[o] = pc[o] /\ got'[o] = got[o] /\ held'[o] = held[o]
    BY <1>4 DEF Return, Goto, TypeOK
  <2> QED
    BY <1>2, <1>4, <2>1
<1>5. ASSUME NEW r \in Readers, NEW place, Goto(r, place), UNCHANGED <<perms, unexpired, call, held, got>>,
             place \in {"user", "database", "set"} /\ pc[r] \in {"perms", "user", "database"}
      PROVE  PermissionAges'
  <2>1. pc'[r] = place /\ \A o \in Readers \ {r} : pc'[o] = pc[o]
    BY <1>5 DEF Goto, TypeOK
  <2> QED
    BY <1>2, <1>5, <2>1
<1>6. ASSUME NEW r \in Readers, NEW age, UserIsRead(r, age), perms' = perms,
             unexpired \subseteq unexpired', pc[r] # "expirePerms",
             unexpired = {} => age \in Int /\ age <= OldestUser + held[r]
      PROVE  PermissionAges'
  <2>1. CASE Return(r)
    BY <1>4, <1>6, <2>1
  <2>2. CASE Goto(r, "roles") /\ got' = [got EXCEPT ![r] = age] /\ UNCHANGED <<call, held>>
    <3>1. /\ pc'[r] = "roles" /\ got'[r] = age /\ held'[r] = held[r]
          /\ \A o \in Readers \ {r} : pc'[o] = pc[o] /\ got'[o] = got[o] /\ held'[o] = held[o]
      BY <2>2 DEF Goto, TypeOK
    <3>2. unexpired' = {} => unexpired = {}
      BY <1>6
    <3> QED
      BY <1>2, <1>6, <3>1, <3>2
  <2> QED
    BY <1>6, <2>1, <2>2 DEF UserIsRead
<1>7. ASSUME NEW r \in Readers, Proceed(r), ~SetPermissions(r), ~ExpirePermissions(r)
      PROVE  PermissionAges'
  <2>1. CASE \/ PermissionHit(r) \/ QueryThrows(r) \/ SetPermissionsFails(r)
             \/ ExpirePermissionsFails(r)
    BY <1>4, <2>1 DEF PermissionHit, QueryThrows, SetPermissionsFails, ExpirePermissionsFails
  <2>2. CASE PermissionMiss(r) \/ UserMiss(r) \/ QueryUser(r)
    BY <1>5, <2>2 DEF PermissionMiss, UserMiss, QueryUser
  <2>3. CASE QueryRoles(r)
    <3>1. /\ pc[r] = "roles" /\ pc'[r] = "setPerms"
          /\ UNCHANGED <<perms, unexpired, got, held>>
          /\ \A o \in Readers \ {r} : pc'[o] = pc[o]
      BY <2>3 DEF QueryRoles, Goto, TypeOK
    <3> QED
      BY <1>1, <1>2, <3>1
  <2>4. CASE UserHit(r)
    BY <1>6, <2>4, HandedOver DEF UserHit
  <2>5. CASE SetUserFails(r) \/ ExpireUser(r) \/ ExpireUserFails(r)
    BY <1>6, <2>5, HandedOver DEF SetUserFails, ExpireUser, ExpireUserFails
  <2>6. CASE SetUser(r)
    <3>1. /\ pc[r] = "set" /\ pc'[r] = "expire" /\ UNCHANGED <<perms, unexpired, held>>
          /\ \A o \in Readers \ {r} : pc'[o] = pc[o] /\ got'[o] = got[o]
      BY <2>6 DEF SetUser, Goto, TypeOK
    <3> QED
      BY <1>2, <3>1
  <2> QED
    BY <1>7, <2>1, <2>2, <2>3, <2>4, <2>5, <2>6 DEF Proceed
<1>8. ASSUME UNCHANGED <<pc, held>>, unexpired \subseteq unexpired',
             \A o \in Readers : pc[o] \in {"roles", "setPerms"} => got'[o] \in {got[o], 0},
             perms' # None => perms # None /\ perms'.ttl = perms.ttl /\ perms'.age \in {perms.age, 0}
      PROVE  PermissionAges'
  <2>1. \A o \in Readers : OldestUser + held[o] \in Nat
    BY Numbers DEF OldestUser, TypeOK
  <2>2. unexpired' = {} => unexpired = {}
    BY <1>8
  <2>3. \A o \in Readers :
           /\ pc'[o] \in {"roles", "setPerms"} =>
                \/ unexpired' # {}
                \/ got'[o] \in Int /\ got'[o] <= OldestUser + held'[o]
           /\ pc'[o] = "expirePerms" => pc[o] = "expirePerms" /\ held'[o] = held[o]
           /\ pc[o] = "expirePerms" => pc'[o] = "expirePerms" \/ unexpired' # {}
    BY <1>1, <1>8, <2>1, <2>2
  <2> QED
    BY <1>8, <2>3, PermissionAgesKept
<1>9. ASSUME perms' = IF perms = None THEN None ELSE [perms EXCEPT !.age = Replaced(@)]
      PROVE  perms' # None => perms # None /\ perms'.ttl = perms.ttl /\ perms'.age \in {perms.age, 0}
  <2>1. CASE perms = None
    BY <1>9, <2>1
  <2>2. CASE perms # None
    <3>1. perms \in Entry /\ perms' = [perms EXCEPT !.age = Replaced(@)]
      BY <1>9, <2>2 DEF TypeOK, Entry
    <3> QED
      BY <2>2, <3>1, ReplacedEntry, ReplacedAge, EntryIsNotNone
  <2> QED
    BY <2>1, <2>2
<1>10. CASE Replace
  <2>1. CASE UserReplaced /\ UNCHANGED <<pc, held, unexpired>>
    <3>1. \A o \in Readers : pc[o] \in {"roles", "setPerms"} => got'[o] \in {got[o], 0}
      BY <2>1, ReplacedAge DEF UserReplaced, HoldsUser, TypeOK
    <3> QED
      BY <1>8, <1>9, <2>1, <3>1 DEF UserReplaced
  <2>2. CASE ChangeRoles
    <3>1. \A o \in Readers : got'[o] \in {got[o], 0}
      BY <2>2, ReplacedAge DEF ChangeRoles, TypeOK
    <3> QED
      BY <1>8, <1>9, <2>2, <3>1 DEF ChangeRoles
  <2>3. CASE Insert
    BY <1>8, <2>3 DEF Insert, readers
  <2> QED
    BY <1>10, <2>1, <2>2, <2>3 DEF Replace, Update, UpdateThrows, DeleteByPK, Charge
<1>11. CASE Forget
  BY <1>8, <1>11 DEF Forget, PostHandle, PostHandleFails, DeleteUserCache, readers
<1>12. CASE UNCHANGED vars
  BY <1>8, <1>12 DEF vars, readers
<1> QED
  BY <1>3, <1>7, <1>10, <1>11, <1>12, SetPermissionsStep, ExpirePermissionsStep,
     TickPermissionsStep DEF Next

\* Cached permissions were those of the database at most twice an entry's lifetime and
\* four calls ago: they may have been computed from a cached user.
THEOREM PermissionsAreRecentAlways == Spec => []PermissionsAreRecent
<1>1. TypeOK /\ UserInv /\ PermissionAges /\ [Next]_vars
        => (TypeOK /\ UserInv /\ PermissionAges)'
  BY TypeStep, UserStep, PermissionStep
<1>2. PermissionAges => PermissionsAreRecent
  BY DEF PermissionAges, PermissionsAreRecent
<1> QED
  BY <1>1, <1>2, TypeInit, UserInit, PermissionInit, PTL DEF Spec

=============================================================================
