# devplat in TLA+

devplat is a Java development platform (`org.cisiondata`): a set of Maven
modules for web applications in front of Redis, a relational database, message
queues and search engines. It has no design documents; what the code promises
is in its comments, most of them Chinese. This directory holds TLA+ modules of
the parts of it in which threads, web nodes and failures interact, the TLC
configurations that check them on small instances, and TLAPS proofs of what
matters most for every value of the constants.

Source paths below leave out `src/<module>/src/main/java/org/cisiondata/`.

1. [Inventory](#1-inventory)
2. [Modules and how they correspond to the code](#2-modules-and-how-they-correspond-to-the-code)
3. [Runs](#3-runs)
4. [Proofs](#4-proofs)
5. [Disagreements with the comments of the code](#5-disagreements-with-the-comments-of-the-code)
6. [Not modelled](#6-not-modelled)
7. [Plan](#7-plan)

Run `tlc -workers 2 -config <cfg> <module>` for a run and `tlapm <module>Proofs.tla`
for the proofs of a module.

## 1. Inventory

The repository holds several generations of the same code. `devplat`,
`devplat-0.0.1` and `devplat-1.0.0` are the old monolith and its releases,
`devplat-auth-shiro-proguard` an obfuscated build, `devplat-boot` and the
`devplat-admin-*` applications are assemblies. The components below are listed
where their code is most complete.

| component | state | operations | met by | hard behaviour | what makes it correct |
|---|---|---|---|---|---|
| **Distributed lock** `devplat-redis/utils/redis/DistributedLock` | one Redis key whose value is the expiry time; locals of `lock()` | `lock`, `unlock` | clients in several JVMs, through `RedisClusterUtils`, which swallows failures | takeover of expired leases by several contenders, lost answers, repeated deletes, dead owners | at most one owner, unless a repeated or overdue delete has robbed one; the owner's key outlives its hold |
| **Lock interceptor** `devplat-redis/utils/redis/DLockInterceptor` | none | `invoke` | wraps a method in a lock | the test of `lock()`'s result is inverted | the method runs iff the lock is owned |
| **Connection pool** `devplat-common/utils/jdbc/{ConnectionPool,WrapperConnection,JDBCUtils}` | vector of wrappers with a busy flag, the limit, the JDBC connections | `createPool`, `getConnection`, `returnConnection`, `refreshConnections`, `closeConnectionPool`; `JDBCUtils.execute` borrows and returns | threads of one JVM | `returnConnection` takes no monitor, the others sleep with it; connections break, the driver refuses, a failed close is swallowed | a connection has one borrower, the pool keeps to its limit, no flag leaks, waiting ends |
| **Request handling and charging** `devplat-auth/modules/auth/{web/handler/UrlHandlerAdapter,service/impl/*ServiceImpl}` | `requestServiceList`, balances in `T_USER_ATTRIBUTE`, attributes of each request, the access queue in Redis | `handle`: `preHandle` of every service, the controller, `postHandle` of every service, the response | request threads of several nodes, meeting in the database | balance read before the call and read-then-written after it; services fail half-way; their order is the order of the bean map | nobody is overcharged, overdraft is bounded, what is delivered is recorded |
| **Redis message queue** `devplat-redis/modules/queue` | Redis lists, in-memory `routingKeys`, consumers | `sendMessage`, the listener's scheduled round | request threads, the scheduler, other nodes | pops before handling, shared `HashSet`, restarts | every message is handled once, or is known to be lost |
| **Session store** `devplat-auth/modules/auth/web/session` | session ids in a cookie, attributes in Redis, a local cache | `getSession`, `get/set/removeAttribute`, `getAttributeAndRemove` (no caller yet), `invalidate` | request threads | one-time attributes decided by `getSet` of a time flag with a five-minute window | a one-time attribute is taken by one call at a time |
| **User and permission caches** `devplat-auth/modules/auth/service/impl` | Redis entries with a TTL of 1800 s, a plain `HashMap` of resources | cache-aside reads, updates that delete, charges that do not | request threads | a late fill after a delete; no invalidation of permissions, nor of the balance in a cached user | a stale entry ends with its TTL |
| **Web filters, captcha** `devplat-auth/modules/auth/web` | none of their own | sequential code per request | | | |
| **Shiro charging** `devplat-auth-shiro/modules/auth/{web/handler/UrlHandlerAdapter,service/impl/MoneyChargingServiceImpl}` | `REMAINING_MONEY` of each account | an `/ext` request: balance, interface, relative `UPDATE`, response | request threads | any number of requests pass the test of the balance together | overdraft is bounded by the requests at once |
| **Browser pages** `devplat/.../WEB-INF/js/modules` | the page's elements, globals of its script | search, click on a label, next page; two requests per search, one per page of results | the user, answers in any order | answers of one search, or of one label, arrive after the next was begun | what is shown belongs to what was asked for; the page never stays blocked |
| **Online sessions** `devplat-auth-shiro/modules/auth/session` | Shiro sessions, their database copies, a validation job | validation, synchronisation | the scheduler, request threads | a job revived by a second enable | one validation job |
| **RabbitMQ listeners** `devplat-rabbitmq/modules/rabbitmq/listener` | the channel's unacknowledged deliveries | `onMessage` | the broker | ack before handling, nack after | a delivery is settled once |
| **Job scheduling** `devplat-quartz` | jobs and triggers (Quartz) | insert, update, delete | administrators | check-then-act, swallowed failures | what is reported scheduled is |
| **WebSocket push** `devplat-im` | list of sessions, queue of messages | connect, disconnect, push | container threads | unsynchronized list, a thread that never returns | pushes reach who is connected |
| **Data access, pagination** `devplat-spring`, `devplat-mybatis` | none | SQL rewriting | | | data translation, no protocol |
| **Search, Mongo, graph clients** | none | I/O | | `devplat-titan` is vendored | |
| **Applications** | configuration | | | copies of the above | |

`PROJECT.json` lists 40 hazards at their lines. The components modelled
are those with the hardest interleavings: the lock and the pool are the code's own
concurrency control; charging, the queue, the caches, one-time attributes and the
page do without any.

## 2. Modules and how they correspond to the code

| module | what it is |
|---|---|
| `Mutex` | what a lock promises whose release may be carried out twice: granted only while free, or when its owners have been robbed of it |
| `DistributedLock` | `lock()` and `unlock()`, each Redis command a step; refines `Mutex` |
| `DistributedLockProofs` | its theorems |
| `Lending` | what a pool promises: a connection is lent to one borrower at a time |
| `ConnectionPool` | the pool and the threads that use it; refines `Lending` |
| `ConnectionPoolProofs` | its theorems |
| `RequestCharging` | `UrlHandlerAdapter.handle` with its three request services |
| `RequestChargingProofs` | its theorems |
| `LossyChannel` | what a queue without acknowledgements promises: handled means sent, and not twice |
| `RedisQueue` | `sendMessage` and the listener's round on several nodes; refines `LossyChannel` |
| `RedisQueueProofs` | its theorems |
| `UserCache` | the Redis entries of one account, their readers and its changes |
| `UserCacheProofs` | its theorems |
| `SessionStore` | one attribute of one session, set, removed and taken |
| `SessionStoreProofs` | its theorems |
| `LabelSearch` | the label search page `appsearch.js` |
| `LabelSearchProofs` | its theorems |
| `ShiroCharging` | the `/ext` requests of devplat-auth-shiro |
| `ShiroChargingProofs` | its theorems |
| `MC...` | what TLC instantiates, with its symmetry |

### DistributedLock

| variable | code |
|---|---|
| `value` | the value of `lockKey` in Redis; the key has no TTL, so it stays when its owner dies |
| `stage[c]` | the command `lock()` is about to send; `"held"` is the field `locked`; `"unlock"` and `"repeat"` are a `DEL` on its way, for the first time and again |
| `expireTime`, `lockTime`, `timeout` | the locals of `lock()`, `timeout` in rounds of 100 ms |
| `now` | `System.currentTimeMillis()` |
| `began[c]` | history: when the attempt computed its `expireTime` |
| `struck` | history: the owners whose key the `DEL` of another client has removed |

`Lock` and `Retry` are the top of the loop; `SetNxGranted`/`SetNxRefused`,
`Get`, `Check`, `GetSet`/`GetSetFailed` one command or test each; `TimedOut` and
`Interrupted` the two ways to return false. `Unlock` sends the `DEL`, `Delete` carries
it out, whoever's value the key has, and returns. A command that fails is logged by
`RedisClusterUtils` and looks like 0 or null to the caller, whether or not Redis applied
it: `SetNxRefused` may create the key, `GetSetFailed` may overwrite it, `Delete` may leave
it. `JedisClusterFactory` sets `maxRedirections`, with which Jedis sends a command again when its
connection breaks: `SetNxUnanswered`, `GetSetUnanswered` and `DeleteUnanswered` carry it out
and leave the client where it is, any number of times. A command is carried out between its
call and the end of that call. `Crash` ends a client anywhere.

*Robbed owners.* `unlock()` does not look at the value it deletes. A `DEL` that is repeated after it was
carried out, or that arrives when the lease is over, removes the key of the next
owner, who is not told; a third client then acquires beside it. No assumption on holds and
attempts excludes this, so the properties name it: the owner is `struck` from then on, and
`MutualExclusion`, `OverwriteIsSmall` and `LeaseCoversOwner` are about `Holders`, the owners that are not.
`PromptUnlock` is what keeps the excuse small: the first `DEL` of an `unlock()` within the lease strikes
nobody. `Mutex` has the same `robbed` owners: its only step that robs is one of a release that has
not returned, and `Grant` needs every owner to have been robbed.

*Time.* `Tick` cannot pass the limit of a running attempt (`AttemptLimit`, from
computing `expireTime` to the last command) or of a hold (`HoldLimit`, from the
start of the attempt to the call of `unlock`). The `DEL` of `unlock` has no limit. All clients share one clock; a skew between
JVMs acts like a longer attempt and can be added to `AttemptLimit`. The
properties that need timing hold when `Timely ==
HoldLimit + AttemptLimit <= ExpireMillis + 1`: a lease outlives a hold by
one attempt. Nothing in the code enforces this; the run `lock_overwrite` shows
that the bound is tight.

### ConnectionPool

| variable | code |
|---|---|
| `exists`, `pool` | the field `connectionPool`: null or not, the vector |
| `conn`, `busy` | fields of `WrapperConnection` |
| `maxConnections` | the field, which `newConnection` lowers to the driver's limit |
| `status`, `opened` | the JDBC connections as the database has them |
| `monitor` | the thread in a synchronized method |
| `at` | position of the enumeration of the thread that has the monitor |
| `stage`, `held`, `hit` | where each thread is, the connection it has, the wrapper its return has found |

The actions are the steps between which another thread can act.
`getConnection`, `refreshConnections`, `closeConnectionPool` and `createPool`
are synchronized, and their private `wait(ms)` is `Thread.sleep`: the monitor
is kept. So only `returnConnection`, which is not synchronized, and a connection
that breaks interleave with them: `GetConnection`, `Find`/`FindNothing`, `Grow`
on one side, `ReturnConnection` (the null test), `ReturnFind`/`ReturnMiss` (the
search) and `ReturnFree` (`setBusy(false)`) on the other. `TestAndHand` has all
the outcomes of `testConnection`: a broken connection may pass it, a failing one
is closed and replaced, and when the driver refuses, the borrower is handed the
connection that was to be closed. `closeConnection` prints a failed close and goes on, so what it leaves
behind (`LeftBehind`) is closed or still open at the database, `lost`, wherever it is called: in
`testConnection`, `refreshConnections` and `closeConnectionPool`. `CreateConnections` has all the outcomes of its attempts: a
wrapper, a refusal, and, as long as the pool is empty, a connection that is `lost`
because `getMetaData` throws after the driver has opened it. It stays open in no
wrapper. `OpenWithinLimit` bounds what the database sees by the limit and the lost ones:
each of these failures costs one connection, and nothing else costs any. `RefreshNext` and `CloseNext` do one wrapper each;
removing an element while enumerating moves the rest down, and `at` goes on.

Left out: statements and their results, setters of the limits and of the test
table, the waits (sleeping changes no state), the visibility of the plain field `busy`, and a pool that
another thread closes between a borrower's null test and its use of the
vector beyond what `ReturnMiss` says. Borrowers of a connection execute and
return it (`JDBCUtils.execute` returns it in a `finally`).

### RequestCharging

| variable | code |
|---|---|
| `services` | `requestServiceList`; any order, as the bean map gives it |
| `money` | `T_USER_ATTRIBUTE`, key `remainingMoney` |
| `accessQueue` | the requests with a message in the Redis list `requestAccess` |
| `stage[r]`, `pos[r]` | where `handle` is, and in which service |
| `user`, `inResource`, `cost`, `seen` | the account, the attributes `isInResource` and `incOrDec`, the money read by `postHandle` |
| `verdict` | what `ChargingServiceImpl.postHandle` returned: true, false for want of money, false for want of a user or a price |
| `response` | what the client gets |
| `billed`, `overtaken`, `overlapped` | history only: the sum of the prices written, the requests whose account has paid since their `preHandle`, the accounts with two requests between read and write at once |

Every read and every write of the database is a step. `PreCharging` reads the
balance, `PostRead` reads it again, `PostWrite` writes the difference. `PreRefuse`
and `PostFail` cover every exception and refusal, including a write or `rpush` that
took effect although its answer was lost. `handle` ignores what `postHandle`
returns, so `PostInsufficient` and `PostUnverified` go on to the next service. A
price is any value from 0 to `MaxCost`: which interface, result code and price
table give it is data. `OrgUsers` call interfaces that can be free; `ExtUsers`
call `/ext`, where the account is always tested.

Left out: URL mapping and parameter binding, top-ups and an administrator's
`UserIntegrationDAO.update`, the listener that empties the access queue.

### RedisQueue

| variable | code |
|---|---|
| `routingKeys[n]` | the static `HashSet` of `RedisMQServiceImpl` in the JVM of node n |
| `queue[k]` | the Redis list; its entries are numbered in the order of their `rpush` |
| `stage[m]`, `sender[m]`, `key[m]`, `seen[m]` | where `sendMessage` is with message m, its node and key, and what it saw in the set |
| `round[n]`, `todo[n]`, `modified` | where `onMessage` is; what its iterator has still to return; whether the set has changed under it |
| `current[n]`, `left[n]`, `hand[n]` | `routingKey`, `mqLength - m`, `message` |
| `pushed`, `handled`, `last`, `raced`, `forgotten` | history only |

`contains` and `add` are two steps of a set without a lock: `Add` can overwrite
what was added since, and an iterator over the set may or may not return the new key, or
throw at its next call (`AskFails`). `AskLength` reads `llen`; `Pop` and `Deliver`
alternate as often as it said, with null when another node has been faster.
`ConsumerThrows` ends the round. `JedisClusterFactory` sets `maxRedirections`, with
which Jedis repeats commands whose connection breaks: `PushUnanswered` may append and append
again, `PopUnanswered` may take a message that nobody gets. `Restart` empties the set
of a node and whatever it was doing. `@Scheduled(fixedRate)` does not overlap
a round of its own node. What a model of finitely many messages cannot show, and the code does not
promise, is that every list is emptied: the `HashSet` gives its keys in the same order each time, and a consumer
that throws at every message of one key ends every round there, so that the keys behind it
are not read as long as that key has traffic. `OnMessageReturns` claims only that every round ends. `ConsumedKeys` are the keys that some `ConsumerServiceImpl` names; the
repository has one consumer, of the key `default`.

### UserCache

| variable | code |
|---|---|
| `user`, `perms` | the Redis entries of the account: the age of what they hold, and their time to live |
| `exists` | whether the database has the account |
| `evicting` | updates between `obtainDAOInstance().update` and `postHandle` |
| `pc[r]`, `call[r]` | where each call of `readUserByAccount` or `readPermissionIdentitiesByAccount` is |
| `got[r]`, `held[r]` | the age of what it has read, and for how long it has held it |
| `charged`, `excused`, `unexpired` | history only |

Of a copy only its *age* matters: `Current`, or the ticks since the database
replaced it. So the model needs no versions and no bound on the number of
changes. `RedisClusterUtils.set` is `SET` and `EXPIRE`, two steps; `SET` removes the
time to live, so an entry is eternal until an `EXPIRE` comes, its own or
another call's. It swallows exceptions: the `...Fails` actions go on as if it had worked. `get` that
fails looks like a miss. `Update` writes the database and leaves the delete of the
entry to `PostHandle`; `UpdateThrows` and `DeleteByPK` never delete it. `Charge` is
`ChargingServiceImpl.updateRemainingMoneyByUserId`: it writes `remainingMoney` to `T_USER_ATTRIBUTE`, which the
cached `User` carries among its `attributes`, and deletes nothing; the user is stale without any race until its
entry expires, or something else deletes it. `StaleHasACause` names this next to the races, and only
while a charge is the *last* change of the cached user, so that a later update must again delete the
entry or have lost its delete. A disabled
account, for which `readPermissionIdentitiesByAccount` throws, is a choice of
`QueryThrows`. There is no transaction around any of it (no `tx:advice`, no `@Transactional` in the module).
`updateUserPassword` writes an empty `User` and deletes the entry: in the model it is a
delete (`DeleteUserCache`).

### SessionStore

| variable | code |
|---|---|
| `attribute`, `writes` | the field of the session's hash: which of its writes it has, 0 for none |
| `flag` | the age of the time under the flag key |
| `setting[s]` | how many of its two writes a `setAttribute` has done |
| `pc[t]`, `stamp[t]`, `saw[t]`, `value[t]` | where each `getAttributeAndRemove` is, the age of its own time, the age of the one `GETSET` returned, what it has read |
| `orphaned`, `redeleted` | history only |

Each Redis command and each reading of the clock is a step. `Session.setAttribute` writes, updates its
local cache, and writes again. A refused call has replaced the time in the flag by its
own. `Abort` ends a call anywhere; the `...Unanswered` actions are commands that Jedis
repeats. The first of a repeated `HDEL` does what `RemoveAttribute` does.

### LabelSearch

| variable | code |
|---|---|
| `overlay`, `enabled` | `#background` shown, `#submitapp` enabled |
| `query`, `label`, `scrollId` | the globals `query`, `index` and `type`, `scrollId`: what they were set for |
| `answer`, `flags` | the two requests of each search, and the closure's `flag1`, `flag2`, `flag3` |
| `labels`, `messages`, `results`, `next` | what `#appresult` and `#appresults` show, and `#nextapp` |
| `request` | requests for pages under way |
| `overtaken` | history only |

A handler runs to its end (one thread), so it is one action. The overlay is an
absolutely positioned box (`backgroundcolor.css`): it neither covers what is below
the first screen nor takes the focus, so a second search or click while one
is under way is part of the model.

### ShiroCharging

`money` is `REMAINING_MONEY`; `stage[r]`, `account[r]` and `cost[r]` are the locals of
`handleExternalRequestWithUserAccessControl` and `MoneyChargingServiceImpl.charge`. Reading
the balance and testing it is one step, as nothing else is read; `Charge` is one
relative `UPDATE`. `TopUp` is a payment entered in the database. `peak` is history: the most requests
of an account between its test and its charge at once.

## 3. Runs

| run | what it asks | instance | states |
|---|---|---|---|
| `lock` | types, mutual exclusion, the cost of an overwrite, the lease covers the owner, whom a `DEL` robs, refinement of `Mutex` | 3 clients, lease 2+1 ticks, hold 2, attempt 1, clock to 8 | 404 thousand |
| `lock_overwrite` | mutual exclusion with a hold that fits in the owner's lease but not in the loser's | the same, hold 3, clock to 9 | violated |
| `pool_borrow` | types, the busy flag, the limits on wrappers and on open connections, refinement of `Lending`, and that waiting under the monitor ends | 3 borrowers, limit 3 lowered to the driver's 2, 4 connections | 142 thousand |
| `pool_admin` | no leaked flag, who may clear a flag | 2 borrowers, 1 administrator, limit 2, 4 connections | 1.1 million |
| `pool_stale_return` | the busy flag with `refreshConnections` | the same, 5 connections | violated |
| `pool_close_leaks` | a closed pool has closed its connections | the same | violated |
| `charging` | types, no overcharge, exact charges, bounded overdraft, unpaid results, records before results | 3 requests, 1 account of each kind, 2 units of money, prices 0 to 2 | 733 thousand |
| `redis_queue` | types, when a consumer gets null, who watches a list, refinement of `LossyChannel`, order, and that every round ends | 2 nodes, 2 routing keys, one with a consumer, 2 messages, 1 fault | 131 thousand |
| `user_cache` | types, how old a cached user and cached permissions can be, what makes a user stale, and that both get fresh | 2 readers, one of permissions, TTL 2 ticks, calls of up to 1, 1 update under way, 1 fault | 650 thousand |
| `session_store` | types, one taker at a time, no value taken twice, no refusal without a taker or a fault | 3 takers, 1 setter, window 3 ticks, calls of up to 1, 1 fault | 232 thousand |
| `label_search` | types, "not found" when and only when, what "next" continues, and that overlay and button recover | 2 searches, 2 requests for pages at once | 162 thousand |
| `shiro_charging` | bounded overdraft | 4 requests, 2 accounts, 1 unit of money, prices 0 to 2, 2 payments | 404 thousand |

*Why the bounds are enough.*
Three clients are an owner, and two contenders that read the same expired value;
a loser's earlier expiry needs another attempt to be seen, and a repeated `DEL` a third client beside the one
it robs. Eight ticks are a
lease, its expiry under a dead client, a takeover and the lease of the winner
with the loser's overwrite. `MaxTime` is the only bound on the clock,
`TimeoutRounds` 1 gives two rounds before a timeout.
Three borrowers of two connections make one wait while two return. `MaxOpened`
bounds the connections ever opened: with 4, a pool of 2 replaces each once, or
one twice, is refreshed, or is closed and created anew; with 5 one is replaced again after that. A driver that refuses is a case of the model anyway, so the bound adds no
behaviour.
Three requests of one account are two that overlap and one that comes between or
after; two units of money with prices to two make the last charge overdraw,
and a third find nothing left. `user` is any assignment, so the requests also
spread over both accounts. Every order of the services is an initial state.

Two nodes race for a list and for nothing more than a list; two routing keys are one
that is iterated while another is added. Two messages and one fault make three entries of a list
(`rpush` repeated), which is one for each node and one to race for.
A TTL of two ticks is twice the longest call, so an entry can expire, be stored again and be
given a late `EXPIRE` by the call before. The ages count to `Old`, past both bounds that are checked.
Window 3 with calls of one tick is the least that `SessionAssumption` (`Window >= 3 *
CallLimit`) admits; with 2 a call refused at the end of the window lets two takers through.
In the code the window is 300 000 ms against three Redis timeouts. Three takers are one that takes,
one that is refused and replaces the time, and one that reads what it left.
Two searches overlap, with two requests each; two slots are a page that overtakes another.
Four requests of one account make a peak of three and one that comes after.

*Symmetry.* Clients, borrowers (in `pool_admin`), requests and accounts are
interchangeable, and those runs check safety only. `pool_borrow`, `redis_queue`,
`user_cache` and `label_search` check liveness and use none.

*Deadlock.* The pool runs check for it. The lock's clock ends at
`MaxTime`, the requests of `charging` and `shiro_charging` end, the messages of
`redis_queue` have been sent and no node knows a key, the user of `label_search` may do
nothing more: those configurations switch the check off.

*Fairness.* `GetServed`, `OnMessageReturns`, `EventuallyFresh` and `PageRecovers` need it.
`ConnectionPool` has `WF_vars(Serving(t))` for
each borrower: the JVM runs every thread, a sleeping thread wakes, and a
statement ends (`JDBCUtils.execute` returns its connection in a `finally`). It
claims nothing of administrators, of the driver, or of who gets the monitor
next: Java's monitors promise no order, so `GetServed` says only that the thread
*in* `getConnection` leaves it. `pool # <<>>` is needed: with no wrapper, and a
driver that refuses, `getConnection` sleeps for ever.
`RedisQueue` has `WF_vars(OnMessage(n))`: the scheduler runs the round every two seconds and
each of its steps ends. It does not choose among keys: which of them a round reaches is the
`HashSet`'s order and the consumers' doing, and nothing is claimed of it.
`UserCache` has `WF_vars(Tick)`, time passes, and `WF_vars(Proceed(r))`, a call that has begun ends;
`PostHandle` is not fair, as the node may die before it, and staleness ends all the same.
`LabelSearch` has weak fairness of every answer (`$.ajax` calls `success` or `error`), and none of the user.

Each property is also run against a plausible bug (`mutants` in `PROJECT.json`,
marked `Mutant` in the modules), which the run must notice.

## 4. Proofs

All theorems are of `Spec` and hold for any number of clients, threads, requests
and accounts and for any value of the limits. Where "assumes" names a formula of
behaviours (`[]Punctual`), the theorem is about those behaviours of `Spec`; it names the
one thing that must not happen, and a run with a violation shows that it can.

| module | theorem | assumes |
|---|---|---|
| `DistributedLockProofs` | `TypeCorrect` | |
| | `PunctualOwnersExclude`: `MutualExclusion`, `OverwriteIsSmall`, `LeaseCoversOwner`, `PromptUnlock` | `[]Punctual` |
| | `PunctualOwnersImplementMutex`: `ImplementsMutex` | `[]Punctual` |
| | `LockGivesUp` | |
| | `LockIsExclusive`: `MutualExclusion`; `OverwriteCostsLittle`, `LeaseOutlivesOwner`, `PromptUnlockIsSafe` state its other parts | `Timely` |
| | `LockImplementsMutex` | `Timely` |
| `ConnectionPoolProofs` | `TypeCorrect` | |
| | `PoolIsSound`: `NoBusyLeak`; `WrappersAreDistinct`, `PoolKeepsToLimit` state its other parts | |
| | `FlagIsFreedByBorrower` | |
| | `OnlyStaleReturnsMislead`: `BusyIsInUse` | `[][NoStaleReturn]_vars` |
| | `LendingWithoutStaleReturns`: `ImplementsLending` | `[][NoStaleReturn]_vars` |
| | `OpenKeepsToLimitUntilClosed`: `OpenWithinLimit` | `[]NoClose` |
| | `WaitingIsForBorrowers` | |
| | `BusyFlagIsRight`: `BusyIsInUse` | `Admins = {}` |
| | `PoolImplementsLending` | `Admins = {}` |
| | `OpenConnectionsKeepToLimit`: `OpenWithinLimit` | `Admins = {}` |
| `RequestChargingProofs` | `TypeCorrect` | |
| | `AccountsAreSound`: `NeverOvercharged`; `ChargesAreExact`, `OverdraftIsBounded` state its other parts | |
| | `DeliveryIsRecorded` | |
| | `UnpaidIsOvertaken` | |
| | `ChargedOnce` | finitely many `Requests` |
| `RedisQueueProofs` | `TypeCorrect` | |
| | `ListsAreWatched`: `QueueIsWatched` | |
| | `NullsAreRaces`: `NullMeansRaced` | |
| | `HandledInOrder`: `InOrder` | |
| | `QueueIsLossyChannel`: `ImplementsChannel` | |
| | `NobodyOvertakes` | |
| | `RoundsEnd` | |
| `UserCacheProofs` | `TypeCorrect` | |
| | `StaleUsersAreExplained`: `StaleHasACause` | |
| | `UsersAreRecent`: `UserIsRecent` | |
| | `PermissionsAreRecentAlways`: `PermissionsAreRecent` | |
| `SessionStoreProofs` | `TypeCorrect` | |
| | `OneTakesAtATime`: `OneTaker` | `Window >= 3 * CallLimit` |
| | `ValuesAreTakenOnce`: `TakenOnce` | the same |
| | `FlagsAreTakenAlong`: `RefusedOnlyIfTaken` | the same |
| `LabelSearchProofs` | `TypeCorrect` | |
| | `NotFoundIsTrue`: `NotFoundIffNothing` | |
| | `NextContinues`: `NextContinuesPage` | |
| | `PageWaitsForSomething` | |
| `ShiroChargingProofs` | `TypeCorrect` | |
| | `OverdraftIsBounded`: `OverdraftBounded` | |
| | `ChargedOnce` | |

*The lock.* Mutual exclusion is not inductive: it holds because the value in
Redis stays close to what the owner wrote. The invariant is about `Keepers`: the owners that are not
struck, and the clients in a `Prompt` `unlock()`, whose first `DEL` is on its way
within the lease. There is at most one (`KeepersExclude`), and the key is there with a value at
least its `expireTime - AttemptLimit` (`KeeperInv`); `ClockInv` says that `now` is within the hold, and
that any attempt that could still overwrite computed its expiry at most `AttemptLimit` ticks ago. While
the owner is `Punctual`, that is while its own expiry is at least an attempt away, the value of its key is
then never before `now`. A client in `getSet` has read a value that was already past,
so what it gets back from a kept key cannot be what it had read, and it loses. A `DEL` leaves no
keeper but its sender: either that was the keeper, or it strikes all owners, which can only be a repeated
or an overdue one.
The theorems under `[]Punctual` say nothing of the lease: they hold in every behaviour in which
owners keep to their time, and so tell who is to blame when the lock fails. `Timely` makes
every owner punctual (`TimelyIsPunctual`), and gives the others as corollaries.
`LockGivesUp` is the termination of `lock()`: `StepsLeft(c)` is a natural number that `Lock`
sets to `5 * TimeoutRounds + 5`, that every further step of `c` in `lock()` lowers, a repeated command
apart, and nobody else's raises. That the steps are taken is a matter of fairness, and is not claimed.

*The pool.* `PoolInv` holds under any threads. Its parts: connections
not yet opened are in no wrapper and in no hands (`Fresh`), wrappers and their
connections are distinct, the size is bounded, no wrapper but
the one a return has found carries its connection (`FoundOnlyMatch`), and a busy wrapper has a borrower (`BusyIsLent`). `NoBusyLeak` and
`FreedByBorrower` follow. `LendInv` adds that no two borrowers hold the same connection,
and that what is held, and still in the pool, is marked. A stale return, one that clears the flag of a wrapper whose
connection was replaced after the borrower had found it, is the only step that breaks it:
`NoStaleReturn` excludes that step and nothing else, and
`pool_stale_return` shows that it happens. Without administrators it cannot
(`ReturnsAreNotStale`), as the wrapper found then still carries the connection held.
`OpenIsWrapped` says that every connection the database sees is in a wrapper, or was lost by a failed
`newConnection` or `closeConnection`; choosing a position for each is an injection into `1..Len(pool)`, so there are no more of them
than wrappers. Refreshing keeps it, closing a pool breaks it: `pool_close_leaks`, hence `NoClose`.
`WaitIsEnded` is the part of `GetServed` that is not fairness: a thread that finds every wrapper
busy, and sleeps with the monitor, has another borrower with a connection of the pool to wait for, at a stage
whose steps need no monitor.

*Charging.* `MoneyInv` relates the money a writer has seen to its account
(`SeenIsSound`: it is positive and no less than what the bills leave;
`SeenIsCurrent`: it is the balance unless two overlap). `DeliveryInv` says that a
request past a service's place in the list has that service's record, which holds because
the list has each service once. `UnpaidInv` says that an account a request has found
in money stays in money until a positive price is written, and the
request is then in `overtaken`. `ChargeInv` counts: a request that has the charging service
ahead, or is in it, is not in `Settled`, and what is billed is at most `MaxCost` for each
that is. A charge adds its request to the finite set, so it has been charged for the only time; with
`NeverOvercharged`, no account loses more than that (`LossIsPriced`).

*The queue.* `Registered`: between adding its key to the set and `rpush`, a sender knows
that the key is there, or it is remembered as forgotten; a list only grows from such a sender, so
`QueueIsWatched` follows. `Enough`: while nobody has interfered with a round, its list still has
as many messages as the round has left to pop, since senders only append; a pop that finds
nothing has been raced. For order, `ListsSorted` (a list is sorted by the numbers of the
appends), `LastIsPast` (what a node has handled of a key is below all that is in its list),
`HandIsNext` (what it holds is above what it has handled and below the list) and `HandsDiffer`
(no two nodes hold the same entry) are inductive together. They give `InOrder`, and also the refinement: a pop
moves an entry from a list to a hand, which `held` does not see, and handling removes
it from `held` because no list and no other hand has it.
`NobodyOvertakes` and `RoundsEnd` are what the code gives towards progress, and `OnMessageReturns` rests on the
second. By `ListsSorted`, what
enters a list is behind all that is there, and what leaves was before all that stays, whoever pops and repeats. And a
round is finite: each step of a listener takes a key from its iterator, or lowers `PopsLeft` of
the key at hand, or is one of the faults; senders that go on appending give it nothing more to pop,
as it has read the length before.

*The caches.* `StaleHasACause` is inductive as it stands. Ages need no history of the database. `NothingRead`: a call that has not read
yet has nothing old. `UserAges`: what a call is about to store is no older than the call, and what is in the entry while a
call is about to expire it was stored during that call, by itself or by one that began at most
`CallLimit` before; so an entry is at most two calls old when it gets its time to live, and
`UserIsRecent` counts on from there. `PermissionAges` is the same on top of
`OldestUser == TTL + 2 * CallLimit`, the age of the oldest user that can be found.

*Taking attributes.* A `Candidate` is a call that takes, or may still find that the time it got from `GETSET`
is old enough to. `FlagIsYoung`: there is one candidate at most, and while it is under way there is a flag,
at most `CallLimit` older than its own stamp, even when refused calls replace the time by theirs. So a call that
finds this flag does not become a candidate;
this is where `Window >= 3 * CallLimit` is used. `ValueInv` says that writes are numbered upwards and that
a call that has deleted the attribute does not find its value there.

*The page.* `TypeInv` adds to the types that a search that is shown was sent, and that a page
was asked for a label somebody clicked. `SearchInv` ties the closure's flags to its answers
(`Marked`): `flag1` is set when one of the two answers had no labels, `flag2` while the other may still have none;
so the second of two such answers says "not found", and no other does.
`RecoveryIsDue` is the part of `PageRecovers` that is not fairness: when the overlay is shown or the button
is disabled, a request is under way that can end it, but for the two cases in which the code forgets to.

*Shiro charging.* `Reserve`: of the overdraft that the peak allows, one price for each request, the part of the
requests that are still between test and charge is left. Admitting a request adds
an element to a finite set, charging removes one; `FiniteSetTheorems` counts both.
`ChargedOnce` counts in the same way what was taken from an account, which payments only add to.

Only model-checked, because they are liveness under fairness: `GetServed`, `OnMessageReturns`,
`EventuallyFresh`, `PageRecovers`. Proved of them are the safety facts above, that something else is always
due (`WaitingIsForBorrowers`, `PageWaitsForSomething`) or that a measure goes down (`RoundsEnd`), and for
`EventuallyFresh` the bound on ages (`UsersAreRecent`).

## 5. Disagreements with the comments of the code

1. `DistributedLock.java:66` calls the overwriting of the owner's value by a
   loser acceptable because the difference is small. `lock_overwrite`: it costs
   the owner a part of its lease, and two clients own the lock although the first
   is within the lease it asked for and no `DEL` has touched its key.
2. `WrapperConnection.java:9` and `ConnectionPool.java:292` say what the busy flag means and
   what `returnConnection` does to it. `pool_stale_return`: a refresh between the search and
   the assignment makes the return clear the flag of a connection another borrower uses.
3. `ConnectionPool.java:334` says that closing closes every connection.
   `pool_close_leaks`: every other one stays open.

## 6. Not modelled

- *Lock interceptor.* `DLockInterceptor` calls the method exactly when the lock was
  refused. Nothing in the repository creates it or uses its annotation, so no state
  of the program contains it.
- *Charging by count* (`devplat-auth-shiro`), and the two `charge(ProceedingJoinPoint)`: no pointcut and no
  caller reaches them, nor `updateRemaining`.
- *An update of a whole user* (`UserIntegrationDAO.update`) would write back the balance it had read. Its one
  caller in the repository, `updateUserPassword`, passes a `User` without attributes,
  for which it writes none. `UserCache` has the inherited `update` as a change of the account.
- *`Session.invalidate` and the local cache of a session.* The cache belongs to one request. `invalidate`
  deletes the key of the attributes in another serialisation than the one they were stored
  under (`RedisStorageHandler.java:60`), so it leaves them; a model would state this one fact.
- *The cache of administrators' users* is the same code as that of users, without
  the permissions.
- *`ResourceServiceImpl.resourcesCache`*, a `HashMap` shared without a lock: what a race does to it is inside the
  library's class.
- *Statements* of the pool's connections: only the driver sees them.
- *Online sessions, RabbitMQ, Quartz*: the code configures or calls Shiro, Spring AMQP and the
  scheduler, which keep the state and decide what runs when; a model would be one of the libraries.
- *WebSocket push*: a demonstration, an unsynchronized list and a thread that
  never returns, without a user in the repository.
- *Web filters, captcha, data access, pagination, clients of search engines and stores*: sequential code
  per call without shared state, or translation of data.
- *Third-party code.* Most of the repository's lines are libraries in JavaScript
  (jQuery, Bootstrap, editors), a copy of them in every application, `devplat-titan`, and
  copies of the modules above. Of the JavaScript, the page modelled is the one
  whose handlers share state across requests.

## 7. Plan

1. Compose `RedisQueue` with `RequestCharging` through `accessQueue`: what is delivered
   to a client is in the list, and handled, or lost by a named event.
2. The remaining pages of `devplat`, as far as they share variables between requests.
