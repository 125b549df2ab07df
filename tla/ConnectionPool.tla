--------------------------- MODULE ConnectionPool ---------------------------
(***************************************************************************)
(* org.cisiondata.utils.jdbc.ConnectionPool and the way JDBCUtils uses it. *)
(*                                                                         *)
(* getConnection, refreshConnections, closeConnectionPool and createPool   *)
(* are synchronized, and their private wait(ms) is Thread.sleep: it keeps  *)
(* the monitor.  returnConnection is NOT synchronized: its steps interleave *)
(* with those of the thread that has the monitor.                          *)
(*                                                                         *)
(* A WrapperConnection is made around a new connection, and is named by    *)
(* that first connection; conn[w] is the connection it carries now.        *)
(* Sleeping changes no state, so waits are left out: another thread may    *)
(* act between any two steps anyway.                                       *)
(***************************************************************************)
EXTENDS Integers, SequencesExt

CONSTANTS
  Borrowers,                \* threads that run JDBCUtils.execute
  Admins,                   \* threads that refresh, close and create the pool
  InitialConnections,       \* initialConnections
  IncrementalConnections,   \* incrementalConnections
  MaxConnections,           \* maxConnections, no limit when <= 0
  DriverMax,                \* DatabaseMetaData.getMaxConnections, 0 when unknown
  MaxOpened,                \* bound: connections ever opened; the driver refuses more
  NoThread                  \* nobody has the monitor

Threads == Borrowers \union Admins
Connections == 1..MaxOpened
Nothing == 0

ASSUME PoolAssumption ==
  /\ InitialConnections \in Nat
  /\ IncrementalConnections \in Nat
  /\ MaxConnections \in Int
  /\ DriverMax \in Nat
  /\ MaxOpened \in Nat
  /\ Borrowers \intersect Admins = {}
  /\ NoThread \notin Threads

VARIABLES
  exists,           \* connectionPool # null
  pool,             \* connectionPool: the wrappers, in order
  conn,             \* WrapperConnection.connection
  busy,             \* WrapperConnection.busy
  maxConnections,   \* the field, lowered to the driver's limit
  status,           \* of every JDBC connection
  opened,           \* how many connections the driver has opened
  monitor,          \* the thread in a synchronized method
  at,               \* the Enumeration of that thread: the next position
  stage,            \* where each thread is
  held,             \* the connection each borrower has
  hit               \* the wrapper a returning borrower has found

poolVars == <<exists, pool, conn, busy, maxConnections, status, opened>>
vars == <<exists, pool, conn, busy, maxConnections, status, opened,
          monitor, at, stage, held, hit>>

Wrappers == Range(pool)

\* "lost": not closed, and in no wrapper, since a newConnection or a closeConnection
\* has failed.
Statuses == {"unused", "open", "broken", "closed", "lost"}

PoolTypes ==
  /\ exists \in BOOLEAN
  /\ pool \in Seq(Connections)
  /\ conn \in [Connections -> Connections]
  /\ busy \in [Connections -> BOOLEAN]
  /\ maxConnections \in Int
  /\ status \in [Connections -> Statuses]
  /\ opened \in 0..MaxOpened

ThreadTypes ==
  /\ monitor \in Threads \union {NoThread}
  /\ at \in Nat \ {0}
  /\ stage \in [Threads -> {"idle", "scan", "grow", "rescan", "inUse", "find",
                            "free", "refresh", "close"}]
  /\ held \in [Threads -> Connections \union {Nothing}]
  /\ hit \in [Threads -> Connections \union {Nothing}]
  /\ \A t \in Threads :
       /\ hit[t] # Nothing <=> stage[t] = "free"
       /\ held[t] # Nothing <=> stage[t] \in {"inUse", "find", "free"}
       /\ monitor = t <=> stage[t] \in {"scan", "grow", "rescan", "refresh", "close"}

TypeOK == PoolTypes /\ ThreadTypes

Goto(t, s) == stage' = [stage EXCEPT ![t] = s]

-----------------------------------------------------------------------------
(* Opening connections *)

\* newConnection lowers the limit when it opens the first connection of a pool.
Lowered(max) == IF DriverMax > 0 /\ max > DriverMax THEN DriverMax ELSE max

\* Mutant: the limit is tested after the connection has been added.
FitsOneMore(size, max) == max > 0 => size <= max + 1

Fits(size, max) == max > 0 => size <= max

\* The connections opened by a series of attempts: the lost ones come first.
Opening(old, first, lost, made) ==
  [c \in Connections |->
     IF c \in first + 1 .. first + lost THEN "lost"
     ELSE IF c \in first + lost + 1 .. first + lost + made THEN "open" ELSE old[c]]

\* createConnections(n): n attempts, and none once the pool has maxConnections
\* wrappers.  The driver refuses any of them (logged and skipped).  As long as the
\* pool is empty newConnection asks for the metadata of the connection it has just
\* opened: when that fails the connection is lost, open.
CreateConnections(n) ==
  \E lost, made \in 0..n :
    LET max == IF made > 0 /\ pool = <<>> THEN Lowered(maxConnections)
                                          ELSE maxConnections
    IN  /\ lost + made <= n
        /\ lost > 0 => pool = <<>>
        /\ opened + lost + made <= MaxOpened
        /\ made > 0 => Fits(Len(pool) + made, max)
        /\ pool' = pool \o [i \in 1..made |-> opened + lost + i]
        /\ opened' = opened + lost + made
        /\ status' = Opening(status, opened, lost, made)
        /\ maxConnections' = max

\* The constructor has run createPool.
Init ==
  /\ exists = TRUE
  /\ \E lost, made \in 0..InitialConnections :
       /\ lost + made <= InitialConnections
       /\ lost + made <= MaxOpened
       /\ maxConnections = IF made > 0 THEN Lowered(MaxConnections) ELSE MaxConnections
       /\ made > 0 => Fits(made, maxConnections)
       /\ pool = [i \in 1..made |-> lost + i]
       /\ opened = lost + made
       /\ status = Opening([c \in Connections |-> "unused"], 0, lost, made)
  /\ conn = [w \in Connections |-> w]
  /\ busy = [w \in Connections |-> FALSE]
  /\ monitor = NoThread
  /\ at = 1
  /\ stage = [t \in Threads |-> "idle"]
  /\ held = [t \in Threads |-> Nothing]
  /\ hit = [t \in Threads |-> Nothing]

\* The server, or the network, ends an open connection.
Break(c) ==
  /\ status[c] = "open"
  /\ status' = [status EXCEPT ![c] = "broken"]
  /\ UNCHANGED <<exists, pool, conn, busy, maxConnections, opened,
                 monitor, at, stage, held, hit>>

\* Mutant: the old connection is not closed.
ReplaceUnclosed(w, c) ==
  /\ opened < MaxOpened
  /\ c = opened + 1
  /\ opened' = c
  /\ status' = [status EXCEPT ![c] = "open"]
  /\ conn' = [conn EXCEPT ![w] = c]

\* closeConnection swallows the SQLException of close(): a connection that was not
\* closed before may be as it was, and lost when its wrapper lets go of it.
LeftBehind(c) == {"closed"} \union (IF status[c] = "closed" THEN {} ELSE {"lost"})

\* Wrapper w's connection is closed, if it can be, and a new one put in its place.
Replace(w, c) ==
  /\ opened < MaxOpened
  /\ c = opened + 1
  /\ opened' = c
  /\ \E old \in LeftBehind(conn[w]) :
       status' = [status EXCEPT ![conn[w]] = old, ![c] = "open"]
  /\ conn' = [conn EXCEPT ![w] = c]

\* The driver refuses to open the connection that would replace the old one, which
\* the wrapper keeps, closed or not.
ReplaceRefused(w) ==
  /\ status' \in {status, [status EXCEPT ![conn[w]] = "closed"]}
  /\ UNCHANGED <<opened, conn>>

-----------------------------------------------------------------------------
(* getConnection *)

Enter(t) ==
  /\ stage[t] = "idle"
  /\ monitor = NoThread
  /\ monitor' = t

Leave(t) ==
  /\ monitor' = NoThread
  /\ Goto(t, "idle")

\* Without a pool getConnection returns null and nothing changes.
GetConnection(t) ==
  /\ exists
  /\ Enter(t)
  /\ Goto(t, "scan")
  /\ UNCHANGED <<poolVars, at, held, hit>>

Idle == {i \in 1..Len(pool) : ~busy[pool[i]]}
FirstIdle == {i \in Idle : \A j \in Idle : i <= j}

\* Mutant: the wrapper is not marked.
NotMarked(w) == UNCHANGED busy

SetBusy(w) == busy' = [busy EXCEPT ![w] = TRUE]

\* Mutant: getConnection returns null when the driver refuses.
TestAndHandNull(t, w) ==
  \/ /\ status[conn[w]] \in {"open", "broken"}
     /\ held' = [held EXCEPT ![t] = conn[w]]
     /\ UNCHANGED <<status, opened, conn>>
  \/ /\ status[conn[w]] \in {"broken", "closed"}
     /\ ReplaceRefused(w)
     /\ UNCHANGED held

\* testConnection: an open connection passes, a closed one does not, and a broken
\* one is noticed by some databases.  Whatever fails is to be closed and replaced;
\* when the driver refuses, the borrower is handed the connection that failed.
TestAndHand(t, w) ==
  \/ /\ status[conn[w]] \in {"open", "broken"}
     /\ held' = [held EXCEPT ![t] = conn[w]]
     /\ UNCHANGED <<status, opened, conn>>
  \/ /\ status[conn[w]] \in {"broken", "closed"}
     /\ \/ /\ Replace(w, opened + 1)
           /\ held' = [held EXCEPT ![t] = opened + 1]
        \/ /\ ReplaceRefused(w)
           /\ held' = [held EXCEPT ![t] = conn[w]]

\* findFreeConnection finds the first idle wrapper and getConnection returns its
\* connection.  Only returns can interfere with the search, and a wrapper they free
\* behind it is as good as freed after it: the search is one step.
Find(t) ==
  /\ stage[t] \in {"scan", "rescan"}
  /\ \E i \in FirstIdle : SetBusy(pool[i]) /\ TestAndHand(t, pool[i])
  /\ monitor' = NoThread
  /\ Goto(t, "inUse")
  /\ UNCHANGED <<exists, pool, maxConnections, at, hit>>

\* findFreeConnection finds nothing: the pool is to grow, or, if it has just been
\* tried, getConnection sleeps with the monitor and starts again.
FindNothing(t) ==
  /\ Idle = {}
  /\ \/ stage[t] = "scan" /\ Goto(t, "grow")
     \/ stage[t] = "rescan" /\ Goto(t, "scan")
  /\ UNCHANGED <<poolVars, monitor, at, held, hit>>

Grow(t) ==
  /\ stage[t] = "grow"
  /\ CreateConnections(IncrementalConnections)
  /\ Goto(t, "rescan")
  /\ UNCHANGED <<exists, conn, busy, monitor, at, held, hit>>

-----------------------------------------------------------------------------
(* returnConnection *)

Done(t) ==
  /\ Goto(t, "idle")
  /\ held' = [held EXCEPT ![t] = Nothing]
  /\ hit' = [hit EXCEPT ![t] = Nothing]

\* Mutant: returnConnection is synchronized.
ReturnSynchronized(t) ==
  /\ stage[t] = "inUse"
  /\ monitor = NoThread
  /\ IF exists THEN Goto(t, "find") /\ UNCHANGED <<held, hit>>
               ELSE Done(t)
  /\ UNCHANGED <<poolVars, monitor, at>>

\* JDBCUtils.execute returns its connection in a finally block; the pool is
\* tested for null first, without the monitor.
ReturnConnection(t) ==
  /\ stage[t] = "inUse"
  /\ IF exists THEN Goto(t, "find") /\ UNCHANGED <<held, hit>>
               ELSE Done(t)
  /\ UNCHANGED <<poolVars, monitor, at>>

\* Mutant: whichever busy wrapper comes first.
AnyBusy(t) == {w \in Wrappers : busy[w]}

Matching(t) == {w \in Wrappers : conn[w] = held[t]}

\* The wrapper that carries the connection is looked for; only a match is kept.
ReturnFind(t) ==
  /\ stage[t] = "find"
  /\ exists
  /\ \E w \in Matching(t) :
       /\ hit' = [hit EXCEPT ![t] = w]
       /\ Goto(t, "free")
  /\ UNCHANGED <<poolVars, held, monitor, at>>

\* No wrapper matches, the pool has become null since the test (a
\* NullPointerException, logged by JDBCUtils), or closeConnectionPool takes
\* wrappers away under the enumeration.
ReturnMiss(t) ==
  /\ stage[t] = "find"
  /\ \/ ~exists
     \/ Matching(t) = {}
     \/ \E a \in Admins : stage[a] = "close"
  /\ Done(t)
  /\ UNCHANGED <<poolVars, monitor, at>>

\* setBusy(false) on the wrapper found, whatever it carries by now.
ReturnFree(t) ==
  /\ stage[t] = "free"
  /\ busy' = [busy EXCEPT ![hit[t]] = FALSE]
  /\ Done(t)
  /\ UNCHANGED <<exists, pool, conn, maxConnections, status, opened, monitor, at>>

-----------------------------------------------------------------------------
(* refreshConnections, closeConnectionPool, createPool *)

RefreshConnections(a) ==
  /\ exists
  /\ Enter(a)
  /\ Goto(a, "refresh")
  /\ at' = 1
  /\ UNCHANGED <<poolVars, held, hit>>

\* Mutant: a refreshed wrapper keeps its flag.
KeepBusy(w) == UNCHANGED busy

Freed(w) == busy' = [busy EXCEPT ![w] = FALSE]

\* The connection is closed even when its borrower has not returned it (after one
\* wait).  A refused replacement ends refreshConnections with the wrapper as it is.
RefreshNext(a) ==
  /\ stage[a] = "refresh"
  /\ at <= Len(pool)
  /\ \/ /\ Replace(pool[at], opened + 1)
        /\ Freed(pool[at])
        /\ at' = at + 1
        /\ UNCHANGED <<monitor, stage>>
     \/ /\ ReplaceRefused(pool[at])
        /\ Leave(a)
        /\ UNCHANGED <<busy, at>>
  /\ UNCHANGED <<exists, pool, maxConnections, held, hit>>

RefreshEnd(a) ==
  /\ stage[a] = "refresh"
  /\ at > Len(pool)
  /\ Leave(a)
  /\ UNCHANGED <<poolVars, at, held, hit>>

CloseConnectionPool(a) ==
  /\ exists
  /\ Enter(a)
  /\ Goto(a, "close")
  /\ at' = 1
  /\ UNCHANGED <<poolVars, held, hit>>

\* removeElement moves the later wrappers one place down, so the enumeration
\* passes over the next one.
CloseNext(a) ==
  /\ stage[a] = "close"
  /\ at <= Len(pool)
  /\ \E old \in LeftBehind(conn[pool[at]]) :
       status' = [status EXCEPT ![conn[pool[at]]] = old]
  /\ pool' = RemoveAt(pool, at)
  /\ at' = at + 1
  /\ UNCHANGED <<exists, conn, busy, maxConnections, opened, monitor, stage, held, hit>>

CloseEnd(a) ==
  /\ stage[a] = "close"
  /\ at > Len(pool)
  /\ exists' = FALSE
  /\ pool' = <<>>
  /\ Leave(a)
  /\ UNCHANGED <<conn, busy, maxConnections, status, opened, at, held, hit>>

\* createPool does nothing while there is a pool.
CreatePool(a) ==
  /\ ~exists
  /\ stage[a] = "idle"
  /\ monitor = NoThread
  /\ exists' = TRUE
  /\ CreateConnections(InitialConnections)
  /\ UNCHANGED <<conn, busy, monitor, at, stage, held, hit>>

-----------------------------------------------------------------------------
\* What a borrower does once it has asked for a connection.  JDBCUtils.execute
\* ends and returns the connection in every case.
Serving(t) ==
  \/ Find(t) \/ FindNothing(t) \/ Grow(t)
  \/ ReturnConnection(t) \/ ReturnFind(t) \/ ReturnMiss(t) \/ ReturnFree(t)

Administering(a) ==
  \/ RefreshConnections(a) \/ RefreshNext(a) \/ RefreshEnd(a)
  \/ CloseConnectionPool(a) \/ CloseNext(a) \/ CloseEnd(a) \/ CreatePool(a)

Next ==
  \/ \E c \in Connections : Break(c)
  \/ \E t \in Borrowers : GetConnection(t) \/ Serving(t)
  \/ \E a \in Admins : Administering(a)

Spec == Init /\ [][Next]_vars

\* The scheduler runs every thread, and a borrower's statement ends.
FairSpec == Spec /\ \A t \in Borrowers : WF_vars(Serving(t))

-----------------------------------------------------------------------------
(* Properties *)

\* The flag of WrapperConnection: the wrapper of a connection that a borrower has
\* is marked busy, so findFreeConnection does not hand it out again.
BusyIsInUse ==
  \A t \in Borrowers, w \in Wrappers :
    held[t] # Nothing /\ conn[w] = held[t] => busy[w]

\* The converse: no wrapper stays busy after its borrower has gone, whatever
\* refreshConnections did to it meanwhile.
NoBusyLeak ==
  (\A a \in Admins : stage[a] # "close") =>
    \A w \in Wrappers : busy[w] => \E t \in Borrowers : held[t] = conn[w]

\* returnConnection looks for a wrapper by its connection: no two carry the same.
DistinctConnections ==
  \A i, j \in 1..Len(pool) : i # j => conn[pool[i]] # conn[pool[j]]

\* The pool never outgrows the limit, which may become the driver's.
PoolBounded ==
  maxConnections > 0 => Len(pool) <= maxConnections

\* The connections the database has from this pool, and the lost ones among them.
Seen == {c \in Connections : status[c] \in {"open", "broken", "lost"}}
Lost == {c \in Connections : status[c] = "lost"}

\* As long as the pool is not closed, the database sees more connections than the
\* limit only by those that a newConnection or a closeConnection that failed has left
\* behind: nothing else opens one connection too many or forgets to close one.
OpenWithinLimit ==
  maxConnections > 0 => Cardinality(Seen) <= maxConnections + Cardinality(Lost)

\* A borrower between finding its wrapper and clearing the flag, whose connection
\* refreshConnections has taken out of the pool.
StaleReturn(t) == stage[t] = "free" /\ \A w \in Wrappers : conn[w] # held[t]

\* While refreshConnections leaves a wrapper alone, its flag is cleared only by the
\* borrower of its connection, or by a stale return: no other race takes a
\* connection from under its borrower.
FreedByBorrower ==
  [][\A w \in Wrappers :
       busy[w] /\ ~busy'[w] /\ conn'[w] = conn[w] =>
         \E t \in Borrowers :
           /\ held[t] # Nothing /\ held'[t] = Nothing
           /\ held[t] = conn[w] \/ StaleReturn(t)]_vars

\* closeConnectionPool, "close all the connections of the pool and empty it": when
\* there is no pool, no connection of it is open.
ClosedPoolIsClosed ==
  ~exists => \A c \in Connections : status[c] \notin {"open", "broken"}

\* getConnection gets out of its loop, unless there is not a single wrapper: the
\* borrowers can return their connections while it sleeps with the monitor.
GetServed ==
  \A t \in Borrowers : (monitor = t /\ pool # <<>>) ~> monitor # t

\* The pool lends a connection to one borrower at a time.
Lend == INSTANCE Lending WITH lent <- [b \in Borrowers |-> held[b]]

ImplementsLending == Lend!Spec

=============================================================================
