--------------------------------- MODULE DbPool ---------------------------------
(***************************************************************************)
(* The database connections of a worker process: the pool the plugin       *)
(* src/src/plugin/dbpool makes (CDbSqlcaPool, src/src/dbmysql/dbsqlca.cpp), *)
(* a connection (CMysqlSqlca, mysqldb.cpp), and the threads that use them   *)
(* as PullOneSeqAtrr of the sequence plugin does: select a row for update,  *)
(* update it, commit, or roll back when anything fails.                    *)
(*                                                                         *)
(* MySQL is external: one row, its lock, one transaction per session.  A   *)
(* session may be lost.  The client library reconnects by itself            *)
(* (MYSQL_OPT_RECONNECT), outside a transaction; the new session commits    *)
(* each statement, as autocommit is off only in the one Connect made.      *)
(***************************************************************************)
EXTENDS Integers, Sequences, FiniteSets

CONSTANTS
  Thread,          \* the threads that pull ids
  Conn,            \* connection objects
  MinConnections, MaxConnections,  \* what the configuration says
  Pulls,           \* bound: pulls per thread
  Losses,          \* bound: sessions lost
  Word, Long,      \* how many numbers 64 bits and MYSQL_TYPE_LONG hold
  MaxVal, Cycle,   \* max_val and cycle of the row
  None

ASSUME DbPoolAssumption ==
  /\ MinConnections \in Nat \ {0} /\ MaxConnections \in Nat \ {0}
  /\ Pulls \in Nat /\ Losses \in Nat /\ MaxVal \in Nat /\ Cycle \in BOOLEAN
  /\ Word \in Nat \ {0} /\ Long \in Nat \ {0}
  /\ None \notin Thread \cup Conn \cup Int

VARIABLES
  pool,            \* the plugin: loading, loaded, failed, unloaded
  idle,            \* m_deqDbSqlca
  inUse,           \* m_mapDbSqlca_Resume
  cur, min, max,   \* m_nCurConnections, m_nMinConnections, m_nMaxConnections
  old,             \* connections not used for five minutes
  up, auto, trans, \* sessions alive, that commit by themselves, in a transaction
  params,          \* per connection: statements whose parameters are bound
  row, pending, rowLock,  \* MySQL: cur_val, as a session would have it, its lock
  pc, my, stmt, read,     \* per thread: control, connection, statement, cur_val
  pulls,           \* pulls a thread may still make
  given,           \* history: how often each cur_val was given out
  lost             \* history: sessions lost

vars == <<pool, idle, inUse, cur, min, max, old, up, auto, trans, params, row, pending,
          rowLock, pc, my, stmt, read, pulls, given, lost>>
deques   == <<pool, idle, inUse, cur, min, max>>
sessions == <<up, auto, trans>>
table    == <<row, pending, rowLock>>
history  == <<pulls, given, lost>>

Idle == {idle[i] : i \in DOMAIN idle}
Exists == Idle \cup inUse

Goto(t, l) == pc' = [pc EXCEPT ![t] = l]

-----------------------------------------------------------------------------
(* A connection: CMysqlSqlca.                                              *)

ConnectAuto(c) ==                       \* defect: leaves autocommit on
  /\ c \notin Exists
  /\ up' = up \cup {c} /\ auto' = auto \cup {c} /\ trans' = trans \ {c}
  /\ params' = [params EXCEPT ![c] = <<>>]
  /\ old' = old \cup {c}

(* ConnectDB: a new object, never used, autocommit off.                    *)
Connect(c) ==
  /\ c \notin Exists
  /\ up' = up \cup {c} /\ auto' = auto \ {c} /\ trans' = trans \ {c}
  /\ params' = [params EXCEPT ![c] = <<>>]
  /\ old' = old \cup {c}                \* m_tmLastUseTime is 0

(* BindExecSql binds every integer as MYSQL_TYPE_LONG, which is signed; a   *)
(* result of %llu is read with all its bits.                               *)
Stored(v) == ((v + Long \div 2) % Long) - (Long \div 2)
Read(v) == v % Word

(* The library notices that c is lost: it reconnects, unless it was in a   *)
(* transaction or the server does not answer.                              *)
Reconnect(c) ==
  /\ c \notin trans
  /\ up' = up \cup {c} /\ auto' = auto \cup {c} /\ trans' = trans

StaysLost(c) == trans' = trans \ {c} /\ UNCHANGED <<up, auto>>

(* A call on a lost session fails; an error 2013 makes the code ping.       *)
FailsLost(c) ==
  \/ StaysLost(c)
  \/ up' = up \cup {c} /\ auto' = auto \cup {c} /\ trans' = trans \ {c}

(* MySQL forgets the transaction of c: rolled back, or the session ended.   *)
RolledBack(c) ==
  /\ pending' = [pending EXCEPT ![c] = None]
  /\ rowLock' = IF rowLock = c THEN None ELSE rowLock

(* Destory_stmthp                                                          *)
DestroyKeeps(c) == UNCHANGED params     \* defect: forgets ClearBindParam
Destroy(c) == params' = [params EXCEPT ![c] = <<>>]

-----------------------------------------------------------------------------
(* The pool: CDbSqlcaPool.  Its operations are sections under one lock.    *)

(* Load: minConnections are made, one after the other, or none.            *)
LoadConnect(c) ==
  /\ pool = "loading" /\ Len(idle) < MinConnections
  /\ Connect(c)
  /\ idle' = Append(idle, c)
  /\ UNCHANGED <<pool, inUse, cur, min, max, table, pc, my, stmt, read, history>>

LoadFails ==
  /\ pool = "loading" /\ Len(idle) < MinConnections
  /\ pool' = "failed" /\ idle' = <<>>
  /\ UNCHANGED <<inUse, cur, min, max, old, sessions, params, table, pc, my, stmt, read,
                 history>>

LoadDone ==
  /\ pool = "loading" /\ Len(idle) = MinConnections
  /\ pool' = "loaded"
  /\ cur' = MinConnections /\ min' = MinConnections
  /\ max' = IF MaxConnections < MinConnections THEN MinConnections ELSE MaxConnections
  /\ UNCHANGED <<idle, inUse, old, sessions, params, table, pc, my, stmt, read, history>>

(* GetIdleDbSqlca: the one used last, or a new one.                        *)
Got(t, c) ==
  /\ inUse' = inUse \cup {c}
  /\ my' = [my EXCEPT ![t] = c]
  /\ stmt' = [stmt EXCEPT ![t] = "select"]
  /\ Goto(t, "bind")

GetIdle(t) ==
  /\ pc[t] = "get" /\ idle # <<>>
  /\ idle' = Tail(idle)
  /\ Got(t, Head(idle))
  /\ UNCHANGED <<pool, cur, min, max, old, sessions, params, table, read, history>>

GetNew(t, c) ==
  /\ pc[t] = "get" /\ idle = <<>> /\ cur < max
  /\ Connect(c)
  /\ cur' = cur + 1
  /\ Got(t, c)
  /\ UNCHANGED <<pool, idle, min, max, table, read, history>>

(* Nothing for m_nTimeout, be it that connecting fails.                    *)
GetTimeOut(t) ==
  /\ pc[t] = "get" /\ idle = <<>>
  /\ Goto(t, "idle")
  /\ UNCHANGED <<deques, old, sessions, params, table, my, stmt, read, history>>

ReleaseKeeps(t) ==                      \* defect: stays in m_mapDbSqlca_Resume
  /\ pc[t] = "release"
  /\ idle' = <<my[t]>> \o idle
  /\ my' = [my EXCEPT ![t] = None]
  /\ Goto(t, "idle")
  /\ UNCHANGED <<pool, inUse, cur, min, max, old, sessions, params, table, stmt, read,
                 history>>

(* ReleaseDbsqlca                                                          *)
Release(t) ==
  /\ pc[t] = "release"
  /\ IF my[t] \in inUse THEN idle' = <<my[t]>> \o idle ELSE UNCHANGED idle
  /\ inUse' = inUse \ {my[t]}
  /\ my' = [my EXCEPT ![t] = None]
  /\ Goto(t, "idle")
  /\ UNCHANGED <<pool, cur, min, max, old, sessions, params, table, stmt, read, history>>

(* Heartbeat: one that nobody uses goes, the one unused the longest.       *)
Heartbeat ==
  LET c == idle[Len(idle)]
  IN  /\ pool = "loaded"
      /\ Len(idle) >= min /\ idle # <<>>
      /\ Len(idle) + Cardinality(inUse) > min /\ c \in old
      /\ idle' = SubSeq(idle, 1, Len(idle) - 1)
      /\ cur' = cur - 1
      /\ up' = up \ {c} /\ trans' = trans \ {c}
      /\ RolledBack(c)
      /\ UNCHANGED <<pool, inUse, min, max, old, auto, params, row, pc, my, stmt, read,
                     history>>

(* Unload deletes the pool and its connections, also those that are in use. *)
Unload ==
  /\ pool \in {"loaded", "failed"}
  /\ pool' = "unloaded" /\ idle' = <<>> /\ inUse' = {}
  /\ up' = {} /\ trans' = {}
  /\ UNCHANGED <<cur, min, max, old, auto, params, table, pc, my, stmt, read, history>>

-----------------------------------------------------------------------------
(* A thread: PullOneSeqAtrr.                                               *)

Ask(t) ==
  /\ pool = "loaded" /\ pc[t] = "idle" /\ pulls[t] > 0
  /\ pulls' = [pulls EXCEPT ![t] = @ - 1]
  /\ Goto(t, "get")
  /\ UNCHANGED <<deques, old, sessions, params, table, my, stmt, read, given, lost>>

(* BindIn, BindOut: behind those bound already, if any.                    *)
Bind(t) ==
  /\ pc[t] = "bind"
  /\ params' = [params EXCEPT ![my[t]] = Append(@, stmt[t])]
  /\ Goto(t, "prepare")
  /\ UNCHANGED <<deques, old, sessions, table, my, stmt, read, history>>

(* PrepareSql                                                              *)
Prepare(t) ==
  LET c == my[t]
  IN  /\ pc[t] = "prepare"
      /\ old' = old \ {c}
      /\ \/ /\ c \in up
            /\ Goto(t, "execute") /\ UNCHANGED <<sessions, params>>
         \/ /\ c \notin up
            /\ Reconnect(c)
            /\ Goto(t, "execute") /\ UNCHANGED params
         \/ /\ c \notin up
            /\ FailsLost(c)
            /\ Goto(t, "rollback") /\ Destroy(c)
  /\ UNCHANGED <<deques, table, my, stmt, read, history>>

ExecuteRetries(t) ==                    \* defect: tries a lost session for ever
  LET c == my[t]
  IN  /\ pc[t] = "execute"
      /\ c \in up /\ rowLock \notin {None, c} /\ UNCHANGED sessions
      /\ Destroy(c)
      /\ Goto(t, "rollback")
      /\ UNCHANGED <<deques, old, table, my, stmt, read, history>>

(* The execution waits for the row; the wait ends with an error at last.   *)
ExecuteFails(t) ==
  LET c == my[t]
  IN  /\ pc[t] = "execute"
      /\ IF c \in up THEN rowLock \notin {None, c} /\ UNCHANGED sessions ELSE StaysLost(c)
      /\ Destroy(c)
      /\ Goto(t, "rollback")
      /\ UNCHANGED <<deques, old, table, my, stmt, read, history>>

Executes(t, s) == /\ pc[t] = "execute" /\ stmt[t] = s
                  /\ my[t] \in up /\ rowLock \in {None, my[t]}

Begun(c) == IF c \in auto THEN UNCHANGED <<rowLock, trans>>
            ELSE rowLock' = c /\ trans' = trans \cup {c}

(* Past max_val it goes on or fails, as cycle says.                        *)
OverMax(t) == read'[t] + 1 > MaxVal /\ ~Cycle

ExecuteSelect(t) ==
  /\ Executes(t, "select")
  /\ read' = [read EXCEPT ![t] = Read(row)]
  /\ stmt' = [stmt EXCEPT ![t] = "update"]
  /\ Begun(my[t]) /\ Destroy(my[t])
  /\ Goto(t, IF OverMax(t) THEN "rollback" ELSE "bind")
  /\ UNCHANGED <<deques, old, up, auto, row, pending, my, history>>

ExecuteUpdate(t) ==
  LET c == my[t]
      value == Stored(read[t] + 1)
  IN  /\ Executes(t, "update")
      /\ IF c \in auto THEN row' = value /\ UNCHANGED pending
         ELSE pending' = [pending EXCEPT ![c] = value] /\ UNCHANGED row
      /\ Begun(c) /\ Destroy(c)
      /\ Goto(t, "commit")
      /\ UNCHANGED <<deques, old, up, auto, my, stmt, read, history>>

(* Nobody looks at the result of a commit.                                 *)
Commit(t) ==
  LET c == my[t]
  IN  /\ pc[t] = "commit"
      /\ \/ /\ c \in up
            /\ row' = IF pending[c] = None THEN row ELSE pending[c]
            /\ trans' = trans \ {c} /\ UNCHANGED <<up, auto>>
         \/ /\ c \notin up /\ UNCHANGED row
            /\ StaysLost(c) \/ Reconnect(c)
      /\ RolledBack(c)
      /\ given' = [given EXCEPT ![read[t]] = @ + 1]
      /\ Goto(t, "release")
      /\ UNCHANGED <<deques, old, params, my, stmt, read, pulls, lost>>

Rollback(t) ==
  LET c == my[t]
  IN  /\ pc[t] = "rollback"
      /\ \/ c \in up /\ trans' = trans \ {c} /\ UNCHANGED <<up, auto>>
         \/ c \notin up /\ (StaysLost(c) \/ Reconnect(c))
      /\ RolledBack(c)
      /\ Goto(t, "release")
      /\ UNCHANGED <<deques, old, params, row, my, stmt, read, history>>

-----------------------------------------------------------------------------
(* Time, and MySQL.                                                        *)

FiveMinutes(c) ==
  /\ c \in Idle \ old
  /\ old' = old \cup {c}
  /\ UNCHANGED <<deques, sessions, params, table, pc, my, stmt, read, history>>

Lose(c) ==
  /\ lost < Losses /\ c \in up
  /\ lost' = lost + 1
  /\ up' = up \ {c}
  /\ RolledBack(c)
  /\ UNCHANGED <<deques, old, auto, trans, params, row, pc, my, stmt, read, pulls, given>>

-----------------------------------------------------------------------------
Init ==
  /\ pool = "loading" /\ idle = <<>> /\ inUse = {}
  /\ cur = 0 /\ min = MinConnections /\ max = MaxConnections
  /\ old = {} /\ up = {} /\ auto = {} /\ trans = {}
  /\ params = [c \in Conn |-> <<>>]
  /\ row = 0 /\ pending = [c \in Conn |-> None] /\ rowLock = None
  /\ pc = [t \in Thread |-> "idle"]
  /\ my = [t \in Thread |-> None]
  /\ stmt = [t \in Thread |-> "select"]
  /\ read = [t \in Thread |-> 0]
  /\ pulls = [t \in Thread |-> Pulls]
  /\ given = [v \in 0 .. Word - 1 |-> 0]
  /\ lost = 0

Get(t) == GetIdle(t) \/ GetTimeOut(t) \/ \E c \in Conn : GetNew(t, c)

Pull(t) == \/ Get(t) \/ Bind(t) \/ Prepare(t)
           \/ ExecuteSelect(t) \/ ExecuteUpdate(t) \/ ExecuteFails(t)
           \/ Commit(t) \/ Rollback(t) \/ Release(t)

Load == LoadFails \/ LoadDone \/ \E c \in Conn : LoadConnect(c)

(* The worker process calls Unload when the threads have ended.             *)
Next == \/ Load \/ Heartbeat
        \/ Unload /\ \A t \in Thread : pc[t] = "idle" /\ pulls[t] = 0
        \/ \E t \in Thread : Ask(t) \/ Pull(t)
        \/ \E c \in Conn : FiveMinutes(c) \/ Lose(c)

Spec == Init /\ [][Next]_vars

-----------------------------------------------------------------------------
(* Properties *)

(* The variables stay in their ranges.                                     *)
TypeOK ==
  /\ pool \in {"loading", "loaded", "failed", "unloaded"}
  /\ idle \in Seq(Conn) /\ inUse \subseteq Conn
  /\ cur \in Nat /\ min \in Nat /\ max \in Nat
  /\ old \subseteq Conn /\ up \subseteq Conn /\ auto \subseteq Conn /\ trans \subseteq Conn
  /\ params \in [Conn -> Seq({"select", "update"})]
  /\ row \in Int /\ pending \in [Conn -> Int \cup {None}] /\ rowLock \in Conn \cup {None}
  /\ pc \in [Thread -> {"idle", "get", "bind", "prepare", "execute", "commit", "rollback",
                        "release"}]
  /\ my \in [Thread -> Conn \cup {None}]
  /\ stmt \in [Thread -> {"select", "update"}]
  /\ read \in [Thread -> 0 .. Word - 1]
  /\ pulls \in [Thread -> 0 .. Pulls]
  /\ given \in [0 .. Word - 1 -> Nat]
  /\ lost \in 0 .. Losses

(* A connection is in the deque once, or in the map, and a thread has one  *)
(* of the map that no other thread has: two threads never talk over one    *)
(* session (CDbSqlcaPool hands out pointers, nothing else keeps them apart).*)
Busy(t) == pc[t] \notin {"idle", "get"}
OneUser ==
  /\ \A i, j \in DOMAIN idle : idle[i] = idle[j] => i = j
  /\ Idle \cap inUse = {}
  /\ \A t \in Thread : Busy(t) => my[t] \in inUse
  /\ \A t, u \in Thread : Busy(t) /\ Busy(u) /\ my[t] = my[u] => t = u

(* A statement is executed with its own parameters and no others, also     *)
(* after one that failed half-way.                                         *)
OwnParams == \A t \in Thread : pc[t] = "execute" => params[my[t]] = <<stmt[t]>>

(* No cur_val is given out twice (src/README.md:26: a system that generates *)
(* globally unique ids).                                                   *)
Unique == \A v \in DOMAIN given : given[v] <= 1

(* As long as no session is lost, the row's lock keeps them unique.        *)
UniqueUnlessLost == lost = 0 => Unique

=============================================================================
