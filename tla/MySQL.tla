------------------------------- MODULE MySQL -------------------------------
(***************************************************************************)
(* The pool of MySQL connections (db/mysql.cpp): MySQLManager hands a      *)
(* connection to one user at a time, checks one that was idle or failed,   *)
(* reconnects it or gives it up; the user executes statements, alone       *)
(* (MySQLUtil, with retries) or in a transaction, and the shared pointer's *)
(* deleter puts the connection back.                                       *)
(*                                                                         *)
(* A statement is an item of work; `stored' counts how often the server    *)
(* has made it durable.  What the server does with a session (sess) is     *)
(* external: BEGIN commits what is open, a lost session rolls back, and an *)
(* answer may be lost after the statement took effect.  A connection whose *)
(* m_lastUsedTime is less than 5 s ago is "fresh"; checkConnection() finds *)
(* that some of the "old" ones are over its 30 s.                          *)
(***************************************************************************)
EXTENDS Integers, Sequences, FiniteSets, SequencesExt

CONSTANTS Users,      \* fibers that use the pool
          Conns,      \* connection objects that may exist
          PoolSize,   \* parameter "pool" of the database
          Dbs, Home,  \* database names; Home is the parameter "dbname"
          MaxItems,   \* bound: statements, and connections held, per user (at most 3)
          Tries,      \* the count given to TryExecute()
          MaxFaults   \* bound: refused statements and lost sessions

VARIABLES conn,       \* the connection objects, each with its server session
          m_conns,    \* the pool of the database
          m_isStart,  \* the timer of checkConnection() runs
          user,       \* what each user holds and does
          stored,     \* [Items -> Nat]: how often the server made an item durable
          faults,     \* faults so far
          told,       \* history: what the caller was told about each item
          excused     \* history: items the two named weaknesses may lose or repeat

vars == <<conn, m_conns, m_isStart, user, stored, faults, told, excused>>

Items == {i \in Users \X (1 .. 3) : i[2] <= MaxItems[i[1]]}
NoConn == [open |-> FALSE]
NoTx == [auto |-> FALSE, m_isFinished |-> TRUE, m_hasError |-> FALSE, items |-> {}]
Idle == [pc |-> "idle", sql |-> "none", c |-> "none", left |-> 0, want |-> "any", tx |-> NoTx]

\* A server session as mysql_real_connect() opens it.
NewSession == [alive |-> TRUE, tx |-> FALSE, work |-> {}, db |-> Home]
DeadSession(s) == [s EXCEPT !.alive = FALSE, !.tx = FALSE, !.work = {}]

(* The server: what a statement does to the session and what it stores. *)
Served(s, stmt) ==
    CASE stmt = <<"BEGIN">>    -> [s |-> [s EXCEPT !.tx = TRUE, !.work = {}], add |-> s.work]
      [] stmt = <<"COMMIT">>   -> [s |-> [s EXCEPT !.tx = FALSE, !.work = {}], add |-> s.work]
      [] stmt = <<"ROLLBACK">> -> [s |-> [s EXCEPT !.tx = FALSE, !.work = {}], add |-> {}]
      [] stmt \in Items    -> IF s.tx THEN [s |-> [s EXCEPT !.work = @ \cup {stmt}], add |-> {}]
                                      ELSE [s |-> s, add |-> {stmt}]
      [] OTHER             -> [s |-> s, add |-> {}]

(* mysql_query(): success, a refusal (of anything but BEGIN, COMMIT and    *)
(* ROLLBACK), or a session lost before or after the statement took effect. *)
MysqlQuery(s, stmt) ==
    IF ~s.alive THEN {[s |-> s, add |-> {}, rc |-> 1, fault |-> 0]}
    ELSE {[s |-> Served(s, stmt).s, add |-> Served(s, stmt).add, rc |-> 0, fault |-> 0]}
         \cup {r \in {[s |-> s, add |-> {}, rc |-> 1, fault |-> 1],
                      [s |-> DeadSession(s), add |-> {}, rc |-> 1, fault |-> 1],
                      [s |-> DeadSession(s), add |-> Served(s, stmt).add, rc |-> 1, fault |-> 1]} :
                  /\ faults < MaxFaults
                  /\ r.s.alive => stmt \in Items \cup {<<"SELECT">>, <<"USE">>}}

-----------------------------------------------------------------------------
(* class MySQL *)

\* Mutant: the client library reconnects by itself (MYSQL_OPT_RECONNECT left on).
ExecuteReconnecting(m, stmt) ==
    {[m |-> [m EXCEPT !.sess = r.s, !.m_hasError = r.rc # 0],
      add |-> r.add, rc |-> r.rc, fault |-> r.fault] :
        r \in MysqlQuery(IF m.sess.alive THEN m.sess ELSE NewSession, stmt)}

(* MySQL::execute(): m_hasError says how the last statement went. *)
Execute(m, stmt) ==
    {[m |-> [m EXCEPT !.sess = r.s, !.m_hasError = r.rc # 0],
      add |-> r.add, rc |-> r.rc, fault |-> r.fault] : r \in MysqlQuery(m.sess, stmt)}

(* my_mysql_query(): a statement without a result set is an error too. *)
MyMysqlQuery(s) ==
    MysqlQuery(s, <<"SELECT">>)
    \cup {r \in {[s |-> s, add |-> {}, rc |-> 1, fault |-> 1]} : s.alive /\ faults < MaxFaults}

(* MySQL::query() *)
Query(m) ==
    {[m |-> [m EXCEPT !.sess = r.s, !.m_hasError = r.rc # 0], fault |-> r.fault] : r \in MyMysqlQuery(m.sess)}

(* mysql_init(): a new client handle, connected, or none. *)
MysqlInit == {NewSession, DeadSession(NewSession)}

(* MySQL::connect(): nothing to do for a handle without error. The name in *)
(* m_dbname is left as it was.                                             *)
Connect(m) ==
    IF m.sess.alive /\ ~m.m_hasError THEN {[m |-> m, rc |-> 0]}
    ELSE {[m |-> [m EXCEPT !.sess = i, !.m_hasError = ~i.alive, !.stale = m.m_dbname # "none"],
           rc |-> IF i.alive THEN 0 ELSE 1] : i \in MysqlInit}

(* MySQL::MySQL(). `stale' is history: a name chosen on an earlier session. *)
NewMySQL == [open |-> TRUE, m_hasError |-> FALSE, age |-> "fresh", m_dbname |-> "none",
             stale |-> FALSE, leaked |-> FALSE, sess |-> DeadSession(NewSession)]

IsNeedCheck(m) == ~(m.age = "fresh" /\ ~m.m_hasError)

Ping(m) == [m EXCEPT !.m_hasError = ~m.sess.alive]

(* MySQL::use() *)
Use(m, db) ==
    IF m.m_dbname = db THEN {[m |-> m, rc |-> 0, fault |-> 0]}
    ELSE {[m |-> IF r.rc = 0
                 THEN [m EXCEPT !.sess.db = db, !.m_dbname = db, !.m_hasError = FALSE, !.stale = FALSE]
                 ELSE [m EXCEPT !.sess = r.s, !.m_dbname = "none", !.m_hasError = TRUE],
           rc |-> r.rc, fault |-> r.fault] : r \in MysqlQuery(m.sess, <<"USE">>)}

-----------------------------------------------------------------------------
(* MySQLManager *)

(* What get() makes of the connection at the head of the pool: as it is, *)
(* pinged, reconnected, or deleted (rc is not 0).                        *)
Checked(m) ==
    IF ~IsNeedCheck(m) THEN {[m |-> m, rc |-> 0]}
    ELSE IF m.sess.alive THEN {[m |-> Ping(m), rc |-> 0]}
    ELSE Connect(Ping(m))

(* get(): the outcomes for user u, who goes on at pc `next' with it. *)
Get(u, next, fail) ==
    /\ m_isStart' = TRUE /\ UNCHANGED faults
    /\ \/ /\ m_conns # <<>>
          /\ m_conns' = Tail(m_conns)
          /\ \E r \in Checked(conn[Head(m_conns)]) :
                /\ conn' = [conn EXCEPT ![Head(m_conns)] =
                               IF r.rc = 0 THEN [r.m EXCEPT !.age = "fresh"] ELSE NoConn]
                /\ user' = [user EXCEPT ![u] =
                               IF r.rc = 0 THEN [next EXCEPT !.c = Head(m_conns)] ELSE fail]
       \/ /\ m_conns = <<>>
          /\ \E c \in Conns : ~conn[c].open
          /\ LET c == CHOOSE x \in Conns : ~conn[x].open
             IN  \E r \in Connect(NewMySQL) :
                    /\ conn' = [conn EXCEPT ![c] = IF r.rc = 0 THEN r.m ELSE NoConn]
                    /\ user' = [user EXCEPT ![u] = IF r.rc = 0 THEN [next EXCEPT !.c = c] ELSE fail]
          /\ UNCHANGED m_conns

\* Mutant: room is tested against the size the pool may have after the push.
FreeMySQLOne(c, m) ==
    IF Len(m_conns) <= PoolSize
    THEN m_conns' = Append(m_conns, c) /\ conn' = [conn EXCEPT ![c] = m]
    ELSE UNCHANGED m_conns /\ conn' = [conn EXCEPT ![c] = NoConn]

(* freeMySQL(): back to the pool while there is room, otherwise deleted.  *)
(* Closing the session of a deleted connection rolls its work back.       *)
FreeMySQL(c, m) ==
    IF Len(m_conns) < PoolSize
    THEN m_conns' = Append(m_conns, c) /\ conn' = [conn EXCEPT ![c] = m]
    ELSE UNCHANGED m_conns /\ conn' = [conn EXCEPT ![c] = NoConn]

(* checkConnection(30): the pool gives up what nobody took for 30 s. *)
CheckConnection ==
    /\ m_isStart
    /\ \E gone \in SUBSET {c \in Range(m_conns) : conn[c].age = "old"} \ {{}} :
          /\ m_conns' = SelectSeq(m_conns, LAMBDA c : c \notin gone)
          /\ conn' = [c \in Conns |-> IF c \in gone THEN NoConn ELSE conn[c]]
    /\ UNCHANGED <<m_isStart, user, stored, faults, told, excused>>

-----------------------------------------------------------------------------
(* MySQLUtil: TryExecute() and TryQuery() with Tries attempts; Execute() and *)
(* Query() are one attempt.                                                  *)

NextItem(u) == <<u, 1 + Cardinality({i \in Items : i[1] = u /\ told[i] # "new"})>>
Store(add) == stored' = [i \in Items |-> IF i \in add THEN stored[i] + 1 ELSE stored[i]]

TryBegin(u) ==
    /\ user[u].pc = "idle" /\ NextItem(u) \in Items
    /\ \E n \in {1, Tries}, sql \in {"execute", "query"} :
          user' = [user EXCEPT ![u] = [Idle EXCEPT !.pc = "try", !.left = n, !.sql = sql]]
    /\ told' = [told EXCEPT ![NextItem(u)] = "running"]
    /\ UNCHANGED <<conn, m_conns, m_isStart, stored, faults, excused>>

Running(u) == CHOOSE i \in Items : i[1] = u /\ told[i] = "running"

\* An attempt without a connection is a failed attempt.
TryGet(u) ==
    /\ user[u].pc = "try" /\ user[u].c = "none" /\ user[u].left > 0
    /\ Get(u, user[u], [user[u] EXCEPT !.left = @ - 1])
    /\ UNCHANGED <<stored, told, excused>>

(* An attempt, and the connection's return when the temporary goes. *)
TryExecute(u) ==
    /\ user[u].pc = "try" /\ user[u].c # "none" /\ user[u].sql = "execute"
    /\ \E r \in Execute(conn[user[u].c], Running(u)) :
          /\ FreeMySQL(user[u].c, r.m)
          /\ Store(r.add) /\ faults' = faults + r.fault
          /\ user' = [user EXCEPT ![u] = IF r.rc = 0 THEN Idle ELSE [@ EXCEPT !.c = "none", !.left = @ - 1]]
          /\ told' = [told EXCEPT ![Running(u)] = IF r.rc = 0 THEN "done" ELSE @]
          \* history: executed in a transaction somebody left open, or an answer was lost
          /\ excused' = IF conn[user[u].c].leaked \/ (r.rc # 0 /\ r.add # {})
                        THEN excused \cup {Running(u)} ELSE excused
    /\ UNCHANGED m_isStart

TryQuery(u) ==
    /\ user[u].pc = "try" /\ user[u].c # "none" /\ user[u].sql = "query"
    /\ \E r \in Query(conn[user[u].c]) :
          /\ FreeMySQL(user[u].c, r.m) /\ faults' = faults + r.fault
          /\ user' = [user EXCEPT ![u] = IF ~r.m.m_hasError THEN Idle ELSE [@ EXCEPT !.c = "none", !.left = @ - 1]]
          /\ told' = [told EXCEPT ![Running(u)] = IF ~r.m.m_hasError THEN "read" ELSE @]
    /\ UNCHANGED <<m_isStart, stored, excused>>

TryEnd(u) ==
    /\ user[u].pc = "try" /\ user[u].c = "none" /\ user[u].left = 0
    /\ user' = [user EXCEPT ![u] = Idle]
    /\ told' = [told EXCEPT ![Running(u)] = "failed"]
    /\ UNCHANGED <<conn, m_conns, m_isStart, stored, faults, excused>>

-----------------------------------------------------------------------------
(* A user that keeps a connection: use(), query(), and letting it go. *)

Hold(u) ==
    /\ user[u].pc = "idle" /\ NextItem(u) \in Items
    /\ Get(u, [Idle EXCEPT !.pc = "has"], Idle)
    /\ told' = [told EXCEPT ![NextItem(u)] = "held"]
    /\ UNCHANGED <<stored, excused>>

HoldUse(u) ==
    /\ user[u].pc = "has"
    /\ \E db \in Dbs : \E r \in Use(conn[user[u].c], db) :
          /\ conn' = [conn EXCEPT ![user[u].c] = r.m] /\ faults' = faults + r.fault
          /\ user' = [user EXCEPT ![u].want = IF r.rc = 0 THEN db ELSE "any"]
    /\ UNCHANGED <<m_conns, m_isStart, stored, told, excused>>

HoldQuery(u) ==
    /\ user[u].pc = "has"
    /\ \E r \in Query(conn[user[u].c]) :
          conn' = [conn EXCEPT ![user[u].c] = r.m] /\ faults' = faults + r.fault
    /\ UNCHANGED <<m_conns, m_isStart, user, stored, told, excused>>

HoldFree(u) ==
    /\ user[u].pc = "has" /\ FreeMySQL(user[u].c, conn[user[u].c])
    /\ user' = [user EXCEPT ![u] = Idle]
    /\ UNCHANGED <<m_isStart, stored, faults, told, excused>>

-----------------------------------------------------------------------------
(* class MySQLTransaction *)

NewTx(auto) == [auto |-> auto, m_isFinished |-> FALSE, m_hasError |-> FALSE, items |-> {}]

(* MySQLTransaction::execute() *)
TxExecute(t, m, stmt) ==
    IF t.m_isFinished THEN {[t |-> t, m |-> m, add |-> {}, rc |-> 1, fault |-> 0]}
    ELSE {[t |-> [t EXCEPT !.m_hasError = @ \/ r.rc # 0], m |-> r.m,
           add |-> r.add, rc |-> r.rc, fault |-> r.fault] : r \in Execute(m, stmt)}

Skipped(t, m, rc) == {[t |-> t, m |-> m, add |-> {}, rc |-> rc, fault |-> 0]}
Finished(outcomes) == {[r EXCEPT !.t.m_isFinished = (r.rc = 0), !.m.leaked = @ /\ r.rc # 0] : r \in outcomes}

(* MySQLTransaction::commit(): nothing after an error. *)
Commit(t, m) ==
    IF t.m_isFinished \/ t.m_hasError THEN Skipped(t, m, IF t.m_hasError THEN 1 ELSE 0)
    ELSE Finished(TxExecute(t, m, <<"COMMIT">>))

(* MySQLTransaction::rollback() *)
Rollback(t, m) ==
    IF t.m_isFinished THEN Skipped(t, m, 0) ELSE Finished(TxExecute(t, m, <<"ROLLBACK">>))

(* The destructor. *)
Destroy(t, m) == IF t.auto THEN Commit(t, m) ELSE Rollback(t, m)

\* History: what the end of transaction t, by r, tells about its items.
Told(t, r, word) ==
    told' = [i \in Items |-> IF i \notin t.items \/ t.m_isFinished \/ told[i] = "failed" THEN told[i]
                             ELSE IF r.rc = 0 THEN word
                             ELSE IF t.m_hasError THEN "undone" ELSE "failed"]

(* openTransaction(): get(), then Create(), whose BEGIN may fail. *)
OpenTransaction(u) ==
    /\ user[u].pc = "idle" /\ NextItem(u) \in Items
    /\ \E auto \in BOOLEAN : Get(u, [Idle EXCEPT !.pc = "begin", !.tx = NewTx(auto)], Idle)
    /\ UNCHANGED <<stored, told, excused>>

TxCreate(u) ==
    LET c == user[u].c
    IN  /\ user[u].pc = "begin"
        /\ \E r \in TxExecute(user[u].tx, conn[c], <<"BEGIN">>) :
              \/ /\ r.rc = 0 /\ Store(r.add) /\ faults' = faults + r.fault
                 /\ conn' = [conn EXCEPT ![c] = [r.m EXCEPT !.leaked = FALSE]]
                 /\ user' = [user EXCEPT ![u].pc = "tx", ![u].tx = r.t]
                 /\ UNCHANGED m_conns
              \/ /\ r.rc # 0
                 /\ \E d \in Destroy(r.t, r.m) :
                       /\ Store(r.add \cup d.add) /\ faults' = faults + r.fault + d.fault
                       /\ FreeMySQL(c, [d.m EXCEPT !.leaked = @ \/ (r.t.auto /\ d.m.sess.tx)])
                 /\ user' = [user EXCEPT ![u] = Idle]
        /\ UNCHANGED <<m_isStart, told, excused>>

TxItem(u) ==
    /\ user[u].pc = "tx" /\ NextItem(u) \in Items
    /\ \E r \in TxExecute(user[u].tx, conn[user[u].c], NextItem(u)) :
          /\ conn' = [conn EXCEPT ![user[u].c] = r.m] /\ Store(r.add) /\ faults' = faults + r.fault
          /\ user' = [user EXCEPT ![u].tx = [r.t EXCEPT !.items = @ \cup {NextItem(u)}]]
          /\ told' = [told EXCEPT ![NextItem(u)] = IF r.rc = 0 THEN "open" ELSE "failed"]
    /\ UNCHANGED <<m_conns, m_isStart, excused>>

TxEnd(u) ==
    LET t == user[u].tx IN
    /\ user[u].pc = "tx"
    /\ \E word \in {"done", "undone"} :
       \E r \in IF word = "done" THEN Commit(t, conn[user[u].c]) ELSE Rollback(t, conn[user[u].c]) :
          /\ conn' = [conn EXCEPT ![user[u].c] = r.m] /\ Store(r.add) /\ faults' = faults + r.fault
          /\ user' = [user EXCEPT ![u].tx = r.t]
          /\ IF word = "done" /\ t.m_hasError THEN UNCHANGED told ELSE Told(t, r, word)
    /\ UNCHANGED <<m_conns, m_isStart, excused>>

\* The commit() of the destructor leaves the transaction open after an error:
\* its items, and what is executed on the connection next, are excused.
TxDestroy(u) ==
    LET t == user[u].tx IN
    /\ user[u].pc = "tx"
    /\ \E r \in Destroy(t, conn[user[u].c]) :
          LET leak == t.auto /\ t.m_hasError /\ r.m.sess.tx
          IN  /\ FreeMySQL(user[u].c, [r.m EXCEPT !.leaked = leak])
              /\ Store(r.add) /\ faults' = faults + r.fault
              /\ Told(t, r, IF t.auto THEN "done" ELSE "undone")
              /\ excused' = IF leak THEN excused \cup t.items ELSE excused
    /\ user' = [user EXCEPT ![u] = Idle]
    /\ UNCHANGED m_isStart

-----------------------------------------------------------------------------
(* The environment *)

\* The server closes a session (its idle timeout, a restart).
Kill == /\ faults < MaxFaults
        /\ \E c \in Conns : /\ conn[c].open /\ conn[c].sess.alive
                            /\ conn' = [conn EXCEPT ![c].sess = DeadSession(@)]
        /\ faults' = faults + 1
        /\ UNCHANGED <<m_conns, m_isStart, user, stored, told, excused>>

Pass == /\ \E c \in Conns : conn[c].open /\ conn[c].age = "fresh"
        /\ conn' = [c \in Conns |-> IF conn[c].open THEN [conn[c] EXCEPT !.age = "old"] ELSE conn[c]]
        /\ UNCHANGED <<m_conns, m_isStart, user, stored, faults, told, excused>>

Init == /\ conn = [c \in Conns |-> NoConn] /\ m_conns = <<>> /\ m_isStart = FALSE
        /\ user = [u \in Users |-> Idle] /\ stored = [i \in Items |-> 0]
        /\ faults = 0 /\ told = [i \in Items |-> "new"] /\ excused = {}

Next == \/ \E u \in Users : TryBegin(u) \/ TryGet(u) \/ TryExecute(u) \/ TryQuery(u) \/ TryEnd(u)
        \/ \E u \in Users : Hold(u) \/ HoldUse(u) \/ HoldQuery(u) \/ HoldFree(u)
        \/ \E u \in Users : OpenTransaction(u) \/ TxCreate(u) \/ TxItem(u) \/ TxEnd(u) \/ TxDestroy(u)
        \/ CheckConnection \/ Kill \/ Pass

Spec == Init /\ [][Next]_vars

-----------------------------------------------------------------------------
(* Properties *)

Held == {user[u].c : u \in Users} \ {"none"}

\* A connection object is in the pool once or with one user, never both, and
\* is deleted exactly when it is with neither; the pool keeps to its limit; and
\* the statements of a user whose use() returned true go to that database,
\* unless the connection was reconnected under an m_dbname chosen before.
PoolSound ==
    /\ IsInjective(m_conns) /\ Len(m_conns) <= PoolSize
    /\ \A u, v \in Users : u # v /\ user[u].c # "none" => user[u].c # user[v].c
    /\ Range(m_conns) \cap Held = {}
    /\ {c \in Conns : conn[c].open} = Range(m_conns) \cup Held
    /\ \A u \in Users : user[u].want # "any" =>
          LET m == conn[user[u].c] IN m.sess.db = user[u].want \/ m.stale

\* Whatever sessions and answers are lost, work reported as done (a plain
\* execute() or a commit() that returned success) is stored, work of a
\* transaction that was rolled back or given up after an error is not, and
\* nothing is stored twice: but for a retry by TryExecute() after a lost
\* answer, and for the transaction that ~MySQLTransaction leaves open when an
\* auto-commit transaction had an error.  A pooled session has no transaction
\* open but that one.
WorkKept ==
    /\ \A i \in Items \ excused : /\ told[i] = "done" => stored[i] = 1
                                  /\ told[i] = "undone" => stored[i] = 0
                                  /\ stored[i] <= 1
    /\ \A c \in Range(m_conns) : conn[c].sess.tx => conn[c].leaked
=============================================================================
