----------------------------- MODULE MCStorage -----------------------------
(***************************************************************************)
(* The database clients, one at a time: `which' names the component that   *)
(* runs, and the others keep their initial states.                         *)
(***************************************************************************)
EXTENDS Integers, Sequences, FiniteSets, TLC

CONSTANTS Users, Conns, PoolSize, Dbs, Home, MaxItems, Tries, MaxFaults,
          Slots, Columns, Values, Texts, MaxRows, MaxRuns,
          Clients, Redises, TypeOf, Attempts, MaxCalls, MaxCuts,
          m_size, Jobs

VARIABLES conn, m_conns, m_isStart, user, stored, faults, told, excused,
          m_binds, bound, wide, errno, sent, res, runs,
          m_passwd, m_datas, rconn, client, cuts,
          thr, pool, checks, hands, vec, job, stopping,
          which

M == INSTANCE MySQL
S == INSTANCE MySQLStmt
R == INSTANCE RedisPool
F == INSTANCE FoxPool

CONSTANTS u1, u2, r1, r2, r3
\* u1 may run a transaction of two statements while u2 does one thing.
Bounds == u1 :> 2 @@ u2 :> 1
Types == r1 :> "redis" @@ r2 :> "redis_cluster" @@ r3 :> "fox_redis"
Fields == <<[type |-> "longlong", length |-> 8], [type |-> "datetime", length |-> 19], [type |-> "text", length |-> 3]>>

\* What the proofs rest on: a FoxThreadPool has threads, and callbacks can be counted;
\* sizes are numbers, and the server declares a number or a time no longer than it is.
ASSUME PoolAssumption == m_size \in Nat \ {0} /\ IsFiniteSet(Jobs)
ASSUME StmtAssumption ==
    /\ Texts \subseteq Nat
    /\ \A k \in DOMAIN Columns :
          /\ Columns[k].length \in Nat
          /\ Columns[k].type \in DOMAIN S!Width => Columns[k].length <= S!Width[Columns[k].type]
          /\ Columns[k].type = "datetime" => Columns[k].length <= 40

mysqlVars == <<conn, m_conns, m_isStart, user, stored, faults, told, excused>>
stmtVars == <<m_binds, bound, wide, errno, sent, res, runs>>
redisVars == <<m_passwd, m_datas, rconn, client, cuts>>
poolVars == <<thr, pool, checks, hands, vec, job, stopping>>
vars == <<mysqlVars, stmtVars, redisVars, poolVars, which>>

Init == /\ which \in {"mysql", "stmt", "redis", "pool"}
        /\ M!Init /\ S!StmtInit
        /\ R!RPoolInit /\ (IF which = "redis" THEN m_passwd => \A r \in Redises : ~rconn[r].err
                             ELSE \A r \in Redises : ~rconn[r].err /\ ~m_passwd)
        /\ F!PoolInit /\ (which # "pool" => pool.m_advance)

\* u1 alone keeps a connection for use(): u2 would only do it in the other order.
Next == \/ which = "mysql" /\ M!Next /\ user'[u2].pc # "has" /\ UNCHANGED <<stmtVars, redisVars, poolVars, which>>
        \/ which = "stmt" /\ S!StmtNext /\ UNCHANGED <<mysqlVars, redisVars, poolVars, which>>
        \/ which = "redis" /\ R!RPoolNext /\ UNCHANGED <<mysqlVars, stmtVars, poolVars, which>>
        \/ which = "pool" /\ F!PoolNext /\ UNCHANGED <<mysqlVars, stmtVars, redisVars, which>>

Spec == Init /\ [][Next]_vars

\* A pooled connection has one owner, the pools keep their limits, and what a client
\* gets is its own: its database, its answers (MySQLManager, RedisManager).
PoolsSound == /\ which = "mysql" => M!PoolSound
              /\ which = "redis" => R!RedisSound
\* Work is stored as the caller was told, once (MySQLTransaction, MySQLUtil).
WorkKept == which = "mysql" => M!WorkKept
\* A prepared statement sends what was bound last (MySQLStmt).
StmtHonest == which = "stmt" => S!StmtHonest
\* A FoxThreadPool gives each callback to one free thread (FoxThreadPool::check).
PoolDeals == which = "pool" => F!PoolDeals
=============================================================================
