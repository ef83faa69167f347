----------------------------- MODULE RedisPool -----------------------------
(***************************************************************************)
(* RedisManager (db/redis.cpp) and the blocking clients Redis and          *)
(* RedisCluster: lists of connections by name, of which get() takes a      *)
(* blocking one out and freeRedis() puts it back, while an asynchronous    *)
(* one (module FoxRedis) stays in its list and is shared.                  *)
(*                                                                         *)
(* External: hiredis matches answers to commands by their order on the     *)
(* connection, refuses every call on a connection with an error, and       *)
(* redisReconnect() returns 0 for success.                                 *)
(***************************************************************************)
EXTENDS Integers, Sequences, FiniteSets, SequencesExt

CONSTANTS Clients,    \* users of the pool
          Redises,    \* the connections RedisManager::init() makes
          TypeOf,     \* [Redises -> {"redis", "redis_cluster", "fox_redis"}]
          Attempts,   \* the count given to TryCmd()
          MaxCalls,   \* bound: commands per client
          MaxCuts     \* bound: connections the server or the network ends

VARIABLES m_passwd,   \* the configuration has a password
          m_datas,    \* the lists: by the configured name, and by the empty one
          rconn,      \* the state of each connection
          client,     \* what each client holds and waits for
          cuts        \* connections ended so far

rpoolVars == <<m_passwd, m_datas, rconn, client, cuts>>

Name == "name"       \* the one name of the configuration
Empty == ""
Nobody == [r |-> "none", n |-> 0, left |-> 0, got |-> <<>>]
\* Mutant: every connection may have several users.
SharedAll(r) == TRUE

\* The clients that a FoxThread serves, one command after the other.
Shared(r) == TypeOf[r] \in {"fox_redis", "fox_redis_cluster"}

(* connect(): a context also when the server does not answer (err), and the  *)
(* password sent once. `m_name' is what setName() was given: nothing, for    *)
(* the blocking clients.                                                     *)
Connected(r) == [err |-> FALSE, authed |-> TRUE, idle |-> FALSE, line |-> <<>>, m_name |-> IF Shared(r) THEN Name ELSE Empty]

(* RedisManager::init(): every connection in the list of its name; the    *)
(* result of connect() is not looked at.                                  *)
RPoolInit ==
    /\ m_datas = [n \in {Name, Empty} |-> IF n = Name THEN SetToSeq(Redises) ELSE <<>>]
    /\ \E down \in {{}, Redises} : rconn = [r \in Redises |-> [Connected(r) EXCEPT !.err = r \in down]]
    /\ m_passwd \in BOOLEAN
    /\ client = [u \in Clients |-> Nobody] /\ cuts = 0

-----------------------------------------------------------------------------
(* Redis::reconnect(): redisReconnect()'s 0 for success read as false, and *)
(* the password not sent again.                                            *)
Reconnect(c) == {[c |-> [c EXCEPT !.err = FALSE, !.authed = ~m_passwd, !.line = <<>>], ok |-> FALSE],
                 [c |-> c, ok |-> TRUE]}

(* RedisCluster::reconnect() does nothing. *)
ReconnectCluster(c) == {[c |-> c, ok |-> TRUE]}

(* Redis::cmd(): a command and one answer, the oldest of the connection. *)
CmdOn(c, tok) ==
    IF c.err THEN {[c |-> c, got |-> <<>>, cut |-> 0]}
    ELSE {[c |-> [c EXCEPT !.line = Tail(Append(@, tok))], cut |-> 0,
           got |-> IF c.authed THEN Head(Append(c.line, tok)) ELSE <<>>]}
         \cup (IF cuts < MaxCuts THEN {[c |-> [c EXCEPT !.err = TRUE], got |-> <<>>, cut |-> 1]} ELSE {})

(* What get() does with a blocking connection: a ping after 30 s of no use, *)
(* and a reconnect when that fails.                                         *)
Checked(r, c) ==
    IF ~c.idle THEN {[c |-> c, ok |-> TRUE]}
    ELSE UNION {IF p.got # <<>> THEN {[c |-> p.c, ok |-> TRUE]}
                ELSE IF TypeOf[r] = "redis" THEN Reconnect(p.c) ELSE ReconnectCluster(p.c) :
                   p \in {q \in CmdOn(c, <<"ping">>) : q.cut = 0}}

(* RedisManager::get() *)
Get(u) ==
    /\ client[u].r = "none" /\ client[u].n < MaxCalls /\ m_datas[Name] # <<>>
    /\ LET r == Head(m_datas[Name])
       IN  IF Shared(r)
           THEN /\ m_datas' = [m_datas EXCEPT ![Name] = Append(Tail(@), r)]
                /\ client' = [client EXCEPT ![u].r = r]
                /\ UNCHANGED rconn
           ELSE \E k \in Checked(r, rconn[r]) :
                /\ rconn' = [rconn EXCEPT ![r] = IF k.ok THEN [k.c EXCEPT !.idle = FALSE] ELSE k.c]
                /\ m_datas' = [m_datas EXCEPT ![Name] = IF k.ok THEN Tail(@) ELSE Append(Tail(@), r)]
                /\ client' = [client EXCEPT ![u].r = IF k.ok THEN r ELSE "none",
                                            ![u].n = IF k.ok THEN @ ELSE @ + 1]
    /\ UNCHANGED cuts

Blocking(u) == client[u].r # "none" /\ ~Shared(client[u].r)
Token(u) == <<u, client[u].n + 1>>

(* cmd() on a blocking connection *)
Cmd(u) ==
    /\ Blocking(u) /\ client[u].n < MaxCalls
    /\ \E k \in CmdOn(rconn[client[u].r], Token(u)) :
          /\ rconn' = [rconn EXCEPT ![client[u].r] = k.c]
          /\ client' = [client EXCEPT ![u].n = @ + 1, ![u].got = k.got]
          /\ cuts' = cuts + k.cut
    /\ UNCHANGED m_datas

(* appendCmd(): sent, and its answer left for getReply(). *)
AppendCmd(u) ==
    /\ Blocking(u) /\ client[u].n < MaxCalls
    /\ rconn' = [rconn EXCEPT ![client[u].r].line = IF rconn[client[u].r].err THEN @ ELSE Append(@, Token(u))]
    /\ client' = [client EXCEPT ![u].n = @ + 1]
    /\ UNCHANGED <<m_datas, cuts>>

(* getReply() *)
GetReply(u) ==
    /\ Blocking(u)
    /\ LET c == rconn[client[u].r]
       IN  /\ c.err \/ c.line # <<>>
           /\ rconn' = [rconn EXCEPT ![client[u].r].line = IF c.err THEN @ ELSE Tail(@)]
           /\ client' = [client EXCEPT ![u].got = IF c.err THEN <<>> ELSE Head(c.line)]
    /\ UNCHANGED <<m_datas, cuts>>

(* freeRedis(): to the list of the connection's own name. A shared one     *)
(* was never taken out.                                                    *)
FreeRedis(u) ==
    /\ client[u].r # "none"
    /\ client' = [client EXCEPT ![u].r = "none"]
    /\ m_datas' = IF Shared(client[u].r) THEN m_datas
                  ELSE [m_datas EXCEPT ![rconn[client[u].r].m_name] = Append(@, client[u].r)]
    /\ UNCHANGED <<rconn, cuts>>

(* RedisUtil::TryCmd(): Cmd() up to Attempts times, each with a connection *)
(* of its own.                                                             *)
TryBegin(u) == /\ client[u].r = "none" /\ client[u].left = 0 /\ client[u].n < MaxCalls
               /\ client' = [client EXCEPT ![u].left = Attempts]
               /\ UNCHANGED <<m_datas, rconn, cuts>>

TryCmd(u) ==
    /\ client[u].left > 0 /\ client[u].r = "none"
    /\ IF m_datas[Name] = <<>> \/ client[u].n >= MaxCalls
       THEN /\ client' = [client EXCEPT ![u].left = @ - 1] /\ UNCHANGED <<m_datas, rconn, cuts>>
       ELSE LET r == Head(m_datas[Name]) IN
            \/ /\ Shared(r)
               /\ m_datas' = [m_datas EXCEPT ![Name] = Append(Tail(@), r)]
               /\ \E got \in {<<>>, Token(u)} :
                     client' = [client EXCEPT ![u].n = @ + 1, ![u].got = got,
                                              ![u].left = IF got # <<>> THEN 0 ELSE @ - 1]
               /\ UNCHANGED <<rconn, cuts>>
            \/ /\ ~Shared(r)
               /\ \E k \in Checked(r, rconn[r]) :
                 IF ~k.ok
                 THEN /\ m_datas' = [m_datas EXCEPT ![Name] = Append(Tail(@), r)]
                      /\ rconn' = [rconn EXCEPT ![r] = k.c]
                      /\ client' = [client EXCEPT ![u].left = @ - 1] /\ UNCHANGED cuts
                 ELSE \E p \in CmdOn([k.c EXCEPT !.idle = FALSE], Token(u)) :
                      /\ rconn' = [rconn EXCEPT ![r] = p.c] /\ cuts' = cuts + p.cut
                      /\ m_datas' = [n \in DOMAIN m_datas |->
                            (IF n = Name THEN Tail(m_datas[n]) ELSE m_datas[n])
                            \o (IF n = p.c.m_name THEN <<r>> ELSE <<>>)]
                      /\ client' = [client EXCEPT ![u].n = @ + 1, ![u].got = p.got,
                                                  ![u].left = IF p.got # <<>> THEN 0 ELSE @ - 1]

\* Thirty seconds pass for a connection nobody has; a connection ends.
Wait == \E r \in Redises : /\ ~rconn[r].idle /\ \A u \in Clients : client[u].r # r
                           /\ rconn' = [rconn EXCEPT ![r].idle = TRUE] /\ UNCHANGED <<m_datas, client, cuts>>
Cut == \E r \in Redises : /\ ~rconn[r].err /\ cuts < MaxCuts /\ cuts' = cuts + 1
                          /\ rconn' = [rconn EXCEPT ![r].err = TRUE] /\ UNCHANGED <<m_datas, client>>

RPoolStep == \/ \E u \in Clients : Get(u) \/ Cmd(u) \/ AppendCmd(u) \/ GetReply(u) \/ FreeRedis(u)
             \/ \E u \in Clients : TryBegin(u) \/ TryCmd(u)
             \/ Wait \/ Cut

RPoolNext == RPoolStep /\ UNCHANGED m_passwd

-----------------------------------------------------------------------------
\* A blocking connection is in one list once or with one client, an
\* asynchronous one is in its list and with any number; and every answer a
\* client gets is to one of its own commands, however commands, pipelined
\* commands, timeouts and reconnections alternate.
RedisSound ==
    /\ \A r \in Redises :
          LET listed == {p \in {Name, Empty} \X (1 .. Cardinality(Redises)) :
                            p[2] \in DOMAIN m_datas[p[1]] /\ m_datas[p[1]][p[2]] = r}
              users == {u \in Clients : client[u].r = r}
          IN  IF TypeOf[r] = "fox_redis" THEN Cardinality(listed) = 1
              ELSE Cardinality(listed) + Cardinality(users) = 1
    /\ \A u \in Clients : client[u].got # <<>> => client[u].got[1] = u
=============================================================================
