------------------------------ MODULE FoxRedis ------------------------------
(***************************************************************************)
(* The asynchronous Redis clients FoxRedis and FoxRedisCluster             *)
(* (db/redis.cpp).  A fiber's cmd() leaves its request (an FCtx on its own *)
(* stack) to the client's FoxThread and yields; the FoxThread makes a Ctx  *)
(* with a timeout for it and hands the command to hiredis; whichever of    *)
(* the answer, the end of the connection and the timeout comes first       *)
(* schedules the fiber, and the callback of hiredis deletes the Ctx.       *)
(*                                                                         *)
(* External: hiredis answers the commands of a connection in order, and    *)
(* calls back every one of them, without a reply, when it frees it.        *)
(***************************************************************************)
EXTENDS FoxThread, FiniteSets, Functions

CONSTANTS Callers,     \* fibers that call cmd()
          MaxCmds,     \* bound: commands per fiber
          MaxDrops     \* bound: connections that fail or end

VARIABLES conf,        \* the client: its class, whether it has a password, and its m_event
          fox,         \* its FoxThread
          m_status,    \* UNCONNECTED, CONNECTING or CONNECTED
          pending,     \* the connection's callbacks that wait for an answer
          ctx,         \* the Ctx objects, by request
          fctx,        \* the callers and the FCtx of each
          drops        \* connections ended so far

redisVars == <<fox, m_status, pending, ctx, fctx, drops, conf>>

Requests == Callers \X (1 .. MaxCmds)
NoCtx == [live |-> FALSE, timeout |-> FALSE]
NoReply == <<>>
Ping == <<"ping">>     \* TimeCb()'s command, with no Ctx
Auth == <<"auth">>     \* ConnectCb()'s command, answered to OnAuthCb()

\* The number of times each fiber is scheduled and has not run yet is part of
\* its record; Schedule() of a fiber whose FCtx gave its fiber away is skipped.
Schedule(f, i, reply) ==
    IF f[i[1]].n = i[2] /\ f[i[1]].fiber
    THEN [f EXCEPT ![i[1]].fiber = FALSE, ![i[1]].ready = @ + 1, ![i[1]].rpy = reply]
    ELSE f

\* Note the fiber, dispatch pcmd(), yield.
Ask(c) ==
    /\ fox.loop # "crashed" /\ fctx[c].pc = "run" /\ fctx[c].n < MaxCmds
    /\ fctx' = [fctx EXCEPT ![c] = [pc |-> "wait", n |-> fctx[c].n + 1, fiber |-> TRUE, ready |-> 0, rpy |-> NoReply]]
    /\ fox' = Dispatch(fox, [op |-> "pcmd", id |-> <<c, fctx[c].n + 1>>])
    /\ UNCHANGED <<conf, m_status, pending, ctx, drops>>

(* FoxRedis::cmd(), FoxRedisCluster::cmd() *)
Cmd(c) == ~conf.cluster /\ Ask(c)
CmdCluster(c) == conf.cluster /\ Ask(c)

(* The fiber runs again and cmd() returns the reply. *)
Return(c) ==
    /\ fox.loop # "crashed" /\ fctx[c].pc = "wait" /\ fctx[c].ready > 0
    /\ fctx' = [fctx EXCEPT ![c].pc = "run", ![c].ready = @ - 1]
    /\ UNCHANGED <<conf, fox, m_status, pending, ctx, drops>>

(* init() from another thread *)
InitClient ==
    /\ m_status = "UNCONNECTED" /\ fox.m_callbacks = <<>> /\ fox.batch = <<>> /\ fox.loop = "running"
    /\ fox' = Dispatch(fox, [op |-> "pinit"])
    /\ UNCHANGED <<conf, m_status, pending, ctx, fctx, drops>>

\* Nothing is to do, or the connection cannot be begun.
NotBegun == \/ m_status # "UNCONNECTED" /\ UNCHANGED <<conf, m_status, pending, drops>>
            \/ m_status = "UNCONNECTED" /\ drops < MaxDrops /\ drops' = drops + 1 /\ UNCHANGED <<conf, m_status, pending>>

(* FoxRedis::pinit(): connecting, a first ping behind it, and the timer of *)
(* the pings, once.                                                        *)
PinitFox == \/ NotBegun
            \/ /\ m_status = "UNCONNECTED" /\ m_status' = "CONNECTING" /\ pending' = <<Ping>>
               /\ conf' = [conf EXCEPT !.m_event = TRUE] /\ UNCHANGED drops

(* FoxRedisCluster::pinit(): it connects before it returns, and its timer *)
(* does nothing.                                                          *)
PinitCluster == \/ NotBegun
                \/ m_status = "UNCONNECTED" /\ m_status' = "CONNECTED" /\ pending' = <<>> /\ UNCHANGED <<conf, drops>>

Pinit == IF conf.cluster THEN PinitCluster ELSE PinitFox

\* Ctx::init() and redisAsyncFormattedCommand()
NewCtx(i) == /\ ctx' = [ctx EXCEPT ![i] = [live |-> TRUE, timeout |-> FALSE]]
             /\ pending' = Append(pending, i)
             /\ UNCHANGED <<conf, m_status, fctx, drops>>

\* A request without a connection: connect, and fail this one.
Unconnected(i) == Pinit /\ fctx' = Schedule(fctx, i, NoReply) /\ UNCHANGED ctx

\* Mutant: the caller is left to its timeout, which nothing set.
UnconnectedSilent(i) == Pinit /\ UNCHANGED <<fctx, ctx>>

\* Mutant: the caller of an unconnected client is not scheduled.
PcmdFoxSilent(i) == IF m_status = "UNCONNECTED" THEN UnconnectedSilent(i) ELSE NewCtx(i)

(* FoxRedis::pcmd() *)
PcmdFox(i) == IF m_status = "UNCONNECTED" THEN Unconnected(i) ELSE NewCtx(i)

(* FoxRedisCluster::pcmd() *)
PcmdCluster(i) == IF m_status # "CONNECTED" THEN Unconnected(i) ELSE NewCtx(i)

-----------------------------------------------------------------------------
(* The FoxThread *)

Take == InLoop(fox) /\ fox.byte /\ fox' = ReadCb(fox)
        /\ UNCHANGED <<conf, m_status, pending, ctx, fctx, drops>>

RunPcmd == /\ fox.batch # <<>> /\ Head(fox.batch).op = "pcmd" /\ fox' = RanOne(fox)
           /\ IF conf.cluster THEN PcmdCluster(Head(fox.batch).id) ELSE PcmdFox(Head(fox.batch).id)

RunPinit == /\ fox.batch # <<>> /\ Head(fox.batch).op = "pinit" /\ fox' = RanOne(fox)
            /\ Pinit /\ UNCHANGED <<ctx, fctx>>

RunStop == /\ fox.batch # <<>> /\ Head(fox.batch) = STOP /\ fox' = BreakLoop(fox)
           /\ UNCHANGED <<conf, m_status, pending, ctx, fctx, drops>>

StopFox == /\ fox.loop = "running" /\ STOP \notin Range(fox.m_callbacks \o fox.batch)
           /\ fox' = StopThread(fox)
           /\ UNCHANGED <<conf, m_status, pending, ctx, fctx, drops>>

\* The effect of CmdCb() on the Ctx and on the callers, for request i.
CmdCbCtx(c, i) == IF i \in Requests THEN [c EXCEPT ![i].live = FALSE] ELSE c

\* Mutant: the answer is stored without looking at the timeout flag.
CmdCbLate(f, i, reply) ==
    IF i \notin Requests THEN f ELSE [f EXCEPT ![i[1]].ready = @ + 1, ![i[1]].rpy = reply]

(* CmdCb(): nothing for a ping, nothing but the delete after a timeout. *)
CmdCb(f, i, reply) ==
    IF i \notin Requests \/ ctx[i].timeout THEN f ELSE Schedule(f, i, reply)

(* FoxRedisCluster::CmdCb(): it is never called without a Ctx. *)
CmdCbCluster(f, i, reply) == IF ctx[i].timeout THEN f ELSE Schedule(f, i, reply)

Called(f, i, reply) == IF conf.cluster THEN CmdCbCluster(f, i, reply) ELSE CmdCb(f, i, reply)

(* An answer: a value, an error or nothing. *)
Answer ==
    /\ InLoop(fox) /\ m_status = "CONNECTED" /\ pending # <<>>
    /\ pending' = Tail(pending)
    /\ ctx' = CmdCbCtx(ctx, Head(pending))
    /\ \E reply \in {NoReply, Head(pending)} : fctx' = Called(fctx, Head(pending), reply)
    /\ UNCHANGED <<conf, fox, m_status, drops>>

(* ConnectCb(0), and the password's command behind what already waits. *)
ConnectCb ==
    /\ InLoop(fox) /\ m_status = "CONNECTING" /\ m_status' = "CONNECTED"
    /\ pending' = IF conf.passwd THEN Append(pending, Auth) ELSE pending
    /\ UNCHANGED <<conf, fox, ctx, fctx, drops>>

\* hiredis calls back all that waits, without a reply.  Of a caller's requests
\* only the last can have an effect on it.
CtxGone == [i \in Requests |-> IF i \in Range(pending) THEN CmdCbCtx(ctx, i)[i] ELSE ctx[i]]
AllCalled == [c \in Callers |-> LET i == <<c, fctx[c].n>>
                                IN  IF i \in Range(pending) THEN Called(fctx, i, NoReply)[c] ELSE fctx[c]]

(* ConnectCb(error) and DisconnectCb() *)
Disconnected ==
    /\ InLoop(fox) /\ m_status \in {"CONNECTING", "CONNECTED"} /\ ~conf.cluster
    /\ drops < MaxDrops /\ drops' = drops + 1
    /\ m_status' = "UNCONNECTED" /\ pending' = <<>>
    /\ ctx' = CtxGone /\ fctx' = AllCalled
    /\ UNCHANGED <<conf, fox>>

(* A node of the cluster goes: its commands are called back, the client *)
(* stays CONNECTED.                                                     *)
NodeDisconnected ==
    /\ InLoop(fox) /\ m_status = "CONNECTED" /\ conf.cluster /\ pending # <<>>
    /\ drops < MaxDrops /\ drops' = drops + 1
    /\ pending' = <<>>
    /\ ctx' = CtxGone /\ fctx' = AllCalled
    /\ UNCHANGED <<conf, fox, m_status>>

(* TimeCb(): the ping every two minutes, whatever the connection is.      *)
(* Without one it is sent on the context that hiredis has freed, which     *)
(* m_context still points to: that is undefined, it does nothing or the    *)
(* program ends.  One ping at a time waits for its answer (bound).         *)
TimeCb ==
    /\ InLoop(fox) /\ conf.m_event /\ Ping \notin Range(pending)
    /\ \/ /\ m_status # "UNCONNECTED"
          /\ pending' = Append(pending, Ping) /\ UNCHANGED fox
       \/ /\ m_status = "UNCONNECTED"
          /\ fox' = [fox EXCEPT !.loop = "crashed"] /\ UNCHANGED pending
    /\ UNCHANGED <<conf, m_status, ctx, fctx, drops>>

(* Ctx::EventCb(): the event fires once; the callback of hiredis deletes the Ctx. *)
TimedOut(i) ==
    /\ InLoop(fox) /\ ctx[i].live /\ ~ctx[i].timeout
    /\ ctx' = [ctx EXCEPT ![i].timeout = TRUE]
    /\ fctx' = Schedule(fctx, i, NoReply)
    /\ UNCHANGED <<conf, fox, m_status, pending, drops>>

EventCb(i) == ~conf.cluster /\ TimedOut(i)
EventCbCluster(i) == conf.cluster /\ TimedOut(i)

RedisInit ==
    /\ conf \in [cluster : BOOLEAN, passwd : BOOLEAN, m_event : {FALSE}]
    /\ fox = StartThread(NewThread) /\ m_status = "UNCONNECTED" /\ pending = <<>> /\ drops = 0
    /\ ctx = [i \in Requests |-> NoCtx]
    /\ fctx = [c \in Callers |-> [pc |-> "run", n |-> 0, fiber |-> FALSE, ready |-> 0, rpy |-> NoReply]]

LoopStep == Take \/ RunPcmd \/ RunPinit \/ RunStop
Timeouts == \E i \in Requests : EventCb(i) \/ EventCbCluster(i)
RedisNext == \/ \E c \in Callers : Cmd(c) \/ CmdCluster(c) \/ Return(c)
             \/ InitClient \/ LoopStep \/ StopFox \/ Answer \/ ConnectCb
             \/ Disconnected \/ NodeDisconnected \/ TimeCb \/ Timeouts

(* Fairness: the FoxThread's loop runs until it is stopped (LoopStep), its *)
(* timers fire (Timeouts), and a scheduled fiber runs (Return(c)); nobody  *)
(* promises an answer.                                                     *)

-----------------------------------------------------------------------------
InHand == {k.id : k \in {x \in Range(fox.m_callbacks \o fox.batch) : x.op = "pcmd"}}

\* Whatever comes first of the answer, the timeout and the end of the
\* connection, a fiber is scheduled once per cmd() and gets its own answer or
\* none; and as long as the FoxThread may still touch an FCtx (a callback that
\* was not run, or a Ctx that did not time out), the cmd() that owns it waits
\* and is not yet scheduled.  The claim ends with the program: when a ping of
\* TimeCb() finds the connection gone, which uses a freed context.
AnswersOwn ==
    /\ \A c \in Callers : /\ fctx[c].ready <= 1 /\ (fctx[c].ready = 1 => fctx[c].pc = "wait")
                          /\ fctx[c].rpy # NoReply => fctx[c].rpy = <<c, fctx[c].n>>
    /\ \A i \in InHand \cup {j \in Requests : ctx[j].live /\ ~ctx[j].timeout} :
          /\ fctx[i[1]].pc = "wait" /\ fctx[i[1]].n = i[2] /\ fctx[i[1]].fiber
    /\ \A i \in Requests : ctx[i].live <=> i \in Range(pending)

\* Every cmd() returns, with or without an answer, unless its FoxThread is
\* stopped: the requests it had in hand are then lost, and their fibers wait;
\* or a ping used a freed context.
CmdReturns == \A c \in Callers : fctx[c].pc = "wait" ~> (fctx[c].pc = "run" \/ fox.loop \in {"ended", "crashed"})
=============================================================================
