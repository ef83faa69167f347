----------------------------- MODULE MCServers -----------------------------
(***************************************************************************)
(* The servers and the protocols they speak, one at a time: `which' names  *)
(* the part that runs, and the others keep their initial states.  The      *)
(* WebSocket session is there twice: with more frames from the client, and *)
(* with more messages to it.                                               *)
(***************************************************************************)
EXTENDS Integers, Sequences, FiniteSets, TLC

CONSTANTS c1, c2, Callers, MaxCmds, MaxDrops,
          InFrames, OutMessages, MaxFrames, MaxPushes,
          Asks, HttpBuffer, MaxBody, MaxRequests,
          Messages, NodeSize, RockBuffer, MinGzip, MaxLength, MaxMessages,
          Handled, Unhandled, ThreadNum, MaxPackets,
          Addrs, MaxBinds, MaxStarts, MaxClients

\* What the proofs rest on: the addresses of a Bind() can be counted, and bounds are numbers.
ASSUME ServersAssumption == IsFiniteSet(Addrs) /\ MaxCmds \in Nat /\ ThreadNum \in Nat \ {0}

VARIABLES conf, fox, m_status, pending, ctx, fctx, drops,
          conn, peer, rd, wr, _sendQueue, _sem, _timer, _connsMap, wire, sent, got, pushed, late,
          _is_keepAlive, net, asked, cli, ses, served, said, fate,
          xftp, out, rocks, in, msgs, received, over,
          xconn, xrd, xwr, queue, packets, thread, sched, file, flushed,
          _acceptWorker, _listenSockets, open, _isStop, loop, stops, closing, backlog, done,
          which

Frame(op, fin, mask, size) == [op |-> op, fin |-> fin, mask |-> mask, size |-> size]
Pings == Frame("ping", TRUE, FALSE, "empty")

F == INSTANCE FoxRedis
W == INSTANCE WsSession
Q == INSTANCE WsSession WITH InFrames <- {Pings}, MaxFrames <- 1, MaxPushes <- 2
H == INSTANCE HttpSession WITH Requests <- Asks, BufferSize <- HttpBuffer, got <- served
R == INSTANCE RockWire WITH BufferSize <- RockBuffer, net <- rocks
X == INSTANCE XftpSession WITH conn <- xconn, rd <- xrd, wr <- xwr
T == INSTANCE TcpServer

\* What the proofs about Rock rest on: nodes, buffers and the limit are sizes, and a
\* message's fields that its kind does not carry are the ones it was made with.
ASSUME MessagesAssumption ==
    /\ RockBuffer \in Nat \ {0} /\ NodeSize \in Nat \ {0} /\ MinGzip \in Nat
    /\ \A m \in Messages :
          /\ m \in [type : {"request", "response", "notify"}, sn : STRING, cmd : STRING, result : STRING,
                    str : STRING, notify : STRING, file : Seq(STRING), data : STRING]
          /\ Len(m.file) \in {0, 6}
          /\ m.type # "response" => m.result = "404" /\ m.str = "unhandle"
          /\ m.type # "notify" => m.notify = "0"
          /\ m.type = "notify" => m.sn = "0" /\ m.cmd = "0"

\* What the proofs about WebSocket rest on: the frames and messages that may come, and the
\* end mark, which no program queues, is none of them.
FrameOps == {"continue", "text", "binary", "close", "ping", "pong"}
Sizes == {"empty", "short", "long", "over"}
ASSUME FramesAssumption ==
    /\ InFrames \subseteq [op : FrameOps, fin : BOOLEAN, mask : BOOLEAN, size : Sizes]
    /\ OutMessages \subseteq [op : FrameOps, size : Sizes]

\* What the proofs about HTTP rest on: what a client may ask, and sizes.
ASSUME RequestsAssumption ==
    /\ Asks \subseteq [lines : Nat, body : Seq({"x", "n"}), conn : {"keep-alive", "close"}, expect : BOOLEAN, ok : BOOLEAN]
    /\ HttpBuffer \in Nat /\ MaxBody \in Nat

\* A message in two fragments and one in one, with and without a mask; a ping
\* without and one with a mask and a payload, a pong with a payload; a close.
Frames == {Frame("text", FALSE, TRUE, "short"), Frame("continue", TRUE, TRUE, "short"),
           Frame("text", TRUE, FALSE, "short"), Pings,
           Frame("ping", TRUE, TRUE, "short"), Frame("pong", TRUE, FALSE, "short"), Frame("close", TRUE, TRUE, "short")}
Replies == {[op |-> "text", size |-> "long"], [op |-> "text", size |-> "empty"]}
\* Requests without a body, with one that fits, with one that does not, and with one
\* announced by expect: 100-continue; one of an unknown method.
Ask(lines, body, connection, expect, ok) == [lines |-> lines, body |-> body, conn |-> connection, expect |-> expect, ok |-> ok]
HttpAsks == {Ask(1, <<>>, "keep-alive", FALSE, TRUE), Ask(2, <<"n", "x">>, "keep-alive", FALSE, TRUE),
             Ask(1, <<"x">>, "keep-alive", TRUE, TRUE), Ask(1, <<"x", "n", "n", "x">>, "close", FALSE, TRUE),
             Ask(1, <<>>, "keep-alive", FALSE, FALSE)}
\* The three kinds of Rock messages, a response being longer than a node, and a part of
\* a file.
Rock(type, sn, cmd, result, str, notify, data) ==
    [type |-> type, sn |-> sn, cmd |-> cmd, result |-> result, str |-> str, notify |-> notify, file |-> <<>>, data |-> data]
Part(m) == [m EXCEPT !.file = <<"md5", "name", "size", "total", "last", "sn">>]
RockMessages == {Rock("request", "1", "2", "404", "unhandle", "0", "a"), Rock("response", "1", "2", "0", "ok", "0", "b"),
                 Rock("notify", "0", "0", "404", "unhandle", "3", "c"),
                 Part(Rock("request", "1", "2", "404", "unhandle", "0", "d"))}

foxVars == <<conf, fox, m_status, pending, ctx, fctx, drops>>
wsVars == <<conn, peer, rd, wr, _sendQueue, _sem, _timer, _connsMap, wire, sent, got, pushed, late>>
httpVars == <<_is_keepAlive, net, asked, cli, ses, served, said, fate>>
rockVars == <<xftp, out, rocks, in, msgs, received, over>>
xftpVars == <<xconn, xrd, xwr, queue, packets, thread, sched, file, flushed>>
tcpVars == <<_acceptWorker, _listenSockets, open, _isStop, loop, stops, closing, backlog, done>>
vars == <<foxVars, wsVars, httpVars, rockVars, xftpVars, tcpVars, which>>

Init == /\ which \in {"fox", "ws", "push", "http", "rock", "xftp", "tcp"}
        /\ F!RedisInit /\ (which # "fox" => ~conf.cluster /\ ~conf.passwd)
        /\ W!WsInit
        /\ H!HttpInit /\ (which # "http" => _is_keepAlive)
        /\ R!WireInit /\ (which # "rock" => ~xftp)
        /\ X!XftpInit
        /\ T!TcpInit /\ (which # "tcp" => _acceptWorker = "one")

\* Only one part moves.
OnlyFox == which = "fox" /\ UNCHANGED <<wsVars, httpVars, rockVars, xftpVars, tcpVars, which>>
OnlyWs == which \in {"ws", "push"} /\ UNCHANGED <<foxVars, httpVars, rockVars, xftpVars, tcpVars, which>>
OnlyHttp == which = "http" /\ UNCHANGED <<foxVars, wsVars, rockVars, xftpVars, tcpVars, which>>
OnlyRock == which = "rock" /\ UNCHANGED <<foxVars, wsVars, httpVars, xftpVars, tcpVars, which>>
OnlyXftp == which = "xftp" /\ UNCHANGED <<foxVars, wsVars, httpVars, rockVars, tcpVars, which>>
OnlyTcp == which = "tcp" /\ UNCHANGED <<foxVars, wsVars, httpVars, rockVars, xftpVars, which>>

\* An HTTP session that dropped bytes reads the next request from the middle.
Next == \/ OnlyFox /\ F!RedisNext
        \/ OnlyWs /\ which = "ws" /\ W!WsNext
        \/ OnlyWs /\ which = "push" /\ Q!WsNext
        \/ OnlyHttp /\ ~fate.lost /\ H!HttpNext
        \/ OnlyRock /\ R!WireNext
        \/ OnlyXftp /\ X!XftpNext
        \/ OnlyTcp /\ T!TcpNext

\* The fairness of the part that runs: one condition for each of its fibers, threads
\* and callbacks.
Fair1 == \/ OnlyFox /\ F!LoopStep
         \/ OnlyWs /\ W!Reader
         \/ OnlyXftp /\ X!XftpReader
         \/ OnlyTcp /\ T!Callback
Fair2 == \/ OnlyFox /\ F!Timeouts
         \/ OnlyWs /\ W!Sender
         \/ OnlyXftp /\ X!XftpWriter
         \/ OnlyTcp /\ T!LoopTests
Fair3 == \/ OnlyFox /\ F!Return(c1)
         \/ OnlyWs /\ W!TimerRuns
         \/ OnlyXftp /\ X!Respond
         \/ OnlyTcp /\ T!AcceptEnds
Fair4 == \/ OnlyFox /\ F!Return(c2)
         \/ OnlyXftp /\ X!handleTest(0)
Fair5 == OnlyXftp /\ X!handleTest(1)

Spec == Init /\ [][Next]_vars /\ WF_vars(Fair1) /\ WF_vars(Fair2) /\ WF_vars(Fair3) /\ WF_vars(Fair4) /\ WF_vars(Fair5)

\* A fiber that calls cmd() gets its own answer or none (FoxRedis).
AnswersOwn == which = "fox" => F!AnswersOwn
\* WebSocket messages are whole and in order, and a session that is done has no writer
\* (WSSession, WSServer).
FramesWhole == which \in {"ws", "push"} => W!FramesWhole /\ W!DoneMeansDone
\* Servlets get the requests that were sent (HttpSession).
RequestsKept == which = "http" => H!RequestsKept
\* Rock and XFTP messages arrive whole and in order; an XFTP packet is answered once and
\* files keep their order (RockMessageDecoder, XftpSession, XftpWorker).
MessagesKept == /\ which = "rock" => R!MessagesKept
                /\ which = "xftp" => X!AnsweredOnce
\* Every socket of a running server listens and has one accept loop (TcpServer).
ListenersSound == which = "tcp" => T!ListenersSound
\* Commands return, closed sessions end and a server that is told to stop does.
EverythingEnds == F!CmdReturns /\ W!SessionEnds /\ X!XftpEnds /\ T!StopEnds
=============================================================================
