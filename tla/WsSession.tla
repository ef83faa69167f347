------------------------------ MODULE WsSession ------------------------------
(***************************************************************************)
(* A WebSocket connection (ws_session.cpp, ws_server.cpp).  The reader     *)
(* fiber shakes hands, starts the writer fiber and hands each message to   *)
(* the servlet; the writer sends what anybody queues; a timer ends a       *)
(* silent connection.  The reader answers a ping itself, past the writer.  *)
(***************************************************************************)
EXTENDS Integers, Sequences

CONSTANTS InFrames,     \* frames the client may send: [op, fin, mask, size]
          OutMessages,  \* messages the program may send: [op, size]
          MaxFrames,    \* bound: frames of the client
          MaxPushes     \* bound: messages queued by the program

VARIABLES conn,         \* Socket::_isConnect
          peer,         \* the client still reads and writes
          rd,           \* reader: [pc, op, part], part = the frames of the message so far
          wr,           \* writer: [pc, batch, at], at = pieces written of Head(batch)
          _sendQueue,
          _sem,
          _timer,       \* [armed, firing]
          _connsMap,    \* the session is in the server's container
          wire,         \* pieces written to the client: <<message number, piece>>
          sent,         \* history: the frames read from the client
          got,          \* history: what was handed to the servlet: [op, ids]
          pushed,       \* history: the messages queued
          late          \* history: [desync, overtaken]

wsVars == <<conn, peer, rd, wr, _sendQueue, _sem, _timer, _connsMap, wire, sent, got, pushed, late>>

Nil == [op |-> "nil", size |-> "empty"]
CloseMessage == [op |-> "close", size |-> "short"]
Control == {"ping", "pong"}
Noise == [op |-> "pong", fin |-> FALSE, mask |-> FALSE, size |-> "short"]

Read(pc) == rd' = [rd EXCEPT !.pc = pc]

\* A mutant of pushMessage(): the writer is not woken.
pushSilent(m) ==
    /\ _sendQueue' = Append(_sendQueue, Len(pushed) + 1)
    /\ pushed' = Append(pushed, m)
    /\ UNCHANGED wr

\* pushMessage(): the queue, and a writer that waits is woken.  The number of a
\* message is its place in `pushed'.
pushMessage(m) ==
    /\ _sendQueue' = Append(_sendQueue, Len(pushed) + 1)
    /\ pushed' = Append(pushed, m)
    /\ wr' = IF wr.pc = "wait" THEN [wr EXCEPT !.pc = "lock"] ELSE wr

-----------------------------------------------------------------------------
(* The reader: handleClient(). *)

\* The upgrade request is read, checked and answered, or it is not.
HandleShake ==
    /\ rd.pc = "shake"
    /\ Read("close") \/ (conn /\ Read("connect"))
    /\ UNCHANGED <<conn, peer, wr, _sendQueue, _sem, _timer, _connsMap, wire, sent, got, pushed, late>>

\* A servlet is found and accepts, the session joins the container; or it ends.
OnConnect ==
    /\ rd.pc = "connect"
    /\ \/ Read("close") /\ UNCHANGED _connsMap
       \/ Read("start") /\ _connsMap' = TRUE
    /\ UNCHANGED <<conn, peer, wr, _sendQueue, _sem, _timer, wire, sent, got, pushed, late>>

StartTimer == _timer' = [_timer EXCEPT !.armed = TRUE]
StartSender ==
    /\ rd.pc = "start" /\ Read("run")
    /\ wr' = [wr EXCEPT !.pc = "scheduled"]
    /\ StartTimer
    /\ UNCHANGED <<conn, peer, _sendQueue, _sem, _connsMap, wire, sent, got, pushed, late>>

\* What WSRecvMessage() does with a frame that is neither ping nor pong: one that is
\* not masked, is empty, has a 64-bit length (its bytes are not read) or is too large
\* ends the connection; a closing frame is data.
Refused(f) == ~f.mask \/ f.size \in {"empty", "long", "over"}
Opcode(f) == IF rd.op = "continue" /\ f.op # "continue" THEN f.op ELSE rd.op
Joined(f) == [rd EXCEPT !.op = Opcode(f), !.part = Append(@, Len(sent) + 1)]

\* A mutant of Taken(): the fragments before the last are dropped.
TakenLast(f) ==
    IF f.fin THEN /\ got' = Append(got, [op |-> Opcode(f), ids |-> <<Len(sent) + 1>>])
                  /\ rd' = [pc |-> "handle", op |-> "continue", part |-> <<>>]
             ELSE rd' = Joined(f) /\ UNCHANGED got
Taken(f) ==
    IF f.fin THEN /\ got' = Append(got, [op |-> Opcode(f), ids |-> Joined(f).part])
                  /\ rd' = [pc |-> "handle", op |-> "continue", part |-> <<>>]
             ELSE rd' = Joined(f) /\ UNCHANGED got

\* Neither the mask nor the payload of a ping or a pong is read.
StaysUnread(f) == f.mask \/ f.size # "empty"
\* WSPong(), written by the reader.
WSPong(f) ==
    /\ \/ conn /\ wire' = Append(wire, <<0, "pong">>) /\ UNCHANGED <<conn, rd>>
       \/ (~conn \/ ~peer) /\ conn' = FALSE /\ Read("end") /\ UNCHANGED wire
    /\ late' = [late EXCEPT !.desync = StaysUnread(f)]
    /\ UNCHANGED got

WSRecvMessage ==
    /\ rd.pc = "run" /\ conn /\ peer /\ ~late.desync /\ Len(sent) < MaxFrames
    /\ \E f \in InFrames :
          /\ sent' = Append(sent, f)
          /\ \/ f.op = "ping" /\ WSPong(f)
             \/ f.op = "pong" /\ late' = [late EXCEPT !.desync = StaysUnread(f)] /\ UNCHANGED <<conn, rd, wire, got>>
             \/ f.op \notin Control /\ Refused(f) /\ conn' = FALSE /\ Read("end") /\ UNCHANGED <<wire, got, late>>
             \/ f.op \notin Control /\ ~Refused(f) /\ Taken(f) /\ UNCHANGED <<conn, wire, late>>
    /\ UNCHANGED <<peer, wr, _sendQueue, _sem, _timer, _connsMap, pushed>>
\* Out of step with the client, the reader takes any bytes for a frame: one that ends
\* what it has of a message, a ping, one that hands over nothing yet, or one it refuses.
\* Such frames count as Noise among those of the client.
Garbage == [op |-> "garbage", ids |-> <<>>]
RecvGarbage ==
    /\ rd.pc = "run" /\ conn /\ late.desync
    /\ \/ /\ Len(sent) < MaxFrames /\ sent' = Append(sent, Noise) /\ UNCHANGED conn
          /\ \/ /\ got' = Append(got, Garbage) /\ UNCHANGED wire
                /\ rd' = [pc |-> "handle", op |-> "continue", part |-> <<>>]
             \/ wire' = Append(wire, <<0, "pong">>) /\ UNCHANGED <<rd, got>>
             \/ UNCHANGED <<rd, got, wire>>
       \/ Read("end") /\ conn' = FALSE /\ UNCHANGED <<sent, got, wire>>
    /\ UNCHANGED <<peer, wr, _sendQueue, _sem, _timer, _connsMap, pushed, late>>
\* The connection is closed, here or by the client: no message.
RecvNothing ==
    /\ rd.pc = "run" /\ (~conn \/ ~peer)
    /\ conn' = FALSE /\ Read("end")
    /\ UNCHANGED <<peer, wr, _sendQueue, _sem, _timer, _connsMap, wire, sent, got, pushed, late>>

Handle ==
    /\ rd.pc = "handle"
    /\ \/ Read("run") /\ StartTimer
       \/ Read("end") /\ UNCHANGED _timer
    /\ UNCHANGED <<conn, peer, wr, _sendQueue, _sem, _connsMap, wire, sent, got, pushed, late>>

\* onClose(), the container forgets the session, ForceClose() queues the end mark.
OnClose ==
    /\ rd.pc = "end" /\ Read("force") /\ _connsMap' = FALSE
    /\ UNCHANGED <<conn, peer, wr, _sendQueue, _sem, _timer, wire, sent, got, pushed, late>>
ForceClose ==
    /\ rd.pc = "force" /\ Read("join") /\ pushMessage(Nil)
    /\ UNCHANGED <<conn, peer, _sem, _timer, _connsMap, wire, sent, got, late>>

\* A mutant of waitSender(): nobody is waited for.
WaitNobody ==
    /\ rd.pc = "join" /\ Read("close")
    /\ UNCHANGED <<conn, peer, wr, _sendQueue, _sem, _timer, _connsMap, wire, sent, got, pushed, late>>
\* The semaphore starts at one: a reader that gets here before the writer has begun
\* takes the writer's permit.
waitSender ==
    /\ rd.pc = "join" /\ _sem > 0 /\ _sem' = _sem - 1 /\ Read("close")
    /\ late' = [late EXCEPT !.overtaken = wr.pc = "scheduled"]
    /\ UNCHANGED <<conn, peer, wr, _sendQueue, _timer, _connsMap, wire, sent, got, pushed>>
CloseSession ==
    /\ rd.pc = "close" /\ Read("done") /\ conn' = FALSE
    /\ UNCHANGED <<peer, wr, _sendQueue, _sem, _timer, _connsMap, wire, sent, got, pushed, late>>

-----------------------------------------------------------------------------
(* The writer: doSend(). *)
SenderBegins ==
    /\ wr.pc = "scheduled" /\ _sem > 0 /\ _sem' = _sem - 1
    /\ wr' = [wr EXCEPT !.pc = "lock"]
    /\ UNCHANGED <<conn, peer, rd, _sendQueue, _timer, _connsMap, wire, sent, got, pushed, late>>
SenderTakes ==
    /\ wr.pc = "lock"
    /\ IF _sendQueue = <<>> /\ conn
       THEN wr' = [wr EXCEPT !.pc = "wait"] /\ UNCHANGED _sendQueue
       ELSE wr' = [pc |-> "send", batch |-> _sendQueue, at |-> 0] /\ _sendQueue' = <<>>
    /\ UNCHANGED <<conn, peer, rd, _sem, _timer, _connsMap, wire, sent, got, pushed, late>>

\* The writes of WSSendMessage(), WSPing() and WSPong(); the last of an empty message
\* sends nothing and counts as a failure.
Pieces(n) == IF pushed[n].op \in Control THEN <<<<n, "head">>>>
             ELSE IF pushed[n].size = "long" THEN <<<<n, "head">>, <<n, "length">>, <<n, "data">>>>
             ELSE <<<<n, "head">>, <<n, "data">>>>
Fails(n) == \/ ~conn \/ ~peer
            \/ pushed[n].size = "empty" /\ pushed[n].op \notin Control /\ wr.at = 1

\* One message at a time, one write at a time, until the end mark or a failure; after
\* the batch the connection decides.
WSSendMessage ==
    /\ wr.pc = "send"
    /\ \/ /\ wr.batch = <<>>
          /\ wr' = [wr EXCEPT !.pc = IF conn THEN "lock" ELSE "stop"]
          /\ UNCHANGED <<conn, wire>>
       \/ /\ wr.batch # <<>> /\ (pushed[Head(wr.batch)] = Nil)
          /\ wr' = [wr EXCEPT !.pc = "stop", !.batch = <<>>]
          /\ UNCHANGED <<conn, wire>>
       \/ /\ wr.batch # <<>> /\ pushed[Head(wr.batch)] # Nil /\ Fails(Head(wr.batch))
          /\ wr' = [wr EXCEPT !.pc = "stop", !.batch = <<>>] /\ conn' = FALSE
          /\ UNCHANGED wire
       \/ /\ wr.batch # <<>> /\ pushed[Head(wr.batch)] # Nil /\ conn
          /\ ~(wr.at = 1 /\ pushed[Head(wr.batch)].size = "empty" /\ pushed[Head(wr.batch)].op \notin Control)
          /\ wire' = Append(wire, Pieces(Head(wr.batch))[wr.at + 1])
          /\ wr' = IF wr.at + 1 = Len(Pieces(Head(wr.batch)))
                   THEN [wr EXCEPT !.batch = Tail(@), !.at = 0]
                   ELSE [wr EXCEPT !.at = @ + 1]
          /\ UNCHANGED conn
    /\ UNCHANGED <<peer, rd, _sendQueue, _sem, _timer, _connsMap, sent, got, pushed, late>>
SenderCloses ==
    /\ wr.pc = "stop" /\ conn' = FALSE /\ wr' = [wr EXCEPT !.pc = "post"]
    /\ UNCHANGED <<peer, rd, _sendQueue, _sem, _timer, _connsMap, wire, sent, got, pushed, late>>
SenderEnds ==
    /\ wr.pc = "post" /\ _sem' = _sem + 1 /\ wr' = [wr EXCEPT !.pc = "done"]
    /\ UNCHANGED <<conn, peer, rd, _sendQueue, _timer, _connsMap, wire, sent, got, pushed, late>>

-----------------------------------------------------------------------------
\* The timer's callback: a closing message, then the end mark.
TimerFires ==
    /\ \/ _timer.armed /\ conn /\ ~_timer.firing /\ Len(pushed) < MaxPushes /\ pushMessage(CloseMessage) /\ _timer' = [armed |-> FALSE, firing |-> TRUE]
       \/ _timer.firing /\ pushMessage(Nil) /\ _timer' = [_timer EXCEPT !.firing = FALSE]
    /\ UNCHANGED <<conn, peer, rd, _sem, _connsMap, wire, sent, got, late>>

\* sendmsg() and broadcastmsg() while the container has the session, and a servlet's
\* own SendMessage().
SendMessage(m) ==
    /\ _connsMap /\ Len(pushed) < MaxPushes /\ pushMessage(m)
    /\ UNCHANGED <<conn, peer, rd, _sem, _timer, _connsMap, wire, sent, got, late>>

PeerLeaves ==
    /\ peer /\ peer' = FALSE
    /\ UNCHANGED <<conn, rd, wr, _sendQueue, _sem, _timer, _connsMap, wire, sent, got, pushed, late>>

WsInit ==
    /\ conn = TRUE /\ peer = TRUE
    /\ rd = [pc |-> "shake", op |-> "continue", part |-> <<>>]
    /\ wr = [pc |-> "none", batch |-> <<>>, at |-> 0]
    /\ _sendQueue = <<>> /\ _sem = 1
    /\ _timer = [armed |-> FALSE, firing |-> FALSE]
    /\ _connsMap = FALSE
    /\ wire = <<>> /\ sent = <<>> /\ got = <<>> /\ pushed = <<>>
    /\ late = [desync |-> FALSE, overtaken |-> FALSE]

Reader == HandleShake \/ OnConnect \/ StartSender \/ RecvGarbage \/ RecvNothing \/ Handle
          \/ OnClose \/ ForceClose \/ waitSender \/ CloseSession
Sender == SenderBegins \/ SenderTakes \/ WSSendMessage \/ SenderCloses \/ SenderEnds

WsNext == Reader \/ WSRecvMessage \/ Sender \/ TimerFires \/ PeerLeaves \/ \E m \in OutMessages : SendMessage(m)

\* Fairness: fibers that can run do (Reader, Sender), and so does a callback that is
\* scheduled (TimerRuns); the client may stay silent for ever.
TimerRuns == _timer.firing /\ TimerFires

-----------------------------------------------------------------------------
\* Frame b is the first after frame a, 0 for none, that carries data.
Data(i) == sent[i].op \notin Control
Follows(a, b) == a < b /\ b <= Len(sent) /\ Data(b) /\ \A i \in (a + 1) .. (b - 1) : ~Data(i)
\* Piece q is the one to write after piece p.
NextPiece(p, q) ==
    /\ p[1] \in 1 .. Len(pushed) /\ q[1] <= Len(pushed)
    /\ \E a \in 1 .. Len(Pieces(p[1])) :
          /\ p = Pieces(p[1])[a]
          /\ q = IF a < Len(Pieces(p[1])) THEN Pieces(p[1])[a + 1] ELSE <<p[1] + 1, "head">>

\* The servlet gets the client's messages whole, in order, each of its fragments once
\* and nothing else, with the kind of the first that names one, and the client gets the
\* queued messages whole and in the order they were queued.  Two exceptions: a ping or
\* pong with a mask, as clients have to send it, or with a payload leaves the reader out
\* of step, and what the servlet gets after it is none of the client's messages; and
\* the pongs that the reader writes itself may stand between the
\* pieces of a message.
FramesWhole ==
    /\ \A i \in 1 .. Len(got) : LET ids == got[i].ids IN
          \/ /\ ids # <<>> /\ Follows(IF i = 1 THEN 0 ELSE got[i - 1].ids[Len(got[i - 1].ids)], ids[1])
             /\ \A j \in 1 .. (Len(ids) - 1) : Follows(ids[j], ids[j + 1])
             /\ \A j \in 1 .. Len(ids) : sent[ids[j]].fin <=> j = Len(ids)
             /\ \E j \in 1 .. Len(ids) : /\ got[i].op = sent[ids[j]].op /\ \A k \in 1 .. (j - 1) : sent[ids[k]].op = "continue"
                                         /\ got[i].op = "continue" => j = Len(ids)
          \/ late.desync /\ \A k \in i .. Len(got) : got[k] = Garbage
    /\ \A i \in 1 .. Len(wire) : wire[i][1] # 0 =>
          \/ wire[i] = <<1, "head">> /\ pushed # <<>> /\ \A k \in 1 .. (i - 1) : wire[k][1] = 0
          \/ \E k \in 1 .. (i - 1) : /\ wire[k][1] # 0 /\ NextPiece(wire[k], wire[i])
                                    /\ \A l \in (k + 1) .. (i - 1) : wire[l][1] = 0

\* A session that is done has no writer at work on its socket, unless the reader took
\* the permit before the writer began: that writer waits for ever.
DoneMeansDone == rd.pc = "done" => wr.pc \in {"none", "done"} \/ late.overtaken

\* A connection that is closed ends, in both fibers.
SessionEnds == ~conn ~> rd.pc = "done" /\ (wr.pc \in {"none", "done"} \/ late.overtaken)
=============================================================================
