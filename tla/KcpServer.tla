------------------------------ MODULE KcpServer ------------------------------
(***************************************************************************)
(* The KCP server: KcpListener with its receive loops, the session map and *)
(* the queue of new connections; KcpSession with its reader (the fiber in  *)
(* KcpServer::handleClient()) and its sender (dopacketOutput()); and the   *)
(* accept loop and Stop() of KcpServer.  The protocol engine is KcpEngine; *)
(* here a session has whole messages that wait to be read.                 *)
(*                                                                         *)
(* The fiber mutexes and conditions are those of FiberSync.  A lock is     *)
(* held across steps only between a waiter's test and its wait(), the      *)
(* "gap"; every other section under a lock is one step, together with the  *)
(* signal that follows it (the waiters test again, so that a signal that   *)
(* comes late does nothing).  What is set and signalled without the lock   *)
(* in the gap is lost on the waiter, which has "missed" it and is "asleep"   *)
(* until the next signal.                                                  *)
(***************************************************************************)
EXTENDS Naturals, Sequences, FiniteSets, Functions

CONSTANTS
    Clients, Channels, \* remote addresses; udp sockets with their receive loops
    Sids,              \* session objects
    Scenarios,         \* the socket that gets a client's packets (SO_REUSEPORT),
                       \* _max_conn_num, and bounds: who sends, sessions, packets, failing
                       \* calls, whether Stop() is called
    Backlog,           \* _backlog_size
    None

ASSUME KcpServerAssumption ==
    /\ \A sc \in Scenarios : /\ sc.channelOf \in [Clients -> Channels] /\ sc.sids \subseteq Sids
                             /\ sc.maxConn \in Nat
    /\ Backlog \in Nat
    /\ IsFiniteSet(Clients) /\ Clients # {}
    /\ IsFiniteSet(Channels) /\ IsFiniteSet(Sids) /\ None \notin Sids
    /\ "reader" \notin Channels /\ "sender" \notin Channels

VARIABLES
    isStop,        \* KcpServer::_isStop
    stopping,      \* the callback of Stop() is in the scheduler
    lis,           \* the listener's flags, and the addresses that got a second session
    backlog,       \* _accept_backlog
    sessions,      \* _sessions: by the number of the socket and the address
    blacklist,
    conns,         \* KcpServer::_connsMap
    acc,           \* the fiber in startAccept()
    recv,          \* the fibers in doRecvLoop()
    ss,            \* the session objects
    scenario,
    packets,       \* how many were sent; what a receive loop has left of its batch
    faults

moving == <<isStop, stopping, lis, backlog, sessions, blacklist, conns, acc, recv, ss, packets, faults>>
vars == <<moving, scenario>>

\* A client's packets come to one socket, so that its number says no more than whether it
\* is the socket's own or the -1 that Close() leaves.
Keys == {"own", "-1"}
Key == IF lis.bClose THEN "-1" ELSE "own"
MaxConn == scenario.maxConn

NoSession ==
    [addr |-> None, cl |-> "none", closer |-> None, ready |-> 0,
     bClose |-> FALSE, bReadError |-> FALSE, bWriteError |-> FALSE, bReadTimeout |-> FALSE,
     sendq |-> <<>>, tmp |-> <<>>, sem |-> 1, reader |-> "none", sender |-> "none",
     armed |-> FALSE, queued |-> 0, expired |-> FALSE, raced |-> FALSE]

NewSession(from) == [NoSession EXCEPT !.cl = "open", !.addr = from]

\* Start(): the listener listens, and the accept loop runs.
Init ==
    /\ isStop = FALSE /\ stopping = FALSE
    /\ lis = [bClose |-> FALSE, bReadError |-> FALSE, twice |-> {}]
    /\ backlog = <<>> /\ sessions = [k \in Keys |-> [c \in Clients |-> None]]
    /\ blacklist = {} /\ conns = {} /\ acc = "test"
    /\ recv = [ch \in Channels |-> [pc |-> "recv", from |-> None, sess |-> None]]
    /\ ss = [s \in Sids |-> NoSession]
    /\ scenario \in Scenarios
    /\ packets = [sent |-> 0, batch |-> [ch \in Channels |-> 0]] /\ faults = 0

Fault == faults < scenario.faults /\ faults' = faults + 1
-----------------------------------------------------------------------------
(* Conditions: one waiter each *)

InGap(pc) == pc \in {"gap", "missed"}
Woken(pc) ==
    CASE pc \in {"waiting", "asleep"} -> "test"
      [] pc = "gap" -> "missed"
      [] OTHER -> pc
Waits(pc) == IF pc = "missed" THEN "asleep" ELSE "waiting"

\* _kcpcb_cond.signal() and _sendque_cond.signal() on session r.
SignalRead(r) == [r EXCEPT !.reader = Woken(@)]
SignalSend(r) == [r EXCEPT !.sender = Woken(@)]
-----------------------------------------------------------------------------
(* KcpSession *)

\* notifyReadError(): once.  Both waiters are signalled; none of the locks is needed.
NotifyReadError(r) ==
    IF r.bReadError THEN r ELSE SignalSend(SignalRead([r EXCEPT !.bReadError = TRUE]))

NotifyWriteError(r) ==
    IF r.bWriteError THEN r ELSE SignalSend(SignalRead([r EXCEPT !.bWriteError = TRUE]))

\* SendMessage(): needs _sendque_mtx.
CanQueue(s) == ~InGap(ss[s].sender)
Queued(r, m) == SignalSend([r EXCEPT !.sendq = Append(@, m)])

ForceClosed(r) == Queued(r, "stop")

\* _kcpcb_mtx is free.
CanUseKcp(s) == ~InGap(ss[s].reader)

Unmoved == UNCHANGED <<isStop, stopping, lis, backlog, blacklist, acc>>
OnSession(s, r) ==
    /\ ss' = [ss EXCEPT ![s] = r]
    /\ Unmoved

\* The server's map of sessions, under its own lock.
AddConn(s) == conns' = conns \cup {s}
RemoveConn(s) == conns' = conns \ {s}

\* ReadMessage() adds its timer.
Armed(r) == [r EXCEPT !.reader = "test", !.armed = TRUE, !.expired = FALSE]

\* handleClient(): the session is entered into the server's map, the sender scheduled.
Handle(s) ==
    /\ ss[s].reader = "start"
    /\ OnSession(s, [Armed(ss[s]) EXCEPT !.sender = "queued"])
    /\ AddConn(s)
    /\ UNCHANGED <<sessions, recv, packets, faults>>

\* Faulty variant: the timer of a read that returns is forgotten, not cancelled.
ReturnedUncancelled(r) ==
    [r EXCEPT !.armed = FALSE, !.raced = r.queued > 0,
              !.queued = IF r.armed THEN @ + 1 ELSE @]

\* timer->cancel(): no use when the callback is already in the scheduler.
Returned(r) == [r EXCEPT !.armed = FALSE, !.raced = r.queued > 0]

\* The loop of ReadMessage(), and what handleClient() does with its result: a timeout forces
\* the close, an error or a close ends the loop, a message is answered.
ReadTest(s) ==
    LET r == ss[s]
        read == [Returned(r) EXCEPT !.ready = @ - 1]
    IN /\ r.reader = "test"
       /\ \/ /\ r.ready = 0 /\ ~r.bClose /\ ~r.bReadError /\ ~r.bReadTimeout
             /\ OnSession(s, [r EXCEPT !.reader = "gap"])
             /\ UNCHANGED faults
          \/ /\ r.bReadTimeout
             /\ OnSession(s, [r EXCEPT !.bReadTimeout = FALSE, !.reader = "force"])
             /\ UNCHANGED faults
          \/ /\ ~r.bReadTimeout /\ (r.bClose \/ r.bReadError)
             /\ OnSession(s, [Returned(r) EXCEPT !.reader = "ending"])
             /\ UNCHANGED faults
          \/ /\ ~r.bReadTimeout /\ ~r.bClose /\ ~r.bReadError /\ r.ready > 0
             /\ OnSession(s, [read EXCEPT !.reader = "reply"])
             /\ UNCHANGED faults
          \/ \* too long, or of no known type
             /\ ~r.bReadTimeout /\ ~r.bClose /\ ~r.bReadError /\ r.ready > 0
             /\ OnSession(s, NotifyReadError([read EXCEPT !.reader = "ending"]))
             /\ Fault
       /\ UNCHANGED <<conns, sessions, recv, packets>>

ReadWait(s) ==
    /\ InGap(ss[s].reader)
    /\ OnSession(s, [ss[s] EXCEPT !.reader = Waits(@)])
    /\ UNCHANGED <<conns, sessions, recv, packets, faults>>

\* SendMessage() of the answer, or of the null message of ForceClose().
ReadReply(s) ==
    /\ ss[s].reader \in {"reply", "force"} /\ CanQueue(s)
    /\ OnSession(s, IF ss[s].reader = "reply"
                    THEN Armed(Queued(ss[s], "msg"))
                    ELSE [ForceClosed(ss[s]) EXCEPT !.reader = "ending"])
    /\ UNCHANGED <<conns, sessions, recv, packets, faults>>

\* The callback on closing, the server's map, ForceClose().
ReadEnding(s) ==
    /\ ss[s].reader = "ending" /\ CanQueue(s)
    /\ OnSession(s, [ForceClosed(ss[s]) EXCEPT !.reader = "waitsender"])
    /\ RemoveConn(s)
    /\ UNCHANGED <<sessions, recv, packets, faults>>

WaitSender(s) ==
    /\ ss[s].reader = "waitsender" /\ ss[s].sem > 0
    /\ OnSession(s, [ss[s] EXCEPT !.sem = @ - 1, !.reader = "close"])
    /\ UNCHANGED <<conns, sessions, recv, packets, faults>>

\* dopacketOutput()
SendBegin(s) ==
    /\ ss[s].sender = "queued" /\ ss[s].sem > 0
    /\ OnSession(s, [ss[s] EXCEPT !.sem = @ - 1, !.sender = "test"])
    /\ UNCHANGED <<conns, sessions, recv, packets, faults>>

Told(r) == r.bClose \/ r.bReadError \/ r.bWriteError

SendTest(s) ==
    /\ ss[s].sender = "test"
    /\ OnSession(s, IF ss[s].sendq = <<>> /\ ~Told(ss[s])
                    THEN [ss[s] EXCEPT !.sender = "gap"]
                    ELSE [ss[s] EXCEPT !.sender = "write", !.tmp = ss[s].sendq, !.sendq = <<>>])
    /\ UNCHANGED <<conns, sessions, recv, packets, faults>>

SendWait(s) ==
    /\ InGap(ss[s].sender)
    /\ OnSession(s, [ss[s] EXCEPT !.sender = Waits(@)])
    /\ UNCHANGED <<conns, sessions, recv, packets, faults>>

\* write(): a message goes to the engine, or ikcp_send() refuses it.
WriteMessage(s) ==
    /\ CanUseKcp(s)
    /\ \/ /\ OnSession(s, [ss[s] EXCEPT !.tmp = Tail(@)])
          /\ UNCHANGED faults
       \/ /\ OnSession(s, NotifyWriteError([ss[s] EXCEPT !.tmp = <<>>, !.sender = "close"]))
          /\ Fault

\* The messages of the batch up to a null one or a failure, after which the session is
\* closed; otherwise the loop's condition is tested.
SendBatch(s) ==
    LET r == ss[s]
    IN /\ r.sender = "write"
       /\ \/ /\ r.tmp = <<>>
             /\ OnSession(s, [r EXCEPT !.sender = IF Told(r) THEN "close" ELSE "test"])
             /\ UNCHANGED faults
          \/ /\ r.tmp # <<>> /\ Head(r.tmp) = "stop"
             /\ OnSession(s, [r EXCEPT !.tmp = <<>>, !.sender = "close"])
             /\ UNCHANGED faults
          \/ r.tmp # <<>> /\ Head(r.tmp) = "msg" /\ WriteMessage(s)
       /\ UNCHANGED <<conns, sessions, recv, packets>>

\* Close(), by the reader, the sender or a receive loop.  call_once: the others wait.
\* The sender posts its permit afterwards.
Closing(s, who) ==
    CASE who = "reader" -> ss[s].reader = "close"
      [] who = "sender" -> ss[s].sender = "close"
      [] OTHER -> recv[who].pc = "close" /\ recv[who].sess = s
Closers == {"reader", "sender"} \cup Channels

Closed(s, who, r) ==
    CASE who = "reader" -> [r EXCEPT !.reader = "done"]
      [] who = "sender" -> [r EXCEPT !.sem = @ + 1, !.sender = "done"]
      [] OTHER -> r
ClosedRecv(who) ==
    IF who \in Channels
    THEN [recv EXCEPT ![who] = [pc |-> "recv", from |-> None, sess |-> None]] ELSE recv

\* onSessionClose(): by address, in the first of the maps that has it.  They are in no order.
Erase(addr) ==
    LET found == {k \in Keys : sessions[k][addr] # None}
    IN IF found = {} THEN UNCHANGED sessions
       ELSE \E k \in found : sessions' = [sessions EXCEPT ![k][addr] = None]

\* Faulty variant: not once; whoever closes erases the address.
CloseAgain(s, who) ==
    /\ Closing(s, who) /\ CanUseKcp(s)
    /\ OnSession(s, [ss[s] EXCEPT !.cl = "closing", !.closer = who])
    /\ Erase(ss[s].addr)
    /\ UNCHANGED <<conns, recv, packets, faults>>

\* The last flush, under _kcpcb_mtx, and onSessionClose(): the address is erased.
CloseBegin(s, who) ==
    /\ Closing(s, who) /\ ss[s].cl = "open" /\ CanUseKcp(s)
    /\ OnSession(s, [ss[s] EXCEPT !.cl = "closing", !.closer = who])
    /\ Erase(ss[s].addr)
    /\ UNCHANGED <<conns, recv, packets, faults>>

\* Both are signalled, without the locks.
CloseEnd(s, who) ==
    /\ Closing(s, who) /\ ss[s].cl = "closing" /\ ss[s].closer = who
    /\ OnSession(s, Closed(s, who, SignalSend(SignalRead(
                        [ss[s] EXCEPT !.bClose = TRUE, !.cl = "closed", !.closer = None]))))
    /\ recv' = ClosedRecv(who)
    /\ UNCHANGED <<conns, sessions, packets, faults>>

CloseOver(s, who) ==
    /\ Closing(s, who) /\ ss[s].cl = "closed"
    /\ OnSession(s, Closed(s, who, ss[s]))
    /\ recv' = ClosedRecv(who)
    /\ UNCHANGED <<conns, sessions, packets, faults>>

\* The read timer: it expires, and its callback is in the scheduler; the callback runs.
Expire(s) ==
    /\ ss[s].armed
    /\ OnSession(s, [ss[s] EXCEPT !.armed = FALSE, !.expired = TRUE, !.queued = @ + 1])
    /\ UNCHANGED <<conns, sessions, recv, packets, faults>>

\* Faulty variant: the flag is set and nobody is woken.
NotifyReadTimeoutQuiet(s) ==
    /\ ss[s].queued > 0
    /\ OnSession(s, [ss[s] EXCEPT !.queued = @ - 1, !.bReadTimeout = TRUE])
    /\ UNCHANGED <<conns, sessions, recv, packets, faults>>

NotifyReadTimeout(s) ==
    /\ ss[s].queued > 0
    /\ OnSession(s, SignalRead([ss[s] EXCEPT !.queued = @ - 1, !.bReadTimeout = TRUE]))
    /\ UNCHANGED <<conns, sessions, recv, packets, faults>>

\* kcp_output_func(): sendto() fails inside ikcp_update().
OutputFails(r) == NotifyWriteError(r)

\* doSendLoop() updates the sessions of its copy of the map.  An update without a failure
\* changes the engine only.
UpdateFails(s) ==
    /\ ss[s].cl # "none" /\ CanUseKcp(s) /\ ~lis.bClose /\ ~lis.bReadError
    /\ OnSession(s, OutputFails(ss[s]))
    /\ Fault
    /\ UNCHANGED <<conns, sessions, recv, packets>>

\* sendmsg(), broadcastmsg() of the server's map, by any fiber of the program.
UserSend(s) ==
    /\ s \in conns /\ CanQueue(s) /\ Fault
    /\ OnSession(s, Queued(ss[s], "msg"))
    /\ UNCHANGED <<conns, sessions, recv, packets>>
-----------------------------------------------------------------------------
(* KcpListener *)

LiveIn(k) == {c \in Clients : sessions[k][c] # None}
Live == Cardinality(LiveIn("own")) + Cardinality(LiveIn("-1"))
Idle == [pc |-> "recv", from |-> None, sess |-> None]
OnListener == UNCHANGED <<isStop, stopping, conns, packets>>

\* KcpSession::packetInput(): a message is complete, and the reader is signalled.
Received(r) == SignalRead([r EXCEPT !.ready = @ + 1])

IsConnectPacket(kind) == kind = "connect"
IsBlacklisted(c) == c \in blacklist

\* RecvFromBatch(): what has come, up to maxBatchSize packets.
RecvBatch(ch) ==
    /\ recv[ch].pc = "recv" /\ packets.batch[ch] = 0 /\ ~lis.bClose
    /\ \E c \in scenario.clients : scenario.channelOf[c] = ch
    /\ \E n \in 1..(scenario.packets - packets.sent) :
          packets' = [packets EXCEPT !.sent = @ + n, !.batch[ch] = n]
    /\ UNCHANGED <<isStop, stopping, lis, backlog, sessions, blacklist, conns, acc, recv, ss, faults>>

\* packetInput() of a packet from c: ignored when c is blacklisted; from an unknown address
\* only a connect packet is taken, if the queue is not full; of a session, a packet with
\* another conversation number (a repeated connect packet is one) closes it.  The rest of a
\* batch is handled whatever has been closed, with the number the socket then has.
Packet(c, kind) ==
    LET ch == scenario.channelOf[c]
        s == sessions[Key][c]
    IN /\ recv[ch].pc = "recv" /\ packets.batch[ch] > 0 /\ c \in scenario.clients
       /\ packets' = [packets EXCEPT !.batch[ch] = @ - 1]
       /\ \/ /\ IsBlacklisted(c)
             /\ UNCHANGED <<blacklist, recv, ss, faults>>
          \/ /\ ~IsBlacklisted(c) /\ s = None /\ ~IsConnectPacket(kind)
             /\ blacklist' = blacklist \cup {c}
             /\ UNCHANGED <<recv, ss, faults>>
          \/ /\ ~IsBlacklisted(c) /\ s = None /\ IsConnectPacket(kind)
             /\ recv' = IF Len(backlog) >= Backlog THEN recv
                        ELSE [recv EXCEPT ![ch] = [pc |-> "count", from |-> c, sess |-> None]]
             /\ UNCHANGED <<blacklist, ss, faults>>
          \/ /\ ~IsBlacklisted(c) /\ s # None /\ IsConnectPacket(kind)
             /\ recv' = [recv EXCEPT ![ch] = [pc |-> "close", from |-> c, sess |-> s]]
             /\ UNCHANGED <<blacklist, ss, faults>>
          \/ /\ ~IsBlacklisted(c) /\ s # None /\ ~IsConnectPacket(kind) /\ CanUseKcp(s)
             /\ ss' = [ss EXCEPT ![s] = Received(@)]
             /\ UNCHANGED <<blacklist, recv, faults>>
          \/ \* ikcp_input() refuses it
             /\ ~IsBlacklisted(c) /\ s # None /\ ~IsConnectPacket(kind) /\ CanUseKcp(s)
             /\ ss' = [ss EXCEPT ![s] = NotifyReadError(@)]
             /\ Fault
             /\ UNCHANGED <<blacklist, recv>>
       /\ UNCHANGED <<isStop, stopping, lis, backlog, sessions, conns, acc>>

\* Faulty variant: the number of sessions is not looked at.
CountNot(ch) ==
    /\ recv[ch].pc = "count"
    /\ recv' = [recv EXCEPT ![ch].pc = "create"]
    /\ OnListener /\ UNCHANGED <<lis, backlog, sessions, blacklist, acc, ss, faults>>

\* The number of sessions, under _session_mtx.
Count(ch) ==
    /\ recv[ch].pc = "count"
    /\ recv' = [recv EXCEPT ![ch] = IF Live >= MaxConn THEN Idle
                                    ELSE [@ EXCEPT !.pc = "create"]]
    /\ OnListener /\ UNCHANGED <<lis, backlog, sessions, blacklist, acc, ss, faults>>

\* The object of a new session: which one makes no difference.
Unused == CHOOSE s \in scenario.sids : ss[s].cl = "none"

\* The back packet, and the new session in the map, under _session_mtx again.  After Close()
\* its address may be in the map of the socket's own number as well.
Create(ch) ==
    LET c == recv[ch].from
        known == {d \in {c} : \E k \in Keys : sessions[k][d] # None}
    IN /\ recv[ch].pc = "create"
       /\ \E s \in scenario.sids :
             /\ ss[s].cl = "none" /\ s = Unused
             /\ ss' = [ss EXCEPT ![s] = NewSession(c)]
             /\ sessions' = [sessions EXCEPT ![Key][c] = s]
             /\ recv' = [recv EXCEPT ![ch].pc = "push", ![ch].sess = s]
       /\ lis' = [lis EXCEPT !.twice = @ \cup known]
       /\ OnListener /\ UNCHANGED <<backlog, blacklist, acc, faults>>

\* The queue, under _backlog_mtx, and notifyAccept().
PushBacklog(ch) ==
    /\ recv[ch].pc = "push" /\ ~InGap(acc)
    /\ backlog' = Append(backlog, recv[ch].sess)
    /\ acc' = Woken(acc)
    /\ recv' = [recv EXCEPT ![ch] = Idle]
    /\ OnListener /\ UNCHANGED <<lis, sessions, blacklist, ss, faults>>

Entered(s) == \E k \in Keys, c \in Clients : sessions[k][c] = s

\* notifyReadError(): the first time every session in the maps and the accept loop are told.
NotifyListenerError ==
    IF lis.bReadError THEN UNCHANGED <<lis, ss, acc>>
    ELSE /\ lis' = [lis EXCEPT !.bReadError = TRUE]
         /\ ss' = [s \in Sids |-> IF Entered(s) THEN NotifyReadError(ss[s]) ELSE ss[s]]
         /\ acc' = Woken(acc)

\* RecvFromBatch() fails, for sure once the socket is closed: the loop ends.
RecvFails(ch) ==
    /\ recv[ch].pc = "recv" /\ packets.batch[ch] = 0
    /\ IF lis.bClose THEN UNCHANGED faults ELSE Fault
    /\ recv' = [recv EXCEPT ![ch].pc = "exit"]
    /\ NotifyListenerError
    /\ OnListener /\ UNCHANGED <<backlog, sessions, blacklist>>

CleanupBlacklist ==
    /\ blacklist # {} /\ blacklist' = {}
    /\ OnListener /\ UNCHANGED <<lis, backlog, sessions, acc, recv, ss, faults>>

\* Accept() and the loop of startAccept(); with no accept timeout, which is the default.
\* A read error is never reset: from then on Accept() returns at once.
AcceptTest ==
    /\ acc = "test"
    /\ \/ /\ backlog = <<>> /\ ~lis.bReadError /\ ~lis.bClose
          /\ acc' = "gap" /\ UNCHANGED <<backlog, ss>>
       \/ /\ lis.bReadError \/ lis.bClose
          /\ acc' = "loop" /\ UNCHANGED <<backlog, ss>>
       \/ /\ ~lis.bReadError /\ ~lis.bClose /\ backlog # <<>>
          /\ backlog' = Tail(backlog)
          /\ ss' = [ss EXCEPT ![Head(backlog)].reader = "start"]
          /\ acc' = "loop"
    /\ OnListener /\ UNCHANGED <<lis, sessions, blacklist, recv, faults>>

AcceptWait ==
    /\ InGap(acc) /\ acc' = Waits(acc)
    /\ OnListener /\ UNCHANGED <<lis, backlog, sessions, blacklist, recv, ss, faults>>

\* while (!_isStop); then the listener is closed, unless Stop() has done so.
AcceptLoop ==
    /\ acc = "loop"
    /\ acc' = IF isStop THEN "done" ELSE "test"
    /\ lis' = [lis EXCEPT !.bClose = @ \/ isStop]
    /\ OnListener /\ UNCHANGED <<backlog, sessions, blacklist, recv, ss, faults>>

\* KcpListener::Close(): once; the sockets are closed and the accept loop is signalled.
CloseListener ==
    /\ lis' = [lis EXCEPT !.bClose = TRUE]
    /\ acc' = IF lis.bClose THEN acc ELSE Woken(acc)

\* Stop(): the flag; then, in the scheduler, the sockets are cancelled and closed and the
\* accept loop is signalled, once.
Stop ==
    /\ scenario.stop /\ ~isStop /\ isStop' = TRUE /\ stopping' = TRUE
    /\ UNCHANGED <<lis, backlog, sessions, blacklist, conns, acc, recv, ss, packets, faults>>

StopListener ==
    /\ stopping /\ stopping' = FALSE
    /\ CloseListener
    /\ UNCHANGED <<isStop, backlog, sessions, blacklist, conns, recv, ss, packets, faults>>
-----------------------------------------------------------------------------
Reader(s) == Handle(s) \/ ReadTest(s) \/ ReadWait(s) \/ ReadReply(s) \/ ReadEnding(s) \/ WaitSender(s)
Sender(s) == SendBegin(s) \/ SendTest(s) \/ SendWait(s) \/ SendBatch(s)
Close(s, who) == CloseBegin(s, who) \/ CloseEnd(s, who) \/ CloseOver(s, who)
RecvLoop(ch) == Count(ch) \/ Create(ch) \/ PushBacklog(ch)
Batch(ch) ==
    \E c \in Clients, kind \in {"connect", "data"} : scenario.channelOf[c] = ch /\ Packet(c, kind)
Accept == AcceptTest \/ AcceptWait \/ AcceptLoop

Step ==
    \/ \E s \in Sids :
          \/ Reader(s) \/ Sender(s) \/ Expire(s) \/ NotifyReadTimeout(s)
          \/ UpdateFails(s) \/ UserSend(s)
          \/ \E who \in Closers : Close(s, who)
    \/ \E ch \in Channels : RecvLoop(ch) \/ RecvBatch(ch) \/ RecvFails(ch)
    \/ \E c \in Clients, kind \in {"connect", "data"} : Packet(c, kind)
    \/ CleanupBlacklist \/ Accept \/ Stop \/ StopListener

Next == Step /\ UNCHANGED scenario

Spec == Init /\ [][Next]_vars

\* The scheduler runs every fiber that is ready, timers expire, their callbacks run, and a
\* closed socket ends its receive loop.
Fairness ==
    /\ \A s \in Sids :
          /\ WF_moving(Reader(s)) /\ WF_moving(Sender(s))
          /\ WF_moving(Expire(s)) /\ WF_moving(NotifyReadTimeout(s))
          /\ \A who \in Closers : WF_moving(Close(s, who))
    /\ \A ch \in Channels : /\ WF_moving(RecvLoop(ch)) /\ WF_moving(Batch(ch))
                            /\ WF_moving(lis.bClose /\ RecvFails(ch))
    /\ WF_moving(Accept) /\ WF_moving(StopListener)

FairSpec == Spec /\ Fairness
-----------------------------------------------------------------------------
(* Properties *)

\* A session that nobody has closed is found under its address, so that packets reach it
\* and a read error is told to it; an address never leads to a session that is closed.  Not
\* so for an address that got a second session while the first was in the maps: from what was
\* left of a batch at Close(), which looks under -1.  A new session is with one owner: the
\* receive loop, the queue, or its reader.
MapOwnsOpen ==
    /\ \A s \in Sids : ss[s].addr \notin lis.twice => (ss[s].cl = "open" <=> Entered(s))
    /\ \A k \in Keys : \A c \in LiveIn(k) : ss[sessions[k][c]].addr = c
    /\ lis.twice # {} => lis.bClose
    /\ \A s \in Sids : ss[s].cl # "none" =>
          Cardinality({ch \in Channels : recv[ch].pc = "push" /\ recv[ch].sess = s})
          + Cardinality({i \in DOMAIN backlog : backlog[i] = s})
          + (IF ss[s].reader # "none" THEN 1 ELSE 0) = 1

\* The limits are tested apart from what they limit: each receive loop but one can overshoot
\* them by one, and no more; with one loop they are kept.
LimitsKept ==
    LET over == Cardinality(Range(scenario.channelOf)) - 1
    IN Live <= MaxConn + over /\ Len(backlog) <= Backlog + over

\* Every open session is in the map, but for an address that got a second one after Close();
\* the sizes of the map and of the backlog are kept, but for the other receive loops
\* (KcpListener::packetInput, KcpListener::Close, KcpSession::Close).
SessionsSound == MapOwnsOpen /\ LimitsKept

\* ReadMessage() reports a timeout only when its own timer has expired, or when the callback
\* of an earlier read was in the scheduler already as that one returned.
TimeoutHonest ==
    [][\A s \in Sids :
         ss[s].reader = "test" /\ ss'[s].reader = "force" => ss[s].expired \/ ss[s].raced]_vars

\* WaitSender() has taken the permit before the sender came to it: the sender waits for ever.
Overtaken(s) == ss[s].sender = "queued" /\ ss[s].reader \in {"close", "done"}

\* Every session handed to the server ends: reader and sender are gone and it is closed,
\* unless a waiter has missed its signal or the sender was overtaken.  And Stop() ends the
\* accept loop, unless it has missed the signals.
Ends ==
    /\ \A s \in Sids :
          ss[s].reader = "start" ~>
            \/ ss[s].reader = "done" /\ ss[s].sender = "done" /\ ss[s].bClose
            \/ "asleep" \in {ss[s].reader, ss[s].sender} \/ Overtaken(s)
    /\ isStop ~> acc = "done" \/ acc = "asleep"
=============================================================================
