----------------------------- MODULE XftpSession -----------------------------
(***************************************************************************)
(* The file transfer server (xftp_server.cpp, xftp_session.cpp,            *)
(* xftp_worker.cpp).  The reader of a connection gives each packet to the  *)
(* worker thread of its file, which writes the file and schedules the      *)
(* response; scheduled callbacks run in any order and queue the response   *)
(* for the connection's writer fiber.                                      *)
(***************************************************************************)
EXTENDS Integers, Sequences, FiniteSets

CONSTANTS Handled,      \* commands with a worker's handler
          Unhandled,    \* commands with a servlet and no handler
          ThreadNum,    \* threads of the pool
          MaxPackets    \* bound: packets a client sends

VARIABLES conn,         \* Socket::_isConnect
          rd,           \* reader: where it is
          wr,           \* writer: [pc, batch]
          queue,        \* _sendQueue, 0 = the end mark
          packets,      \* history: the packets read, [cmd, index]
          thread,       \* worker thread -> its queue of packets
          sched,        \* responses whose callback is scheduled
          file,         \* the packets in the file, in order
          flushed       \* the responses sent, in order

xftpVars == <<conn, rd, wr, queue, packets, thread, sched, file, flushed>>
Threads == 0 .. (ThreadNum - 1)

\* A mutant of pushResponse(): the writer is not woken.
pushSilent(p) == queue' = Append(queue, p) /\ UNCHANGED wr
pushResponse(p) ==
    /\ queue' = Append(queue, p)
    /\ wr' = IF wr.pc = "wait" THEN [wr EXCEPT !.pc = "lock"] ELSE wr

-----------------------------------------------------------------------------
(* handleClient() *)
startWriter ==
    /\ rd = "start" /\ rd' = "recv" /\ wr' = [wr EXCEPT !.pc = "loop"]
    /\ UNCHANGED <<conn, queue, packets, thread, sched, file, flushed>>

\* The thread depends on the file's name; without a handler nothing happens.
dispatch(p, cmd, index) ==
    IF cmd \in Handled THEN thread' = [thread EXCEPT ![index % ThreadNum] = Append(@, p)] ELSE UNCHANGED thread

\* A packet with a servlet goes to a worker, and the reader reads on while connected.
RecvRequest ==
    /\ rd = "recv" /\ conn /\ Len(packets) < MaxPackets
    /\ \E cmd \in Handled \cup Unhandled, index \in {0, 1} :
          /\ packets' = Append(packets, [cmd |-> cmd, index |-> index])
          /\ dispatch(Len(packets) + 1, cmd, index)
    /\ UNCHANGED <<conn, rd, wr, queue, sched, file, flushed>>
\* No packet, a packet of another kind, or no servlet for it.
RecvFails ==
    /\ rd = "recv" /\ rd' = "end"
    /\ UNCHANGED <<conn, wr, queue, packets, thread, sched, file, flushed>>
PushEnd ==
    /\ rd = "end" /\ rd' = "close" /\ pushResponse(0)
    /\ UNCHANGED <<conn, packets, thread, sched, file, flushed>>
ReaderCloses ==
    /\ rd = "close" /\ rd' = "done" /\ conn' = FALSE
    /\ UNCHANGED <<wr, queue, packets, thread, sched, file, flushed>>

-----------------------------------------------------------------------------
\* handleTest() on a worker thread: the file is emptied for the first packet and
\* appended to for the others; the response is scheduled while the session lives.
SessionLives == rd # "done" \/ wr.pc # "done"
handleTest(t) ==
    /\ thread[t] # <<>>
    /\ LET p == Head(thread[t]) IN
          /\ \/ file' = IF p = 1 THEN <<p>> ELSE Append(file, p)
             \/ UNCHANGED file                                     \* it cannot be opened or written
          /\ sched' = IF SessionLives THEN sched \cup {p} ELSE sched
    /\ thread' = [thread EXCEPT ![t] = Tail(@)]
    /\ UNCHANGED <<conn, rd, wr, queue, packets, flushed>>

\* The scheduled callback.
Respond ==
    /\ \E p \in sched : sched' = sched \ {p} /\ pushResponse(p)
    /\ UNCHANGED <<conn, rd, packets, thread, file, flushed>>

-----------------------------------------------------------------------------
(* doFlush() *)
\* A mutant of FlushTakes: the batch is a copy of the queue.
FlushCopies ==
    /\ wr.pc \in {"loop", "lock"}
    /\ IF wr.pc = "loop" /\ ~conn THEN wr' = [wr EXCEPT !.pc = "stop"]
       ELSE IF queue = <<>> /\ conn THEN wr' = [wr EXCEPT !.pc = "wait"]
       ELSE wr' = [pc |-> "send", batch |-> queue, stop |-> FALSE]
    /\ UNCHANGED <<conn, rd, queue, packets, thread, sched, file, flushed>>
\* The whole queue is taken.
FlushTakes ==
    /\ wr.pc \in {"loop", "lock"}
    /\ IF wr.pc = "loop" /\ ~conn THEN wr' = [wr EXCEPT !.pc = "stop"] /\ UNCHANGED queue
       ELSE IF queue = <<>> /\ conn THEN wr' = [wr EXCEPT !.pc = "wait"] /\ UNCHANGED queue
       ELSE wr' = [pc |-> "send", batch |-> queue, stop |-> FALSE] /\ queue' = <<>>
    /\ UNCHANGED <<conn, rd, packets, thread, sched, file, flushed>>
\* The end mark does not end the batch: what is behind it is still sent.
FlushSends ==
    /\ wr.pc = "send"
    /\ \/ wr.batch = <<>> /\ wr' = [wr EXCEPT !.pc = IF wr.stop THEN "stop" ELSE "loop"] /\ UNCHANGED flushed
       \/ wr.batch # <<>> /\ Head(wr.batch) = 0 /\ wr' = [wr EXCEPT !.batch = Tail(@), !.stop = TRUE] /\ UNCHANGED flushed
       \/ wr.batch # <<>> /\ Head(wr.batch) # 0 /\ conn /\ wr' = [wr EXCEPT !.batch = Tail(@)] /\ flushed' = Append(flushed, Head(wr.batch))
       \/ wr.batch # <<>> /\ Head(wr.batch) # 0 /\ wr' = [wr EXCEPT !.pc = "stop", !.batch = <<>>] /\ UNCHANGED flushed
    /\ UNCHANGED <<conn, rd, queue, packets, thread, sched, file>>
FlushEnds ==
    /\ wr.pc = "stop" /\ wr' = [wr EXCEPT !.pc = "done"] /\ conn' = FALSE
    /\ UNCHANGED <<rd, queue, packets, thread, sched, file, flushed>>

XftpInit ==
    /\ conn = TRUE /\ rd = "start" /\ wr = [pc |-> "none", batch |-> <<>>, stop |-> FALSE]
    /\ queue = <<>> /\ packets = <<>> /\ thread = [t \in Threads |-> <<>>]
    /\ sched = {} /\ file = <<>> /\ flushed = <<>>

XftpReader == startWriter \/ PushEnd \/ ReaderCloses \/ (~conn /\ RecvFails)
XftpWriter == FlushTakes \/ FlushSends \/ FlushEnds
XftpNext == \/ XftpReader \/ XftpWriter \/ RecvRequest \/ RecvFails \/ Respond
            \/ \E t \in Threads : handleTest(t)

\* Fairness: the fibers of the connection run while they can (XftpReader, XftpWriter), and so
\* do scheduled callbacks (Respond) and the worker threads (handleTest(t)).

-----------------------------------------------------------------------------
\* A packet is answered at most once, never before a worker has handled it, and the
\* packets of one file reach the disk in the order they were sent.  Responses may be
\* in another order.
AnsweredOnce ==
    /\ \A i, j \in 1 .. Len(flushed) : flushed[i] = flushed[j] => i = j
    /\ \A t \in Threads : \A i \in 1 .. Len(thread[t]) : thread[t][i] \notin {flushed[k] : k \in 1 .. Len(flushed)}
    /\ \A i, j \in 1 .. Len(file) : i < j /\ packets[file[i]].index = packets[file[j]].index => file[i] < file[j]

\* Both fibers of a connection that is closed end, and a packet with a handler is
\* answered unless the connection ends.
XftpEnds ==
    /\ ~conn ~> rd = "done" /\ wr.pc = "done"
    /\ \A p \in 1 .. MaxPackets : (p <= Len(packets) /\ packets[p].cmd \in Handled)
                                  ~> (p \in {flushed[k] : k \in 1 .. Len(flushed)} \/ ~conn)
=============================================================================
