----------------------------- MODULE FoxThread -----------------------------
(***************************************************************************)
(* A FoxThread (db/fox_thread.cpp): an event loop of libevent and a queue  *)
(* of callbacks that other threads fill.  A dispatch appends a callback    *)
(* under the lock and then writes a byte to a socket pair; the loop's      *)
(* read_cb() takes the bytes and the whole queue and runs it as a batch.   *)
(* The empty callback, which stop() appends, breaks the loop and drops the *)
(* rest of its batch.  The operators are on one thread's record.           *)
(***************************************************************************)
EXTENDS Naturals, Sequences

STOP == [op |-> "stop"]      \* the null callback

(* FoxThread::FoxThread() *)
NewThread == [m_callbacks |-> <<>>, batch |-> <<>>, byte |-> FALSE, m_start |-> FALSE, loop |-> "none"]

(* FoxThread::start() and thread_cb() *)
StartThread(t) == [t EXCEPT !.loop = "running", !.m_start = TRUE]

(* FoxThread::dispatch() *)
Dispatch(t, cb) == [t EXCEPT !.m_callbacks = Append(@, cb), !.byte = TRUE]

(* FoxThread::stop(): the byte is written only once there is a thread. *)
StopThread(t) == [t EXCEPT !.m_callbacks = Append(@, STOP), !.byte = @ \/ t.loop # "none"]

\* The loop has nothing else in hand.
InLoop(t) == t.loop = "running" /\ t.batch = <<>>

(* read_cb(): the bytes, and the queue as a batch. *)
ReadCb(t) == [t EXCEPT !.byte = FALSE, !.batch = t.m_callbacks, !.m_callbacks = <<>>]

(* The next callback of the batch has run; the null one ends the loop. *)
RanOne(t) == [t EXCEPT !.batch = Tail(@)]
BreakLoop(t) == [t EXCEPT !.batch = <<>>, !.m_start = FALSE, !.loop = "ended"]
=============================================================================
