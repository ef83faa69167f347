------------------------------ MODULE FiberSync ------------------------------
(***************************************************************************)
(* FiberMutex and FiberCondition (mutex.h, mutex.cpp): the lock with       *)
(* direct hand-off and the condition variable the stream, KCP and worker   *)
(* code block on.  A fiber that has to wait puts itself in a queue under   *)
(* the thread lock, releases that lock, and only then calls YieldToHold(): *)
(* between the two a waker on another thread can already have scheduled    *)
(* it.  Each action is one section under the thread locks (m_mutex), or    *)
(* one switch of the scheduler.                                            *)
(*                                                                         *)
(* Of the scheduler only what the locks rely on is here: Schedule(f)       *)
(* queues an entry, and Run() takes an entry of a fiber that is not EXEC   *)
(* (scheduler.cpp:131-136); module Scheduler has the details.              *)
(***************************************************************************)
EXTENDS Integers, Sequences

CONSTANTS
    Fibers,       \* the fibers that share one mutex and its condition
    Nil           \* no fiber (a null Fiber::ptr)

ASSUME NilAssumption == Nil \notin Fibers

VARIABLES
    pc,           \* "out", "lock" (inside lock()), "in" (owns), "wait" (inside wait())
    status,       \* the fiber's _status: "EXEC" or "HOLD"
    owner,        \* FiberMutex::m_owner
    mwaiters,     \* FiberMutex::m_waiters
    cwaiters,     \* FiberCondition::m_waiters
    sig,          \* sig[f]: "next" of the signal() fiber f is in the middle of
    runq          \* runq[f]: scheduler entries queued for fiber f

vars == <<pc, status, owner, mwaiters, cwaiters, sig, runq>>

InQueue(f, q) == \E i \in 1..Len(q) : q[i] = f

Init ==
    /\ pc = [f \in Fibers |-> "out"]
    /\ status = [f \in Fibers |-> "EXEC"]
    /\ owner = Nil
    /\ mwaiters = <<>>
    /\ cwaiters = <<>>
    /\ sig = [f \in Fibers |-> Nil]
    /\ runq = [f \in Fibers |-> 0]

\* Fiber f runs its own code at pc p and is not in the middle of a signal().
Running(f, p) == status[f] = "EXEC" /\ pc[f] = p /\ sig[f] = Nil

Schedule(f) == runq' = [runq EXCEPT ![f] = @ + 1]
-----------------------------------------------------------------------------
(* FiberMutex *)

\* lock(), the section under m_mutex: take the free mutex, or queue.
Lock(f) ==
    /\ Running(f, "out")
    /\ \/ /\ owner = Nil
          /\ owner' = f
          /\ pc' = [pc EXCEPT ![f] = "in"]
          /\ UNCHANGED mwaiters
       \/ /\ owner # Nil
          /\ mwaiters' = Append(mwaiters, f)
          /\ pc' = [pc EXCEPT ![f] = "lock"]
          /\ UNCHANGED owner
    /\ UNCHANGED <<status, cwaiters, sig, runq>>

\* Faulty variants of unlockNoLock(): the woken fiber stays in the queue; the
\* mutex is just released, nobody is woken.
UnlockNoPop ==
    IF mwaiters = <<>>
    THEN /\ owner' = Nil
         /\ UNCHANGED <<mwaiters, runq>>
    ELSE /\ owner' = Head(mwaiters)
         /\ UNCHANGED mwaiters
         /\ Schedule(Head(mwaiters))
UnlockNoHandOff == owner' = Nil /\ UNCHANGED <<mwaiters, runq>>

\* unlockNoLock(): the first waiter is made the owner and scheduled.
UnlockNoLock ==
    IF mwaiters = <<>>
    THEN /\ owner' = Nil
         /\ UNCHANGED <<mwaiters, runq>>
    ELSE /\ owner' = Head(mwaiters)
         /\ mwaiters' = Tail(mwaiters)
         /\ Schedule(Head(mwaiters))

Unlock(f) ==
    /\ Running(f, "in")
    /\ UnlockNoLock
    /\ pc' = [pc EXCEPT ![f] = "out"]
    /\ UNCHANGED <<status, cwaiters, sig>>

\* unlockIfNotUnique() when somebody waits; otherwise it changes nothing.
UnlockIfNotUnique(f) ==
    /\ Running(f, "in")
    /\ mwaiters # <<>>
    /\ UnlockNoLock
    /\ pc' = [pc EXCEPT ![f] = "out"]
    /\ UNCHANGED <<status, cwaiters, sig>>
-----------------------------------------------------------------------------
(* FiberCondition *)

\* wait(), the section under both thread locks: queue, then release the mutex.
CondWait(f) ==
    /\ Running(f, "in")
    /\ cwaiters' = Append(cwaiters, f)
    /\ UnlockNoLock
    /\ pc' = [pc EXCEPT ![f] = "wait"]
    /\ UNCHANGED <<status, sig>>

\* signal(), first section: pop a waiter, under the condition's lock alone.
\* Callers may hold the mutex or not.
SignalPop(f) ==
    /\ Running(f, "out") \/ Running(f, "in")
    /\ cwaiters # <<>>
    /\ sig' = [sig EXCEPT ![f] = Head(cwaiters)]
    /\ cwaiters' = Tail(cwaiters)
    /\ UNCHANGED <<pc, status, owner, mwaiters, runq>>

\* Faulty variants of that section: the mutex is taken whether or not it is
\* free; the waiter jumps the queue; it is woken in either case; it is
\* forgotten when the mutex is taken.
SignalSteal(f) ==
    /\ sig[f] # Nil
    /\ owner' = sig[f]
    /\ Schedule(sig[f])
    /\ sig' = [sig EXCEPT ![f] = Nil]
    /\ UNCHANGED <<pc, status, mwaiters, cwaiters>>
SignalMoveWith(f, queued, woken) ==
    /\ sig[f] # Nil
    /\ IF owner = Nil
       THEN owner' = sig[f] /\ Schedule(sig[f]) /\ UNCHANGED mwaiters
       ELSE /\ mwaiters' = queued
            /\ IF woken THEN Schedule(sig[f]) ELSE UNCHANGED runq
            /\ UNCHANGED owner
    /\ sig' = [sig EXCEPT ![f] = Nil]
    /\ UNCHANGED <<pc, status, cwaiters>>
SignalMoveFirst(f) == SignalMoveWith(f, <<sig[f]>> \o mwaiters, FALSE)
SignalMoveWoken(f) == SignalMoveWith(f, Append(mwaiters, sig[f]), TRUE)
SignalMoveDropped(f) == SignalMoveWith(f, mwaiters, FALSE)

\* signal(), second section: hand the popped fiber the free mutex, or move it
\* to the mutex's queue.
SignalMove(f) ==
    /\ sig[f] # Nil
    /\ \/ /\ owner = Nil
          /\ owner' = sig[f]
          /\ Schedule(sig[f])
          /\ UNCHANGED mwaiters
       \/ /\ owner # Nil
          /\ mwaiters' = Append(mwaiters, sig[f])
          /\ UNCHANGED <<owner, runq>>
    /\ sig' = [sig EXCEPT ![f] = Nil]
    /\ UNCHANGED <<pc, status, cwaiters>>

\* broadcast(): the loop of signal()'s second half over all waiters, under
\* both thread locks.
Broadcast(f) ==
    /\ Running(f, "out") \/ Running(f, "in")
    /\ cwaiters # <<>>
    /\ \/ /\ owner = Nil
          /\ owner' = Head(cwaiters)
          /\ Schedule(Head(cwaiters))
          /\ mwaiters' = mwaiters \o Tail(cwaiters)
       \/ /\ owner # Nil
          /\ mwaiters' = mwaiters \o cwaiters
          /\ UNCHANGED <<owner, runq>>
    /\ cwaiters' = <<>>
    /\ UNCHANGED <<pc, status, sig>>
-----------------------------------------------------------------------------
(* The scheduler, as far as blocking and waking go *)

\* Fiber::YieldToHold() at the end of lock() and wait().
YieldToHold(f) ==
    /\ Running(f, "lock") \/ Running(f, "wait")
    /\ status' = [status EXCEPT ![f] = "HOLD"]
    /\ UNCHANGED <<pc, owner, mwaiters, cwaiters, sig, runq>>

\* Faulty variant: the fiber is swapped in although no entry was queued.
ResumeSpurious(f) ==
    /\ status[f] = "HOLD"
    /\ runq' = [runq EXCEPT ![f] = @ - 1]
    /\ status' = [status EXCEPT ![f] = "EXEC"]
    /\ pc' = [pc EXCEPT ![f] = "in"]
    /\ UNCHANGED <<owner, mwaiters, cwaiters, sig>>

\* Run() takes an entry of f, whose fiber is not EXEC, and swaps it in: the
\* call that blocked returns.
Resume(f) ==
    /\ runq[f] > 0
    /\ status[f] = "HOLD"
    /\ runq' = [runq EXCEPT ![f] = @ - 1]
    /\ status' = [status EXCEPT ![f] = "EXEC"]
    /\ pc' = [pc EXCEPT ![f] = "in"]
    /\ UNCHANGED <<owner, mwaiters, cwaiters, sig>>

Step(f) ==
    \/ Lock(f) \/ Unlock(f) \/ UnlockIfNotUnique(f)
    \/ CondWait(f) \/ SignalPop(f) \/ SignalMove(f) \/ Broadcast(f)
    \/ YieldToHold(f) \/ Resume(f)

Next == \E f \in Fibers : Step(f)

Spec == Init /\ [][Next]_vars

\* Straight-line code is executed and queued fibers are run (the scheduler's
\* own promise); a caller that holds the mutex is assumed to release it, even
\* when it signals in a loop before (strong fairness of Unlock).
Fairness ==
    \A f \in Fibers : /\ WF_vars(YieldToHold(f))
                      /\ WF_vars(Resume(f))
                      /\ WF_vars(SignalMove(f))
                      /\ SF_vars(Unlock(f))

FairSpec == Spec /\ Fairness
-----------------------------------------------------------------------------
(* Properties *)

Blocked(f) == pc[f] \in {"lock", "wait"}

TypeOK ==
    /\ pc \in [Fibers -> {"out", "lock", "in", "wait"}]
    /\ status \in [Fibers -> {"EXEC", "HOLD"}]
    /\ owner \in Fibers \cup {Nil}
    /\ mwaiters \in Seq(Fibers)
    /\ cwaiters \in Seq(Fibers)
    /\ sig \in [Fibers -> Fibers \cup {Nil}]
    /\ runq \in [Fibers -> Nat]

\* The asserts of mutex.cpp: a fiber that returns from lock() or wait() owns
\* the mutex (DEBUG asserts, lines 150 and 219; lines 167, 179 and 208 for the
\* next call), one that calls lock() neither owns it nor waits for it (lines
\* 134-136), and the fiber a signal() has popped neither owns the mutex nor
\* waits for it, even when other fibers ran between signal()'s two sections
\* (lines 237-239).
AssertsHold ==
    \A f \in Fibers :
        /\ pc[f] = "in" => owner = f
        /\ pc[f] = "out" => owner # f /\ ~InQueue(f, mwaiters)
        /\ sig[f] # Nil => owner # sig[f] /\ ~InQueue(sig[f], mwaiters)

\* f is in one of the queues, or in the hands of a signal() in progress.
Parked(f) ==
    \/ InQueue(f, mwaiters) \/ InQueue(f, cwaiters)
    \/ \E g \in Fibers : sig[g] = f

\* A blocked fiber is either parked where somebody will find it, or it has been
\* given the mutex and has exactly one scheduler entry; no other fiber has one.
WakeUps(f) ==
    IF Blocked(f)
    THEN IF Parked(f) THEN runq[f] = 0 /\ owner # f
                      ELSE runq[f] = 1 /\ owner = f
    ELSE runq[f] = 0 /\ ~Parked(f)

\* No fiber that lock() or wait() blocks is stranded and none is woken twice,
\* and nobody is parked on the mutex while it is free: the hand-off of
\* unlockNoLock(), signal() and broadcast() loses and duplicates no wake-up.
WokenExactlyOnce ==
    /\ owner = Nil => mwaiters = <<>>
    /\ \A f \in Fibers : WakeUps(f)

\* "strictly FIFO" (mutex.h:384-387): while fibers wait for the mutex the only
\* fiber that can become its owner is the first of them, whoever calls lock(),
\* signal() or broadcast() meanwhile, and the others keep their order.
StrictFifo ==
    [][mwaiters # <<>> =>
          /\ owner' # owner => owner' = Head(mwaiters) /\ mwaiters' = Tail(mwaiters)
          /\ owner' = owner => SubSeq(mwaiters', 1, Len(mwaiters)) = mwaiters]_vars

\* Seen from the callers, the mutex and the condition are a monitor: see the
\* comments of lock(), unlock(), wait(), signal(), broadcast() in mutex.h.
Notified == {f \in Fibers : pc[f] = "wait" /\ ~InQueue(f, cwaiters)}
Mon == INSTANCE Monitor WITH client <- pc, notified <- Notified
MonitorSpec == Mon!Spec

\* A fiber that calls lock() gets the mutex.
LockReturns == \A f \in Fibers : pc[f] = "lock" ~> pc[f] = "in"

\* A waiter that a signal() or a broadcast() has taken out of the condition's
\* queue returns from wait() with the mutex: a notification is never lost, even
\* when the notified fiber has not reached its YieldToHold() yet.
NotifiedReturns == \A f \in Fibers : f \in Notified ~> pc[f] = "in"
=============================================================================
