------------------------------- MODULE Monitor -------------------------------
(***************************************************************************)
(* What FiberMutex and FiberCondition promise to the fibers that use them, *)
(* as stated by the @pre/@post comments of mutex.h: a monitor with one     *)
(* condition.  A client is outside, inside lock(), inside the critical     *)
(* section, or inside wait().  Nothing is said of queues, wake-ups or      *)
(* schedulers.                                                             *)
(***************************************************************************)
CONSTANTS
    Fibers        \* the fibers that use the monitor

VARIABLES
    client,       \* client[f]: where fiber f is, as its own code sees it
    notified      \* the fibers in wait() that a signal or a broadcast chose

vars == <<client, notified>>

Init ==
    /\ client = [f \in Fibers |-> "out"]
    /\ notified = {}

\* Nobody is between a return of lock()/wait() and the next unlock()/wait().
Free == \A g \in Fibers : client[g] # "in"

\* lock() is called; it may return at once only when the monitor is free.
Call(f) ==
    /\ client[f] = "out"
    /\ \/ client' = [client EXCEPT ![f] = "lock"]
       \/ Free /\ client' = [client EXCEPT ![f] = "in"]
    /\ UNCHANGED notified

\* A blocked lock() returns.
Enter(f) ==
    /\ client[f] = "lock"
    /\ Free
    /\ client' = [client EXCEPT ![f] = "in"]
    /\ UNCHANGED notified

\* A wait() returns: only after a notification, and with the monitor held.
Reenter(f) ==
    /\ client[f] = "wait"
    /\ f \in notified
    /\ Free
    /\ client' = [client EXCEPT ![f] = "in"]
    /\ notified' = notified \ {f}

Leave(f) ==
    /\ client[f] = "in"
    /\ client' = [client EXCEPT ![f] = "out"]
    /\ UNCHANGED notified

Wait(f) ==
    /\ client[f] = "in"
    /\ client' = [client EXCEPT ![f] = "wait"]
    /\ UNCHANGED notified

\* signal() notifies one waiter, broadcast() every one that has not been yet.
Notify(S) ==
    /\ S # {}
    /\ \A f \in S : client[f] = "wait" /\ f \notin notified
    /\ notified' = notified \cup S
    /\ UNCHANGED client

Next ==
    \/ \E f \in Fibers : Call(f) \/ Enter(f) \/ Reenter(f) \/ Leave(f) \/ Wait(f)
    \/ \E S \in SUBSET Fibers : Notify(S)

Spec == Init /\ [][Next]_vars
=============================================================================
