------------------------------ MODULE FoxPool ------------------------------
(***************************************************************************)
(* A FoxThreadPool (db/fox_thread.cpp).  A plain pool deals the callbacks  *)
(* out in turn.  One with m_advance keeps them: whoever calls check()      *)
(* takes a free thread and a callback under the pool's lock, dispatches    *)
(* the one to the other and goes round again, while others do the same.    *)
(* The callback holds a shared pointer to its thread, whose deleter        *)
(* releaseFoxThread() returns the thread when the batch is destroyed.      *)
(***************************************************************************)
EXTENDS FoxThread, FiniteSets

CONSTANTS m_size,    \* threads of the pool
          Jobs       \* callbacks the callers dispatch

VARIABLES thr,       \* m_threads
          pool,      \* m_callbacks, m_freeFoxThreads, m_cur, m_start, m_advance
          checks,    \* calls of check() at the head of its loop
          hands,     \* thread and callback taken by each call inside the loop
          vec,       \* what a batchDispatch() that holds the lock has still to deal out
          job,       \* what became of each callback
          stopping   \* threads stop() has still to stop

foxPoolVars == <<thr, pool, checks, hands, vec, job, stopping>>

Threads == 0 .. m_size - 1
Wrapped(j) == [op |-> "job", job |-> j, wrap |-> TRUE]
Plain(j) == [op |-> "job", job |-> j, wrap |-> FALSE]

\* The pool's lock is free.
Lock == vec = <<>>
Queued(js) == job' = [j \in Jobs |-> IF j \in js THEN "queued" ELSE job[j]]

(* FoxThreadPool::start() *)
Start ==
    /\ \A t \in Threads : thr[t].loop = "none"
    /\ thr' = [t \in Threads |-> StartThread(thr[t])]
    /\ pool' = [pool EXCEPT !.m_freeFoxThreads = [k \in 1 .. m_size |-> k - 1], !.m_start = TRUE]
    /\ checks' = checks + 1
    /\ UNCHANGED <<hands, vec, job, stopping>>

(* check(): nothing to do, ... *)
CheckEnds ==
    /\ checks > 0
    /\ ~pool.m_start \/ (Lock /\ (pool.m_freeFoxThreads = <<>> \/ pool.m_callbacks = <<>>))
    /\ checks' = checks - 1
    /\ UNCHANGED <<thr, pool, hands, vec, job, stopping>>

\* Mutant: the thread stays in the list of free ones.
CheckKeeps ==
    /\ checks > 0 /\ Lock
    /\ pool.m_start /\ pool.m_freeFoxThreads # <<>> /\ pool.m_callbacks # <<>>
    /\ hands' = hands \cup {<<Head(pool.m_freeFoxThreads), Head(pool.m_callbacks)>>}
    /\ pool' = [pool EXCEPT !.m_callbacks = Tail(@)]
    /\ checks' = checks - 1
    /\ UNCHANGED <<thr, vec, job, stopping>>

(* ... or the first free thread and the first callback are taken, ... *)
CheckTakes ==
    /\ checks > 0 /\ Lock
    /\ pool.m_start /\ pool.m_freeFoxThreads # <<>> /\ pool.m_callbacks # <<>>
    /\ hands' = hands \cup {<<Head(pool.m_freeFoxThreads), Head(pool.m_callbacks)>>}
    /\ pool' = [pool EXCEPT !.m_freeFoxThreads = Tail(@), !.m_callbacks = Tail(@)]
    /\ checks' = checks - 1
    /\ UNCHANGED <<thr, vec, job, stopping>>

(* ... and the thread gets the callback.  One that does not run gives it   *)
(* back to the front, and its pointer's deleter the thread, in a check()   *)
(* of its own inside this one.                                             *)
CheckGives(t, j) ==
    /\ <<t, j>> \in hands /\ hands' = hands \ {<<t, j>>} /\ checks' = checks + 1
    /\ \/ /\ thr[t].m_start
          /\ thr' = [thr EXCEPT ![t] = Dispatch(@, Wrapped(j))] /\ UNCHANGED pool
       \/ /\ ~thr[t].m_start /\ Lock
          /\ pool' = [pool EXCEPT !.m_callbacks = <<j>> \o @, !.m_freeFoxThreads = Append(@, t)]
          /\ UNCHANGED thr
    /\ UNCHANGED <<vec, job, stopping>>

(* dispatch(cb) *)
DispatchJob(j) ==
    /\ job[j] = "new" /\ Lock /\ Queued({j})
    /\ IF pool.m_advance
       THEN /\ pool' = [pool EXCEPT !.m_callbacks = Append(@, j)] /\ checks' = checks + 1
            /\ UNCHANGED thr
       ELSE /\ pool' = [pool EXCEPT !.m_cur = @ + 1]
            /\ thr' = [thr EXCEPT ![pool.m_cur % m_size] = Dispatch(@, Plain(j))]
            /\ UNCHANGED checks
    /\ UNCHANGED <<hands, vec, stopping>>

\* The vectors of the callbacks that nobody has dispatched yet.
Vectors ==
    LET new == {j \in Jobs : job[j] = "new"}
    IN  {js \in [1 .. Cardinality(new) -> new] : \A k, l \in DOMAIN js : js[k] = js[l] => k = l}

(* batchDispatch(): with m_advance all at once, ... *)
BatchDispatch ==
    /\ Lock
    /\ \E js \in Vectors :
          /\ Len(js) > 1 /\ Queued({js[k] : k \in DOMAIN js})
          /\ IF pool.m_advance
             THEN /\ pool' = [pool EXCEPT !.m_callbacks = @ \o js] /\ checks' = checks + 1
                  /\ UNCHANGED vec
             ELSE vec' = js /\ UNCHANGED <<pool, checks>>
    /\ UNCHANGED <<thr, hands, stopping>>

(* ... or one to each thread in turn, under the lock. *)
BatchNext ==
    /\ vec # <<>> /\ vec' = Tail(vec)
    /\ pool' = [pool EXCEPT !.m_cur = @ + 1]
    /\ thr' = [thr EXCEPT ![pool.m_cur % m_size] = Dispatch(@, Plain(Head(vec)))]
    /\ UNCHANGED <<checks, hands, job, stopping>>

(* dispatch(id, cb): to one thread, whatever the pool's mode. *)
DispatchTo(t, j) ==
    /\ job[j] = "new" /\ Queued({j})
    /\ thr' = [thr EXCEPT ![t] = Dispatch(@, Plain(j))]
    /\ UNCHANGED <<pool, checks, hands, vec, stopping>>

(* The event loop of thread t: read_cb() takes the queue, ... *)
LoopTake(t) ==
    /\ InLoop(thr[t]) /\ thr[t].byte
    /\ thr' = [thr EXCEPT ![t] = ReadCb(@)]
    /\ UNCHANGED <<pool, checks, hands, vec, job, stopping>>

IsStop(cb) == cb.op = "stop"
\* The callbacks of a batch that run: those up to the null one.
Ran(cbs) == {cbs[k].job : k \in {i \in DOMAIN cbs : \A l \in 1 .. i : ~IsStop(cbs[l])}}
Pointers(cbs) == {k \in DOMAIN cbs : ~IsStop(cbs[k]) /\ cbs[k].wrap}

(* ... runs it up to a null callback and destroys it, which releases the   *)
(* thread once for each shared pointer in it (releaseFoxThread()).         *)
LoopRun(t) ==
    LET cbs == thr[t].batch
        n == Cardinality(Pointers(cbs))
        stop == \E k \in DOMAIN cbs : IsStop(cbs[k])
    IN  /\ cbs # <<>> /\ (n > 0 => Lock)
        /\ thr' = [thr EXCEPT ![t] = IF stop THEN BreakLoop(@) ELSE [@ EXCEPT !.batch = <<>>]]
        /\ pool' = [pool EXCEPT !.m_freeFoxThreads = @ \o [k \in 1 .. n |-> t]]
        /\ checks' = checks + n
        /\ job' = [j \in Jobs |->
                     IF j \in Ran(cbs) THEN (IF job[j] = "queued" THEN "run" ELSE "again")
                     ELSE IF \E k \in DOMAIN cbs : ~IsStop(cbs[k]) /\ cbs[k].job = j THEN "dropped"
                     ELSE job[j]]
        /\ UNCHANGED <<hands, vec, stopping>>

(* stop(): the threads one after the other, then m_start. *)
StopBegin == pool.m_start /\ stopping = 0 /\ stopping' = m_size /\ UNCHANGED <<thr, pool, checks, hands, vec, job>>
StopNext ==
    /\ stopping > 0 /\ stopping' = stopping - 1
    /\ thr' = [thr EXCEPT ![m_size - stopping] = StopThread(@)]
    /\ pool' = [pool EXCEPT !.m_start = stopping > 1]
    /\ UNCHANGED <<checks, hands, vec, job>>

PoolInit == /\ thr = [t \in Threads |-> NewThread] /\ job = [j \in Jobs |-> "new"]
            /\ checks = 0 /\ hands = {} /\ vec = <<>> /\ stopping = 0
            /\ \E a \in BOOLEAN : pool = [m_callbacks |-> <<>>, m_freeFoxThreads |-> <<>>, m_cur |-> 0,
                                          m_start |-> FALSE, m_advance |-> a]

PoolNext == \/ Start \/ CheckEnds \/ CheckTakes \/ BatchDispatch \/ BatchNext \/ StopBegin \/ StopNext
            \/ \E j \in Jobs : DispatchJob(j)
            \/ \E t \in Threads, j \in Jobs : CheckGives(t, j) \/ DispatchTo(t, j)
            \/ \E t \in Threads : LoopTake(t) \/ LoopRun(t)

-----------------------------------------------------------------------------
\* What thread t has in hand and in its queue.
Todo(t) == thr[t].batch \o thr[t].m_callbacks
Stopped == \E t \in Threads : thr[t].loop = "ended" \/ \E k \in DOMAIN Todo(t) : IsStop(Todo(t)[k])
IsFree(t) == \E k \in DOMAIN pool.m_freeFoxThreads : pool.m_freeFoxThreads[k] = t

\* check() finds only threads that do not run: it calls itself without end.
Spins == /\ pool.m_start /\ pool.m_callbacks # <<>> /\ pool.m_freeFoxThreads # <<>>
         /\ \A t \in Threads : IsFree(t) => ~thr[t].m_start

\* A thread of an advance pool is free, taken by one check() or has one of the pool's
\* callbacks; no callback waits in the pool while a thread is free and nobody looks,
\* before the pool is stopped; a callback runs once, and is dropped only by a stop.
\* check() calls itself without end only while stop() is under way.
PoolDeals ==
    /\ \A k, l \in DOMAIN pool.m_freeFoxThreads : pool.m_freeFoxThreads[k] = pool.m_freeFoxThreads[l] => k = l
    /\ \A t \in Threads :
          /\ Cardinality(Pointers(Todo(t))) + Cardinality({h \in hands : h[1] = t}) <= 1
          /\ IsFree(t) => Pointers(Todo(t)) = {} /\ \A h \in hands : h[1] # t
    /\ pool.m_start /\ ~Stopped /\ checks = 0 /\ hands = {} =>
          pool.m_callbacks = <<>> \/ pool.m_freeFoxThreads = <<>>
    /\ \A j \in Jobs : job[j] # "again" /\ (job[j] = "dropped" => Stopped)
    /\ Spins => Stopped
=============================================================================
