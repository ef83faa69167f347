------------------------------ MODULE WorkGroup ------------------------------
(***************************************************************************)
(* WorkerGroup and TimedWorkGroup (worker.h, worker.cpp) over the fiber    *)
(* semaphore FiberSemphore (mutex.cpp): groups of tasks with a bound on    *)
(* how many are in flight, and WaitAll() to wait for all of them by taking *)
(* every permit.  Submitter fibers call Schedule(), the owner fiber calls  *)
(* WaitAll() when the others have finished submitting.                     *)
(*                                                                         *)
(* A step is one section under the semaphore's spin lock, one read or      *)
(* write of the flags, or one switch.  As in FiberSync a fiber that posts  *)
(* to a waiter hands its permit over; resuming it is a step of its own.    *)
(***************************************************************************)
EXTENDS Integers, Sequences, FiniteSets

CONSTANTS
    Submitters,   \* fibers that call Schedule()
    Owner,        \* the one of them that calls WaitAll()
    Tasks,        \* callbacks
    BatchSize,    \* _batchSize
    BulkSizes,    \* sizes of the vectors the owner passes to Schedule()
    Timed         \* which classes to model: {FALSE}, {TRUE} or both

ASSUME GroupAssumption ==
    /\ Owner \in Submitters
    /\ BatchSize \in Nat \ {0}
    /\ BulkSizes \subseteq Nat \ {0}
    /\ Timed \subseteq BOOLEAN
    /\ IsFiniteSet(Submitters) /\ IsFiniteSet(Tasks)

VARIABLES
    timed,        \* TRUE for a TimedWorkGroup
    concurrency,  \* _concurrency, the semaphore's value
    waitQueue,    \* _waitQueue
    woken,        \* fibers taken out of _waitQueue and scheduled
    at,           \* where each submitter is
    todo,         \* the callbacks of its Schedule() that have no permit yet
    held,         \* those that have one and are not in the scheduler yet
    left,         \* WaitAll(): the permits it still has to take
    task,         \* "new", "given", "queued", "running", "ended", "done"
    isFinish,     \* _isFinish
    isTimeouted,  \* _isTimeouted
    timer         \* the group's timer is armed (_timer)

sem == <<concurrency, waitQueue, woken>>
flags == <<isFinish, isTimeouted, timer>>
groupVars == <<timed, sem, at, todo, held, left, task, flags>>

Goto(f, l) == at' = [at EXCEPT ![f] = l]

\* The constructors; Create() arms the timer of a TimedWorkGroup.
GroupInit ==
    /\ timed \in Timed
    /\ concurrency = BatchSize
    /\ waitQueue = <<>>
    /\ woken = {}
    /\ at = [f \in Submitters |-> "idle"]
    /\ todo = [f \in Submitters |-> {}]
    /\ held = [f \in Submitters |-> {}]
    /\ left = BatchSize
    /\ task = [t \in Tasks |-> "new"]
    /\ isFinish = FALSE
    /\ isTimeouted = FALSE
    /\ timer = timed
-----------------------------------------------------------------------------
(* FiberSemphore *)

\* Faulty variant: the counter is decremented without a test.
SemWaitNoTest(f, next) ==
    /\ concurrency' = concurrency - 1
    /\ Goto(f, next)
    /\ UNCHANGED <<waitQueue, woken>>

\* wait(): take a permit and go on at next, or queue.
SemWait(f, next) ==
    \/ /\ concurrency > 0
       /\ concurrency' = concurrency - 1
       /\ Goto(f, next)
       /\ UNCHANGED <<waitQueue, woken>>
    \/ /\ concurrency = 0
       /\ waitQueue' = Append(waitQueue, f)
       /\ Goto(f, "hold")
       /\ UNCHANGED <<concurrency, woken>>

\* Faulty variants: a waiter is woken and the counter incremented too; the
\* counter is incremented and nobody woken.
SemPostTwice ==
    /\ concurrency' = concurrency + 1
    /\ IF waitQueue # <<>>
       THEN woken' = woken \cup {Head(waitQueue)} /\ waitQueue' = Tail(waitQueue)
       ELSE UNCHANGED <<waitQueue, woken>>
SemPostNoWake == concurrency' = concurrency + 1 /\ UNCHANGED <<waitQueue, woken>>

\* post(): hand the permit to the first waiter, or put it back.
SemPost ==
    IF waitQueue # <<>>
    THEN /\ woken' = woken \cup {Head(waitQueue)}
         /\ waitQueue' = Tail(waitQueue)
         /\ UNCHANGED concurrency
    ELSE /\ concurrency' = concurrency + 1
         /\ UNCHANGED <<waitQueue, woken>>

\* Faulty variant: the queue is cleared before the waiters are scheduled.
SemForgetAll == waitQueue' = <<>> /\ UNCHANGED <<concurrency, woken>>

\* notifyAll(): wake every waiter, without a permit.
SemNotifyAll ==
    /\ woken' = woken \cup {waitQueue[i] : i \in 1..Len(waitQueue)}
    /\ waitQueue' = <<>>
    /\ UNCHANGED concurrency

\* A woken fiber returns from wait().
SubmitterResume(f) ==
    /\ f \in woken
    /\ woken' = woken \ {f}
    /\ Goto(f, IF isFinish THEN "counted" ELSE "granted")
    /\ UNCHANGED <<timed, concurrency, waitQueue, todo, held, left, task, flags>>
-----------------------------------------------------------------------------
(* Schedule() *)

\* The call, with one callback or, by the owner, with a vector of them: two
\* vectors at once can wait for each other's permits.
Call(f) ==
    /\ at[f] = "idle"
    /\ ~isFinish
    /\ \E S \in SUBSET {t \in Tasks : task[t] = "new"} :
          /\ Cardinality(S) \in {1} \cup (IF f = Owner THEN BulkSizes ELSE {})
          /\ todo' = [todo EXCEPT ![f] = S]
          /\ task' = [t \in Tasks |-> IF t \in S THEN "given" ELSE task[t]]
    /\ Goto(f, "acquire")
    /\ UNCHANGED <<timed, sem, held, left, flags>>

\* The loop's next callback: a TimedWorkGroup does not wait once the timer has
\* fired, a WorkerGroup always does.
Test(f) ==
    /\ at[f] = "acquire"
    /\ todo[f] # {}
    /\ Goto(f, IF timed /\ isTimeouted THEN "granted" ELSE "permit")
    /\ UNCHANGED <<timed, sem, todo, held, left, task, flags>>

\* _fiberSem.wait(); OnTimer() may have set the flag and woken the waiters since
\* the test, so that this one waits on for a permit that a callback posts.
Acquire(f) ==
    /\ at[f] = "permit"
    /\ SemWait(f, "granted")
    /\ UNCHANGED <<timed, todo, held, left, task, flags>>

\* wait() has returned: WorkerGroup keeps the callback until all of the vector
\* have a permit, TimedWorkGroup puts it into the scheduler at once.
Granted(f) ==
    /\ at[f] = "granted"
    /\ \E t \in todo[f] :
          /\ todo' = [todo EXCEPT ![f] = @ \ {t}]
          /\ IF timed
             THEN task' = [task EXCEPT ![t] = "queued"] /\ UNCHANGED held
             ELSE held' = [held EXCEPT ![f] = @ \cup {t}] /\ UNCHANGED task
    /\ Goto(f, "acquire")
    /\ UNCHANGED <<timed, sem, left, flags>>

\* The vector is done: WorkerGroup puts its callbacks into the scheduler.
Push(f) ==
    /\ at[f] = "acquire"
    /\ todo[f] = {}
    /\ task' = [t \in Tasks |-> IF t \in held[f] THEN "queued" ELSE task[t]]
    /\ held' = [held EXCEPT ![f] = {}]
    /\ Goto(f, "idle")
    /\ UNCHANGED <<timed, sem, todo, left, flags>>
-----------------------------------------------------------------------------
(* doWork(), in a fiber of the scheduler *)

Start(t) ==
    /\ task[t] = "queued"
    /\ task' = [task EXCEPT ![t] = "running"]
    /\ UNCHANGED <<timed, sem, at, todo, held, left, flags>>

\* cb() returns ...
End(t) ==
    /\ task[t] = "running"
    /\ task' = [task EXCEPT ![t] = "ended"]
    /\ UNCHANGED <<timed, sem, at, todo, held, left, flags>>

\* ... and the permit is posted.
Post(t) ==
    /\ task[t] = "ended"
    /\ task' = [task EXCEPT ![t] = "done"]
    /\ SemPost
    /\ UNCHANGED <<timed, at, todo, held, left, flags>>
-----------------------------------------------------------------------------
(* WaitAll() and the timer *)

\* The owner calls WaitAll() when nobody is in Schedule() any more.
WaitAll ==
    /\ \A f \in Submitters : at[f] = "idle"
    /\ ~isFinish
    /\ isFinish' = TRUE
    /\ Goto(Owner, "loop")
    /\ UNCHANGED <<timed, sem, todo, held, left, task, isTimeouted, timer>>

\* Faulty variant: one permit too few is taken.
WaitLoopShort ==
    /\ at[Owner] = "loop"
    /\ Goto(Owner, IF left > 1 /\ ~(timed /\ isTimeouted) THEN "take" ELSE "finish")
    /\ UNCHANGED <<timed, sem, todo, held, left, task, flags>>

\* The loop's condition: permits left to take, and no timeout so far.
WaitLoop ==
    /\ at[Owner] = "loop"
    /\ Goto(Owner, IF left > 0 /\ ~(timed /\ isTimeouted) THEN "take" ELSE "finish")
    /\ UNCHANGED <<timed, sem, todo, held, left, task, flags>>

WaitTake ==
    /\ at[Owner] = "take"
    /\ SemWait(Owner, "counted")
    /\ UNCHANGED <<timed, todo, held, left, task, flags>>

WaitCounted ==
    /\ at[Owner] = "counted"
    /\ left' = left - 1
    /\ Goto(Owner, "loop")
    /\ UNCHANGED <<timed, sem, todo, held, task, flags>>

\* After the loop the timer is cancelled unless it has fired.  When it has
\* expired and its callback is in the scheduler's queue, cancel() is too late.
WaitReturn ==
    /\ at[Owner] = "finish"
    /\ timer' \in {timer, timer /\ isTimeouted}
    /\ Goto(Owner, "returned")
    /\ UNCHANGED <<timed, sem, todo, held, left, task, isFinish, isTimeouted>>

\* The timer has expired: OnTimer() sets the flag, ...
TimerFires ==
    /\ timer /\ ~isTimeouted
    /\ isTimeouted' = TRUE
    /\ UNCHANGED <<timed, sem, at, todo, held, left, task, isFinish, timer>>

\* ... then wakes whoever is in wait().
TimerNotifies ==
    /\ timer /\ isTimeouted
    /\ timer' = FALSE
    /\ SemNotifyAll
    /\ UNCHANGED <<timed, at, todo, held, left, task, isFinish, isTimeouted>>

SubmitterStep(f) == Test(f) \/ Acquire(f) \/ Granted(f) \/ Push(f) \/ SubmitterResume(f)
TaskStep(t) == Start(t) \/ End(t) \/ Post(t)
WaitStep == WaitLoop \/ WaitTake \/ WaitCounted \/ WaitReturn

GroupNext ==
    \/ \E f \in Submitters : Call(f) \/ SubmitterStep(f)
    \/ \E t \in Tasks : TaskStep(t)
    \/ WaitAll \/ WaitStep \/ TimerFires \/ TimerNotifies

GroupSpec == GroupInit /\ [][GroupNext]_groupVars

\* Fibers and tasks run; the timer's callback, once begun, ends.  Nothing forces
\* a call of Schedule() or WaitAll(), nor the timer to expire.
GroupFairness ==
    /\ \A f \in Submitters : WF_groupVars(SubmitterStep(f))
    /\ \A t \in Tasks : WF_groupVars(TaskStep(t))
    /\ WF_groupVars(WaitStep) /\ WF_groupVars(TimerNotifies)

GroupFairSpec == GroupSpec /\ GroupFairness
-----------------------------------------------------------------------------
(* Properties *)

GroupTypeOK ==
    /\ timed \in BOOLEAN /\ isFinish \in BOOLEAN /\ isTimeouted \in BOOLEAN /\ timer \in BOOLEAN
    /\ concurrency \in Nat /\ left \in 0..BatchSize
    /\ waitQueue \in Seq(Submitters) /\ woken \subseteq Submitters
    /\ at \in [Submitters -> {"idle", "acquire", "permit", "granted", "hold", "loop", "take",
                              "counted", "finish", "returned"}]
    /\ todo \in [Submitters -> SUBSET Tasks] /\ held \in [Submitters -> SUBSET Tasks]
    /\ task \in [Tasks -> {"new", "given", "queued", "running", "ended", "done"}]

InFlight == {t \in Tasks : task[t] \in {"queued", "running", "ended"}}
Kept == UNION {held[f] : f \in Submitters}
Holders == {f \in Submitters : at[f] \in {"granted", "counted"}}

\* Until the timer fires no permit is lost or made up, although post() hands
\* permits over without touching the counter: each is in the counter, on its way
\* to a woken fiber, kept for a callback of a vector, owned by a callback in
\* flight, or taken by WaitAll().  In particular no more than BatchSize callbacks
\* are in flight, and a fiber waits only when no permit is free.
PermitsConserved ==
    /\ ~isTimeouted =>
          concurrency + Cardinality(woken) + Cardinality(InFlight)
            + Cardinality(Kept) + Cardinality(Holders) + (BatchSize - left) = BatchSize
    /\ waitQueue # <<>> => concurrency = 0

\* WaitAll() returns without a timeout only when every callback that was ever
\* given to Schedule(), by any fiber, has returned ("阻塞等待所有批量调度的任务执行完毕",
\* worker.h:49).
WaitAllMeansDone ==
    at[Owner] = "returned" /\ ~isTimeouted =>
        \A t \in Tasks : task[t] \in {"new", "done"}

\* Permits are neither lost nor made, and WaitAll() returns without a timeout only when
\* every callback has (FiberSemphore, WorkerGroup::WaitAll).
GroupSound == GroupTypeOK /\ PermitsConserved /\ WaitAllMeansDone

\* WaitAll() returns.
WaitAllReturns == isFinish ~> at[Owner] = "returned"

\* Every callback given to Schedule() is run to its end ("有并发控制", worker.h:66-68;
\* "所有任务都会被调度执行", worker.h:85), timeout or not.
EveryTaskRuns == \A t \in Tasks : task[t] = "given" ~> task[t] = "done"

\* WaitAll() returns, and every callback that was given is run (WorkerGroup,
\* TimedWorkGroup).
GroupEnds == WaitAllReturns /\ EveryTaskRuns
=============================================================================
