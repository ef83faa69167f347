------------------------------ MODULE Scheduler ------------------------------
(***************************************************************************)
(* The coroutine scheduler (scheduler.h, scheduler.cpp, fiber.cpp) with    *)
(* the Tickle(), Idle() and IsStopping() of IOManager (iomanager.cpp), in  *)
(* the default build OPTIMIZE=OFF: one run queue under one lock, shared by *)
(* the worker threads and, with use_caller, by the thread that created the *)
(* scheduler once it calls Stop().                                         *)
(*                                                                         *)
(* A step is one critical section or one access to a shared atomic.  The   *)
(* Tickle() that follows a critical section is a step of its own: owe[t]   *)
(* holds it.  What a task does between two switches is nondeterministic:   *)
(* submit, arm an I/O event and hold, yield, switch thread, or end.  A task *)
(* that ends by an exception (EXCEPT) is treated by Run() like one that    *)
(* ends normally (TERM): both are "TERM" here.                             *)
(***************************************************************************)
EXTENDS Integers, Sequences, FiniteSets, SequencesExt

CONSTANTS
    Workers,      \* the threads Start() creates without use_caller
    Spare,        \* the worker there is not with use_caller (_threads_num--)
    Caller,       \* the thread that created the scheduler and calls Stop()
    MainJobs,     \* callbacks the caller submits
    ChildJobs,    \* callbacks running tasks submit
    NumFibers,    \* bound: fiber objects alive at once
    MaxYields,    \* bound: how often the callbacks yield, in all
    MaxSwitches,  \* bound: how often the callbacks call SwitchTo(), in all
    None          \* a null pointer; the threadId -1

ASSUME BoundsAssumption == NumFibers \in Nat /\ MaxYields \in Nat /\ MaxSwitches \in Nat
ASSUME ThreadsAssumption == Caller \notin Workers /\ Spare \in Workers /\ IsFiniteSet(Workers)

Threads == Workers \cup {Caller}
\* The threadId arguments of Schedule(): any thread (-1), or one that runs.
Pins == (Workers \ {Spare}) \cup {None}
Jobs == MainJobs \cup ChildJobs
Fibers == 1..NumFibers

ASSUME NoneAssumption == None \notin Threads \cup Jobs \cup Fibers

VARIABLES
    useCaller,    \* the constructor's use_caller
    queue,        \* _fun_fibers: entries [job, fiber, pin], one of job and fiber set
    fst,          \* _status of each fiber object, "FREE" when there is none
    body,         \* the callback a fiber object runs (_func)
    pc,           \* where each thread is
    cur,          \* fcb, the entry a thread has taken
    cbf,          \* cb_fiber, the fiber object a thread keeps for callbacks
    owe,          \* the thread has a Tickle() to do before it goes on
    idleTerm,     \* the threads whose idle fiber has ended
    active, idle, \* _active_threadNum, _idle_threadNum
    stopping,     \* _stopping, set by Stop() after _auto_stopping
    tickles,      \* Stop()'s loop: the Tickle() calls left
    edge,         \* the tickle pipe has an edge epoll has not reported
    iowait,       \* fibers whose I/O event is armed
    ready,        \* those whose descriptor is ready
    pending,      \* _pendingEventNum
    jobs,         \* "new", "queued", "started", "done"
    runs,         \* how often each callback was started
    yields,       \* how often callbacks have yielded
    switches      \* how often they have called SwitchTo()

vars == <<useCaller, queue, fst, body, pc, cur, cbf, owe, idleTerm, active, idle,
          stopping, tickles, edge, iowait, ready, pending, jobs, runs, yields,
          switches>>

\* Variables by what touches them.
ioVars == <<iowait, ready, pending>>
stopVars == <<useCaller, stopping, tickles>>
jobVars == <<jobs, runs, yields, switches>>

Entry(j, f, p) == [job |-> j, fiber |-> f, pin |-> p]
NoEntry == Entry(None, None, None)

Goto(t, l) == pc' = [pc EXCEPT ![t] = l]
At(t, l) == pc[t] = l /\ ~owe[t]

\* The constructor and Start(): every worker is at the top of Run().
Init ==
    /\ useCaller \in BOOLEAN
    /\ queue = <<>>
    /\ fst = [f \in Fibers |-> "FREE"]
    /\ body = [f \in Fibers |-> None]
    /\ pc = [t \in Threads |-> IF t = Caller THEN "main"
                              ELSE IF useCaller /\ t = Spare THEN "exit" ELSE "take"]
    /\ cur = [t \in Threads |-> NoEntry]
    /\ cbf = [t \in Threads |-> None]
    /\ owe = [t \in Threads |-> FALSE]
    /\ idleTerm = {}
    /\ active = 0 /\ idle = 0
    /\ stopping = FALSE /\ tickles = 0
    /\ edge = FALSE
    /\ iowait = {} /\ ready = {} /\ pending = 0
    /\ jobs = [j \in Jobs |-> "new"]
    /\ runs = [j \in Jobs |-> 0]
    /\ yields = 0 /\ switches = 0
-----------------------------------------------------------------------------
\* Schedule(): append, and owe a Tickle() only if the queue was empty.
Schedule(t, e) ==
    /\ queue' = Append(queue, e)
    /\ owe' = [owe EXCEPT ![t] = queue = <<>>]

\* IOManager::Tickle(): write to the pipe if some thread is idle.
Tickle(t) ==
    /\ owe[t]
    /\ owe' = [owe EXCEPT ![t] = FALSE]
    /\ edge' = (edge \/ idle > 0)
    /\ UNCHANGED <<queue, fst, body, pc, cur, cbf, idleTerm, active, idle>>
    /\ UNCHANGED <<ioVars, stopVars, jobVars>>

Submit(t, j, p) ==
    /\ jobs[j] = "new"
    /\ jobs' = [jobs EXCEPT ![j] = "queued"]
    /\ Schedule(t, Entry(j, None, p))
    /\ UNCHANGED <<fst, body, pc, cur, cbf, idleTerm, active, idle, edge, runs, yields, switches>>
    /\ UNCHANGED <<ioVars, stopVars>>
-----------------------------------------------------------------------------
(* Run(), one iteration *)

\* Faulty variant: a fiber that still runs may be taken.
EligibleRunning(t, e) == e.pin \in {None, t}

\* The entry may be taken by t: not pinned to another thread, not running.
Eligible(t, e) ==
    /\ e.pin \in {None, t}
    /\ e.fiber # None => fst[e.fiber] # "EXEC"

\* Faulty variant: the entry taken stays in the queue.
TakeNoErase(t) ==
    /\ At(t, "take")
    /\ \E i \in 1..Len(queue) :
          /\ Eligible(t, queue[i])
          /\ cur' = [cur EXCEPT ![t] = queue[i]]
    /\ owe' = [owe EXCEPT ![t] = TRUE]
    /\ active' = active + 1
    /\ Goto(t, "dispatch")
    /\ UNCHANGED <<queue, fst, body, cbf, idleTerm, idle, edge>>
    /\ UNCHANGED <<ioVars, stopVars, jobVars>>

\* The section under _mutex: the first eligible entry is taken; a Tickle() is
\* owed when an entry of another thread was skipped or entries are left.
Take(t) ==
    /\ At(t, "take")
    /\ LET ok == {i \in 1..Len(queue) : Eligible(t, queue[i])}
       IN  IF ok = {}
           THEN /\ cur' = [cur EXCEPT ![t] = NoEntry]
                /\ owe' = [owe EXCEPT ![t] = queue # <<>>]
                /\ UNCHANGED <<queue, active>>
           ELSE LET i == CHOOSE i \in ok : \A k \in ok : i <= k
                IN  /\ cur' = [cur EXCEPT ![t] = queue[i]]
                    /\ queue' = RemoveAt(queue, i)
                    /\ owe' = [owe EXCEPT ![t] =
                          \/ Len(queue) > 1
                          \/ \E k \in 1..i-1 : queue[k].pin \notin {None, t}]
                    /\ active' = active + 1
    /\ Goto(t, "dispatch")
    /\ UNCHANGED <<fst, body, cbf, idleTerm, idle, edge>>
    /\ UNCHANGED <<ioVars, stopVars, jobVars>>

\* A fiber task: SwapIn().
SwapInFiber(t) ==
    /\ At(t, "dispatch")
    /\ cur[t].fiber # None
    /\ fst' = [fst EXCEPT ![cur[t].fiber] = "EXEC"]
    /\ Goto(t, "run")
    /\ UNCHANGED <<queue, body, cur, cbf, owe, idleTerm, active, idle, edge>>
    /\ UNCHANGED <<ioVars, stopVars, jobVars>>

\* A callback: it runs in the thread's cb_fiber, Reset() to it, or in a new
\* fiber object.
SwapInCallback(t) ==
    /\ At(t, "dispatch")
    /\ cur[t].job # None
    /\ LET j == cur[t].job
       IN  \E f \in Fibers :
             /\ IF cbf[t] # None
                THEN f = cbf[t]
                ELSE fst[f] = "FREE" /\ \A g \in 1..f-1 : fst[g] # "FREE"
             /\ cbf' = [cbf EXCEPT ![t] = f]
             /\ fst' = [fst EXCEPT ![f] = "EXEC"]
             /\ body' = [body EXCEPT ![f] = j]
             /\ jobs' = [jobs EXCEPT ![j] = "started"]
             /\ runs' = [runs EXCEPT ![j] = @ + 1]
    /\ Goto(t, "run")
    /\ UNCHANGED <<queue, cur, owe, idleTerm, active, idle, edge, yields, switches>>
    /\ UNCHANGED <<ioVars, stopVars>>

\* Faulty variant: the test of is_active is missing.
NoTaskNoTest(t) ==
    /\ At(t, "dispatch")
    /\ cur[t] = NoEntry
    /\ active' = active - 1
    /\ Goto(t, "take")
    /\ UNCHANGED <<queue, fst, body, cur, cbf, owe, idleTerm, idle, edge>>
    /\ UNCHANGED <<ioVars, stopVars, jobVars>>

\* No task: into the idle fiber, or out of the loop when that one has ended.
NoTask(t) ==
    /\ At(t, "dispatch")
    /\ cur[t] = NoEntry
    /\ IF t \in idleTerm
       THEN Goto(t, IF t = Caller THEN "join" ELSE "exit") /\ UNCHANGED idle
       ELSE Goto(t, "check") /\ idle' = idle + 1
    /\ UNCHANGED <<queue, fst, body, cur, cbf, owe, idleTerm, active, edge>>
    /\ UNCHANGED <<ioVars, stopVars, jobVars>>
-----------------------------------------------------------------------------
(* What the running task does *)

\* The fiber object thread t executes while pc[t] = "run".
OnCpu(t) == IF cur[t].fiber # None THEN cur[t].fiber ELSE cbf[t]
JobOn(t) == body[OnCpu(t)]

SubmitChild(t, j) == At(t, "run") /\ Submit(t, j, None)

MayYield(t) == At(t, "run") /\ yields < MaxYields

\* AddEvent(), then YieldToHold(): the task arms an I/O event for its fiber, and
\* swaps out.  The status stays EXEC until Run() has set it to HOLD: the event
\* can be triggered, and the fiber queued, before.
WaitIO(t) ==
    /\ MayYield(t)
    /\ iowait' = iowait \cup {OnCpu(t)}
    /\ pending' = pending + 1
    /\ yields' = yields + 1
    /\ Goto(t, "back")
    /\ UNCHANGED <<queue, fst, body, cur, cbf, owe, idleTerm, active, idle, edge, ready, jobs, runs, switches>>
    /\ UNCHANGED stopVars

YieldToReady(t) ==
    /\ MayYield(t)
    /\ fst' = [fst EXCEPT ![OnCpu(t)] = "READY"]
    /\ yields' = yields + 1
    /\ Goto(t, "back")
    /\ UNCHANGED <<queue, body, cur, cbf, owe, idleTerm, active, idle, edge, jobs, runs, switches>>
    /\ UNCHANGED <<ioVars, stopVars>>

\* SwitchTo(threadId): the task queues its own fiber for another thread, then
\* holds: the entry is in the queue while the fiber still runs.
SwitchTo(t, p) ==
    /\ At(t, "run")
    /\ switches < MaxSwitches
    /\ p \notin {None, t}
    /\ Schedule(t, Entry(None, OnCpu(t), p))
    /\ switches' = switches + 1
    /\ Goto(t, "back")
    /\ UNCHANGED <<fst, body, cur, cbf, idleTerm, active, idle, edge, jobs, runs, yields>>
    /\ UNCHANGED <<ioVars, stopVars>>

\* MainFunc(): the callback returned or threw.
Finish(t) ==
    /\ At(t, "run")
    /\ fst' = [fst EXCEPT ![OnCpu(t)] = "TERM"]
    /\ jobs' = [jobs EXCEPT ![JobOn(t)] = "done"]
    /\ body' = [body EXCEPT ![OnCpu(t)] = None]
    /\ Goto(t, "back")
    /\ UNCHANGED <<queue, cur, cbf, owe, idleTerm, active, idle, edge, runs, yields, switches>>
    /\ UNCHANGED <<ioVars, stopVars>>
-----------------------------------------------------------------------------
(* Run(), after SwapIn() has returned *)

\* Faulty variant: the decrement is missing.
BackStillActive(t) ==
    /\ At(t, "back")
    /\ Goto(t, "after")
    /\ UNCHANGED <<queue, fst, body, cur, cbf, owe, idleTerm, active, idle, edge>>
    /\ UNCHANGED <<ioVars, stopVars, jobVars>>

\* _active_threadNum-- comes first, before the task is queued again.
Back(t) ==
    /\ At(t, "back")
    /\ active' = active - 1
    /\ Goto(t, "after")
    /\ UNCHANGED <<queue, fst, body, cur, cbf, owe, idleTerm, idle, edge>>
    /\ UNCHANGED <<ioVars, stopVars, jobVars>>

\* The entry was a fiber: a READY one is queued again for the same thread, an
\* ended one is dropped, any other is HOLD from now on.
AfterFiber(t) ==
    /\ At(t, "after")
    /\ cur[t].fiber # None
    /\ LET f == cur[t].fiber
       IN  \/ /\ fst[f] = "READY"
              /\ Schedule(t, Entry(None, f, cur[t].pin))
              /\ UNCHANGED fst
           \/ /\ fst[f] = "TERM"
              /\ fst' = [fst EXCEPT ![f] = "FREE"]
              /\ UNCHANGED <<queue, owe>>
           \/ /\ fst[f] = "EXEC"
              /\ fst' = [fst EXCEPT ![f] = "HOLD"]
              /\ UNCHANGED <<queue, owe>>
    /\ cur' = [cur EXCEPT ![t] = NoEntry]
    /\ Goto(t, "take")
    /\ UNCHANGED <<body, cbf, idleTerm, active, idle, edge>>
    /\ UNCHANGED <<ioVars, stopVars, jobVars>>

\* The entry was a callback: cb_fiber is kept only when it has ended.
AfterCallback(t) ==
    /\ At(t, "after")
    /\ cur[t].job # None
    /\ LET f == cbf[t]
       IN  \/ /\ fst[f] = "READY"
              /\ Schedule(t, Entry(None, f, cur[t].pin))
              /\ cbf' = [cbf EXCEPT ![t] = None]
              /\ UNCHANGED fst
           \/ /\ fst[f] = "TERM"
              /\ fst' = [fst EXCEPT ![f] = "INIT"]
              /\ UNCHANGED <<queue, owe, cbf>>
           \/ /\ fst[f] = "EXEC"
              /\ fst' = [fst EXCEPT ![f] = "HOLD"]
              /\ cbf' = [cbf EXCEPT ![t] = None]
              /\ UNCHANGED <<queue, owe>>
    /\ cur' = [cur EXCEPT ![t] = NoEntry]
    /\ Goto(t, "take")
    /\ UNCHANGED <<body, idleTerm, active, idle, edge>>
    /\ UNCHANGED <<ioVars, stopVars, jobVars>>
-----------------------------------------------------------------------------
(* IOManager::Idle().  One event per return of epoll_wait: a batch is the   *)
(* same calls in a row.                                                    *)

\* IsStopping() reads three shared variables one after the other, without a
\* lock; no timer is left.
CheckPending(t) ==
    /\ At(t, "check")
    /\ Goto(t, IF pending = 0 THEN "checkQueue" ELSE "epoll")
    /\ UNCHANGED <<queue, fst, body, cur, cbf, owe, idleTerm, active, idle, edge>>
    /\ UNCHANGED <<ioVars, stopVars, jobVars>>

CheckQueue(t) ==
    /\ At(t, "checkQueue")
    /\ Goto(t, IF stopping /\ queue = <<>> THEN "checkActive" ELSE "epoll")
    /\ UNCHANGED <<queue, fst, body, cur, cbf, owe, idleTerm, active, idle, edge>>
    /\ UNCHANGED <<ioVars, stopVars, jobVars>>

CheckActive(t) ==
    /\ At(t, "checkActive")
    /\ IF active = 0
       THEN idleTerm' = idleTerm \cup {t} /\ Goto(t, "out")
       ELSE Goto(t, "epoll") /\ UNCHANGED idleTerm
    /\ UNCHANGED <<queue, fst, body, cur, cbf, owe, active, idle, edge>>
    /\ UNCHANGED <<ioVars, stopVars, jobVars>>

\* epoll_wait reports the edge-triggered tickle pipe to one thread.
EpollTickle(t) ==
    /\ At(t, "epoll")
    /\ edge
    /\ edge' = FALSE
    /\ Goto(t, "out")
    /\ UNCHANGED <<queue, fst, body, cur, cbf, owe, idleTerm, active, idle>>
    /\ UNCHANGED <<ioVars, stopVars, jobVars>>

\* epoll_wait reports an armed descriptor that is ready: triggerEvent() schedules
\* the fiber ...
EpollEvent(t, f) ==
    /\ At(t, "epoll")
    /\ f \in ready
    /\ ready' = ready \ {f}
    /\ iowait' = iowait \ {f}
    /\ Schedule(t, Entry(None, f, None))
    /\ Goto(t, "triggered")
    /\ UNCHANGED <<fst, body, cur, cbf, idleTerm, active, idle, edge, pending>>
    /\ UNCHANGED <<stopVars, jobVars>>

\* Faulty variant: the event stays counted.
EventStillPending(t) ==
    /\ At(t, "triggered")
    /\ Goto(t, "out")
    /\ UNCHANGED <<queue, fst, body, cur, cbf, owe, idleTerm, active, idle, edge>>
    /\ UNCHANGED <<ioVars, stopVars, jobVars>>

\* ... and _pendingEventNum-- comes after.
EventDone(t) ==
    /\ At(t, "triggered")
    /\ pending' = pending - 1
    /\ Goto(t, "out")
    /\ UNCHANGED <<queue, fst, body, cur, cbf, owe, idleTerm, active, idle, edge, iowait, ready>>
    /\ UNCHANGED <<stopVars, jobVars>>

\* Faulty variant: epoll_wait without a timeout.
EpollNoTimeout(t) == At(t, "epoll") /\ FALSE /\ UNCHANGED vars

\* epoll_wait returns after at most MAX_TIMEOUT with nothing to report.
EpollTimeout(t) ==
    /\ At(t, "epoll")
    /\ ~edge /\ ready = {}
    /\ Goto(t, "out")
    /\ UNCHANGED <<queue, fst, body, cur, cbf, owe, idleTerm, active, idle, edge>>
    /\ UNCHANGED <<ioVars, stopVars, jobVars>>

\* The idle fiber swaps out (or ends); Run() starts its next iteration.
IdleOut(t) ==
    /\ At(t, "out")
    /\ idle' = idle - 1
    /\ Goto(t, "take")
    /\ UNCHANGED <<queue, fst, body, cur, cbf, owe, idleTerm, active, edge>>
    /\ UNCHANGED <<ioVars, stopVars, jobVars>>

\* The peer or the kernel makes an armed descriptor ready.
BecomeReady(f) ==
    /\ f \in iowait \ ready
    /\ ready' = ready \cup {f}
    /\ UNCHANGED <<queue, fst, body, pc, cur, cbf, owe, idleTerm, active, idle, edge, iowait, pending>>
    /\ UNCHANGED <<stopVars, jobVars>>
-----------------------------------------------------------------------------
(* The caller: submit, Stop() *)

SubmitMain(j, p) == At(Caller, "main") /\ Submit(Caller, j, p)

StopBegin ==
    /\ At(Caller, "main")
    /\ stopping' = TRUE
    /\ tickles' = Cardinality(Workers) - (IF useCaller THEN 1 ELSE 0)
    /\ Goto(Caller, "stop")
    /\ UNCHANGED <<useCaller, queue, fst, body, cur, cbf, owe, idleTerm, active, idle, edge>>
    /\ UNCHANGED <<ioVars, jobVars>>

StopTickle ==
    /\ At(Caller, "stop")
    /\ tickles > 0
    /\ tickles' = tickles - 1
    /\ owe' = [owe EXCEPT ![Caller] = TRUE]
    /\ UNCHANGED <<useCaller, stopping, queue, fst, body, pc, cur, cbf, idleTerm, active, idle, edge>>
    /\ UNCHANGED <<ioVars, jobVars>>

\* With use_caller the caller joins in, in _root_fiber, unless all is done.
StopRun ==
    /\ At(Caller, "stop")
    /\ tickles = 0
    /\ Goto(Caller, IF useCaller /\ ~(pending = 0 /\ queue = <<>> /\ active = 0)
                    THEN "take" ELSE "join")
    /\ UNCHANGED <<queue, fst, body, cur, cbf, owe, idleTerm, active, idle, edge>>
    /\ UNCHANGED <<ioVars, stopVars, jobVars>>

\* Faulty variant: the worker threads are not joined.
StopNoJoin ==
    /\ At(Caller, "join")
    /\ Goto(Caller, "done")
    /\ UNCHANGED <<queue, fst, body, cur, cbf, owe, idleTerm, active, idle, edge>>
    /\ UNCHANGED <<ioVars, stopVars, jobVars>>

StopJoin ==
    /\ At(Caller, "join")
    /\ \A t \in Workers : pc[t] = "exit"
    /\ Goto(Caller, "done")
    /\ UNCHANGED <<queue, fst, body, cur, cbf, owe, idleTerm, active, idle, edge>>
    /\ UNCHANGED <<ioVars, stopVars, jobVars>>

\* epoll_wait returns: with an event, or after MAX_TIMEOUT.
EpollReturn(t) ==
    \/ EpollTickle(t) \/ EpollTimeout(t)
    \/ \E f \in Fibers : EpollEvent(t, f)

RunStep(t) ==
    \/ Tickle(t) \/ Take(t) \/ SwapInFiber(t) \/ SwapInCallback(t) \/ NoTask(t)
    \/ Back(t) \/ AfterFiber(t) \/ AfterCallback(t)
    \/ CheckPending(t) \/ CheckQueue(t) \/ CheckActive(t)
    \/ EpollReturn(t) \/ EventDone(t) \/ IdleOut(t)

TaskStep(t) ==
    \/ WaitIO(t) \/ YieldToReady(t) \/ Finish(t)
    \/ \E p \in Pins : SwitchTo(t, p)
    \/ \E j \in ChildJobs : SubmitChild(t, j)

StopStep == StopTickle \/ StopRun \/ StopJoin

Next ==
    \/ \E t \in Threads : RunStep(t) \/ TaskStep(t)
    \/ \E f \in Fibers : BecomeReady(f)
    \/ \E j \in MainJobs, p \in Pins : SubmitMain(j, p)
    \/ StopBegin \/ StopStep

Spec == Init /\ [][Next]_vars

\* Threads run, tasks do not compute for ever, and descriptors become ready.  A
\* thread in epoll_wait takes a step too: if no event reaches it, the timeout
\* MAX_TIMEOUT does.  Nothing forces the caller to submit or to call Stop().
Fairness ==
    /\ \A t \in Threads : WF_vars(RunStep(t) \/ TaskStep(t))
    /\ \A f \in Fibers : WF_vars(BecomeReady(f))
    /\ WF_vars(StopStep)

FairSpec == Spec /\ Fairness
-----------------------------------------------------------------------------
(* Properties *)

Entries == [job : Jobs \cup {None}, fiber : Fibers \cup {None}, pin : Threads \cup {None}]
Places == {"main", "stop", "join", "done", "exit", "take", "dispatch", "run", "back", "after",
           "check", "checkQueue", "checkActive", "epoll", "triggered", "out"}

TypeOK ==
    /\ useCaller \in BOOLEAN /\ stopping \in BOOLEAN /\ edge \in BOOLEAN
    /\ queue \in Seq(Entries)
    /\ fst \in [Fibers -> {"FREE", "INIT", "EXEC", "HOLD", "READY", "TERM"}]
    /\ body \in [Fibers -> Jobs \cup {None}]
    /\ pc \in [Threads -> Places]
    /\ cur \in [Threads -> Entries] /\ cbf \in [Threads -> Fibers \cup {None}]
    /\ owe \in [Threads -> BOOLEAN]
    /\ idleTerm \subseteq Threads
    /\ {active, idle, pending, tickles, yields, switches} \subseteq Nat
    /\ ready \subseteq iowait /\ iowait \subseteq Fibers
    /\ jobs \in [Jobs -> {"new", "queued", "started", "done"}] /\ runs \in [Jobs -> Nat]

\* The threads that have fiber object f in their hands.
Holders(f) == {t \in Threads : cur[t].fiber = f \/ cbf[t] = f}
EntriesOf(f) == {i \in 1..Len(queue) : queue[i].fiber = f}
\* The entries of callback j, and the threads that have taken it but not started it.
QueuedFor(j) == {i \in 1..Len(queue) : queue[i].job = j}
TakenFor(j) == {t \in Threads : pc[t] = "dispatch" /\ cur[t].job = j}

\* A fiber object is in the hands of one thread at most; the asserts of SwapIn()
\* (fiber.cpp:161: the fiber is not EXEC), of Reset() (fiber.cpp:252: it has
\* ended) and of YieldToHold() (fiber.cpp:218: it is EXEC) cannot fail, although
\* a fiber is armed, triggered and queued while it still runs.
OneThreadPerFiber ==
    /\ \A f \in Fibers : Cardinality(Holders(f)) <= 1
    /\ \A t \in Threads :
          /\ pc[t] = "dispatch" /\ cur[t].fiber # None => fst[cur[t].fiber] \in {"HOLD", "READY"}
          /\ pc[t] = "dispatch" /\ cbf[t] # None => fst[cbf[t]] = "INIT"
          /\ pc[t] = "run" => fst[OnCpu(t)] = "EXEC"

\* No task is lost and none runs twice, whatever order threads take, requeue,
\* trigger and stop in: a submitted callback has one entry, in the queue or in
\* a thread's hands, until it is started once; a fiber that is suspended is in
\* exactly one of the queue, the armed events and the hands of a thread.
EachTaskOnce ==
    /\ \A j \in Jobs :
          /\ runs[j] = IF jobs[j] \in {"new", "queued"} THEN 0 ELSE 1
          /\ Cardinality(QueuedFor(j)) + Cardinality(TakenFor(j))
               = IF jobs[j] = "queued" THEN 1 ELSE 0
    /\ \A f \in Fibers :
          LET parked == Cardinality(EntriesOf(f)) + Cardinality({f} \cap iowait)
          IN  /\ parked <= 1
              /\ fst[f] = "HOLD" => parked + Cardinality(Holders(f)) = 1
              /\ fst[f] \in {"FREE", "INIT", "TERM"} => parked = 0

Working == {t \in Threads : \/ pc[t] \in {"run", "back"}
                            \/ pc[t] = "dispatch" /\ cur[t] # NoEntry}
Idling == {t \in Threads : pc[t] \in {"check", "checkQueue", "checkActive",
                                       "epoll", "triggered", "out"}}
Triggering == {t \in Threads : pc[t] = "triggered"}

\* The counters IsStopping() and Tickle() decide on are what they stand for.
CountersExact ==
    /\ active = Cardinality(Working)
    /\ idle = Cardinality(Idling)
    /\ pending = Cardinality(iowait) + Cardinality(Triggering)

\* When Stop() returns no task is left in the queue: every callback that was
\* submitted, by running tasks during the stop too, has been started, and has
\* ended unless it waits for I/O.  (With a SwitchTo() it need not be so: the
\* thread the task was queued for can leave while the fiber is still EXEC.)
StopDrains ==
    pc[Caller] = "done" /\ switches = 0 =>
        /\ queue = <<>> /\ active = 0
        /\ \A j \in Jobs : \/ jobs[j] \in {"new", "done"}
                           \/ \E f \in iowait : body[f] = j

\* No task is lost or run twice, and the state keeps its types (Scheduler::Run).
TasksKept == TypeOK /\ EachTaskOnce

\* The counters IsStopping() reads count what they are for, and what Stop() leaves
\* behind is done (scheduler.cpp, iomanager.cpp).
CountersSound == CountersExact /\ StopDrains

\* A submitted task is run to its end, although Schedule() only tickles when the
\* queue was empty, Tickle() only when a thread is already counted idle, and a
\* thread the task is not for may consume the edge.
\* (What Stop() may leave behind is in StopDrains.)
TaskCompletes ==
    \A j \in Jobs : jobs[j] = "queued" ~> jobs[j] = "done" \/ pc[Caller] = "done"

\* Stop() returns.
StopReturns == stopping ~> pc[Caller] = "done"
=============================================================================
