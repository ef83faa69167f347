# Verification of Xten

TLA+ models of Xten, a C++ server framework built on stackful coroutines
("fibers"): its concurrent core, the library above it and its servers, with the TLC runs that check them on small
instances and the TLAPS proofs that hold for every instance. Source paths are
relative to the repository; the framework itself is its directory `src/`, so a
map entry reads `src/src/...` (repository root `src/`, then `src/`).

## 1. The system

| Component | State | Operations | Interacts with |
|---|---|---|---|
| Fiber (`fiber.cpp`) | `_status`, `_func`, context | SwapIn, SwapOut, YieldToHold, YieldToReady, Reset, MainFunc | Run() of the scheduler swaps fibers in and sets HOLD after they swapped out |
| Scheduler (`scheduler.*`) | run queue `_fun_fibers`, thread pool, `_active_threadNum`, `_idle_threadNum`, `_stopping` | Schedule (one, many), Run, SwitchTo, Stop, IsStopping | everything that wakes a fiber calls Schedule() |
| IOManager (`iomanager.*`) | epoll, tickle pipe, `_fdContexts`, `_pendingEventNum` | AddEvent, DelEvent, CancelEvent, CancelAll, Idle, Tickle | is a Scheduler and a TimerManager; its Idle() runs in each thread's idle fiber |
| TimerManager, timing wheel (`timer.*`) | ordered timer set, `m_tickled`; wheel slots, `_time` | addTimer, cancel, refresh, reset, listExpiredCb; AddTimer, timer_update | expired callbacks go through Schedule() |
| Fiber synchronisation (`mutex.*`) | FiberMutex: owner, waiters; FiberCondition: waiters; FiberSemphore: value, waiters | lock, unlock, unlockIfNotUnique; wait, signal, broadcast; wait, post, notifyAll | hand over by Schedule() of the next waiter; used by streams, KCP, workers |
| Worker groups (`worker.*`) | semaphore, `_isFinish`, `_isTimeouted`, timer | Schedule (one, vector), WaitAll, OnTimer, doWork | scheduler, semaphore, timers |
| Hooks (`hook.cpp`, `fdmanager.cpp`) | per descriptor flags and timeouts, `timer_condition` | do_io, connect_with_timeout, sleep, close, fcntl, setsockopt | AddEvent/CancelEvent, condition timers, YieldToHold |
| AsyncSocketStream, Rock (`streams/`, `rock/`) | send queue, pending requests by sn, reconnect timer | Start, Close, doRead, doWrite, innerClose, Request | FiberMutex/Condition, semaphore, timers, scheduler |
| KCP (`kcp/`) | accept queue, session map, send queue, flags | Accept, packetInput, doRecvLoop, doSendLoop, ReadMessage, SendMessage, Close | FiberMutex/Condition, timers |
| TCP, HTTP, WebSocket, XFTP servers | sessions, servlet tables, send queues | accept loop, handlers | streams, scheduler |
| MySQL, Redis, FoxThread (`db/`) | connection pools, pending commands, event loop queues | acquire, release, Cmd, dispatch | semaphores, scheduler |
| Log, Config, ByteArray, Module, Application | appenders, variables with listeners, chunked buffer, module table | | |

What is hard here, and what makes each part correct:

- *A fiber is published before it has stopped running.* Every blocking call
  (mutex, condition, semaphore, AddEvent, SwitchTo) first puts the current fiber
  where wakers find it and only then swaps out, so a waker on another thread can
  schedule a fiber that is still EXEC. Correctness: a fiber object runs on one
  thread at a time and every wake-up leads to exactly one resumption.
- *Direct hand-off.* unlock(), signal(), broadcast() and post() give the mutex or
  the permit to a waiter that has not run yet. Correctness: nothing is lost or
  given twice, FIFO, and callers see an ordinary monitor / semaphore.
- *Suppressed wake-ups.* Schedule() tickles only if the queue was empty, Tickle()
  only if some thread is already counted idle, the edge of the pipe goes to any one
  thread. Correctness: a queued task is run all the same.
- *Termination by unlocked reads.* IsStopping() reads several shared variables one
  after the other. Correctness: Stop() returns, and leaves nothing behind.
- *Timeouts.* Every blocking operation with a timeout has a timer whose callback can
  be late: it may run when the call it belongs to has returned.
- *Reader and writer fibers of one connection* (streams, KCP, WebSocket, XFTP) that end at
  different times, with flags set and signalled outside the waiter's lock. Correctness: both
  end, messages are whole and in order.
- *Objects that are handed out and come back* (pooled connections, threads, descriptor
  numbers, buffers). Correctness: one owner at a time, and nothing of the last owner left in them.
- *Faults*: lost, repeated and reordered packets (KCP), sessions and answers that are lost
  (databases), connections that break, files and clocks that change. Correctness: what was
  reported as done is done, once.

The hazards, each at its line, are listed in `PROJECT.json` with the properties that are
about them. Others have no property and are left out of the list: two AddEvent() calls that both find the
table of FdContexts too small resize it one after the other, the second possibly to a smaller size
(`iomanager.cpp:173`; one descriptor is modelled, the table is not); a callback of a worker group that
throws keeps its permit, and WaitAll() waits for ever (`worker.cpp:191`; callbacks are assumed to return);
a wheel timer with a delay below 10 ms runs its callback under the wheel's spin lock
(`timer.cpp:317`); `FdCtxMgr::Get()` reads `_fds` after it dropped the lock
(`fdmanager.cpp:153`); `XftpWorker::dispatch()` inserts into a map that several threads share
(`xftp_worker.cpp:23`).

## 2. Modules

| Module | Models | Used by |
|---|---|---|
| `Monitor` | what FiberMutex and FiberCondition promise (the `@pre`/`@post` comments of `mutex.h`) | `FiberSync` refines it |
| `FiberSync` | FiberMutex, FiberCondition over the scheduler's promise | `MCFiberSync`, `Fibers_proof` |
| `Scheduler` | Scheduler, Fiber and IOManager's Idle/Tickle/IsStopping, build OPTIMIZE=OFF | `MCScheduler`, `Scheduler_proof` |
| `WorkGroup` | FiberSemphore, WorkerGroup, TimedWorkGroup | `Fibers_proof` |
| `HookIO` | the hooked socket calls, FdCtxMgr, IOManager's events, epoll | `MCHookIO`, `HookIO_proof` |
| `AsyncStream` | AsyncSocketStream and RockStream::Request() (client side) | `MCAsyncStream`, `AsyncStream_proof` |
| `MessageStream` | what a KCP connection promises: whole messages, in order, each once | `KcpEngine` refines it |
| `KcpEngine` | the protocol engine `ikcp.c` of two peers | `MCKcpEngine` |
| `KcpServer` | KcpListener, KcpSession, KcpServer | `MCKcpServer`, `KcpServer_proof` |
| `MySQL`, `MySQLStmt` | MySQL connections, transactions, MySQLManager, MySQLUtil; prepared statements and their results | `MCStorage`, `Storage_proof` |
| `RedisPool` | RedisManager and the blocking clients | `MCStorage` |
| `FoxThread` | a thread with an event loop and a queue of callbacks (operators) | `FoxPool`, `FoxRedis` |
| `FoxPool` | FoxThreadPool | `MCStorage`, `Storage_proof` |
| `FoxRedis` | FoxRedis, FoxRedisCluster: asynchronous commands | `MCServers`, `Services_proof` |
| `TimerWheel`, `Timers` | TimerWheelManager; TimerManager and the sleep in Idle() | `MCLibrary` |
| `ByteArray`, `ByteBuffer` | the chunked buffer and its codecs (operators); a user of it | `MCLibrary` |
| `Log`, `Formatter` | loggers, sinkers and their reconfiguration; the parser of patterns | `MCLibrary` |
| `Config` | configuration variables, listeners, files | `MCLibrary` |
| `Socket`, `FdOptions` | Socket and SSLSocket objects; the options behind the hooked calls | `MCLibrary` |
| `TcpServer`, `HttpSession`, `WsSession`, `XftpSession`, `RockWire` | the servers and what they speak | `MCServers`, `Services_proof` |
| `QueueLemmas` | lemmas about queues and cardinalities | the proofs |
| `Fibers_proof`, `Scheduler_proof`, `HookIO_proof`, `AsyncStream_proof`, `KcpServer_proof`, `Services_proof`, `Storage_proof` | inductive invariants and theorems (section 5) | |

`MCLibrary`, `MCStorage` and `MCServers` are sums: `which`, chosen in `Init`, names the part
that runs, and the others keep their initial states. The parts are independent of each other
there; each is one component with its environment.

Definitions called "Faulty variant" or "mutant" in the comments are plausible mistakes
in the code next to which they stand; they are used only to show that the properties can
fail. Where a property has an exception, the code really behaves that way there; section 3
lists the exceptions.

### FiberSync

One action per section under the thread locks. `pc[f]` is where the caller is
(outside, inside lock(), owner, inside wait()), `status[f]` whether the fiber still
executes. lock() and wait() are two steps, the section that queues the fiber and
`YieldToHold`; signal() is two steps too, because it drops the condition's lock
before it takes the mutex's: `sig[f]` is its local variable `next`. wait() and
broadcast() hold both locks for their whole section and are one step each.
`runq[f]` counts scheduler entries; `Resume` takes one only when the fiber is not
EXEC, as Run() does. `status` becomes HOLD in `YieldToHold`, which stands for the
swap and Run()'s assignment together; `Scheduler` separates the two. The condition
is destroyed and the mutex is destroyed only when nobody uses them (outside the model).

### Scheduler

A thread's `pc` walks through Run(): `take` (the section under `_mutex`),
`dispatch`, `run` (the task), `back` (`_active_threadNum--`), `after` (requeue, drop
or HOLD), and through Idle(): `check`, `checkQueue`, `checkActive` (IsStopping(), one
shared read each), `epoll`, `triggered` (triggerEvent() done,
`_pendingEventNum--` to come), `out`. A Tickle() after a critical section is a
step of its own, which `owe[t]` holds back the thread for. The tickle pipe is
edge-triggered: `edge` is one bit, consumed by one thread. Callbacks run in fiber objects: `cbf[t]` is
the thread's `cb_fiber`, reused after Reset() when the last callback ended. The caller submits,
then Stop()s: it sets the flags, tickles once per thread, with `use_caller` enters
Run() itself, then joins. `useCaller` is chosen initially; with it there is one
worker fewer, as in the constructor.

Tasks are nondeterministic: a running task may submit, arm an I/O event and hold,
yield, SwitchTo() another thread, or end. AddEvent() and the swap that follows are
one step, since the fiber stays EXEC, and counted active, until `back` and `after`.
A batch of events is modelled as single ones; timers do not exist in this module
(their effect on Idle() is an earlier return of epoll_wait, and a pending timer only
keeps IsStopping() false).

### WorkGroup

Both group classes in one module (`timed`). A vector passed to
WorkerGroup::Schedule() gets all its permits before any callback is put into the
scheduler; TimedWorkGroup puts each one in at once and stops waiting after the
timeout. WaitAll() takes `BatchSize` permits. OnTimer() sets the flag and notifies
in two steps, and so do Schedule() and WaitAll() test the flag and wait: one that falls
between waits like a group without a timeout, until a callback posts. cancel() may come too late for a callback that is already in the
run queue, hence the choice in `WaitReturn`. Callbacks return (an exception would keep the permit;
listed as a hazard). WaitAll() is called when no Schedule() is in
progress, as the destructor's comment demands. The owner alone passes vectors in the passing run.

### HookIO

One descriptor number, one socket after the other. Calls are numbered, and each is made by a
fiber of its own. On one socket there is at most one call per direction (AddEvent() asserts
that there is no second); a call left behind on an earlier socket of the number keeps nobody from
calling, so that a later one can meet the event it left armed. A call's `fpc` walks through do_io or
connect_with_timeout: `try` (the system call), `timer` (addConditionTimer), `arm`
(AddEvent and the yield), `held`, `check` (after timer->cancel()), `soerror`.
AddEvent(), CancelEvent(), CancelAll() and Idle()'s treatment of a report are each one
critical section of `fd_ctx->mutex`, so one step. The report itself (`rep[p]`) is
made earlier, by epoll_wait, and may be stale when it is treated. close() is three
steps. A timer's callback is handed out (`Expire`), sets `cancelled`
(`CallbackBegin`) and calls CancelEvent() (`CallbackEnd`) in three; `cb.call` tells
which call a callback belongs to, as the weak_ptr to the `timer_condition` does.

The kernel is modelled from how the code uses it: `sk.listed` says that the
descriptor is in epoll's ready list, which happens when something becomes ready
while registered, or when epoll_ctl finds it ready; epoll_wait takes it off.
epoll_ctl fails on a closed descriptor, and with MOD or DEL on one that was closed and
opened again. A call on an unmanaged descriptor goes straight to the system and
changes nothing here. Fibers and callbacks in the run queue are run by any thread;
`Scheduler` has the queue itself.

Some properties need a race to be absent. `races`, chosen in `Init`, says which ones a
behaviour may have, and the properties that do not hold with a race name it: `duplex`
(both directions in use), `close` (close() while a call is in progress), `early` (the callback
runs between the system call and AddEvent), `stale` (the number is reused while a
poller or callback is about to act on it), `cancel` (CancelRead/CancelWrite are used), `overlap`
(more than one poller gets reports). `hangup` and `timeout` name what may happen besides, so that the run can
leave it out where the state space is large: the combinations it explores are in
`MCHookIO`. A close under a call is the race with which AddEvent()'s assert can fail: a call that arms its event
between CancelAll() and close_f() leaves it armed, and the next call of that direction on a
reused number meets it. `ArmedOrQueuedOnce` and the rest hold there as well.

### TimerWheel

`ob[o]` is a TimerW: where it is in the wheels, its `_expire` modulo the width of
`_time`, whether the caller still has a pointer (`held`). `left` is not in the code: it counts the
ticks to the expiry and is what the properties compare with. A tick is
timer_update(): execute, shift (with move_list and add_node), execute, under one
spin lock. ExpireTimer() calls it once per 10ms that have passed. A recurring timer is
put back as a new object to which nobody has a pointer; its slot in `ob` is reused for it. The widths of the wheels are
parameters. Callbacks run outside the lock and are not modelled.

### AsyncStream

The stream has a `Start()` fiber and, per connection, a doRead() and a doWrite()
fiber; `pc[f]` walks through their code. innerClose() is called from all three: a step
that calls it notes in `ret[f]` where the fiber goes on, and `broadcast`, `swap`,
`clear`, `answer` are innerClose()'s own sections. `todo[f]` is the local
copy of a queue or map that a fiber works through, or the context doRecv() has taken
out. A caller's `qpc` walks through Request(): the test of IsConnected(), addCtx(), the
timer, the two halves of enqueue(), the hold. `DoRsp` is Ctx::doRsp(): the
compare-and-swap on `scheduler` decides who wakes the caller, and the reader, innerClose() and
the timer's callback all write to the context before they know whether they won. The
semaphore `_waitFiberSem` and the reconnect timer are what keeps two
generations of fibers apart.

Socket::Close() is one step. FiberMutex, FiberCondition and FiberSemphore are used by what
`FiberSync` and `WorkGroup` establish. getAndDelCtx() reads the iterator after it has
erased it; it is taken to return the context it found. The server side
(handleRequest, sendMessage) and the `SYNC` category's connection pool
are not modelled. Races are named in `races`, as in `HookIO`: `missed` (innerClose()
broadcasts between the writer's test of IsConnected() and its wait()), `late` (a request is
registered after its connection was closed), `torn` (a caller whose timeout has won reads the
result while the reader writes the answer), `close` (the user calls Close()), `reopen`
(Close() meets a reconnection on its way).

### KcpEngine, MessageStream

Two control blocks of `ikcp.c` on a network that holds packets (sets of segments), loses,
repeats and reorders them. `cb[p]` has the fields of `ikcpcb` that decide anything: the two
queues and the two buffers, una/nxt, the windows, `acklist`, `probe`, `fastack` per segment,
`cwnd` and `ssthresh`. `Input` is ikcp_input() of one packet with parse_una, parse_ack,
parse_data and parse_fastack; `Flush` is ikcp_flush() with the acknowledgements, the probes, the
move from queue to buffer and the sending. Sequence numbers are taken modulo `SnMod` and compared by
the sign of their difference, as `_itimediff` does; the run begins just before the wrap. Time
is left out: a segment may be due at a flush when nothing of it is on its way, and `MaxFaults`
times when something is. `StreamSpec` says that the engine implements `MessageStream`.

### KcpServer

The receive loop of each UDP socket (`recv`), the session map, the queue of new
connections, the black list, the accept loop and Stop(); per session the reader in handleClient(), the sender
in dopacketOutput(), the read timer and Close(), which call_once lets one of the reader and the
listener begin. `sessions` is a map of maps as in the code: by the number of the socket, which is the socket's
own or, after Close(), -1, and by address. A receive loop handles the rest of its batch (`packets.batch`) whatever has
been closed meanwhile. The sockets of a listener are closed in one step. A fiber lock is held across steps only between a waiter's test and its
wait() (the "gap"), because that is where what is signalled without the lock is missed.
Scenarios choose the sockets, who sends, `_max_conn_num`, the number of sessions, whether calls fail and whether Stop() is called.

### MySQL, MySQLStmt, RedisPool, FoxThread, FoxPool, FoxRedis

`MySQL` has connections with their session on the server (open transaction,
database, what is uncommitted), the pool and its users, who execute one statement (MySQLUtil,
with and without retries), run a transaction, or keep a connection for use() and queries.
`stored` counts how often a statement became durable and `told` what the caller was told.
`MySQLStmt` has the bind blocks of a statement, which are allocated once. `RedisPool` has the
lists of RedisManager and hiredis' order of answers. `FoxThread` gives the operators on
one event-loop thread: dispatch, the byte in the socket pair, the batch, the null callback. `FoxPool` is
FoxThreadPool over several of them: check() takes a thread and a callback under the lock and gives the one
to the other after it, so that other calls of check() come between; putting both back, when the thread does not run, is one
step. `FoxRedis` is a client on one thread: the request is a record on the
caller's stack (`fctx`), the FoxThread makes a `ctx` for it, and the answer, the timeout and the
end of the connection race.

### TimerWheel, Timers, ByteArray, ByteBuffer, Log, Formatter, Config, Socket, FdOptions

`Timers` has the ordered set, `m_tickled`, the tickle between the unlock and the pipe (`owed`), the
wall clock and the monotonic one, and threads that are busy, asleep or about to list the
expired timers. `ByteArray` is operators on a record: memory, position, size, and the node `_cur`,
which may be null; each returns the array, what was read and how it ended. `ByteBuffer` is its
user, who remembers which item is where. `Log` has the loggers, the listener that rebuilds them one
locked call at a time, threads that log and a disk that fails. `Formatter` parses patterns, given as
characters, and compares with what their author meant. `Config` has loaders and setters
of variables with the lock's sections apart. `Socket` has objects, descriptors with a
generation, and fibers inside the calls of an object; its undefined cases (a second fiber inside the
object) end the exploration. `FdOptions` has what the kernel, the FdCtx and the user believe of each
descriptor number.

### TcpServer, HttpSession, WsSession, XftpSession, RockWire

`TcpServer`: sockets, accept loops (before their test of `_isStop`, before accept(), held in it, or
in the handshake of a TLS connection), and the callback that Stop() leaves to the accept scheduler: for each
socket CancelAll(), the CancelAll() in close(), and close_f(), between which accept loops run if that scheduler has several
threads (`_acceptWorker`). The vector of sockets has no lock; a Bind(), Start() or second callback while one
goes through it ends what is said (`torn`). Start() tests and sets `_isStop` in one step, so that two
concurrent calls of Start() are not covered. `HttpSession`: a byte stream cut into requests;
a token is a piece of a line or a line end. `WsSession`: reader, writer, queue, permit and heartbeat timer;
a frame has an opcode, FIN, a mask and a size class, and is written in pieces. `XftpSession`: packets go
to the worker thread of their file; responses are scheduled as callbacks, which run in any order. There is one pool
of worker threads, the one for the parity of UPLOAD_TEST, the only command with a handler (`xftp_worker.cpp:26`).
`RockWire`: head and fields as units of a stream that is cut anywhere, read with Stream's fixed-size
calls into ByteArray's write buffers; `xftp` chooses the protocol. A read fails when the stream has ended; the
server's receive timeout, a further way for it to fail, is left out.

## 3. Runs

| Run | Checks | Bounds |
|---|---|---|
| `fibersync` | `AssertsHold`, `WokenExactlyOnce`, `StrictFifo`, `MonitorSpec`, `CallsReturn` | 4 fibers: an owner, one in the middle of signal(), one handed over and one queued at once |
| `scheduler_safety` | `OneThreadPerFiber`, `TasksKept`, `CountersSound` | 2 workers and the caller, 2 callbacks (one submitted by the other), 2 yields, 1 SwitchTo, 3 fiber objects |
| `scheduler_live` | `SchedulerEnds` | the same with 1 yield and no SwitchTo |
| `workgroup` | `GroupSound`, `GroupEnds` | 2 submitters, 4 callbacks, 2 permits, vectors of 2, both classes |
| `hookio` | `ArmedOrQueuedOnce`, `EventsSound`, `ResultsHonest`, `HeldCallWakes` | 2 pollers, 2 sockets in turn on the number, 2 calls; no race and each race alone (`close` with one poller; `close` and `duplex` with a peer that hangs up or with timeouts, not both) |
| `asyncstream` | `CallersSound`, `ResultsTrue` | 2 callers, 2 connections, 1 failed attempt; the races `missed` and `late` |
| `asyncstream_live` | `ConnectionsSound`, `StreamGoesOn` | 1 caller, 2 connections, 1 failed attempt; three pairs of races |
| `kcp_engine` | `SegmentsSound`, `StreamSpec`, `AllArrives` | 2 messages of 2 fragments, numbers modulo 16 from 14, send window 2, 2 packets in flight, 1 fault; with and without a congestion window |
| `kcp_server` | `SessionsSound`, `TimeoutHonest`, `Ends` | 2 clients on 2 sockets or 1 with 2 sessions and no faults; 1 client and 1 session with a failing call; 1 client, 2 sessions at once and Stop(); 2 packets, in one batch or two |
| `storage` | `PoolsSound`, `WorkKept`, `StmtHonest`, `PoolDeals` | MySQL: 2 users (a transaction of 2 statements beside 1 statement), pool of 1, 2 tries, 1 fault; Redis: 3 connections of 3 types, 2 clients, 2 calls each, 1 cut; 2 threads and 3 callbacks |
| `library` | `OnTime`, `BufferSound`, `LogSound`, `ConfigSettles`, `SocketSound` | see below |
| `servers` | `AnswersOwn`, `FramesWhole`, `RequestsKept`, `MessagesKept`, `ListenersSound`, `EverythingEnds` | see below |

The bounds of `library`: a wheel with near of 2 slots and 2 levels of 4, so that `_time` has 5
bits, and 2 timers; nodes of 2 bytes, at most 5 bytes and 2 items; patterns of 4 tokens; 3
configurations of 2 loggers, 3 reloads, 1 fault of the disk; 1 variable, 3 files, 2 threads, 1
listener, 1 edit, 2 values set; 2 fibers on 2 descriptors, 3 ever opened (2 for plain
sockets); 2 ordered timers, one recurring, and 2 threads, 1 reset, or 1 thread with 1 fault of the clock; 2
descriptor numbers opened 3 times. The bounds of `servers`: 2 callers with 1 command each and 1 lost
connection; 2 frames from the client and 1 message to it, or 1 and 2; 3 requests of 5 kinds in
a buffer of 6 tokens; 3 messages of 4 kinds, nodes of 3 units and reads of 4; 2 packets and 2
worker threads; 2 calls of Bind(), 2 of Start(), 1 client, with one accept thread and with several.

Some properties are conjunctions, defined in the module or in its MC module, of properties that the
module states: `CallsReturn` is `LockReturns` and `NotifiedReturns`; `TasksKept` is `TypeOK` and `EachTaskOnce`;
`CountersSound` is `CountersExact` and `StopDrains`; `SchedulerEnds` is `TaskCompletes` and
`StopReturns`; `GroupSound` is `GroupTypeOK`, `PermitsConserved` and `WaitAllMeansDone`; `GroupEnds` is `WaitAllReturns`
and `EveryTaskRuns`; `EventsSound` is `PendingSound` and `CloseClean`; `CallersSound` is `TypeOK`,
`CallerWokenOnce` and `NeverForgotten`; `ConnectionsSound` is `OneConnectionAtATime` and
`ClosedStaysClosed`; `StreamGoesOn` is `RequestReturns` and `RestartsOrEnds`; `SessionsSound` is
`MapOwnsOpen` and `LimitsKept`. Those of the three sums say of each part what its module states.

Why the bounds are enough: two threads and the caller give every pair of threads in
Run(), Idle() and Stop() at once, and a third one that takes the edge meant for
another; two tasks give a queue that is empty, has one entry, and has an entry
behind one that cannot be taken; two yields let a task be requeued after an event.
Three fiber objects suffice for two callbacks (one more is kept by a thread for
reuse). Two pollers hold a fresh and a stale report at once; two sockets and two
calls let what is left of the first call (a callback, a report, an armed event) meet the
second; do_io's retries are not bounded. The races are taken one at a time because the state space of
all together is out of reach of a short run; the theorems have no such limit. Two callers on one
stream give a queue and a map with more than one entry, an
answer for one while the other times out; two connections and a failed attempt
let what is left of the first connection meet the second; they are interchangeable and a symmetry
set in the run without liveness. Four segments in a window of
two make the KCP window slide and close, and a receive window of which the application
takes nothing for a while makes the probe necessary; the sequence numbers wrap in the middle. Two receive
loops are what the limits of KcpListener can be overshot by. A pool of one connection and two users is
empty, full and over-full in turn; one fault at any step covers every statement, BEGIN and COMMIT of a
transaction. The small wheel keeps every boundary of the real one: delays below, at and above the size of
near and of level 1, the last level, and the wrap of `_time`, which the run passes in
all positions. Nodes of two bytes let every item start before, at and after a boundary. A
read of four units and a node of three units are larger and smaller than the messages, in turn.
Deadlock checking is off in every run because each system really may stop: after Stop(),
after WaitAll(), when all fibers wait on a condition nobody signals, after a session's end or
the last message, or at the bound on what its users do.

What the runs show of the code, as exceptions written into the properties or the bounds
(the ones that a comment or a caller in the code contradicts are findings in `PROJECT.json`):

- Scheduler: Stop() can return with a task still waiting for I/O, because IsStopping() reads
  `_pendingEventNum` before the task arms its event and `_active_threadNum` after it swapped out, and
  because a thread whose idle fiber has ended goes on taking tasks. With a SwitchTo() during Stop()
  the target thread can look at the entry while the fiber is still EXEC, and the task is never run.
- WorkGroup: WorkerGroup::Schedule(vector) with more callbacks than `batch_size` never returns, and
  two vectors at once can wait for each other; only the owner submits vectors in the run, and no longer
  ones. The timer can fire between WaitAll()'s test of `_isTimeouted` and its wait(): WaitAll() then
  waits for the callbacks after all.
- HookIO: a call in progress can arm its event after CancelAll() and before close_f(), and nobody wakes
  it, while the next call of that direction on the reused number runs into the assert (`close`); with both directions in use `_pendingEventNum` can become too low (`duplex`); a callback
  that runs before AddEvent() finds no event to cancel, and the call holds without a timeout (`early`);
  connect() returns 0 on any wake-up that left no SO_ERROR, a cancellation included.
- AsyncStream: a request without a timeout that is registered after innerClose() has emptied the
  map waits until the next time the connection breaks (`late`); a caller whose timeout has won may
  see "ok" without an answer (`torn`); Close() while Start() is running or in the run
  queue leaves a connected stream (`reopen`); after Close(), a broadcast that the
  writer misses leaves it asleep for ever (`close` with `missed`). Without Close() a missed broadcast
  does no harm: doRead() calls innerClose() a second time, and the queue's mutex, taken in between, has
  by then put the writer into wait().
- KcpServer: a reader, sender or accept loop that is signalled between its test and its wait() sleeps on
  until the next signal; WaitSender() can take the permit before the sender does, which then waits for ever;
  a timer that expired as its read returned makes the next read time out at once; the two limits can be
  exceeded by one per other receive loop; what is left of a batch when the listener is closed is looked up under the
  number -1, so that a client with a session can get a second one, and the end of either may take the other
  out of the maps (`lis.twice`).
- MySQL: ~MySQLTransaction of an auto-commit transaction with an error leaves it open in the
  pool; TryExecute() repeats a statement whose answer was lost; use() of the name the object remembers
  does nothing after a reconnection to another database. MySQLStmt: a number wider than the parameter's first
  value is written past the end of its block; query() of a statement without a result set returns a result
  without error though nothing was executed (`res.meta` tells them apart). RedisPool: a blocking connection comes back under the empty
  name, and reconnect() reports success and failure the wrong way round. FoxThread: stop() drops the
  rest of the batch, so that the fibers of those commands wait for ever; check() calls itself without
  end while threads are being stopped.
- TimerWheel: a timer that is put into slot 0 of a level below the last is never fired
  (`MissedOnlyInSlotZero` shows that this is the only case; with the real widths it takes a delay of
  2.56 s or more). Timers: after a signal in epoll_wait() a thread sleeps its whole timeout again, and a
  clock set back by less than an hour makes timers late.
- ByteArray: WriteStringF64() and ReadStringF64() do not agree; a read of nothing at the very end dereferences a
  null node. Formatter: "%%" reads on from the second percent sign. Log: a line that a
  logger takes while it is being rebuilt reaches only some of its sinkers, of the old configuration or of the new; a
  file that is deleted is missed for three seconds; a configuration that was written out has no sinkers when it is read back. Config:
  two SetValue() at once can leave listeners with the other value, and so can a SetValue() between a listener's GetValue()
  and its AddListener(), until the next one. FoxRedis: the ping of TimeCb() after the connection was lost uses the context
  that hiredis has freed; nothing is said from there on (`crashed`). Socket: two fibers inside one object
  can close a number that is somebody else's; an SSLSocket used after Close() uses its old number; Connect() after
  Close() keeps the old local address. FdOptions: FIONBIO 0 makes a managed socket block its thread; a
  descriptor closed without hooks leaves its FdCtx to the next owner of the number; a timeout set
  without hooks is not seen.
- TcpServer: Start() before the callback of an earlier Stop() loses its sockets, and the accept loops go
  round for ever. Stop() leaves a loop that waits for the TLS handshake of a silent client, one whose socket a failing
  Bind() has dropped from the list, and, with several accept threads, one that called accept() again between
  the last CancelAll() and close_f() (`LeftOver`). HttpSession: bytes that follow a request in the buffer are dropped. WsSession: the
  reader's pong may stand inside the writer's frame; a writer that has not begun when the session ends
  waits for ever; the mask and payload of a ping or pong stay in
  the stream, and what the servlet gets from there on is no message of the client's (`desync`). RockWire: the last read of a message may
  take bytes of the next one. XftpSession: a packet without a handler is never answered.

## 4. Fairness

- `FiberSync`: straight-line code and the scheduler are fair (weak fairness of
  YieldToHold, Resume, the second half of signal()); strong fairness of Unlock says
  that a fiber which owns the mutex releases it eventually, though it may signal in a
  loop before. Nothing forces a fiber to lock, wait or signal.
- `Scheduler`: weak fairness per thread (the operating system runs threads, tasks do
  not compute for ever), of each armed descriptor becoming ready, and of Stop(). A
  thread in epoll_wait is included: it returns after MAX_TIMEOUT (3 s) at the
  latest. Liveness depends on that timeout: without it (mutant `EpollNoTimeout`) a
  task can stay in the queue for ever because its tickle was suppressed.
- `HookIO`: pollers (epoll_wait returns what is listed), runnable fibers, timers,
  callbacks and a close() in progress are weakly fair. Nothing forces data to arrive, a
  call to be made or a descriptor to be closed.
- `TimerWheel` and `Timers` have safety properties only: "fires in its tick" is an invariant
  over `left`, and "nobody sleeps past a timer" one over the sleepers, not liveness properties.
- `KcpEngine`: weak fairness of the flush in which everything overdue is sent (doSendLoop() goes on
  calling ikcp_update()), of packets leaving the network, and of the reader. What is sent again and again
  arrives because the faults are bounded by `MaxFaults`.
- `KcpServer`: receive loops, readers, senders, timers, closers and the accept loop are weakly fair. No
  client need send, and no call need fail.
- `MCServers`: the fibers, threads and callbacks of the part that runs are weakly fair, one condition
  each (`Fair1` to `Fair5`): the loop of the FoxThread, its timeouts and the return of each caller; the
  WebSocket's reader, writer and timer; the XFTP session's reader, writer, responses and worker
  threads; the callback of Stop(), the accept loops' tests and an accept() on a closed socket. Nobody need send,
  connect, push or stop.
- `MCLibrary`, `MCStorage`: safety only.
- `AsyncStream`: the stream's fibers, callers inside Request(), timers and a Close() in progress are
  weakly fair, doRecv() included: the peer answers or the connection breaks. Nobody need call
  Request() or Close(), and nothing need break.
- `WorkGroup`: submitters, callbacks, WaitAll() and OnTimer()'s second half are fair; the
  timer need never fire.

## 5. Proofs

The theorems are in the modules named `..._proof`; `QueueLemmas` holds what they share: what
appending, taking the head and removing an element do to the set of a queue without repetitions, and
how a cardinality changes with one element. Each `IInv` below was checked by TLC on the
component's run before it was proved. `Inductive` (`NextIInv` and `StepKeeps` in `Fibers_proof`, `Invariance`
in `HookIO_proof`) is the proof that it holds, with one lemma per action or group of actions;
the listed theorems follow from it.

| Module | Theorems | For every |
|---|---|---|
| `Fibers_proof` | `AssertsNeverFail`, `NoWakeUpLost`, `Fifo`, `ImplementsMonitor` (FiberSync) | set of fibers |
| | `GroupIsSound` (WorkGroup) | finite set of submitters and of callbacks, batch size, bulk sizes |
| `Scheduler_proof` | `FiberOneThread`, `TasksAreKept`, `CountersAreSound` | finite set of workers, set of callbacks, number of fibers, yields and switches |
| `HookIO_proof` | `OneWakeUpPerCall`, `NoPhantomEvent`, `EventsAreSound`, `ResultsAreHonest` | set of pollers, number of sockets and calls, combination of races |
| `AsyncStream_proof` | `CallersAreSound`, `ConnectionsAreSound`, `ResultsAreTrue` | finite set of callers, number of connections and failures, combination of races |
| `KcpServer_proof` | `SessionsAreSound`, `TimeoutsAreHonest` | finite set of clients, sockets and sessions, limits, assignment of clients to sockets, size of the batches |
| `Services_proof` | `ListenersAreSound` (TcpServer), `AnswersAreOwn` (FoxRedis), `MessagesAreKept` (RockWire and XftpSession), `FramesAreWhole` (WsSession), `RequestsAreKept` (HttpSession) | finite set of addresses, number of Bind(), Start() and clients; callers and commands; Rock messages, node and buffer sizes; packets and worker threads; frames and messages of a WebSocket; HTTP requests, buffer and body sizes |
| `Storage_proof` | `PoolDealsFairly` (FoxPool), `StatementsAreHonest` (MySQLStmt) | number of threads, finite set of callbacks; parameters, columns and lengths of a statement |

Assumptions. `NilAssumption`, `NoneAssumption` and their like say that the value for "nobody" is
no fiber, thread or session; the bounds are naturals. The sets whose members are counted are
finite: workers and submitters are threads and fibers, callers and clients are those that ever come
in the run that is considered. `Owner` is one of the submitters, `Spare` (the worker that
is not there with `use_caller`) one of the workers, and `Caller` none of them. `KcpServer` needs
a client to exist, since "the other receive loops" is a number below zero without one. `Services_proof`
rests on what `MCServers` states and TLC evaluates there: `ServersAssumption` (the addresses of a Bind() can be counted, a pool
has a thread), `MessagesAssumption` (sizes are numbers; a field that a Rock message's kind does not carry has the value it was
constructed with), `FramesAssumption` (which frames and messages there are; nobody queues the
end mark of the queue) and `RequestsAssumption` (the fields a request has; sizes are numbers). `Storage_proof` rests on `PoolAssumption` (a FoxThreadPool has
threads; callbacks can be counted) and `StmtAssumption` (sizes are numbers; the server declares a number or a
time no longer than it is). The theorems about `MCServers` and `MCStorage` are about the sum, so that they start from any `which`; since one part moves and the others
keep their initial states, each part's invariant is an invariant of the sum (`TcpFrame`, `RedisFrame` and their like).

### Why the invariants do not stand alone

- `FiberSync`: `WokenExactlyOnce` says that a blocked fiber is parked, or owner with one
  scheduler entry. That removing it from one queue leaves it unparked needs to know that it was
  there once and in no other place: `OnePlace`. `PlaceFits` says who is in which place is
  blocked in the matching call. `UnlockFacts` is about unlockNoLock(), with which three actions end.
  `Fifo` and `ImplementsMonitor` (with `client <- pc` and `notified` the fibers in wait() that
  have left the condition's queue) follow from `IInv` and the actions.
- `WorkGroup`: permits are handed over by post(), so that counting them needs that a fiber waits
  or is scheduled and not both (`InOnePlace`), and that a callback not yet in the scheduler is with
  one fiber (`OneOwner`). That WaitAll() saw every callback needs that nobody is in Schedule() once
  `_isFinish` is set (`PhaseFits`) and how many permits the loop has taken (`LoopFits`).
- `Scheduler`: a fiber may be queued while the thread that runs it is still switching away, so
  "one thread per fiber" is not a matter of the queue alone. `HandsFit`, `OneHolder` and
  `HeldFits` tie what a thread carries to where it is in Run() and to the fiber's status;
  `StatusFits` the status to the place of the fiber; `BodiesFit` and `JobsFit` a callback to its
  one fiber. That Stop() drains needs that somebody will look at the queue again while it is not
  empty (`QueueServed`), that nothing is pinned to a thread that has left (`PinsStay`), and which
  thread can be where (`PlacesFit`).
- `HookIO`: that a call is armed or queued once and that `_pendingEventNum` is never too high are
  inductive together with the types and two facts about the calls: one armed call per direction (`OneArmed`), and none
  in progress that has not been made (`Fresh`). That the count is exact but for `Mixed` adds what a report that is not
  handled yet can hold (`Exact`). That the assert holds without the race "close" needs that every call is
  then on the present socket (`CallersFit`); the table of descriptors adds `TableFits`.
  For the results, `CallsFit` says that a timer's callback that still reaches the condition of a
  call comes from a timer of that call, and `ConnectFits` why a connect() was woken.
- `AsyncStream`: the two permits of a connection are counted by who has them (`PermitsFit`), so
  that the fibers of one connection are gone before the next is made; the next one is made by a
  reader, Start() or the timer, one of them (`OneStart`). For the callers, `TimersFit` and
  `AnswersFit` say that a timeout or an answer found in a context was put there by the timer or
  the reader, and `HandsFit` what a fiber carries while it answers. `CloseFits` says
  that after Close() no way back is left but those that `races` names.
- `KcpServer`: the look into the map and the entry into it are two steps. That a new session
  displaces no open one needs that the packets of an address come to one receive loop and that
  the loop's look is still right (`LoopsFit`), in the map under the number that the socket has by then: nothing
  is under -1 before Close() (`MapFits`); `LimitsFit` counts the loops that have passed
  a limit's test, which gives the bound on the overshoot; `OwnersFit` says that loop, queue and
  readers share out the sessions; `TimeFits` what becomes of the callbacks of earlier reads.
  Most steps change the session's own fields only: `Quiet` and `SameCore` name what
  they keep, and `QuietKeeps` is proved once for all of them.

- `TcpServer` (`TcpInv`): that a socket of a running server has one accept loop needs that sockets are
  numbered through, so that a new socket has no loop of an earlier Start(), that a stopped server whose callbacks
  are over has no socket with a loop, and that a callback is on its way to a running server only if Start() came
  before it (`TcpLoops`); that the sockets are open, that no callback is in the middle of them (`TcpOpen`).
- `FoxRedis` (`RedisInv`): a command is in one of three places (queue of the FoxThread, its batch,
  a connection), and only from all three follows that its caller has not been scheduled yet
  (`RequestFits`); a Ctx whose timer fired stays on the connection and may not wake anybody.
- `XftpSession` (`XftpInv`): order within a file comes from one queue per worker thread
  (`ThreadsFit`), and that a packet which waits is younger than all of its file already written (`FileFits`);
  answered once, from the five places of a packet being disjoint (`AnswersFit`).
- `RockWire` (`RockInv`): `StreamFits` says that what is read of a message, what is on its way and what is
  still to write are together a sequence of whole messages, from the first not delivered. Where each
  message begins is a function whose existence the invariant states (`SplitAt`): a definition by
  recursion over the stream would need induction. That the parser gives back
  the message (`ParseBack`) is proved field by field, with and without compression. `EndsFit` names the two ways
  to fail.
- `WsSession` (`WsInv`): `ReaderFits` says of a message begun what `FramesWhole` says of a finished one,
  and that no data frame stands unread between, until the reader is out of step; `WriterFits` that queue, batch and
  piece number follow each other and the last piece written; `PermitFits` who has the permit of
  `_sem`.
- `HttpSession` (`HttpInv`): what the session has of the current request, its buffer, what is on its way and
  the body a client with `Expect: 100-continue` holds back are one stream of whole requests
  (`BytesFit`). That the parser stops at the end of a head, and not before, needs that the pieces it was
  given are cut behind lines (`TakenFits`; GetLastRN() cuts there); that a body is read from the right
  place, that nothing follows the head in the buffer unless the client sent ahead (`ClientFits`).
  `GoesOn` ties the session's end to what the last response said.
- `FoxPool` (`PoolInv`): a thread is free, in the hand of one check() or has one callback with a pointer to
  it (`ThreadsFit`); a callback is in one of four places until it runs (`JobsFit`). That a callback given to a thread is
  not dropped without a stop, and that check() does not spin, need that a thread of a started pool
  that does not run was stopped (`StartFits`).
- `MySQLStmt` (`StmtInv`): a text gets a new block when the last value was shorter than it, not when the
  block is: that is safe only while the last value fitted its block (`BlocksFit`), which is what a number
  wider than its block breaks (`wide`).

### What is only model-checked

- The liveness properties: fairness and ENABLED are outside the provers' reach.
- The safety of the KCP engine (`SegmentsSound`, and its refinement of `MessageStream`), whose proof
  would be an induction over the operators of the engine on sequences of segments.
- `PoolsSound`, `WorkKept` (databases); `OnTime`, `BufferSound`, `LogSound`,
  `ConfigSettles`, `SocketSound` (library). The codecs among them
  (`ByteArray`, `Formatter`) compute by recursion over data, which cannot be proved about here.

## 6. Not modelled

- The ORM generator: it turns XML into C++ text once, in one thread.
- Generated parsers (Ragel) and protobuf code, assembly context switches, the client libraries
  (libmysqlclient, hiredis, libevent, OpenSSL, yaml-cpp, zlib), which appear as their callers use them.
- Wrappers of system calls without state of their own: thread locks, threads, addresses.
- The object pool, which decides where a fiber's memory lies and nothing else.
- Start-up (application, daemon, environment, modules): a sequence in one thread.
- Utilities, the SMTP dialogue, compression.
- The table of HTTP and WebSocket servlets, filled at start-up; the dispatch of a peer's Rock
  requests to modules; the `SYNC` category's connection pool.
- The build OPTIMIZE=ON (work stealing), which is off by default and marked "some bug" in
  `CMakeLists.txt`.

`PROJECT.json` lists every component with what is modelled of it.

## 7. Plan

The components with state of their own are modelled; the core (fibers, scheduler, worker groups,
hooks, streams, KCP server) and the servers are proved about. What is left is proof, in this order:

1. `MySQL`: the ownership part of `PoolsSound` for any number of borrowers.
