------------------------------ MODULE AsyncStream ------------------------------
(***************************************************************************)
(* The asynchronous client connection: AsyncSocketStream                   *)
(* (async_socket_stream.cpp) with RockStream::Request() and doRecv()       *)
(* (rock_stream.cpp, the default ROCK_CATEGORY ASYNC).  Many fibers send   *)
(* requests over one connection; a writer fiber sends them, a reader fiber *)
(* wakes the caller whose answer comes in.  When the connection breaks,    *)
(* innerClose() fails the pending requests and Start() is run again by a   *)
(* timer.                                                                  *)
(*                                                                         *)
(* A step is a critical section or one access to a shared variable.  The   *)
(* fiber mutex, condition and semaphore are used by what FiberSync and     *)
(* WorkGroup establish about them.                                         *)
(*                                                                         *)
(* races, chosen at the start, holds the races a behaviour may have:       *)
(*   "missed"  innerClose() broadcasts while the writer is between its     *)
(*             test of IsConnected() and wait()                            *)
(*   "late"    a request is registered when the connection it was made for *)
(*             is closed already                                           *)
(*   "torn"    a caller whose timeout has won reads its result while the   *)
(*             reader is writing the answer into it                        *)
(*   "close"   the user calls Close()                                      *)
(*   "reopen"  ... while a reconnection is on its way                      *)
(***************************************************************************)
EXTENDS Integers, FiniteSets, Sequences

CONSTANTS
    Reqs,         \* bound: the requests, one calling fiber each
    MaxConns,     \* bound: connections in all
    MaxFails,     \* bound: failed attempts to connect
    RaceSets,     \* the values of races to explore
    None

ASSUME StreamAssumption ==
    /\ MaxConns \in Nat \ {0} /\ MaxFails \in Nat
    /\ IsFiniteSet(Reqs) /\ None \notin Reqs

Conns == 1..MaxConns
\* The fibers of the stream: Start(), and doRead() and doWrite() per connection.
Starter == <<"start", 0>>
Fibers == {Starter} \cup ({"read", "write"} \X Conns)

VARIABLES
    races,
    conn,         \* IsConnected()
    gen,          \* which connection it is, or was last
    broken,       \* the peer is gone
    wire,         \* requests sent and not answered
    sem,          \* _waitFiberSem
    auto,         \* _autoConnect
    retry,        \* the reconnect timer: "no", "armed", "due" (in the run queue)
    ctxs,         \* _reqCtxs
    que,          \* _sendCtxQue
    mtx,          \* the fiber that holds _queMtx across steps
    pc,           \* where each fiber is
    ret,          \* where it goes on after innerClose()
    todo,         \* a fiber's copyQue or copyReqCtxs, or the context it has received
    qpc,          \* where each caller is in Request()
    ctx,          \* its Ctx: [sched, result, rsp, timed, woken], scheduler # nullptr,
                  \* and how often the fiber was scheduled
    timer,        \* its timer: "no", "armed", "due", "erased"
    fails,        \* failed attempts
    cpc           \* where the user's Close() is

vars == <<races, conn, gen, broken, wire, sem, auto, retry, ctxs, que, mtx, pc, ret,
          todo, qpc, ctx, timer, fails, cpc>>

netVars == <<gen, broken, wire>>
startVars == <<sem, auto, retry, fails>>
reqVars == <<ctx, timer>>

NewCtx == [sched |-> FALSE, result |-> "ok", rsp |-> FALSE, timed |-> FALSE, woken |-> 0]

\* The user has connected the socket and calls Start().
Init ==
    /\ races \in RaceSets
    /\ conn = TRUE /\ gen = 1 /\ broken = FALSE /\ wire = {}
    /\ sem = 2 /\ auto = TRUE /\ retry = "no"
    /\ ctxs = {} /\ que = <<>> /\ mtx = None
    /\ pc = [f \in Fibers |-> IF f = Starter THEN "wait" ELSE "off"]
    /\ ret = [f \in Fibers |-> "off"]
    /\ todo = [f \in Fibers |-> <<>>]
    /\ qpc = [q \in Reqs |-> "idle"]
    /\ ctx = [q \in Reqs |-> NewCtx]
    /\ timer = [q \in Reqs |-> "no"]
    /\ fails = 0
    /\ cpc = "no"

Go(f, l) == pc' = [pc EXCEPT ![f] = l]
-----------------------------------------------------------------------------
(* Ctx::doRsp(): whoever takes the scheduler away from the context cancels the *)
(* timer and schedules the caller; late ones do nothing.  c is the context as  *)
(* the caller of doRsp() has just written it.                                  *)

\* Faulty variant: nobody takes the scheduler away.
DoRspAgain(q, c) ==
    /\ ctx' = [ctx EXCEPT ![q] =
                 [c EXCEPT !.result = IF c.timed THEN "timeout" ELSE @, !.woken = @ + 1]]
    /\ UNCHANGED timer

DoRsp(q, c) ==
    IF c.sched
    THEN /\ ctx' = [ctx EXCEPT ![q] = [c EXCEPT !.sched = FALSE, !.woken = @ + 1,
                                                !.result = IF c.timed THEN "timeout" ELSE @]]
         /\ timer' = [timer EXCEPT ![q] = IF @ = "armed" THEN "no" ELSE @]
    ELSE ctx' = [ctx EXCEPT ![q] = c] /\ UNCHANGED timer
-----------------------------------------------------------------------------
(* Request() *)

\* The test of IsConnected(): without a connection the caller gets NOT_CONNECT.
Request(q) ==
    /\ qpc[q] = "idle"
    /\ qpc' = [qpc EXCEPT ![q] = IF conn THEN "add" ELSE "notconn"]
    /\ UNCHANGED <<races, conn, netVars, startVars, ctxs, que, mtx, pc, ret, todo, reqVars, cpc>>

\* The context is filled in, addCtx(), and the timer if there is a timeout.
AddCtx(q) ==
    /\ qpc[q] = "add"
    /\ conn \/ "late" \in races
    /\ ctx' = [ctx EXCEPT ![q].sched = TRUE]
    /\ ctxs' = ctxs \cup {q}
    /\ \E l \in {"timer", "enqueue"} : qpc' = [qpc EXCEPT ![q] = l]
    /\ UNCHANGED <<races, conn, netVars, startVars, que, mtx, pc, ret, todo, timer, cpc>>

AddTimer(q) ==
    /\ qpc[q] = "timer"
    /\ timer' = [timer EXCEPT ![q] = "armed"]
    /\ qpc' = [qpc EXCEPT ![q] = "enqueue"]
    /\ UNCHANGED <<races, conn, netVars, startVars, ctxs, que, mtx, pc, ret, todo, ctx, cpc>>

\* enqueue(): the queue under its mutex ...
Enqueue(q) ==
    /\ qpc[q] = "enqueue" /\ mtx = None
    /\ que' = Append(que, q)
    /\ qpc' = [qpc EXCEPT ![q] = "signal"]
    /\ UNCHANGED <<races, conn, netVars, startVars, ctxs, mtx, pc, ret, todo, reqVars, cpc>>

Waiting == {f \in Fibers : pc[f] = "waiting"}
Wake(F) == pc' = [f \in Fibers |-> IF f \in F THEN "lock" ELSE pc[f]]

\* Faulty variant: the writer is not told.
SignalNobody(q) ==
    /\ qpc[q] = "signal"
    /\ qpc' = [qpc EXCEPT ![q] = "held"]
    /\ UNCHANGED <<races, conn, netVars, startVars, ctxs, que, mtx, pc, ret, todo, reqVars, cpc>>

\* ... and the signal without it; the caller holds.
Signal(q) ==
    /\ qpc[q] = "signal"
    /\ qpc' = [qpc EXCEPT ![q] = "held"]
    /\ IF Waiting = {} THEN UNCHANGED pc ELSE \E f \in Waiting : Wake({f})
    /\ UNCHANGED <<races, conn, netVars, startVars, ctxs, que, mtx, ret, todo, reqVars, cpc>>

\* The reader is between the two assignments to q's context.
Writing(q) == \E f \in Fibers : pc[f] = "rsp" /\ todo[f] = <<q>>

\* The caller runs again and makes its RockResult of what the context holds.
Resume(q) ==
    /\ qpc[q] = "held" /\ ctx[q].woken > 0
    /\ "torn" \in races \/ ~Writing(q)
    /\ qpc' = [qpc EXCEPT ![q] = "done"]
    /\ UNCHANGED <<races, conn, netVars, startVars, ctxs, que, mtx, pc, ret, todo, reqVars, cpc>>

\* The timer of the request; onTimer() in its two steps.
Expire(q) ==
    /\ timer[q] = "armed"
    /\ timer' = [timer EXCEPT ![q] = "due"]
    /\ UNCHANGED <<races, conn, netVars, startVars, ctxs, que, mtx, pc, ret, todo, qpc, ctx, cpc>>

OnTimerErase(q) ==
    /\ timer[q] = "due"
    /\ timer' = [timer EXCEPT ![q] = "erased"]
    /\ ctxs' = ctxs \ {q}
    /\ UNCHANGED <<races, conn, netVars, startVars, que, mtx, pc, ret, todo, qpc, ctx, cpc>>

OnTimerRsp(q) ==
    /\ timer[q] = "erased" /\ ~ctx[q].timed
    /\ DoRsp(q, [ctx[q] EXCEPT !.timed = TRUE])
    /\ UNCHANGED <<races, conn, netVars, startVars, ctxs, que, mtx, pc, ret, todo, qpc, cpc>>
-----------------------------------------------------------------------------
(* innerClose(), called by any of the stream's fibers *)

\* SocketStream::Close(): what was on its way is lost, and the reader gets an error.
Disconnect == conn' = FALSE /\ broken' = FALSE /\ wire' = {}

\* The beginning of a step that calls innerClose().
InnerClose(f, l) ==
    /\ Disconnect
    /\ Go(f, "broadcast")
    /\ ret' = [ret EXCEPT ![f] = l]

\* Faulty variant: the writer is not woken.
BroadcastNobody(f) ==
    /\ pc[f] = "broadcast"
    /\ Go(f, "swap")
    /\ UNCHANGED <<races, conn, netVars, startVars, ctxs, que, mtx, ret, todo, qpc, reqVars, cpc>>

Broadcast(f) ==
    /\ pc[f] = "broadcast"
    /\ "missed" \in races \/ \A w \in Fibers : pc[w] # "to_wait"
    /\ pc' = [w \in Fibers |-> IF w = f THEN "swap" ELSE IF pc[w] = "waiting" THEN "lock" ELSE pc[w]]
    /\ UNCHANGED <<races, conn, netVars, startVars, ctxs, que, mtx, ret, todo, qpc, reqVars, cpc>>

\* Some order of a set of requests.
Listed(S) == CHOOSE s \in [1..Cardinality(S) -> S] : {s[i] : i \in 1..Cardinality(S)} = S

\* Faulty variant: the contexts are dropped.
DropCtxs(f) ==
    /\ pc[f] = "swap"
    /\ ctxs' = {}
    /\ Go(f, "clear")
    /\ UNCHANGED <<races, conn, netVars, startVars, que, mtx, ret, todo, qpc, reqVars, cpc>>

SwapCtxs(f) ==
    /\ pc[f] = "swap"
    /\ todo' = [todo EXCEPT ![f] = Listed(ctxs)]
    /\ ctxs' = {}
    /\ Go(f, "clear")
    /\ UNCHANGED <<races, conn, netVars, startVars, que, mtx, ret, qpc, reqVars, cpc>>

\* The end of innerClose().
Leave(f) == pc' = [pc EXCEPT ![f] = ret[f]] /\ ret' = [ret EXCEPT ![f] = "off"]

ClearQueue(f) ==
    /\ pc[f] = "clear" /\ mtx = None
    /\ que' = <<>>
    /\ IF todo[f] = <<>> THEN Leave(f) ELSE Go(f, "answer") /\ UNCHANGED ret
    /\ UNCHANGED <<races, conn, netVars, startVars, ctxs, mtx, todo, qpc, reqVars, cpc>>

\* Faulty variant: the result is left as it was.
AnswerPlain(f) ==
    /\ pc[f] = "answer"
    /\ DoRsp(Head(todo[f]), ctx[Head(todo[f])])
    /\ todo' = [todo EXCEPT ![f] = Tail(@)]
    /\ IF Tail(todo[f]) = <<>> THEN Leave(f) ELSE UNCHANGED <<pc, ret>>
    /\ UNCHANGED <<races, conn, netVars, startVars, ctxs, que, mtx, qpc, cpc>>

\* IO_ERROR for each of them.
Answer(f) ==
    /\ pc[f] = "answer"
    /\ DoRsp(Head(todo[f]), [ctx[Head(todo[f])] EXCEPT !.result = "io"])
    /\ todo' = [todo EXCEPT ![f] = Tail(@)]
    /\ IF Tail(todo[f]) = <<>> THEN Leave(f) ELSE UNCHANGED <<pc, ret>>
    /\ UNCHANGED <<races, conn, netVars, startVars, ctxs, que, mtx, qpc, cpc>>
-----------------------------------------------------------------------------
(* doRead() *)

ReadLoop(f) ==
    /\ pc[f] = "read"
    /\ IF conn THEN Go(f, "recv") /\ UNCHANGED <<conn, broken, wire, ret>> ELSE InnerClose(f, "post")
    /\ UNCHANGED <<races, gen, startVars, ctxs, que, mtx, todo, qpc, reqVars, cpc>>

\* doRecv(): an answer, whose context is taken out of the map if it is still there ...
Recv(f) ==
    /\ pc[f] = "recv" /\ conn /\ ~broken
    /\ \E q \in wire :
          /\ wire' = wire \ {q}
          /\ ctxs' = ctxs \ {q}
          /\ IF q \in ctxs
             THEN Go(f, "result") /\ todo' = [todo EXCEPT ![f] = <<q>>]
             ELSE Go(f, "read") /\ UNCHANGED todo
    /\ UNCHANGED <<races, conn, gen, broken, startVars, que, mtx, ret, qpc, reqVars, cpc>>

\* ... or an error.
RecvFails(f) ==
    /\ pc[f] = "recv" /\ (broken \/ ~conn)
    /\ InnerClose(f, "read")
    /\ UNCHANGED <<races, gen, startVars, ctxs, que, mtx, todo, qpc, reqVars, cpc>>

\* Into the context go the result, then the answer; then doRsp().
SetResult(f) ==
    /\ pc[f] = "result"
    /\ ctx' = [ctx EXCEPT ![todo[f][1]].result = "ok"]
    /\ Go(f, "rsp")
    /\ UNCHANGED <<races, conn, netVars, startVars, ctxs, que, mtx, ret, todo, qpc, timer, cpc>>

SetRsp(f) ==
    /\ pc[f] = "rsp"
    /\ ctx' = [ctx EXCEPT ![todo[f][1]].rsp = TRUE]
    /\ Go(f, "do_rsp")
    /\ UNCHANGED <<races, conn, netVars, startVars, ctxs, que, mtx, ret, todo, qpc, timer, cpc>>

ReadRsp(f) ==
    /\ pc[f] = "do_rsp"
    /\ DoRsp(todo[f][1], ctx[todo[f][1]])
    /\ todo' = [todo EXCEPT ![f] = <<>>]
    /\ Go(f, "read")
    /\ UNCHANGED <<races, conn, netVars, startVars, ctxs, que, mtx, ret, qpc, cpc>>

IsReader(f) == f[1] = "read"

\* Faulty variant: both permits.
PostTwice(f) ==
    /\ pc[f] = "post"
    /\ sem' = sem + 2
    /\ Go(f, IF IsReader(f) THEN "test_auto" ELSE "off")
    /\ UNCHANGED <<races, conn, netVars, auto, retry, fails, ctxs, que, mtx, ret, todo, qpc, reqVars, cpc>>

\* The permit; then the reader, and it alone, sees to the reconnection.
Post(f) ==
    /\ pc[f] = "post"
    /\ sem' = sem + 1
    /\ Go(f, IF IsReader(f) THEN "test_auto" ELSE "off")
    /\ UNCHANGED <<races, conn, netVars, auto, retry, fails, ctxs, que, mtx, ret, todo, qpc, reqVars, cpc>>

TestAuto(f) ==
    /\ pc[f] = "test_auto"
    /\ Go(f, IF auto THEN "arm" ELSE "off")
    /\ UNCHANGED <<races, conn, netVars, startVars, ctxs, que, mtx, ret, todo, qpc, reqVars, cpc>>

\* The timer; Start() has cancelled the one before, if there was one.
Arm(f) ==
    /\ pc[f] = "arm"
    /\ retry' = "armed"
    /\ Go(f, "off")
    /\ UNCHANGED <<races, conn, netVars, sem, auto, fails, ctxs, que, mtx, ret, todo, qpc, reqVars, cpc>>
-----------------------------------------------------------------------------
(* doWrite() *)

WriteLoop(f) ==
    /\ pc[f] = "write"
    /\ Go(f, IF conn THEN "lock" ELSE "exit")
    /\ UNCHANGED <<races, conn, netVars, startVars, ctxs, que, mtx, ret, todo, qpc, reqVars, cpc>>

\* _sendCtxQue.swap(copyQue) and the end of the section.
TakeQueue(f) ==
    /\ todo' = [todo EXCEPT ![f] = que]
    /\ que' = <<>>
    /\ mtx' = None
    /\ Go(f, "send")

\* With the mutex: the queue is looked at, and only if it is empty IsConnected() ...
WriteLock(f) ==
    /\ pc[f] = "lock" /\ mtx = None
    /\ IF que # <<>> THEN TakeQueue(f)
       ELSE mtx' = f /\ Go(f, "test") /\ UNCHANGED <<que, todo>>
    /\ UNCHANGED <<races, conn, netVars, startVars, ctxs, ret, qpc, reqVars, cpc>>

WriteTest(f) ==
    /\ pc[f] = "test"
    /\ IF conn THEN Go(f, "to_wait") /\ UNCHANGED <<que, mtx, todo>> ELSE TakeQueue(f)
    /\ UNCHANGED <<races, conn, netVars, startVars, ctxs, ret, qpc, reqVars, cpc>>

\* ... and _cond.wait() gives the mutex up.
WriteWait(f) ==
    /\ pc[f] = "to_wait"
    /\ mtx' = None
    /\ Go(f, "waiting")
    /\ UNCHANGED <<races, conn, netVars, startVars, ctxs, que, ret, todo, qpc, reqVars, cpc>>

\* doSend() of the next context: sent, lost on a broken connection, or an error.
Send(f) ==
    /\ pc[f] = "send"
    /\ \/ /\ todo[f] = <<>>
          /\ Go(f, "write")
          /\ UNCHANGED <<conn, broken, wire, ret, todo>>
       \/ /\ todo[f] # <<>> /\ conn
          /\ wire' = IF broken THEN wire ELSE wire \cup {Head(todo[f])}
          /\ todo' = [todo EXCEPT ![f] = Tail(@)]
          /\ UNCHANGED <<conn, broken, pc, ret>>
       \/ /\ todo[f] # <<>> /\ (broken \/ ~conn)
          /\ InnerClose(f, "write")
          /\ todo' = [todo EXCEPT ![f] = <<>>]
    /\ UNCHANGED <<races, gen, startVars, ctxs, que, mtx, qpc, reqVars, cpc>>

WriteExit(f) ==
    /\ pc[f] = "exit" /\ mtx = None
    /\ que' = <<>>
    /\ Go(f, "post")
    /\ UNCHANGED <<races, conn, netVars, startVars, ctxs, mtx, ret, todo, qpc, reqVars, cpc>>
-----------------------------------------------------------------------------
(* Start() *)

\* Faulty variant: one permit is enough.
WaitOne ==
    /\ pc[Starter] = "wait" /\ sem > 0
    /\ sem' = sem - 1
    /\ Go(Starter, "connect")
    /\ UNCHANGED <<races, conn, netVars, auto, retry, fails, ctxs, que, mtx, ret, todo, qpc, reqVars, cpc>>

\* waitFiber(): two permits, one after the other.
WaitFiber ==
    /\ pc[Starter] \in {"wait", "wait2"} /\ sem > 0
    /\ sem' = sem - 1
    /\ Go(Starter, IF pc[Starter] = "wait" THEN "wait2" ELSE "connect")
    /\ UNCHANGED <<races, conn, netVars, auto, retry, fails, ctxs, que, mtx, ret, todo, qpc, reqVars, cpc>>

\* ReConnect() unless connected.
Connect ==
    /\ pc[Starter] = "connect"
    /\ \/ /\ conn
          /\ Go(Starter, "callback")
          /\ UNCHANGED <<conn, gen, broken, wire, ret, fails>>
       \/ /\ ~conn /\ gen < MaxConns
          /\ conn' = TRUE /\ gen' = gen + 1 /\ broken' = FALSE /\ wire' = {}
          /\ Go(Starter, "callback")
          /\ UNCHANGED <<ret, fails>>
       \/ /\ ~conn /\ fails < MaxFails
          /\ fails' = fails + 1
          /\ InnerClose(Starter, "failed")
          /\ UNCHANGED gen
    /\ UNCHANGED <<races, sem, auto, retry, ctxs, que, mtx, todo, qpc, reqVars, cpc>>

\* _connectCb(), which may refuse; else the reader and the writer are started.
ConnectCb ==
    /\ pc[Starter] = "callback"
    /\ \/ /\ pc' = [pc EXCEPT ![Starter] = "off", ![<<"read", gen>>] = "read",
                              ![<<"write", gen>>] = "write"]
          /\ UNCHANGED <<conn, broken, wire, ret, fails>>
       \/ /\ fails < MaxFails
          /\ fails' = fails + 1
          /\ InnerClose(Starter, "failed")
    /\ UNCHANGED <<races, gen, sem, auto, retry, ctxs, que, mtx, todo, qpc, reqVars, cpc>>

\* The two permits go back, and the next attempt is set up.
StartFailed ==
    /\ pc[Starter] = "failed"
    /\ sem' = sem + 2
    /\ Go(Starter, "test_auto")
    /\ UNCHANGED <<races, conn, netVars, auto, retry, fails, ctxs, que, mtx, ret, todo, qpc, reqVars, cpc>>

RetryExpires ==
    /\ retry = "armed"
    /\ "reopen" \in races \/ cpc # "timer"
    /\ retry' = "due"
    /\ UNCHANGED <<races, conn, netVars, sem, auto, fails, ctxs, que, mtx, pc, ret, todo, qpc, reqVars, cpc>>

RetryStart ==
    /\ retry = "due" /\ pc[Starter] = "off"
    /\ retry' = "no"
    /\ Go(Starter, "wait")
    /\ UNCHANGED <<races, conn, netVars, sem, auto, fails, ctxs, que, mtx, ret, todo, qpc, reqVars, cpc>>
-----------------------------------------------------------------------------
(* The user and the peer *)

\* A reconnection is on its way and no longer to be stopped by Close().
Reopening ==
    \/ pc[Starter] # "off" \/ retry = "due"
    \/ \E f \in Fibers : pc[f] = "arm"

\* Close(): no more reconnections, ...
CloseBegin ==
    /\ cpc = "no" /\ "close" \in races
    /\ "reopen" \in races \/ ~Reopening
    /\ auto' = FALSE
    /\ cpc' = "timer"
    /\ UNCHANGED <<races, conn, netVars, sem, retry, fails, ctxs, que, mtx, pc, ret, todo, qpc, reqVars>>

\* Faulty variant: the timer is left alone.
CloseKeepsTimer ==
    /\ cpc = "timer"
    /\ cpc' = "socket"
    /\ UNCHANGED <<races, conn, netVars, sem, auto, retry, fails, ctxs, que, mtx, pc, ret, todo, qpc, reqVars>>

\* ... the timer is cancelled, if it has not expired, ...
CloseTimer ==
    /\ cpc = "timer"
    /\ retry' = IF retry = "armed" THEN "no" ELSE retry
    /\ cpc' = "socket"
    /\ UNCHANGED <<races, conn, netVars, sem, auto, fails, ctxs, que, mtx, pc, ret, todo, qpc, reqVars>>

\* ... and the socket is closed.
CloseSocket ==
    /\ cpc = "socket"
    /\ Disconnect
    /\ cpc' = "closed"
    /\ UNCHANGED <<races, gen, startVars, ctxs, que, mtx, pc, ret, todo, qpc, reqVars>>

\* The peer closes the connection or the network fails.
Break ==
    /\ conn /\ ~broken
    /\ broken' = TRUE
    /\ UNCHANGED <<races, conn, gen, wire, startVars, ctxs, que, mtx, pc, ret, todo, qpc, reqVars, cpc>>
-----------------------------------------------------------------------------
CloseSteps(f) == Broadcast(f) \/ SwapCtxs(f) \/ ClearQueue(f) \/ Answer(f) \/ TestAuto(f) \/ Arm(f)

ReadSteps(f) ==
    \/ ReadLoop(f) \/ Recv(f) \/ RecvFails(f) \/ SetResult(f) \/ SetRsp(f) \/ ReadRsp(f)

WriteSteps(f) ==
    WriteLoop(f) \/ WriteLock(f) \/ WriteTest(f) \/ WriteWait(f) \/ Send(f) \/ WriteExit(f)

FiberStep(f) == CloseSteps(f) \/ ReadSteps(f) \/ WriteSteps(f) \/ Post(f)

StartStep == WaitFiber \/ Connect \/ ConnectCb \/ StartFailed \/ RetryStart

CallStep(q) == AddCtx(q) \/ AddTimer(q) \/ Enqueue(q) \/ Signal(q) \/ Resume(q)

TimerStep(q) == Expire(q) \/ OnTimerErase(q) \/ OnTimerRsp(q)

CloseStep == CloseTimer \/ CloseSocket

Next ==
    \/ StartStep \/ RetryExpires \/ Break \/ CloseBegin \/ CloseStep
    \/ \E f \in Fibers : FiberStep(f)
    \/ \E q \in Reqs : Request(q) \/ CallStep(q) \/ TimerStep(q)

Spec == Init /\ [][Next]_vars

\* Fibers and timers run, and the peer answers or the connection breaks; nobody
\* need call Request() or Close().
Fairness ==
    /\ WF_vars(StartStep) /\ WF_vars(RetryExpires) /\ WF_vars(CloseStep)
    /\ \A f \in Fibers : WF_vars(FiberStep(f))
    /\ \A q \in Reqs : WF_vars(CallStep(q)) /\ WF_vars(TimerStep(q))

FairSpec == Spec /\ Fairness
-----------------------------------------------------------------------------
(* Properties *)

Places == {"off", "wait", "wait2", "connect", "callback", "failed", "broadcast", "swap",
           "clear", "answer", "read", "recv", "result", "rsp", "do_rsp", "post", "test_auto",
           "arm", "write", "lock", "test", "to_wait", "waiting", "send", "exit"}

Contexts == [sched : BOOLEAN, result : {"ok", "io", "timeout"}, rsp : BOOLEAN,
             timed : BOOLEAN, woken : Nat]

TypeOK ==
    /\ conn \in BOOLEAN /\ gen \in Conns /\ broken \in BOOLEAN /\ auto \in BOOLEAN
    /\ wire \subseteq Reqs /\ ctxs \subseteq Reqs
    /\ sem \in 0..2 /\ retry \in {"no", "armed", "due"}
    /\ que \in Seq(Reqs) /\ todo \in [Fibers -> Seq(Reqs)]
    /\ mtx \in Fibers \cup {None}
    /\ pc \in [Fibers -> Places] /\ ret \in [Fibers -> Places]
    /\ qpc \in [Reqs -> {"idle", "add", "timer", "enqueue", "signal", "held", "done", "notconn"}]
    /\ ctx \in [Reqs -> Contexts]
    /\ timer \in [Reqs -> {"no", "armed", "due", "erased"}]
    /\ cpc \in {"no", "timer", "socket", "closed"}

\* The callers that have registered a request and not returned.
Calling(q) == qpc[q] \in {"timer", "enqueue", "signal", "held"}

\* The answer, the timeout and the closing of the connection race for a request;
\* its fiber is scheduled once in all, so never while it does something else.
CallerWokenOnce ==
    \A q \in Reqs : ctx[q].woken + (IF ctx[q].sched THEN 1 ELSE 0)
                    = IF qpc[q] \in {"idle", "add", "notconn"} THEN 0 ELSE 1

\* A caller that waits is never forgotten: its context is registered, or in the hands
\* of a fiber that is about to answer it, or its timeout is.
NeverForgotten ==
    \A q \in Reqs : Calling(q) /\ ctx[q].sched =>
        \/ q \in ctxs
        \/ timer[q] = "erased"
        \/ \E f \in Fibers : /\ pc[f] \in {"clear", "answer", "result", "rsp", "do_rsp"}
                             /\ \E i \in DOMAIN todo[f] : todo[f][i] = q

\* doRead() or doWrite() before its post().
Alive == {f \in Fibers \ {Starter} : pc[f] \notin {"off", "test_auto", "arm"}}

\* doRead() before it has seen to the reconnection.
Reading == {f \in Fibers \ {Starter} : IsReader(f) /\ pc[f] # "off"}

\* The permits Start() has.
Holding ==
    CASE pc[Starter] = "wait2" -> 1
      [] pc[Starter] \in {"off", "wait", "test_auto", "arm"} -> 0
      [] OTHER -> 2

\* Two permits for a reader and a writer, and one Start() in the whole stream: the
\* fibers of the last connection are gone before the next one is made, through any
\* sequence of failures, and nobody posts too often.
OneConnectionAtATime ==
    /\ sem + Cardinality(Alive) + Holding = 2
    /\ \A f \in Alive : f[2] = gen
    /\ Cardinality(Reading)
         + (IF pc[Starter] # "off" THEN 1 ELSE 0) + (IF retry # "no" THEN 1 ELSE 0) <= 1

\* Request() says "ok" only with an answer in the context, and "timeout" only when
\* its timer has expired, whoever else has written to the context meanwhile.
ResultsTrue ==
    [][\A q \in Reqs : qpc[q] = "held" /\ qpc'[q] = "done" =>
          /\ ctx[q].result = "ok" => ctx[q].rsp \/ "torn" \in races
          /\ ctx[q].result = "timeout" => timer[q] = "erased"]_vars

\* Close() is final: the stream does not come back, unless Close() meets a Start()
\* that is running or in the run queue.
ClosedStaysClosed == cpc = "closed" /\ "reopen" \notin races => ~conn

\* A caller of Request() is woken once, and is waited for by something that will
\* (Ctx::doRsp, AsyncSocketStream::innerClose).
CallersSound == TypeOK /\ CallerWokenOnce /\ NeverForgotten

\* The fibers of one connection are gone before the next is made, and Close() is final
\* unless it meets a reconnection (AsyncSocketStream::Start, Close).
ConnectionsSound == OneConnectionAtATime /\ ClosedStaysClosed

\* A request that is registered in time is answered, failed or timed out; with a
\* timeout it returns in any case.
RequestReturns ==
    \A q \in Reqs :
        Calling(q) /\ ("late" \notin races \/ timer[q] # "no") ~> qpc[q] = "done"

\* A broken connection is replaced (comment at rock_stream.h:184 and 185): reader and
\* writer come to their end, although innerClose() broadcasts without the mutex, and
\* Start() gets past waitFiber().  After Close() they end too, if the one broadcast
\* there may be then is not missed.
RestartsOrEnds ==
    /\ (~conn /\ auto /\ gen < MaxConns) ~> (conn \/ ~auto)
    /\ (cpc = "closed" /\ races \cap {"missed", "reopen"} = {}) ~> (Alive = {})
=============================================================================
