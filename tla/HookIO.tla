-------------------------------- MODULE HookIO --------------------------------
(***************************************************************************)
(* Blocking socket calls on coroutines: the hooked read, write, accept,    *)
(* connect and close (hook.cpp), the table of managed descriptors          *)
(* (fdmanager.cpp), and the I/O events of IOManager (iomanager.cpp) with   *)
(* the edge-triggered epoll they use, for one descriptor number that is    *)
(* opened, closed and opened again.                                        *)
(*                                                                         *)
(* A call that would block arms its event for its fiber and holds; the     *)
(* pollers (threads in Idle()), the callback of the call's timer and       *)
(* close() wake it.  A step is one critical section of fd_ctx->mutex, one  *)
(* system call, or one access to a shared variable.  A call is known by    *)
(* its number, and so is the fiber that makes it.  At most one fiber calls *)
(* per direction of a socket: a second one would trip the assert of        *)
(* AddEvent().  A fiber left behind in a call on an earlier socket of the  *)
(* same number keeps nobody from calling.                                  *)
(*                                                                         *)
(* Some results need a race not to happen.  races, chosen at the start,    *)
(* holds the races and the events a behaviour may have:                    *)
(*   "duplex"  a fiber reads while another writes                          *)
(*   "close"   the descriptor is closed while a fiber is inside a call     *)
(*   "early"   the timer's callback runs while the call is between its     *)
(*             attempt and AddEvent()                                      *)
(*   "stale"   the number is reused while a poller or a callback is about  *)
(*             to act on it                                                *)
(*   "cancel"  Socket::CancelRead() or CancelWrite() is used               *)
(*   "overlap" more than one poller gets reports                           *)
(*   "hangup"  the peer resets or refuses the connection                   *)
(*   "timeout" a call has a timeout                                        *)
(***************************************************************************)
EXTENDS Integers, FiniteSets

CONSTANTS
    Pollers,      \* threads of the IOManager in Idle()
    MaxOpens,     \* bound: sockets that get the descriptor number
    MaxCalls,     \* bound: calls in all
    RaceSets      \* the values of races to explore

ASSUME HookBounds == MaxOpens \in Nat /\ MaxCalls \in Nat

Ops == {"READ", "WRITE"}

VARIABLES
    races,        \* what may happen in this behaviour
    sk,           \* the kernel: [open, link, ready, hup, reg, listed]
    opens,        \* sockets opened so far
    managed,      \* FdCtxMgr has an FdCtx for the number
    armed,        \* the calls whose events fd_ctx->events holds
    queued,       \* how often the fiber of each call is in the run queue
    pending,      \* _pendingEventNum
    rep,          \* what epoll_wait reported to each poller, {} while it waits
    fpc,          \* where the fiber of each call is; "idle" before and after it
    loc,          \* the call's [op, kind, sock, timed, cancelled, expired]: do_io or
                  \* connect, which socket, with a timeout, the timer_condition's
                  \* flag, a timer expired
    calls,        \* calls so far
    timer,        \* the call's timer is in the TimerManager
    cbs,          \* its callbacks handed out and not finished: [call, op, st]
    cpc,          \* where close() is
    aborted       \* an assert has failed

vars == <<races, sk, opens, managed, armed, queued, pending, rep, fpc, loc,
          calls, timer, cbs, cpc, aborted>>

evVars == <<armed, queued, pending>>
callVars == <<fpc, loc, calls>>
timerVars == <<timer, cbs>>
fdVars == <<opens, managed, cpc>>

Closed == [open |-> FALSE, link |-> "no", ready |-> {}, hup |-> FALSE,
           reg |-> FALSE, listed |-> FALSE]
NoCall == [op |-> "READ", kind |-> "io", sock |-> 0, timed |-> FALSE, cancelled |-> FALSE,
           expired |-> FALSE]
Calls == 1..MaxCalls
Idle(c) == fpc[c] = "idle"

\* fd_ctx->events
Events == {loc[c].op : c \in armed}

Init ==
    /\ races \in RaceSets
    /\ sk = Closed /\ opens = 0 /\ managed = FALSE
    /\ armed = {} /\ pending = 0
    /\ queued = [c \in Calls |-> 0]
    /\ rep = [p \in Pollers |-> {}]
    /\ fpc = [c \in Calls |-> "idle"]
    /\ loc = [c \in Calls |-> NoCall]
    /\ calls = 0
    /\ timer = [c \in Calls |-> FALSE]
    /\ cbs = {}
    /\ cpc = "no"
    /\ aborted = FALSE
-----------------------------------------------------------------------------
(* The kernel *)

\* epoll_ctl sets the interest to S: what is ready then is listed anew.
Interest(S) == [sk EXCEPT !.reg = S # {},
                          !.listed = S # {} /\ (sk.ready \cap S # {} \/ sk.hup)]

\* socket() or accept(), which put the descriptor under management.
Open ==
    /\ ~sk.open /\ cpc = "no"
    /\ opens < MaxOpens
    /\ \/ "stale" \in races
       \/ /\ \A cb \in cbs : cb.st = "due"
          /\ \A p \in Pollers : rep[p] = {}
    /\ \E link \in {"no", "yes"} : sk' = [Closed EXCEPT !.open = TRUE, !.link = link]
    /\ opens' = opens + 1
    /\ managed' = TRUE
    /\ UNCHANGED <<races, rep, cpc, aborted, evVars, callVars, timerVars>>

\* Data or space arrives; for a connecting socket, the connection.
BecomeReady(o) ==
    /\ sk.open /\ o \notin sk.ready
    /\ sk.link = "yes" \/ (sk.link = "pending" /\ o = "WRITE")
    /\ sk' = [sk EXCEPT !.ready = @ \cup {o}, !.link = "yes",
                        !.listed = @ \/ (sk.reg /\ o \in Events)]
    /\ UNCHANGED <<races, rep, aborted, fdVars, evVars, callVars, timerVars>>

\* EPOLLERR or EPOLLHUP: the peer resets or refuses the connection.
HangUp ==
    /\ "hangup" \in races
    /\ sk.open /\ sk.link # "no" /\ ~sk.hup
    /\ sk' = [sk EXCEPT !.hup = TRUE, !.listed = @ \/ sk.reg]
    /\ UNCHANGED <<races, rep, aborted, fdVars, evVars, callVars, timerVars>>
-----------------------------------------------------------------------------
(* IOManager *)

\* The calls that wait for an event of S.
Waiting(S) == {c \in armed : loc[c].op \in S}

\* triggerEvent() for the events of S that are armed, and _pendingEventNum--
\* for each of count.
Trigger(S, count) ==
    /\ queued' = [c \in Calls |-> IF c \in Waiting(S) THEN queued[c] + 1 ELSE queued[c]]
    /\ armed' = armed \ Waiting(S)
    /\ pending' = pending - count

\* Faulty variant: the event stays armed.
CancelKeeps(S) ==
    LET hit == Events \cap S
    IN  IF hit # {} /\ sk.open /\ sk.reg
        THEN /\ sk' = Interest(Events \ hit)
             /\ queued' = [c \in Calls |-> IF c \in Waiting(hit) THEN queued[c] + 1 ELSE queued[c]]
             /\ pending' = pending - Cardinality(hit)
             /\ UNCHANGED armed
        ELSE UNCHANGED <<sk, evVars>>

\* CancelEvent() and CancelAll(): nothing when none is armed, or when epoll_ctl
\* fails because the descriptor is closed.
Cancel(S) ==
    LET hit == Events \cap S
    IN  IF hit # {} /\ sk.open /\ sk.reg
        THEN sk' = Interest(Events \ hit) /\ Trigger(hit, Cardinality(hit))
        ELSE UNCHANGED <<sk, evVars>>

\* epoll_wait reports the descriptor, once per listing.
Poll(p) ==
    /\ rep[p] = {}
    /\ "overlap" \in races \/ p = (CHOOSE q \in Pollers : TRUE)
    /\ sk.listed
    /\ LET r == (sk.ready \cap Events) \cup (IF sk.hup THEN {"HUP"} ELSE {})
       IN  r # {} /\ rep' = [rep EXCEPT ![p] = r]
    /\ sk' = [sk EXCEPT !.listed = FALSE]
    /\ UNCHANGED <<races, aborted, fdVars, evVars, callVars, timerVars>>

\* The events a report stands for once the lock is held.
Real(r) == (r \cap Ops) \cup (IF "HUP" \in r THEN Events ELSE {})

\* Faulty variant: the events triggered stay counted.
HandleNoCount(p) ==
    /\ rep[p] # {}
    /\ rep' = [rep EXCEPT ![p] = {}]
    /\ LET real == Real(rep[p])
       IN  IF real \cap Events # {} /\ sk.open /\ sk.reg
           THEN sk' = Interest(Events \ real) /\ Trigger(real, 0)
           ELSE UNCHANGED <<sk, evVars>>
    /\ UNCHANGED <<races, aborted, fdVars, callVars, timerVars>>

\* Idle() on a report, which may be stale by now: nothing when no reported event
\* is armed or when epoll_ctl fails; else the armed ones are triggered, and the
\* counter goes down by one for each reported event.
Handle(p) ==
    /\ rep[p] # {}
    /\ rep' = [rep EXCEPT ![p] = {}]
    /\ LET real == Real(rep[p])
       IN  IF real \cap Events # {} /\ sk.open /\ sk.reg
           THEN sk' = Interest(Events \ real) /\ Trigger(real, Cardinality(real))
           ELSE UNCHANGED <<sk, evVars>>
    /\ UNCHANGED <<races, aborted, fdVars, callVars, timerVars>>
-----------------------------------------------------------------------------
(* A hooked call *)

Go(c, l) == fpc' = [fpc EXCEPT ![c] = l] /\ UNCHANGED <<loc, calls>>

\* The call returns; its locals are gone.
Return(c) ==
    /\ fpc' = [fpc EXCEPT ![c] = "idle"]
    /\ loc' = [loc EXCEPT ![c] = NoCall]
    /\ UNCHANGED calls

\* The calls in progress on the socket that has the number now.
Current == {c \in Calls : ~Idle(c) /\ loc[c].sock = opens}

\* The next call, in the direction o, which nobody else uses.  The timer_condition
\* is made anew for each call.
Call(o, k) ==
    /\ calls < MaxCalls
    /\ managed
    /\ k = "connect" => o = "WRITE" /\ sk.link = "no"
    /\ k = "io" => sk.link = "yes"
    /\ \A c \in Current : "duplex" \in races /\ loc[c].op # o
    /\ "close" \in races \/ cpc = "no"
    /\ calls' = calls + 1
    /\ fpc' = [fpc EXCEPT ![calls + 1] = "try"]
    /\ \E b \in BOOLEAN :
          /\ b => "timeout" \in races
          /\ loc' = [loc EXCEPT ![calls + 1] =
                     [NoCall EXCEPT !.op = o, !.kind = k, !.sock = opens, !.timed = b]]
    /\ UNCHANGED <<races, sk, rep, aborted, fdVars, evVars, timerVars>>

\* The system call itself, on the number: done, failed, or EAGAIN (EINPROGRESS for
\* connect).
Try(c) ==
    /\ fpc[c] = "try"
    /\ \/ /\ ~sk.open \/ sk.hup
          /\ Return(c)
          /\ UNCHANGED sk
       \/ /\ sk.open /\ ~sk.hup /\ loc[c].op \in sk.ready /\ loc[c].kind = "io"
          /\ \E r \in {sk.ready, sk.ready \ {loc[c].op}} : sk' = [sk EXCEPT !.ready = r]
          /\ Return(c)
       \/ /\ sk.open /\ ~sk.hup /\ (loc[c].op \notin sk.ready \/ loc[c].kind = "connect")
          /\ sk' = [sk EXCEPT !.link = IF loc[c].kind = "connect" /\ @ = "no" THEN "pending" ELSE @]
          /\ Go(c, IF loc[c].timed THEN "timer" ELSE "arm")
    /\ UNCHANGED <<races, rep, aborted, fdVars, evVars, timerVars>>

\* addConditionTimer(), before the event is armed.
AddTimer(c) ==
    /\ fpc[c] = "timer"
    /\ timer' = [timer EXCEPT ![c] = TRUE]
    /\ Go(c, "arm")
    /\ UNCHANGED <<races, sk, rep, aborted, cbs, fdVars, evVars>>

\* Faulty variant: a descriptor that is ready already is not reported.
AddEventNoPoll(c) ==
    /\ fpc[c] = "arm" /\ loc[c].op \notin Events /\ sk.open
    /\ sk' = [Interest(Events \cup {loc[c].op}) EXCEPT !.listed = FALSE]
    /\ armed' = armed \cup {c}
    /\ pending' = pending + 1
    /\ Go(c, "held")
    /\ UNCHANGED <<races, rep, aborted, queued, timerVars, fdVars>>

\* AddEvent() and YieldToHold().  An event armed already is an assert; epoll_ctl
\* with ADD or MOD fails when the descriptor is closed or was closed meanwhile.
AddEvent(c) ==
    /\ fpc[c] = "arm"
    /\ \/ /\ loc[c].op \in Events
          /\ aborted' = TRUE
          /\ UNCHANGED <<sk, timer, evVars, callVars>>
       \/ /\ loc[c].op \notin Events /\ sk.open /\ (sk.reg <=> Events # {})
          /\ sk' = Interest(Events \cup {loc[c].op})
          /\ armed' = armed \cup {c}
          /\ pending' = pending + 1
          /\ Go(c, "held")
          /\ UNCHANGED <<aborted, queued, timer>>
       \/ /\ loc[c].op \notin Events /\ ~(sk.open /\ (sk.reg <=> Events # {}))
          /\ timer' = [timer EXCEPT ![c] = FALSE]
          /\ Return(c)
          /\ UNCHANGED <<sk, aborted, evVars>>
    /\ UNCHANGED <<races, rep, cbs, fdVars>>

\* The fiber runs again: timer->cancel() removes the timer if it has not expired.
Resume(c) ==
    /\ fpc[c] = "held" /\ queued[c] > 0
    /\ queued' = [queued EXCEPT ![c] = @ - 1]
    /\ timer' = [timer EXCEPT ![c] = FALSE]
    /\ Go(c, "check")
    /\ UNCHANGED <<races, sk, rep, aborted, armed, pending, cbs, fdVars>>

\* ETIMEDOUT; else do_io tries again, and connect asks for SO_ERROR.
Check(c) ==
    /\ fpc[c] = "check"
    /\ IF loc[c].cancelled THEN Return(c)
       ELSE Go(c, IF loc[c].kind = "io" THEN "try" ELSE "soerror")
    /\ UNCHANGED <<races, sk, rep, aborted, fdVars, evVars, timerVars>>

\* connect returns 0 when there is no error on the socket (yet).
SoError(c) ==
    /\ fpc[c] = "soerror"
    /\ Return(c)
    /\ UNCHANGED <<races, sk, rep, aborted, fdVars, evVars, timerVars>>
-----------------------------------------------------------------------------
(* The timer of a call *)

\* listExpiredCb() hands out the callback.
Expire(c) ==
    /\ timer[c]
    /\ timer' = [timer EXCEPT ![c] = FALSE]
    /\ cbs' = cbs \cup {[call |-> c, op |-> loc[c].op, st |-> "due"]}
    /\ loc' = [loc EXCEPT ![c].expired = TRUE]
    /\ UNCHANGED <<races, sk, rep, fpc, calls, aborted, fdVars, evVars>>

\* Faulty variant: any call of the direction will do.
LedAny(cb) == {c \in Calls : ~Idle(c) /\ loc[c].op = cb.op}

\* The call whose condition the weak_ptr still leads to, if it has not returned.
Led(cb) == {c \in {cb.call} : ~Idle(c)}

\* The callback: nothing when the call is over or already cancelled.
CallbackBegin(cb) ==
    /\ cb.st = "due"
    /\ "early" \in races \/ \A c \in Led(cb) : fpc[c] \notin {"try", "timer", "arm"}
    /\ \/ \E c \in Led(cb) :
             /\ ~loc[c].cancelled
             /\ loc' = [loc EXCEPT ![c].cancelled = TRUE]
             /\ cbs' = (cbs \ {cb}) \cup {[cb EXCEPT !.st = "mid"]}
       \/ /\ \A c \in Led(cb) : loc[c].cancelled
          /\ cbs' = cbs \ {cb}
          /\ UNCHANGED loc
    /\ UNCHANGED <<races, sk, rep, fpc, calls, aborted, timer, fdVars, evVars>>

\* ... CancelEvent() on the number, whatever it stands for now.
CallbackEnd(cb) ==
    /\ cb.st = "mid"
    /\ cbs' = cbs \ {cb}
    /\ Cancel({cb.op})
    /\ UNCHANGED <<races, rep, aborted, timer, fdVars, callVars>>
-----------------------------------------------------------------------------
(* close() *)

CloseBegin ==
    /\ cpc = "no" /\ managed
    /\ "close" \in races \/ \A c \in Calls : Idle(c)
    /\ Cancel(Ops)
    /\ cpc' = "del"
    /\ UNCHANGED <<races, opens, managed, rep, aborted, callVars, timerVars>>

CloseDel ==
    /\ cpc = "del"
    /\ managed' = FALSE
    /\ cpc' = "close"
    /\ UNCHANGED <<races, sk, opens, rep, aborted, evVars, callVars, timerVars>>

\* Faulty variant: the descriptor stays open.
CloseNothing ==
    /\ cpc = "close"
    /\ cpc' = "no"
    /\ UNCHANGED <<races, sk, opens, managed, rep, aborted, evVars, callVars, timerVars>>

\* close_f(): the kernel forgets the descriptor, epoll too.
CloseFd ==
    /\ cpc = "close"
    /\ sk' = Closed
    /\ cpc' = "no"
    /\ UNCHANGED <<races, opens, managed, rep, aborted, evVars, callVars, timerVars>>

\* Socket::CancelRead(), CancelWrite().
UserCancel(o) ==
    /\ "cancel" \in races
    /\ sk.open /\ o \in Events
    /\ Cancel({o})
    /\ UNCHANGED <<races, rep, aborted, fdVars, callVars, timerVars>>
-----------------------------------------------------------------------------
PollStep(p) == Poll(p) \/ Handle(p)

FiberStep(c) ==
    Try(c) \/ AddTimer(c) \/ AddEvent(c) \/ Resume(c) \/ Check(c) \/ SoError(c)

CallbackStep == \E cb \in cbs : CallbackBegin(cb) \/ CallbackEnd(cb)

CloseStep == CloseDel \/ CloseFd

Next ==
    /\ ~aborted
    /\ \/ Open \/ HangUp \/ CloseBegin \/ CloseStep \/ CallbackStep
       \/ \E o \in Ops : \/ BecomeReady(o) \/ UserCancel(o)
                         \/ \E k \in {"io", "connect"} : Call(o, k)
       \/ \E c \in Calls : FiberStep(c) \/ Expire(c)
       \/ \E p \in Pollers : PollStep(p)

Spec == Init /\ [][Next]_vars

\* Threads run and timers expire; nothing forces data to arrive, a call to be made
\* or the descriptor to be closed.
Fairness ==
    /\ \A p \in Pollers : WF_vars(~aborted /\ PollStep(p))
    /\ \A c \in Calls : WF_vars(~aborted /\ FiberStep(c)) /\ WF_vars(~aborted /\ Expire(c))
    /\ WF_vars(~aborted /\ CallbackStep) /\ WF_vars(~aborted /\ CloseStep)

FairSpec == Spec /\ Fairness
-----------------------------------------------------------------------------
(* Properties *)

Locs == [op : Ops, kind : {"io", "connect"}, sock : Nat, timed : BOOLEAN, cancelled : BOOLEAN,
         expired : BOOLEAN]

TypeOK ==
    /\ races \in RaceSets
    /\ sk \in [open : BOOLEAN, link : {"no", "pending", "yes"}, ready : SUBSET Ops,
               hup : BOOLEAN, reg : BOOLEAN, listed : BOOLEAN]
    /\ managed \in BOOLEAN /\ aborted \in BOOLEAN /\ opens \in Nat
    /\ armed \subseteq Calls /\ pending \in Int
    /\ queued \in [Calls -> Nat]
    /\ rep \in [Pollers -> SUBSET (Ops \cup {"HUP"})]
    /\ fpc \in [Calls -> {"idle", "try", "timer", "arm", "held", "check", "soerror"}]
    /\ loc \in [Calls -> Locs] /\ calls \in Nat
    /\ cpc \in {"no", "del", "close"}

\* A fiber that holds in a call has its event armed or is in the run queue, once:
\* pollers with stale reports, timer callbacks, close() and retries together wake
\* it exactly once per AddEvent(), and never when it does not hold.
ArmedOrQueuedOnce ==
    \A c \in Calls :
        queued[c] + (IF c \in armed THEN 1 ELSE 0) = IF fpc[c] = "held" THEN 1 ELSE 0

\* _pendingEventNum, on which IsStopping() decides, never counts an event that is
\* not armed (then the scheduler would never stop).
PendingNeverHigh == pending <= Cardinality(armed)

\* Both directions are in use, the number is reused while a poller or callback is
\* about to act on it, or was reused after a close() under a call.
Mixed == races \cap {"duplex", "stale"} # {} \/ ("close" \in races /\ opens > 1)

\* It is moreover exact (else the scheduler stops early) unless Mixed: then an event
\* that is reported but no longer armed can be subtracted.
PendingSound ==
    /\ PendingNeverHigh
    /\ ~Mixed => pending = Cardinality(armed)

\* A call returns ETIMEDOUT only when a timer of that call has expired, although
\* callbacks of earlier calls and earlier retries are still about; connect()
\* returns 0 only when connected, if nobody closes, reuses or cancels under it.
ResultsHonest ==
    [][\A c \in Calls :
         /\ fpc[c] = "check" /\ fpc'[c] = "idle" => loc[c].timed /\ loc[c].expired
         /\ fpc[c] = "soerror" /\ fpc'[c] = "idle" /\ sk.open /\ ~sk.hup
               => sk.link = "yes" \/ races \cap {"close", "stale", "cancel"} # {}]_vars

\* "addEvent assert" (iomanager.cpp:188-191): no event is armed twice.
AddEventAssert == ~aborted

\* close() leaves no event of the descriptor behind ("取消io调度器中事件", hook.cpp:421).
CloseCancels == ~sk.open => armed = {}

\* close() cancels the events of the descriptor before it is closed (comment at
\* hook.cpp:421): unless a fiber is inside a call at that time (the race "close"), no
\* event is armed for a closed descriptor, and the assert of AddEvent() holds for
\* every later socket with the number.  With the race a call can arm its event between
\* CancelAll() and close_f(), and the next call of that direction on the number runs into
\* the assert.  An open descriptor is managed until close() has dropped it.
CloseClean ==
    /\ "close" \notin races => AddEventAssert /\ CloseCancels
    /\ sk.open <=> managed \/ cpc = "close"

\* The count of pending events is right, AddEvent()'s assert holds and close() leaves no
\* event behind, but for the races their definitions name (iomanager.cpp, hook.cpp).
EventsSound == PendingSound /\ CloseClean

\* A held call whose descriptor is ready is woken, although epoll reports each
\* change once and to one thread, whose report may be stale; a held call with a
\* timeout is woken, ready or not.
HeldCallWakes ==
    \A c \in Calls :
        (/\ fpc[c] = "held"
         /\ \/ loc[c].op \in sk.ready /\ "close" \notin races
            \/ loc[c].timed /\ races \cap {"close", "early"} = {}) ~> (fpc[c] # "held")
=============================================================================
