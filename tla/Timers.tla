------------------------------- MODULE Timers -------------------------------
(***************************************************************************)
(* TimerManager (timer.cpp): the ordered set of timers, and the threads    *)
(* that sleep in IOManager::Idle() until the first of them is due.  A      *)
(* timer's next is on the wall clock, which can be set back; epoll_wait()  *)
(* sleeps on the monotonic one.                                            *)
(***************************************************************************)
EXTENDS Integers, FiniteSets

CONSTANTS Ids,         \* timers
          Pollers,     \* threads that run Idle()
          Periods,     \* periods in use, in units of time
          MAX_TIMEOUT, \* the longest sleep
          Hour,        \* a clock set back by more is noticed; no thread is delayed that long
          Recurring,   \* the timers that are recurring
          MaxTime,     \* bound: time that passes
          MaxResets,   \* bound: refresh() and reset() calls
          MaxFaults    \* bound: signals in epoll_wait() and steps of the clock

VARIABLES tm,          \* m_ms, m_next, m_cb of each Timer
          m_timers,    \* the ordered set
          m_tickled,
          m_previouseTime,
          now,         \* the wall clock
          mono,        \* the monotonic clock
          owed,        \* addTimer() calls between the unlock and the tickle
          pipe,        \* a tickle that no thread has read
          poll,        \* [pc, until, wait, now_ms] of each thread
          past         \* history: [over, wrong, resets] of the timers, [faults, back, again] of the clock

timerVars == <<tm, m_timers, m_tickled, m_previouseTime, now, mono, owed, pipe, poll, past>>

\* A timer without a callback: no call reads the rest of it.
NoTimer == [ms |-> 0, next |-> 0, cb |-> FALSE]

-----------------------------------------------------------------------------
(* Users of timers. *)

\* Comparator: by m_next; two timers that are due together have an order of their own.
AtFront(t, set, times) == \A o \in set : times[t].next <= times[o].next

\* A mutant of Insert(): the tickle is owed to the first timer of all only.
InsertFirst(t, times, set) ==
    /\ tm' = times
    /\ m_timers' = set \cup {t}
    /\ IF set = {} /\ ~m_tickled THEN m_tickled' = TRUE /\ owed' = owed + 1 ELSE UNCHANGED <<m_tickled, owed>>
\* addTimer(val, lock): insertion, and whether the new timer is the first.
Insert(t, times, set) ==
    /\ tm' = times
    /\ m_timers' = set \cup {t}
    /\ IF AtFront(t, set, times) /\ ~m_tickled
       THEN m_tickled' = TRUE /\ owed' = owed + 1
       ELSE UNCHANGED <<m_tickled, owed>>

AddTimer(t, ms) ==
    /\ tm[t] = NoTimer /\ t \notin past.over
    /\ Insert(t, [tm EXCEPT ![t] = [ms |-> ms, next |-> now + ms, cb |-> TRUE]], m_timers)
    /\ UNCHANGED <<m_previouseTime, now, mono, pipe, poll, past>>
\* onTimerInsertedAtFront(): Tickle() writes only when a thread is idle.
Tickle ==
    /\ owed > 0
    /\ owed' = owed - 1
    /\ pipe' = (pipe \/ \E p \in Pollers : poll[p].pc # "busy")
    /\ UNCHANGED <<tm, m_timers, m_tickled, m_previouseTime, now, mono, poll, past>>

\* cancel(); past.over: cancelled, or not recurring and handed out.
Cancel(t) ==
    /\ tm[t].cb
    /\ tm' = [tm EXCEPT ![t] = NoTimer]
    /\ m_timers' = m_timers \ {t}
    /\ past' = [past EXCEPT !.over = @ \cup {t}]
    /\ UNCHANGED <<m_tickled, m_previouseTime, now, mono, owed, pipe, poll>>
\* refresh(): the insertion is not tested for being the first.
Refresh(t) ==
    /\ tm[t].cb /\ t \in m_timers /\ past.resets < MaxResets
    /\ tm' = [tm EXCEPT ![t].next = now + tm[t].ms]
    /\ past' = [past EXCEPT !.resets = @ + 1]
    /\ UNCHANGED <<m_timers, m_tickled, m_previouseTime, now, mono, owed, pipe, poll>>
\* reset(): from now, or from when the timer was started.
Reset(t, ms, from_now) ==
    /\ ms # tm[t].ms \/ from_now
    /\ tm[t].cb /\ t \in m_timers /\ past.resets < MaxResets
    /\ LET start == IF from_now THEN now ELSE tm[t].next - tm[t].ms
       IN  Insert(t, [tm EXCEPT ![t].ms = ms, ![t].next = start + ms], m_timers \ {t})
    /\ past' = [past EXCEPT !.resets = @ + 1]
    /\ UNCHANGED <<m_previouseTime, now, mono, pipe, poll>>

-----------------------------------------------------------------------------
(* The threads in Idle(). *)
Set(p, s) == poll' = [poll EXCEPT ![p] = s]
Busy == [pc |-> "busy", until |-> 0, wait |-> 0, now_ms |-> 0]

Least(a, b) == IF a < b THEN a ELSE b
\* getNextTimer(), and the sleep of epoll_wait().
GetNextTimer(p) ==
    /\ poll[p].pc = "busy"
    /\ m_tickled' = FALSE
    /\ LET left == {IF now >= tm[t].next THEN 0 ELSE tm[t].next - now : t \in m_timers}
           wait == IF left = {} THEN MAX_TIMEOUT
                   ELSE Least(CHOOSE l \in left : \A o \in left : l <= o, MAX_TIMEOUT)
       IN  Set(p, [Busy EXCEPT !.pc = "sleep", !.until = mono + wait, !.wait = wait])
    /\ UNCHANGED <<tm, m_timers, m_previouseTime, now, mono, owed, pipe, past>>
\* epoll_wait() returns at the timeout or with the tickle; listExpiredCb() reads the
\* clock before it takes the lock.
Wake(p) ==
    /\ poll[p].pc = "sleep"
    /\ \/ mono >= poll[p].until /\ UNCHANGED pipe
       \/ pipe /\ pipe' = FALSE
    /\ Set(p, IF m_timers = {} THEN Busy ELSE [Busy EXCEPT !.pc = "list", !.now_ms = now])
    /\ UNCHANGED <<tm, m_timers, m_tickled, m_previouseTime, now, mono, owed, past>>
\* A signal: epoll_wait() is called again with the whole timeout.
Interrupted(p) ==
    /\ past.faults < MaxFaults /\ poll[p].pc = "sleep" /\ mono > poll[p].until - poll[p].wait
    /\ Set(p, [poll[p] EXCEPT !.until = mono + poll[p].wait])
    /\ past' = [past EXCEPT !.again = TRUE, !.faults = @ + 1]
    /\ UNCHANGED <<tm, m_timers, m_tickled, m_previouseTime, now, mono, owed, pipe>>

\* detectClockRollover()
Rollover(now_ms) == now_ms < m_previouseTime /\ now_ms < m_previouseTime - Hour
\* listExpiredCb() under the write lock; past.wrong: handed out before its
\* time, although the clock was not set back, after its cancel() or a second time.
ListExpiredCb(p) ==
    /\ poll[p].pc = "list"
    /\ LET now_ms == poll[p].now_ms
           expired == IF Rollover(now_ms) THEN m_timers ELSE {t \in m_timers : tm[t].next <= now_ms}
       IN  /\ m_timers' = m_timers \ (expired \ Recurring)
           /\ tm' = [t \in Ids |-> IF t \notin expired THEN tm[t]
                                   ELSE IF t \in Recurring THEN [tm[t] EXCEPT !.next = now_ms + tm[t].ms]
                                   ELSE NoTimer]
           /\ m_previouseTime' = IF m_timers = {} THEN m_previouseTime ELSE now_ms
           /\ past' = [past EXCEPT
                 !.over = @ \cup (expired \ Recurring),
                 !.wrong = @ \cup {t \in expired : t \in past.over \/ (now < tm[t].next /\ ~past.back)}]
    /\ Set(p, Busy)
    /\ UNCHANGED <<m_tickled, now, mono, owed, pipe>>

-----------------------------------------------------------------------------
Pass ==
    /\ mono < MaxTime
    /\ mono' = mono + 1 /\ now' = now + 1
    /\ UNCHANGED <<tm, m_timers, m_tickled, m_previouseTime, owed, pipe, poll, past>>
SetBack ==
    /\ past.faults < MaxFaults
    /\ now' \in {now - 1, now - Hour - MaxTime - 1}
    /\ past' = [past EXCEPT !.back = TRUE, !.faults = @ + 1]
    /\ UNCHANGED <<tm, m_timers, m_tickled, m_previouseTime, mono, owed, pipe, poll>>

TimersInit ==
    /\ tm = [t \in Ids |-> NoTimer] /\ m_timers = {} /\ m_tickled = FALSE
    /\ now = 0 /\ mono = 0 /\ m_previouseTime = 0
    /\ owed = 0 /\ pipe = FALSE /\ poll = [p \in Pollers |-> Busy]
    /\ past = [over |-> {}, wrong |-> {}, resets |-> 0, faults |-> 0, back |-> FALSE, again |-> FALSE]

TimersNext ==
    \/ \E t \in Ids : \/ \E ms \in Periods : AddTimer(t, ms) \/ \E from_now \in BOOLEAN : Reset(t, ms, from_now)
                      \/ Cancel(t) \/ Refresh(t)
    \/ \E p \in Pollers : GetNextTimer(p) \/ Wake(p) \/ Interrupted(p) \/ ListExpiredCb(p)
    \/ Tickle \/ Pass \/ SetBack

-----------------------------------------------------------------------------
\* A callback is handed out neither before its time nor after a cancel() that returned
\* true, once if it is not recurring, and a timer that has its callback is in the set, where cancel()
\* erases what it finds without a test.
HandedRight == past.wrong = {} /\ \A t \in Ids : tm[t].cb <=> t \in m_timers

\* No timer is slept past: when every thread sleeps and no tickle is on its way, one of
\* them wakes by the time the first timer is due or after MAX_TIMEOUT.  Except that the
\* clock was set back, or a signal made epoll_wait() begin its timeout again.
NotSleptPast ==
    (/\ \A p \in Pollers : poll[p].pc = "sleep"
     /\ owed = 0 /\ ~pipe /\ ~past.back /\ ~past.again)
       => \A t \in m_timers : \E p \in Pollers : poll[p].until - mono <= tm[t].next - now \/ poll[p].until <= mono
=============================================================================
