------------------------------ MODULE TimerWheel ------------------------------
(***************************************************************************)
(* The multi-level timing wheel: TimerWheelManager and TimerW (timer.cpp). *)
(* A wheel "near" with one slot per tick and Levels coarser wheels; every  *)
(* tick executes the slot of near for the new time, after a slot of one    *)
(* coarser wheel has been spread over the finer ones.  The code has 8 bits *)
(* for near, 6 for each of 4 levels, and the 32-bit _time they make up.    *)
(*                                                                         *)
(* AddTimer() and a tick each run under one spin lock.  A delay below 10ms *)
(* runs the callback at once and leaves the wheel alone.                   *)
(***************************************************************************)
EXTENDS Integers, FiniteSets

CONSTANTS
    NearBits,     \* TIME_NEAR_SHIFT
    LevelBits,    \* TIME_LEVEL_SHIFT
    Levels,       \* how many coarser wheels
    Delays,       \* bound: the delays used, in ticks
    Objs          \* bound: TimerW objects alive at once

ASSUME WheelAssumption ==
    /\ NearBits \in Nat \ {0} /\ LevelBits \in Nat \ {0} /\ Levels \in Nat \ {0}
    /\ Delays \subseteq 1 .. 2^(NearBits + LevelBits * Levels) - 1

Near == 2^NearBits
LevelSize == 2^LevelBits
\* The ticks that fit below level l: near for l = 1.
Span(l) == 2^(NearBits + LevelBits * (l - 1))
\* _time and _expire are unsigned and wrap.
Wrap == Span(Levels + 1)

VARIABLES
    time,         \* _time
    ob,           \* the TimerW objects; lvl 0 is near
    handed,       \* how many ticks before (after, if negative) its expiry each
                  \* callback was handed out by the last tick
    stopped       \* StopTimer() was called and the thread has ended

vars == <<time, ob, handed, stopped>>

NoTimer == [in |-> FALSE, held |-> FALSE, cancel |-> FALSE, rec |-> FALSE, sub |-> 0,
            expire |-> 0, left |-> 0, lvl |-> 0, slot |-> 0]

Init ==
    /\ time = 0
    /\ ob = [o \in Objs |-> NoTimer]
    /\ handed = {}
    /\ stopped = FALSE
-----------------------------------------------------------------------------
\* Digit of a time at level l.
Digit(t, l) == (t \div Span(l)) % LevelSize

\* Faulty variant: near takes one tick too many.
PlaceNear(t, now) ==
    LET msec == (t.expire - now) % Wrap
        lvl == IF msec <= Near THEN 0 ELSE CHOOSE l \in 1..Levels :
                   Span(l) <= msec /\ (l = Levels \/ msec < Span(l + 1))
    IN  [t EXCEPT !.lvl = lvl,
                  !.slot = IF lvl = 0 THEN t.expire % Near ELSE Digit(t.expire, lvl)]

\* add_node(): the level by the ticks that remain, the slot by the expiry.
Place(t, now) ==
    LET msec == (t.expire - now) % Wrap
        lvl == IF msec < Near THEN 0 ELSE CHOOSE l \in 1..Levels :
                   Span(l) <= msec /\ (l = Levels \/ msec < Span(l + 1))
    IN  [t EXCEPT !.lvl = lvl,
                  !.slot = IF lvl = 0 THEN t.expire % Near ELSE Digit(t.expire, lvl)]

NewTimer(delay, rec, held) ==
    Place([NoTimer EXCEPT !.in = TRUE, !.held = held, !.rec = rec, !.sub = delay,
                          !.expire = (time + delay) % Wrap, !.left = delay], time)

\* AddTimer(); the caller may drop the pointer, as AddConditionTimer() does.
AddTimer(o, delay, rec, held) ==
    /\ ~stopped /\ ~ob[o].in
    /\ ob' = [ob EXCEPT ![o] = NewTimer(delay, rec, held)]
    /\ handed' = {}
    /\ UNCHANGED <<time, stopped>>

\* Cancel() and DelTimer(): a mark; the object stays in its slot.
Cancel(o) ==
    /\ ob[o].in /\ ob[o].held /\ ~ob[o].cancel
    /\ ob' = [ob EXCEPT ![o].cancel = TRUE]
    /\ handed' = {}
    /\ UNCHANGED <<time, stopped>>

\* Refresh(): cancel, and a new object, to which the caller has no pointer.
Refresh(o, n) ==
    /\ ~stopped
    /\ ob[o].in /\ ob[o].held /\ ~ob[n].in
    /\ ob' = [ob EXCEPT ![o].cancel = TRUE, ![n] = NewTimer(ob[o].sub, ob[o].rec, FALSE)]
    /\ handed' = {}
    /\ UNCHANGED <<time, stopped>>
-----------------------------------------------------------------------------
(* timer_update() *)

InSlot(w, l, s) == {o \in Objs : w[o].in /\ w[o].lvl = l /\ w[o].slot = s}

\* timer_execute(): the slot of near is emptied; the callbacks not cancelled are
\* handed out, and a recurring one gets a new object (in the old one's place here)
\* to which nobody has a pointer.
Due(w, now) == {o \in InSlot(w, 0, now % Near) : ~w[o].cancel}
Execute(w, now) ==
    [o \in Objs |->
        IF o \notin InSlot(w, 0, now % Near) THEN w[o]
        ELSE IF w[o].cancel \/ ~w[o].rec THEN NoTimer
        ELSE Place([w[o] EXCEPT !.held = FALSE, !.expire = (now + w[o].sub) % Wrap,
                                !.left = w[o].sub], now)]

\* Faulty variant: only the first level is spread.
CascadeFirst(ct) ==
    IF ct = 0 THEN <<Levels, 0>>
    ELSE IF ct % Near = 0 THEN <<1, Digit(ct, 1)>> ELSE <<0, 0>>

\* timer_shift(): the slot to spread at time ct: none (level 0) unless near has gone
\* round; else that of the first level whose digit is not 0; at 0, t[3][0].
Cascade(ct) ==
    IF ct = 0 THEN <<Levels, 0>>
    ELSE IF ct % Near # 0 THEN <<0, 0>>
    ELSE LET l == CHOOSE l \in 1..Levels : Digit(ct, l) # 0 /\ \A k \in 1..l-1 : Digit(ct, k) = 0
         IN  <<l, Digit(ct, l)>>

\* move_list(), and one tick less to go for everybody.
Shift(w, ct) ==
    LET c == Cascade(ct)
        moved == IF c[1] = 0 THEN {} ELSE InSlot(w, c[1], c[2])
        aged(o) == [w[o] EXCEPT !.left = IF w[o].in /\ @ >= 0 THEN @ - 1 ELSE @]
    IN  [o \in Objs |-> IF o \in moved THEN Place(aged(o), ct) ELSE aged(o)]

\* timer_update(): execute, shift, execute.
Tick ==
    LET ct == (time + 1) % Wrap
        a == Execute(ob, time)
        b == Shift(a, ct)
    IN  /\ ~stopped
        /\ time' = ct
        /\ ob' = Execute(b, ct)
        /\ handed' = {ob[o].left : o \in Due(ob, time)} \cup {b[o].left : o \in Due(b, ct)}
        /\ UNCHANGED stopped

\* StopTimer(), and ClearTimer() when the thread leaves its loop.
Stop ==
    /\ ~stopped
    /\ stopped' = TRUE
    /\ ob' = [o \in Objs |-> NoTimer]
    /\ handed' = {}
    /\ UNCHANGED time
-----------------------------------------------------------------------------
Next ==
    \/ Tick \/ Stop
    \/ \E o \in Objs :
          \/ \E d \in Delays, r, h \in BOOLEAN : AddTimer(o, d, r, h)
          \/ Cancel(o)
          \/ \E n \in Objs : Refresh(o, n)

Spec == Init /\ [][Next]_vars
-----------------------------------------------------------------------------
(* Properties *)

TypeOK ==
    /\ time \in 0 .. Wrap - 1
    /\ \A o \in Objs :
          /\ ob[o].lvl \in 0..Levels
          /\ ob[o].slot \in 0 .. (IF ob[o].lvl = 0 THEN Near ELSE LevelSize) - 1
          /\ ob[o].expire \in 0 .. Wrap - 1
          /\ ob[o].left \in -1 .. Wrap - 1

\* A callback is handed out in the very tick its timer expires, through any number
\* of moves between the wheels and across the wrap of _time, first shot or
\* recurring: never early, never late.
HandedOnTime == handed \subseteq {0}

\* No timer is passed over, except one that AddTimer() has put into slot 0 of a
\* level other than the last, which timer_shift() never spreads.
MissedOnlyInSlotZero ==
    \A o \in Objs : ob[o].in /\ ob[o].left <= 0 =>
        ob[o].lvl \in 1 .. Levels - 1 /\ ob[o].slot = 0
=============================================================================
