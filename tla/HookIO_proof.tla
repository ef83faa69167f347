----------------------------- MODULE HookIO_proof -----------------------------
(***************************************************************************)
(* Proofs about HookIO, for any set of pollers, any bounds and any set of  *)
(* races.  The first invariant is inductive together with the types: the   *)
(* events that a critical section disarms are the ones whose fibers it     *)
(* queues.  The second, on top of it, says what a report that a poller has *)
(* not handled yet can still stand for, and who can be in a call while the *)
(* descriptor is being closed.                                             *)
(***************************************************************************)
EXTENDS HookIO, FiniteSetTheorems, TLAPS

\* The facts about counting that the counter of pending events rests on.
LEMMA OpsFinite == IsFiniteSet(Ops)
  <1>1. Ops = {"READ"} \cup {"WRITE"}
    BY DEF Ops
  <1>2. IsFiniteSet({"READ"}) /\ IsFiniteSet({"WRITE"})
    BY FS_Singleton
  <1> QED
    BY <1>1, <1>2, FS_Union

\* Sets of events have a natural number of elements, and so have sets of calls.
LEMMA OpsCount ==
    ASSUME NEW S \in SUBSET Ops
    PROVE  IsFiniteSet(S) /\ Cardinality(S) \in Nat
  BY OpsFinite, FS_Subset, FS_CardinalityType

LEMMA CallsCount ==
    ASSUME NEW S \in SUBSET Calls
    PROVE  IsFiniteSet(S) /\ Cardinality(S) \in Nat
  <1>1. 1 \in Int /\ MaxCalls \in Int
    BY HookBounds
  <1>2. IsFiniteSet(Calls)
    BY <1>1, FS_Interval DEF Calls
  <1> QED
    BY <1>2, FS_Subset, FS_CardinalityType

\* fd_ctx has room for one call per direction.
OneArmed == \A c, d \in armed : loc[c].op = loc[d].op => c = d

\* A call that has not been made is not in progress.
Fresh ==
    /\ \A c \in Calls : c > calls => Idle(c)
    /\ \A c \in Calls : loc[c].sock <= opens /\ (~Idle(c) => loc[c].sock > 0)
    /\ managed => opens > 0

IInv == TypeOK /\ ArmedOrQueuedOnce /\ OneArmed /\ Fresh /\ PendingNeverHigh

\* An armed event is the event of a call that holds.
LEMMA ArmedHolds ==
    ASSUME IInv, NEW c \in Calls, c \in armed
    PROVE  fpc[c] = "held" /\ ~Idle(c) /\ loc[c].op \in Events /\ loc[c].op \in Ops
  BY DEF IInv, TypeOK, ArmedOrQueuedOnce, Idle, Events, Locs

\* As many calls wait for S as there are armed events in S.
LEMMA WaitingCount ==
    ASSUME TypeOK, OneArmed, NEW S \in SUBSET Ops
    PROVE  /\ Waiting(S) \in SUBSET armed /\ Waiting(S) \in SUBSET Calls
           /\ Cardinality(Waiting(S)) <= Cardinality(S)
           /\ S \subseteq Events => Cardinality(Waiting(S)) = Cardinality(S)
  <1> DEFINE f == [c \in Waiting(S) |-> loc[c].op]
  <1>1. Waiting(S) \in SUBSET armed /\ Waiting(S) \in SUBSET Calls
    BY DEF Waiting, TypeOK
  <1>2. f \in [Waiting(S) -> S]
    BY DEF Waiting
  <1>3. \A c, d \in Waiting(S) : f[c] = f[d] => c = d
    BY <1>1 DEF OneArmed
  <1>4. f \in Injection(Waiting(S), S)
    BY <1>2, <1>3 DEF Injection, IsInjective
  <1>5. S \subseteq Events => \A o \in S : \E c \in Waiting(S) : f[c] = o
    BY DEF Events, Waiting
  <1>6. S \subseteq Events => f \in Surjection(Waiting(S), S)
    BY <1>2, <1>5 DEF Surjection
  <1> HIDE DEF f
  <1>7. IsFiniteSet(S)
    BY OpsCount
  <1> QED
    BY <1>1, <1>4, <1>6, <1>7, FS_Injection

\* What triggerEvent() disarms is at most what is subtracted from the counter.
LEMMA Disarm ==
    ASSUME TypeOK, OneArmed, NEW S \in SUBSET Ops, NEW n \in Int
    PROVE  LET left == Cardinality(armed \ Waiting(S))
           IN  /\ n <= Cardinality(armed) => n - Cardinality(S) <= left
               /\ n = Cardinality(armed) /\ S \subseteq Events => n - Cardinality(S) = left
  <1> DEFINE W == Waiting(S)
  <1>1. armed \in SUBSET Calls
    BY DEF TypeOK
  <1>2. Cardinality(armed \ W) = Cardinality(armed) - Cardinality(armed \cap W)
    BY <1>1, CallsCount, FS_Difference
  <1>3. armed \cap W = W
    BY WaitingCount
  <1>4. Cardinality(S) \in Nat /\ Cardinality(armed) \in Nat /\ Cardinality(W) \in Nat
    BY <1>1, OpsCount, CallsCount, WaitingCount
  <1>5. Cardinality(W) <= Cardinality(S) /\ (S \subseteq Events => Cardinality(W) = Cardinality(S))
    BY WaitingCount
  <1> HIDE DEF W
  <1>6. ASSUME NEW a \in Nat, NEW w \in Nat, NEW s \in Nat, w <= s
        PROVE  (n <= a => n - s <= a - w) /\ (n = a /\ w = s => n - s = a - w)
    BY <1>6
  <1>7. Cardinality(armed \ W) = Cardinality(armed) - Cardinality(W)
    BY <1>2, <1>3
  <1>8. /\ n <= Cardinality(armed) => n - Cardinality(S) <= Cardinality(armed \ W)
        /\ n = Cardinality(armed) /\ S \subseteq Events => n - Cardinality(S) = Cardinality(armed \ W)
    BY <1>4, <1>5, <1>6, <1>7, Zenon
  <1> QED
    BY <1>8 DEF W

\* Arming one more call adds one.
LEMMA ArmOne ==
    ASSUME NEW E \in SUBSET Calls, NEW c \in Calls, c \notin E
    PROVE  Cardinality(E \cup {c}) = Cardinality(E) + 1
  BY CallsCount, FS_AddElement

\* The types of what epoll_ctl leaves behind.
LEMMA InterestType ==
    ASSUME TypeOK, NEW S
    PROVE  Interest(S) \in [open : BOOLEAN, link : {"no", "pending", "yes"}, ready : SUBSET Ops,
                            hup : BOOLEAN, reg : BOOLEAN, listed : BOOLEAN]
  <1> DEFINE reg == S # {}
             listed == S # {} /\ (sk.ready \cap S # {} \/ sk.hup)
  <1>1. sk \in [open : BOOLEAN, link : {"no", "pending", "yes"}, ready : SUBSET Ops,
                hup : BOOLEAN, reg : BOOLEAN, listed : BOOLEAN]
    BY DEF TypeOK
  <1>2. reg \in BOOLEAN /\ listed \in BOOLEAN
    OBVIOUS
  <1>3. Interest(S) = [sk EXCEPT !.reg = reg, !.listed = listed]
    BY DEF Interest
  <1> HIDE DEF reg, listed
  <1> QED
    BY <1>1, <1>2, <1>3

\* The types of a closed descriptor.
LEMMA ClosedType ==
    Closed \in [open : BOOLEAN, link : {"no", "pending", "yes"}, ready : SUBSET Ops,
                hup : BOOLEAN, reg : BOOLEAN, listed : BOOLEAN]
  BY DEF Closed

\* The locals of no call at all.
LEMMA NoCallType ==
    NoCall \in Locs /\ ~NoCall.cancelled /\ ~NoCall.expired /\ NoCall.kind = "io" /\ NoCall.sock = 0
  BY DEF NoCall, Locs, Ops

\* triggerEvent() moves each call that waits for S from the events to the run queue.
LEMMA TriggerStep ==
    ASSUME IInv, NEW S \in SUBSET Ops, NEW n \in Int, n = Cardinality(S),
           Trigger(S, n), UNCHANGED <<fpc, loc>>
    PROVE  /\ armed' \subseteq Calls /\ pending' \in Int /\ queued' \in [Calls -> Nat]
           /\ ArmedOrQueuedOnce' /\ OneArmed' /\ PendingNeverHigh'
  <1>1. armed' = armed \ Waiting(S) /\ pending' = pending - n /\ pending \in Int
    BY DEF IInv, TypeOK, Trigger
  <1>2. Waiting(S) \subseteq armed /\ armed \subseteq Calls
    BY WaitingCount DEF IInv, TypeOK
  <1>3. queued' \in [Calls -> Nat] /\ ArmedOrQueuedOnce'
    BY <1>1, <1>2 DEF IInv, TypeOK, Trigger, ArmedOrQueuedOnce
  <1>4. PendingNeverHigh'
    BY <1>1, Disarm DEF IInv, PendingNeverHigh
  <1>5. OneArmed'
    BY <1>1 DEF IInv, OneArmed
  <1> QED
    BY <1>1, <1>2, <1>3, <1>4, <1>5

\* CancelEvent() and CancelAll() keep the invariant.
LEMMA CancelStep ==
    ASSUME IInv, NEW S, Cancel(S), UNCHANGED <<fpc, loc>>
    PROVE  /\ armed' \subseteq Calls /\ pending' \in Int /\ queued' \in [Calls -> Nat]
           /\ sk' \in [open : BOOLEAN, link : {"no", "pending", "yes"}, ready : SUBSET Ops,
                       hup : BOOLEAN, reg : BOOLEAN, listed : BOOLEAN]
           /\ ArmedOrQueuedOnce' /\ OneArmed' /\ PendingNeverHigh'
  <1> DEFINE hit == Events \cap S
  <1>1. CASE hit # {} /\ sk.open /\ sk.reg
    <2>1. sk' = Interest(Events \ hit) /\ Trigger(hit, Cardinality(hit))
      BY <1>1 DEF Cancel
    <2>2. hit \in SUBSET Ops
      BY DEF IInv, TypeOK, Events, Locs
    <2>3. Cardinality(hit) \in Int
      BY <2>2, OpsCount
    <2> HIDE DEF hit
    <2> QED
      BY <2>1, <2>2, <2>3, TriggerStep, InterestType DEF IInv
  <1>2. CASE ~(hit # {} /\ sk.open /\ sk.reg)
    <2>1. UNCHANGED <<sk, armed, queued, pending>>
      BY <1>2 DEF Cancel, evVars
    <2> QED
      BY <2>1 DEF IInv, TypeOK, ArmedOrQueuedOnce, OneArmed, PendingNeverHigh
  <1> QED
    BY <1>1, <1>2

\* A step that touches no event keeps what is said about them.
LEMMA NoEventStep ==
    ASSUME IInv, UNCHANGED evVars,
           \A c \in Calls : (fpc'[c] = "held") <=> (fpc[c] = "held"),
           \A c \in Calls : fpc[c] = "held" => loc'[c].op = loc[c].op
    PROVE  ArmedOrQueuedOnce' /\ OneArmed' /\ PendingNeverHigh'
  <1>1. \A c \in armed : c \in Calls /\ loc'[c].op = loc[c].op
    BY ArmedHolds DEF IInv, TypeOK
  <1>2. OneArmed'
    BY <1>1 DEF IInv, OneArmed, evVars
  <1> QED
    BY <1>2 DEF IInv, evVars, ArmedOrQueuedOnce, PendingNeverHigh

\* A step in which no call begins and no call changes its socket.
LEMMA FreshStep ==
    ASSUME IInv, UNCHANGED calls, opens' \in Nat, opens <= opens',
           managed' => managed \/ opens < opens',
           \A c \in Calls : Idle(c) => Idle(c)',
           \A c \in Calls : loc'[c].sock = loc[c].sock \/ (loc'[c].sock = 0 /\ Idle(c)')
    PROVE  Fresh'
  <1>1. opens \in Nat /\ calls \in Nat /\ \A c \in Calls : loc[c].sock \in Nat
    BY DEF IInv, TypeOK, Locs
  <1>2. \A c \in Calls : loc'[c].sock <= opens' /\ (~Idle(c)' => loc'[c].sock > 0)
    BY <1>1 DEF IInv, Fresh
  <1>3. managed' => opens' > 0
    BY <1>1 DEF IInv, Fresh
  <1> QED
    BY <1>2, <1>3 DEF IInv, Fresh

\* A fiber's step in a call: its locals stay, or the call is over.
LEMMA MoveType ==
    ASSUME IInv, NEW c \in Calls, ~Idle(c), UNCHANGED <<calls, opens, managed>>,
           NEW l \in {"idle", "try", "timer", "arm", "held", "check", "soerror"},
           fpc' = [fpc EXCEPT ![c] = l],
           \/ loc' = loc
           \/ loc' = [loc EXCEPT ![c] = NoCall] /\ l = "idle"
    PROVE  /\ fpc' \in [Calls -> {"idle", "try", "timer", "arm", "held", "check", "soerror"}]
           /\ loc' \in [Calls -> Locs] /\ fpc'[c] = l
           /\ \A d \in Calls \ {c} : fpc'[d] = fpc[d] /\ loc'[d] = loc[d]
           /\ Fresh'
  <1>1. /\ fpc' \in [Calls -> {"idle", "try", "timer", "arm", "held", "check", "soerror"}]
        /\ loc' \in [Calls -> Locs] /\ fpc'[c] = l
        /\ \A d \in Calls \ {c} : fpc'[d] = fpc[d] /\ loc'[d] = loc[d]
    BY NoCallType DEF IInv, TypeOK
  <1>2. \A d \in Calls : Idle(d) => Idle(d)'
    BY <1>1 DEF Idle
  <1>3. \A d \in Calls : loc'[d].sock = loc[d].sock \/ (loc'[d].sock = 0 /\ Idle(d)')
    BY <1>1, NoCallType DEF Idle, IInv, TypeOK
  <1>4. opens \in Nat
    BY DEF IInv, TypeOK
  <1> QED
    BY <1>1, <1>2, <1>3, <1>4, FreshStep

\* Where a fiber can be; what a step of it does to the descriptor's variables.
Places == {"idle", "try", "timer", "arm", "held", "check", "soerror"}

LEMMA GoType ==
    ASSUME IInv, NEW c \in Calls, ~Idle(c), UNCHANGED fdVars, UNCHANGED evVars,
           UNCHANGED <<races, rep, aborted>>, sk' = sk \/ sk' \in [open : BOOLEAN,
               link : {"no", "pending", "yes"}, ready : SUBSET Ops, hup : BOOLEAN,
               reg : BOOLEAN, listed : BOOLEAN],
           fpc[c] # "held", NEW l \in Places \ {"held"}, Go(c, l) \/ (l = "idle" /\ Return(c))
    PROVE  IInv'
  <1>1. /\ fpc' = [fpc EXCEPT ![c] = l] /\ UNCHANGED <<calls, opens, managed>>
        /\ loc' = loc \/ (loc' = [loc EXCEPT ![c] = NoCall] /\ l = "idle")
    BY DEF Go, Return, fdVars
  <1>2. l \in {"idle", "try", "timer", "arm", "held", "check", "soerror"}
    BY DEF Places
  <1>3. /\ fpc' \in [Calls -> {"idle", "try", "timer", "arm", "held", "check", "soerror"}]
        /\ loc' \in [Calls -> Locs] /\ fpc'[c] = l
        /\ \A d \in Calls \ {c} : fpc'[d] = fpc[d] /\ loc'[d] = loc[d]
        /\ Fresh'
    BY <1>1, <1>2, MoveType
  <1>4. TypeOK'
    BY <1>1, <1>3 DEF IInv, TypeOK, fdVars, evVars
  <1>5. ArmedOrQueuedOnce' /\ OneArmed' /\ PendingNeverHigh'
    BY <1>3, NoEventStep
  <1> QED
    BY <1>3, <1>4, <1>5 DEF IInv

\* A step of the descriptor, a poller or a callback that arms and disarms nothing.
LEMMA QuietStep ==
    ASSUME IInv, UNCHANGED <<races, calls, evVars, fpc>>, TypeOK',
           opens <= opens', managed' => managed \/ opens < opens',
           \A c \in Calls : loc'[c].sock = loc[c].sock /\ loc'[c].op = loc[c].op
    PROVE  IInv'
  <1>1. ArmedOrQueuedOnce' /\ OneArmed' /\ PendingNeverHigh'
    BY NoEventStep
  <1>2. Fresh'
    <2>1. opens' \in Nat
      BY DEF TypeOK
    <2> QED
      BY <2>1, FreshStep DEF Idle
  <1> QED
    BY <1>1, <1>2 DEF IInv

\* A step that cancels events, and does nothing else to the calls.
LEMMA DisarmStep ==
    ASSUME IInv, NEW S, Cancel(S), UNCHANGED <<races, callVars, opens, rep, aborted>>,
           managed' = managed, cpc' \in {"no", "del", "close"}
    PROVE  IInv'
  <1>1. UNCHANGED <<fpc, loc, calls>>
    BY DEF callVars
  <1>2. Fresh'
    BY <1>1, FreshStep DEF Idle, IInv, TypeOK
  <1> QED
    BY <1>1, <1>2, CancelStep DEF IInv, TypeOK

\* The callback of a timer marks one call, and a timer that expires another.
LEMMA BeginLocs ==
    ASSUME TypeOK, NEW cb, CallbackBegin(cb)
    PROVE  /\ loc' \in [Calls -> Locs]
           /\ \A c \in Calls : /\ loc'[c].sock = loc[c].sock /\ loc'[c].op = loc[c].op
                               /\ loc'[c].kind = loc[c].kind /\ loc'[c].timed = loc[c].timed
                               /\ loc'[c].expired = loc[c].expired
                               /\ loc[c].cancelled => loc'[c].cancelled
                               /\ c \notin Led(cb) => loc'[c] = loc[c]
  <1>1. CASE loc' = loc
    BY <1>1 DEF TypeOK
  <1>2. ASSUME NEW c \in Led(cb), loc' = [loc EXCEPT ![c].cancelled = TRUE]
        PROVE  /\ loc' \in [Calls -> Locs]
               /\ \A d \in Calls : /\ loc'[d].sock = loc[d].sock /\ loc'[d].op = loc[d].op
                                   /\ loc'[d].kind = loc[d].kind /\ loc'[d].timed = loc[d].timed
                                   /\ loc'[d].expired = loc[d].expired
                                   /\ loc[d].cancelled => loc'[d].cancelled
                                   /\ d \notin Led(cb) => loc'[d] = loc[d]
    <2>1. c \in DOMAIN loc => c \in Calls
      BY DEF TypeOK
    <2>2. PICK l : l = [loc[c] EXCEPT !.cancelled = TRUE]
      OBVIOUS
    <2>3. c \in Calls => /\ l \in Locs /\ l.sock = loc[c].sock /\ l.op = loc[c].op /\ l.kind = loc[c].kind
                         /\ l.timed = loc[c].timed /\ l.expired = loc[c].expired /\ l.cancelled
      BY <2>2 DEF TypeOK, Locs
    <2>4. loc' = [loc EXCEPT ![c] = l]
      BY <1>2, <2>2
    <2>5. loc \in [Calls -> Locs]
      BY DEF TypeOK
    <2>6. CASE c \notin Calls
      <3>1. loc' = loc
        BY <2>4, <2>5, <2>6
      <3> QED
        BY <2>5, <3>1
    <2>7. CASE c \in Calls
      <3>1. /\ loc' \in [Calls -> Locs] /\ loc'[c] = l
            /\ \A d \in Calls \ {c} : loc'[d] = loc[d]
        BY <2>3, <2>4, <2>5, <2>7
      <3> QED
        BY <2>3, <2>7, <3>1
    <2> QED
      BY <2>6, <2>7
  <1> QED
    BY <1>1, <1>2 DEF CallbackBegin

LEMMA ExpireLocs ==
    ASSUME TypeOK, NEW c \in Calls, Expire(c)
    PROVE  /\ loc' \in [Calls -> Locs] /\ loc'[c].expired
           /\ \A d \in Calls : /\ loc'[d].sock = loc[d].sock /\ loc'[d].op = loc[d].op
                               /\ loc'[d].kind = loc[d].kind /\ loc'[d].timed = loc[d].timed
                               /\ loc'[d].cancelled = loc[d].cancelled
                               /\ d # c => loc'[d] = loc[d]
  <1>1. PICK l : l = [loc[c] EXCEPT !.expired = TRUE]
    OBVIOUS
  <1>2. /\ l \in Locs /\ l.sock = loc[c].sock /\ l.op = loc[c].op /\ l.kind = loc[c].kind
        /\ l.timed = loc[c].timed /\ l.cancelled = loc[c].cancelled /\ l.expired
    BY <1>1 DEF TypeOK, Locs
  <1>3. loc' = [loc EXCEPT ![c] = l]
    BY <1>1 DEF Expire
  <1> QED
    BY <1>2, <1>3 DEF TypeOK

\* A new call is the next one.
LEMMA CallBegins ==
    ASSUME IInv, NEW o \in Ops, NEW k \in {"io", "connect"}, Call(o, k)
    PROVE  \E c \in Calls :
              /\ c = calls + 1 /\ calls' = c /\ Idle(c) /\ calls < c
              /\ fpc' = [fpc EXCEPT ![c] = "try"] /\ fpc'[c] = "try"
              /\ fpc' \in [Calls -> {"idle", "try", "timer", "arm", "held", "check", "soerror"}]
              /\ loc' \in [Calls -> Locs] /\ loc'[c].op = o /\ loc'[c].kind = k /\ loc'[c].sock = opens
              /\ ~loc'[c].cancelled /\ ~loc'[c].expired
              /\ \A d \in Calls \ {c} : fpc'[d] = fpc[d] /\ loc'[d] = loc[d]
  <1>0. TypeOK
    BY DEF IInv
  <1>1. PICK c : c = calls + 1
    OBVIOUS
  <1>2. /\ calls \in Nat /\ c \in Calls /\ calls < c
        /\ calls' = c /\ fpc' = [fpc EXCEPT ![c] = "try"]
    BY <1>0, <1>1, HookBounds DEF Call, TypeOK, Calls
  <1>3. PICK b \in BOOLEAN : loc' = [loc EXCEPT ![c] =
                   [NoCall EXCEPT !.op = o, !.kind = k, !.sock = opens, !.timed = b]]
    BY <1>1, Zenon DEF Call
  <1>4. PICK r : r = [NoCall EXCEPT !.op = o, !.kind = k, !.sock = opens, !.timed = b]
    OBVIOUS
  <1>5. r = [op |-> o, kind |-> k, sock |-> opens, timed |-> b, cancelled |-> FALSE, expired |-> FALSE]
    BY <1>4 DEF NoCall
  <1>6. opens \in Nat
    BY <1>0 DEF TypeOK
  <1>7. /\ r \in Locs /\ r.op = o /\ r.kind = k /\ r.sock = opens /\ ~r.cancelled /\ ~r.expired
    BY ONLY <1>5, <1>6, o \in Ops, k \in {"io", "connect"}, b \in BOOLEAN DEF Locs
  <1>8. loc' = [loc EXCEPT ![c] = r]
    BY <1>3, <1>4
  <1>9. Idle(c)
    BY <1>2 DEF IInv, Fresh
  <1>10. /\ loc' \in [Calls -> Locs] /\ loc'[c] = r /\ fpc'[c] = "try"
         /\ fpc' \in [Calls -> {"idle", "try", "timer", "arm", "held", "check", "soerror"}]
         /\ \A d \in Calls \ {c} : fpc'[d] = fpc[d] /\ loc'[d] = loc[d]
    BY <1>0, <1>2, <1>7, <1>8 DEF TypeOK
  <1> QED
    BY <1>1, <1>2, <1>7, <1>9, <1>10

\* The invariant is inductive: one step per action.
LEMMA Inductive == IInv /\ [Next]_vars => IInv'
  <1> SUFFICES ASSUME IInv, [Next]_vars PROVE IInv'
    OBVIOUS
  <1>0. TypeOK /\ opens \in Nat
    BY DEF IInv, TypeOK
  <1>1. ASSUME Open PROVE IInv'
    <2>1. UNCHANGED <<races, calls, evVars, fpc, loc>> /\ opens' = opens + 1
      BY <1>1 DEF Open, callVars
    <2>2. TypeOK'
      <3>1. sk' \in [open : BOOLEAN, link : {"no", "pending", "yes"}, ready : SUBSET Ops,
                     hup : BOOLEAN, reg : BOOLEAN, listed : BOOLEAN]
        BY <1>1, ClosedType DEF Open, Closed
      <3> QED
        BY <1>0, <1>1, <2>1, <3>1 DEF Open, TypeOK, evVars
    <2> QED
      BY <1>0, <2>1, <2>2, QuietStep
  <1>2. ASSUME HangUp PROVE IInv'
    <2>1. UNCHANGED <<races, calls, evVars, fpc, loc, opens, managed>>
      BY <1>2 DEF HangUp, callVars, fdVars
    <2>2. TypeOK'
      BY <1>0, <1>2 DEF HangUp, TypeOK, callVars, evVars, fdVars
    <2> QED
      BY <1>0, <2>1, <2>2, QuietStep
  <1>3. ASSUME CloseBegin PROVE IInv'
    BY <1>3, DisarmStep DEF CloseBegin
  <1>4. ASSUME CloseStep PROVE IInv'
    <2>1. UNCHANGED <<races, calls, evVars, fpc, loc, opens>> /\ (managed' => managed)
      BY <1>4 DEF CloseStep, CloseDel, CloseFd, callVars
    <2>2. TypeOK'
      BY <1>0, <1>4, ClosedType DEF CloseStep, CloseDel, CloseFd, TypeOK, callVars, evVars
    <2> QED
      BY <1>0, <2>1, <2>2, QuietStep
  <1>5. ASSUME NEW cb, CallbackBegin(cb) PROVE IInv'
    <2>1. UNCHANGED <<races, calls, evVars, fpc, opens, managed>>
      BY <1>5 DEF CallbackBegin, fdVars
    <2>2. /\ loc' \in [Calls -> Locs]
          /\ \A c \in Calls : loc'[c].sock = loc[c].sock /\ loc'[c].op = loc[c].op
      BY <1>0, <1>5, BeginLocs
    <2>3. TypeOK'
      BY <1>0, <1>5, <2>1, <2>2 DEF CallbackBegin, TypeOK, evVars, fdVars
    <2> QED
      BY <1>0, <2>1, <2>2, <2>3, QuietStep
  <1>6. ASSUME NEW cb \in cbs, CallbackEnd(cb) PROVE IInv'
    BY <1>0, <1>6, DisarmStep DEF CallbackEnd, fdVars, TypeOK
  <1>7. ASSUME NEW o \in Ops, BecomeReady(o) PROVE IInv'
    <2>1. UNCHANGED <<races, calls, evVars, fpc, loc, opens, managed>>
      BY <1>7 DEF BecomeReady, callVars, fdVars
    <2>2. TypeOK'
      BY <1>0, <1>7 DEF BecomeReady, TypeOK, callVars, evVars, fdVars
    <2> QED
      BY <1>0, <2>1, <2>2, QuietStep
  <1>8. ASSUME NEW c \in Calls, Try(c) \/ AddTimer(c) \/ Check(c) \/ SoError(c) PROVE IInv'
    <2>1. /\ ~Idle(c) /\ fpc[c] # "held" /\ UNCHANGED <<fdVars, evVars, races, rep, aborted>>
          /\ \E l \in Places \ {"held"} : Go(c, l) \/ (l = "idle" /\ Return(c))
      BY <1>8 DEF Try, AddTimer, Check, SoError, Idle, Places
    <2>2. sk' \in [open : BOOLEAN, link : {"no", "pending", "yes"}, ready : SUBSET Ops,
                   hup : BOOLEAN, reg : BOOLEAN, listed : BOOLEAN]
      BY <1>0, <1>8 DEF Try, AddTimer, Check, SoError, TypeOK
    <2> QED
      BY <2>1, <2>2, GoType
  <1>9. ASSUME NEW c \in Calls, AddEvent(c) PROVE IInv'
    <2>1. ~Idle(c) /\ fpc[c] = "arm" /\ c \notin armed /\ armed \subseteq Calls
          /\ UNCHANGED <<races, rep, opens, managed, cpc>>
      BY <1>0, <1>9, ArmedHolds DEF AddEvent, Idle, TypeOK, fdVars
    <2>2. CASE aborted' = TRUE /\ UNCHANGED <<sk, timer, evVars, callVars>>
      BY <1>0, <2>1, <2>2, QuietStep DEF TypeOK, evVars, callVars, fdVars
    <2>3. CASE Return(c) /\ UNCHANGED <<sk, aborted, evVars>>
      BY <1>0, <2>1, <2>3, GoType DEF Places, fdVars
    <2>4. CASE /\ loc[c].op \notin Events /\ sk' = Interest(Events \cup {loc[c].op})
               /\ armed' = armed \cup {c} /\ pending' = pending + 1
               /\ Go(c, "held") /\ UNCHANGED <<aborted, queued>>
      <3>1. /\ fpc' = [fpc EXCEPT ![c] = "held"] /\ loc' = loc /\ calls' = calls
        BY <2>4 DEF Go
      <3>2. /\ fpc' \in [Calls -> {"idle", "try", "timer", "arm", "held", "check", "soerror"}]
            /\ fpc'[c] = "held" /\ \A d \in Calls \ {c} : fpc'[d] = fpc[d]
            /\ loc' \in [Calls -> Locs] /\ Fresh'
        BY <2>1, <3>1, MoveType
      <3>3. TypeOK'
        BY <1>0, <2>1, <2>4, <3>1, <3>2, InterestType DEF TypeOK
      <3>4. ArmedOrQueuedOnce'
        <4>1. armed' = armed \cup {c} /\ queued' = queued
          BY <2>4
        <4> QED
          BY <1>0, <2>1, <4>1, <3>2 DEF IInv, ArmedOrQueuedOnce, TypeOK
      <3>5. OneArmed'
        BY <2>4, <3>1 DEF IInv, OneArmed, Events
      <3>6. PendingNeverHigh'
        <4>1. Cardinality(armed') = Cardinality(armed) + 1
          BY <2>1, <2>4, ArmOne
        <4>2. pending <= Cardinality(armed) /\ pending \in Int /\ Cardinality(armed) \in Nat
          BY <1>0, CallsCount DEF IInv, PendingNeverHigh, TypeOK
        <4> QED
          BY <2>4, <4>1, <4>2 DEF PendingNeverHigh
      <3> QED
        BY <3>2, <3>3, <3>4, <3>5, <3>6 DEF IInv
    <2> QED
      BY <1>9, <2>2, <2>3, <2>4 DEF AddEvent
  <1>10. ASSUME NEW c \in Calls, Resume(c) PROVE IInv'
    <2>1. /\ fpc[c] = "held" /\ queued[c] > 0 /\ ~Idle(c) /\ queued' = [queued EXCEPT ![c] = @ - 1]
          /\ fpc' = [fpc EXCEPT ![c] = "check"] /\ loc' = loc /\ calls' = calls
          /\ UNCHANGED <<races, sk, rep, aborted, armed, pending, opens, managed, cpc>>
      BY <1>10 DEF Resume, Go, Idle, fdVars
    <2>2. /\ fpc' \in [Calls -> {"idle", "try", "timer", "arm", "held", "check", "soerror"}]
          /\ fpc'[c] = "check" /\ \A d \in Calls \ {c} : fpc'[d] = fpc[d]
          /\ loc' \in [Calls -> Locs] /\ Fresh'
      BY <2>1, MoveType
    <2>3. /\ queued' \in [Calls -> Nat] /\ queued'[c] = queued[c] - 1
          /\ \A d \in Calls \ {c} : queued'[d] = queued[d]
      BY <1>0, <2>1 DEF TypeOK
    <2>4. TypeOK'
      BY <1>0, <2>1, <2>2, <2>3 DEF TypeOK
    <2>5. ArmedOrQueuedOnce'
      <3>1. queued[c] \in Nat
        BY <1>0 DEF TypeOK
      <3> QED
        BY <2>1, <2>2, <2>3, <3>1 DEF IInv, ArmedOrQueuedOnce
    <2> QED
      BY <2>1, <2>2, <2>4, <2>5 DEF IInv, OneArmed, PendingNeverHigh
  <1>11. ASSUME NEW c \in Calls, Expire(c) PROVE IInv'
    <2>1. UNCHANGED <<races, calls, evVars, fpc, opens, managed>>
      BY <1>11 DEF Expire, fdVars
    <2>2. /\ loc' \in [Calls -> Locs]
          /\ \A d \in Calls : loc'[d].sock = loc[d].sock /\ loc'[d].op = loc[d].op
      BY <1>0, <1>11, ExpireLocs
    <2>3. TypeOK'
      BY <1>0, <1>11, <2>1, <2>2 DEF Expire, TypeOK, evVars, fdVars
    <2> QED
      BY <1>0, <2>1, <2>2, <2>3, QuietStep
  <1>12. ASSUME NEW o \in Ops, UserCancel(o) PROVE IInv'
    BY <1>0, <1>12, DisarmStep DEF UserCancel, fdVars, TypeOK
  <1>13. ASSUME NEW o \in Ops, NEW k \in {"io", "connect"}, Call(o, k) PROVE IInv'
    <2>1. PICK c \in Calls :
              /\ calls' = c /\ Idle(c) /\ calls < c /\ fpc'[c] = "try" /\ loc'[c].sock = opens
              /\ fpc' \in [Calls -> {"idle", "try", "timer", "arm", "held", "check", "soerror"}]
              /\ loc' \in [Calls -> Locs]
              /\ \A d \in Calls \ {c} : fpc'[d] = fpc[d] /\ loc'[d] = loc[d]
      BY <1>13, CallBegins
    <2>2. UNCHANGED <<races, sk, rep, aborted, opens, managed, cpc, evVars>> /\ managed
      BY <1>13 DEF Call, fdVars
    <2>3. c \in Nat /\ calls \in Nat
      BY <1>0 DEF TypeOK, Calls
    <2>8. TypeOK'
      BY <1>0, <2>1, <2>2, <2>3 DEF TypeOK, evVars
    <2>9. ArmedOrQueuedOnce' /\ OneArmed' /\ PendingNeverHigh'
      BY <2>1, <2>2, NoEventStep DEF Idle
    <2>10. Fresh'
      <3>1. opens > 0
        BY <2>2 DEF IInv, Fresh
      <3>2. \A d \in Calls : d > calls' => d # c /\ d > calls
        BY <2>1, <2>3 DEF Calls
      <3> QED
        BY <1>0, <2>1, <2>2, <3>1, <3>2 DEF IInv, Fresh, Idle
    <2> QED
      BY <2>8, <2>9, <2>10 DEF IInv
  <1>14. ASSUME NEW p \in Pollers, Poll(p) PROVE IInv'
    <2>1. UNCHANGED <<races, calls, evVars, fpc, loc, opens, managed>>
      BY <1>14 DEF Poll, callVars, fdVars
    <2>2. TypeOK'
      BY <1>0, <1>14 DEF Poll, TypeOK, evVars, fdVars, callVars
    <2> QED
      BY <1>0, <2>1, <2>2, QuietStep
  <1>15. ASSUME NEW p \in Pollers, Handle(p) PROVE IInv'
    <2> DEFINE real == Real(rep[p])
    <2>1. real \in SUBSET Ops
      BY <1>0 DEF Real, TypeOK, Events, Locs
    <2>2. /\ UNCHANGED <<fpc, loc, calls, races, aborted, opens, managed, cpc>>
          /\ rep' \in [Pollers -> SUBSET (Ops \cup {"HUP"})]
      BY <1>0, <1>15 DEF Handle, callVars, fdVars, TypeOK
    <2>3. Fresh'
      BY <1>0, <2>2, FreshStep DEF Idle
    <2>4. CASE real \cap Events # {} /\ sk.open /\ sk.reg
      <3>1. sk' = Interest(Events \ real) /\ Trigger(real, Cardinality(real))
        BY <1>15, <2>4 DEF Handle
      <3>2. Cardinality(real) \in Int
        BY <2>1, OpsCount
      <3> HIDE DEF real
      <3>3. /\ armed' \subseteq Calls /\ pending' \in Int /\ queued' \in [Calls -> Nat]
            /\ ArmedOrQueuedOnce' /\ OneArmed' /\ PendingNeverHigh'
        BY <2>1, <2>2, <3>1, <3>2, TriggerStep
      <3> QED
        BY <1>0, <2>2, <2>3, <3>1, <3>3, InterestType DEF IInv, TypeOK
    <2>5. CASE ~(real \cap Events # {} /\ sk.open /\ sk.reg)
      <3>1. UNCHANGED <<sk, armed, queued, pending>>
        BY <1>15, <2>5 DEF Handle, evVars
      <3> HIDE DEF real
      <3> QED
        BY <1>0, <2>2, <2>3, <3>1, NoEventStep DEF IInv, TypeOK, evVars
    <2> QED
      BY <2>4, <2>5
  <1>16. CASE UNCHANGED vars
    BY <1>16 DEF vars, IInv, TypeOK, ArmedOrQueuedOnce, PendingNeverHigh, OneArmed, Fresh, Idle
  <1> QED
    BY <1>1, <1>2, <1>3, <1>4, <1>5, <1>6, <1>7, <1>8, <1>9, <1>10, <1>11, <1>12, <1>13,
       <1>14, <1>15, <1>16
    DEF Next, CallbackStep, FiberStep, PollStep

\* The invariant holds when the program starts.
LEMMA Starts == Init => IInv
  <1> SUFFICES ASSUME Init PROVE IInv
    OBVIOUS
  <1>1. Cardinality({}) = 0
    BY FS_EmptySet
  <1>2. TypeOK
    <2>1. sk \in [open : BOOLEAN, link : {"no", "pending", "yes"}, ready : SUBSET Ops,
                  hup : BOOLEAN, reg : BOOLEAN, listed : BOOLEAN]
      BY ClosedType DEF Init
    <2>2. queued \in [Calls -> Nat] /\ pending \in Int /\ armed \subseteq Calls
      BY DEF Init
    <2>3. /\ rep \in [Pollers -> SUBSET (Ops \cup {"HUP"})]
          /\ fpc \in [Calls -> {"idle", "try", "timer", "arm", "held", "check", "soerror"}]
          /\ cpc \in {"no", "del", "close"}
      BY DEF Init
    <2>4. races \in RaceSets /\ managed \in BOOLEAN /\ aborted \in BOOLEAN /\ opens \in Nat
      BY DEF Init
    <2>5. loc \in [Calls -> Locs] /\ calls \in Nat
      BY NoCallType DEF Init
    <2> QED
      BY <2>1, <2>2, <2>3, <2>4, <2>5 DEF TypeOK
  <1>3. ArmedOrQueuedOnce /\ PendingNeverHigh /\ OneArmed
    BY <1>1 DEF Init, ArmedOrQueuedOnce, PendingNeverHigh, OneArmed
  <1>4. Fresh
    BY NoCallType DEF Init, Fresh, Idle
  <1> QED
    BY <1>2, <1>3, <1>4 DEF IInv

\* So it holds always.
LEMMA Invariance == Spec => []IInv
  BY Starts, Inductive, PTL DEF Spec

\* For any number of pollers: the state of the hooked calls, the descriptor's events
\* and the kernel's side of them (hook.cpp, iomanager.cpp) keeps its types.
THEOREM HookTypeCorrect == Spec => []TypeOK
  BY Invariance, PTL DEF IInv

\* For any number of pollers and with every race: a fiber that holds in a hooked
\* call has its event armed or one entry in the run queue, and no other fiber is
\* ever woken (AddEvent, triggerEvent, CancelEvent, CancelAll and Idle together).
THEOREM OneWakeUpPerCall == Spec => []ArmedOrQueuedOnce
  BY Invariance, PTL DEF IInv

\* For any number of pollers and with every race: _pendingEventNum never counts
\* an event that is not armed.
THEOREM NoPhantomEvent == Spec => []PendingNeverHigh
  BY Invariance, PTL DEF IInv
-----------------------------------------------------------------------------
\* close() and the table of managed descriptors (hook.cpp, fdmanager.cpp).
TableFits ==
    /\ cpc = "del" => managed
    /\ cpc = "close" => ~managed
    /\ sk.open <=> managed \/ cpc = "close"

\* Without the race "close": no fiber is in a call while the descriptor is being closed,
\* every call is on the present socket, and one call per direction.
CallersFit ==
    /\ ~aborted
    /\ cpc # "no" \/ ~sk.open => \A c \in Calls : Idle(c)
    /\ \A c \in Calls : ~Idle(c) => loc[c].sock = opens
    /\ \A c, d \in Calls : ~Idle(c) /\ ~Idle(d) /\ loc[c].op = loc[d].op => c = d

NoClose == "close" \notin races

OneCaller == \A c, d \in Calls : ~Idle(c) /\ ~Idle(d) => c = d

\* Calls that are past their attempt and have not been woken.
Past == {"timer", "arm", "held"}

\* A report that is not handled yet: of one event, besides a hang-up; after a hang-up
\* no other call gets as far as arming its event.
ReportFits(p) ==
    /\ "HUP" \in rep[p] => ~sk.open \/ sk.hup
    /\ \A o, q \in Ops : o \in rep[p] /\ q \in rep[p] => o = q
    /\ \A o \in Ops, c \in Calls : o \in rep[p] /\ "HUP" \in rep[p] /\ fpc[c] \in Past => loc[c].op = o

Exact == OneCaller /\ (\A p \in Pollers : ReportFits(p)) /\ pending = Cardinality(armed)

Quiet == ~Mixed

EInv == IInv /\ TableFits /\ (NoClose => CallersFit) /\ (Quiet => Exact)

\* Cancel() does not touch what the table and the fibers say.
LEMMA CancelFrame ==
    ASSUME IInv, NEW S, Cancel(S)
    PROVE  sk'.open = sk.open /\ sk'.hup = sk.hup
  BY DEF IInv, TypeOK, Cancel, Interest

\* A critical section that triggers only armed events keeps the count exact.
LEMMA DisarmExact ==
    ASSUME IInv, NEW S \in SUBSET Events, Trigger(S, Cardinality(S)), pending = Cardinality(armed)
    PROVE  pending' = Cardinality(armed')
  <1>1. S \in SUBSET Ops /\ S \subseteq Events
    BY DEF IInv, TypeOK, Events, Locs
  <1>2. armed' = armed \ Waiting(S) /\ pending' = pending - Cardinality(S) /\ pending \in Int
    BY DEF Trigger, IInv, TypeOK
  <1> QED
    BY <1>1, <1>2, Disarm DEF IInv

LEMMA CancelExact ==
    ASSUME IInv, NEW S, Cancel(S), pending = Cardinality(armed)
    PROVE  pending' = Cardinality(armed')
  <1> DEFINE hit == Events \cap S
  <1>1. CASE hit # {} /\ sk.open /\ sk.reg
    <2>1. Trigger(hit, Cardinality(hit)) /\ hit \in SUBSET Events
      BY <1>1 DEF Cancel
    <2> HIDE DEF hit
    <2> QED
      BY <2>1, DisarmExact
  <1>2. CASE ~(hit # {} /\ sk.open /\ sk.reg)
    BY <1>2 DEF Cancel, evVars
  <1> QED
    BY <1>1, <1>2

\* A step of the descriptor's or the callbacks' that no call takes part in.
LEMMA ExactFrame ==
    ASSUME IInv, Exact, UNCHANGED <<fpc, rep>>, pending' = Cardinality(armed'),
           \A c \in Calls : loc'[c].op = loc[c].op,
           ~sk.open \/ sk.hup => ~sk'.open \/ sk'.hup
    PROVE  Exact'
  BY DEF Exact, OneCaller, Idle, ReportFits

LEMMA CallersFrame ==
    ASSUME CallersFit, UNCHANGED <<fpc, cpc, opens, aborted>>, sk'.open = sk.open,
           \A c \in Calls : loc'[c].op = loc[c].op /\ loc'[c].sock = loc[c].sock
    PROVE  CallersFit'
  BY DEF CallersFit, Idle

\* What the steps of a fiber in a call have in common.
LEMMA FiberMove ==
    ASSUME IInv, NEW c \in Calls, FiberStep(c)
    PROVE  /\ ~Idle(c) /\ UNCHANGED <<races, rep, opens, managed, cpc, calls, cbs>>
           /\ sk'.open = sk.open /\ sk'.hup = sk.hup
           /\ \A d \in Calls \ {c} : fpc'[d] = fpc[d]
           /\ \/ loc' = loc /\ (aborted' => aborted \/ loc[c].op \in Events)
                 /\ (fpc'[c] \in Past /\ fpc[c] \notin Past => sk.open /\ ~sk.hup)
              \/ loc' = [loc EXCEPT ![c] = NoCall] /\ fpc'[c] = "idle" /\ aborted' = aborted
           /\ \A d \in Calls \ {c} : loc'[d] = loc[d]
           /\ aborted' /\ ~aborted => fpc[c] = "arm" /\ loc[c].op \in Events
  <1>0. TypeOK
    BY DEF IInv
  <1>1. ASSUME Try(c) \/ AddTimer(c) \/ Check(c) \/ SoError(c)
        PROVE  /\ ~Idle(c) /\ UNCHANGED <<races, rep, opens, managed, cpc, calls, cbs, aborted>>
               /\ sk'.open = sk.open /\ sk'.hup = sk.hup
               /\ \/ loc' = loc /\ (\E l \in Places : fpc' = [fpc EXCEPT ![c] = l])
                     /\ (fpc'[c] \in Past /\ fpc[c] \notin Past => sk.open /\ ~sk.hup)
                  \/ loc' = [loc EXCEPT ![c] = NoCall] /\ fpc' = [fpc EXCEPT ![c] = "idle"]
    <2>1. /\ ~Idle(c) /\ UNCHANGED <<races, rep, opens, managed, cpc, calls, cbs, aborted>>
          /\ sk'.open = sk.open /\ sk'.hup = sk.hup
      BY <1>0, <1>1 DEF Try, AddTimer, Check, SoError, Idle, fdVars, timerVars, Go, Return, TypeOK
    <2>2. \/ loc' = loc /\ (\E l \in Places : fpc' = [fpc EXCEPT ![c] = l])
          \/ loc' = [loc EXCEPT ![c] = NoCall] /\ fpc' = [fpc EXCEPT ![c] = "idle"]
      BY <1>1 DEF Try, AddTimer, Check, SoError, Go, Return, Places
    <2>3. fpc'[c] \in Past /\ fpc[c] \notin Past => sk.open /\ ~sk.hup
      BY <1>0, <1>1 DEF Try, AddTimer, Check, SoError, Go, Return, Past, TypeOK
    <2> QED
      BY <2>1, <2>2, <2>3
  <1>2. ASSUME AddEvent(c) \/ Resume(c)
        PROVE  /\ ~Idle(c) /\ UNCHANGED <<races, rep, opens, managed, cpc, calls, cbs>>
               /\ sk'.open = sk.open /\ sk'.hup = sk.hup
               /\ \/ /\ loc' = loc /\ (\E l \in Places : fpc' = [fpc EXCEPT ![c] = l])
                     /\ aborted' = aborted /\ fpc[c] \in Past
                  \/ /\ loc' = loc /\ fpc' = fpc /\ fpc[c] = "arm" /\ loc[c].op \in Events
                  \/ /\ loc' = [loc EXCEPT ![c] = NoCall] /\ fpc' = [fpc EXCEPT ![c] = "idle"]
                     /\ aborted' = aborted
    <2>1. ~Idle(c) /\ UNCHANGED <<races, rep, opens, managed, cpc, calls, cbs>>
      BY <1>2 DEF AddEvent, Resume, Idle, fdVars, Go, Return, callVars
    <2>2. sk'.open = sk.open /\ sk'.hup = sk.hup
      BY <1>0, <1>2 DEF AddEvent, Resume, Interest, TypeOK
    <2> QED
      BY <1>2, <2>1, <2>2 DEF AddEvent, Resume, Go, Return, Places, Past, callVars
  <1>3. \/ ~Idle(c) /\ UNCHANGED <<races, rep, opens, managed, cpc, calls, cbs>>
           /\ sk'.open = sk.open /\ sk'.hup = sk.hup
           /\ \/ /\ loc' = loc /\ (\E l \in Places : fpc' = [fpc EXCEPT ![c] = l])
                 /\ aborted' = aborted
                 /\ (fpc'[c] \in Past /\ fpc[c] \notin Past => sk.open /\ ~sk.hup)
              \/ /\ loc' = loc /\ fpc' = fpc /\ fpc[c] = "arm" /\ loc[c].op \in Events
              \/ /\ loc' = [loc EXCEPT ![c] = NoCall] /\ fpc' = [fpc EXCEPT ![c] = "idle"]
                 /\ aborted' = aborted
    BY <1>1, <1>2 DEF FiberStep
  <1>4. DOMAIN fpc = Calls /\ DOMAIN loc = Calls /\ fpc \in [Calls -> Places] /\ loc \in [Calls -> Locs]
    BY <1>0 DEF TypeOK, Places
  <1> QED
    BY ONLY <1>3, <1>4, c \in Calls

\* The second invariant, without the race "close".
LEMMA CallersStep ==
    ASSUME EInv, Next, NoClose
    PROVE  CallersFit'
  <1> USE DEF EInv, NoClose
  <1>0. CallersFit /\ TypeOK /\ IInv
    BY DEF IInv
  <1>1. ASSUME Open PROVE CallersFit'
    <2>1. /\ \A c \in Calls : Idle(c)
          /\ UNCHANGED <<fpc, loc, cpc, aborted>> /\ cpc = "no" /\ sk'.open
      BY <1>0, <1>1 DEF Open, callVars, CallersFit, Closed
    <2> QED
      BY <1>0, <2>1 DEF CallersFit, Idle
  <1>2. ASSUME HangUp PROVE CallersFit'
    <2>1. UNCHANGED <<fpc, loc, cpc, opens, aborted>> /\ sk'.open = sk.open
      BY <1>0, <1>2 DEF HangUp, callVars, fdVars, TypeOK
    <2> QED
      BY <1>0, <2>1, CallersFrame
  <1>3. ASSUME CloseBegin \/ CloseStep PROVE CallersFit'
    <2>1. /\ \A c \in Calls : Idle(c)
          /\ UNCHANGED <<fpc, loc, aborted>>
      BY <1>0, <1>3 DEF CloseBegin, CloseStep, CloseDel, CloseFd, callVars, CallersFit
    <2> QED
      BY <1>0, <2>1 DEF CallersFit, Idle
  <1>4. ASSUME NEW cb, CallbackBegin(cb) PROVE CallersFit'
    <2>1. UNCHANGED <<fpc, cpc, opens, aborted, sk>>
      BY <1>4 DEF CallbackBegin, fdVars
    <2>2. \A c \in Calls : loc'[c].op = loc[c].op /\ loc'[c].sock = loc[c].sock
      BY <1>0, <1>4, BeginLocs
    <2> QED
      BY <1>0, <2>1, <2>2, CallersFrame
  <1>5. ASSUME NEW cb \in cbs, CallbackEnd(cb) PROVE CallersFit'
    <2>1. UNCHANGED <<fpc, loc, cpc, opens, aborted>> /\ sk'.open = sk.open
      BY <1>0, <1>5, CancelFrame DEF CallbackEnd, callVars, fdVars
    <2> QED
      BY <1>0, <2>1, CallersFrame
  <1>6. ASSUME NEW o \in Ops, BecomeReady(o) \/ UserCancel(o) PROVE CallersFit'
    <2>1. UNCHANGED <<fpc, loc, cpc, opens, aborted>>
      BY <1>6 DEF BecomeReady, UserCancel, callVars, fdVars
    <2>2. sk'.open = sk.open
      BY <1>0, <1>6, CancelFrame DEF BecomeReady, UserCancel, TypeOK
    <2> QED
      BY <1>0, <2>1, <2>2, CallersFrame
  <1>7. ASSUME NEW c \in Calls, FiberStep(c) PROVE CallersFit'
    <2>1. /\ ~Idle(c) /\ UNCHANGED <<opens, cpc>> /\ sk'.open = sk.open
          /\ \A d \in Calls \ {c} : fpc'[d] = fpc[d] /\ loc'[d] = loc[d]
          /\ loc'[c] = loc[c] \/ fpc'[c] = "idle"
          /\ aborted' /\ ~aborted => fpc[c] = "arm" /\ loc[c].op \in Events
      <3>1. loc \in [Calls -> Locs]
        BY <1>0 DEF TypeOK
      <3> QED
        BY <1>0, <1>7, <3>1, FiberMove
    <2>2. ~(fpc[c] = "arm" /\ loc[c].op \in Events)
      <3> SUFFICES ASSUME fpc[c] = "arm", NEW d \in armed, loc[c].op = loc[d].op PROVE FALSE
        BY DEF Events
      <3>1. d \in Calls /\ fpc[d] = "held"
        BY <1>0, ArmedHolds DEF TypeOK
      <3> QED
        BY <1>0, <2>1, <3>1 DEF CallersFit, Idle
    <2>3. ~aborted' /\ \A d \in Calls : Idle(d) => Idle(d)'
      BY <1>0, <2>1, <2>2 DEF CallersFit, Idle, TypeOK
    <2>4. \A d \in Calls : ~Idle(d)' => ~Idle(d) /\ loc'[d] = loc[d]
      BY <2>1, <2>3 DEF Idle
    <2> QED
      BY <1>0, <2>1, <2>3, <2>4 DEF CallersFit
  <1>8. ASSUME NEW c \in Calls, Expire(c) PROVE CallersFit'
    <2>1. UNCHANGED <<fpc, cpc, opens, aborted, sk>>
      BY <1>8 DEF Expire, fdVars
    <2>2. \A d \in Calls : loc'[d].op = loc[d].op /\ loc'[d].sock = loc[d].sock
      BY <1>0, <1>8, ExpireLocs
    <2> QED
      BY <1>0, <2>1, <2>2, CallersFrame
  <1>9. ASSUME NEW o \in Ops, NEW k \in {"io", "connect"}, Call(o, k) PROVE CallersFit'
    <2>1. PICK c \in Calls : /\ Idle(c) /\ fpc'[c] = "try" /\ loc'[c].op = o /\ loc'[c].sock = opens
                             /\ \A d \in Calls \ {c} : fpc'[d] = fpc[d] /\ loc'[d] = loc[d]
      BY <1>0, <1>9, CallBegins
    <2>2. /\ UNCHANGED <<opens, aborted, cpc, sk>> /\ cpc = "no" /\ managed
          /\ \A d \in Current : loc[d].op # o
      BY <1>9 DEF Call, fdVars
    <2>3. \A d \in Calls : ~Idle(d) => loc[d].op # o
      BY <1>0, <2>2 DEF Current, CallersFit
    <2>4. sk.open
      BY <2>2 DEF TableFits
    <2> QED
      BY <1>0, <2>1, <2>2, <2>3, <2>4 DEF CallersFit, Idle
  <1>10. ASSUME NEW p \in Pollers, PollStep(p) PROVE CallersFit'
    <2>1. UNCHANGED <<fpc, loc, cpc, opens, aborted>>
      BY <1>10 DEF PollStep, Poll, Handle, callVars, fdVars
    <2>2. sk'.open = sk.open
      BY <1>0, <1>10 DEF PollStep, Poll, Handle, Interest, TypeOK
    <2> QED
      BY <1>0, <2>1, <2>2, CallersFrame
  <1> QED
    BY <1>1, <1>2, <1>3, <1>4, <1>5, <1>6, <1>7, <1>8, <1>9, <1>10
    DEF Next, CallbackStep

\* The table of managed descriptors, with every race.
LEMMA TableStep ==
    ASSUME EInv, Next
    PROVE  TableFits'
  <1>0. TypeOK /\ IInv /\ TableFits
    BY DEF EInv, IInv
  <1>1. ASSUME UNCHANGED <<managed, cpc>>, sk'.open = sk.open PROVE TableFits'
    BY <1>0, <1>1 DEF TableFits
  <1>2. ASSUME Open PROVE TableFits'
    BY <1>0, <1>2 DEF Open, Closed, TableFits
  <1>3. ASSUME HangUp PROVE TableFits'
    BY <1>0, <1>1, <1>3 DEF HangUp, TypeOK, fdVars
  <1>4. ASSUME CloseBegin PROVE TableFits'
    BY <1>0, <1>4, CancelFrame DEF CloseBegin, TableFits
  <1>5. ASSUME CloseStep PROVE TableFits'
    BY <1>0, <1>5 DEF CloseStep, CloseDel, CloseFd, Closed, TableFits
  <1>6. ASSUME NEW cb, CallbackBegin(cb) PROVE TableFits'
    BY <1>1, <1>6 DEF CallbackBegin, fdVars
  <1>7. ASSUME NEW cb \in cbs, CallbackEnd(cb) PROVE TableFits'
    BY <1>0, <1>1, <1>7, CancelFrame DEF CallbackEnd, fdVars
  <1>8. ASSUME NEW o \in Ops, BecomeReady(o) \/ UserCancel(o) PROVE TableFits'
    BY <1>0, <1>1, <1>8, CancelFrame DEF BecomeReady, UserCancel, TypeOK, fdVars
  <1>9. ASSUME NEW c \in Calls, FiberStep(c) PROVE TableFits'
    BY <1>0, <1>1, <1>9, FiberMove
  <1>10. ASSUME NEW c \in Calls, Expire(c) PROVE TableFits'
    BY <1>1, <1>10 DEF Expire, fdVars
  <1>11. ASSUME NEW o \in Ops, NEW k \in {"io", "connect"}, Call(o, k) PROVE TableFits'
    BY <1>1, <1>11 DEF Call, fdVars
  <1>12. ASSUME NEW p \in Pollers, PollStep(p) PROVE TableFits'
    <2>1. sk'.open = sk.open
      BY <1>0, <1>12 DEF PollStep, Poll, Handle, Interest, TypeOK
    <2> QED
      BY <1>1, <1>12, <2>1 DEF PollStep, Poll, Handle, fdVars
  <1> QED
    BY <1>2, <1>3, <1>4, <1>5, <1>6, <1>7, <1>8, <1>9, <1>10, <1>11, <1>12
    DEF Next, CallbackStep

\* Who is in a call is in a call on the present socket, when the races are few.
LEMMA QuietCurrent ==
    ASSUME EInv, Quiet, NEW c \in Calls, ~Idle(c)
    PROVE  c \in Current
  <1>1. CASE NoClose
    BY <1>1 DEF EInv, CallersFit, Current
  <1>2. CASE ~NoClose
    <2>1. opens \in Nat /\ loc[c].sock \in Nat
      BY DEF EInv, IInv, TypeOK, Locs
    <2>2. ~(opens > 1) /\ loc[c].sock <= opens /\ loc[c].sock > 0
      BY <1>2 DEF EInv, IInv, Fresh, Quiet, Mixed, NoClose
    <2> QED
      BY <2>1, <2>2 DEF Current
  <1> QED
    BY <1>1, <1>2

\* A step of one call: it stays the only one, and gets past its attempt only when the
\* descriptor is open and has not hung up.
LEMMA CallFrame ==
    ASSUME IInv, Exact, NEW c \in Calls, FiberStep(c), pending' = Cardinality(armed')
    PROVE  Exact'
  <1>0. Exact /\ loc \in [Calls -> Locs]
    BY DEF IInv, TypeOK
  <1>1. /\ ~Idle(c) /\ UNCHANGED rep
        /\ sk'.open = sk.open /\ sk'.hup = sk.hup
        /\ \A d \in Calls \ {c} : fpc'[d] = fpc[d] /\ loc'[d] = loc[d]
        /\ \/ loc' = loc /\ (fpc'[c] \in Past /\ fpc[c] \notin Past => sk.open /\ ~sk.hup)
           \/ fpc'[c] = "idle"
    BY FiberMove
  <1>2. OneCaller'
    BY <1>0, <1>1 DEF Exact, OneCaller, Idle
  <1>3. ASSUME NEW p \in Pollers PROVE ReportFits(p)'
    <2>1. "HUP" \in rep[p] => ~sk.open \/ sk.hup
      BY <1>0 DEF Exact, ReportFits
    <2>2. ASSUME NEW o \in Ops, NEW d \in Calls, o \in rep[p], "HUP" \in rep[p], fpc'[d] \in Past
          PROVE  fpc[d] \in Past /\ loc'[d] = loc[d]
      BY <1>1, <2>1, <2>2 DEF Past
    <2> QED
      BY <1>0, <1>1, <2>2 DEF Exact, ReportFits
  <1> QED
    BY <1>2, <1>3 DEF Exact

LEMMA ExactStep ==
    ASSUME EInv, Next, Quiet
    PROVE  Exact'
  <1>0. Exact /\ IInv /\ TypeOK /\ pending \in Int
    BY DEF EInv, IInv, TypeOK
  <1>1. ASSUME Open PROVE Exact'
    <2>1. \A p \in Pollers : rep[p] = {}
      BY <1>1 DEF Open, Quiet, Mixed
    <2>2. UNCHANGED <<armed, pending, fpc, rep>>
      BY <1>1 DEF Open, evVars, callVars
    <2> QED
      BY <1>0, <2>1, <2>2 DEF Exact, OneCaller, Idle, ReportFits
  <1>2. ASSUME HangUp PROVE Exact'
    <2>1. UNCHANGED <<armed, pending, fpc, loc, rep>> /\ sk'.hup
      BY <1>0, <1>2 DEF HangUp, TypeOK, evVars, callVars
    <2> QED
      BY <1>0, <2>1, ExactFrame DEF Exact
  <1>3. ASSUME CloseBegin PROVE Exact'
    BY <1>0, <1>3, ExactFrame, CancelFrame, CancelExact DEF CloseBegin, callVars, Exact
  <1>4. ASSUME CloseStep PROVE Exact'
    <2>1. UNCHANGED <<armed, pending, fpc, loc, rep>> /\ (~sk.open \/ sk.hup => ~sk'.open \/ sk'.hup)
      BY <1>4 DEF CloseStep, CloseDel, CloseFd, Closed, evVars, callVars
    <2> QED
      BY <1>0, <2>1, ExactFrame DEF Exact
  <1>5. ASSUME NEW cb, CallbackBegin(cb) PROVE Exact'
    <2>1. UNCHANGED <<armed, pending, fpc, rep, sk>> /\ \A c \in Calls : loc'[c].op = loc[c].op
      BY <1>0, <1>5, BeginLocs DEF CallbackBegin, evVars
    <2> QED
      BY <1>0, <2>1, ExactFrame DEF Exact
  <1>6. ASSUME NEW cb \in cbs, CallbackEnd(cb) PROVE Exact'
    BY <1>0, <1>6, ExactFrame, CancelFrame, CancelExact DEF CallbackEnd, callVars, Exact
  <1>7. ASSUME NEW o \in Ops, BecomeReady(o) PROVE Exact'
    <2>1. UNCHANGED <<armed, pending, fpc, loc, rep>> /\ sk'.open = sk.open /\ sk'.hup = sk.hup
      BY <1>0, <1>7 DEF BecomeReady, TypeOK, evVars, callVars
    <2> QED
      BY <1>0, <2>1, ExactFrame DEF Exact
  <1>8. ASSUME NEW c \in Calls, FiberStep(c) PROVE Exact'
    <2>1. CASE AddEvent(c)
      <3>1. fpc[c] = "arm" /\ c \notin armed /\ armed \in SUBSET Calls
        BY <1>0, <2>1, ArmedHolds DEF AddEvent, TypeOK
      <3>2. \/ armed' = armed \cup {c} /\ pending' = pending + 1
            \/ armed' = armed /\ pending' = pending
        BY <2>1 DEF AddEvent, evVars
      <3>3. Cardinality(armed \cup {c}) = Cardinality(armed) + 1
        BY <3>1, ArmOne
      <3>4. pending' = Cardinality(armed')
        BY <1>0, <3>2, <3>3 DEF Exact
      <3> QED
        BY <1>0, <1>8, <3>4, CallFrame
    <2>2. CASE ~AddEvent(c)
      <3>1. UNCHANGED <<armed, pending>>
        BY <1>8, <2>2 DEF FiberStep, Try, AddTimer, Resume, Check, SoError, evVars
      <3> QED
        BY <1>0, <1>8, <3>1, CallFrame DEF Exact
    <2> QED
      BY <2>1, <2>2
  <1>9. ASSUME NEW c \in Calls, Expire(c) PROVE Exact'
    <2>1. UNCHANGED <<armed, pending, fpc, rep, sk>> /\ \A d \in Calls : loc'[d].op = loc[d].op
      BY <1>0, <1>9, ExpireLocs DEF Expire, evVars
    <2> QED
      BY <1>0, <2>1, ExactFrame DEF Exact
  <1>10. ASSUME NEW o \in Ops, UserCancel(o) PROVE Exact'
    BY <1>0, <1>10, ExactFrame, CancelFrame, CancelExact DEF UserCancel, callVars, Exact
  <1>11. ASSUME NEW o \in Ops, NEW k \in {"io", "connect"}, Call(o, k) PROVE Exact'
    <2>1. Current = {}
      BY <1>11 DEF Call, Quiet, Mixed
    <2>2. \A d \in Calls : Idle(d)
      BY <2>1, QuietCurrent
    <2>3. PICK c \in Calls : fpc'[c] = "try" /\ \A d \in Calls \ {c} : fpc'[d] = fpc[d]
      BY <1>0, <1>11, CallBegins
    <2>4. UNCHANGED <<armed, pending, rep, sk>>
      BY <1>11 DEF Call, evVars
    <2>5. OneCaller' /\ \A d \in Calls : fpc'[d] \notin Past
      BY <2>2, <2>3 DEF OneCaller, Idle, Past
    <2>6. \A p \in Pollers : ReportFits(p)'
      BY <1>0, <2>4, <2>5 DEF Exact, ReportFits
    <2> QED
      BY <1>0, <2>4, <2>5, <2>6 DEF Exact
  <1>12. ASSUME NEW p \in Pollers, Poll(p) PROVE Exact'
    <2>1. /\ UNCHANGED <<armed, pending, fpc, loc>> /\ sk'.open = sk.open /\ sk'.hup = sk.hup
          /\ \A r \in Pollers \ {p} : rep'[r] = rep[r]
          /\ rep'[p] \cap Ops \subseteq Events /\ ("HUP" \in rep'[p] => sk.hup)
      BY <1>0, <1>12 DEF Poll, TypeOK, evVars, callVars, Ops
    <2>2. \A o \in Events : \E c \in Calls : fpc[c] = "held" /\ loc[c].op = o
      BY <1>0, ArmedHolds DEF Events, TypeOK
    <2>3. \A o \in Events, c \in Calls : ~Idle(c) => loc[c].op = o
      BY <1>0, <2>2 DEF Exact, OneCaller, Idle
    <2>4. \A o, q \in Events : o = q
      BY <2>2, <2>3 DEF Idle
    <2>5. ReportFits(p)'
      BY <2>1, <2>3, <2>4 DEF ReportFits, Idle, Past
    <2>6. \A r \in Pollers \ {p} : ReportFits(r)'
      BY <1>0, <2>1 DEF ReportFits, Exact
    <2> QED
      BY <1>0, <2>1, <2>5, <2>6 DEF Exact, OneCaller, Idle
  <1>13. ASSUME NEW p \in Pollers, Handle(p) PROVE Exact'
    <2> DEFINE real == Real(rep[p])
    <2>1. /\ UNCHANGED <<fpc, loc>> /\ sk'.open = sk.open /\ sk'.hup = sk.hup
          /\ \A r \in Pollers \ {p} : rep'[r] = rep[r]
          /\ rep'[p] = {}
      BY <1>0, <1>13 DEF Handle, Interest, TypeOK, callVars
    <2>2. pending' = Cardinality(armed')
      <3>1. CASE real \cap Events # {} /\ sk.open /\ sk.reg
        <4>1. PICK c \in armed : loc[c].op \in real
          BY <3>1 DEF Events
        <4>2. c \in Calls /\ fpc[c] = "held" /\ loc[c].op \in Events /\ loc[c].op \in Ops
          BY <1>0, <4>1, ArmedHolds DEF TypeOK
        <4>3. ASSUME NEW q \in Ops, q \in rep[p] PROVE q \in Events
          <5>1. CASE "HUP" \in rep[p]
            BY <1>0, <4>2, <4>3, <5>1 DEF Exact, ReportFits, Past
          <5>2. CASE "HUP" \notin rep[p]
            <6>1. loc[c].op \in rep[p]
              BY <4>1, <5>2 DEF Real
            <6> QED
              BY <1>0, <4>2, <4>3, <6>1 DEF Exact, ReportFits
          <5> QED
            BY <5>1, <5>2
        <4>4. real \in SUBSET Events
          BY <4>3 DEF Real
        <4>5. Trigger(real, Cardinality(real))
          BY <1>13, <3>1 DEF Handle
        <4> HIDE DEF real
        <4> QED
          BY <1>0, <4>4, <4>5, DisarmExact DEF Exact
      <3>2. CASE ~(real \cap Events # {} /\ sk.open /\ sk.reg)
        BY <1>0, <1>13, <3>2 DEF Handle, evVars, Exact
      <3> QED
        BY <3>1, <3>2
    <2> HIDE DEF real
    <2>3. \A r \in Pollers : ReportFits(r)'
      BY <1>0, <2>1 DEF ReportFits, Exact
    <2> QED
      BY <1>0, <2>1, <2>2, <2>3 DEF Exact, OneCaller, Idle
  <1> QED
    BY <1>1, <1>2, <1>3, <1>4, <1>5, <1>6, <1>7, <1>8, <1>9, <1>10, <1>11, <1>12, <1>13
    DEF Next, CallbackStep, PollStep

\* No step changes which races a behaviour may have, and none takes a socket back.
LEMMA RacesStay ==
    ASSUME Next, IInv
    PROVE  UNCHANGED races /\ opens' \in Nat /\ opens \in Nat /\ opens <= opens'
  <1>1. ASSUME Open \/ HangUp \/ CloseBegin \/ CloseStep
        PROVE  UNCHANGED races /\ (opens' = opens \/ opens' = opens + 1)
    BY <1>1 DEF Open, HangUp, CloseBegin, CloseStep, CloseDel, CloseFd, fdVars
  <1>2. ASSUME CallbackStep PROVE UNCHANGED <<races, opens>>
    BY <1>2 DEF CallbackStep, CallbackBegin, CallbackEnd, fdVars
  <1>3. ASSUME NEW o \in Ops, BecomeReady(o) \/ UserCancel(o) PROVE UNCHANGED <<races, opens>>
    BY <1>3 DEF BecomeReady, UserCancel, fdVars
  <1>4. ASSUME NEW o \in Ops, NEW k \in {"io", "connect"}, Call(o, k) PROVE UNCHANGED <<races, opens>>
    BY <1>4 DEF Call, fdVars
  <1>5. ASSUME NEW c \in Calls, FiberStep(c) \/ Expire(c) PROVE UNCHANGED <<races, opens>>
    BY <1>5, FiberMove DEF Expire, fdVars
  <1>6. ASSUME NEW p \in Pollers, PollStep(p) PROVE UNCHANGED <<races, opens>>
    BY <1>6 DEF PollStep, Poll, Handle, fdVars
  <1>7. UNCHANGED races /\ (opens' = opens \/ opens' = opens + 1)
    BY <1>1, <1>2, <1>3, <1>4, <1>5, <1>6 DEF Next
  <1>8. opens \in Nat
    BY DEF IInv, TypeOK
  <1> QED
    BY <1>7, <1>8

LEMMA EInductive == EInv /\ [Next]_vars => EInv'
  <1> SUFFICES ASSUME EInv, [Next]_vars PROVE EInv'
    OBVIOUS
  <1>1. IInv'
    BY Inductive DEF EInv
  <1>2. CASE Next
    <2>1. UNCHANGED races /\ opens' \in Nat /\ opens \in Nat /\ opens <= opens'
      BY <1>2, RacesStay DEF EInv
    <2>2. (Quiet' => Quiet) /\ (NoClose' => NoClose)
      BY <2>1 DEF Quiet, Mixed, NoClose
    <2> QED
      BY <1>1, <1>2, <2>2, TableStep, CallersStep, ExactStep DEF EInv
  <1>3. CASE UNCHANGED vars
    <2>1. UNCHANGED <<races, sk, armed, pending, rep, fpc, loc, managed, cpc, aborted, opens>>
      BY <1>3 DEF vars
    <2>2. TableFits' /\ (NoClose' => CallersFit')
      BY <2>1 DEF EInv, TableFits, NoClose, CallersFit, Idle
    <2>3. Quiet' => Exact'
      BY <2>1 DEF EInv, Quiet, Mixed, Exact, OneCaller, ReportFits, Idle
    <2> QED
      BY <1>1, <2>2, <2>3 DEF EInv
  <1> QED
    BY <1>2, <1>3

LEMMA EStarts == Init => EInv
  <1> SUFFICES ASSUME Init PROVE EInv
    OBVIOUS
  <1>1. Cardinality({}) = 0
    BY FS_EmptySet
  <1>2. TableFits /\ CallersFit
    BY DEF Init, TableFits, CallersFit, Idle, Closed
  <1>3. Exact
    BY <1>1 DEF Init, Exact, OneCaller, ReportFits, Idle
  <1> QED
    BY <1>2, <1>3, Starts DEF EInv

\* For any number of pollers and any mix of races.  Unless a descriptor is closed under a
\* call: AddEvent()'s assert holds and no event stays armed on a closed descriptor.
\* _pendingEventNum is the number of armed events but for the cases of Mixed, and never
\* more; the table of managed descriptors agrees with the kernel (hook.cpp, iomanager.cpp,
\* fdmanager.cpp).
THEOREM EventsAreSound == Spec => []EventsSound
  <1>1. EInv => EventsSound
    <2> SUFFICES ASSUME EInv PROVE EventsSound
      OBVIOUS
    <2>1. PendingSound
      <3>1. PendingNeverHigh /\ (Quiet => pending = Cardinality(armed))
        BY DEF EInv, IInv, Exact
      <3> QED
        BY <3>1 DEF PendingSound, Quiet
    <2>2. "close" \notin races /\ ~sk.open => armed = {}
      BY ArmedHolds DEF EInv, NoClose, CallersFit, Idle, IInv, TypeOK
    <2>3. "close" \notin races => ~aborted
      BY DEF EInv, NoClose, CallersFit
    <2>4. sk.open <=> managed \/ cpc = "close"
      BY DEF EInv, TableFits
    <2> QED
      BY <2>1, <2>2, <2>3, <2>4 DEF CloseClean, CloseCancels, AddEventAssert, EventsSound
  <1>2. Spec => []EInv
    BY EStarts, EInductive, PTL DEF Spec
  <1> QED
    BY <1>1, <1>2, PTL
-----------------------------------------------------------------------------
\* The callbacks of timers, and what they know of the call: a callback that still leads
\* to the condition of a call was handed out by a timer of that call.
CallsFit ==
    /\ timer \in [Calls -> BOOLEAN]
    /\ \A cb \in cbs :
          /\ cb \in [call : Calls, op : Ops, st : {"due", "mid"}]
          /\ cb.call <= calls
          /\ ~Idle(cb.call) => loc[cb.call].timed /\ loc[cb.call].expired /\ loc[cb.call].op = cb.op
    /\ \A c \in Calls :
          /\ timer[c] => fpc[c] \in {"arm", "held"} /\ loc[c].timed
          /\ fpc[c] = "timer" => loc[c].timed
          /\ loc[c].cancelled => loc[c].timed /\ loc[c].expired

Settled == ~sk.open \/ sk.hup \/ sk.link = "yes"   \* the connection is made, or never will be
Begun == ~sk.open \/ sk.link # "no"

\* Why connect() is woken: it was reported, or its timer has cancelled it.  A callback
\* that is about to cancel the event finds the connection begun, so that no other
\* connect() follows on this socket.
ConnectFits ==
    /\ sk.ready # {} => sk.link = "yes"
    /\ \A p \in Pollers : rep[p] # {} => Settled
    /\ \A cb \in cbs : cb.st = "mid" =>
          Begun /\ \A c \in Calls : ~Idle(c) /\ loc[c].op = cb.op /\ loc[c].kind = "connect" => loc[c].cancelled
    /\ \A c \in Calls :
          /\ ~Idle(c) /\ (fpc[c] # "try" \/ loc[c].kind = "io" \/ loc[c].expired) => Begun
          /\ (queued[c] > 0 \/ fpc[c] = "check") /\ loc[c].kind = "connect" /\ ~loc[c].cancelled => Settled
          /\ fpc[c] = "soerror" => Settled

Undisturbed == races \cap {"close", "stale", "cancel"} = {}

RInv == EInv /\ CallsFit /\ (Undisturbed => ConnectFits)

\* A step that leaves the calls and their callbacks alone.
LEMMA CallsFrame ==
    ASSUME CallsFit, UNCHANGED <<fpc, loc, calls, timer, cbs>>
    PROVE  CallsFit'
  BY DEF CallsFit, Idle

\* A fiber moves on in its call; it may add or remove its timer, or return.
LEMMA CallsMove ==
    ASSUME IInv, CallsFit, NEW c \in Calls, FiberStep(c),
           timer' \in [Calls -> BOOLEAN], \A d \in Calls \ {c} : timer'[d] = timer[d],
           timer'[c] => fpc'[c] \in {"arm", "held"} /\ loc[c].timed /\ loc' = loc,
           fpc'[c] = "timer" => loc[c].timed
    PROVE  CallsFit'
  <1>0. loc \in [Calls -> Locs]
    BY DEF IInv, TypeOK
  <1>1. /\ ~Idle(c) /\ UNCHANGED <<calls, cbs>>
        /\ \A d \in Calls \ {c} : fpc'[d] = fpc[d] /\ loc'[d] = loc[d]
        /\ loc' = loc \/ (loc' = [loc EXCEPT ![c] = NoCall] /\ fpc'[c] = "idle")
    BY FiberMove
  <1>2. loc'[c] = loc[c] \/ (loc'[c] = NoCall /\ fpc'[c] = "idle")
    BY <1>0, <1>1
  <1>3. ASSUME NEW cb \in cbs
        PROVE  ~Idle(cb.call)' => loc'[cb.call].timed /\ loc'[cb.call].expired /\ loc'[cb.call].op = cb.op
    <2>1. cb.call \in Calls
      BY DEF CallsFit
    <2>2. ~Idle(cb.call)' => ~Idle(cb.call) /\ loc'[cb.call] = loc[cb.call]
      BY <1>1, <1>2, <2>1 DEF Idle
    <2> QED
      BY <2>2 DEF CallsFit
  <1>4. \A d \in Calls : loc'[d].cancelled => loc'[d].timed /\ loc'[d].expired
    BY <1>1, <1>2, NoCallType DEF CallsFit
  <1>5. \A d \in Calls : timer'[d] => fpc'[d] \in {"arm", "held"} /\ loc'[d].timed
    BY <1>1 DEF CallsFit
  <1>6. \A d \in Calls : fpc'[d] = "timer" => loc'[d].timed
    BY <1>1, <1>2 DEF CallsFit
  <1> QED
    BY <1>1, <1>3, <1>4, <1>5, <1>6 DEF CallsFit

LEMMA CallsStep ==
    ASSUME RInv, Next
    PROVE  CallsFit'
  <1>0. IInv /\ TypeOK /\ CallsFit /\ loc \in [Calls -> Locs] /\ timer \in [Calls -> BOOLEAN]
    BY DEF RInv, EInv, IInv, TypeOK, CallsFit
  <1>1. ASSUME Open \/ HangUp \/ CloseBegin \/ CloseStep PROVE CallsFit'
    BY <1>0, <1>1, CallsFrame
    DEF Open, HangUp, CloseBegin, CloseStep, CloseDel, CloseFd, callVars, timerVars
  <1>2. ASSUME NEW cb \in cbs, CallbackBegin(cb) PROVE CallsFit'
    <2>1. cb \in [call : Calls, op : Ops, st : {"due", "mid"}] /\ UNCHANGED <<fpc, calls, timer>>
      BY <1>0, <1>2 DEF CallbackBegin, CallsFit
    <2>2. /\ \A c \in Calls : /\ loc'[c].op = loc[c].op /\ loc'[c].timed = loc[c].timed
                              /\ loc'[c].expired = loc[c].expired
                              /\ c \notin Led(cb) => loc'[c] = loc[c]
      BY <1>0, <1>2, BeginLocs
    <2>3. PICK mid : mid = [cb EXCEPT !.st = "mid"]
      OBVIOUS
    <2>4. mid \in [call : Calls, op : Ops, st : {"due", "mid"}] /\ mid.op = cb.op /\ mid.call = cb.call
      BY <2>1, <2>3
    <2>5. cbs' \subseteq cbs \cup {mid}
      BY <1>2, <2>3 DEF CallbackBegin
    <2>6. \A d \in cbs' : /\ d \in [call : Calls, op : Ops, st : {"due", "mid"}]
                          /\ d.call <= calls
                          /\ ~Idle(d.call) => loc[d.call].timed /\ loc[d.call].expired /\ loc[d.call].op = d.op
      BY <1>0, <2>4, <2>5 DEF CallsFit
    <2>7. \A d \in cbs' : d.call \in Calls
      BY <2>6
    <2>8. \A c \in Led(cb) : loc[c].timed /\ loc[c].expired
      BY <1>0, <1>2 DEF CallsFit, Led
    <2>9. \A c \in Calls : loc'[c].cancelled => loc'[c].timed /\ loc'[c].expired
      BY <1>0, <2>2, <2>8 DEF CallsFit
    <2>10. \A d \in cbs' : ~Idle(d.call)' =>
                loc'[d.call].timed /\ loc'[d.call].expired /\ loc'[d.call].op = d.op
      BY <2>1, <2>2, <2>6, <2>7 DEF Idle
    <2>11. \A c \in Calls : /\ timer[c] => fpc[c] \in {"arm", "held"} /\ loc'[c].timed
                            /\ fpc[c] = "timer" => loc'[c].timed
      BY <1>0, <2>2 DEF CallsFit
    <2> QED
      BY <1>0, <2>1, <2>6, <2>9, <2>10, <2>11 DEF CallsFit
  <1>3. ASSUME NEW cb \in cbs, CallbackEnd(cb) PROVE CallsFit'
    BY <1>0, <1>3 DEF CallbackEnd, callVars, CallsFit, Idle
  <1>4. ASSUME NEW o \in Ops, BecomeReady(o) \/ UserCancel(o) PROVE CallsFit'
    BY <1>0, <1>4, CallsFrame DEF BecomeReady, UserCancel, callVars, timerVars
  <1>5. ASSUME NEW c \in Calls, Try(c) \/ Check(c) \/ SoError(c) PROVE CallsFit'
    <2>1. timer' = timer /\ ~timer[c] /\ FiberStep(c)
      BY <1>0, <1>5 DEF Try, Check, SoError, timerVars, CallsFit, FiberStep
    <2>2. fpc'[c] = "timer" => loc[c].timed
      BY <1>0, <1>5 DEF Try, Check, SoError, Go, Return, TypeOK
    <2> QED
      BY <1>0, <2>1, <2>2, CallsMove
  <1>6. ASSUME NEW c \in Calls, AddTimer(c) PROVE CallsFit'
    <2>1. /\ loc' = loc /\ fpc'[c] = "arm" /\ loc[c].timed /\ FiberStep(c)
          /\ \A d \in Calls \ {c} : timer'[d] = timer[d]
          /\ timer' \in [Calls -> BOOLEAN]
      BY <1>0, <1>6 DEF AddTimer, Go, CallsFit, TypeOK, FiberStep
    <2> QED
      BY <1>0, <2>1, CallsMove
  <1>7. ASSUME NEW c \in Calls, AddEvent(c) PROVE CallsFit'
    <2>1. fpc[c] = "arm" /\ FiberStep(c) /\ fpc \in [Calls -> Places]
      BY <1>0, <1>7 DEF AddEvent, FiberStep, TypeOK, Places
    <2>2. \/ timer' = timer /\ loc' = loc /\ (fpc' = [fpc EXCEPT ![c] = "held"] \/ fpc' = fpc)
          \/ timer' = [timer EXCEPT ![c] = FALSE] /\ fpc' = [fpc EXCEPT ![c] = "idle"]
      BY <1>7 DEF AddEvent, Go, Return, callVars
    <2>3. /\ timer' \in [Calls -> BOOLEAN] /\ \A d \in Calls \ {c} : timer'[d] = timer[d]
          /\ timer'[c] => timer[c] /\ loc' = loc /\ fpc'[c] \in {"arm", "held"}
          /\ fpc'[c] # "timer"
      BY ONLY <1>0, <2>1, <2>2, c \in Calls
    <2>4. timer[c] => loc[c].timed
      BY <1>0 DEF CallsFit
    <2> QED
      BY <1>0, <2>1, <2>3, <2>4, CallsMove
  <1>8. ASSUME NEW c \in Calls, Resume(c) PROVE CallsFit'
    <2>1. /\ FiberStep(c) /\ fpc'[c] = "check" /\ ~timer'[c]
          /\ \A d \in Calls \ {c} : timer'[d] = timer[d]
          /\ timer' \in [Calls -> BOOLEAN]
      BY <1>0, <1>8 DEF Resume, Go, TypeOK, FiberStep
    <2> QED
      BY <1>0, <2>1, CallsMove
  <1>9. ASSUME NEW c \in Calls, Expire(c) PROVE CallsFit'
    <2>1. /\ UNCHANGED <<fpc, calls>> /\ ~Idle(c) /\ loc[c].timed
          /\ cbs' = cbs \cup {[call |-> c, op |-> loc[c].op, st |-> "due"]}
          /\ timer' = [timer EXCEPT ![c] = FALSE]
      BY <1>0, <1>9 DEF Expire, CallsFit, Idle
    <2>2. /\ loc'[c].expired
          /\ \A d \in Calls : /\ loc'[d].op = loc[d].op /\ loc'[d].timed = loc[d].timed
                              /\ loc'[d].cancelled = loc[d].cancelled
                              /\ d # c => loc'[d] = loc[d]
      BY <1>0, <1>9, ExpireLocs
    <2>3. timer' \in [Calls -> BOOLEAN] /\ \A d \in Calls : timer'[d] => timer[d]
      BY <1>0, <2>1
    <2>4. PICK new : new = [call |-> c, op |-> loc[c].op, st |-> "due"]
      OBVIOUS
    <2>5. /\ new \in [call : Calls, op : Ops, st : {"due", "mid"}] /\ new.call = c /\ new.op = loc[c].op
          /\ new.call <= calls
      <3>1. c <= calls
        BY <1>0, <2>1 DEF IInv, Fresh, TypeOK, Calls
      <3>2. loc[c].op \in Ops
        BY <1>0 DEF Locs
      <3> QED
        BY <2>4, <3>1, <3>2
    <2>6. \A d \in cbs' : d \in cbs \/ d = new
      BY <2>1, <2>4
    <2>7. \A d \in cbs' : /\ d \in [call : Calls, op : Ops, st : {"due", "mid"}] /\ d.call <= calls
      BY <1>0, <2>5, <2>6 DEF CallsFit
    <2>8. \A d \in cbs' : ~Idle(d.call) =>
                loc'[d.call].timed /\ loc'[d.call].expired /\ loc'[d.call].op = d.op
      <3>1. ASSUME NEW d \in cbs, ~Idle(d.call)
            PROVE  loc'[d.call].timed /\ loc'[d.call].expired /\ loc'[d.call].op = d.op
        BY <1>0, <2>2, <3>1 DEF CallsFit
      <3>2. loc'[new.call].timed /\ loc'[new.call].expired /\ loc'[new.call].op = new.op
        BY <2>1, <2>2, <2>5
      <3> QED
        BY <2>6, <3>1, <3>2
    <2>9. \A q \in Calls : /\ timer'[q] => fpc[q] \in {"arm", "held"} /\ loc'[q].timed
                           /\ fpc[q] = "timer" => loc'[q].timed
      BY <1>0, <2>2, <2>3 DEF CallsFit
    <2>10. \A q \in Calls : loc'[q].cancelled => loc'[q].timed /\ loc'[q].expired
      BY <1>0, <2>2 DEF CallsFit
    <2> QED
      BY <2>1, <2>3, <2>7, <2>8, <2>9, <2>10 DEF CallsFit, Idle
  <1>10. ASSUME NEW o \in Ops, NEW k \in {"io", "connect"}, Call(o, k) PROVE CallsFit'
    <2>1. PICK c \in Calls : /\ calls' = c /\ Idle(c) /\ calls < c /\ fpc'[c] = "try"
                             /\ ~loc'[c].cancelled
                             /\ \A d \in Calls \ {c} : fpc'[d] = fpc[d] /\ loc'[d] = loc[d]
      BY <1>0, <1>10, CallBegins
    <2>2. UNCHANGED <<timer, cbs>> /\ ~timer[c]
      BY <1>0, <1>10, <2>1 DEF Call, timerVars, CallsFit, Idle
    <2>3. \A d \in cbs : d.call \in Calls /\ d.call <= calls /\ d.call # c
      <3>1. calls \in Nat /\ c \in Nat
        BY <1>0 DEF TypeOK, Calls
      <3>2. \A d \in cbs : d.call \in Calls /\ d.call <= calls
        BY <1>0 DEF CallsFit
      <3> QED
        BY <2>1, <3>1, <3>2 DEF Calls
    <2>4. calls <= calls' /\ calls \in Nat /\ calls' \in Nat
      BY <1>0, <2>1 DEF TypeOK, Calls
    <2>5. \A d \in cbs : d.call <= calls'
      BY <2>3, <2>4 DEF Calls
    <2> QED
      BY <1>0, <2>1, <2>2, <2>3, <2>5 DEF CallsFit, Idle
  <1>11. ASSUME NEW p \in Pollers, PollStep(p) PROVE CallsFit'
    BY <1>0, <1>11, CallsFrame DEF PollStep, Poll, Handle, callVars, timerVars
  <1> QED
    BY <1>1, <1>2, <1>3, <1>4, <1>5, <1>6, <1>7, <1>8, <1>9, <1>10, <1>11
    DEF Next, CallbackStep, FiberStep

\* A step of a call that wakes nobody.
LEMMA ConnectMove ==
    ASSUME IInv, CallsFit, ConnectFits, NEW c \in Calls, FiberStep(c), UNCHANGED cbs,
           Settled => Settled', Begun => Begun', sk'.ready # {} => sk'.link = "yes",
           \A d \in Calls : queued'[d] > 0 => queued[d] > 0,
           fpc'[c] # "idle" =>
              /\ fpc[c] = "try" => Begun'
              /\ fpc'[c] = "check" => queued[c] > 0
              /\ fpc'[c] = "soerror" => fpc[c] = "check" /\ loc[c].kind = "connect" /\ ~loc[c].cancelled
    PROVE  ConnectFits'
  <1>0. loc \in [Calls -> Locs]
    BY DEF IInv, TypeOK
  <1>1. /\ ~Idle(c) /\ rep' = rep
        /\ \A d \in Calls \ {c} : fpc'[d] = fpc[d] /\ loc'[d] = loc[d]
        /\ loc' = loc \/ (loc' = [loc EXCEPT ![c] = NoCall] /\ fpc'[c] = "idle")
    BY FiberMove
  <1>2. loc'[c] = loc[c] \/ (loc'[c].kind = "io" /\ fpc'[c] = "idle")
    BY <1>0, <1>1, NoCallType
  <1>3. \A d \in Calls : ~Idle(d)' => ~Idle(d) /\ loc'[d] = loc[d]
    BY <1>1, <1>2 DEF Idle
  <1>4. /\ sk'.ready # {} => sk'.link = "yes"
        /\ \A p \in Pollers : rep'[p] # {} => Settled'
    BY <1>1 DEF ConnectFits
  <1>5. \A cb \in cbs' : cb.st = "mid" =>
            Begun' /\ \A d \in Calls : ~Idle(d)' /\ loc'[d].op = cb.op /\ loc'[d].kind = "connect"
                                          => loc'[d].cancelled
    BY <1>3 DEF ConnectFits
  <1>6. ASSUME NEW d \in Calls
        PROVE  /\ ~Idle(d)' /\ (fpc'[d] # "try" \/ loc'[d].kind = "io" \/ loc'[d].expired) => Begun'
               /\ (queued'[d] > 0 \/ fpc'[d] = "check") /\ loc'[d].kind = "connect" /\ ~loc'[d].cancelled
                     => Settled'
               /\ fpc'[d] = "soerror" => Settled'
    <2>1. CASE d # c
      BY <1>1, <2>1 DEF ConnectFits, Idle
    <2>2. CASE d = c /\ fpc'[c] = "idle"
      BY <1>2, <2>2 DEF ConnectFits, Idle
    <2>3. CASE d = c /\ fpc'[c] # "idle"
      BY <1>1, <1>2, <2>3 DEF ConnectFits, Idle
    <2> QED
      BY <2>1, <2>2, <2>3
  <1> QED
    BY <1>4, <1>5, <1>6 DEF ConnectFits

\* A step that leaves the calls, the reports and the run queue alone.
LEMMA ConnectFrame ==
    ASSUME ConnectFits, UNCHANGED <<fpc, loc, rep, queued, cbs>>,
           Settled => Settled', Begun => Begun', sk'.ready # {} => sk'.link = "yes"
    PROVE  ConnectFits'
  BY DEF ConnectFits, Idle

LEMMA ConnectStep ==
    ASSUME RInv, Next, Undisturbed
    PROVE  ConnectFits'
  <1>0. /\ ConnectFits /\ IInv /\ TypeOK /\ CallsFit /\ CallersFit /\ TableFits
        /\ "close" \notin races /\ "stale" \notin races /\ "cancel" \notin races
        /\ loc \in [Calls -> Locs] /\ \A c \in Calls : queued[c] \in Nat
    BY DEF RInv, EInv, IInv, TypeOK, Undisturbed, NoClose
  <1>1. ASSUME Open PROVE ConnectFits'
    <2>1. /\ UNCHANGED <<fpc, loc, queued, rep, cbs>> /\ sk'.ready = {}
          /\ (\A p \in Pollers : rep[p] = {}) /\ (\A cb \in cbs : cb.st = "due")
      BY <1>0, <1>1 DEF Open, callVars, evVars, timerVars, Closed
    <2>2. \A c \in Calls : Idle(c)
      BY <1>0, <1>1 DEF Open, CallersFit
    <2>3. \A c \in Calls : ~(queued[c] > 0)
      BY <1>0, <2>2 DEF IInv, ArmedOrQueuedOnce, Idle
    <2> QED
      BY <2>1, <2>2, <2>3 DEF ConnectFits, Idle
  <1>2. ASSUME HangUp PROVE ConnectFits'
    <2>1. UNCHANGED <<fpc, loc, queued, rep, cbs>> /\ sk'.hup /\ sk'.link = sk.link /\ sk'.open = sk.open
          /\ sk'.ready = sk.ready
      BY <1>0, <1>2 DEF HangUp, TypeOK, callVars, evVars, timerVars
    <2>2. sk'.ready # {} => sk'.link = "yes"
      BY <1>0, <2>1 DEF ConnectFits
    <2> QED
      BY <1>0, <2>1, <2>2, ConnectFrame DEF Settled, Begun
  <1>3. ASSUME CloseBegin PROVE ConnectFits'
    <2>1. \A c \in Calls : Idle(c) /\ c \notin armed
      BY <1>0, <1>3, ArmedHolds DEF CloseBegin
    <2>2. Events = {}
      BY <1>0, <2>1 DEF Events, TypeOK
    <2>3. UNCHANGED <<fpc, loc, queued, rep, cbs, sk>>
      BY <1>3, <2>2 DEF CloseBegin, Cancel, callVars, evVars, timerVars
    <2> QED
      BY <1>0, <2>3, ConnectFrame DEF Settled, Begun, ConnectFits
  <1>4. ASSUME CloseStep PROVE ConnectFits'
    <2>1. UNCHANGED <<fpc, loc, queued, rep, cbs>> /\ (sk' = sk \/ (~sk'.open /\ sk'.ready = {}))
      BY <1>4 DEF CloseStep, CloseDel, CloseFd, Closed, callVars, evVars, timerVars
    <2> QED
      BY <1>0, <2>1, ConnectFrame DEF ConnectFits, Settled, Begun
  <1>5. ASSUME NEW cb \in cbs, CallbackBegin(cb) PROVE ConnectFits'
    <2>1. UNCHANGED <<fpc, sk, rep, queued>> /\ cb.call \in Calls /\ cb.op \in Ops
      BY <1>0, <1>5 DEF CallbackBegin, evVars, CallsFit
    <2>2. \A c \in Calls : /\ loc'[c].op = loc[c].op /\ loc'[c].kind = loc[c].kind
                           /\ loc'[c].expired = loc[c].expired /\ (loc[c].cancelled => loc'[c].cancelled)
      BY <1>0, <1>5, BeginLocs
    <2>3. CASE cbs' \subseteq cbs
      BY <1>0, <2>1, <2>2, <2>3 DEF ConnectFits, Settled, Begun, Idle
    <2>4. ASSUME NEW c \in Led(cb), loc' = [loc EXCEPT ![c].cancelled = TRUE],
                 cbs' = (cbs \ {cb}) \cup {[cb EXCEPT !.st = "mid"]}
          PROVE  ConnectFits'
      <3>1. c = cb.call /\ c \in Calls /\ ~Idle(c) /\ loc[c].expired /\ loc[c].op = cb.op
        BY <1>0, <2>1 DEF Led, CallsFit
      <3>2. Begun
        BY <1>0, <3>1 DEF ConnectFits
      <3>3. PICK l : l = [loc[c] EXCEPT !.cancelled = TRUE]
        OBVIOUS
      <3>4. l.cancelled
        BY <1>0, <3>1, <3>3 DEF Locs
      <3>5. loc'[c].cancelled
        BY <1>0, <2>4, <3>1, <3>3, <3>4
      <3>6. \A d \in Calls : ~Idle(d) /\ loc[d].op = cb.op => d = c
        BY <1>0, <3>1 DEF CallersFit
      <3>7. PICK mid : mid = [cb EXCEPT !.st = "mid"]
        OBVIOUS
      <3>8. mid.op = cb.op
        <4>1. cb \in [call : Calls, op : Ops, st : {"due", "mid"}]
          BY <1>0 DEF CallsFit
        <4> QED
          BY <3>7, <4>1
      <3>9. \A b \in cbs' : b \in cbs \/ b = mid
        BY <2>4, <3>7
      <3>10. \A b \in cbs' : b.st = "mid" =>
                Begun' /\ \A d \in Calls : ~Idle(d)' /\ loc'[d].op = b.op /\ loc'[d].kind = "connect"
                                              => loc'[d].cancelled
        <4>1. Begun' /\ \A d \in Calls : Idle(d)' = Idle(d)
          BY <2>1, <3>2 DEF Begun, Idle
        <4>2. \A d \in Calls : ~Idle(d) /\ loc'[d].op = mid.op => loc'[d].cancelled
          BY <2>2, <3>5, <3>6, <3>8
        <4>3. ASSUME NEW b \in cbs, b.st = "mid", NEW d \in Calls, ~Idle(d), loc'[d].op = b.op,
                     loc'[d].kind = "connect"
              PROVE  loc'[d].cancelled
          BY <1>0, <2>2, <4>3 DEF ConnectFits
        <4> QED
          BY <3>9, <4>1, <4>2, <4>3
      <3> QED
        BY <1>0, <2>1, <2>2, <3>10 DEF ConnectFits, Settled, Begun, Idle
    <2> QED
      BY <1>5, <2>3, <2>4 DEF CallbackBegin
  <1>6. ASSUME NEW cb \in cbs, CallbackEnd(cb) PROVE ConnectFits'
    <2>1. cb.st = "mid" /\ UNCHANGED <<fpc, loc, rep>> /\ cbs' = cbs \ {cb} /\ Cancel({cb.op})
      BY <1>6 DEF CallbackEnd, callVars
    <2>2. sk'.open = sk.open /\ sk'.hup = sk.hup /\ sk'.link = sk.link /\ sk'.ready = sk.ready
      BY <1>0, <2>1 DEF Cancel, Interest, TypeOK
    <2>3. \A c \in Calls : ~Idle(c) /\ loc[c].op = cb.op /\ loc[c].kind = "connect" => loc[c].cancelled
      BY <1>0, <2>1 DEF ConnectFits
    <2>4. ASSUME NEW c \in Calls PROVE queued'[c] = queued[c] \/ (~Idle(c) /\ loc[c].op = cb.op)
      <3>1. CASE UNCHANGED queued
        BY <3>1
      <3>2. ASSUME NEW n, Trigger(Events \cap {cb.op}, n)
            PROVE  queued'[c] = queued[c] \/ (~Idle(c) /\ loc[c].op = cb.op)
        BY <1>0, <3>2, ArmedHolds DEF Trigger, Waiting
      <3> QED
        BY <2>1, <3>1, <3>2 DEF Cancel, evVars
    <2> QED
      BY <1>0, <2>1, <2>2, <2>3, <2>4 DEF ConnectFits, Settled, Begun, Idle
  <1>7. ASSUME NEW o \in Ops, BecomeReady(o) PROVE ConnectFits'
    <2>1. UNCHANGED <<fpc, loc, queued, rep, cbs>> /\ sk'.link = "yes"
      BY <1>0, <1>7 DEF BecomeReady, TypeOK, callVars, evVars, timerVars
    <2> QED
      BY <1>0, <2>1, ConnectFrame DEF Settled, Begun
  <1>8. ASSUME NEW c \in Calls, Try(c) PROVE ConnectFits'
    <2>1. UNCHANGED <<cbs, queued>> /\ ~Idle(c) /\ fpc[c] = "try" /\ FiberStep(c)
      BY <1>8 DEF Try, timerVars, evVars, Idle, FiberStep
    <2>2. sk'.open = sk.open /\ sk'.hup = sk.hup /\ (sk.link # "no" => sk'.link = sk.link)
          /\ sk'.ready \subseteq sk.ready
      BY <1>0, <1>8 DEF Try, TypeOK
    <2>3. (Settled => Settled') /\ (Begun => Begun') /\ (sk'.ready # {} => sk'.link = "yes")
      BY <1>0, <2>2 DEF Settled, Begun, ConnectFits
    <2>4. fpc'[c] # "idle" => Begun'
      <3>1. CASE loc[c].kind = "io"
        BY <1>0, <2>1, <2>3, <3>1 DEF ConnectFits
      <3>2. CASE loc[c].kind = "connect"
        BY <1>0, <1>8, <3>2 DEF Try, Go, Return, TypeOK, Begun
      <3> QED
        BY <1>0, <3>1, <3>2 DEF Locs
    <2>5. fpc'[c] \in {"idle", "timer", "arm"}
      BY <1>0, <1>8 DEF Try, Go, Return, TypeOK
    <2> QED
      BY <1>0, <2>1, <2>3, <2>4, <2>5, ConnectMove
  <1>9. ASSUME NEW c \in Calls, AddTimer(c) \/ AddEvent(c) \/ Resume(c) \/ Check(c) \/ SoError(c)
        PROVE  ConnectFits'
    <2>1. UNCHANGED cbs /\ fpc[c] # "try" /\ FiberStep(c)
      BY <1>9 DEF AddTimer, AddEvent, Resume, Check, SoError, timerVars, FiberStep
    <2>2. sk'.open = sk.open /\ sk'.hup = sk.hup /\ sk'.link = sk.link /\ sk'.ready = sk.ready
      BY <1>0, <1>9 DEF AddTimer, AddEvent, Resume, Check, SoError, Interest, TypeOK
    <2>3. (Settled => Settled') /\ (Begun => Begun') /\ (sk'.ready # {} => sk'.link = "yes")
      BY <1>0, <2>2 DEF Settled, Begun, ConnectFits
    <2>4. \A d \in Calls : queued'[d] > 0 => queued[d] > 0
      BY <1>0, <1>9 DEF AddTimer, AddEvent, Resume, Check, SoError, evVars, TypeOK
    <2>5. fpc'[c] = "check" => queued[c] > 0
      BY <1>0, <1>9 DEF AddTimer, AddEvent, Resume, Check, SoError, Go, Return, callVars, TypeOK
    <2>6. fpc'[c] = "soerror" => fpc[c] = "check" /\ loc[c].kind = "connect" /\ ~loc[c].cancelled
      <3>1. loc[c].kind \in {"io", "connect"}
        BY <1>0 DEF Locs
      <3> QED
        BY <1>0, <1>9, <3>1 DEF AddTimer, AddEvent, Resume, Check, SoError, Go, Return, callVars, TypeOK
    <2> QED
      BY <1>0, <2>1, <2>3, <2>4, <2>5, <2>6, ConnectMove
  <1>10. ASSUME NEW c \in Calls, Expire(c) PROVE ConnectFits'
    <2>1. /\ UNCHANGED <<fpc, sk, rep, queued>>
          /\ cbs' = cbs \cup {[call |-> c, op |-> loc[c].op, st |-> "due"]}
          /\ fpc[c] \in {"arm", "held"}
      BY <1>0, <1>10 DEF Expire, evVars, CallsFit
    <2>2. \A d \in Calls : /\ loc'[d].kind = loc[d].kind /\ loc'[d].cancelled = loc[d].cancelled
                           /\ loc'[d].op = loc[d].op
                           /\ d # c => loc'[d] = loc[d]
      BY <1>0, <1>10, ExpireLocs
    <2>3. \A cb \in cbs' : cb.st = "mid" => cb \in cbs
      BY <2>1
    <2> QED
      BY <1>0, <2>1, <2>2, <2>3 DEF ConnectFits, Settled, Begun, Idle
  <1>11. ASSUME NEW o \in Ops, UserCancel(o) PROVE ConnectFits'
    BY <1>0, <1>11 DEF UserCancel
  <1>12. ASSUME NEW o \in Ops, NEW k \in {"io", "connect"}, Call(o, k) PROVE ConnectFits'
    <2>1. PICK c \in Calls : /\ Idle(c) /\ fpc'[c] = "try" /\ loc'[c].kind = k /\ ~loc'[c].expired
                             /\ \A d \in Calls \ {c} : fpc'[d] = fpc[d] /\ loc'[d] = loc[d]
      BY <1>0, <1>12, CallBegins
    <2>2. /\ UNCHANGED <<sk, rep, queued, cbs>> /\ managed
          /\ k = "connect" => sk.link = "no"
          /\ k = "io" => sk.link = "yes"
      BY <1>12 DEF Call, evVars, timerVars
    <2>3. ~(queued[c] > 0)
      BY <1>0, <2>1 DEF IInv, ArmedOrQueuedOnce, Idle
    <2>4. sk.open
      BY <1>0, <2>2 DEF TableFits
    <2>5. (k = "connect" => ~Begun) /\ (k = "io" => Begun)
      BY <2>2, <2>4 DEF Begun
    <2>6. \A cb \in cbs : cb.st = "mid" => k # "connect"
      BY <1>0, <2>5 DEF ConnectFits
    <2>7. (Settled' <=> Settled) /\ (Begun' <=> Begun)
      BY <2>2 DEF Settled, Begun
    <2>8. /\ sk'.ready # {} => sk'.link = "yes"
          /\ \A p \in Pollers : rep'[p] # {} => Settled'
      BY <1>0, <2>2, <2>7 DEF ConnectFits
    <2>9. \A cb \in cbs' : cb.st = "mid" =>
             Begun' /\ \A d \in Calls : ~Idle(d)' /\ loc'[d].op = cb.op /\ loc'[d].kind = "connect"
                                           => loc'[d].cancelled
      BY <1>0, <2>1, <2>2, <2>6, <2>7 DEF ConnectFits, Idle
    <2>10. ASSUME NEW d \in Calls
           PROVE  /\ ~Idle(d)' /\ (fpc'[d] # "try" \/ loc'[d].kind = "io" \/ loc'[d].expired) => Begun'
                  /\ (queued'[d] > 0 \/ fpc'[d] = "check") /\ loc'[d].kind = "connect" /\ ~loc'[d].cancelled
                        => Settled'
                  /\ fpc'[d] = "soerror" => Settled'
      <3>1. CASE d # c
        BY <1>0, <2>1, <2>2, <2>7, <3>1 DEF ConnectFits, Idle
      <3>2. CASE d = c
        BY <2>1, <2>2, <2>3, <2>5, <2>7, <3>2
      <3> QED
        BY <3>1, <3>2
    <2> QED
      BY <2>8, <2>9, <2>10 DEF ConnectFits
  <1>13. ASSUME NEW p \in Pollers, Poll(p) PROVE ConnectFits'
    <2>1. /\ UNCHANGED <<fpc, loc, queued, cbs>>
          /\ sk'.open = sk.open /\ sk'.hup = sk.hup /\ sk'.link = sk.link /\ sk'.ready = sk.ready
          /\ \A r \in Pollers \ {p} : rep'[r] = rep[r]
          /\ sk.ready # {} \/ sk.hup
      BY <1>0, <1>13 DEF Poll, TypeOK, callVars, evVars, timerVars
    <2>2. Settled
      BY <1>0, <2>1 DEF ConnectFits, Settled
    <2> QED
      BY <1>0, <2>1, <2>2 DEF ConnectFits, Settled, Begun, Idle
  <1>14. ASSUME NEW p \in Pollers, Handle(p) PROVE ConnectFits'
    <2>1. /\ UNCHANGED <<fpc, loc, cbs>> /\ rep[p] # {}
          /\ sk'.open = sk.open /\ sk'.hup = sk.hup /\ sk'.link = sk.link /\ sk'.ready = sk.ready
          /\ \A r \in Pollers : rep'[r] # {} => rep[r] # {}
      BY <1>0, <1>14 DEF Handle, Interest, TypeOK, callVars, timerVars
    <2>2. Settled
      BY <1>0, <2>1 DEF ConnectFits
    <2> QED
      BY <1>0, <2>1, <2>2 DEF ConnectFits, Settled, Begun, Idle
  <1> QED
    BY <1>1, <1>2, <1>3, <1>4, <1>5, <1>6, <1>7, <1>8, <1>9, <1>10, <1>11, <1>12, <1>13, <1>14
    DEF Next, CallbackStep, FiberStep, PollStep

LEMMA RInductive == RInv /\ [Next]_vars => RInv'
  <1> SUFFICES ASSUME RInv, [Next]_vars PROVE RInv'
    OBVIOUS
  <1>1. EInv'
    BY EInductive DEF RInv
  <1>2. CASE Next
    <2>1. Undisturbed' => Undisturbed
      BY <1>2, RacesStay DEF Undisturbed, RInv, EInv
    <2> QED
      BY <1>1, <1>2, <2>1, CallsStep, ConnectStep DEF RInv
  <1>3. CASE UNCHANGED vars
    <2>1. UNCHANGED <<races, sk, queued, rep, fpc, loc, calls, timer, cbs>>
      BY <1>3 DEF vars
    <2>2. CallsFit'
      BY <2>1, CallsFrame DEF RInv
    <2>3. Undisturbed' => ConnectFits'
      BY <2>1 DEF RInv, Undisturbed, ConnectFits, Settled, Begun, Idle
    <2> QED
      BY <1>1, <2>2, <2>3 DEF RInv
  <1> QED
    BY <1>2, <1>3

LEMMA RStarts == Init => RInv
  <1> SUFFICES ASSUME Init PROVE RInv
    OBVIOUS
  <1>1. CallsFit
    BY NoCallType DEF Init, CallsFit
  <1>2. ConnectFits
    BY NoCallType DEF Init, ConnectFits, Idle, Closed
  <1> QED
    BY <1>1, <1>2, EStarts DEF RInv

\* Only the steps of calls move fibers.
LEMMA OnlyCallsMove ==
    ASSUME Next, fpc' # fpc
    PROVE  \/ \E c \in Calls : FiberStep(c)
           \/ \E o \in Ops, k \in {"io", "connect"} : Call(o, k)
  <1>1. ~(Open \/ HangUp \/ CloseBegin \/ CloseStep)
    BY DEF Open, HangUp, CloseBegin, CloseStep, CloseDel, CloseFd, callVars
  <1>2. ~CallbackStep
    BY DEF CallbackStep, CallbackBegin, CallbackEnd, callVars
  <1>3. \A o \in Ops : ~(BecomeReady(o) \/ UserCancel(o))
    BY DEF BecomeReady, UserCancel, callVars
  <1>5. \A c \in Calls : ~Expire(c)
    BY DEF Expire
  <1>4. \A p \in Pollers : ~PollStep(p)
    BY DEF PollStep, Poll, Handle, callVars
  <1> QED
    BY <1>1, <1>2, <1>3, <1>4, <1>5 DEF Next

\* For any number of pollers: a call returns ETIMEDOUT only when one of its own timers has
\* expired, with every race; connect() returns 0 only when connected, unless the descriptor
\* is closed, reused or cancelled under it (do_io and connect_with_timeout in hook.cpp).
THEOREM ResultsAreHonest == Spec => ResultsHonest
  <1> DEFINE Honest == \A c \in Calls :
         /\ fpc[c] = "check" /\ fpc'[c] = "idle" => loc[c].timed /\ loc[c].expired
         /\ fpc[c] = "soerror" /\ fpc'[c] = "idle" /\ sk.open /\ ~sk.hup
               => sk.link = "yes" \/ races \cap {"close", "stale", "cancel"} # {}
  <1>1. ASSUME RInv, Next PROVE Honest
    <2> USE DEF RInv, EInv
    <2>1. ASSUME NEW c \in Calls, fpc[c] = "check", fpc'[c] = "idle"
          PROVE  loc[c].timed /\ loc[c].expired
      <3>1. fpc' # fpc /\ IInv /\ TypeOK
        BY <1>1, <2>1 DEF IInv
      <3>2. ASSUME NEW o \in Ops, NEW k \in {"io", "connect"}, Call(o, k) PROVE FALSE
        <4>1. PICK d \in Calls : fpc'[d] = "try" /\ \A q \in Calls \ {d} : fpc'[q] = fpc[q]
          BY <3>1, <3>2, CallBegins
        <4> QED
          BY <2>1, <4>1
      <3>3. PICK d \in Calls : FiberStep(d)
        BY <1>1, <3>1, <3>2, OnlyCallsMove
      <3>4. d = c
        BY <2>1, <3>1, <3>3, FiberMove
      <3>5. Check(c)
        BY <2>1, <3>3, <3>4 DEF FiberStep, Try, AddTimer, AddEvent, Resume, SoError
      <3>6. loc[c].cancelled
        BY <2>1, <3>1, <3>5 DEF Check, Go, TypeOK
      <3> QED
        BY <1>1, <3>6 DEF CallsFit
    <2>2. ASSUME NEW c \in Calls, fpc[c] = "soerror", sk.open, ~sk.hup
          PROVE  sk.link = "yes" \/ races \cap {"close", "stale", "cancel"} # {}
      BY <1>1, <2>2 DEF Undisturbed, ConnectFits, Settled
    <2> QED
      BY <2>1, <2>2
  <1>2. ASSUME UNCHANGED vars PROVE Honest
    BY <1>2 DEF vars
  <1>3. RInv /\ [Next]_vars => [Honest]_vars
    BY <1>1, <1>2
  <1>4. Spec => []RInv
    BY RStarts, RInductive, PTL DEF Spec
  <1>5. Spec => [][Honest]_vars
    BY <1>3, <1>4, PTL DEF Spec
  <1> QED
    BY <1>5 DEF ResultsHonest
===============================================================================
