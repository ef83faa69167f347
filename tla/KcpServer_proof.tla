---------------------------- MODULE KcpServer_proof ----------------------------
(***************************************************************************)
(* Proofs about KcpServer, for any finite sets of clients, sockets and     *)
(* sessions and any limits: the maps of the listener hold the open         *)
(* sessions and no other, but for an address that got a second session     *)
(* after Close(), the limits are overshot by the other receive loops at    *)
(* most, and a read that times out has a reason.                           *)
(***************************************************************************)
EXTENDS KcpServer, QueueLemmas

-----------------------------------------------------------------------------
(***************************************************************************)
(* The inductive invariant.  That a new session displaces no open one      *)
(* needs that the packets of an address come to one receive loop, and that *)
(* the loop's look into the map is still right when it writes to it; the   *)
(* limits need the loops that have passed their test to be counted; and    *)
(* that a timeout is honest needs to know what becomes of the callbacks of *)
(* earlier reads.                                                          *)
(***************************************************************************)

ReaderAt == {"none", "start", "test", "gap", "missed", "waiting", "asleep", "reply", "force",
             "ending", "waitsender", "close", "done"}
SenderAt == {"none", "queued", "test", "gap", "missed", "waiting", "asleep", "write", "close", "done"}
Session ==
    [addr : Clients \cup {None}, cl : {"none", "open", "closing", "closed"},
     closer : Closers \cup {None}, ready : Nat,
     bClose : BOOLEAN, bReadError : BOOLEAN, bWriteError : BOOLEAN, bReadTimeout : BOOLEAN,
     sendq : Seq({"msg", "stop"}), tmp : Seq({"msg", "stop"}), sem : Nat,
     reader : ReaderAt, sender : SenderAt,
     armed : BOOLEAN, queued : Nat, expired : BOOLEAN, raced : BOOLEAN]

Loops == [pc : {"recv", "count", "create", "push", "close", "exit"},
          from : Clients \cup {None}, sess : Sids \cup {None}]

TypeOK ==
    /\ scenario \in Scenarios
    /\ sessions \in [Keys -> [Clients -> Sids \cup {None}]]
    /\ lis \in [bClose : BOOLEAN, bReadError : BOOLEAN, twice : SUBSET Clients]
    /\ backlog \in Seq(Sids)
    /\ recv \in [Channels -> Loops]
    /\ ss \in [Sids -> Session]

\* The maps hold the open sessions, each once under its address, but for the addresses that
\* got a second session; and there is nothing under -1 before Close().
MapFits ==
    /\ \A k \in Keys, c \in Clients : sessions[k][c] # None =>
          /\ ss[sessions[k][c]].addr = c /\ ss[sessions[k][c]].cl # "none"
          /\ c \notin lis.twice => ss[sessions[k][c]].cl = "open"
    /\ \A s \in Sids : ss[s].cl = "open" =>
          /\ ss[s].addr \in Clients
          /\ ss[s].addr \notin lis.twice => \E k \in Keys : sessions[k][ss[s].addr] = s
    /\ \A c \in Clients : c \notin lis.twice => sessions["own"][c] = None \/ sessions["-1"][c] = None
    /\ ~lis.bClose => lis.twice = {} /\ \A c \in Clients : sessions["-1"][c] = None

\* A loop that is about to make a session is the one that gets the packets of its address,
\* which has no session in the map that it would be put into.
LoopsFit ==
    \A ch \in Channels : recv[ch].pc \in {"count", "create"} =>
        /\ recv[ch].from \in Clients
        /\ scenario.channelOf[recv[ch].from] = ch
        /\ sessions[Key][recv[ch].from] = None

\* A session is with one owner at a time, and with none before it is made.
Pushing == {ch \in Channels : recv[ch].pc = "push"}
Pushed == {recv[ch].sess : ch \in Pushing}
Read == {s \in Sids : ss[s].reader # "none"}
Made == {s \in Sids : ss[s].cl # "none"}
OwnersFit ==
    /\ IsInjective(backlog)
    /\ \A ch1, ch2 \in Pushing : recv[ch1].sess = recv[ch2].sess => ch1 = ch2
    /\ Pushed \cap ToSet(backlog) = {} /\ Pushed \cap Read = {} /\ ToSet(backlog) \cap Read = {}
    /\ Made = Pushed \cup ToSet(backlog) \cup Read

\* The receive loops that are past the test of a limit, and how far they can go.
Loop == Range(scenario.channelOf)
Creating == {ch \in Channels : recv[ch].pc = "create"}
Taking == {ch \in Channels : recv[ch].pc \in {"count", "create", "push"}}
LimitsFit ==
    /\ Taking \subseteq Loop
    /\ Live + Cardinality(Creating) <= MaxConn + Cardinality(Loop) - 1
    /\ Len(backlog) + Cardinality(Taking) <= Backlog + Cardinality(Loop) - 1

\* The timer of a read and its callbacks, by where the reader is: after a return what is
\* left is of that read, and the next one knows.
TimeFits(r) ==
    /\ r.reader \in {"none", "start"} => ~r.armed /\ r.queued = 0 /\ ~r.bReadTimeout
    /\ r.reader = "reply" => ~r.armed /\ (r.bReadTimeout \/ r.queued > 0 => r.raced)
    /\ r.reader \in {"test", "gap", "missed", "waiting", "asleep"} =>
          (r.bReadTimeout \/ r.queued > 0 => r.expired \/ r.raced)

IInv ==
    /\ TypeOK /\ MapFits /\ LoopsFit /\ OwnersFit /\ LimitsFit
    /\ \A s \in Sids : TimeFits(ss[s])
-----------------------------------------------------------------------------
(***************************************************************************)
(* What the operations on a session change.                                *)
(***************************************************************************)

\* t is r after an operation that leaves its owner, its address and its timer alone.
SameCore(r, t) ==
    /\ t \in Session
    /\ (t.cl = "open" <=> r.cl = "open") /\ (t.cl = "none" <=> r.cl = "none")
    /\ t.addr = r.addr /\ (t.reader = "none" <=> r.reader = "none")
    /\ TimeFits(r) => TimeFits(t)

\* The core of a session is what these fields hold.
Core(r, t) ==
    /\ t.cl = r.cl /\ t.addr = r.addr /\ t.reader = r.reader /\ t.armed = r.armed
    /\ t.queued = r.queued /\ t.bReadTimeout = r.bReadTimeout /\ t.raced = r.raced
    /\ t.expired = r.expired

LEMMA CoreFits ==
    ASSUME NEW r, NEW t \in Session, Core(r, t)
    PROVE  SameCore(r, t)
BY DEF Core, SameCore, TimeFits
\* A signal does not take a fiber out of its wait for a message.
LEMMA WokenFits ==
    /\ \A l \in ReaderAt : /\ Woken(l) \in ReaderAt
                           /\ Woken(l) # l => /\ l \in {"gap", "waiting", "asleep"}
                                              /\ Woken(l) \in {"test", "missed"}
    /\ \A l \in SenderAt : Woken(l) \in SenderAt
BY DEF Woken, ReaderAt, SenderAt

LEMMA SignalFits ==
    ASSUME NEW r \in Session
    PROVE  SameCore(r, SignalRead(r)) /\ SameCore(r, SignalSend(r))
<1>1. r.reader \in ReaderAt /\ r.sender \in SenderAt
  BY DEF Session
<1>2. SignalRead(r) = [r EXCEPT !.reader = Woken(r.reader)]
  BY DEF SignalRead
<1>3. SignalSend(r) = [r EXCEPT !.sender = Woken(r.sender)]
  BY DEF SignalSend
<1>4. ASSUME NEW l \in ReaderAt, NEW t, t = [r EXCEPT !.reader = l], l = Woken(r.reader)
      PROVE  SameCore(r, t)
  <2>1. t \in Session
    BY <1>4 DEF Session
  <2>2. /\ t.cl = r.cl /\ t.addr = r.addr /\ t.reader = l /\ t.armed = r.armed /\ t.queued = r.queued
        /\ t.bReadTimeout = r.bReadTimeout /\ t.raced = r.raced /\ t.expired = r.expired
    BY <1>4 DEF Session
  <2>3. \/ l = r.reader
        \/ r.reader \in {"gap", "waiting", "asleep"} /\ l \in {"test", "missed"}
    BY <1>4, <1>1, WokenFits
  <2> QED
    BY <2>1, <2>2, <2>3 DEF SameCore, TimeFits
<1>5. ASSUME NEW l \in SenderAt, NEW t, t = [r EXCEPT !.sender = l]
      PROVE  SameCore(r, t)
  <2>1. t \in Session
    BY <1>5 DEF Session
  <2>2. /\ t.cl = r.cl /\ t.addr = r.addr /\ t.reader = r.reader /\ t.armed = r.armed
        /\ t.queued = r.queued /\ t.bReadTimeout = r.bReadTimeout /\ t.raced = r.raced
        /\ t.expired = r.expired
    BY <1>5 DEF Session
  <2> QED
    BY <2>1, <2>2 DEF SameCore, TimeFits
<1> QED
  BY <1>1, <1>2, <1>3, <1>4, <1>5, WokenFits

LEMMA SameTrans ==
    ASSUME NEW r, NEW t, NEW u, SameCore(r, t), SameCore(t, u)
    PROVE  SameCore(r, u)
BY DEF SameCore

LEMMA NotifyFits ==
    ASSUME NEW r \in Session
    PROVE  SameCore(r, NotifyReadError(r)) /\ SameCore(r, NotifyWriteError(r))
<1>1. SameCore(r, r)
  BY DEF SameCore
<1>2. ASSUME NEW t, t = [r EXCEPT !.bReadError = TRUE] \/ t = [r EXCEPT !.bWriteError = TRUE]
      PROVE  SameCore(r, t)
  <2>1. t \in Session
    <3>1. CASE t = [r EXCEPT !.bReadError = TRUE]
      BY <3>1 DEF Session
    <3>2. CASE t = [r EXCEPT !.bWriteError = TRUE]
      BY <3>2 DEF Session
    <3> QED
      BY <1>2, <3>1, <3>2
  <2>2. Core(r, t)
    <3>1. CASE t = [r EXCEPT !.bReadError = TRUE]
      BY <3>1 DEF Session, Core
    <3>2. CASE t = [r EXCEPT !.bWriteError = TRUE]
      BY <3>2 DEF Session, Core
    <3> QED
      BY <1>2, <3>1, <3>2
  <2> QED
    BY <2>1, <2>2, CoreFits
<1>3. ASSUME NEW t, SameCore(r, t)
      PROVE  SameCore(r, SignalSend(SignalRead(t)))
  <2>1. t \in Session
    BY <1>3 DEF SameCore
  <2>2. SameCore(t, SignalRead(t)) /\ SignalRead(t) \in Session
    BY <2>1, SignalFits DEF SameCore
  <2>3. SameCore(SignalRead(t), SignalSend(SignalRead(t)))
    BY <2>2, SignalFits
  <2>4. SameCore(r, SignalRead(t))
    BY <1>3, <2>2, SameTrans
  <2> QED
    BY <2>3, <2>4, SameTrans
<1> QED
  BY <1>1, <1>2, <1>3 DEF NotifyReadError, NotifyWriteError

LEMMA QueuedFits ==
    ASSUME NEW r \in Session, NEW m \in {"msg", "stop"}
    PROVE  SameCore(r, Queued(r, m)) /\ Queued(r, m) \in Session
<1> DEFINE t == [r EXCEPT !.sendq = Append(r.sendq, m)]
<1>1. Append(r.sendq, m) \in Seq({"msg", "stop"})
  BY DEF Session
<1>2. t \in Session
  BY <1>1 DEF Session
<1>3. /\ t.cl = r.cl /\ t.addr = r.addr /\ t.reader = r.reader /\ t.armed = r.armed
      /\ t.queued = r.queued /\ t.bReadTimeout = r.bReadTimeout /\ t.raced = r.raced
      /\ t.expired = r.expired
  BY DEF Session
<1>4. SameCore(r, t)
  BY <1>2, <1>3 DEF SameCore, TimeFits
<1>5. Queued(r, m) = SignalSend(t)
  BY DEF Queued
<1> HIDE DEF t
<1>6. SameCore(t, SignalSend(t))
  BY <1>2, SignalFits
<1>7. SameCore(r, SignalSend(t))
  BY <1>4, <1>6, SameTrans
<1> QED
  BY <1>5, <1>7 DEF SameCore
-----------------------------------------------------------------------------
(***************************************************************************)
(* The steps of a session's fibers and callbacks, but for the beginning of *)
(* Close(): each leaves the core as it was, or carries the timer's part    *)
(* of it along.                                                            *)
(***************************************************************************)

\* Step A of session s keeps its core.
Quiet(s) == ss' = [ss EXCEPT ![s] = ss'[s]] /\ SameCore(ss[s], ss'[s])

LEMMA OnSessionQuiet ==
    ASSUME TypeOK, NEW s \in Sids, NEW t, OnSession(s, t), SameCore(ss[s], t)
    PROVE  Quiet(s)
BY DEF TypeOK, OnSession, Quiet

\* A read begins: the callbacks that are left are those of the last one.
LEMMA ArmedFits ==
    ASSUME NEW r \in Session, r.reader \in {"start", "reply"}
    PROVE  SameCore(r, Armed(r)) /\ Armed(r) \in Session
<1>1. Armed(r) \in Session
  BY DEF Armed, Session, ReaderAt
<1>2. /\ Armed(r).cl = r.cl /\ Armed(r).addr = r.addr /\ Armed(r).reader = "test"
      /\ Armed(r).queued = r.queued /\ Armed(r).bReadTimeout = r.bReadTimeout
      /\ Armed(r).raced = r.raced
  BY DEF Armed, Session
<1>3. r.queued \in Nat /\ r.bReadTimeout \in BOOLEAN
  BY DEF Session
<1> QED
  BY <1>1, <1>2, <1>3 DEF SameCore, TimeFits

LEMMA HandleQuiet ==
    ASSUME TypeOK, NEW s \in Sids, Handle(s)
    PROVE  Quiet(s)
<1>1. ss[s] \in Session /\ ss[s].reader = "start"
  BY DEF TypeOK, Handle
<1> DEFINE a == Armed(ss[s])
           t == [a EXCEPT !.sender = "queued"]
<1>2. OnSession(s, t)
  BY DEF Handle
<1>3. a \in Session /\ SameCore(ss[s], a)
  BY <1>1, ArmedFits
<1> HIDE DEF a
<1>4. t \in Session /\ Core(a, t)
  BY <1>3 DEF Session, SenderAt, Core
<1> HIDE DEF t
<1>5. SameCore(ss[s], t)
  BY <1>3, <1>4, CoreFits, SameTrans
<1> QED
  BY <1>2, <1>5, OnSessionQuiet

\* A read returns: its callback may be in the scheduler still.
LEMMA ReturnedFits ==
    ASSUME NEW r \in Session
    PROVE  /\ Returned(r) \in Session /\ Returned(r).cl = r.cl /\ Returned(r).addr = r.addr
           /\ ~Returned(r).armed /\ Returned(r).ready = r.ready /\ Returned(r).queued = r.queued
           /\ Returned(r).bReadTimeout = r.bReadTimeout /\ (Returned(r).raced <=> r.queued > 0)
<1> DEFINE v == r.queued > 0
<1>1. v \in BOOLEAN
  OBVIOUS
<1>2. Returned(r) = [r EXCEPT !.armed = FALSE, !.raced = v]
  BY DEF Returned
<1> HIDE DEF v
<1>3. /\ Returned(r) \in Session /\ Returned(r).cl = r.cl /\ Returned(r).addr = r.addr
      /\ Returned(r).armed = FALSE /\ Returned(r).ready = r.ready /\ Returned(r).queued = r.queued
      /\ Returned(r).bReadTimeout = r.bReadTimeout /\ Returned(r).raced = v
  BY <1>1, <1>2 DEF Session
<1> QED
  BY <1>3 DEF v

LEMMA ReadTestQuiet ==
    ASSUME TypeOK, NEW s \in Sids, ReadTest(s)
    PROVE  Quiet(s)
<1> DEFINE r == ss[s]
           b == [Returned(r) EXCEPT !.ready = @ - 1]
<1>1. r \in Session /\ r.reader = "test" /\ r.queued \in Nat /\ r.bReadTimeout \in BOOLEAN
  BY DEF TypeOK, ReadTest, Session
<1>2. ASSUME OnSession(s, [r EXCEPT !.reader = "gap"])
      PROVE  Quiet(s)
  <2> DEFINE t == [r EXCEPT !.reader = "gap"]
  <2>1. /\ t \in Session
        /\ t.cl = r.cl /\ t.addr = r.addr /\ t.reader = "gap"
        /\ t.queued = r.queued /\ t.bReadTimeout = r.bReadTimeout /\ t.raced = r.raced
        /\ t.expired = r.expired
    BY <1>1 DEF Session, ReaderAt
  <2> HIDE DEF t
  <2>2. SameCore(r, t)
    BY <2>1, <1>1 DEF SameCore, TimeFits
  <2> QED
    BY <1>2, <2>2, OnSessionQuiet DEF t
<1>3. ASSUME OnSession(s, [r EXCEPT !.bReadTimeout = FALSE, !.reader = "force"])
      PROVE  Quiet(s)
  <2> DEFINE t == [r EXCEPT !.bReadTimeout = FALSE, !.reader = "force"]
  <2>1. t \in Session /\ t.cl = r.cl /\ t.addr = r.addr /\ t.reader = "force"
    BY <1>1 DEF Session, ReaderAt
  <2> HIDE DEF t
  <2>2. SameCore(r, t)
    BY <2>1, <1>1 DEF SameCore, TimeFits
  <2> QED
    BY <1>3, <2>2, OnSessionQuiet DEF t
<1>4. ASSUME OnSession(s, [Returned(r) EXCEPT !.reader = "ending"])
      PROVE  Quiet(s)
  <2> DEFINE t == [Returned(r) EXCEPT !.reader = "ending"]
  <2> DEFINE a == Returned(r)
  <2>0. a \in Session /\ a.cl = r.cl /\ a.addr = r.addr
    BY <1>1, ReturnedFits
  <2> HIDE DEF a
  <2>1. t \in Session /\ t.cl = r.cl /\ t.addr = r.addr /\ t.reader = "ending"
    <3>1. t = [a EXCEPT !.reader = "ending"]
      BY DEF a
    <3> QED
      BY <2>0, <3>1 DEF Session, ReaderAt
  <2> HIDE DEF t
  <2>2. SameCore(r, t)
    BY <2>1, <1>1 DEF SameCore, TimeFits
  <2> QED
    BY <1>4, <2>2, OnSessionQuiet DEF t
<1>5. ASSUME r.ready > 0
      PROVE  /\ b \in Session /\ b.cl = r.cl /\ b.addr = r.addr /\ ~b.armed
             /\ b.bReadTimeout = r.bReadTimeout /\ b.queued = r.queued /\ (b.raced <=> r.queued > 0)
  <2>1. r.ready \in Nat /\ r.ready - 1 \in Nat
    BY <1>1, <1>5 DEF Session
  <2> DEFINE a == Returned(r)
  <2>2. /\ a \in Session /\ a.cl = r.cl /\ a.addr = r.addr /\ ~a.armed /\ a.ready = r.ready
        /\ a.bReadTimeout = r.bReadTimeout /\ a.queued = r.queued /\ (a.raced <=> r.queued > 0)
    BY <1>1, ReturnedFits
  <2>3. b = [a EXCEPT !.ready = r.ready - 1]
    BY <2>2
  <2> HIDE DEF a, b
  <2> QED
    BY <2>1, <2>2, <2>3 DEF Session
<1>6. ASSUME ~r.bReadTimeout, r.ready > 0, OnSession(s, [b EXCEPT !.reader = "reply"])
      PROVE  Quiet(s)
  <2> DEFINE t == [b EXCEPT !.reader = "reply"]
  <2> HIDE DEF b
  <2>1. /\ t \in Session
        /\ t.cl = r.cl /\ t.addr = r.addr /\ t.reader = "reply" /\ ~t.armed
        /\ t.queued = r.queued /\ t.bReadTimeout = r.bReadTimeout /\ (t.raced <=> r.queued > 0)
    BY <1>5, <1>6 DEF Session, ReaderAt
  <2>2. OnSession(s, t)
    BY <1>6
  <2> HIDE DEF t
  <2>3. SameCore(r, t)
    BY <2>1, <1>1, <1>6 DEF SameCore, TimeFits
  <2> QED
    BY <2>2, <2>3, OnSessionQuiet
<1>7. ASSUME r.ready > 0, OnSession(s, NotifyReadError([b EXCEPT !.reader = "ending"]))
      PROVE  Quiet(s)
  <2> DEFINE t == [b EXCEPT !.reader = "ending"]
  <2> HIDE DEF b
  <2>1. t \in Session /\ t.cl = r.cl /\ t.addr = r.addr /\ t.reader = "ending"
    BY <1>5, <1>7 DEF Session, ReaderAt
  <2>2. OnSession(s, NotifyReadError(t))
    BY <1>7
  <2> HIDE DEF t
  <2>3. SameCore(r, t)
    BY <2>1, <1>1 DEF SameCore, TimeFits
  <2>4. SameCore(r, NotifyReadError(t))
    BY <2>1, <2>3, NotifyFits, SameTrans
  <2> QED
    BY <2>2, <2>4, OnSessionQuiet
<1> HIDE DEF r
<1> QED
  BY <1>2, <1>3, <1>4, <1>6, <1>7 DEF ReadTest, r

\* The reader and the sender move, and their timers stay what they are.
LEMMA ReaderGoes ==
    ASSUME NEW r \in Session, NEW l \in ReaderAt \ {"none", "start", "reply"},
           NEW t, t = [r EXCEPT !.reader = l], r.reader \notin {"none", "start", "reply"},
           l \in {"test", "gap", "missed", "waiting", "asleep"} =>
              r.reader \in {"test", "gap", "missed", "waiting", "asleep"}
    PROVE  SameCore(r, t) /\ t \in Session
<1>1. t \in Session
  BY DEF Session
<1>2. /\ t.cl = r.cl /\ t.addr = r.addr /\ t.reader = l /\ t.queued = r.queued
      /\ t.bReadTimeout = r.bReadTimeout /\ t.raced = r.raced /\ t.expired = r.expired
  BY DEF Session
<1> QED
  BY <1>1, <1>2 DEF SameCore, TimeFits

LEMMA ReadWaitQuiet ==
    ASSUME TypeOK, NEW s \in Sids, ReadWait(s)
    PROVE  Quiet(s)
<1> DEFINE l == Waits(ss[s].reader)
           t == [ss[s] EXCEPT !.reader = l]
<1>1. ss[s] \in Session /\ ss[s].reader \in {"gap", "missed"} /\ OnSession(s, t)
  BY DEF TypeOK, ReadWait, InGap
<1>2. l \in {"waiting", "asleep"}
  BY DEF Waits
<1> HIDE DEF l
<1>3. SameCore(ss[s], t)
  BY <1>1, <1>2, ReaderGoes DEF ReaderAt
<1> QED
  BY <1>1, <1>3, OnSessionQuiet

LEMMA ReadReplyQuiet ==
    ASSUME TypeOK, NEW s \in Sids, ReadReply(s)
    PROVE  Quiet(s)
<1>1. ss[s] \in Session
  BY DEF TypeOK
<1>2. CASE ss[s].reader = "reply"
  <2> DEFINE a == Queued(ss[s], "msg")
  <2>1. OnSession(s, Armed(a))
    BY <1>2 DEF ReadReply
  <2>2. a \in Session /\ SameCore(ss[s], a)
    BY <1>1, QueuedFits
  <2>3. a.reader = "reply"
    BY <1>1, <1>2 DEF Queued, SignalSend, Session
  <2> HIDE DEF a
  <2>4. SameCore(ss[s], Armed(a))
    BY <2>2, <2>3, ArmedFits, SameTrans
  <2> QED
    BY <2>1, <2>4, OnSessionQuiet
<1>3. CASE ss[s].reader = "force"
  <2> DEFINE a == ForceClosed(ss[s])
             t == [a EXCEPT !.reader = "ending"]
  <2>1. OnSession(s, t)
    BY <1>3 DEF ReadReply
  <2>2. a \in Session /\ SameCore(ss[s], a)
    BY <1>1, QueuedFits DEF ForceClosed
  <2>3. a.reader = "force"
    BY <1>1, <1>3 DEF ForceClosed, Queued, SignalSend, Session
  <2> HIDE DEF a
  <2>4. SameCore(a, t)
    BY <2>2, <2>3, ReaderGoes DEF ReaderAt
  <2>5. SameCore(ss[s], t)
    BY <2>2, <2>4, SameTrans
  <2> QED
    BY <2>1, <2>5, OnSessionQuiet
<1> QED
  BY <1>2, <1>3 DEF ReadReply

LEMMA ReadEndingQuiet ==
    ASSUME TypeOK, NEW s \in Sids, ReadEnding(s)
    PROVE  Quiet(s)
<1> DEFINE a == ForceClosed(ss[s])
           t == [a EXCEPT !.reader = "waitsender"]
<1>1. ss[s] \in Session /\ ss[s].reader = "ending" /\ OnSession(s, t)
  BY DEF TypeOK, ReadEnding
<1>2. a \in Session /\ SameCore(ss[s], a)
  BY <1>1, QueuedFits DEF ForceClosed
<1>3. a.reader = "ending"
  BY <1>1 DEF ForceClosed, Queued, SignalSend, Session
<1> HIDE DEF a
<1>4. SameCore(a, t)
  BY <1>2, <1>3, ReaderGoes DEF ReaderAt
<1>5. SameCore(ss[s], t)
  BY <1>2, <1>4, SameTrans
<1> QED
  BY <1>1, <1>5, OnSessionQuiet

LEMMA WaitSenderQuiet ==
    ASSUME TypeOK, NEW s \in Sids, WaitSender(s)
    PROVE  Quiet(s)
<1> DEFINE r == ss[s]
           t == [r EXCEPT !.sem = r.sem - 1, !.reader = "close"]
<1>1. r \in Session /\ r.reader = "waitsender" /\ r.sem > 0 /\ OnSession(s, t)
  BY DEF TypeOK, WaitSender
<1>2. r.sem - 1 \in Nat
  BY <1>1 DEF Session
<1> HIDE DEF r
<1>3. t \in Session /\ t.cl = r.cl /\ t.addr = r.addr /\ t.reader = "close"
  BY <1>1, <1>2 DEF Session, ReaderAt
<1>4. SameCore(r, t)
  BY <1>1, <1>3 DEF SameCore, TimeFits
<1> QED
  BY <1>1, <1>4, OnSessionQuiet DEF r

\* dopacketOutput() does not touch the core.
LEMMA SenderQuiet ==
    ASSUME TypeOK, NEW s \in Sids, Sender(s)
    PROVE  Quiet(s)
<1> DEFINE r == ss[s]
<1>1. r \in Session /\ r.sem \in Nat /\ r.tmp \in Seq({"msg", "stop"}) /\ r.sendq \in Seq({"msg", "stop"})
  BY DEF TypeOK, Session
<1>2. ASSUME NEW l \in SenderAt, NEW m \in Nat, NEW q \in Seq({"msg", "stop"}),
             NEW p \in Seq({"msg", "stop"}), NEW t,
             t = [r EXCEPT !.sem = m, !.sender = l, !.sendq = q, !.tmp = p]
      PROVE  t \in Session /\ SameCore(r, t)
  <2> HIDE DEF r
  <2>1. t \in Session /\ Core(r, t)
    BY <1>1, <1>2 DEF Session, Core
  <2> QED
    BY <2>1, CoreFits
<1>3. CASE SendBegin(s)
  <2> DEFINE t == [r EXCEPT !.sem = r.sem - 1, !.sender = "test"]
  <2>1. OnSession(s, t) /\ r.sem - 1 \in Nat
    BY <1>1, <1>3 DEF SendBegin
  <2>2. t = [r EXCEPT !.sem = r.sem - 1, !.sender = "test", !.sendq = r.sendq, !.tmp = r.tmp]
    BY <1>1 DEF Session
  <2> HIDE DEF t
  <2>3. SameCore(r, t)
    BY <1>1, <1>2, <2>1, <2>2 DEF SenderAt
  <2> QED
    BY <2>1, <2>3, OnSessionQuiet
<1>4. CASE SendTest(s)
  <2>1. CASE r.sendq = <<>> /\ ~Told(r)
    <3> DEFINE t == [r EXCEPT !.sender = "gap"]
    <3>1. OnSession(s, t)
      BY <1>4, <2>1 DEF SendTest
    <3>2. t = [r EXCEPT !.sem = r.sem, !.sender = "gap", !.sendq = r.sendq, !.tmp = r.tmp]
      BY <1>1 DEF Session
    <3> HIDE DEF t
    <3>3. SameCore(r, t)
      BY <1>1, <1>2, <3>2 DEF SenderAt
    <3> QED
      BY <3>1, <3>3, OnSessionQuiet
  <2>2. CASE ~(r.sendq = <<>> /\ ~Told(r))
    <3> DEFINE t == [r EXCEPT !.sender = "write", !.tmp = r.sendq, !.sendq = <<>>]
    <3>1. OnSession(s, t)
      BY <1>4, <2>2 DEF SendTest
    <3>2. t = [r EXCEPT !.sem = r.sem, !.sender = "write", !.sendq = <<>>, !.tmp = r.sendq]
      BY <1>1 DEF Session
    <3> HIDE DEF t
    <3>3. "write" \in SenderAt /\ <<>> \in Seq({"msg", "stop"})
      BY DEF SenderAt
    <3>4. SameCore(r, t)
      BY <1>1, <1>2, <3>2, <3>3
    <3> QED
      BY <3>1, <3>4, OnSessionQuiet
  <2> QED
    BY <2>1, <2>2
<1>5. CASE SendWait(s)
  <2> DEFINE l == Waits(r.sender)
             t == [r EXCEPT !.sender = l]
  <2>1. OnSession(s, t) /\ l \in {"waiting", "asleep"}
    BY <1>5 DEF SendWait, Waits
  <2> HIDE DEF l
  <2>2. t = [r EXCEPT !.sem = r.sem, !.sender = l, !.sendq = r.sendq, !.tmp = r.tmp]
    BY <1>1 DEF Session
  <2> HIDE DEF t
  <2>3. SameCore(r, t)
    BY <1>1, <1>2, <2>1, <2>2 DEF SenderAt
  <2> QED
    BY <2>1, <2>3, OnSessionQuiet
<1>6. CASE SendBatch(s)
  <2>1. ASSUME NEW l \in SenderAt, NEW p \in Seq({"msg", "stop"}), NEW t \in {[r EXCEPT !.sender = l, !.tmp = p],
                 NotifyWriteError([r EXCEPT !.sender = l, !.tmp = p])}, OnSession(s, t)
        PROVE  Quiet(s)
    <3> DEFINE u == [r EXCEPT !.sender = l, !.tmp = p]
    <3>1. u = [r EXCEPT !.sem = r.sem, !.sender = l, !.sendq = r.sendq, !.tmp = p]
      BY <1>1 DEF Session
    <3>2. t = u \/ t = NotifyWriteError(u)
      OBVIOUS
    <3> HIDE DEF u
    <3>3. u \in Session /\ SameCore(r, u)
      BY <1>1, <1>2, <3>1
    <3>4. SameCore(r, NotifyWriteError(u))
      BY <3>3, NotifyFits, SameTrans
    <3> QED
      BY <2>1, <3>2, <3>3, <3>4, OnSessionQuiet
  <2>2. CASE r.tmp = <<>>
    <3> DEFINE l == IF Told(r) THEN "close" ELSE "test"
    <3>1. OnSession(s, [r EXCEPT !.sender = l]) /\ l \in SenderAt
      BY <1>6, <2>2 DEF SendBatch, SenderAt
    <3> HIDE DEF l
    <3>2. [r EXCEPT !.sender = l] = [r EXCEPT !.sender = l, !.tmp = r.tmp]
      BY <1>1 DEF Session
    <3> QED
      BY <1>1, <3>1, <3>2, <2>1
  <2>3. CASE OnSession(s, [r EXCEPT !.tmp = <<>>, !.sender = "close"])
    <3>1. [r EXCEPT !.tmp = <<>>, !.sender = "close"] = [r EXCEPT !.sender = "close", !.tmp = <<>>]
      BY <1>1 DEF Session
    <3>2. "close" \in SenderAt /\ <<>> \in Seq({"msg", "stop"})
      BY DEF SenderAt
    <3> QED
      BY <2>3, <3>1, <3>2, <2>1
  <2>4. CASE r.tmp # <<>> /\ OnSession(s, [r EXCEPT !.tmp = Tail(@)])
    <3>1. Tail(r.tmp) \in Seq({"msg", "stop"}) /\ r.sender \in SenderAt
      BY <1>1, <2>4 DEF Session
    <3>2. [r EXCEPT !.tmp = Tail(@)] = [r EXCEPT !.sender = r.sender, !.tmp = Tail(r.tmp)]
      BY <1>1 DEF Session
    <3> QED
      BY <2>4, <3>1, <3>2, <2>1
  <2>5. CASE OnSession(s, NotifyWriteError([r EXCEPT !.tmp = <<>>, !.sender = "close"]))
    <3>1. [r EXCEPT !.tmp = <<>>, !.sender = "close"] = [r EXCEPT !.sender = "close", !.tmp = <<>>]
      BY <1>1 DEF Session
    <3>2. "close" \in SenderAt /\ <<>> \in Seq({"msg", "stop"})
      BY DEF SenderAt
    <3> QED
      BY <2>5, <3>1, <3>2, <2>1
  <2> QED
    BY <1>6, <2>2, <2>3, <2>4, <2>5 DEF SendBatch, WriteMessage
<1> QED
  BY <1>3, <1>4, <1>5, <1>6 DEF Sender

\* The timer's callback is in the scheduler from now on: the read that goes on has expired.
LEMMA ExpireQuiet ==
    ASSUME TypeOK, NEW s \in Sids, Expire(s)
    PROVE  Quiet(s)
<1> DEFINE r == ss[s]
           t == [r EXCEPT !.armed = FALSE, !.expired = TRUE, !.queued = r.queued + 1]
<1>1. r \in Session /\ r.armed /\ OnSession(s, t) /\ r.queued + 1 \in Nat
  BY DEF TypeOK, Expire, Session
<1> HIDE DEF r
<1>2. /\ t \in Session /\ t.cl = r.cl /\ t.addr = r.addr /\ t.reader = r.reader
      /\ t.expired = TRUE
  BY <1>1 DEF Session
<1>3. SameCore(r, t)
  BY <1>1, <1>2 DEF SameCore, TimeFits
<1> QED
  BY <1>1, <1>3, OnSessionQuiet DEF r

LEMMA NotifyReadTimeoutQuiet1 ==
    ASSUME TypeOK, NEW s \in Sids, NotifyReadTimeout(s)
    PROVE  Quiet(s)
<1> DEFINE r == ss[s]
           t == [r EXCEPT !.queued = r.queued - 1, !.bReadTimeout = TRUE]
<1>1. r \in Session /\ r.queued > 0 /\ OnSession(s, SignalRead(t)) /\ r.queued - 1 \in Nat
  BY DEF TypeOK, NotifyReadTimeout, Session
<1> HIDE DEF r
<1>2. /\ t \in Session /\ t.cl = r.cl /\ t.addr = r.addr /\ t.reader = r.reader
      /\ t.expired = r.expired /\ t.raced = r.raced /\ t.armed = r.armed
  BY <1>1 DEF Session
<1>3. r.queued # 0
  BY <1>1 DEF Session
<1>4. SameCore(r, t)
  BY <1>1, <1>2, <1>3 DEF SameCore, TimeFits
<1> HIDE DEF t
<1>5. SameCore(r, SignalRead(t))
  BY <1>2, <1>4, SignalFits, SameTrans
<1> QED
  BY <1>1, <1>5, OnSessionQuiet DEF r

LEMMA UpdateFailsQuiet ==
    ASSUME TypeOK, NEW s \in Sids, UpdateFails(s)
    PROVE  Quiet(s)
<1>1. ss[s] \in Session /\ OnSession(s, NotifyWriteError(ss[s]))
  BY DEF TypeOK, UpdateFails, OutputFails
<1> QED
  BY <1>1, NotifyFits, OnSessionQuiet

LEMMA UserSendQuiet ==
    ASSUME TypeOK, NEW s \in Sids, UserSend(s)
    PROVE  Quiet(s)
<1>1. ss[s] \in Session /\ OnSession(s, Queued(ss[s], "msg"))
  BY DEF TypeOK, UserSend
<1> QED
  BY <1>1, QueuedFits, OnSessionQuiet

\* Whoever has been in Close() goes on.
LEMMA ClosedFits ==
    ASSUME NEW s \in Sids, NEW who \in Closers, NEW r \in Session,
           who = "reader" => r.reader = "close"
    PROVE  SameCore(r, Closed(s, who, r))
<1>1. CASE who = "reader"
  <2>1. Closed(s, who, r) = [r EXCEPT !.reader = "done"]
    BY <1>1 DEF Closed
  <2> QED
    BY <1>1, <2>1, ReaderGoes DEF ReaderAt
<1>2. CASE who = "sender"
  <2> DEFINE t == [r EXCEPT !.sem = r.sem + 1, !.sender = "done"]
  <2>1. Closed(s, who, r) = t
    BY <1>2 DEF Closed
  <2>2. r.sem + 1 \in Nat
    BY DEF Session
  <2>3. t \in Session /\ Core(r, t)
    BY <2>2 DEF Session, SenderAt, Core
  <2> QED
    BY <2>1, <2>3, CoreFits
<1>3. CASE who # "reader" /\ who # "sender"
  <2>1. Closed(s, who, r) = r
    BY <1>3 DEF Closed
  <2> QED
    BY <2>1 DEF SameCore
<1> QED
  BY <1>1, <1>2, <1>3

LEMMA CloseOverQuiet ==
    ASSUME TypeOK, NEW s \in Sids, NEW who \in Closers, CloseOver(s, who)
    PROVE  Quiet(s)
<1>1. /\ ss[s] \in Session /\ OnSession(s, Closed(s, who, ss[s]))
      /\ who = "reader" => ss[s].reader = "close"
  BY DEF TypeOK, CloseOver, Closing
<1> QED
  BY <1>1, ClosedFits, OnSessionQuiet

LEMMA CloseEndQuiet ==
    ASSUME TypeOK, NEW s \in Sids, NEW who \in Closers, CloseEnd(s, who)
    PROVE  Quiet(s)
<1> DEFINE r == ss[s]
           t == [r EXCEPT !.bClose = TRUE, !.cl = "closed", !.closer = None]
           u == SignalSend(SignalRead(t))
<1>1. /\ r \in Session /\ OnSession(s, Closed(s, who, u)) /\ r.cl = "closing"
      /\ who = "reader" => r.reader = "close"
  BY DEF TypeOK, CloseEnd, Closing
<1>2. /\ t \in Session /\ t.cl = "closed" /\ t.addr = r.addr /\ t.reader = r.reader
      /\ t.armed = r.armed /\ t.queued = r.queued /\ t.bReadTimeout = r.bReadTimeout
      /\ t.raced = r.raced /\ t.expired = r.expired
  BY <1>1 DEF Session
<1>3. SameCore(r, t)
  BY <1>1, <1>2 DEF SameCore, TimeFits
<1>4. SameCore(t, SignalRead(t)) /\ SignalRead(t) \in Session
  BY <1>2, SignalFits DEF SameCore
<1>5. SameCore(SignalRead(t), u) /\ u \in Session
  BY <1>4, SignalFits DEF SameCore
<1>6. SameCore(r, u)
  BY <1>3, <1>4, <1>5, SameTrans
<1>7. who = "reader" => u.reader = "close"
  <2>1. SignalRead(t).reader = Woken(t.reader)
    BY <1>2 DEF SignalRead, Session
  <2>2. u.reader = SignalRead(t).reader
    BY <1>4 DEF SignalSend, Session
  <2> QED
    BY <2>1, <2>2, <1>1, <1>2 DEF Woken
<1> HIDE DEF u
<1>8. SameCore(u, Closed(s, who, u))
  BY <1>5, <1>7, ClosedFits
<1>9. SameCore(r, Closed(s, who, u))
  BY <1>6, <1>8, SameTrans
<1> QED
  BY <1>1, <1>9, OnSessionQuiet
-----------------------------------------------------------------------------
(***************************************************************************)
(* Steps that leave the owners of the sessions alone.                      *)
(***************************************************************************)

\* The receive loops that matter to the map, the queue and their limits stay where they are.
LoopsKept ==
    /\ recv' \in [Channels -> Loops]
    /\ \A ch \in Channels :
          \/ recv'[ch] = recv[ch]
          \/ {recv[ch].pc, recv'[ch].pc} \cap {"count", "create", "push"} = {}

\* The listener is as it was, or hears of an error, or is closed.
LisKept ==
    /\ lis' \in [bClose : BOOLEAN, bReadError : BOOLEAN, twice : SUBSET Clients]
    /\ lis'.twice = lis.twice /\ (lis.bClose => lis'.bClose)

\* No session changes hands, and none is made or begins to close.
LEMMA QuietKeeps ==
    ASSUME IInv, ss' \in [Sids -> Session], \A s \in Sids : SameCore(ss[s], ss'[s]),
           LoopsKept, LisKept, UNCHANGED <<sessions, backlog, scenario>>
    PROVE  IInv'
<1> USE DEF IInv
<1>1. TypeOK'
  BY DEF TypeOK, LoopsKept, LisKept
<1>2. MapFits'
  <2>1. \A k \in Keys, c \in Clients : sessions[k][c] # None => sessions[k][c] \in Sids
    BY DEF TypeOK
  <2>2. \A s \in Sids : ss'[s].addr = ss[s].addr /\ (ss'[s].cl = "open" <=> ss[s].cl = "open")
                        /\ (ss'[s].cl = "none" <=> ss[s].cl = "none")
    BY DEF SameCore
  <2> QED
    BY <2>1, <2>2 DEF MapFits, LisKept
<1>3. LoopsFit'
  <2>1. ASSUME NEW ch \in Channels, recv'[ch].pc \in {"count", "create"}
        PROVE  /\ recv[ch].pc \in {"count", "create"} /\ recv'[ch] = recv[ch]
    BY <2>1 DEF LoopsKept
  <2>2. \A c \in Clients : sessions[Key][c] = None => sessions[Key'][c] = None
    BY DEF MapFits, LisKept, Key
  <2> QED
    BY <2>1, <2>2 DEF LoopsFit
<1>4. /\ Pushing' = Pushing /\ \A ch \in Pushing : recv'[ch] = recv[ch]
      /\ Creating' = Creating /\ Taking' = Taking
  BY DEF Pushing, Creating, Taking, LoopsKept
<1>5. Pushed' = Pushed /\ Read' = Read /\ Made' = Made
  BY <1>4 DEF Pushed, Read, Made, SameCore
<1>6. OwnersFit'
  BY <1>4, <1>5 DEF OwnersFit
<1>7. LimitsFit'
  <2>1. Live' = Live /\ Loop' = Loop
    BY DEF Live, LiveIn, Loop
  <2> QED
    BY <1>4, <2>1 DEF LimitsFit, MaxConn
<1>8. \A s \in Sids : TimeFits(ss'[s])
  BY DEF SameCore
<1> QED
  BY <1>1, <1>2, <1>3, <1>6, <1>7, <1>8

LEMMA QuietSessionKeeps ==
    ASSUME IInv, NEW s \in Sids, Quiet(s), LoopsKept, LisKept, UNCHANGED <<sessions, backlog, scenario>>
    PROVE  IInv'
<1>1. ss' \in [Sids -> Session] /\ \A t \in Sids : SameCore(ss[t], ss'[t])
  <2>1. ss \in [Sids -> Session] /\ ss'[s] \in Session /\ ss' = [ss EXCEPT ![s] = ss'[s]]
    BY DEF IInv, TypeOK, Quiet, SameCore
  <2>2. \A t \in Sids \ {s} : ss'[t] = ss[t]
    BY <2>1
  <2>3. ss' \in [Sids -> Session]
    BY <2>1
  <2> QED
    BY <2>1, <2>2, <2>3 DEF Quiet, SameCore
<1> QED
  BY <1>1, QuietKeeps

LEMMA RecvSame ==
    ASSUME IInv, UNCHANGED recv
    PROVE  LoopsKept
BY DEF IInv, TypeOK, LoopsKept

LEMMA LisSame ==
    ASSUME IInv, UNCHANGED lis
    PROVE  LisKept
BY DEF IInv, TypeOK, LisKept

\* The steps of reader and sender, the callbacks and the end of Close().
LEMMA SessionKeeps ==
    ASSUME IInv, NEW s \in Sids, UNCHANGED scenario,
           \/ Reader(s) \/ Sender(s) \/ Expire(s) \/ NotifyReadTimeout(s)
           \/ UpdateFails(s) \/ UserSend(s)
           \/ \E who \in Closers : CloseEnd(s, who) \/ CloseOver(s, who)
    PROVE  IInv'
<1> USE DEF IInv
<1>1. Quiet(s)
  BY HandleQuiet, ReadTestQuiet, ReadWaitQuiet, ReadReplyQuiet, ReadEndingQuiet, WaitSenderQuiet,
     SenderQuiet, ExpireQuiet, NotifyReadTimeoutQuiet1, UpdateFailsQuiet, UserSendQuiet,
     CloseEndQuiet, CloseOverQuiet DEF Reader
<1>2. UNCHANGED <<sessions, backlog, lis>>
  <2>1. CASE Reader(s)
    BY <2>1 DEF Reader, Handle, ReadTest, ReadWait, ReadReply, ReadEnding, WaitSender, OnSession, Unmoved
  <2>2. CASE Sender(s)
    BY <2>2 DEF Sender, SendBegin, SendTest, SendWait, SendBatch, WriteMessage, OnSession, Unmoved
  <2>3. CASE Expire(s) \/ NotifyReadTimeout(s) \/ UpdateFails(s) \/ UserSend(s)
    BY <2>3 DEF Expire, NotifyReadTimeout, UpdateFails, UserSend, OnSession, Unmoved
  <2>4. ASSUME NEW who \in Closers, CloseEnd(s, who) \/ CloseOver(s, who)
        PROVE  UNCHANGED <<sessions, backlog, lis>>
    BY <2>4 DEF CloseEnd, CloseOver, OnSession, Unmoved
  <2> QED
    BY <2>1, <2>2, <2>3, <2>4
<1>3. LoopsKept
  <2>1. CASE Reader(s)
    BY <2>1, RecvSame DEF Reader, Handle, ReadTest, ReadWait, ReadReply, ReadEnding, WaitSender
  <2>2. CASE Sender(s)
    BY <2>2, RecvSame DEF Sender, SendBegin, SendTest, SendWait, SendBatch
  <2>3. CASE Expire(s) \/ NotifyReadTimeout(s) \/ UpdateFails(s) \/ UserSend(s)
    BY <2>3, RecvSame DEF Expire, NotifyReadTimeout, UpdateFails, UserSend
  <2>4. ASSUME NEW who \in Closers, CloseEnd(s, who) \/ CloseOver(s, who)
        PROVE  LoopsKept
    <3>1. recv' = ClosedRecv(who)
      BY <2>4 DEF CloseEnd, CloseOver
    <3>2. CASE who \notin Channels
      BY <3>1, <3>2, RecvSame DEF ClosedRecv
    <3>3. CASE who \in Channels /\ who \notin {"reader", "sender"}
      <4>1. recv[who].pc = "close"
        BY <2>4, <3>3 DEF CloseEnd, CloseOver, Closing
      <4>2. recv' = [recv EXCEPT ![who] = [pc |-> "recv", from |-> None, sess |-> None]]
        BY <3>1, <3>3 DEF ClosedRecv
      <4>3. [pc |-> "recv", from |-> None, sess |-> None] \in Loops
        BY DEF Loops
      <4> QED
        BY <3>3, <4>1, <4>2, <4>3 DEF TypeOK, LoopsKept
    <3> QED
      BY <3>2, <3>3, KcpServerAssumption
  <2> QED
    BY <2>1, <2>2, <2>3, <2>4
<1> QED
  BY <1>1, <1>2, <1>3, LisSame, QuietSessionKeeps
-----------------------------------------------------------------------------
(***************************************************************************)
(* Steps that move a session from one owner to the next.                   *)
(***************************************************************************)

LEMMA SetsFinite ==
    ASSUME TypeOK
    PROVE  /\ IsFiniteSet(Creating) /\ IsFiniteSet(Taking) /\ IsFiniteSet(Loop)
           /\ Live \in Nat /\ Cardinality(Creating) \in Nat
           /\ Cardinality(Taking) \in Nat /\ Cardinality(Loop) \in Nat
           /\ Len(backlog) \in Nat /\ MaxConn \in Nat /\ Backlog \in Nat
<1>1. scenario.channelOf \in [Clients -> Channels]
  BY KcpServerAssumption DEF TypeOK
<1>2. /\ \A k \in Keys : LiveIn(k) \subseteq Clients
      /\ Creating \subseteq Channels /\ Taking \subseteq Channels
      /\ Loop \subseteq Channels
  BY <1>1 DEF LiveIn, Creating, Taking, Loop, Range
<1>3. IsFiniteSet(Clients) /\ IsFiniteSet(Channels) /\ MaxConn \in Nat /\ Backlog \in Nat
  BY KcpServerAssumption DEF TypeOK, MaxConn
<1>4. (\A k \in Keys : IsFiniteSet(LiveIn(k))) /\ IsFiniteSet(Creating) /\ IsFiniteSet(Taking) /\ IsFiniteSet(Loop)
  BY <1>2, <1>3, FS_Subset
<1>5. Len(backlog) \in Nat
  BY DEF TypeOK
<1> QED
  <2>1. Cardinality(LiveIn("own")) \in Nat /\ Cardinality(LiveIn("-1")) \in Nat
    BY <1>4, FS_CardinalityType DEF Keys
  <2>2. Live \in Nat
    BY <2>1 DEF Live
  <2> QED
    BY <2>2, <1>3, <1>4, <1>5, FS_CardinalityType

\* One entry more or less.
Maps == [Keys -> [Clients -> Sids \cup {None}]]
LEMMA LiveChange ==
    ASSUME sessions \in Maps, sessions' \in Maps, NEW k \in Keys, NEW a \in Clients,
           \A l \in Keys, c \in Clients : l # k \/ c # a => sessions'[l][c] = sessions[l][c]
    PROVE  /\ sessions[k][a] = None /\ sessions'[k][a] # None => Live' = Live + 1
           /\ sessions[k][a] # None /\ sessions'[k][a] = None => Live' = Live - 1
<1>1. \A l \in Keys : l # k => LiveIn(l)' = LiveIn(l)
  BY DEF LiveIn
<1>2. LiveIn(k)' \ {a} = LiveIn(k) \ {a}
  BY DEF LiveIn
<1>3. \A l \in Keys : /\ IsFiniteSet(LiveIn(l)) /\ Cardinality(LiveIn(l)) \in Nat
                       /\ IsFiniteSet(LiveIn(l)')
  <2>1. \A l \in Keys : LiveIn(l) \subseteq Clients /\ LiveIn(l)' \subseteq Clients
    BY DEF LiveIn
  <2> QED
    BY <2>1, KcpServerAssumption, FS_Subset, FS_CardinalityType
<1>4. k = "own" \/ k = "-1"
  BY DEF Keys
<1>5. \A x, y \in Nat : (x + 1) + y = (x + y) + 1 /\ y + (x + 1) = (y + x) + 1
                      /\ (x - 1) + y = (x + y) - 1 /\ y + (x - 1) = (y + x) - 1
  OBVIOUS
<1>6. ASSUME sessions[k][a] = None, sessions'[k][a] # None
      PROVE  Live' = Live + 1
  <2>1. a \notin LiveIn(k) /\ a \in LiveIn(k)'
    BY <1>6 DEF LiveIn
  <2>2. Cardinality(LiveIn(k)') = Cardinality(LiveIn(k)) + 1
    BY <2>1, <1>2, <1>3, CountChange
  <2> QED
    BY <2>2, <1>1, <1>3, <1>4, <1>5 DEF Live, Keys
<1>7. ASSUME sessions[k][a] # None, sessions'[k][a] = None
      PROVE  Live' = Live - 1
  <2>1. a \in LiveIn(k) /\ a \notin LiveIn(k)'
    BY <1>7 DEF LiveIn
  <2>2. Cardinality(LiveIn(k)') = Cardinality(LiveIn(k)) - 1
    BY <2>1, <1>2, <1>3, CountChange
  <2> QED
    BY <2>2, <1>1, <1>3, <1>4, <1>5 DEF Live, Keys
<1> QED
  BY <1>6, <1>7

\* An entry under the address of the session that closes is erased: its own, but for the
\* addresses that got a second session.
LEMMA ErasedKeeps ==
    ASSUME IInv, NEW s \in Sids, NEW t \in Session, NEW k \in Keys,
           ss[s].cl = "open", t.cl = "closing", t.addr = ss[s].addr, t.reader = ss[s].reader,
           TimeFits(t), ss' = [ss EXCEPT ![s] = t],
           sessions[k][ss[s].addr] # None, sessions' = [sessions EXCEPT ![k][ss[s].addr] = None],
           UNCHANGED <<recv, backlog, lis, scenario>>
    PROVE  IInv'
<1> USE DEF IInv
<1> DEFINE a == ss[s].addr
<1>1. /\ ss \in [Sids -> Session] /\ sessions \in [Keys -> [Clients -> Sids \cup {None}]]
      /\ a \in Clients
  BY DEF TypeOK, MapFits
<1>2. ss' \in [Sids -> Session] /\ ss'[s] = t /\ \A q \in Sids \ {s} : ss'[q] = ss[q]
  BY <1>1
<1>3. /\ sessions' \in [Keys -> [Clients -> Sids \cup {None}]] /\ sessions'[k][a] = None
      /\ \A l \in Keys, c \in Clients : l # k \/ c # a => sessions'[l][c] = sessions[l][c]
  BY <1>1
<1>4. TypeOK'
  BY <1>2, <1>3 DEF TypeOK
<1>5. a \notin lis.twice => sessions[k][a] = s
  <2>1. ASSUME a \notin lis.twice
        PROVE  sessions[k][a] = s
    <3>1. PICK l \in Keys : sessions[l][a] = s
      BY <2>1 DEF MapFits
    <3>2. sessions["own"][a] = None \/ sessions["-1"][a] = None
      BY <2>1, <1>1 DEF MapFits
    <3>3. s # None
      BY KcpServerAssumption
    <3> QED
      BY ONLY <3>1, <3>2, <3>3, sessions[k][a] # None, k \in Keys DEF Keys
  <2> QED
    BY <2>1
<1>6. MapFits'
  <2>1. ASSUME NEW l \in Keys, NEW c \in Clients, sessions'[l][c] # None
        PROVE  /\ ss'[sessions'[l][c]].addr = c /\ ss'[sessions'[l][c]].cl # "none"
               /\ c \notin lis.twice => ss'[sessions'[l][c]].cl = "open"
    <3>1. (l # k \/ c # a) /\ sessions'[l][c] = sessions[l][c] /\ sessions[l][c] \in Sids
      BY <2>1, <1>1, <1>3
    <3>2. /\ ss[sessions[l][c]].addr = c /\ ss[sessions[l][c]].cl # "none"
          /\ c \notin lis.twice => ss[sessions[l][c]].cl = "open"
      BY <2>1, <3>1 DEF MapFits
    <3>3. ss'[sessions[l][c]].addr = c /\ ss'[sessions[l][c]].cl # "none"
      BY <3>1, <3>2, <1>2
    <3>4. ASSUME c \notin lis.twice, sessions[l][c] = s
          PROVE  FALSE
      <4>1. c = a /\ l # k
        BY <3>1, <3>2, <3>4
      <4>2. sessions["own"][a] = None \/ sessions["-1"][a] = None
        BY <4>1, <3>4 DEF MapFits
      <4> QED
        BY <4>1, <4>2, <3>1, <2>1 DEF Keys
    <3> QED
      BY <3>1, <3>2, <3>3, <3>4, <1>2
  <2>2. ASSUME NEW q \in Sids, ss'[q].cl = "open"
        PROVE  /\ ss'[q].addr \in Clients
               /\ ss'[q].addr \notin lis.twice => \E l \in Keys : sessions'[l][ss'[q].addr] = q
    <3>1. q # s /\ ss'[q] = ss[q] /\ ss[q].cl = "open"
      BY <2>2, <1>2
    <3>2. ss[q].addr \in Clients
      BY <3>1 DEF MapFits
    <3>3. ASSUME ss[q].addr \notin lis.twice
          PROVE  \E l \in Keys : sessions'[l][ss[q].addr] = q
      <4>1. PICK l \in Keys : sessions[l][ss[q].addr] = q
        BY <3>1, <3>3 DEF MapFits
      <4>2. l # k \/ ss[q].addr # a
        BY <4>1, <3>1, <3>3, <1>5
      <4> QED
        BY <4>1, <4>2, <3>2, <1>3
    <3> QED
      BY <3>1, <3>2, <3>3
  <2>3. ASSUME NEW c \in Clients, c \notin lis.twice
        PROVE  sessions'["own"][c] = None \/ sessions'["-1"][c] = None
    <3>1. sessions["own"][c] = None \/ sessions["-1"][c] = None
      BY <2>3 DEF MapFits
    <3>2. "own" \in Keys /\ "-1" \in Keys
      BY DEF Keys
    <3> QED
      BY <3>1, <3>2, <1>3
  <2>4. ASSUME ~lis.bClose
        PROVE  lis.twice = {} /\ \A c \in Clients : sessions'["-1"][c] = None
    <3>1. lis.twice = {} /\ \A c \in Clients : sessions["-1"][c] = None
      BY <2>4 DEF MapFits
    <3>2. "-1" \in Keys
      BY DEF Keys
    <3> QED
      BY <3>1, <3>2, <1>3
  <2> QED
    BY <2>1, <2>2, <2>3, <2>4 DEF MapFits
<1>7. LoopsFit'
  <2>1. \A c \in Clients : sessions[Key][c] = None => sessions'[Key][c] = None
    <3>1. Key \in Keys
      BY DEF Key, Keys
    <3> QED
      BY <3>1, <1>3
  <2>2. Key' = Key
    BY DEF Key
  <2> QED
    BY <2>1, <2>2 DEF LoopsFit
<1>8. /\ Pushing' = Pushing /\ Creating' = Creating /\ Taking' = Taking /\ Pushed' = Pushed
      /\ Read' = Read /\ Made' = Made
  BY <1>2 DEF Pushing, Creating, Taking, Pushed, Read, Made
<1>9. OwnersFit'
  BY <1>8 DEF OwnersFit
<1>10. LimitsFit'
  <2>1. Live' = Live - 1
    BY <1>1, <1>3, LiveChange DEF Maps
  <2>2. Live' = Live - 1 /\ Loop' = Loop /\ MaxConn' = MaxConn
    BY <2>1 DEF Loop, MaxConn
  <2>3. /\ Live + Cardinality(Creating) <= MaxConn + Cardinality(Loop) - 1
        /\ Taking \subseteq Loop
        /\ Len(backlog) + Cardinality(Taking) <= Backlog + Cardinality(Loop) - 1
    BY DEF LimitsFit
  <2>4. Live - 1 + Cardinality(Creating) <= MaxConn + Cardinality(Loop) - 1
    <3>1. /\ Live \in Nat /\ Cardinality(Creating) \in Nat
          /\ Cardinality(Loop) \in Nat /\ MaxConn \in Nat
      BY SetsFinite
    <3>2. Live + Cardinality(Creating) <= MaxConn + Cardinality(Loop) - 1
      BY <2>3
    <3> QED
      BY ONLY <3>1, <3>2
  <2> QED
    BY <2>2, <2>3, <2>4, <1>8 DEF LimitsFit
<1>11. \A q \in Sids : TimeFits(ss'[q])
  BY <1>2
<1> QED
  BY <1>4, <1>6, <1>7, <1>9, <1>10, <1>11

\* The address of the session that closes is free from now on.
LEMMA CloseBeginKeeps ==
    ASSUME IInv, NEW s \in Sids, NEW who \in Closers, CloseBegin(s, who), UNCHANGED scenario
    PROVE  IInv'
<1> USE DEF IInv
<1> DEFINE r == ss[s]
           t == [r EXCEPT !.cl = "closing", !.closer = who]
           a == r.addr
<1>1. /\ r \in Session /\ r.cl = "open" /\ ss' = [ss EXCEPT ![s] = t] /\ ss \in [Sids -> Session]
      /\ Erase(a) /\ UNCHANGED <<recv, backlog, lis>>
      /\ sessions \in [Keys -> [Clients -> Sids \cup {None}]]
  BY DEF TypeOK, CloseBegin, OnSession, Unmoved
<1>2. a \in Clients /\ (a \notin lis.twice => \E k \in Keys : sessions[k][a] = s)
  BY <1>1 DEF MapFits
<1>3. /\ t \in Session /\ t.cl = "closing" /\ t.addr = r.addr /\ t.reader = r.reader
      /\ t.armed = r.armed /\ t.queued = r.queued /\ t.bReadTimeout = r.bReadTimeout
      /\ t.raced = r.raced /\ t.expired = r.expired
  BY <1>1 DEF Session
<1> HIDE DEF t
<1>4. ss' \in [Sids -> Session] /\ ss'[s] = t /\ \A q \in Sids \ {s} : ss'[q] = ss[q]
  BY <1>1, <1>3
<1>5. CASE UNCHANGED sessions /\ \A k \in Keys : sessions[k][a] = None
  <2>1. a \in lis.twice
    BY <1>2, <1>5, KcpServerAssumption
  <2>2. TypeOK'
    BY <1>1, <1>4, <1>5 DEF TypeOK
  <2>3. MapFits'
    <3>1. \A k \in Keys, c \in Clients : sessions[k][c] # None => sessions[k][c] \in Sids
      BY <1>1
    <3>2. \A q \in Sids : ss'[q].addr = ss[q].addr
      BY <1>3, <1>4
    <3>3. \A q \in Sids : /\ ss'[q].cl = "open" => ss[q].cl = "open"
                          /\ ss'[q].cl = "none" => ss[q].cl = "none"
      BY <1>3, <1>4
    <3>4. \A q \in Sids : ss[q].addr # a => ss'[q] = ss[q]
      BY <1>4
    <3> QED
      BY <1>1, <1>5, <2>1, <3>1, <3>2, <3>3, <3>4 DEF MapFits
  <2>4. LoopsFit'
    BY <1>1, <1>5 DEF LoopsFit, Key
  <2>5. /\ Pushing' = Pushing /\ Creating' = Creating /\ Taking' = Taking /\ Pushed' = Pushed
        /\ Read' = Read /\ Made' = Made /\ Live' = Live /\ Loop' = Loop
    BY <1>1, <1>3, <1>4, <1>5 DEF Pushing, Creating, Taking, Pushed, Read, Made, Live, LiveIn, Loop
  <2>6. OwnersFit'
    BY <1>1, <2>5 DEF OwnersFit
  <2>7. LimitsFit'
    BY <1>1, <2>5 DEF LimitsFit, MaxConn
  <2>8. \A q \in Sids : TimeFits(ss'[q])
    BY <1>3, <1>4 DEF TimeFits
  <2> QED
    BY <2>2, <2>3, <2>4, <2>6, <2>7, <2>8
<1>6. ASSUME NEW k \in Keys, sessions[k][a] # None, sessions' = [sessions EXCEPT ![k][a] = None]
      PROVE  IInv'
  <2>1. TimeFits(t)
    BY <1>3 DEF TimeFits
  <2> QED
    BY <1>1, <1>3, <1>6, <2>1, ErasedKeeps
<1> QED
  BY <1>1, <1>5, <1>6 DEF Erase

\* A loop that reaches for a limit is counted before it goes past the test of it.
LEMMA TakesKeeps ==
    ASSUME IInv, NEW ch \in Channels, NEW c \in Clients, UNCHANGED <<ss, sessions, backlog, lis, scenario>>,
           scenario.channelOf[c] = ch, recv[ch].pc = "recv", sessions[Key][c] = None, Len(backlog) < Backlog,
           recv' = [recv EXCEPT ![ch] = [pc |-> "count", from |-> c, sess |-> None]]
    PROVE  IInv'
<1> USE DEF IInv
<1>1. /\ recv' \in [Channels -> Loops] /\ recv'[ch].pc = "count" /\ recv'[ch].from = c
      /\ \A d \in Channels \ {ch} : recv'[d] = recv[d]
  BY DEF TypeOK, Loops
<1>2. TypeOK' /\ MapFits' /\ LoopsFit'
  <2>1. TypeOK' /\ MapFits'
    BY <1>1 DEF TypeOK, MapFits
  <2>2. Key' = Key
    BY DEF Key
  <2>3. LoopsFit'
    BY <1>1, <2>2 DEF LoopsFit
  <2> QED
    BY <2>1, <2>3
<1>3. /\ Pushing' = Pushing /\ Creating' = Creating /\ Pushed' = Pushed
      /\ Read' = Read /\ Made' = Made /\ \A d \in Pushing : recv'[d] = recv[d]
  BY <1>1 DEF Pushing, Creating, Pushed, Read, Made
<1>4. OwnersFit'
  BY <1>3 DEF OwnersFit
<1>5. ch \in Loop
  <2>1. scenario.channelOf \in [Clients -> Channels]
    BY KcpServerAssumption DEF TypeOK
  <2> QED
    BY <2>1 DEF Loop, Range
<1>6. Taking' \subseteq Loop /\ Taking \subseteq Loop
  BY <1>1, <1>5 DEF Taking, LimitsFit
<1>7. ch \notin Creating /\ Live' = Live /\ Loop' = Loop /\ Cardinality(Taking') \in Nat
  BY <1>6, SetsFinite, FS_Subset, FS_CardinalityType DEF Creating, Live, LiveIn, Loop
<1>8. Len(backlog) + Cardinality(Taking') <= Backlog + Cardinality(Loop) - 1
  <2>1. Cardinality(Taking') <= Cardinality(Loop)
    BY <1>6, SetsFinite, FS_Subset
  <2>2. Len(backlog) \in Nat /\ Cardinality(Loop) \in Nat /\ Backlog \in Nat
    BY SetsFinite
  <2> QED
    BY ONLY <2>1, <2>2, <1>7, Len(backlog) < Backlog
<1>9. LimitsFit'
  BY <1>3, <1>6, <1>7, <1>8 DEF LimitsFit, MaxConn
<1> QED
  BY <1>2, <1>4, <1>9

LEMMA PacketKeeps ==
    ASSUME IInv, NEW c \in Clients, NEW kind \in {"connect", "data"}, Packet(c, kind), UNCHANGED scenario
    PROVE  IInv'
<1> USE DEF IInv
<1> DEFINE ch == scenario.channelOf[c]
           s == sessions[Key][c]
<1>1. /\ ch \in Channels /\ s \in Sids \cup {None} /\ recv[ch].pc = "recv"
      /\ recv \in [Channels -> Loops] /\ ss \in [Sids -> Session]
      /\ UNCHANGED <<backlog, sessions, lis>>
  BY KcpServerAssumption DEF TypeOK, Packet, Key, Keys
<1>0. LisKept
  BY <1>1, LisSame
<1>2. CASE UNCHANGED <<recv, ss>>
  <2>1. \A q \in Sids : SameCore(ss[q], ss'[q])
    BY <1>1, <1>2 DEF SameCore
  <2> QED
    BY <1>1, <1>2, <2>1, <1>0, QuietKeeps, RecvSame
<1>3. CASE /\ s = None /\ Len(backlog) < Backlog /\ UNCHANGED ss
           /\ recv' = [recv EXCEPT ![ch] = [pc |-> "count", from |-> c, sess |-> None]]
  BY <1>1, <1>3, TakesKeeps
<1>4. CASE /\ s # None /\ UNCHANGED ss
           /\ recv' = [recv EXCEPT ![ch] = [pc |-> "close", from |-> c, sess |-> s]]
  <2>1. [pc |-> "close", from |-> c, sess |-> s] \in Loops
    BY <1>1 DEF Loops
  <2>2. LoopsKept
    BY <1>1, <1>4, <2>1 DEF LoopsKept
  <2>3. \A q \in Sids : SameCore(ss[q], ss'[q])
    BY <1>1, <1>4 DEF SameCore
  <2> QED
    BY <1>1, <1>4, <2>2, <2>3, <1>0, QuietKeeps
<1>5. ASSUME s # None, UNCHANGED recv, NEW t, SameCore(ss[s], t), ss' = [ss EXCEPT ![s] = t]
      PROVE  IInv'
  <2>1. s \in Sids /\ ss'[s] = t
    BY <1>1, <1>5
  <2>2. Quiet(s)
    BY <1>5, <2>1 DEF Quiet
  <2> QED
    BY <1>1, <1>5, <2>1, <2>2, <1>0, QuietSessionKeeps, RecvSame
<1>6. CASE s # None /\ UNCHANGED recv /\ ss' = [ss EXCEPT ![s] = Received(@)]
  <2> DEFINE r == ss[s]
             t == [r EXCEPT !.ready = r.ready + 1]
  <2>0. s \in Sids /\ r \in Session
    BY <1>1, <1>6
  <2>1. s \in Sids /\ r \in Session /\ ss' = [ss EXCEPT ![s] = SignalRead(t)]
    BY <2>0, <1>6 DEF Received
  <2>2. r.ready + 1 \in Nat
    BY <2>1 DEF Session
  <2> HIDE DEF r
  <2>3. t \in Session /\ Core(r, t)
    BY <2>1, <2>2 DEF Session, Core
  <2> HIDE DEF t
  <2>4. SameCore(r, SignalRead(t))
    BY <2>3, CoreFits, SignalFits, SameTrans
  <2> QED
    BY <1>5, <1>6, <2>1, <2>4 DEF r
<1>7. CASE s # None /\ UNCHANGED recv /\ ss' = [ss EXCEPT ![s] = NotifyReadError(@)]
  <2>1. s \in Sids /\ ss[s] \in Session /\ ss' = [ss EXCEPT ![s] = NotifyReadError(ss[s])]
    BY <1>1, <1>7
  <2>2. SameCore(ss[s], NotifyReadError(ss[s]))
    BY <2>1, NotifyFits
  <2> QED
    BY <1>5, <1>7, <2>1, <2>2
<1>8. ~(Len(backlog) >= Backlog) => Len(backlog) < Backlog
  BY SetsFinite
<1> QED
  BY <1>2, <1>3, <1>4, <1>6, <1>7, <1>8 DEF Packet, IsConnectPacket

\* The number of sessions: the loop gives up, or is counted until it has made its session.
LEMMA CountKeeps ==
    ASSUME IInv, NEW ch \in Channels, Count(ch), UNCHANGED scenario
    PROVE  IInv'
<1> USE DEF IInv
<1>1. /\ recv[ch].pc = "count" /\ recv \in [Channels -> Loops]
      /\ UNCHANGED <<backlog, sessions, ss, lis>>
  BY DEF TypeOK, Count
<1> DEFINE full == Live >= MaxConn
           p == [recv[ch] EXCEPT !.pc = "create"]
<1>2. p \in Loops /\ p.pc = "create" /\ p.from = recv[ch].from /\ Idle \in Loops /\ Idle.pc = "recv"
  BY <1>1 DEF Loops, Idle
<1>3. recv' = [recv EXCEPT ![ch] = IF full THEN Idle ELSE p]
  BY <1>1 DEF Count
<1> HIDE DEF p, full
<1>4. /\ recv' \in [Channels -> Loops] /\ recv'[ch] = IF full THEN Idle ELSE p
      /\ \A d \in Channels \ {ch} : recv'[d] = recv[d]
  BY <1>1, <1>2, <1>3
<1>5. TypeOK' /\ MapFits' /\ LoopsFit'
  BY <1>1, <1>2, <1>4 DEF TypeOK, MapFits, LoopsFit, Key
<1>6. /\ Pushing' = Pushing /\ Pushed' = Pushed
      /\ Read' = Read /\ Made' = Made /\ \A d \in Pushing : recv'[d] = recv[d]
  BY <1>1, <1>2, <1>4 DEF Pushing, Pushed, Read, Made
<1>7. OwnersFit'
  BY <1>1, <1>6 DEF OwnersFit
<1>8. Live' = Live /\ Loop' = Loop /\ MaxConn' = MaxConn
  BY <1>1 DEF Live, LiveIn, Loop, MaxConn
<1>9. /\ Live \in Nat /\ Cardinality(Creating) \in Nat /\ Cardinality(Taking) \in Nat
      /\ Cardinality(Loop) \in Nat /\ MaxConn \in Nat /\ Backlog \in Nat /\ Len(backlog) \in Nat
  BY SetsFinite
<1>10. /\ Taking \subseteq Loop
       /\ Live + Cardinality(Creating) <= MaxConn + Cardinality(Loop) - 1
       /\ Len(backlog) + Cardinality(Taking) <= Backlog + Cardinality(Loop) - 1
  BY DEF LimitsFit
<1>11. Taking' \subseteq Taking
  BY <1>1, <1>4 DEF Taking
<1>12. Cardinality(Taking') <= Cardinality(Taking) /\ Cardinality(Taking') \in Nat
  BY <1>11, SetsFinite, FS_Subset, FS_CardinalityType
<1>13. Len(backlog) + Cardinality(Taking') <= Backlog + Cardinality(Loop) - 1
  <2>1. Len(backlog) + Cardinality(Taking) <= Backlog + Cardinality(Loop) - 1
    BY <1>10
  <2>2. \A n, k, l, b, o \in Nat : l <= k /\ n + k <= b + o - 1 => n + l <= b + o - 1
    OBVIOUS
  <2> QED
    BY ONLY <1>9, <1>12, <2>1, <2>2
<1>14. Live + Cardinality(Creating') <= MaxConn + Cardinality(Loop) - 1
  <2>1. CASE full
    <3>1. Creating' = Creating
      BY <1>1, <1>2, <1>4, <2>1 DEF Creating
    <3> QED
      BY <3>1, <1>10
  <2>2. CASE ~full
    <3>1. Creating \subseteq Loop /\ ch \notin Creating /\ ch \in Loop
      BY <1>1, <1>10 DEF Creating, Taking
    <3>2. Creating' = Creating \cup {ch}
      BY <1>2, <1>4, <2>2 DEF Creating
    <3>3. Cardinality(Creating') <= Cardinality(Loop) /\ Cardinality(Creating') \in Nat
      BY <3>1, <3>2, SetsFinite, FS_Subset, FS_CardinalityType
    <3>4. Live < MaxConn
      BY <1>9, <2>2 DEF full
    <3>5. Live + Cardinality(Creating') <= MaxConn + Cardinality(Loop) - 1
      <4>1. \A l, k, m, o \in Nat : k <= o /\ l < m => l + k <= m + o - 1
        OBVIOUS
      <4> QED
        BY ONLY <1>9, <3>3, <3>4, <4>1
    <3> QED
      BY <3>5
  <2> QED
    BY <2>1, <2>2
<1>15. LimitsFit'
  BY <1>1, <1>8, <1>10, <1>11, <1>13, <1>14 DEF LimitsFit
<1> QED
  BY <1>1, <1>5, <1>7, <1>15

LEMMA NewFits ==
    ASSUME NEW a \in Clients
    PROVE  /\ NoSession \in Session /\ NewSession(a) \in Session
           /\ NewSession(a).cl = "open" /\ NewSession(a).addr = a /\ NewSession(a).reader = "none"
           /\ TimeFits(NewSession(a)) /\ TimeFits(NoSession)
<1>1. NoSession \in Session /\ TimeFits(NoSession)
  <2>1. <<>> \in Seq({"msg", "stop"})
    OBVIOUS
  <2> QED
    BY <2>1 DEF NoSession, Session, ReaderAt, SenderAt, TimeFits
<1>2. NewSession(a) \in Session
  BY <1>1 DEF NewSession, Session
<1>3. /\ NewSession(a).cl = "open" /\ NewSession(a).addr = a /\ NewSession(a).reader = "none"
      /\ ~NewSession(a).armed /\ NewSession(a).queued = 0 /\ ~NewSession(a).bReadTimeout
  BY DEF NewSession, NoSession
<1> QED
  BY <1>1, <1>2, <1>3 DEF TimeFits

\* The address has no session still, since the loop is the only one that can give it one.
LEMMA CreateKeeps ==
    ASSUME IInv, NEW ch \in Channels, Create(ch), UNCHANGED scenario
    PROVE  IInv'
<1> USE DEF IInv
<1> DEFINE c == recv[ch].from
           t == NewSession(c)
<1>1. /\ recv[ch].pc = "create" /\ recv \in [Channels -> Loops] /\ ss \in [Sids -> Session]
      /\ sessions \in [Keys -> [Clients -> Sids \cup {None}]] /\ UNCHANGED backlog
      /\ Key \in Keys
  BY DEF TypeOK, Create, Key, Keys
<1>2. c \in Clients /\ scenario.channelOf[c] = ch /\ sessions[Key][c] = None
  BY <1>1 DEF LoopsFit
<1> DEFINE known == \E k \in Keys : sessions[k][c] # None
<1>3. PICK s \in Sids : /\ ss[s].cl = "none" /\ ss' = [ss EXCEPT ![s] = t]
                        /\ sessions' = [sessions EXCEPT ![Key][c] = s]
                        /\ recv' = [recv EXCEPT ![ch].pc = "push", ![ch].sess = s]
  <2>1. scenario.sids \subseteq Sids
    BY KcpServerAssumption DEF TypeOK
  <2>2. \E s \in scenario.sids :
          /\ ss[s].cl = "none" /\ ss' = [ss EXCEPT ![s] = t]
          /\ sessions' = [sessions EXCEPT ![Key][c] = s]
          /\ recv' = [recv EXCEPT ![ch].pc = "push", ![ch].sess = s]
    BY DEF Create
  <2> QED
    BY ONLY <2>1, <2>2
<1>0. /\ lis' \in [bClose : BOOLEAN, bReadError : BOOLEAN, twice : SUBSET Clients]
      /\ lis'.bClose = lis.bClose /\ lis.twice \subseteq lis'.twice
      /\ lis'.twice \subseteq lis.twice \cup {c}
      /\ c \in lis'.twice <=> c \in lis.twice \/ known
  <2>1. lis \in [bClose : BOOLEAN, bReadError : BOOLEAN, twice : SUBSET Clients]
    BY DEF TypeOK
  <2>2. lis' = [lis EXCEPT !.twice = lis.twice \cup {d \in {c} : \E k \in Keys : sessions[k][d] # None}]
    BY DEF Create
  <2> DEFINE K == {d \in {c} : \E k \in Keys : sessions[k][d] # None}
  <2>3. K \subseteq {c} /\ (c \in K <=> known)
    OBVIOUS
  <2>4. lis' = [lis EXCEPT !.twice = lis.twice \cup K]
    BY <2>2
  <2> HIDE DEF K, known
  <2> QED
    BY <2>1, <2>3, <2>4, <1>2
<1>4. /\ t \in Session /\ t.cl = "open" /\ t.addr = c /\ t.reader = "none" /\ TimeFits(t)
  BY <1>2, NewFits
<1>5. recv'[ch].pc = "push" /\ recv'[ch].sess = s /\ recv' \in [Channels -> Loops]
      /\ \A d \in Channels \ {ch} : recv'[d] = recv[d]
  BY <1>1, <1>3 DEF Loops
<1> HIDE DEF t
<1>6. /\ ss' \in [Sids -> Session] /\ ss'[s] = t /\ \A q \in Sids \ {s} : ss'[q] = ss[q]
      /\ sessions' \in [Keys -> [Clients -> Sids \cup {None}]] /\ sessions'[Key][c] = s
      /\ \A l \in Keys, d \in Clients : l # Key \/ d # c => sessions'[l][d] = sessions[l][d]
  BY <1>1, <1>2, <1>3, <1>4
<1>7. TypeOK'
  BY <1>0, <1>1, <1>5, <1>6 DEF TypeOK
<1>8. MapFits'
  <2>1. ASSUME NEW l \in Keys, NEW d \in Clients, sessions'[l][d] # None
        PROVE  /\ ss'[sessions'[l][d]].addr = d /\ ss'[sessions'[l][d]].cl # "none"
               /\ d \notin lis'.twice => ss'[sessions'[l][d]].cl = "open"
    <3>1. CASE l = Key /\ d = c
      BY <3>1, <1>4, <1>6
    <3>2. CASE l # Key \/ d # c
      <4>1. sessions'[l][d] = sessions[l][d] /\ sessions[l][d] \in Sids
        BY <2>1, <3>2, <1>1, <1>6
      <4>2. /\ ss[sessions[l][d]].addr = d /\ ss[sessions[l][d]].cl # "none"
            /\ d \notin lis.twice => ss[sessions[l][d]].cl = "open"
        BY <2>1, <4>1 DEF MapFits
      <4>3. sessions[l][d] # s
        BY <4>2, <1>3
      <4> QED
        BY <4>1, <4>2, <4>3, <1>0, <1>6
    <3> QED
      BY <3>1, <3>2
  <2>2. ASSUME NEW q \in Sids, ss'[q].cl = "open"
        PROVE  /\ ss'[q].addr \in Clients
               /\ ss'[q].addr \notin lis'.twice => \E l \in Keys : sessions'[l][ss'[q].addr] = q
    <3>1. CASE q = s
      BY <3>1, <1>1, <1>2, <1>4, <1>6
    <3>2. CASE q # s
      <4>1. ss'[q] = ss[q] /\ ss[q].cl = "open" /\ ss[q].addr \in Clients
        BY <2>2, <3>2, <1>6 DEF MapFits
      <4>2. ASSUME ss[q].addr \notin lis'.twice
            PROVE  \E l \in Keys : sessions'[l][ss[q].addr] = q
        <5>1. PICK l \in Keys : sessions[l][ss[q].addr] = q
          BY <4>1, <4>2, <1>0 DEF MapFits
        <5>2. l # Key \/ ss[q].addr # c
          BY <5>1, <4>1, <1>2, KcpServerAssumption
        <5> QED
          BY <5>1, <5>2, <4>1, <1>6
      <4> QED
        BY <4>1, <4>2
    <3> QED
      BY <3>1, <3>2
  <2>3. ASSUME NEW d \in Clients, d \notin lis'.twice
        PROVE  sessions'["own"][d] = None \/ sessions'["-1"][d] = None
    <3>1. "own" \in Keys /\ "-1" \in Keys
      BY DEF Keys
    <3>2. CASE d = c
      <4>1. sessions["own"][c] = None /\ sessions["-1"][c] = None
        BY <2>3, <3>2, <1>0 DEF Keys
      <4>2. Key # "own" \/ Key # "-1"
        OBVIOUS
      <4> QED
        BY <3>1, <3>2, <4>1, <4>2, <1>6
    <3>3. CASE d # c
      <4>1. sessions["own"][d] = None \/ sessions["-1"][d] = None
        BY <2>3, <1>0 DEF MapFits
      <4> QED
        BY <3>1, <3>3, <4>1, <1>6
    <3> QED
      BY <3>2, <3>3
  <2>4. ASSUME ~lis'.bClose
        PROVE  lis'.twice = {} /\ \A d \in Clients : sessions'["-1"][d] = None
    <3>1. ~lis.bClose /\ lis.twice = {} /\ \A d \in Clients : sessions["-1"][d] = None
      BY <2>4, <1>0 DEF MapFits
    <3>2. Key = "own" /\ "-1" \in Keys
      BY <3>1 DEF Key, Keys
    <3>3. ~known
      BY <3>1, <3>2, <1>2 DEF Keys
    <3>4. lis'.twice = {}
      BY <3>1, <3>3, <1>0
    <3> QED
      BY <3>1, <3>2, <3>4, <1>6
  <2> HIDE DEF known
  <2> QED
    BY <2>1, <2>2, <2>3, <2>4 DEF MapFits
<1>9. LoopsFit'
  <2>1. ASSUME NEW d \in Channels, recv'[d].pc \in {"count", "create"}
        PROVE  /\ recv'[d].from \in Clients /\ scenario.channelOf[recv'[d].from] = d
               /\ sessions'[Key][recv'[d].from] = None
    <3>1. d # ch /\ recv'[d] = recv[d]
      BY <2>1, <1>5
    <3>2. recv[d].from \in Clients /\ scenario.channelOf[recv[d].from] = d
          /\ sessions[Key][recv[d].from] = None
      BY <2>1, <3>1 DEF LoopsFit
    <3>3. recv[d].from # c
      BY <3>1, <3>2, <1>2
    <3> QED
      BY <3>1, <3>2, <3>3, <1>1, <1>6
  <2>2. Key' = Key
    BY <1>0 DEF Key
  <2> QED
    BY <2>1, <2>2 DEF LoopsFit
<1>10. s \notin Made /\ s \notin Pushed /\ s \notin ToSet(backlog) /\ s \notin Read
  BY <1>3 DEF Made, OwnersFit
<1>11. /\ Pushing' = Pushing \cup {ch} /\ ch \notin Pushing
       /\ \A d \in Pushing : recv'[d] = recv[d]
       /\ ch \in Creating /\ ch \notin Creating' /\ Creating' \ {ch} = Creating \ {ch}
       /\ Taking' = Taking
  BY <1>1, <1>5 DEF Pushing, Creating, Taking
<1>12. Pushed' = Pushed \cup {s} /\ Read' = Read /\ Made' = Made \cup {s}
  <2>1. Pushed' = Pushed \cup {s}
    BY <1>5, <1>11 DEF Pushed
  <2>2. Read' = Read
    BY <1>4, <1>6, <1>10 DEF Read
  <2>3. Made' = Made \cup {s}
    BY <1>4, <1>6 DEF Made
  <2> QED
    BY <2>1, <2>2, <2>3
<1>13. OwnersFit'
  <2>1. \A d \in Pushing : recv[d].sess # s
    BY <1>10 DEF Pushed
  <2>2. \A ch1, ch2 \in Pushing' : recv'[ch1].sess = recv'[ch2].sess => ch1 = ch2
    BY <2>1, <1>5, <1>11 DEF OwnersFit
  <2> QED
    BY <2>2, <1>1, <1>10, <1>12 DEF OwnersFit
<1>14. LimitsFit'
  <2>1. Live' = Live + 1
    BY <1>1, <1>2, <1>6, KcpServerAssumption, LiveChange DEF Maps
  <2>2. Live' = Live + 1 /\ Loop' = Loop /\ MaxConn' = MaxConn
    BY <2>1 DEF Loop, MaxConn
  <2>3. Cardinality(Creating') = Cardinality(Creating) - 1
    BY <1>11, CountChange, SetsFinite
  <2>4. /\ Live + Cardinality(Creating) <= MaxConn + Cardinality(Loop) - 1
        /\ Taking \subseteq Loop
        /\ Len(backlog) + Cardinality(Taking) <= Backlog + Cardinality(Loop) - 1
    BY DEF LimitsFit
  <2>5. (Live + 1) + (Cardinality(Creating) - 1) = Live + Cardinality(Creating)
    <3>1. Live \in Nat /\ Cardinality(Creating) \in Nat
      BY SetsFinite
    <3> QED
      BY ONLY <3>1
  <2> QED
    BY <2>2, <2>3, <2>4, <2>5, <1>1, <1>11 DEF LimitsFit
<1>15. \A q \in Sids : TimeFits(ss'[q])
  BY <1>4, <1>6
<1> QED
  BY <1>7, <1>8, <1>9, <1>13, <1>14, <1>15

\* The session goes from the loop to the queue, and the loop is counted no longer.
LEMMA PushKeeps ==
    ASSUME IInv, NEW ch \in Channels, PushBacklog(ch), UNCHANGED scenario
    PROVE  IInv'
<1> USE DEF IInv
<1> DEFINE s == recv[ch].sess
<1>1. /\ recv[ch].pc = "push" /\ recv \in [Channels -> Loops] /\ backlog \in Seq(Sids)
      /\ backlog' = Append(backlog, s) /\ recv' = [recv EXCEPT ![ch] = Idle]
      /\ UNCHANGED <<sessions, ss, lis>>
  BY DEF TypeOK, PushBacklog
<1>2. Idle \in Loops /\ Idle.pc = "recv"
  BY DEF Idle, Loops
<1>3. /\ recv' \in [Channels -> Loops] /\ recv'[ch].pc = "recv"
      /\ \A d \in Channels \ {ch} : recv'[d] = recv[d]
  BY <1>1, <1>2
<1>4. ch \in Pushing /\ s \in Pushed /\ s \in Sids
  <2>1. ch \in Pushing /\ s \in Pushed
    BY <1>1 DEF Pushing, Pushed
  <2>2. Pushed \subseteq Made /\ Made \subseteq Sids
    BY DEF OwnersFit, Made
  <2> QED
    BY <2>1, <2>2
<1>5. /\ backlog' \in Seq(Sids) /\ ToSet(backlog') = ToSet(backlog) \cup {s} /\ IsInjective(backlog')
      /\ Len(backlog') = Len(backlog) + 1
  <2>1. s \notin ToSet(backlog) /\ IsInjective(backlog)
    BY <1>4 DEF OwnersFit
  <2> QED
    BY <2>1, <1>1, <1>4, AppendSet
<1>6. TypeOK' /\ MapFits' /\ LoopsFit'
  BY <1>1, <1>3, <1>5 DEF TypeOK, MapFits, LoopsFit, Key
<1>7. /\ Pushing' = Pushing \ {ch} /\ Creating' = Creating
      /\ ch \in Taking /\ ch \notin Taking' /\ Taking' \ {ch} = Taking \ {ch}
      /\ \A d \in Pushing' : recv'[d] = recv[d]
  BY <1>1, <1>3 DEF Pushing, Creating, Taking
<1>8. Pushed' = Pushed \ {s} /\ Read' = Read /\ Made' = Made
  <2>1. \A d \in Pushing : recv[d].sess = s => d = ch
    BY <1>4 DEF OwnersFit
  <2>2. Pushed' = Pushed \ {s}
    BY <2>1, <1>4, <1>7 DEF Pushed
  <2> QED
    BY <2>2, <1>1 DEF Read, Made
<1>9. OwnersFit'
  <2>1. \A ch1, ch2 \in Pushing' : recv'[ch1].sess = recv'[ch2].sess => ch1 = ch2
    BY <1>7 DEF OwnersFit
  <2> QED
    BY <2>1, <1>4, <1>5, <1>8 DEF OwnersFit
<1>10. LimitsFit'
  <2>1. Cardinality(Taking') = Cardinality(Taking) - 1 /\ Loop' = Loop /\ Live' = Live
    BY <1>1, <1>7, CountChange, SetsFinite DEF Loop, Live, LiveIn
  <2>2. (Len(backlog) + 1) + (Cardinality(Taking) - 1) = Len(backlog) + Cardinality(Taking)
    <3>1. Len(backlog) \in Nat /\ Cardinality(Taking) \in Nat
      BY SetsFinite
    <3> QED
      BY ONLY <3>1
  <2>3. Taking' \subseteq Taking
    BY <1>7
  <2> QED
    BY <2>1, <2>2, <2>3, <1>5, <1>7 DEF LimitsFit, MaxConn
<1>11. \A q \in Sids : TimeFits(ss'[q])
  BY <1>1
<1> QED
  BY <1>6, <1>9, <1>10, <1>11

\* A loop that ends tells every session in the map.
LEMMA RecvFailsKeeps ==
    ASSUME IInv, NEW ch \in Channels, RecvFails(ch), UNCHANGED scenario
    PROVE  IInv'
<1> USE DEF IInv
<1>1. /\ recv[ch].pc = "recv" /\ recv \in [Channels -> Loops] /\ ss \in [Sids -> Session]
      /\ recv' = [recv EXCEPT ![ch].pc = "exit"] /\ UNCHANGED <<sessions, backlog>>
  BY DEF TypeOK, RecvFails
<1>2. LoopsKept /\ LisKept
  <2>1. lis' = lis \/ lis' = [lis EXCEPT !.bReadError = TRUE]
    BY DEF RecvFails, NotifyListenerError
  <2>2. LisKept
    BY <2>1 DEF TypeOK, LisKept
  <2>3. LoopsKept
    BY <1>1 DEF LoopsKept, Loops
  <2> QED
    BY <2>2, <2>3
<1>3. \A q \in Sids : ss'[q] = ss[q] \/ ss'[q] = NotifyReadError(ss[q])
  BY DEF RecvFails, NotifyListenerError
<1>4. \A q \in Sids : SameCore(ss[q], ss'[q])
  <2>1. \A q \in Sids : SameCore(ss[q], ss[q])
    BY <1>1 DEF SameCore
  <2> QED
    BY <2>1, <1>1, <1>3, NotifyFits
<1>5. ss' \in [Sids -> Session]
  <2>1. \A q \in Sids : ss'[q] \in Session
    BY <1>4 DEF SameCore
  <2>2. ss' = ss \/ ss' = [s \in Sids |-> IF Entered(s) THEN NotifyReadError(ss[s]) ELSE ss[s]]
    BY DEF RecvFails, NotifyListenerError
  <2>3. CASE ss' = ss
    BY <2>3, <1>1
  <2>4. CASE ss' = [s \in Sids |-> IF Entered(s) THEN NotifyReadError(ss[s]) ELSE ss[s]]
    BY <2>1, <2>4
  <2> QED
    BY <2>2, <2>3, <2>4
<1> QED
  BY <1>1, <1>2, <1>4, <1>5, QuietKeeps

\* The session at the head of the queue gets its reader.
LEMMA TakenKeeps ==
    ASSUME IInv, UNCHANGED <<sessions, recv, lis, scenario>>, backlog # <<>>,
           backlog' = Tail(backlog), ss' = [ss EXCEPT ![Head(backlog)].reader = "start"]
    PROVE  IInv'
<1> USE DEF IInv
<1> DEFINE s == Head(backlog)
           t == [ss[s] EXCEPT !.reader = "start"]
<1>1. /\ recv \in [Channels -> Loops] /\ ss \in [Sids -> Session]
      /\ backlog \in Seq(Sids) /\ IsInjective(backlog)
  BY DEF TypeOK, OwnersFit
<1>2. /\ s \in ToSet(backlog) /\ s \in Sids /\ backlog' \in Seq(Sids)
      /\ ToSet(backlog') = ToSet(backlog) \ {s} /\ IsInjective(backlog')
  BY <1>1, TailSet
<1>3. Len(backlog') = Len(backlog) - 1 /\ Len(backlog) \in Nat
  BY <1>1
<1> HIDE DEF s
<1>4. s \in Made /\ s \notin Read /\ ss[s].reader = "none" /\ ss[s].cl # "none"
  BY <1>2 DEF OwnersFit, Read, Made
<1>5. /\ t \in Session /\ t.cl = ss[s].cl /\ t.addr = ss[s].addr /\ t.reader = "start"
      /\ t.armed = ss[s].armed /\ t.queued = ss[s].queued /\ t.bReadTimeout = ss[s].bReadTimeout
  <2>1. ss[s] \in Session
    BY <1>1, <1>2
  <2> QED
    BY ONLY <2>1 DEF Session, ReaderAt
<1>6. ss' = [ss EXCEPT ![s] = t]
  BY <1>1, <1>2 DEF s
<1> HIDE DEF t
<1>7. ss' \in [Sids -> Session] /\ ss'[s] = t /\ \A q \in Sids \ {s} : ss'[q] = ss[q]
  BY <1>1, <1>2, <1>5, <1>6
<1>8. TypeOK'
  BY <1>2, <1>7 DEF TypeOK
<1>9. \A q \in Sids : ss'[q].cl = ss[q].cl /\ ss'[q].addr = ss[q].addr
  BY <1>5, <1>7
<1>10. MapFits'
  <2>1. \A k \in Keys, c \in Clients : sessions[k][c] # None => sessions[k][c] \in Sids
    BY DEF TypeOK
  <2> QED
    BY <2>1, <1>9 DEF MapFits
<1>11. LoopsFit'
  BY DEF LoopsFit, Key
<1>12. /\ Pushing' = Pushing /\ Creating' = Creating /\ Taking' = Taking /\ Pushed' = Pushed
       /\ Live' = Live /\ Loop' = Loop
  BY DEF Pushing, Creating, Taking, Pushed, Live, LiveIn, Loop
<1>13. Read' = Read \cup {s} /\ Made' = Made
  <2>1. Read' = Read \cup {s}
    BY <1>2, <1>5, <1>7 DEF Read
  <2>2. Made' = Made
    BY <1>9 DEF Made
  <2> QED
    BY <2>1, <2>2
<1>14. OwnersFit'
  BY <1>2, <1>12, <1>13 DEF OwnersFit
<1>15. LimitsFit'
  <2>1. Len(backlog) + Cardinality(Taking) <= Backlog + Cardinality(Loop) - 1
    BY DEF LimitsFit
  <2>2. \A n, k \in Nat, b \in Int : n + k <= b => (n - 1) + k <= b
    OBVIOUS
  <2>3. Backlog + Cardinality(Loop) - 1 \in Int /\ Cardinality(Taking) \in Nat
    BY SetsFinite
  <2>4. Len(backlog') + Cardinality(Taking) <= Backlog + Cardinality(Loop) - 1
    BY ONLY <2>1, <2>2, <2>3, <1>3
  <2> QED
    BY <2>4, <1>12 DEF LimitsFit, MaxConn
<1>16. \A q \in Sids : TimeFits(ss'[q])
  <2>1. TimeFits(t)
    <3>1. TimeFits(ss[s])
      BY <1>2
    <3> QED
      BY <3>1, <1>4, <1>5 DEF TimeFits
  <2> QED
    BY <2>1, <1>7
<1> QED
  BY <1>8, <1>10, <1>11, <1>14, <1>15, <1>16

LEMMA AcceptKeeps ==
    ASSUME IInv, Accept, UNCHANGED scenario
    PROVE  IInv'
<1>1. ASSUME UNCHANGED <<backlog, ss, sessions, recv>>, LisKept PROVE IInv'
  <2>1. ss' \in [Sids -> Session] /\ \A q \in Sids : SameCore(ss[q], ss'[q])
    BY <1>1 DEF IInv, TypeOK, SameCore
  <2> QED
    BY <1>1, <2>1, QuietKeeps, RecvSame
<1>2. CASE AcceptTest
  BY <1>1, <1>2, TakenKeeps, LisSame DEF AcceptTest
<1>3. CASE AcceptWait
  BY <1>1, <1>3, LisSame DEF AcceptWait
<1>4. CASE AcceptLoop
  <2>1. lis' = [lis EXCEPT !.bClose = lis.bClose \/ isStop] /\ UNCHANGED <<backlog, ss, sessions, recv>>
    BY <1>4 DEF AcceptLoop, OnListener
  <2>2. lis' = lis \/ lis' = [lis EXCEPT !.bClose = TRUE]
    <3>1. lis \in [bClose : BOOLEAN, bReadError : BOOLEAN, twice : SUBSET Clients]
      BY DEF IInv, TypeOK
    <3>2. acc = "loop" /\ (acc' = "done" \/ acc' = "test")
      BY <1>4 DEF AcceptLoop
    <3>3. CASE lis.bClose \/ isStop
      BY <3>1, <3>3, <2>1
    <3>4. CASE ~(lis.bClose \/ isStop)
      BY <3>1, <3>4, <2>1
    <3> QED
      BY <3>3, <3>4
  <2>3. LisKept
    BY <2>2 DEF IInv, TypeOK, LisKept
  <2> QED
    BY <2>1, <2>3, <1>1
<1> QED
  BY <1>2, <1>3, <1>4 DEF Accept
-----------------------------------------------------------------------------
(***************************************************************************)
(* The invariant holds.                                                    *)
(***************************************************************************)

LEMMA InitFits ==
    ASSUME Init
    PROVE  IInv
<1>1. PICK c \in Clients : TRUE
  BY KcpServerAssumption
<1>2. NoSession \in Session /\ TimeFits(NoSession)
  BY <1>1, NewFits
<1>3. NoSession.cl = "none" /\ NoSession.reader = "none"
  BY DEF NoSession
<1>4. /\ scenario \in Scenarios /\ backlog = <<>> /\ sessions = [k \in Keys |-> [d \in Clients |-> None]]
      /\ lis = [bClose |-> FALSE, bReadError |-> FALSE, twice |-> {}]
      /\ recv = [ch \in Channels |-> [pc |-> "recv", from |-> None, sess |-> None]]
      /\ ss = [s \in Sids |-> NoSession]
  BY DEF Init
<1>5. backlog \in Seq(Sids) /\ ToSet(backlog) = {} /\ IsInjective(backlog) /\ Len(backlog) = 0
  BY <1>4, EmptyQueue
<1>6. TypeOK
  BY <1>2, <1>4, <1>5 DEF TypeOK, Loops
<1>7. MapFits /\ LoopsFit
  BY <1>3, <1>4 DEF MapFits, LoopsFit, Keys
<1>8. Pushing = {} /\ Creating = {} /\ Taking = {} /\ \A k \in Keys : LiveIn(k) = {}
  BY <1>4 DEF Pushing, Creating, Taking, LiveIn
<1>9. Pushed = {} /\ Read = {} /\ Made = {}
  BY <1>3, <1>4, <1>8 DEF Pushed, Read, Made
<1>10. OwnersFit
  BY <1>5, <1>8, <1>9 DEF OwnersFit
<1>11. LimitsFit
  <2>1. Loop # {}
    <3>1. scenario.channelOf \in [Clients -> Channels]
      BY <1>4, KcpServerAssumption
    <3> QED
      BY <1>1, <3>1 DEF Loop, Range
  <2>2. Cardinality(Loop) \in Nat /\ Cardinality(Loop) # 0
    BY <1>6, <2>1, SetsFinite, FS_EmptySet
  <2>3. MaxConn \in Nat /\ Backlog \in Nat
    BY <1>6, SetsFinite
  <2>4. Cardinality(Taking) = 0 /\ Live = 0 /\ Cardinality(Creating) = 0
    BY <1>8, FS_EmptySet DEF Live, Keys
  <2>5. /\ 0 + 0 <= MaxConn + Cardinality(Loop) - 1 /\ 0 + 0 <= Backlog + Cardinality(Loop) - 1
    BY ONLY <2>2, <2>3
  <2> QED
    BY <1>5, <1>8, <2>4, <2>5 DEF LimitsFit
<1>12. \A s \in Sids : TimeFits(ss[s])
  BY <1>2, <1>4
<1> QED
  BY <1>6, <1>7, <1>10, <1>11, <1>12 DEF IInv

\* Steps that touch neither sessions nor loops.
LEMMA ElseKeeps ==
    ASSUME IInv, LisKept, UNCHANGED <<ss, recv, sessions, backlog, scenario>>
    PROVE  IInv'
<1>1. ss' \in [Sids -> Session] /\ \A q \in Sids : SameCore(ss[q], ss'[q])
  BY DEF IInv, TypeOK, SameCore
<1> QED
  BY <1>1, QuietKeeps, RecvSame

LEMMA StepFits ==
    ASSUME IInv, [Next]_vars
    PROVE  IInv'
<1>1. CASE UNCHANGED vars
  BY <1>1, ElseKeeps, LisSame DEF vars, moving
<1>2. ASSUME NEW s \in Sids, UNCHANGED scenario,
             \/ Reader(s) \/ Sender(s) \/ Expire(s) \/ NotifyReadTimeout(s)
             \/ UpdateFails(s) \/ UserSend(s)
             \/ \E who \in Closers : Close(s, who)
      PROVE  IInv'
  BY <1>2, SessionKeeps, CloseBeginKeeps DEF Close
<1>3. ASSUME NEW ch \in Channels, UNCHANGED scenario, RecvLoop(ch) \/ RecvBatch(ch) \/ RecvFails(ch)
      PROVE  IInv'
  <2>1. CASE RecvBatch(ch)
    <3>1. UNCHANGED <<ss, recv, sessions, backlog, lis>>
      BY <2>1 DEF RecvBatch
    <3> QED
      BY <1>3, <3>1, ElseKeeps, LisSame
  <2> QED
    BY <1>3, <2>1, CountKeeps, CreateKeeps, PushKeeps, RecvFailsKeeps DEF RecvLoop
<1>4. ASSUME NEW c \in Clients, NEW kind \in {"connect", "data"}, UNCHANGED scenario, Packet(c, kind)
      PROVE  IInv'
  BY <1>4, PacketKeeps
<1>5. CASE UNCHANGED scenario /\ Accept
  BY <1>5, AcceptKeeps
<1>6. CASE UNCHANGED scenario /\ (CleanupBlacklist \/ Stop \/ StopListener)
  <2>1. CASE CleanupBlacklist \/ Stop
    BY <1>6, <2>1, ElseKeeps, LisSame DEF CleanupBlacklist, OnListener, Stop
  <2>2. CASE StopListener
    <3>1. lis' = [lis EXCEPT !.bClose = TRUE]
      BY <2>2 DEF StopListener, CloseListener
    <3>2. LisKept
      BY <3>1 DEF IInv, TypeOK, LisKept
    <3> QED
      BY <1>6, <2>2, <3>2, ElseKeeps DEF StopListener
  <2> QED
    BY <1>6, <2>1, <2>2
<1> QED
  BY <1>1, <1>2, <1>3, <1>4, <1>5, <1>6 DEF Next, Step

THEOREM Inductive == Spec => []IInv
<1>1. Init => IInv
  BY InitFits
<1>2. IInv /\ [Next]_vars => IInv'
  BY StepFits
<1> QED
  BY <1>1, <1>2, PTL DEF Spec
-----------------------------------------------------------------------------
(***************************************************************************)
(* The map, the limits and the timeouts.                                   *)
(***************************************************************************)

\* One owner in the sense of OwnersFit is one owner by the numbers.
LEMMA OneOwner ==
    ASSUME IInv, NEW s \in Sids, ss[s].cl # "none"
    PROVE  Cardinality({ch \in Channels : recv[ch].pc = "push" /\ recv[ch].sess = s})
           + Cardinality({i \in DOMAIN backlog : backlog[i] = s})
           + (IF ss[s].reader # "none" THEN 1 ELSE 0) = 1
<1> USE DEF IInv
<1> DEFINE P == {ch \in Channels : recv[ch].pc = "push" /\ recv[ch].sess = s}
           B == {i \in DOMAIN backlog : backlog[i] = s}
<1>1. IsFiniteSet(P) /\ IsFiniteSet(B)
  <2>1. IsFiniteSet(DOMAIN backlog)
    <3>1. DOMAIN backlog = 1..Len(backlog) /\ 1 \in Int /\ Len(backlog) \in Int
      BY DEF TypeOK
    <3> QED
      BY <3>1, FS_Interval
  <2>2. P \subseteq Channels /\ B \subseteq DOMAIN backlog
    OBVIOUS
  <2> QED
    BY <2>1, <2>2, KcpServerAssumption, FS_Subset
<1>2. \A x, y \in P : x = y
  BY DEF OwnersFit, Pushing
<1>3. \A x, y \in B : x = y
  BY DEF OwnersFit, IsInjective
<1>4. (P # {} <=> s \in Pushed) /\ (B # {} <=> s \in ToSet(backlog))
  <2>1. P # {} <=> s \in Pushed
    BY DEF Pushed, Pushing
  <2>2. DOMAIN backlog = 1..Len(backlog)
    BY DEF TypeOK
  <2> QED
    BY <2>1, <2>2 DEF ToSet
<1>5. /\ Cardinality(P) = IF s \in Pushed THEN 1 ELSE 0
      /\ Cardinality(B) = IF s \in ToSet(backlog) THEN 1 ELSE 0
  BY <1>1, <1>2, <1>3, <1>4, AtMostOne
<1>6. s \in Made /\ (ss[s].reader # "none" <=> s \in Read)
  BY DEF Made, Read
<1>7. /\ s \in Pushed \/ s \in ToSet(backlog) \/ s \in Read
      /\ ~(s \in Pushed /\ s \in ToSet(backlog)) /\ ~(s \in Pushed /\ s \in Read)
      /\ ~(s \in ToSet(backlog) /\ s \in Read)
  BY <1>6 DEF OwnersFit
<1> HIDE DEF P, B
<1>8. Cardinality(P) + Cardinality(B) + (IF ss[s].reader # "none" THEN 1 ELSE 0) = 1
  BY ONLY <1>5, <1>6, <1>7
<1> QED
  BY <1>8 DEF P, B

LEMMA SoundNow ==
    ASSUME IInv
    PROVE  SessionsSound
<1> USE DEF IInv
<1>1. ASSUME NEW s \in Sids, ss[s].addr \notin lis.twice
      PROVE  ss[s].cl = "open" <=> Entered(s)
  <2>1. ASSUME ss[s].cl = "open"
        PROVE  Entered(s)
    <3>1. PICK k \in Keys : sessions[k][ss[s].addr] = s /\ ss[s].addr \in Clients
      BY <1>1, <2>1 DEF MapFits
    <3> QED
      BY <3>1 DEF Entered
  <2>2. ASSUME Entered(s)
        PROVE  ss[s].cl = "open"
    <3>1. PICK k \in Keys, c \in Clients : sessions[k][c] = s
      BY <2>2 DEF Entered
    <3>2. sessions[k][c] # None
      BY <3>1, KcpServerAssumption
    <3> QED
      BY <3>1, <3>2, <1>1 DEF MapFits
  <2> QED
    BY <2>1, <2>2
<1>2. \A k \in Keys : \A c \in LiveIn(k) : ss[sessions[k][c]].addr = c
  BY DEF MapFits, LiveIn
<1>3. MapOwnsOpen
  <2>1. lis.twice # {} => lis.bClose
    BY DEF MapFits
  <2> QED
    BY <1>1, <1>2, <2>1, OneOwner DEF MapOwnsOpen
<1>4. /\ Live + Cardinality(Creating) <= MaxConn + Cardinality(Loop) - 1
      /\ Len(backlog) + Cardinality(Taking) <= Backlog + Cardinality(Loop) - 1
  BY DEF LimitsFit
<1>5. /\ Live \in Nat /\ Cardinality(Creating) \in Nat /\ Cardinality(Taking) \in Nat
      /\ Cardinality(Loop) \in Nat /\ MaxConn \in Nat /\ Backlog \in Nat /\ Len(backlog) \in Nat
  BY SetsFinite
<1>6. \A n, k, b, o \in Nat : n + k <= b + o - 1 => n <= b + (o - 1)
  OBVIOUS
<1>7. /\ Live <= MaxConn + (Cardinality(Loop) - 1)
      /\ Len(backlog) <= Backlog + (Cardinality(Loop) - 1)
  BY ONLY <1>4, <1>5, <1>6
<1>8. LimitsKept
  BY <1>7 DEF LimitsKept, Loop
<1> QED
  BY <1>3, <1>8 DEF SessionsSound

\* Every open session is found in a map under its own address, nothing else is, but for an
\* address that what was left of a batch at Close() gave a second session; a session has one
\* owner from the packet that makes it to its reader, and the limits of
\* KcpListener::packetInput() are overshot by the other receive loops at most.
THEOREM SessionsAreSound == Spec => []SessionsSound
<1>1. IInv => SessionsSound
  BY SoundNow
<1> QED
  BY <1>1, Inductive, PTL

\* A reader at its test is moved by its own steps only: what others do to the session leaves
\* it there.
AtTest(r) == r \in Session /\ r.reader = "test"

LEMMA StaysAtTest ==
    ASSUME NEW r, AtTest(r)
    PROVE  /\ AtTest(SignalRead(r)) /\ AtTest(SignalSend(r))
           /\ AtTest(NotifyReadError(r)) /\ AtTest(NotifyWriteError(r))
           /\ \A m \in {"msg", "stop"} : AtTest(Queued(r, m))
<1>1. ASSUME NEW t, AtTest(t) PROVE AtTest(SignalRead(t)) /\ AtTest(SignalSend(t))
  <2>1. SignalRead(t) \in Session /\ SignalSend(t) \in Session
    BY <1>1, SignalFits DEF AtTest, SameCore
  <2>2. SignalRead(t).reader = Woken("test") /\ SignalSend(t).reader = "test"
    BY <1>1 DEF AtTest, SignalRead, SignalSend, Session
  <2> QED
    BY <2>1, <2>2 DEF AtTest, Woken
<1>2. ASSUME NEW t, t = [r EXCEPT !.bReadError = TRUE] \/ t = [r EXCEPT !.bWriteError = TRUE]
      PROVE  AtTest(t)
  BY <1>2 DEF AtTest, Session
<1>3. AtTest(NotifyReadError(r)) /\ AtTest(NotifyWriteError(r))
  BY <1>1, <1>2 DEF NotifyReadError, NotifyWriteError
<1>4. ASSUME NEW m \in {"msg", "stop"} PROVE AtTest(Queued(r, m))
  <2> DEFINE t == [r EXCEPT !.sendq = Append(r.sendq, m)]
  <2>1. Append(r.sendq, m) \in Seq({"msg", "stop"})
    BY DEF AtTest, Session
  <2>2. AtTest(t)
    BY <2>1 DEF AtTest, Session
  <2>3. Queued(r, m) = SignalSend(t)
    BY DEF Queued
  <2> HIDE DEF t
  <2> QED
    BY <1>1, <2>2, <2>3
<1> QED
  BY <1>1, <1>3, <1>4

LEMMA SenderLeavesTest ==
    ASSUME TypeOK, NEW s \in Sids, Sender(s), AtTest(ss[s])
    PROVE  ss'[s].reader = "test"
<1> DEFINE r == ss[s]
<1>1. AtTest(r) /\ ss \in [Sids -> Session]
  BY DEF TypeOK
<1>2. ASSUME NEW t, OnSession(s, t) PROVE ss'[s] = t
  BY <1>1, <1>2 DEF OnSession
<1>3. CASE SendBegin(s)
  BY <1>1, <1>2, <1>3 DEF SendBegin, AtTest, Session
<1>4. CASE SendTest(s)
  <2> DEFINE t == IF r.sendq = <<>> /\ ~Told(r)
                  THEN [r EXCEPT !.sender = "gap"]
                  ELSE [r EXCEPT !.sender = "write", !.tmp = r.sendq, !.sendq = <<>>]
  <2>1. ss'[s] = t
    BY <1>2, <1>4 DEF SendTest
  <2>2. t.reader = "test"
    BY <1>1 DEF AtTest, Session
  <2> QED
    BY <2>1, <2>2
<1>5. CASE SendWait(s)
  BY <1>1, <1>2, <1>5 DEF SendWait, AtTest, Session
<1>6. CASE SendBatch(s)
  <2> DEFINE c == [r EXCEPT !.tmp = <<>>, !.sender = "close"]
  <2>1. AtTest(c)
    <3>1. <<>> \in Seq({"msg", "stop"}) /\ "close" \in SenderAt
      BY DEF SenderAt
    <3> QED
      BY <1>1, <3>1 DEF AtTest, Session
  <2>2. CASE OnSession(s, NotifyWriteError(c))
    <3> HIDE DEF c
    <3>1. AtTest(NotifyWriteError(c))
      BY <2>1, StaysAtTest
    <3> QED
      BY <2>2, <3>1, <1>2 DEF AtTest
  <2>3. CASE OnSession(s, c)
    BY <2>1, <2>3, <1>2 DEF AtTest
  <2>4. ASSUME NEW l, OnSession(s, [r EXCEPT !.sender = l]) PROVE ss'[s].reader = "test"
    BY <1>1, <1>2, <2>4 DEF AtTest, Session
  <2>5. CASE OnSession(s, [r EXCEPT !.tmp = Tail(@)])
    BY <1>1, <1>2, <2>5 DEF AtTest, Session
  <2> QED
    BY <1>6, <2>2, <2>3, <2>4, <2>5 DEF SendBatch, WriteMessage
<1> QED
  BY <1>3, <1>4, <1>5, <1>6 DEF Sender

\* The callbacks, the senders of messages and whoever closes the session.
LEMMA OthersLeaveTest ==
    ASSUME TypeOK, NEW s \in Sids, AtTest(ss[s]),
           \/ Expire(s) \/ NotifyReadTimeout(s) \/ UpdateFails(s) \/ UserSend(s)
           \/ \E who \in Closers : Close(s, who)
    PROVE  ss'[s].reader = "test"
<1> DEFINE r == ss[s]
<1>1. AtTest(r) /\ ss \in [Sids -> Session]
  BY DEF TypeOK
<1>2. ASSUME NEW t, OnSession(s, t) PROVE ss'[s] = t
  BY <1>1, <1>2 DEF OnSession
<1>3. CASE Expire(s)
  BY <1>1, <1>2, <1>3 DEF Expire, AtTest, Session
<1>4. CASE NotifyReadTimeout(s)
  <2> DEFINE t == [r EXCEPT !.queued = r.queued - 1, !.bReadTimeout = TRUE]
  <2>1. OnSession(s, SignalRead(t)) /\ r.queued > 0
    BY <1>4 DEF NotifyReadTimeout
  <2>2. r.queued \in Nat /\ r \in Session /\ r.reader = "test"
    BY <1>1 DEF AtTest, Session
  <2>3. r.queued - 1 \in Nat
    BY <2>1, <2>2
  <2> HIDE DEF r
  <2>4. AtTest(t)
    BY <2>2, <2>3 DEF AtTest, Session
  <2> HIDE DEF t
  <2>5. AtTest(SignalRead(t)) /\ ss'[s] = SignalRead(t)
    BY <2>1, <2>4, <1>2, StaysAtTest
  <2> QED
    BY <2>5 DEF AtTest
<1>5. CASE UpdateFails(s)
  BY <1>1, <1>2, <1>5, StaysAtTest DEF UpdateFails, OutputFails, AtTest
<1>6. CASE UserSend(s)
  BY <1>1, <1>2, <1>6, StaysAtTest DEF UserSend, AtTest
<1>7. ASSUME NEW who \in Closers, NEW t, AtTest(t), who # "reader"
      PROVE  Closed(s, who, t).reader = "test"
  BY <1>7 DEF AtTest, Closed, Session
<1>8. ASSUME NEW who \in Closers, Close(s, who) PROVE ss'[s].reader = "test"
  <2>1. who # "reader"
    <3>1. Closing(s, who)
      BY <1>8, Zenon DEF Close, CloseBegin, CloseEnd, CloseOver
    <3>2. ss[s].reader = "test"
      BY <1>1 DEF AtTest
    <3> QED
      BY <3>1, <3>2 DEF Closing
  <2>2. CASE CloseBegin(s, who)
    BY <1>1, <1>2, <2>2 DEF CloseBegin, AtTest, Session
  <2>3. CASE CloseOver(s, who)
    BY <1>1, <1>2, <1>7, <2>1, <2>3 DEF CloseOver
  <2>4. CASE CloseEnd(s, who)
    <3> DEFINE t == [r EXCEPT !.bClose = TRUE, !.cl = "closed", !.closer = None]
    <3>1. OnSession(s, Closed(s, who, SignalSend(SignalRead(t))))
      BY <2>4 DEF CloseEnd
    <3>2. AtTest(t)
      BY <1>1 DEF AtTest, Session
    <3> HIDE DEF t
    <3>3. AtTest(SignalSend(SignalRead(t)))
      BY <3>2, StaysAtTest
    <3> QED
      BY <3>1, <3>3, <1>2, <1>7, <2>1
  <2> QED
    BY <1>8, <2>2, <2>3, <2>4 DEF Close
<1> QED
  BY <1>3, <1>4, <1>5, <1>6, <1>8

\* Only ReadMessage() itself reports the timeout, and only when the flag is set.
LEMMA OnlyReadForces ==
    ASSUME IInv, [Next]_vars, NEW s \in Sids, ss[s].reader = "test", ss'[s].reader = "force"
    PROVE  ss[s].bReadTimeout
<1> USE DEF IInv
<1>1. AtTest(ss[s]) /\ ss \in [Sids -> Session] /\ ss'[s].reader # "test"
  BY DEF TypeOK, AtTest
<1>2. CASE UNCHANGED ss
  BY <1>1, <1>2
<1>3. ASSUME NEW q \in Sids,
             \/ Reader(q) \/ Sender(q) \/ Expire(q) \/ NotifyReadTimeout(q)
             \/ UpdateFails(q) \/ UserSend(q)
             \/ \E who \in Closers : Close(q, who)
      PROVE  ss[s].bReadTimeout
  <2>1. CASE q # s
    <3>1. \E t : OnSession(q, t)
      <4>1. CASE Reader(q)
        BY <4>1 DEF Reader, Handle, ReadTest, ReadWait, ReadReply, ReadEnding, WaitSender
      <4>2. CASE Sender(q)
        BY <4>2 DEF Sender, SendBegin, SendTest, SendWait, SendBatch, WriteMessage
      <4>3. CASE Expire(q) \/ NotifyReadTimeout(q) \/ UpdateFails(q) \/ UserSend(q)
        BY <4>3 DEF Expire, NotifyReadTimeout, UpdateFails, UserSend
      <4>4. ASSUME NEW who \in Closers, Close(q, who) PROVE \E t : OnSession(q, t)
        BY <4>4 DEF Close, CloseBegin, CloseEnd, CloseOver
      <4> QED
        BY <1>3, <4>1, <4>2, <4>3, <4>4
    <3>2. ss'[s] = ss[s]
      BY <2>1, <3>1, <1>1 DEF OnSession
    <3> QED
      BY <1>1, <3>2
  <2>2. CASE q = s
    <3>1. CASE Reader(s)
      <4>1. ReadTest(s)
        BY <3>1 DEF Reader, Handle, ReadWait, ReadReply, ReadEnding, WaitSender, InGap
      <4>2. ASSUME ~ss[s].bReadTimeout PROVE FALSE
        <5> DEFINE r == ss[s]
                   b == [Returned(r) EXCEPT !.ready = @ - 1]
        <5>1. ASSUME NEW t, OnSession(s, t) PROVE ss'[s] = t
          BY <5>1, <1>1 DEF OnSession
        <5>2. Returned(r) \in Session /\ r \in Session
          BY <1>1, ReturnedFits DEF AtTest
        <5>3. CASE OnSession(s, [r EXCEPT !.reader = "gap"])
          BY <5>1, <5>2, <5>3 DEF Session
        <5>4. CASE OnSession(s, [Returned(r) EXCEPT !.reader = "ending"])
          <6> DEFINE a == Returned(r)
          <6>1. a \in Session /\ ss'[s] = [a EXCEPT !.reader = "ending"]
            BY <5>1, <5>2, <5>4
          <6> HIDE DEF a
          <6> QED
            BY <6>1 DEF Session
        <5>5. ASSUME r.ready > 0
              PROVE  b \in Session
          <6> DEFINE a == Returned(r)
          <6>1. a \in Session /\ a.ready = r.ready /\ r.ready \in Nat
            BY <5>2, ReturnedFits DEF Session
          <6>2. r.ready - 1 \in Nat
            BY <5>5, <6>1
          <6>3. b = [a EXCEPT !.ready = r.ready - 1]
            BY <6>1
          <6> HIDE DEF a, b
          <6> QED
            BY <6>1, <6>2, <6>3 DEF Session
        <5>6. CASE r.ready > 0 /\ OnSession(s, [b EXCEPT !.reader = "reply"])
          <6>1. b \in Session /\ ss'[s] = [b EXCEPT !.reader = "reply"]
            BY <5>1, <5>5, <5>6
          <6> HIDE DEF b
          <6> QED
            BY <6>1 DEF Session
        <5>7. CASE r.ready > 0 /\ OnSession(s, NotifyReadError([b EXCEPT !.reader = "ending"]))
          <6> DEFINE t == [b EXCEPT !.reader = "ending"]
          <6>1. b \in Session /\ ss'[s] = NotifyReadError(t)
            BY <5>1, <5>5, <5>7
          <6> HIDE DEF b
          <6>2. t \in Session /\ t.reader = "ending"
            BY <6>1 DEF Session, ReaderAt
          <6>3. NotifyReadError(t).reader = "ending"
            BY <6>2 DEF NotifyReadError, SignalRead, SignalSend, Woken, Session
          <6> QED
            BY <6>1, <6>3
        <5> HIDE DEF r
        <5> QED
          BY <4>1, <4>2, <5>3, <5>4, <5>6, <5>7 DEF ReadTest, r
      <4> QED
        BY <4>2
    <3>2. CASE Sender(s)
      BY <3>2, <1>1, SenderLeavesTest
    <3>3. CASE \/ Expire(s) \/ NotifyReadTimeout(s) \/ UpdateFails(s) \/ UserSend(s)
               \/ \E who \in Closers : Close(s, who)
      BY <3>3, <1>1, OthersLeaveTest
    <3> QED
      BY <1>3, <2>2, <3>1, <3>2, <3>3
  <2> QED
    BY <2>1, <2>2
<1>4. ASSUME NEW ch \in Channels, RecvLoop(ch) \/ RecvBatch(ch) \/ RecvFails(ch)
      PROVE  ss[s].bReadTimeout
  <2>1. CASE Count(ch) \/ PushBacklog(ch)
    BY <2>1, <1>2 DEF Count, PushBacklog
  <2>2. CASE Create(ch)
    <3>1. PICK q \in scenario.sids : ss' = [ss EXCEPT ![q] = NewSession(recv[ch].from)]
      BY <2>2 DEF Create
    <3>2. ss'[s] = ss[s] \/ ss'[s] = NewSession(recv[ch].from)
      BY <3>1, <1>1
    <3>3. NewSession(recv[ch].from).reader = "none"
      BY DEF NewSession, NoSession
    <3> QED
      BY <3>2, <3>3, <1>1
  <2>3. CASE RecvFails(ch)
    <3>1. ss'[s] = ss[s] \/ ss'[s] = NotifyReadError(ss[s])
      BY <2>3 DEF RecvFails, NotifyListenerError
    <3> QED
      BY <3>1, <1>1, StaysAtTest DEF AtTest
  <2>4. CASE RecvBatch(ch)
    BY <2>4, <1>2 DEF RecvBatch
  <2> QED
    BY <1>4, <2>1, <2>2, <2>3, <2>4 DEF RecvLoop
<1>5. ASSUME NEW c \in Clients, NEW kind \in {"connect", "data"}, Packet(c, kind)
      PROVE  ss[s].bReadTimeout
  <2> DEFINE q == sessions[Key][c]
  <2>1. \/ UNCHANGED ss
        \/ ss' = [ss EXCEPT ![q] = Received(@)]
        \/ ss' = [ss EXCEPT ![q] = NotifyReadError(@)]
    BY <1>5 DEF Packet
  <2>2. ss'[s] \in {ss[s], Received(ss[s]), NotifyReadError(ss[s])}
    BY <2>1, <1>1
  <2>3. AtTest(Received(ss[s]))
    <3> DEFINE t == [ss[s] EXCEPT !.ready = ss[s].ready + 1]
    <3>1. ss[s].ready + 1 \in Nat
      BY <1>1 DEF AtTest, Session
    <3>2. AtTest(t)
      BY <1>1, <3>1 DEF AtTest, Session
    <3>3. Received(ss[s]) = SignalRead(t)
      BY DEF Received
    <3> HIDE DEF t
    <3> QED
      BY <3>2, <3>3, StaysAtTest
  <2>4. AtTest(NotifyReadError(ss[s]))
    BY <1>1, StaysAtTest
  <2> QED
    BY <2>2, <2>3, <2>4, <1>1 DEF AtTest
<1>6. CASE Accept
  <2>1. CASE UNCHANGED ss
    BY <2>1, <1>2
  <2>2. CASE backlog # <<>> /\ ss' = [ss EXCEPT ![Head(backlog)].reader = "start"]
    <3>1. ss'[s] = ss[s] \/ ss'[s].reader = "start"
      BY <2>2, <1>1 DEF AtTest, Session
    <3> QED
      BY <3>1, <1>1
  <2> QED
    BY <1>6, <2>1, <2>2 DEF Accept, AcceptTest, AcceptWait, AcceptLoop
<1>7. CASE CleanupBlacklist \/ Stop \/ StopListener
  BY <1>7, <1>2 DEF CleanupBlacklist, Stop, StopListener
<1>8. CASE UNCHANGED vars
  BY <1>8, <1>2 DEF vars, moving
<1> QED
  BY <1>3, <1>4, <1>5, <1>6, <1>7, <1>8 DEF Next, Step

\* ReadMessage() reports a timeout only for its own timer, or for the callback that an
\* earlier read left in the scheduler.
THEOREM TimeoutsAreHonest == Spec => TimeoutHonest
<1>1. IInv /\ [Next]_vars =>
        [\A s \in Sids :
           ss[s].reader = "test" /\ ss'[s].reader = "force" => ss[s].expired \/ ss[s].raced]_vars
  <2> SUFFICES ASSUME IInv, [Next]_vars, NEW s \in Sids,
                      ss[s].reader = "test", ss'[s].reader = "force"
               PROVE  ss[s].expired \/ ss[s].raced
    OBVIOUS
  <2>1. ss[s].bReadTimeout
    BY OnlyReadForces
  <2>2. TimeFits(ss[s])
    BY DEF IInv
  <2> QED
    BY <2>1, <2>2 DEF TimeFits
<1> QED
  BY <1>1, Inductive, PTL DEF Spec, TimeoutHonest
=============================================================================
