--------------------------- MODULE AsyncStream_proof ---------------------------
(***************************************************************************)
(* Proofs about AsyncStream, for any finite set of requests and any number *)
(* of connections and failures: a caller of Request() is woken once and    *)
(* never forgotten, its result is true, and one connection at a time has   *)
(* fibers.                                                                 *)
(***************************************************************************)
EXTENDS AsyncStream, FiniteSetTheorems, TLAPS

-----------------------------------------------------------------------------
(***************************************************************************)
(* The inductive invariant.  That no context is lost needs to know which   *)
(* fiber can be where and what it carries there; that fibers of two        *)
(* connections never meet is a matter of permits; and that Close() is      *)
(* final needs every way back to a connection to be shut since it began.   *)
(***************************************************************************)

Readers == {"read"} \X Conns
Writers == {"write"} \X Conns

Closing == {"broadcast", "swap", "clear", "answer"}
StarterAt == Closing \cup {"off", "wait", "wait2", "connect", "callback", "failed", "test_auto", "arm"}
ReaderAt == Closing \cup {"off", "read", "recv", "result", "rsp", "do_rsp", "post", "test_auto", "arm"}
WriterAt == Closing \cup {"off", "write", "lock", "test", "to_wait", "waiting", "send", "exit", "post"}

\* TypeOK without the bound on sem, which is a matter of counting.
Types ==
    /\ conn \in BOOLEAN /\ gen \in Conns /\ broken \in BOOLEAN /\ auto \in BOOLEAN
    /\ wire \subseteq Reqs /\ ctxs \subseteq Reqs
    /\ sem \in Nat /\ retry \in {"no", "armed", "due"}
    /\ que \in Seq(Reqs) /\ todo \in [Fibers -> Seq(Reqs)]
    /\ mtx \in Fibers \cup {None}
    /\ pc \in [Fibers -> Places] /\ ret \in [Fibers -> Places]
    /\ qpc \in [Reqs -> {"idle", "add", "timer", "enqueue", "signal", "held", "done", "notconn"}]
    /\ ctx \in [Reqs -> Contexts]
    /\ timer \in [Reqs -> {"no", "armed", "due", "erased"}]
    /\ cpc \in {"no", "timer", "socket", "closed"}

\* Each fiber is in its own function or in innerClose(), from where it returns to it.
SitesFit ==
    /\ pc[Starter] \in StarterAt
    /\ pc[Starter] \in Closing => ret[Starter] = "failed"
    /\ \A f \in Readers : pc[f] \in ReaderAt /\ (pc[f] \in Closing => ret[f] \in {"read", "post"})
    /\ \A f \in Writers : pc[f] \in WriterAt /\ (pc[f] \in Closing => ret[f] = "write")

\* What a fiber carries where it answers.
HandsFit ==
    \A f \in Fibers :
        /\ pc[f] = "answer" => todo[f] # <<>>
        /\ pc[f] \in {"result", "rsp", "do_rsp"} => Len(todo[f]) = 1

\* The two permits, by who has them; only the last connection has fibers.
Up(f) == IF f \in Alive THEN 1 ELSE 0
PermitsFit ==
    /\ Alive \subseteq {<<"read", gen>>, <<"write", gen>>}
    /\ sem + Up(<<"read", gen>>) + Up(<<"write", gen>>) + Holding = 2

\* Who sees to the next connection: a reader, Start() or the timer.
OneStart ==
    /\ \A f, g \in Reading : f = g
    /\ pc[Starter] # "off" => Reading = {}
    /\ retry # "no" => Reading = {} /\ pc[Starter] = "off"

\* A timer is there only after AddTimer(), a timeout only after the timer.
TimersFit ==
    \A q \in Reqs :
        /\ timer[q] # "no" => qpc[q] \in {"enqueue", "signal", "held", "done"}
        /\ ctx[q].timed \/ ctx[q].result = "timeout" => timer[q] = "erased"

\* A caller that is woken with "ok" has its answer, or the reader is putting it there.
AnswersFit ==
    /\ \A q \in Reqs : ctx[q].woken > 0 /\ ctx[q].result = "ok" => ctx[q].rsp \/ Writing(q)
    /\ \A f \in Fibers : pc[f] = "do_rsp" => ctx[todo[f][1]].rsp

\* Once Close() has begun and met no reconnection, there is no way to one.
CloseFits ==
    /\ cpc # "no" => ~auto
    /\ cpc # "no" /\ "reopen" \notin races => ~Reopening
    /\ cpc \in {"socket", "closed"} /\ "reopen" \notin races => retry = "no"

IInv ==
    /\ Types /\ SitesFit /\ HandsFit /\ PermitsFit /\ OneStart
    /\ CallerWokenOnce /\ NeverForgotten /\ TimersFit /\ AnswersFit
    /\ CloseFits /\ ClosedStaysClosed
-----------------------------------------------------------------------------
(***************************************************************************)
(* The fibers, and the operators that the steps share.                     *)
(***************************************************************************)

\* A fiber is Start()'s, a reader or a writer.
LEMMA FiberKinds ==
    /\ Fibers = {Starter} \cup Readers \cup Writers
    /\ Starter \notin Readers \cup Writers /\ Readers \cap Writers = {}
    /\ \A f \in Fibers : IsReader(f) <=> f \in Readers
    /\ \A f \in Readers : f[2] \in Conns /\ f = <<"read", f[2]>>
    /\ \A f \in Writers : f[2] \in Conns /\ f = <<"write", f[2]>>
    /\ \A g \in Conns : <<"read", g>> \in Readers /\ <<"write", g>> \in Writers
    /\ Starter \in Fibers /\ Readers \subseteq Fibers /\ Writers \subseteq Fibers
<1>1. Fibers = {Starter} \cup Readers \cup Writers
  BY DEF Fibers, Starter, Readers, Writers
<1>2. Starter \notin Readers \cup Writers /\ Readers \cap Writers = {}
  BY DEF Starter, Readers, Writers
<1>3. \A f \in Fibers : IsReader(f) <=> f \in Readers
  BY <1>1, <1>2 DEF IsReader, Starter, Readers, Writers
<1>4. /\ \A f \in Readers : f[2] \in Conns /\ f = <<"read", f[2]>>
      /\ \A f \in Writers : f[2] \in Conns /\ f = <<"write", f[2]>>
  BY DEF Readers, Writers
<1>5. \A g \in Conns : <<"read", g>> \in Readers /\ <<"write", g>> \in Writers
  BY DEF Readers, Writers
<1> QED
  BY <1>1, <1>2, <1>3, <1>4, <1>5

\* The contexts that innerClose() has copied are those that were registered.
LEMMA ListedAll ==
    ASSUME NEW S \in SUBSET Reqs
    PROVE  /\ Listed(S) \in Seq(Reqs)
           /\ \A q \in S : \E i \in DOMAIN Listed(S) : Listed(S)[i] = q
<1>1. IsFiniteSet(S)
  BY StreamAssumption, FS_Subset
<1>2. Cardinality(S) \in Nat
  BY <1>1, FS_CardinalityType
<1>3. ExistsBijection(1..Cardinality(S), S)
  BY <1>1, FS_CardinalityType
<1>4. PICK s \in Bijection(1..Cardinality(S), S) : TRUE
  BY <1>3 DEF ExistsBijection
<1>5. s \in [1..Cardinality(S) -> S] /\ \A q \in S : \E i \in 1..Cardinality(S) : s[i] = q
  BY <1>4 DEF Bijection, Injection, Surjection
<1>6. {s[i] : i \in 1..Cardinality(S)} = S
  BY <1>5
<1>7. /\ Listed(S) \in [1..Cardinality(S) -> S]
      /\ {Listed(S)[i] : i \in 1..Cardinality(S)} = S
  <2>1. \E t \in [1..Cardinality(S) -> S] : {t[i] : i \in 1..Cardinality(S)} = S
    BY <1>5, <1>6
  <2> QED
    BY <2>1, Zenon DEF Listed
<1> HIDE DEF Listed
<1>8. Listed(S) \in Seq(S)
  BY <1>7, <1>2
<1> QED
  BY <1>7, <1>8

\* Ctx::doRsp(): afterwards the context has no scheduler, and its caller has been woken if
\* it had one; nothing else of it changes but the result of a timeout.
LEMMA DoRspEffect ==
    ASSUME NEW q \in Reqs, NEW c \in Contexts, DoRsp(q, c),
           ctx \in [Reqs -> Contexts],
           timer \in [Reqs -> {"no", "armed", "due", "erased"}]
    PROVE  \E r \in Contexts :
              /\ ctx' = [ctx EXCEPT ![q] = r]
              /\ ~r.sched /\ r.rsp = c.rsp /\ r.timed = c.timed
              /\ r.woken = c.woken + (IF c.sched THEN 1 ELSE 0)
              /\ r.result = IF c.sched /\ c.timed THEN "timeout" ELSE c.result
              /\ timer' \in [Reqs -> {"no", "armed", "due", "erased"}]
              /\ \A p \in Reqs : timer[p] = "erased" <=> timer'[p] = "erased"
              /\ \A p \in Reqs : timer[p] = "no" => timer'[p] = "no"
<1>1. CASE c.sched
  <2> DEFINE r == [c EXCEPT !.sched = FALSE, !.woken = @ + 1,
                            !.result = IF c.timed THEN "timeout" ELSE @]
  <2>1. r \in Contexts /\ ~r.sched /\ r.rsp = c.rsp /\ r.timed = c.timed
        /\ r.woken = c.woken + 1 /\ r.result = IF c.timed THEN "timeout" ELSE c.result
    <3> DEFINE w == IF c.timed THEN "timeout" ELSE c.result
    <3>1. /\ c.result \in {"ok", "io", "timeout"} /\ c.rsp \in BOOLEAN /\ c.timed \in BOOLEAN
          /\ c.woken \in Nat
      BY DEF Contexts
    <3>2. w \in {"ok", "io", "timeout"} /\ c.woken + 1 \in Nat
      BY <3>1
    <3>3. r = [c EXCEPT !.sched = FALSE, !.woken = c.woken + 1, !.result = w]
      BY Zenon
    <3> HIDE DEF r, w
    <3>4. r \in Contexts /\ ~r.sched /\ r.rsp = c.rsp /\ r.timed = c.timed
          /\ r.woken = c.woken + 1 /\ r.result = w
      BY <3>2, <3>3 DEF Contexts
    <3> QED
      BY <3>4 DEF w
  <2>2. ctx' = [ctx EXCEPT ![q] = r] /\ timer' = [timer EXCEPT ![q] = IF @ = "armed" THEN "no" ELSE @]
    BY <1>1 DEF DoRsp
  <2> HIDE DEF r
  <2> QED
    BY <1>1, <2>1, <2>2
<1>2. CASE ~c.sched
  BY <1>2 DEF DoRsp, Contexts
<1> QED
  BY <1>1, <1>2
-----------------------------------------------------------------------------
(***************************************************************************)
(* What a step leaves alone.                                               *)
(***************************************************************************)

\* The places where a fiber has contexts to answer.
Answering == {"clear", "answer", "result", "rsp", "do_rsp"}

\* No fiber drops a context, or comes to write an answer or has written one.
HandsKept ==
    \A f \in Fibers :
        /\ pc[f] \in Answering => \/ todo[f] = <<>>
                                  \/ pc'[f] \in Answering /\ todo'[f] = todo[f]
        /\ pc[f] = "rsp" => pc'[f] = "rsp" /\ todo'[f] = todo[f]
        /\ pc'[f] = "do_rsp" => pc[f] = "do_rsp" /\ todo'[f] = todo[f]

\* Then the callers are as safe as they were.
LEMMA HandsSuffice ==
    ASSUME IInv, HandsKept
    PROVE  /\ UNCHANGED <<qpc, ctx, ctxs, timer>> => NeverForgotten'
           /\ UNCHANGED ctx => AnswersFit'
<1>1. ASSUME UNCHANGED <<qpc, ctx, ctxs, timer>> PROVE NeverForgotten'
  <2> SUFFICES ASSUME NEW q \in Reqs, Calling(q)', ctx'[q].sched
               PROVE  \/ q \in ctxs'
                      \/ timer'[q] = "erased"
                      \/ \E f \in Fibers : /\ pc'[f] \in Answering
                                           /\ \E i \in DOMAIN todo'[f] : todo'[f][i] = q
    BY DEF NeverForgotten, Answering
  <2>1. \/ q \in ctxs
        \/ timer[q] = "erased"
        \/ \E f \in Fibers : pc[f] \in Answering /\ \E i \in DOMAIN todo[f] : todo[f][i] = q
    BY <1>1 DEF IInv, NeverForgotten, Calling, Answering
  <2>2. ASSUME NEW f \in Fibers, pc[f] \in Answering, NEW i \in DOMAIN todo[f], todo[f][i] = q
        PROVE  pc'[f] \in Answering /\ todo'[f] = todo[f]
    BY <2>2 DEF HandsKept
  <2> QED
    BY <1>1, <2>1, <2>2
<1>2. ASSUME UNCHANGED ctx PROVE AnswersFit'
  BY <1>2 DEF IInv, HandsKept, AnswersFit, Writing
<1> QED
  BY <1>1, <1>2

\* A part of the invariant that reads nothing the step writes still holds.
LEMMA Frame ==
    ASSUME IInv
    PROVE  /\ UNCHANGED <<pc, ret>> => SitesFit'
           /\ UNCHANGED <<pc, todo>> => HandsFit' /\ HandsKept
           /\ UNCHANGED <<pc, gen, sem>> => PermitsFit'
           /\ UNCHANGED <<pc, retry>> => OneStart'
           /\ UNCHANGED <<ctx, qpc>> => CallerWokenOnce'
           /\ UNCHANGED <<ctx, qpc, timer>> => TimersFit'
           /\ UNCHANGED <<cpc, auto, races, pc, retry>> => CloseFits'
           /\ UNCHANGED <<cpc, races, conn>> => ClosedStaysClosed'
<1> USE DEF IInv
<1>1. /\ UNCHANGED <<pc, ret>> => SitesFit'
      /\ UNCHANGED <<pc, todo>> => HandsFit' /\ HandsKept
  BY DEF SitesFit, HandsFit, HandsKept
<1>2. /\ UNCHANGED <<pc, gen, sem>> => PermitsFit'
      /\ UNCHANGED <<pc, retry>> => OneStart'
  BY DEF PermitsFit, OneStart, Up, Alive, Reading, Holding
<1>3. /\ UNCHANGED <<ctx, qpc>> => CallerWokenOnce'
      /\ UNCHANGED <<ctx, qpc, timer>> => TimersFit'
  BY DEF CallerWokenOnce, TimersFit
<1>4. /\ UNCHANGED <<cpc, auto, races, pc, retry>> => CloseFits'
      /\ UNCHANGED <<cpc, races, conn>> => ClosedStaysClosed'
  BY DEF CloseFits, Reopening, ClosedStaysClosed
<1> QED
  BY <1>1, <1>2, <1>3, <1>4
-----------------------------------------------------------------------------
(***************************************************************************)
(* Moves that many steps make.                                             *)
(***************************************************************************)

\* f has its permits.
Busy(f) ==
    IF f = Starter THEN pc[f] \notin {"off", "wait", "wait2", "test_auto", "arm"}
                   ELSE pc[f] \notin {"off", "test_auto", "arm"}

\* A fiber that has its permits before and after a step changes nothing about them.
LEMMA StaysBusy ==
    ASSUME IInv, NEW f \in Fibers, Busy(f), Busy(f)', NEW l, pc' = [pc EXCEPT ![f] = l],
           UNCHANGED <<gen, sem, retry, races, auto, cpc>>
    PROVE  PermitsFit' /\ OneStart' /\ CloseFits'
<1> USE FiberKinds DEF IInv, Types
<1>1. pc'[f] = l /\ \A g \in Fibers \ {f} : pc'[g] = pc[g]
  OBVIOUS
<1>2. Alive' = Alive
  BY <1>1 DEF Alive, Busy
<1>3. Reading' = Reading /\ (pc'[Starter] = "off" <=> pc[Starter] = "off")
  BY <1>1 DEF Reading, Busy
<1>4. Holding' = Holding
  BY <1>1 DEF Holding, Busy
<1>5. PermitsFit'
  BY <1>2, <1>4 DEF PermitsFit, Up
<1>6. OneStart'
  BY <1>3 DEF OneStart
<1>7. Reopening' => Reopening
  BY <1>1, <1>3 DEF Reopening, Busy
<1>8. CloseFits'
  BY <1>7 DEF CloseFits
<1> QED
  BY <1>5, <1>6, <1>8

\* Where f may be, outside innerClose() and not answering.
Own(f) ==
    (IF f = Starter THEN StarterAt ELSE IF f \in Readers THEN ReaderAt ELSE WriterAt)
      \ (Closing \cup Answering)

\* A step of a fiber within its own function, that takes no permit and answers nobody.
LEMMA MoveKeeps ==
    ASSUME IInv, NEW f \in Fibers, NEW l \in Own(f), pc' = [pc EXCEPT ![f] = l],
           Busy(f), Busy(f)', pc[f] \notin Answering,
           todo' \in [Fibers -> Seq(Reqs)], \A g \in Fibers \ {f} : todo'[g] = todo[g],
           wire' \subseteq Reqs, que' \in Seq(Reqs), mtx' \in Fibers \cup {None},
           UNCHANGED <<races, conn, gen, broken, sem, auto, retry, ctxs, ret, qpc, ctx, timer, cpc>>
    PROVE  IInv'
<1> USE FiberKinds DEF IInv
<1>1. l \in Places
  BY DEF Own, StarterAt, ReaderAt, WriterAt, Closing, Places
<1>2. Types'
  BY <1>1 DEF Types
<1>3. pc'[f] = l /\ \A g \in Fibers \ {f} : pc'[g] = pc[g]
  BY DEF Types
<1>4. SitesFit'
  BY <1>3 DEF SitesFit, Own
<1>5. HandsFit'
  BY <1>3 DEF HandsFit, Own, Answering
<1>6. PermitsFit' /\ OneStart' /\ CloseFits'
  BY StaysBusy
<1>7. HandsKept
  BY <1>3 DEF HandsKept, Own, Answering
<1>8. NeverForgotten' /\ AnswersFit'
  BY <1>7, HandsSuffice
<1>9. CallerWokenOnce' /\ TimersFit' /\ ClosedStaysClosed'
  BY Frame
<1> QED
  BY <1>2, <1>4, <1>5, <1>6, <1>8, <1>9

\* A step that calls innerClose().
LEMMA InnerCloseKeeps ==
    ASSUME IInv, NEW f \in Fibers, NEW l, InnerClose(f, l),
           Busy(f), pc[f] \notin Answering,
           l \in IF f = Starter THEN {"failed"} ELSE IF f \in Readers THEN {"read", "post"} ELSE {"write"},
           todo' \in [Fibers -> Seq(Reqs)], \A g \in Fibers \ {f} : todo'[g] = todo[g],
           UNCHANGED <<races, gen, sem, auto, retry, ctxs, que, mtx, qpc, ctx, timer, cpc>>
    PROVE  IInv'
<1> USE FiberKinds DEF IInv
<1>1. pc' = [pc EXCEPT ![f] = "broadcast"] /\ ret' = [ret EXCEPT ![f] = l]
  BY DEF InnerClose, Go
<1>2. Types'
  <2>1. l \in Places /\ "broadcast" \in Places
    BY DEF Places
  <2>2. pc' \in [Fibers -> Places] /\ ret' \in [Fibers -> Places]
    BY <1>1, <2>1 DEF Types
  <2>3. conn' = FALSE /\ broken' = FALSE /\ wire' = {}
    BY DEF InnerClose, Disconnect
  <2> QED
    BY <2>2, <2>3 DEF Types
<1>3. /\ pc'[f] = "broadcast" /\ \A g \in Fibers \ {f} : pc'[g] = pc[g]
      /\ ret'[f] = l /\ \A g \in Fibers \ {f} : ret'[g] = ret[g]
  BY <1>1 DEF Types
<1>4. SitesFit'
  <2>1. "broadcast" \in StarterAt \cap ReaderAt \cap WriterAt
    BY DEF StarterAt, ReaderAt, WriterAt, Closing
  <2>2. pc'[Starter] \in StarterAt /\ (pc'[Starter] \in Closing => ret'[Starter] = "failed")
    <3>1. CASE f = Starter
      BY <2>1, <3>1, <1>3
    <3>2. CASE f # Starter
      BY <3>2, <1>3 DEF SitesFit
    <3> QED
      BY <3>1, <3>2
  <2>3. ASSUME NEW g \in Readers
        PROVE  pc'[g] \in ReaderAt /\ (pc'[g] \in Closing => ret'[g] \in {"read", "post"})
    <3>1. CASE f = g
      BY <2>1, <3>1, <1>3
    <3>2. CASE f # g
      BY <3>2, <1>3 DEF SitesFit
    <3> QED
      BY <3>1, <3>2
  <2>4. ASSUME NEW g \in Writers
        PROVE  pc'[g] \in WriterAt /\ (pc'[g] \in Closing => ret'[g] = "write")
    <3>1. CASE f = g
      BY <2>1, <3>1, <1>3
    <3>2. CASE f # g
      BY <3>2, <1>3 DEF SitesFit
    <3> QED
      BY <3>1, <3>2
  <2> QED
    BY <2>2, <2>3, <2>4 DEF SitesFit
<1>5. HandsFit'
  BY <1>3 DEF HandsFit
<1>6. Busy(f)'
  BY <1>3 DEF Busy
<1>7. PermitsFit' /\ OneStart' /\ CloseFits'
  BY <1>1, <1>6, StaysBusy
<1>8. HandsKept
  BY <1>3 DEF HandsKept, Answering
<1>9. NeverForgotten' /\ AnswersFit'
  BY <1>8, HandsSuffice
<1>10. CallerWokenOnce' /\ TimersFit'
  BY Frame
<1>11. ClosedStaysClosed'
  BY DEF ClosedStaysClosed, InnerClose, Disconnect
<1> QED
  BY <1>2, <1>4, <1>5, <1>7, <1>9, <1>10, <1>11

\* The end of innerClose(): f goes back to where it was called, with its permits.
LEMMA LeaveFits ==
    ASSUME IInv, NEW f \in Fibers, pc[f] \in Closing, Leave(f),
           UNCHANGED <<gen, sem, retry, races, auto, cpc>>
    PROVE  /\ pc' \in [Fibers -> Places] /\ ret' \in [Fibers -> Places]
           /\ pc'[f] \in {"failed", "read", "post", "write"}
           /\ \A g \in Fibers \ {f} : pc'[g] = pc[g]
           /\ SitesFit' /\ PermitsFit' /\ OneStart' /\ CloseFits'
<1> USE FiberKinds DEF IInv
<1>1. /\ pc' = [pc EXCEPT ![f] = ret[f]] /\ ret' = [ret EXCEPT ![f] = "off"]
      /\ ret[f] \in {"failed", "read", "post", "write"}
  BY DEF Leave, SitesFit
<1>2. pc' \in [Fibers -> Places] /\ ret' \in [Fibers -> Places]
  BY <1>1 DEF Types, Places
<1>3. /\ pc'[f] = ret[f] /\ \A g \in Fibers \ {f} : pc'[g] = pc[g]
      /\ \A g \in Fibers \ {f} : ret'[g] = ret[g]
  BY <1>1 DEF Types
<1>4. SitesFit'
  BY <1>3 DEF SitesFit, StarterAt, ReaderAt, WriterAt, Closing
<1>5. Busy(f) /\ Busy(f)'
  BY <1>3, <1>1 DEF Busy, Closing
<1>6. PermitsFit' /\ OneStart' /\ CloseFits'
  BY <1>1, <1>5, StaysBusy
<1> QED
  BY <1>1, <1>2, <1>3, <1>4, <1>6
-----------------------------------------------------------------------------
(***************************************************************************)
(* Start().                                                                *)
(***************************************************************************)

\* When Start() has both permits, no fiber of the last connection is left.
LEMMA AllGone ==
    ASSUME IInv, Holding = 2
    PROVE  Alive = {} /\ sem = 0
<1>1. /\ sem \in Nat
      /\ Up(<<"read", gen>>) \in {0, 1} /\ Up(<<"write", gen>>) \in {0, 1}
      /\ sem + Up(<<"read", gen>>) + Up(<<"write", gen>>) + 2 = 2
  BY DEF IInv, Types, PermitsFit, Up
<1>2. sem = 0 /\ Up(<<"read", gen>>) = 0 /\ Up(<<"write", gen>>) = 0
  BY ONLY <1>1
<1> QED
  BY <1>2 DEF IInv, PermitsFit, Up

\* waitFiber() takes a permit.
LEMMA WaitFiberKeeps ==
    ASSUME IInv, WaitFiber
    PROVE  IInv'
<1> USE FiberKinds DEF IInv
<1> DEFINE l == IF pc[Starter] = "wait" THEN "wait2" ELSE "connect"
<1>1. /\ pc' = [pc EXCEPT ![Starter] = l] /\ pc[Starter] \in {"wait", "wait2"}
      /\ sem > 0 /\ sem' = sem - 1
      /\ UNCHANGED <<races, conn, gen, broken, wire, auto, retry, fails, ctxs, que, mtx, ret,
                     todo, qpc, ctx, timer, cpc>>
  BY DEF WaitFiber, Go, netVars, reqVars
<1>2. l \in {"wait2", "connect"}
  OBVIOUS
<1>3. /\ pc'[Starter] = l /\ \A g \in Fibers \ {Starter} : pc'[g] = pc[g]
      /\ Holding' = Holding + 1 /\ Holding \in 0..1
  BY <1>1 DEF Types, Holding
<1> HIDE DEF l
<1>4. Types'
  BY <1>1, <1>2 DEF Types, Places
<1>5. SitesFit'
  BY <1>1, <1>2, <1>3 DEF SitesFit, StarterAt, Closing
<1>6. HandsFit' /\ HandsKept
  BY <1>1, <1>2, <1>3 DEF HandsFit, HandsKept, Answering
<1>7. PermitsFit'
  <2>1. Alive' = Alive
    BY <1>3 DEF Alive
  <2>2. Up(<<"read", gen>>)' = Up(<<"read", gen>>) /\ Up(<<"write", gen>>)' = Up(<<"write", gen>>)
    BY <2>1, <1>1 DEF Up
  <2>3. sem \in Nat /\ Up(<<"read", gen>>) \in {0, 1} /\ Up(<<"write", gen>>) \in {0, 1}
    BY DEF Types, Up
  <2>4. sem' + Up(<<"read", gen>>)' + Up(<<"write", gen>>)' + Holding' = 2
    BY <2>2, <2>3, <1>1, <1>3 DEF PermitsFit
  <2> QED
    BY <2>1, <2>4, <1>1 DEF PermitsFit
<1>8. OneStart'
  BY <1>1, <1>2, <1>3 DEF OneStart, Reading
<1>9. CloseFits'
  BY <1>1, <1>2, <1>3 DEF CloseFits, Reopening
<1> QED
  BY <1>1, <1>4, <1>5, <1>6, <1>7, <1>8, <1>9, HandsSuffice, Frame

\* ReConnect() makes the next connection when nothing of the last one is left.
LEMMA ConnectKeeps ==
    ASSUME IInv, Connect
    PROVE  IInv'
<1> USE FiberKinds DEF IInv
<1>1. /\ pc[Starter] = "connect" /\ Holding = 2
      /\ UNCHANGED <<races, sem, auto, retry, ctxs, que, mtx, todo, qpc, ctx, timer, cpc>>
  BY DEF Connect, reqVars, Holding
<1>2. Busy(Starter) /\ pc[Starter] \notin Answering
  BY <1>1 DEF Busy, Answering
<1>3. CASE conn /\ Go(Starter, "callback") /\ UNCHANGED <<conn, gen, broken, wire, ret, fails>>
  <2>1. "callback" \in Own(Starter)
    BY DEF Own, StarterAt, Closing, Answering
  <2>2. pc' = [pc EXCEPT ![Starter] = "callback"] /\ Busy(Starter)'
    BY <1>3 DEF Go, Busy, Types
  <2>3. wire' \subseteq Reqs /\ que' \in Seq(Reqs) /\ mtx' \in Fibers \cup {None}
        /\ todo' \in [Fibers -> Seq(Reqs)]
    BY <1>1, <1>3 DEF Types
  <2> QED
    BY <1>1, <1>2, <1>3, <2>1, <2>2, <2>3, MoveKeeps
<1>4. CASE /\ ~conn /\ gen < MaxConns
           /\ conn' = TRUE /\ gen' = gen + 1 /\ broken' = FALSE /\ wire' = {}
           /\ Go(Starter, "callback")
           /\ UNCHANGED <<ret, fails>>
  <2>1. /\ pc' = [pc EXCEPT ![Starter] = "callback"]
        /\ pc'[Starter] = "callback" /\ \A g \in Fibers \ {Starter} : pc'[g] = pc[g]
    BY <1>4 DEF Go, Types
  <2>2. gen' \in Conns
    BY <1>4, StreamAssumption DEF Types, Conns
  <2>3. Types'
    BY <1>1, <1>4, <2>1, <2>2 DEF Types, Places
  <2>4. SitesFit'
    BY <1>4, <2>1 DEF SitesFit, StarterAt, Closing
  <2>5. HandsFit' /\ HandsKept
    BY <1>1, <2>1 DEF HandsFit, HandsKept, Answering
  <2>6. PermitsFit'
    <3>1. Alive = {} /\ sem = 0
      BY <1>1, AllGone
    <3>2. Alive' = {}
      BY <3>1, <2>1 DEF Alive
    <3>3. Holding' = 2
      BY <2>1 DEF Holding
    <3> QED
      BY <3>1, <3>2, <3>3, <1>1 DEF PermitsFit, Up
  <2>7. OneStart'
    BY <1>1, <2>1 DEF OneStart, Reading
  <2>8. CloseFits'
    BY <1>1, <2>1 DEF CloseFits, Reopening
  <2>9. ClosedStaysClosed'
    BY <1>1 DEF ClosedStaysClosed, CloseFits, Reopening
  <2> QED
    BY <1>1, <2>3, <2>4, <2>5, <2>6, <2>7, <2>8, <2>9, HandsSuffice, Frame
<1>5. CASE InnerClose(Starter, "failed") /\ UNCHANGED gen
  <2>1. todo' \in [Fibers -> Seq(Reqs)]
    BY <1>1 DEF Types
  <2> QED
    BY <1>1, <1>2, <1>5, <2>1, InnerCloseKeeps
<1> QED
  BY <1>3, <1>4, <1>5 DEF Connect

\* The reader and the writer of the new connection get the two permits.
LEMMA ConnectCbKeeps ==
    ASSUME IInv, ConnectCb
    PROVE  IInv'
<1> USE FiberKinds DEF IInv
<1>1. /\ pc[Starter] = "callback" /\ Holding = 2
      /\ UNCHANGED <<races, gen, sem, auto, retry, ctxs, que, mtx, todo, qpc, ctx, timer, cpc>>
  BY DEF ConnectCb, reqVars, Holding
<1>2. Busy(Starter) /\ pc[Starter] \notin Answering
  BY <1>1 DEF Busy, Answering
<1>3. CASE /\ pc' = [pc EXCEPT ![Starter] = "off", ![<<"read", gen>>] = "read",
                               ![<<"write", gen>>] = "write"]
           /\ UNCHANGED <<conn, broken, wire, ret, fails>>
  <2> DEFINE r == <<"read", gen>>
             w == <<"write", gen>>
  <2>1. gen \in Conns /\ r \in Readers /\ w \in Writers
    BY DEF Types
  <2>2. Alive = {} /\ sem = 0 /\ Reading = {} /\ retry = "no"
    BY <1>1, AllGone DEF OneStart, Types
  <2>3. pc' = [pc EXCEPT ![Starter] = "off", ![r] = "read", ![w] = "write"]
    BY <1>3
  <2> HIDE DEF r, w
  <2>4. /\ pc'[Starter] = "off" /\ pc'[r] = "read" /\ pc'[w] = "write"
        /\ \A g \in Fibers \ {Starter, r, w} : pc'[g] = pc[g]
    BY <2>1, <2>3 DEF Types
  <2>5. pc' \in [Fibers -> Places]
    BY <2>1, <2>3 DEF Types, Places
  <2>6. Types'
    BY <1>1, <1>3, <2>5 DEF Types
  <2>7. SitesFit'
    <3>1. "read" \in ReaderAt \ Closing /\ "write" \in WriterAt \ Closing /\ "off" \in StarterAt \ Closing
      BY DEF ReaderAt, WriterAt, StarterAt, Closing
    <3>2. r # w /\ r # Starter /\ w # Starter /\ ret' = ret /\ r \notin Writers /\ w \notin Readers
      BY <2>1, <1>3
    <3>3. pc'[Starter] \in StarterAt /\ pc'[Starter] \notin Closing
      BY <3>1, <2>4
    <3>4. ASSUME NEW g \in Readers
          PROVE  pc'[g] \in ReaderAt /\ (pc'[g] \in Closing => ret'[g] \in {"read", "post"})
      BY <3>1, <3>2, <2>4 DEF SitesFit
    <3>5. ASSUME NEW g \in Writers
          PROVE  pc'[g] \in WriterAt /\ (pc'[g] \in Closing => ret'[g] = "write")
      BY <3>1, <3>2, <2>4 DEF SitesFit
    <3> QED
      BY <3>3, <3>4, <3>5 DEF SitesFit
  <2>8. HandsFit'
    BY <1>1, <2>4 DEF HandsFit
  <2>9. HandsKept
    <3>1. \A g \in {Starter, r, w} : pc[g] \notin Answering
      BY <1>2, <2>1, <2>2 DEF Alive, Answering
    <3> QED
      BY <3>1, <1>1, <2>4 DEF HandsKept, Answering
  <2>10. PermitsFit'
    <3>1. Alive' = {r, w}
      BY <2>1, <2>2, <2>4 DEF Alive
    <3>2. Holding' = 0
      BY <2>4 DEF Holding
    <3> QED
      BY <3>1, <3>2, <2>2, <1>1 DEF PermitsFit, Up, r, w
  <2>11. OneStart'
    <3>1. Reading' = {r}
      BY <2>1, <2>2, <2>4 DEF Reading
    <3> QED
      BY <3>1, <2>2, <2>4, <1>1 DEF OneStart
  <2>12. CloseFits'
    BY <1>1, <2>4 DEF CloseFits, Reopening
  <2> QED
    BY <1>1, <1>3, <2>6, <2>7, <2>8, <2>9, <2>10, <2>11, <2>12, HandsSuffice, Frame
<1>4. CASE InnerClose(Starter, "failed")
  <2>1. todo' \in [Fibers -> Seq(Reqs)]
    BY <1>1 DEF Types
  <2> QED
    BY <1>1, <1>2, <1>4, <2>1, InnerCloseKeeps
<1> QED
  BY <1>3, <1>4 DEF ConnectCb

\* Start() gives its permits back.
LEMMA StartFailedKeeps ==
    ASSUME IInv, StartFailed
    PROVE  IInv'
<1> USE FiberKinds DEF IInv
<1>1. /\ pc' = [pc EXCEPT ![Starter] = "test_auto"] /\ pc[Starter] = "failed"
      /\ sem' = sem + 2
      /\ UNCHANGED <<races, conn, gen, broken, wire, auto, retry, fails, ctxs, que, mtx, ret,
                     todo, qpc, ctx, timer, cpc>>
  BY DEF StartFailed, Go, netVars, reqVars
<1>2. /\ pc'[Starter] = "test_auto" /\ \A g \in Fibers \ {Starter} : pc'[g] = pc[g]
      /\ Holding = 2 /\ Holding' = 0
  BY <1>1 DEF Types, Holding
<1>3. Types'
  BY <1>1 DEF Types, Places
<1>4. SitesFit'
  BY <1>1, <1>2 DEF SitesFit, StarterAt, Closing
<1>5. HandsFit' /\ HandsKept
  BY <1>1, <1>2 DEF HandsFit, HandsKept, Answering
<1>6. PermitsFit'
  <2>1. Alive = {} /\ sem = 0
    BY <1>2, AllGone
  <2>2. Alive' = {}
    BY <2>1, <1>2 DEF Alive
  <2> QED
    BY <2>1, <2>2, <1>1, <1>2 DEF PermitsFit, Up
<1>7. OneStart'
  BY <1>1, <1>2 DEF OneStart, Reading
<1>8. CloseFits'
  BY <1>1, <1>2 DEF CloseFits, Reopening
<1> QED
  BY <1>1, <1>3, <1>4, <1>5, <1>6, <1>7, <1>8, HandsSuffice, Frame

\* The timer's callback is Start().
LEMMA RetryStartKeeps ==
    ASSUME IInv, RetryStart
    PROVE  IInv'
<1> USE FiberKinds DEF IInv
<1>1. /\ pc' = [pc EXCEPT ![Starter] = "wait"] /\ pc[Starter] = "off"
      /\ retry = "due" /\ retry' = "no"
      /\ UNCHANGED <<races, conn, gen, broken, wire, sem, auto, fails, ctxs, que, mtx, ret,
                     todo, qpc, ctx, timer, cpc>>
  BY DEF RetryStart, Go, netVars, reqVars
<1>2. /\ pc'[Starter] = "wait" /\ \A g \in Fibers \ {Starter} : pc'[g] = pc[g]
      /\ Holding' = Holding
  BY <1>1 DEF Types, Holding
<1>3. Types'
  BY <1>1 DEF Types, Places
<1>4. SitesFit'
  BY <1>1, <1>2 DEF SitesFit, StarterAt, Closing
<1>5. HandsFit' /\ HandsKept
  BY <1>1, <1>2 DEF HandsFit, HandsKept, Answering
<1>6. PermitsFit'
  <2>1. Alive' = Alive
    BY <1>2 DEF Alive
  <2> QED
    BY <2>1, <1>1, <1>2 DEF PermitsFit, Up
<1>7. OneStart'
  BY <1>1, <1>2 DEF OneStart, Reading
<1>8. CloseFits'
  BY <1>1, <1>2 DEF CloseFits, Reopening
<1> QED
  BY <1>1, <1>3, <1>4, <1>5, <1>6, <1>7, <1>8, HandsSuffice, Frame
-----------------------------------------------------------------------------
(***************************************************************************)
(* The timer of the reconnection, the peer and Close().                    *)
(***************************************************************************)

LEMMA RetryExpiresKeeps ==
    ASSUME IInv, RetryExpires
    PROVE  IInv'
<1> USE DEF IInv
<1>1. /\ retry = "armed" /\ retry' = "due" /\ ("reopen" \in races \/ cpc # "timer")
      /\ UNCHANGED <<races, conn, gen, broken, wire, sem, auto, fails, ctxs, que, mtx, pc, ret,
                     todo, qpc, ctx, timer, cpc>>
  BY DEF RetryExpires, netVars, reqVars
<1>2. Types'
  BY <1>1 DEF Types
<1>3. OneStart'
  BY <1>1 DEF OneStart, Reading
<1>4. CloseFits'
  <2>1. cpc = "no" \/ "reopen" \in races
    BY <1>1 DEF CloseFits, Types
  <2> QED
    BY <2>1, <1>1 DEF CloseFits
<1> QED
  BY <1>1, <1>2, <1>3, <1>4, HandsSuffice, Frame

LEMMA BreakKeeps ==
    ASSUME IInv, Break
    PROVE  IInv'
<1> USE DEF IInv
<1>1. /\ broken' = TRUE
      /\ UNCHANGED <<races, conn, gen, wire, sem, auto, retry, fails, ctxs, que, mtx, pc, ret,
                     todo, qpc, ctx, timer, cpc>>
  BY DEF Break, startVars, reqVars
<1>2. Types'
  BY <1>1 DEF Types
<1> QED
  BY <1>1, <1>2, HandsSuffice, Frame

LEMMA CloseBeginKeeps ==
    ASSUME IInv, CloseBegin
    PROVE  IInv'
<1> USE DEF IInv
<1>1. /\ auto' = FALSE /\ cpc' = "timer" /\ ("reopen" \in races \/ ~Reopening)
      /\ UNCHANGED <<races, conn, gen, broken, wire, sem, retry, fails, ctxs, que, mtx, pc, ret,
                     todo, qpc, ctx, timer>>
  BY DEF CloseBegin, netVars, reqVars
<1>2. Types'
  BY <1>1 DEF Types
<1>3. CloseFits' /\ ClosedStaysClosed'
  BY <1>1 DEF CloseFits, Reopening, ClosedStaysClosed
<1> QED
  BY <1>1, <1>2, <1>3, HandsSuffice, Frame

LEMMA CloseTimerKeeps ==
    ASSUME IInv, CloseTimer
    PROVE  IInv'
<1> USE DEF IInv
<1>1. /\ cpc = "timer" /\ cpc' = "socket" /\ retry' = IF retry = "armed" THEN "no" ELSE retry
      /\ UNCHANGED <<races, conn, gen, broken, wire, sem, auto, fails, ctxs, que, mtx, pc, ret,
                     todo, qpc, ctx, timer>>
  BY DEF CloseTimer, netVars, reqVars
<1>2. Types'
  BY <1>1 DEF Types
<1>3. OneStart'
  BY <1>1 DEF OneStart, Reading
<1>4. CloseFits' /\ ClosedStaysClosed'
  BY <1>1 DEF CloseFits, Reopening, ClosedStaysClosed, Types
<1> QED
  BY <1>1, <1>2, <1>3, <1>4, HandsSuffice, Frame

LEMMA CloseSocketKeeps ==
    ASSUME IInv, CloseSocket
    PROVE  IInv'
<1> USE DEF IInv
<1>1. /\ cpc = "socket" /\ cpc' = "closed" /\ conn' = FALSE /\ broken' = FALSE /\ wire' = {}
      /\ UNCHANGED <<races, gen, sem, auto, retry, fails, ctxs, que, mtx, pc, ret,
                     todo, qpc, ctx, timer>>
  BY DEF CloseSocket, Disconnect, startVars, reqVars
<1>2. Types'
  BY <1>1 DEF Types
<1>3. CloseFits' /\ ClosedStaysClosed'
  BY <1>1 DEF CloseFits, Reopening, ClosedStaysClosed
<1> QED
  BY <1>1, <1>2, <1>3, HandsSuffice, Frame
-----------------------------------------------------------------------------
(***************************************************************************)
(* innerClose(), and what the reader and Start() do after it.              *)
(***************************************************************************)

\* The writers among F that wait are woken: nothing but the place of these changes.
LEMMA WakingKeeps ==
    ASSUME IInv, NEW F \in SUBSET Waiting, Wake(F),
           UNCHANGED <<races, conn, gen, broken, wire, sem, auto, retry, ret, todo, cpc>>
    PROVE  /\ pc' \in [Fibers -> Places]
           /\ SitesFit' /\ HandsFit' /\ HandsKept /\ PermitsFit' /\ OneStart' /\ CloseFits'
<1> USE FiberKinds DEF IInv
<1>1. \A f \in F : f \in Writers /\ pc[f] = "waiting"
  BY DEF Waiting, SitesFit, StarterAt, ReaderAt, Closing
<1>2. pc' = [f \in Fibers |-> IF f \in F THEN "lock" ELSE pc[f]]
  BY DEF Wake
<1>3. \A f \in Fibers : IF f \in F THEN pc'[f] = "lock" ELSE pc'[f] = pc[f]
  BY <1>2
<1>4. pc'[Starter] = pc[Starter] /\ \A f \in Readers : pc'[f] = pc[f]
  BY <1>1, <1>3
<1>5. pc' \in [Fibers -> Places]
  BY <1>2 DEF Types, Places
<1>6. SitesFit'
  BY <1>1, <1>3, <1>4 DEF SitesFit, WriterAt, Closing
<1>7. HandsFit' /\ HandsKept
  BY <1>1, <1>3 DEF HandsFit, HandsKept, Answering
<1>8. PermitsFit'
  <2>1. Alive' = Alive
    BY <1>1, <1>3 DEF Alive
  <2>2. Holding' = Holding
    BY <1>4 DEF Holding
  <2> QED
    BY <2>1, <2>2 DEF PermitsFit, Up
<1>9. OneStart'
  <2>1. Reading' = Reading
    BY <1>1, <1>3, <1>4 DEF Reading
  <2> QED
    BY <2>1, <1>4 DEF OneStart
<1>10. CloseFits'
  <2>1. Reopening' => Reopening
    BY <1>3, <1>4 DEF Reopening
  <2> QED
    BY <2>1 DEF CloseFits
<1> QED
  BY <1>5, <1>6, <1>7, <1>8, <1>9, <1>10

LEMMA BroadcastKeeps ==
    ASSUME IInv, NEW f \in Fibers, Broadcast(f)
    PROVE  IInv'
<1> USE FiberKinds DEF IInv
<1>1. /\ pc[f] = "broadcast"
      /\ pc' = [w \in Fibers |-> IF w = f THEN "swap" ELSE IF pc[w] = "waiting" THEN "lock" ELSE pc[w]]
      /\ UNCHANGED <<races, conn, gen, broken, wire, sem, auto, retry, fails, ctxs, que, mtx, ret,
                     todo, qpc, ctx, timer, cpc>>
  BY DEF Broadcast, netVars, startVars, reqVars
<1>2. /\ pc'[f] = "swap"
      /\ \A w \in Fibers : pc[w] = "waiting" => w \in Writers /\ pc'[w] = "lock"
      /\ \A w \in Fibers \ {f} : pc[w] # "waiting" => pc'[w] = pc[w]
  BY <1>1 DEF SitesFit, StarterAt, ReaderAt, Closing
<1>3. Types'
  BY <1>1 DEF Types, Places
<1>4. SitesFit'
  BY <1>1, <1>2 DEF SitesFit, StarterAt, ReaderAt, WriterAt, Closing
<1>5. HandsFit' /\ HandsKept
  BY <1>1, <1>2 DEF HandsFit, HandsKept, Answering
<1>6. PermitsFit'
  <2>1. Alive' = Alive
    BY <1>1, <1>2 DEF Alive
  <2>2. Holding' = Holding
    BY <1>1, <1>2 DEF Holding
  <2> QED
    BY <2>1, <2>2, <1>1 DEF PermitsFit, Up
<1>7. Reading' = Reading /\ (pc'[Starter] = "off" <=> pc[Starter] = "off")
  BY <1>1, <1>2 DEF Reading
<1>8. OneStart'
  BY <1>7, <1>1 DEF OneStart
<1>9. CloseFits'
  <2>1. Reopening' => Reopening
    BY <1>1, <1>2, <1>7 DEF Reopening
  <2> QED
    BY <2>1, <1>1 DEF CloseFits
<1> QED
  BY <1>1, <1>3, <1>4, <1>5, <1>6, <1>8, <1>9, HandsSuffice, Frame

\* _reqCtxs goes into the hands of f.
LEMMA SwapCtxsKeeps ==
    ASSUME IInv, NEW f \in Fibers, SwapCtxs(f)
    PROVE  IInv'
<1> USE FiberKinds DEF IInv
<1>1. /\ pc[f] = "swap" /\ pc' = [pc EXCEPT ![f] = "clear"]
      /\ todo' = [todo EXCEPT ![f] = Listed(ctxs)] /\ ctxs' = {}
      /\ UNCHANGED <<races, conn, gen, broken, wire, sem, auto, retry, fails, que, mtx, ret,
                     qpc, ctx, timer, cpc>>
  BY DEF SwapCtxs, Go, netVars, startVars, reqVars
<1>2. /\ Listed(ctxs) \in Seq(Reqs)
      /\ \A q \in ctxs : \E i \in DOMAIN Listed(ctxs) : Listed(ctxs)[i] = q
  BY ListedAll DEF Types
<1>3. /\ pc'[f] = "clear" /\ \A g \in Fibers \ {f} : pc'[g] = pc[g]
      /\ todo'[f] = Listed(ctxs) /\ \A g \in Fibers \ {f} : todo'[g] = todo[g]
  BY <1>1 DEF Types
<1>4. Types'
  BY <1>1, <1>2 DEF Types, Places
<1>5. SitesFit'
  BY <1>1, <1>3 DEF SitesFit, StarterAt, ReaderAt, WriterAt, Closing
<1>6. HandsFit'
  BY <1>3 DEF HandsFit
<1>7. HandsKept
  BY <1>1, <1>3 DEF HandsKept, Answering
<1>8. AnswersFit'
  BY <1>1, <1>7, HandsSuffice
<1>9. PermitsFit' /\ OneStart' /\ CloseFits'
  <2>1. Busy(f) /\ Busy(f)'
    BY <1>1, <1>3 DEF Busy
  <2> QED
    BY <2>1, <1>1, StaysBusy
<1>10. NeverForgotten'
  <2> SUFFICES ASSUME NEW q \in Reqs, Calling(q)', ctx'[q].sched, timer'[q] # "erased"
               PROVE  \E g \in Fibers : /\ pc'[g] \in Answering
                                        /\ \E i \in DOMAIN todo'[g] : todo'[g][i] = q
    BY DEF NeverForgotten, Answering
  <2>1. \/ q \in ctxs
        \/ \E g \in Fibers : pc[g] \in Answering /\ \E i \in DOMAIN todo[g] : todo[g][i] = q
    BY <1>1 DEF NeverForgotten, Calling, Answering
  <2>2. CASE q \in ctxs
    <3>1. pc'[f] \in Answering /\ \E i \in DOMAIN todo'[f] : todo'[f][i] = q
      BY <2>2, <1>2, <1>3 DEF Answering
    <3> QED
      BY <3>1
  <2>3. ASSUME NEW g \in Fibers, pc[g] \in Answering, \E i \in DOMAIN todo[g] : todo[g][i] = q
        PROVE  pc'[g] \in Answering /\ \E i \in DOMAIN todo'[g] : todo'[g][i] = q
    BY <2>3, <1>1, <1>3 DEF Answering
  <2> QED
    BY <2>1, <2>2, <2>3
<1> QED
  BY <1>1, <1>4, <1>5, <1>6, <1>8, <1>9, <1>10, Frame

LEMMA ClearQueueKeeps ==
    ASSUME IInv, NEW f \in Fibers, ClearQueue(f)
    PROVE  IInv'
<1> USE FiberKinds DEF IInv
<1>1. /\ pc[f] = "clear" /\ que' = <<>>
      /\ UNCHANGED <<races, conn, gen, broken, wire, sem, auto, retry, fails, ctxs, mtx,
                     todo, qpc, ctx, timer, cpc>>
  BY DEF ClearQueue, netVars, startVars, reqVars
<1>2. CASE todo[f] = <<>> /\ Leave(f)
  <2>1. /\ pc' \in [Fibers -> Places] /\ ret' \in [Fibers -> Places]
        /\ pc'[f] \in {"failed", "read", "post", "write"}
        /\ \A g \in Fibers \ {f} : pc'[g] = pc[g]
        /\ SitesFit' /\ PermitsFit' /\ OneStart' /\ CloseFits'
    BY <1>1, <1>2, LeaveFits DEF Closing
  <2>2. Types'
    BY <1>1, <2>1 DEF Types
  <2>3. HandsFit' /\ HandsKept
    BY <1>1, <1>2, <2>1 DEF HandsFit, HandsKept, Answering
  <2> QED
    BY <1>1, <2>1, <2>2, <2>3, HandsSuffice, Frame
<1>3. CASE todo[f] # <<>> /\ Go(f, "answer") /\ UNCHANGED ret
  <2>1. /\ pc' = [pc EXCEPT ![f] = "answer"]
        /\ pc'[f] = "answer" /\ \A g \in Fibers \ {f} : pc'[g] = pc[g]
    BY <1>3 DEF Go, Types
  <2>2. Types'
    BY <1>1, <1>3, <2>1 DEF Types, Places
  <2>3. SitesFit'
    BY <1>1, <1>3, <2>1 DEF SitesFit, StarterAt, ReaderAt, WriterAt, Closing
  <2>4. HandsFit' /\ HandsKept
    BY <1>1, <1>3, <2>1 DEF HandsFit, HandsKept, Answering
  <2>5. Busy(f) /\ Busy(f)'
    BY <1>1, <2>1 DEF Busy
  <2>6. PermitsFit' /\ OneStart' /\ CloseFits'
    BY <2>1, <2>5, <1>1, StaysBusy
  <2> QED
    BY <1>1, <2>2, <2>3, <2>4, <2>6, HandsSuffice, Frame
<1> QED
  BY <1>2, <1>3 DEF ClearQueue
-----------------------------------------------------------------------------
(***************************************************************************)
(* doRsp(), by the answer, the timeout or the closing of the connection.   *)
(***************************************************************************)

\* Fiber g has the context of p to answer.
Has(g, p) == pc[g] \in Answering /\ \E i \in DOMAIN todo[g] : todo[g][i] = p

\* Who has called doRsp() on the context of q, in the state c, and takes no other out of
\* anybody's hands, leaves every caller safe.
LEMMA RspKeeps ==
    ASSUME IInv, NEW q \in Reqs, NEW c \in Contexts, DoRsp(q, c),
           c.sched = ctx[q].sched, c.woken = ctx[q].woken, ctx[q].rsp => c.rsp,
           c.timed \/ c.result = "timeout" => timer[q] = "erased",
           (c.sched \/ c.woken > 0) /\ c.result = "ok" /\ ~(c.sched /\ c.timed)
              => c.rsp \/ Writing(q)',
           UNCHANGED <<qpc, ctxs>>,
           \A g \in Fibers : pc[g] = "rsp" => pc'[g] = "rsp" /\ todo'[g] = todo[g],
           \A g \in Fibers : pc'[g] = "do_rsp" => pc[g] = "do_rsp" /\ todo'[g] = todo[g],
           \A g \in Fibers, p \in Reqs \ {q} : Has(g, p) => Has(g, p)'
    PROVE  /\ ctx' \in [Reqs -> Contexts]
           /\ timer' \in [Reqs -> {"no", "armed", "due", "erased"}]
           /\ CallerWokenOnce' /\ NeverForgotten' /\ TimersFit' /\ AnswersFit'
<1> USE DEF IInv
<1>1. PICK r \in Contexts :
          /\ ctx' = [ctx EXCEPT ![q] = r]
          /\ ~r.sched /\ r.rsp = c.rsp /\ r.timed = c.timed
          /\ r.woken = c.woken + (IF c.sched THEN 1 ELSE 0)
          /\ r.result = IF c.sched /\ c.timed THEN "timeout" ELSE c.result
          /\ timer' \in [Reqs -> {"no", "armed", "due", "erased"}]
          /\ \A p \in Reqs : timer[p] = "erased" <=> timer'[p] = "erased"
          /\ \A p \in Reqs : timer[p] = "no" => timer'[p] = "no"
  BY DoRspEffect DEF Types
<1>2. /\ ctx' \in [Reqs -> Contexts]
      /\ ctx'[q] = r /\ \A p \in Reqs \ {q} : ctx'[p] = ctx[p]
  BY <1>1 DEF Types
<1>3. c.woken \in Nat /\ c.sched \in BOOLEAN /\ r.sched \in BOOLEAN
  BY DEF Contexts
<1>4. CallerWokenOnce'
  <2>1. r.woken + (IF r.sched THEN 1 ELSE 0) = ctx[q].woken + (IF ctx[q].sched THEN 1 ELSE 0)
    BY <1>1, <1>3
  <2> QED
    BY <2>1, <1>2 DEF CallerWokenOnce
<1>5. TimersFit'
  <2>1. r.timed \/ r.result = "timeout" => timer'[q] = "erased"
    BY <1>1
  <2> QED
    BY <2>1, <1>1, <1>2 DEF TimersFit
<1>6. AnswersFit'
  <2>1. r.woken > 0 /\ r.result = "ok" => r.rsp \/ Writing(q)'
    BY <1>1, <1>3
  <2>2. ASSUME NEW p \in Reqs, Writing(p) PROVE Writing(p)'
    BY <2>2 DEF Writing
  <2>3. \A p \in Reqs : ctx'[p].woken > 0 /\ ctx'[p].result = "ok" => ctx'[p].rsp \/ Writing(p)'
    BY <2>1, <2>2, <1>2 DEF AnswersFit
  <2>4. \A p \in Reqs : ctx[p].rsp => ctx'[p].rsp
    BY <1>1, <1>2
  <2>5. ASSUME NEW g \in Fibers, pc'[g] = "do_rsp" PROVE ctx'[todo'[g][1]].rsp
    <3>1. pc[g] = "do_rsp" /\ todo'[g] = todo[g] /\ ctx[todo[g][1]].rsp
      BY <2>5 DEF AnswersFit
    <3>2. todo[g][1] \in Reqs
      BY <3>1 DEF HandsFit, Types
    <3> QED
      BY <3>1, <3>2, <2>4
  <2> QED
    BY <2>3, <2>5 DEF AnswersFit
<1>7. NeverForgotten'
  <2> SUFFICES ASSUME NEW p \in Reqs, Calling(p)', ctx'[p].sched
               PROVE  p \in ctxs' \/ timer'[p] = "erased" \/ \E g \in Fibers : Has(g, p)'
    BY DEF NeverForgotten, Has, Answering
  <2>1. p # q /\ ctx'[p] = ctx[p]
    BY <1>1, <1>2
  <2>2. p \in ctxs \/ timer[p] = "erased" \/ \E g \in Fibers : Has(g, p)
    BY <2>1 DEF NeverForgotten, Calling, Has, Answering
  <2> QED
    BY <2>1, <2>2, <1>1
<1> QED
  BY <1>1, <1>2, <1>4, <1>5, <1>6, <1>7

LEMMA AnswerKeeps ==
    ASSUME IInv, NEW f \in Fibers, Answer(f)
    PROVE  IInv'
<1> USE FiberKinds DEF IInv
<1> DEFINE q == Head(todo[f])
           c == [ctx[q] EXCEPT !.result = "io"]
<1>1. /\ pc[f] = "answer" /\ DoRsp(q, c) /\ todo' = [todo EXCEPT ![f] = Tail(todo[f])]
      /\ IF Tail(todo[f]) = <<>> THEN Leave(f) ELSE UNCHANGED <<pc, ret>>
      /\ UNCHANGED <<races, conn, gen, broken, wire, sem, auto, retry, fails, ctxs, que, mtx,
                     qpc, cpc>>
  BY DEF Answer, netVars, startVars
<1>2. /\ todo[f] \in Seq(Reqs) /\ todo[f] # <<>>
      /\ q \in Reqs /\ ctx[q] \in Contexts /\ Tail(todo[f]) \in Seq(Reqs)
  BY <1>1 DEF HandsFit, Types
<1>3. /\ c \in Contexts /\ c.sched = ctx[q].sched /\ c.woken = ctx[q].woken
      /\ c.rsp = ctx[q].rsp /\ c.timed = ctx[q].timed /\ c.result = "io"
  BY <1>2 DEF Contexts
<1>4. \A p \in Reqs \ {q} : (\E i \in DOMAIN todo[f] : todo[f][i] = p)
                              => \E i \in DOMAIN Tail(todo[f]) : Tail(todo[f])[i] = p
  <2> SUFFICES ASSUME NEW p \in Reqs \ {q}, NEW i \in DOMAIN todo[f], todo[f][i] = p
               PROVE  \E j \in DOMAIN Tail(todo[f]) : Tail(todo[f])[j] = p
    OBVIOUS
  <2>1. i \in 1..Len(todo[f]) /\ todo[f][1] = q /\ Len(todo[f]) \in Nat
    BY <1>2
  <2>2. i # 1
    BY <2>1
  <2>3. i - 1 \in 1..Len(todo[f]) - 1
    BY <2>1, <2>2
  <2>4. Len(Tail(todo[f])) = Len(todo[f]) - 1 /\ DOMAIN Tail(todo[f]) = 1..Len(Tail(todo[f]))
    BY <1>2
  <2>5. Tail(todo[f])[i - 1] = todo[f][i]
    BY <1>2, <2>1, <2>3
  <2> QED
    BY <2>3, <2>4, <2>5
<1>5. todo'[f] = Tail(todo[f]) /\ \A g \in Fibers \ {f} : todo'[g] = todo[g]
  BY <1>1 DEF Types
<1>6. todo' \in [Fibers -> Seq(Reqs)]
  BY <1>1, <1>2 DEF Types
<1>7. c.timed \/ c.result = "timeout" => timer[q] = "erased"
  BY <1>2, <1>3 DEF TimersFit
<1> HIDE DEF q, c
<1>8. CASE Tail(todo[f]) = <<>> /\ Leave(f)
  <2>1. /\ pc' \in [Fibers -> Places] /\ ret' \in [Fibers -> Places]
        /\ pc'[f] \in {"failed", "read", "post", "write"}
        /\ \A g \in Fibers \ {f} : pc'[g] = pc[g]
        /\ SitesFit' /\ PermitsFit' /\ OneStart' /\ CloseFits'
    BY <1>1, <1>8, LeaveFits DEF Closing
  <2>2. HandsFit'
    BY <1>5, <2>1 DEF HandsFit
  <2>3. /\ \A g \in Fibers : pc[g] = "rsp" => pc'[g] = "rsp" /\ todo'[g] = todo[g]
        /\ \A g \in Fibers : pc'[g] = "do_rsp" => pc[g] = "do_rsp" /\ todo'[g] = todo[g]
    BY <1>1, <1>5, <2>1
  <2>4. \A p \in Reqs \ {q} : ~Has(f, p)
    BY <1>4, <1>8 DEF Has
  <2>5. \A g \in Fibers, p \in Reqs \ {q} : Has(g, p) => Has(g, p)'
    BY <1>5, <2>1, <2>4 DEF Has
  <2>6. /\ ctx' \in [Reqs -> Contexts]
        /\ timer' \in [Reqs -> {"no", "armed", "due", "erased"}]
        /\ CallerWokenOnce' /\ NeverForgotten' /\ TimersFit' /\ AnswersFit'
    BY <1>1, <1>2, <1>3, <1>7, <2>3, <2>5, RspKeeps
  <2>7. Types'
    BY <1>1, <1>6, <2>1, <2>6 DEF Types
  <2> QED
    BY <1>1, <2>1, <2>2, <2>6, <2>7, Frame
<1>9. CASE Tail(todo[f]) # <<>> /\ UNCHANGED <<pc, ret>>
  <2>1. HandsFit'
    BY <1>1, <1>5, <1>9 DEF HandsFit
  <2>2. /\ \A g \in Fibers : pc[g] = "rsp" => pc'[g] = "rsp" /\ todo'[g] = todo[g]
        /\ \A g \in Fibers : pc'[g] = "do_rsp" => pc[g] = "do_rsp" /\ todo'[g] = todo[g]
    BY <1>1, <1>5, <1>9
  <2>3. ASSUME NEW g \in Fibers, NEW p \in Reqs \ {q}, Has(g, p) PROVE Has(g, p)'
    <3>1. CASE g = f
      <4>1. \E i \in DOMAIN Tail(todo[f]) : Tail(todo[f])[i] = p
        BY <2>3, <3>1, <1>4 DEF Has
      <4> QED
        BY <2>3, <3>1, <4>1, <1>5, <1>9 DEF Has
    <3>2. CASE g # f
      BY <2>3, <3>2, <1>5, <1>9 DEF Has
    <3> QED
      BY <3>1, <3>2
  <2>4. /\ ctx' \in [Reqs -> Contexts]
        /\ timer' \in [Reqs -> {"no", "armed", "due", "erased"}]
        /\ CallerWokenOnce' /\ NeverForgotten' /\ TimersFit' /\ AnswersFit'
    BY <1>1, <1>2, <1>3, <1>7, <2>2, <2>3, RspKeeps
  <2>5. Types'
    BY <1>1, <1>6, <1>9, <2>4 DEF Types
  <2> QED
    BY <1>1, <1>9, <2>1, <2>4, <2>5, Frame
<1> QED
  BY <1>1, <1>8, <1>9

\* The reader that has its answer in the context.
LEMMA ReadRspKeeps ==
    ASSUME IInv, NEW f \in Fibers, ReadRsp(f)
    PROVE  IInv'
<1> USE FiberKinds DEF IInv
<1> DEFINE q == todo[f][1]
<1>1. /\ pc[f] = "do_rsp" /\ DoRsp(q, ctx[q]) /\ todo' = [todo EXCEPT ![f] = <<>>]
      /\ pc' = [pc EXCEPT ![f] = "read"]
      /\ UNCHANGED <<races, conn, gen, broken, wire, sem, auto, retry, fails, ctxs, que, mtx, ret,
                     qpc, cpc>>
  BY DEF ReadRsp, Go, netVars, startVars
<1>2. /\ todo[f] \in Seq(Reqs) /\ Len(todo[f]) = 1 /\ q \in Reqs /\ ctx[q] \in Contexts
      /\ ctx[q].rsp
  BY <1>1 DEF HandsFit, AnswersFit, Types
<1>3. \A i \in DOMAIN todo[f] : todo[f][i] = q
  BY <1>2
<1>4. /\ pc'[f] = "read" /\ \A g \in Fibers \ {f} : pc'[g] = pc[g]
      /\ todo'[f] = <<>> /\ \A g \in Fibers \ {f} : todo'[g] = todo[g]
  BY <1>1 DEF Types
<1> HIDE DEF q
<1>5. /\ \A g \in Fibers : pc[g] = "rsp" => pc'[g] = "rsp" /\ todo'[g] = todo[g]
      /\ \A g \in Fibers : pc'[g] = "do_rsp" => pc[g] = "do_rsp" /\ todo'[g] = todo[g]
  BY <1>1, <1>4
<1>6. \A g \in Fibers, p \in Reqs \ {q} : Has(g, p) => Has(g, p)'
  BY <1>3, <1>4 DEF Has
<1>7. ctx[q].timed \/ ctx[q].result = "timeout" => timer[q] = "erased"
  BY <1>2 DEF TimersFit
<1>8. /\ ctx' \in [Reqs -> Contexts]
      /\ timer' \in [Reqs -> {"no", "armed", "due", "erased"}]
      /\ CallerWokenOnce' /\ NeverForgotten' /\ TimersFit' /\ AnswersFit'
  BY <1>1, <1>2, <1>5, <1>6, <1>7, RspKeeps
<1>9. pc' \in [Fibers -> Places] /\ todo' \in [Fibers -> Seq(Reqs)]
  BY <1>1 DEF Types, Places
<1>10. Types'
  BY <1>1, <1>8, <1>9 DEF Types
<1>11. SitesFit'
  BY <1>1, <1>4 DEF SitesFit, StarterAt, ReaderAt, WriterAt, Closing
<1>12. HandsFit'
  BY <1>4 DEF HandsFit
<1>13. Busy(f) /\ Busy(f)'
  BY <1>1, <1>4 DEF Busy, SitesFit, StarterAt, Closing
<1>14. PermitsFit' /\ OneStart' /\ CloseFits'
  BY <1>1, <1>13, StaysBusy
<1> QED
  BY <1>1, <1>8, <1>10, <1>11, <1>12, <1>14, Frame

\* onTimer(): a caller that still waits gets a timeout.
LEMMA OnTimerRspKeeps ==
    ASSUME IInv, NEW q \in Reqs, OnTimerRsp(q)
    PROVE  IInv'
<1> USE DEF IInv
<1> DEFINE c == [ctx[q] EXCEPT !.timed = TRUE]
<1>1. /\ timer[q] = "erased" /\ DoRsp(q, c)
      /\ UNCHANGED <<races, conn, gen, broken, wire, sem, auto, retry, fails, ctxs, que, mtx, pc,
                     ret, todo, qpc, cpc>>
  BY DEF OnTimerRsp, netVars, startVars
<1>2. ctx[q] \in Contexts
  BY DEF Types
<1>3. /\ c \in Contexts /\ c.sched = ctx[q].sched /\ c.woken = ctx[q].woken
      /\ c.rsp = ctx[q].rsp /\ c.timed /\ c.result = ctx[q].result
  BY <1>2 DEF Contexts
<1> HIDE DEF c
<1>4. Writing(q)' <=> Writing(q)
  BY <1>1 DEF Writing
<1>5. \A g \in Fibers, p \in Reqs \ {q} : Has(g, p) => Has(g, p)'
  BY <1>1 DEF Has
<1>6. (c.sched \/ c.woken > 0) /\ c.result = "ok" /\ ~(c.sched /\ c.timed) => c.rsp \/ Writing(q)'
  BY <1>3, <1>4 DEF AnswersFit
<1>7. /\ ctx' \in [Reqs -> Contexts]
      /\ timer' \in [Reqs -> {"no", "armed", "due", "erased"}]
      /\ CallerWokenOnce' /\ NeverForgotten' /\ TimersFit' /\ AnswersFit'
  BY <1>1, <1>3, <1>5, <1>6, RspKeeps
<1>8. Types'
  BY <1>1, <1>7 DEF Types
<1> QED
  BY <1>1, <1>7, <1>8, Frame
-----------------------------------------------------------------------------
(***************************************************************************)
(* The reader.                                                             *)
(***************************************************************************)

LEMMA ReadLoopKeeps ==
    ASSUME IInv, NEW f \in Fibers, ReadLoop(f)
    PROVE  IInv'
<1> USE FiberKinds DEF IInv
<1>1. /\ pc[f] = "read" /\ f \in Readers
      /\ UNCHANGED <<races, gen, sem, auto, retry, ctxs, que, mtx, todo, qpc, ctx, timer, cpc>>
  BY DEF ReadLoop, startVars, reqVars, SitesFit, StarterAt, WriterAt, Closing
<1>2. Busy(f) /\ pc[f] \notin Answering
  BY <1>1 DEF Busy, Answering
<1>3. wire \subseteq Reqs /\ que' \in Seq(Reqs) /\ mtx' \in Fibers \cup {None}
      /\ todo' \in [Fibers -> Seq(Reqs)]
  BY <1>1 DEF Types
<1>4. CASE conn
  <2>1. /\ pc' = [pc EXCEPT ![f] = "recv"] /\ Busy(f)'
        /\ UNCHANGED <<conn, broken, wire, ret>>
    BY <1>4, <1>1 DEF ReadLoop, Go, Busy, Types
  <2>2. "recv" \in Own(f)
    BY <1>1 DEF Own, ReaderAt, Closing, Answering
  <2> QED
    BY <1>1, <1>2, <1>3, <2>1, <2>2, MoveKeeps
<1>5. CASE ~conn
  <2>1. InnerClose(f, "post")
    BY <1>5 DEF ReadLoop
  <2> QED
    BY <1>1, <1>2, <1>3, <2>1, InnerCloseKeeps
<1> QED
  BY <1>4, <1>5

LEMMA RecvFailsKeeps ==
    ASSUME IInv, NEW f \in Fibers, RecvFails(f)
    PROVE  IInv'
<1> USE FiberKinds DEF IInv
<1>1. /\ pc[f] = "recv" /\ f \in Readers /\ InnerClose(f, "read")
      /\ UNCHANGED <<races, gen, sem, auto, retry, ctxs, que, mtx, todo, qpc, ctx, timer, cpc>>
  BY DEF RecvFails, startVars, reqVars, SitesFit, StarterAt, WriterAt, Closing
<1>2. Busy(f) /\ pc[f] \notin Answering /\ todo' \in [Fibers -> Seq(Reqs)]
  BY <1>1 DEF Busy, Answering, Types
<1> QED
  BY <1>1, <1>2, InnerCloseKeeps

\* The context of an answer goes from the map into the hands of the reader.
LEMMA RecvKeeps ==
    ASSUME IInv, NEW f \in Fibers, Recv(f)
    PROVE  IInv'
<1> USE FiberKinds DEF IInv
<1>1. PICK q \in wire :
          /\ wire' = wire \ {q} /\ ctxs' = ctxs \ {q}
          /\ IF q \in ctxs
             THEN Go(f, "result") /\ todo' = [todo EXCEPT ![f] = <<q>>]
             ELSE Go(f, "read") /\ UNCHANGED todo
  BY DEF Recv
<1>2. /\ pc[f] = "recv" /\ f \in Readers
      /\ UNCHANGED <<races, conn, gen, broken, sem, auto, retry, que, mtx, ret, qpc, ctx, timer, cpc>>
  BY DEF Recv, startVars, reqVars, SitesFit, StarterAt, WriterAt, Closing
<1>3. q \in Reqs /\ wire' \subseteq Reqs /\ ctxs' \subseteq Reqs
  BY <1>1 DEF Types
<1>4. Busy(f) /\ pc[f] \notin Answering
  BY <1>2 DEF Busy, Answering
<1>5. CASE q \in ctxs
  <2>1. /\ pc' = [pc EXCEPT ![f] = "result"] /\ todo' = [todo EXCEPT ![f] = <<q>>]
    BY <1>1, <1>5 DEF Go
  <2>2. /\ pc'[f] = "result" /\ \A g \in Fibers \ {f} : pc'[g] = pc[g]
        /\ todo'[f] = <<q>> /\ \A g \in Fibers \ {f} : todo'[g] = todo[g]
        /\ pc' \in [Fibers -> Places] /\ todo' \in [Fibers -> Seq(Reqs)]
    BY <2>1, <1>3 DEF Types, Places
  <2>3. Types'
    BY <1>2, <1>3, <2>2 DEF Types
  <2>4. SitesFit'
    BY <1>2, <2>2 DEF SitesFit, ReaderAt, Closing
  <2>5. HandsFit'
    <3>1. Len(<<q>>) = 1
      OBVIOUS
    <3> QED
      BY <2>2, <3>1 DEF HandsFit
  <2>6. Busy(f)'
    BY <2>2 DEF Busy
  <2>7. PermitsFit' /\ OneStart' /\ CloseFits'
    BY <1>2, <1>4, <2>1, <2>6, StaysBusy
  <2>8. HandsKept
    BY <1>2, <2>2 DEF HandsKept, Answering
  <2>9. NeverForgotten'
    <3> SUFFICES ASSUME NEW p \in Reqs, Calling(p)', ctx'[p].sched, timer'[p] # "erased"
                 PROVE  p \in ctxs' \/ \E g \in Fibers : Has(g, p)'
      BY DEF NeverForgotten, Has, Answering
    <3>1. p \in ctxs \/ \E g \in Fibers : Has(g, p)
      BY <1>2 DEF NeverForgotten, Calling, Has, Answering
    <3>2. Has(f, q)'
      BY <2>2 DEF Has, Answering
    <3>3. ASSUME NEW g \in Fibers, Has(g, p) PROVE Has(g, p)'
      BY <3>3, <1>4, <2>2 DEF Has
    <3> QED
      BY <3>1, <3>2, <3>3, <1>1
  <2> QED
    BY <1>2, <2>3, <2>4, <2>5, <2>7, <2>8, <2>9, HandsSuffice, Frame
<1>6. CASE q \notin ctxs
  <2>1. /\ pc' = [pc EXCEPT ![f] = "read"] /\ Busy(f)' /\ UNCHANGED <<todo, ctxs>>
    BY <1>1, <1>2, <1>6 DEF Go, Busy, Types
  <2>2. "read" \in Own(f)
    BY <1>2 DEF Own, ReaderAt, Closing, Answering
  <2>3. que' \in Seq(Reqs) /\ mtx' \in Fibers \cup {None} /\ todo' \in [Fibers -> Seq(Reqs)]
    BY <1>2, <2>1 DEF Types
  <2> QED
    BY <1>2, <1>3, <1>4, <2>1, <2>2, <2>3, MoveKeeps
<1> QED
  BY <1>5, <1>6

\* The reader writes to the context it has: first the result, ...
LEMMA SetResultKeeps ==
    ASSUME IInv, NEW f \in Fibers, SetResult(f)
    PROVE  IInv'
<1> USE FiberKinds DEF IInv
<1> DEFINE q == todo[f][1]
           r == [ctx[q] EXCEPT !.result = "ok"]
<1>1. /\ pc[f] = "result" /\ pc' = [pc EXCEPT ![f] = "rsp"] /\ ctx' = [ctx EXCEPT ![q] = r]
      /\ UNCHANGED <<races, conn, gen, broken, wire, sem, auto, retry, fails, ctxs, que, mtx, ret,
                     todo, qpc, timer, cpc>>
  BY DEF SetResult, Go, netVars, startVars
<1>2. todo[f] \in Seq(Reqs) /\ Len(todo[f]) = 1 /\ q \in Reqs /\ ctx[q] \in Contexts
  BY <1>1 DEF HandsFit, Types
<1>3. /\ r \in Contexts /\ r.sched = ctx[q].sched /\ r.woken = ctx[q].woken
      /\ r.rsp = ctx[q].rsp /\ r.timed = ctx[q].timed /\ r.result = "ok"
  BY <1>2 DEF Contexts
<1>4. todo[f] = <<q>>
  BY <1>2
<1>5. f \in Readers
  BY <1>1 DEF SitesFit, StarterAt, WriterAt, Closing
<1> HIDE DEF q, r
<1>6. pc'[f] = "rsp" /\ \A g \in Fibers \ {f} : pc'[g] = pc[g]
  BY <1>1 DEF Types
<1>7. ctx' \in [Reqs -> Contexts] /\ ctx'[q] = r /\ \A p \in Reqs \ {q} : ctx'[p] = ctx[p]
  BY <1>1, <1>2, <1>3 DEF Types
<1>8. pc' \in [Fibers -> Places]
  BY <1>1 DEF Types, Places
<1>9. Types'
  BY <1>1, <1>7, <1>8 DEF Types
<1>10. SitesFit'
  BY <1>1, <1>5, <1>6 DEF SitesFit, ReaderAt, Closing
<1>11. HandsFit'
  BY <1>1, <1>6 DEF HandsFit
<1>12. PermitsFit' /\ OneStart' /\ CloseFits'
  <2>1. Busy(f) /\ Busy(f)'
    BY <1>1, <1>5, <1>6 DEF Busy
  <2> QED
    BY <2>1, <1>1, StaysBusy
<1>13. CallerWokenOnce'
  BY <1>1, <1>3, <1>7 DEF CallerWokenOnce
<1>14. TimersFit'
  BY <1>1, <1>3, <1>7 DEF TimersFit
<1>15. AnswersFit'
  <2>1. ASSUME NEW p \in Reqs, p = q PROVE Writing(p)'
    BY <2>1, <1>1, <1>4, <1>6 DEF Writing
  <2>2. ASSUME NEW p \in Reqs, Writing(p) PROVE Writing(p)'
    BY <2>2, <1>1, <1>6 DEF Writing
  <2>3. \A p \in Reqs : ctx'[p].rsp <=> ctx[p].rsp
    BY <1>3, <1>7
  <2>4. ASSUME NEW g \in Fibers, pc'[g] = "do_rsp" PROVE ctx'[todo'[g][1]].rsp
    <3>1. pc[g] = "do_rsp" /\ todo'[g] = todo[g] /\ ctx[todo[g][1]].rsp
      BY <2>4, <1>1, <1>6 DEF AnswersFit
    <3>2. todo[g][1] \in Reqs
      BY <3>1 DEF HandsFit, Types
    <3> QED
      BY <3>1, <3>2, <2>3
  <2> QED
    BY <2>1, <2>2, <2>4, <1>7 DEF AnswersFit
<1>16. NeverForgotten'
  <2> SUFFICES ASSUME NEW p \in Reqs, Calling(p)', ctx'[p].sched
               PROVE  p \in ctxs' \/ timer'[p] = "erased" \/ \E g \in Fibers : Has(g, p)'
    BY DEF NeverForgotten, Has, Answering
  <2>1. p \in ctxs \/ timer[p] = "erased" \/ \E g \in Fibers : Has(g, p)
    BY <1>1, <1>3, <1>7 DEF NeverForgotten, Calling, Has, Answering
  <2>2. ASSUME NEW g \in Fibers, Has(g, p) PROVE Has(g, p)'
    BY <2>2, <1>1, <1>6 DEF Has, Answering
  <2> QED
    BY <2>1, <2>2, <1>1
<1> QED
  BY <1>1, <1>9, <1>10, <1>11, <1>12, <1>13, <1>14, <1>15, <1>16, Frame

\* ... then the answer.
LEMMA SetRspKeeps ==
    ASSUME IInv, NEW f \in Fibers, SetRsp(f)
    PROVE  IInv'
<1> USE FiberKinds DEF IInv
<1> DEFINE q == todo[f][1]
           r == [ctx[q] EXCEPT !.rsp = TRUE]
<1>1. /\ pc[f] = "rsp" /\ pc' = [pc EXCEPT ![f] = "do_rsp"] /\ ctx' = [ctx EXCEPT ![q] = r]
      /\ UNCHANGED <<races, conn, gen, broken, wire, sem, auto, retry, fails, ctxs, que, mtx, ret,
                     todo, qpc, timer, cpc>>
  BY DEF SetRsp, Go, netVars, startVars
<1>2. todo[f] \in Seq(Reqs) /\ Len(todo[f]) = 1 /\ q \in Reqs /\ ctx[q] \in Contexts
  BY <1>1 DEF HandsFit, Types
<1>3. /\ r \in Contexts /\ r.sched = ctx[q].sched /\ r.woken = ctx[q].woken
      /\ r.rsp /\ r.timed = ctx[q].timed /\ r.result = ctx[q].result
  BY <1>2 DEF Contexts
<1>4. todo[f] = <<q>> /\ todo[f][1] = q
  BY <1>2
<1>5. f \in Readers
  BY <1>1 DEF SitesFit, StarterAt, WriterAt, Closing
<1> HIDE DEF q, r
<1>6. pc'[f] = "do_rsp" /\ \A g \in Fibers \ {f} : pc'[g] = pc[g]
  BY <1>1 DEF Types
<1>7. ctx' \in [Reqs -> Contexts] /\ ctx'[q] = r /\ \A p \in Reqs \ {q} : ctx'[p] = ctx[p]
  BY <1>1, <1>2, <1>3 DEF Types
<1>8. pc' \in [Fibers -> Places]
  BY <1>1 DEF Types, Places
<1>9. Types'
  BY <1>1, <1>7, <1>8 DEF Types
<1>10. SitesFit'
  BY <1>1, <1>5, <1>6 DEF SitesFit, ReaderAt, Closing
<1>11. HandsFit'
  BY <1>1, <1>6 DEF HandsFit
<1>12. PermitsFit' /\ OneStart' /\ CloseFits'
  <2>1. Busy(f) /\ Busy(f)'
    BY <1>1, <1>5, <1>6 DEF Busy
  <2> QED
    BY <2>1, <1>1, StaysBusy
<1>13. CallerWokenOnce'
  BY <1>1, <1>3, <1>7 DEF CallerWokenOnce
<1>14. TimersFit'
  BY <1>1, <1>3, <1>7 DEF TimersFit
<1>15. AnswersFit'
  <2>1. ASSUME NEW p \in Reqs \ {q}, Writing(p) PROVE Writing(p)'
    <3>1. PICK g \in Fibers : pc[g] = "rsp" /\ todo[g] = <<p>>
      BY <2>1 DEF Writing
    <3>2. g # f
      BY <3>1, <1>4
    <3> QED
      BY <3>1, <3>2, <1>1, <1>6 DEF Writing
  <2>2. \A p \in Reqs : ctx[p].rsp => ctx'[p].rsp
    BY <1>3, <1>7
  <2>3. ASSUME NEW g \in Fibers, pc'[g] = "do_rsp" PROVE ctx'[todo'[g][1]].rsp
    <3>1. CASE g = f
      BY <3>1, <1>1, <1>3, <1>4, <1>7
    <3>2. CASE g # f
      <4>1. pc[g] = "do_rsp" /\ todo'[g] = todo[g] /\ ctx[todo[g][1]].rsp
        BY <2>3, <3>2, <1>1, <1>6 DEF AnswersFit
      <4>2. todo[g][1] \in Reqs
        BY <4>1 DEF HandsFit, Types
      <4> QED
        BY <4>1, <4>2, <2>2
    <3> QED
      BY <3>1, <3>2
  <2> QED
    BY <2>1, <2>3, <1>3, <1>7 DEF AnswersFit
<1>16. NeverForgotten'
  <2> SUFFICES ASSUME NEW p \in Reqs, Calling(p)', ctx'[p].sched
               PROVE  p \in ctxs' \/ timer'[p] = "erased" \/ \E g \in Fibers : Has(g, p)'
    BY DEF NeverForgotten, Has, Answering
  <2>1. p \in ctxs \/ timer[p] = "erased" \/ \E g \in Fibers : Has(g, p)
    BY <1>1, <1>3, <1>7 DEF NeverForgotten, Calling, Has, Answering
  <2>2. ASSUME NEW g \in Fibers, Has(g, p) PROVE Has(g, p)'
    BY <2>2, <1>1, <1>6 DEF Has, Answering
  <2> QED
    BY <2>1, <2>2, <1>1
<1> QED
  BY <1>1, <1>9, <1>10, <1>11, <1>12, <1>13, <1>14, <1>15, <1>16, Frame
-----------------------------------------------------------------------------
(***************************************************************************)
(* The end of a reader, of a writer and of an attempt.                     *)
(***************************************************************************)

\* The permit of f goes back.
LEMMA PostKeeps ==
    ASSUME IInv, NEW f \in Fibers, Post(f)
    PROVE  IInv'
<1> USE FiberKinds DEF IInv
<1> DEFINE l == IF IsReader(f) THEN "test_auto" ELSE "off"
           r == <<"read", gen>>
           w == <<"write", gen>>
<1>1. /\ pc[f] = "post" /\ pc' = [pc EXCEPT ![f] = l] /\ sem' = sem + 1
      /\ UNCHANGED <<races, conn, gen, broken, wire, auto, retry, fails, ctxs, que, mtx, ret,
                     todo, qpc, ctx, timer, cpc>>
  BY DEF Post, Go, netVars, reqVars
<1>2. f \in Readers \cup Writers /\ f # Starter
  BY <1>1 DEF SitesFit, StarterAt, Closing
<1>3. l \in {"test_auto", "off"} /\ (f \in Readers => l = "test_auto") /\ (f \in Writers => l = "off")
  BY <1>2
<1> HIDE DEF l
<1>4. pc'[f] = l /\ \A g \in Fibers \ {f} : pc'[g] = pc[g]
  BY <1>1 DEF Types
<1>5. pc' \in [Fibers -> Places]
  BY <1>1, <1>3 DEF Types, Places
<1>6. Types'
  BY <1>1, <1>5 DEF Types
<1>7. SitesFit'
  BY <1>1, <1>2, <1>3, <1>4 DEF SitesFit, ReaderAt, WriterAt, Closing
<1>8. HandsFit' /\ HandsKept
  BY <1>1, <1>3, <1>4 DEF HandsFit, HandsKept, Answering
<1>9. PermitsFit'
  <2>1. f \in Alive /\ Alive' = Alive \ {f} /\ f \in {r, w} /\ r # w
    BY <1>1, <1>2, <1>3, <1>4 DEF Alive, PermitsFit
  <2>2. Holding' = Holding /\ Holding \in Nat
    BY <1>2, <1>4 DEF Holding
  <2>3. sem \in Nat /\ sem + Up(r) + Up(w) + Holding = 2 /\ Up(r) \in {0, 1} /\ Up(w) \in {0, 1}
    BY DEF Types, PermitsFit, Up
  <2>4. \/ Up(r) = 1 /\ Up(r)' = 0 /\ Up(w)' = Up(w)
        \/ Up(w) = 1 /\ Up(w)' = 0 /\ Up(r)' = Up(r)
    BY <2>1, <1>1 DEF Up
  <2>5. sem' + Up(r)' + Up(w)' + Holding' = 2
    BY <2>2, <2>3, <2>4, <1>1
  <2> QED
    BY <2>1, <2>5, <1>1 DEF PermitsFit
<1>10. OneStart'
  <2>1. Reading' = Reading
    BY <1>1, <1>2, <1>3, <1>4 DEF Reading
  <2> QED
    BY <2>1, <1>1, <1>2, <1>4 DEF OneStart
<1>11. CloseFits'
  <2>1. Reopening' => Reopening
    BY <1>1, <1>2, <1>3, <1>4 DEF Reopening
  <2> QED
    BY <2>1, <1>1 DEF CloseFits
<1> QED
  BY <1>1, <1>6, <1>7, <1>8, <1>9, <1>10, <1>11, HandsSuffice, Frame

\* Who is past its permits and leaves, or goes on to the timer.
LEMMA TestAutoKeeps ==
    ASSUME IInv, NEW f \in Fibers, TestAuto(f)
    PROVE  IInv'
<1> USE FiberKinds DEF IInv
<1> DEFINE l == IF auto THEN "arm" ELSE "off"
<1>1. /\ pc[f] = "test_auto" /\ pc' = [pc EXCEPT ![f] = l]
      /\ UNCHANGED <<races, conn, gen, broken, wire, sem, auto, retry, fails, ctxs, que, mtx, ret,
                     todo, qpc, ctx, timer, cpc>>
  BY DEF TestAuto, Go, netVars, startVars, reqVars
<1>2. f = Starter \/ f \in Readers
  BY <1>1 DEF SitesFit, WriterAt, Closing
<1>3. l \in {"arm", "off"} /\ (~auto => l = "off")
  OBVIOUS
<1> HIDE DEF l
<1>4. pc'[f] = l /\ \A g \in Fibers \ {f} : pc'[g] = pc[g]
  BY <1>1 DEF Types
<1>5. pc' \in [Fibers -> Places]
  BY <1>1, <1>3 DEF Types, Places
<1>6. Types'
  BY <1>1, <1>5 DEF Types
<1>7. SitesFit'
  BY <1>1, <1>2, <1>3, <1>4 DEF SitesFit, StarterAt, ReaderAt, Closing
<1>8. HandsFit' /\ HandsKept
  BY <1>1, <1>3, <1>4 DEF HandsFit, HandsKept, Answering
<1>9. PermitsFit'
  <2>1. Alive' = Alive
    BY <1>1, <1>3, <1>4 DEF Alive
  <2>2. Holding' = Holding
    BY <1>1, <1>3, <1>4 DEF Holding
  <2> QED
    BY <2>1, <2>2, <1>1 DEF PermitsFit, Up
<1>10. OneStart'
  <2>1. Reading' \subseteq Reading /\ (pc'[Starter] # "off" => pc[Starter] # "off")
    BY <1>1, <1>4 DEF Reading
  <2>2. pc[Starter] = "off" => pc'[Starter] = "off"
    BY <1>1, <1>4
  <2> QED
    BY <2>1, <2>2, <1>1 DEF OneStart
<1>11. CloseFits'
  <2>1. cpc = "no" \/ l = "off"
    BY <1>3 DEF CloseFits
  <2>2. l = "off" => (Reopening' => Reopening)
    BY <1>1, <1>4 DEF Reopening
  <2> QED
    BY <2>1, <2>2, <1>1 DEF CloseFits
<1> QED
  BY <1>1, <1>6, <1>7, <1>8, <1>9, <1>10, <1>11, HandsSuffice, Frame

LEMMA ArmKeeps ==
    ASSUME IInv, NEW f \in Fibers, Arm(f)
    PROVE  IInv'
<1> USE FiberKinds DEF IInv
<1>1. /\ pc[f] = "arm" /\ pc' = [pc EXCEPT ![f] = "off"] /\ retry' = "armed"
      /\ UNCHANGED <<races, conn, gen, broken, wire, sem, auto, fails, ctxs, que, mtx, ret,
                     todo, qpc, ctx, timer, cpc>>
  BY DEF Arm, Go, netVars, reqVars
<1>2. f = Starter \/ f \in Readers
  BY <1>1 DEF SitesFit, WriterAt, Closing
<1>3. pc'[f] = "off" /\ \A g \in Fibers \ {f} : pc'[g] = pc[g]
  BY <1>1 DEF Types
<1>4. Types'
  BY <1>1 DEF Types, Places
<1>5. SitesFit'
  BY <1>1, <1>2, <1>3 DEF SitesFit, StarterAt, ReaderAt, Closing
<1>6. HandsFit' /\ HandsKept
  BY <1>1, <1>3 DEF HandsFit, HandsKept, Answering
<1>7. PermitsFit'
  <2>1. Alive' = Alive
    BY <1>1, <1>3 DEF Alive
  <2>2. Holding' = Holding
    BY <1>1, <1>3 DEF Holding
  <2> QED
    BY <2>1, <2>2, <1>1 DEF PermitsFit, Up
<1>8. OneStart'
  <2>1. CASE f = Starter
    <3>1. Reading = {}
      BY <2>1, <1>1 DEF OneStart
    <3>2. Reading' = {} /\ pc'[Starter] = "off"
      BY <3>1, <2>1, <1>3 DEF Reading
    <3> QED
      BY <3>2 DEF OneStart
  <2>2. CASE f \in Readers
    <3>1. f \in Reading /\ Starter # f
      BY <2>2, <1>1 DEF Reading
    <3>2. Reading = {f} /\ pc[Starter] = "off"
      BY <3>1 DEF OneStart
    <3>3. Reading' = {} /\ pc'[Starter] = "off"
      BY <3>1, <3>2, <1>3 DEF Reading
    <3> QED
      BY <3>3 DEF OneStart
  <2> QED
    BY <2>1, <2>2, <1>2
<1>9. CloseFits'
  <2>1. Reopening
    BY <1>1 DEF Reopening
  <2> QED
    BY <2>1, <1>1 DEF CloseFits
<1> QED
  BY <1>1, <1>4, <1>5, <1>6, <1>7, <1>8, <1>9, HandsSuffice, Frame
-----------------------------------------------------------------------------
(***************************************************************************)
(* The writer.                                                             *)
(***************************************************************************)

\* A writer between its start and its permit has it and answers nobody.
LEMMA WriterBusy ==
    ASSUME IInv, NEW f \in Fibers,
           pc[f] \in {"write", "lock", "test", "to_wait", "send", "exit"}
    PROVE  f \in Writers /\ Busy(f) /\ pc[f] \notin Answering
BY FiberKinds DEF IInv, SitesFit, StarterAt, ReaderAt, Closing, Busy, Answering

\* Where it goes it has its permit still.
LEMMA WriterMoves ==
    ASSUME IInv, NEW f \in Writers, Busy(f),
           NEW l \in {"write", "lock", "test", "to_wait", "waiting", "send", "exit", "post"},
           pc' = [pc EXCEPT ![f] = l]
    PROVE  l \in Own(f) /\ Busy(f)'
<1>1. pc'[f] = l
  BY FiberKinds DEF IInv, Types
<1> QED
  BY <1>1, FiberKinds DEF Own, Busy, WriterAt, Closing, Answering

LEMMA WriteLoopKeeps ==
    ASSUME IInv, NEW f \in Fibers, WriteLoop(f)
    PROVE  IInv'
<1> DEFINE l == IF conn THEN "lock" ELSE "exit"
<1>1. /\ pc[f] = "write" /\ pc' = [pc EXCEPT ![f] = l]
      /\ UNCHANGED <<races, conn, gen, broken, wire, sem, auto, retry, fails, ctxs, que, mtx, ret,
                     todo, qpc, ctx, timer, cpc>>
  BY DEF WriteLoop, Go, netVars, startVars, reqVars
<1>2. l \in {"lock", "exit"}
  OBVIOUS
<1> HIDE DEF l
<1>3. f \in Writers /\ Busy(f) /\ pc[f] \notin Answering /\ l \in Own(f) /\ Busy(f)'
  BY <1>1, <1>2, WriterBusy, WriterMoves
<1>4. wire' \subseteq Reqs /\ que' \in Seq(Reqs) /\ mtx' \in Fibers \cup {None}
      /\ todo' \in [Fibers -> Seq(Reqs)]
  BY <1>1 DEF IInv, Types
<1> QED
  BY <1>1, <1>3, <1>4, MoveKeeps

\* The end of a critical section in which the queue is taken.
LEMMA TakeQueueKeeps ==
    ASSUME IInv, NEW f \in Fibers, pc[f] \in {"lock", "test"}, TakeQueue(f),
           UNCHANGED <<races, conn, gen, broken, wire, sem, auto, retry, fails, ctxs, ret,
                       qpc, ctx, timer, cpc>>
    PROVE  IInv'
<1>1. /\ pc' = [pc EXCEPT ![f] = "send"] /\ todo' = [todo EXCEPT ![f] = que]
      /\ que' = <<>> /\ mtx' = None
  BY DEF TakeQueue, Go
<1>2. f \in Writers /\ Busy(f) /\ pc[f] \notin Answering /\ "send" \in Own(f) /\ Busy(f)'
  BY <1>1, WriterBusy, WriterMoves
<1>3. wire' \subseteq Reqs /\ que' \in Seq(Reqs) /\ mtx' \in Fibers \cup {None}
      /\ todo' \in [Fibers -> Seq(Reqs)] /\ \A g \in Fibers \ {f} : todo'[g] = todo[g]
  BY <1>1 DEF IInv, Types
<1> QED
  BY <1>1, <1>2, <1>3, MoveKeeps

LEMMA WriteLockKeeps ==
    ASSUME IInv, NEW f \in Fibers, WriteLock(f)
    PROVE  IInv'
<1>1. /\ pc[f] = "lock"
      /\ UNCHANGED <<races, conn, gen, broken, wire, sem, auto, retry, fails, ctxs, ret,
                     qpc, ctx, timer, cpc>>
  BY DEF WriteLock, netVars, startVars, reqVars
<1>2. CASE que # <<>>
  BY <1>1, <1>2, TakeQueueKeeps DEF WriteLock
<1>3. CASE que = <<>>
  <2>1. mtx' = f /\ pc' = [pc EXCEPT ![f] = "test"] /\ UNCHANGED <<que, todo>>
    BY <1>3 DEF WriteLock, Go
  <2>2. f \in Writers /\ Busy(f) /\ pc[f] \notin Answering /\ "test" \in Own(f) /\ Busy(f)'
    BY <1>1, <2>1, WriterBusy, WriterMoves
  <2>3. wire' \subseteq Reqs /\ que' \in Seq(Reqs) /\ mtx' \in Fibers \cup {None}
        /\ todo' \in [Fibers -> Seq(Reqs)]
    BY <1>1, <2>1 DEF IInv, Types
  <2> QED
    BY <1>1, <2>1, <2>2, <2>3, MoveKeeps
<1> QED
  BY <1>2, <1>3

LEMMA WriteTestKeeps ==
    ASSUME IInv, NEW f \in Fibers, WriteTest(f)
    PROVE  IInv'
<1>1. /\ pc[f] = "test"
      /\ UNCHANGED <<races, conn, gen, broken, wire, sem, auto, retry, fails, ctxs, ret,
                     qpc, ctx, timer, cpc>>
  BY DEF WriteTest, netVars, startVars, reqVars
<1>2. CASE ~conn
  BY <1>1, <1>2, TakeQueueKeeps DEF WriteTest
<1>3. CASE conn
  <2>1. pc' = [pc EXCEPT ![f] = "to_wait"] /\ UNCHANGED <<que, mtx, todo>>
    BY <1>3 DEF WriteTest, Go
  <2>2. f \in Writers /\ Busy(f) /\ pc[f] \notin Answering /\ "to_wait" \in Own(f) /\ Busy(f)'
    BY <1>1, <2>1, WriterBusy, WriterMoves
  <2>3. wire' \subseteq Reqs /\ que' \in Seq(Reqs) /\ mtx' \in Fibers \cup {None}
        /\ todo' \in [Fibers -> Seq(Reqs)]
    BY <1>1, <2>1 DEF IInv, Types
  <2> QED
    BY <1>1, <2>1, <2>2, <2>3, MoveKeeps
<1> QED
  BY <1>2, <1>3

LEMMA WriteWaitKeeps ==
    ASSUME IInv, NEW f \in Fibers, WriteWait(f)
    PROVE  IInv'
<1>1. /\ pc[f] = "to_wait" /\ pc' = [pc EXCEPT ![f] = "waiting"] /\ mtx' = None
      /\ UNCHANGED <<races, conn, gen, broken, wire, sem, auto, retry, fails, ctxs, que, ret,
                     todo, qpc, ctx, timer, cpc>>
  BY DEF WriteWait, Go, netVars, startVars, reqVars
<1>2. f \in Writers /\ Busy(f) /\ pc[f] \notin Answering /\ "waiting" \in Own(f) /\ Busy(f)'
  BY <1>1, WriterBusy, WriterMoves
<1>3. wire' \subseteq Reqs /\ que' \in Seq(Reqs) /\ mtx' \in Fibers \cup {None}
      /\ todo' \in [Fibers -> Seq(Reqs)]
  BY <1>1 DEF IInv, Types
<1> QED
  BY <1>1, <1>2, <1>3, MoveKeeps

LEMMA SendKeeps ==
    ASSUME IInv, NEW f \in Fibers, Send(f)
    PROVE  IInv'
<1>1. /\ pc[f] = "send"
      /\ UNCHANGED <<races, gen, sem, auto, retry, fails, ctxs, que, mtx, qpc, ctx, timer, cpc>>
  BY DEF Send, startVars, reqVars
<1>2. /\ f \in Writers /\ Busy(f) /\ pc[f] \notin Answering
      /\ f # Starter /\ f \notin Readers
  BY <1>1, WriterBusy, FiberKinds
<1>3. que' \in Seq(Reqs) /\ mtx' \in Fibers \cup {None} /\ todo[f] \in Seq(Reqs)
  BY <1>1 DEF IInv, Types
<1>4. CASE /\ todo[f] = <<>> /\ Go(f, "write")
           /\ UNCHANGED <<conn, broken, wire, ret, todo>>
  <2>1. pc' = [pc EXCEPT ![f] = "write"]
    BY <1>4 DEF Go
  <2>2. "write" \in Own(f) /\ Busy(f)'
    BY <1>2, <2>1, WriterMoves
  <2>3. wire' \subseteq Reqs /\ todo' \in [Fibers -> Seq(Reqs)]
    BY <1>4 DEF IInv, Types
  <2> QED
    BY <1>1, <1>2, <1>3, <1>4, <2>1, <2>2, <2>3, MoveKeeps
<1>5. CASE /\ todo[f] # <<>> /\ conn
           /\ wire' = IF broken THEN wire ELSE wire \cup {Head(todo[f])}
           /\ todo' = [todo EXCEPT ![f] = Tail(@)]
           /\ UNCHANGED <<conn, broken, pc, ret>>
  <2>1. pc' = [pc EXCEPT ![f] = "send"]
    BY <1>1, <1>5 DEF IInv, Types
  <2>2. "send" \in Own(f) /\ Busy(f)'
    BY <1>2, <2>1, WriterMoves
  <2>3. Head(todo[f]) \in Reqs /\ Tail(todo[f]) \in Seq(Reqs)
    BY <1>3, <1>5
  <2>4. wire' \subseteq Reqs /\ todo' \in [Fibers -> Seq(Reqs)]
        /\ \A g \in Fibers \ {f} : todo'[g] = todo[g]
    BY <1>5, <2>3 DEF IInv, Types
  <2> QED
    BY <1>1, <1>2, <1>3, <1>5, <2>1, <2>2, <2>4, MoveKeeps
<1>6. CASE /\ todo[f] # <<>> /\ (broken \/ ~conn)
           /\ InnerClose(f, "write")
           /\ todo' = [todo EXCEPT ![f] = <<>>]
  <2>1. todo' \in [Fibers -> Seq(Reqs)] /\ \A g \in Fibers \ {f} : todo'[g] = todo[g]
    BY <1>6 DEF IInv, Types
  <2> QED
    BY <1>1, <1>2, <1>6, <2>1, InnerCloseKeeps
<1> QED
  BY <1>4, <1>5, <1>6 DEF Send

LEMMA WriteExitKeeps ==
    ASSUME IInv, NEW f \in Fibers, WriteExit(f)
    PROVE  IInv'
<1>1. /\ pc[f] = "exit" /\ pc' = [pc EXCEPT ![f] = "post"] /\ que' = <<>>
      /\ UNCHANGED <<races, conn, gen, broken, wire, sem, auto, retry, fails, ctxs, mtx, ret,
                     todo, qpc, ctx, timer, cpc>>
  BY DEF WriteExit, Go, netVars, startVars, reqVars
<1>2. f \in Writers /\ Busy(f) /\ pc[f] \notin Answering /\ "post" \in Own(f) /\ Busy(f)'
  BY <1>1, WriterBusy, WriterMoves
<1>3. wire' \subseteq Reqs /\ que' \in Seq(Reqs) /\ mtx' \in Fibers \cup {None}
      /\ todo' \in [Fibers -> Seq(Reqs)]
  BY <1>1 DEF IInv, Types
<1> QED
  BY <1>1, <1>2, <1>3, MoveKeeps
-----------------------------------------------------------------------------
(***************************************************************************)
(* The callers and their timers.                                           *)
(***************************************************************************)

\* A step of a caller that leaves the context and every other caller alone.
LEMMA CallerMoves ==
    ASSUME IInv, NEW q \in Reqs, NEW l, qpc' = [qpc EXCEPT ![q] = l],
           \/ qpc[q] = "idle" /\ l \in {"add", "notconn"}
           \/ qpc[q] = "timer" /\ l = "enqueue"
           \/ qpc[q] = "enqueue" /\ l = "signal"
           \/ qpc[q] = "signal" /\ l = "held"
           \/ qpc[q] = "held" /\ l = "done",
           timer' = timer \/ (qpc[q] = "timer" /\ timer' = [timer EXCEPT ![q] = "armed"]),
           que' \in Seq(Reqs), HandsKept,
           UNCHANGED <<todo, ctx, ctxs>>
    PROVE  /\ qpc' \in [Reqs -> {"idle", "add", "timer", "enqueue", "signal", "held", "done", "notconn"}]
           /\ timer' \in [Reqs -> {"no", "armed", "due", "erased"}]
           /\ CallerWokenOnce' /\ NeverForgotten' /\ TimersFit' /\ AnswersFit'
<1> USE DEF IInv
<1>1. /\ qpc' \in [Reqs -> {"idle", "add", "timer", "enqueue", "signal", "held", "done", "notconn"}]
      /\ timer' \in [Reqs -> {"no", "armed", "due", "erased"}]
      /\ qpc'[q] = l /\ \A p \in Reqs \ {q} : qpc'[p] = qpc[p]
  BY DEF Types
<1>2. /\ \A p \in Reqs : timer'[p] = timer[p] \/ (p = q /\ timer'[p] = "armed" /\ qpc[q] = "timer")
      /\ \A p \in Reqs : timer'[p] = "erased" <=> timer[p] = "erased"
  BY DEF Types, TimersFit
<1>3. CallerWokenOnce'
  <2>1. \A p \in Reqs : qpc'[p] \in {"idle", "add", "notconn"} <=> qpc[p] \in {"idle", "add", "notconn"}
    BY <1>1
  <2> QED
    BY <2>1 DEF CallerWokenOnce
<1>4. TimersFit'
  BY <1>1, <1>2 DEF TimersFit
<1>5. AnswersFit'
  BY HandsSuffice
<1>6. NeverForgotten'
  <2> SUFFICES ASSUME NEW p \in Reqs, Calling(p)', ctx'[p].sched, timer'[p] # "erased"
               PROVE  p \in ctxs' \/ \E g \in Fibers : Has(g, p)'
    BY DEF NeverForgotten, Has, Answering
  <2>1. Calling(p)
    <3>1. CASE p = q
      <4>1. qpc[q] # "idle"
        BY <3>1 DEF CallerWokenOnce, Types, Contexts
      <4> QED
        BY <3>1, <4>1, <1>1 DEF Calling
    <3>2. CASE p # q
      BY <3>2, <1>1 DEF Calling
    <3> QED
      BY <3>1, <3>2
  <2>2. p \in ctxs \/ \E g \in Fibers : Has(g, p)
    BY <2>1, <1>2 DEF NeverForgotten, Has, Answering
  <2>3. ASSUME NEW g \in Fibers, Has(g, p) PROVE Has(g, p)'
    BY <2>3 DEF Has, HandsKept
  <2> QED
    BY <2>2, <2>3
<1> QED
  BY <1>1, <1>3, <1>4, <1>5, <1>6

LEMMA RequestKeeps ==
    ASSUME IInv, NEW q \in Reqs, Request(q)
    PROVE  IInv'
<1> USE DEF IInv
<1> DEFINE l == IF conn THEN "add" ELSE "notconn"
<1>1. /\ qpc[q] = "idle" /\ qpc' = [qpc EXCEPT ![q] = l] /\ l \in {"add", "notconn"}
      /\ UNCHANGED <<races, conn, gen, broken, wire, sem, auto, retry, fails, ctxs, que, mtx, pc,
                     ret, todo, ctx, timer, cpc>>
  BY DEF Request, netVars, startVars, reqVars
<1> HIDE DEF l
<1>2. HandsKept /\ que' \in Seq(Reqs)
  BY <1>1, Frame DEF Types
<1>3. /\ qpc' \in [Reqs -> {"idle", "add", "timer", "enqueue", "signal", "held", "done", "notconn"}]
      /\ timer' \in [Reqs -> {"no", "armed", "due", "erased"}]
      /\ CallerWokenOnce' /\ NeverForgotten' /\ TimersFit' /\ AnswersFit'
  BY <1>1, <1>2, CallerMoves
<1>4. Types'
  BY <1>1, <1>3 DEF Types
<1> QED
  BY <1>1, <1>3, <1>4, Frame

\* The context is registered; who closes the connection from now on finds it.
LEMMA AddCtxKeeps ==
    ASSUME IInv, NEW q \in Reqs, AddCtx(q)
    PROVE  IInv'
<1> USE DEF IInv
<1> DEFINE r == [ctx[q] EXCEPT !.sched = TRUE]
<1>1. PICK l \in {"timer", "enqueue"} : qpc' = [qpc EXCEPT ![q] = l]
  BY DEF AddCtx
<1>2. /\ qpc[q] = "add" /\ ctx' = [ctx EXCEPT ![q] = r] /\ ctxs' = ctxs \cup {q}
      /\ UNCHANGED <<races, conn, gen, broken, wire, sem, auto, retry, fails, que, mtx, pc,
                     ret, todo, timer, cpc>>
  BY DEF AddCtx, netVars, startVars
<1>3. ctx[q] \in Contexts
  BY DEF Types
<1>4. /\ r \in Contexts /\ r.sched /\ r.woken = ctx[q].woken
      /\ r.rsp = ctx[q].rsp /\ r.timed = ctx[q].timed /\ r.result = ctx[q].result
  BY <1>3 DEF Contexts
<1> HIDE DEF r
<1>5. /\ qpc' \in [Reqs -> {"idle", "add", "timer", "enqueue", "signal", "held", "done", "notconn"}]
      /\ qpc'[q] = l /\ \A p \in Reqs \ {q} : qpc'[p] = qpc[p]
      /\ ctx' \in [Reqs -> Contexts] /\ ctx'[q] = r /\ \A p \in Reqs \ {q} : ctx'[p] = ctx[p]
  BY <1>1, <1>2, <1>4 DEF Types
<1>6. Types'
  BY <1>2, <1>5 DEF Types
<1>7. ctx[q].woken = 0 /\ timer[q] = "no"
  <2>1. ctx[q].woken \in Nat /\ ctx[q].woken + (IF ctx[q].sched THEN 1 ELSE 0) = 0
    BY <1>2, <1>3 DEF CallerWokenOnce, Contexts
  <2>2. ctx[q].woken = 0
    BY ONLY <2>1
  <2> QED
    BY <2>2, <1>2 DEF TimersFit, Types
<1>8. CallerWokenOnce'
  <2>1. ctx'[q].woken + (IF ctx'[q].sched THEN 1 ELSE 0) = 1
    BY <1>4, <1>5, <1>7
  <2> QED
    BY <2>1, <1>5 DEF CallerWokenOnce
<1>9. TimersFit'
  BY <1>2, <1>4, <1>5, <1>7 DEF TimersFit
<1>10. AnswersFit'
  <2>1. \A p \in Reqs : ctx'[p].woken = ctx[p].woken /\ ctx'[p].result = ctx[p].result
                        /\ ctx'[p].rsp = ctx[p].rsp
    BY <1>4, <1>5
  <2>2. \A p \in Reqs : Writing(p)' <=> Writing(p)
    BY <1>2 DEF Writing
  <2>3. \A g \in Fibers : pc[g] = "do_rsp" => todo[g][1] \in Reqs
    BY DEF HandsFit, Types
  <2> QED
    BY <2>1, <2>2, <2>3, <1>2 DEF AnswersFit
<1>11. NeverForgotten'
  BY <1>2, <1>5 DEF NeverForgotten, Calling
<1> QED
  BY <1>2, <1>6, <1>8, <1>9, <1>10, <1>11, Frame

LEMMA AddTimerKeeps ==
    ASSUME IInv, NEW q \in Reqs, AddTimer(q)
    PROVE  IInv'
<1> USE DEF IInv
<1>1. /\ qpc[q] = "timer" /\ qpc' = [qpc EXCEPT ![q] = "enqueue"]
      /\ timer' = [timer EXCEPT ![q] = "armed"]
      /\ UNCHANGED <<races, conn, gen, broken, wire, sem, auto, retry, fails, ctxs, que, mtx, pc,
                     ret, todo, ctx, cpc>>
  BY DEF AddTimer, netVars, startVars
<1>2. HandsKept /\ que' \in Seq(Reqs)
  BY <1>1, Frame DEF Types
<1>3. /\ qpc' \in [Reqs -> {"idle", "add", "timer", "enqueue", "signal", "held", "done", "notconn"}]
      /\ timer' \in [Reqs -> {"no", "armed", "due", "erased"}]
      /\ CallerWokenOnce' /\ NeverForgotten' /\ TimersFit' /\ AnswersFit'
  BY <1>1, <1>2, CallerMoves
<1>4. Types'
  BY <1>1, <1>3 DEF Types
<1> QED
  BY <1>1, <1>3, <1>4, Frame

LEMMA EnqueueKeeps ==
    ASSUME IInv, NEW q \in Reqs, Enqueue(q)
    PROVE  IInv'
<1> USE DEF IInv
<1>1. /\ qpc[q] = "enqueue" /\ qpc' = [qpc EXCEPT ![q] = "signal"] /\ que' = Append(que, q)
      /\ UNCHANGED <<races, conn, gen, broken, wire, sem, auto, retry, fails, ctxs, mtx, pc,
                     ret, todo, ctx, timer, cpc>>
  BY DEF Enqueue, netVars, startVars, reqVars
<1>2. HandsKept /\ que' \in Seq(Reqs)
  BY <1>1, Frame DEF Types
<1>3. /\ qpc' \in [Reqs -> {"idle", "add", "timer", "enqueue", "signal", "held", "done", "notconn"}]
      /\ timer' \in [Reqs -> {"no", "armed", "due", "erased"}]
      /\ CallerWokenOnce' /\ NeverForgotten' /\ TimersFit' /\ AnswersFit'
  BY <1>1, <1>2, CallerMoves
<1>4. Types'
  BY <1>1, <1>2, <1>3 DEF Types
<1> QED
  BY <1>1, <1>3, <1>4, Frame

LEMMA SignalKeeps ==
    ASSUME IInv, NEW q \in Reqs, Signal(q)
    PROVE  IInv'
<1> USE DEF IInv
<1>1. /\ qpc[q] = "signal" /\ qpc' = [qpc EXCEPT ![q] = "held"]
      /\ UNCHANGED <<races, conn, gen, broken, wire, sem, auto, retry, fails, ctxs, que, mtx,
                     ret, todo, ctx, timer, cpc>>
  BY DEF Signal, netVars, startVars, reqVars
<1>2. /\ pc' \in [Fibers -> Places]
      /\ SitesFit' /\ HandsFit' /\ HandsKept /\ PermitsFit' /\ OneStart' /\ CloseFits'
  <2>1. CASE Waiting = {}
    <3>1. UNCHANGED pc
      BY <2>1 DEF Signal
    <3> QED
      BY <3>1, <1>1, Frame DEF Types
  <2>2. CASE Waiting # {}
    <3>1. PICK f \in Waiting : Wake({f})
      BY <2>2 DEF Signal
    <3> QED
      BY <3>1, <1>1, WakingKeeps
  <2> QED
    BY <2>1, <2>2
<1>3. que' \in Seq(Reqs)
  BY <1>1 DEF Types
<1>4. /\ qpc' \in [Reqs -> {"idle", "add", "timer", "enqueue", "signal", "held", "done", "notconn"}]
      /\ timer' \in [Reqs -> {"no", "armed", "due", "erased"}]
      /\ CallerWokenOnce' /\ NeverForgotten' /\ TimersFit' /\ AnswersFit'
  BY <1>1, <1>2, <1>3, CallerMoves
<1>5. Types'
  BY <1>1, <1>2, <1>4 DEF Types
<1> QED
  BY <1>1, <1>2, <1>4, <1>5, Frame

LEMMA ResumeKeeps ==
    ASSUME IInv, NEW q \in Reqs, Resume(q)
    PROVE  IInv'
<1> USE DEF IInv
<1>1. /\ qpc[q] = "held" /\ qpc' = [qpc EXCEPT ![q] = "done"]
      /\ UNCHANGED <<races, conn, gen, broken, wire, sem, auto, retry, fails, ctxs, que, mtx, pc,
                     ret, todo, ctx, timer, cpc>>
  BY DEF Resume, netVars, startVars, reqVars
<1>2. HandsKept /\ que' \in Seq(Reqs)
  BY <1>1, Frame DEF Types
<1>3. /\ qpc' \in [Reqs -> {"idle", "add", "timer", "enqueue", "signal", "held", "done", "notconn"}]
      /\ timer' \in [Reqs -> {"no", "armed", "due", "erased"}]
      /\ CallerWokenOnce' /\ NeverForgotten' /\ TimersFit' /\ AnswersFit'
  BY <1>1, <1>2, CallerMoves
<1>4. Types'
  BY <1>1, <1>3 DEF Types
<1> QED
  BY <1>1, <1>3, <1>4, Frame

LEMMA ExpireKeeps ==
    ASSUME IInv, NEW q \in Reqs, Expire(q)
    PROVE  IInv'
<1> USE DEF IInv
<1>1. /\ timer[q] = "armed" /\ timer' = [timer EXCEPT ![q] = "due"]
      /\ UNCHANGED <<races, conn, gen, broken, wire, sem, auto, retry, fails, ctxs, que, mtx, pc,
                     ret, todo, qpc, ctx, cpc>>
  BY DEF Expire, netVars, startVars
<1>2. timer'[q] = "due" /\ \A p \in Reqs \ {q} : timer'[p] = timer[p]
  BY <1>1 DEF Types
<1>3. Types'
  BY <1>1 DEF Types
<1>4. TimersFit'
  BY <1>1, <1>2 DEF TimersFit
<1>5. NeverForgotten'
  BY <1>1, <1>2 DEF NeverForgotten, Calling
<1>6. AnswersFit'
  BY <1>1, HandsSuffice, Frame
<1> QED
  BY <1>1, <1>3, <1>4, <1>5, <1>6, Frame

\* The context is taken from the map before its caller is told.
LEMMA OnTimerEraseKeeps ==
    ASSUME IInv, NEW q \in Reqs, OnTimerErase(q)
    PROVE  IInv'
<1> USE DEF IInv
<1>1. /\ timer[q] = "due" /\ timer' = [timer EXCEPT ![q] = "erased"] /\ ctxs' = ctxs \ {q}
      /\ UNCHANGED <<races, conn, gen, broken, wire, sem, auto, retry, fails, que, mtx, pc,
                     ret, todo, qpc, ctx, cpc>>
  BY DEF OnTimerErase, netVars, startVars
<1>2. timer'[q] = "erased" /\ \A p \in Reqs \ {q} : timer'[p] = timer[p]
  BY <1>1 DEF Types
<1>3. Types'
  BY <1>1 DEF Types
<1>4. TimersFit'
  BY <1>1, <1>2 DEF TimersFit
<1>5. NeverForgotten'
  BY <1>1, <1>2 DEF NeverForgotten, Calling
<1>6. AnswersFit'
  BY <1>1, HandsSuffice, Frame
<1> QED
  BY <1>1, <1>3, <1>4, <1>5, <1>6, Frame
-----------------------------------------------------------------------------
(***************************************************************************)
(* The theorems.                                                           *)
(***************************************************************************)

LEMMA InitFits == Init => IInv
<1> SUFFICES ASSUME Init PROVE IInv
  OBVIOUS
<1> USE FiberKinds DEF Init
<1>1. NewCtx \in Contexts
  BY DEF NewCtx, Contexts
<1>2. Types
  <2>1. gen \in Conns /\ sem \in Nat
    BY StreamAssumption DEF Conns
  <2>2. pc \in [Fibers -> Places] /\ ret \in [Fibers -> Places]
    <3>1. "off" \in Places /\ "wait" \in Places
      BY DEF Places
    <3> QED
      BY <3>1
  <2>3. ctx \in [Reqs -> Contexts]
    BY <1>1
  <2>4. /\ conn \in BOOLEAN /\ broken \in BOOLEAN /\ auto \in BOOLEAN
        /\ wire \subseteq Reqs /\ ctxs \subseteq Reqs /\ retry \in {"no", "armed", "due"}
        /\ mtx \in Fibers \cup {None} /\ cpc \in {"no", "timer", "socket", "closed"}
    OBVIOUS
  <2>5. que \in Seq(Reqs) /\ todo \in [Fibers -> Seq(Reqs)]
    OBVIOUS
  <2>6. /\ qpc \in [Reqs -> {"idle", "add", "timer", "enqueue", "signal", "held", "done", "notconn"}]
        /\ timer \in [Reqs -> {"no", "armed", "due", "erased"}]
    OBVIOUS
  <2> QED
    BY <2>1, <2>2, <2>3, <2>4, <2>5, <2>6 DEF Types
<1>3. SitesFit /\ HandsFit
  BY DEF SitesFit, HandsFit, StarterAt, ReaderAt, WriterAt, Closing
<1>4. Alive = {} /\ Reading = {} /\ Holding = 0
  BY DEF Alive, Reading, Holding
<1>5. PermitsFit /\ OneStart
  BY <1>4 DEF PermitsFit, Up, OneStart
<1>6. CallerWokenOnce /\ NeverForgotten /\ TimersFit /\ AnswersFit
  BY DEF CallerWokenOnce, NeverForgotten, Calling, TimersFit, AnswersFit, NewCtx
<1>7. CloseFits /\ ClosedStaysClosed
  BY DEF CloseFits, ClosedStaysClosed
<1> QED
  BY <1>2, <1>3, <1>5, <1>6, <1>7 DEF IInv

LEMMA StepFits == IInv /\ [Next]_vars => IInv'
<1> SUFFICES ASSUME IInv, [Next]_vars PROVE IInv'
  OBVIOUS
<1>1. CASE UNCHANGED vars
  <2>1. UNCHANGED <<races, conn, gen, broken, wire, sem, auto, retry, ctxs, que, mtx, pc, ret,
                    todo, qpc, ctx, timer, fails, cpc>>
    BY <1>1 DEF vars
  <2>2. Types'
    BY <2>1 DEF IInv, Types
  <2> QED
    BY <2>1, <2>2, HandsSuffice, Frame DEF IInv
<1>2. CASE StartStep
  BY <1>2, WaitFiberKeeps, ConnectKeeps, ConnectCbKeeps, StartFailedKeeps, RetryStartKeeps
     DEF StartStep
<1>3. CASE RetryExpires \/ Break \/ CloseBegin \/ CloseStep
  BY <1>3, RetryExpiresKeeps, BreakKeeps, CloseBeginKeeps, CloseTimerKeeps, CloseSocketKeeps
     DEF CloseStep
<1>4. ASSUME NEW f \in Fibers, FiberStep(f) PROVE IInv'
  <2>1. CASE CloseSteps(f)
    BY <2>1, BroadcastKeeps, SwapCtxsKeeps, ClearQueueKeeps, AnswerKeeps, TestAutoKeeps, ArmKeeps
       DEF CloseSteps
  <2>2. CASE ReadSteps(f)
    BY <2>2, ReadLoopKeeps, RecvKeeps, RecvFailsKeeps, SetResultKeeps, SetRspKeeps, ReadRspKeeps
       DEF ReadSteps
  <2>3. CASE WriteSteps(f)
    BY <2>3, WriteLoopKeeps, WriteLockKeeps, WriteTestKeeps, WriteWaitKeeps, SendKeeps,
       WriteExitKeeps DEF WriteSteps
  <2>4. CASE Post(f)
    BY <2>4, PostKeeps
  <2> QED
    BY <1>4, <2>1, <2>2, <2>3, <2>4 DEF FiberStep
<1>5. ASSUME NEW q \in Reqs, Request(q) \/ CallStep(q) \/ TimerStep(q) PROVE IInv'
  BY <1>5, RequestKeeps, AddCtxKeeps, AddTimerKeeps, EnqueueKeeps, SignalKeeps, ResumeKeeps,
     ExpireKeeps, OnTimerEraseKeeps, OnTimerRspKeeps DEF CallStep, TimerStep
<1> QED
  BY <1>1, <1>2, <1>3, <1>4, <1>5 DEF Next

\* The invariant of the asynchronous stream.
THEOREM Inductive == Spec => []IInv
<1>1. Init => IInv
  BY InitFits
<1>2. IInv /\ [Next]_vars => IInv'
  BY StepFits
<1> QED
  BY <1>1, <1>2, PTL DEF Spec

\* The fiber of a request is scheduled once in all, by the answer, the timeout or the end of
\* the connection, and until then its context is with one of them (Ctx::doRsp, innerClose).
THEOREM CallersAreSound == Spec => []CallersSound
<1>1. IInv => CallersSound
  <2> SUFFICES ASSUME IInv PROVE TypeOK
    BY DEF IInv, CallersSound
  <2>1. sem \in 0..2
    <3>1. /\ sem \in Nat /\ Up(<<"read", gen>>) \in Nat /\ Up(<<"write", gen>>) \in Nat
          /\ Holding \in Nat /\ sem + Up(<<"read", gen>>) + Up(<<"write", gen>>) + Holding = 2
      BY DEF IInv, Types, PermitsFit, Up, Holding
    <3>2. sem >= 0 /\ sem <= 2
      BY ONLY <3>1
    <3> QED
      BY <3>1, <3>2
  <2> QED
    BY <2>1 DEF IInv, Types, TypeOK
<1> QED
  BY <1>1, Inductive, PTL

\* No fiber of a connection meets one of the next, one Start() at most is on its way, and
\* after a Close() that met none the stream stays closed (waitFiber, onTimer, Close).
THEOREM ConnectionsAreSound == Spec => []ConnectionsSound
<1>1. IInv => ConnectionsSound
  <2> SUFFICES ASSUME IInv PROVE OneConnectionAtATime
    BY DEF IInv, ConnectionsSound
  <2> USE FiberKinds DEF IInv
  <2> DEFINE r == <<"read", gen>>
             w == <<"write", gen>>
  <2>1. r \in Readers /\ w \in Writers /\ r # w /\ r[2] = gen /\ w[2] = gen
    BY DEF Types
  <2>2. Cardinality(Alive) = Up(r) + Up(w)
    <3>1. Alive = (IF r \in Alive THEN {r} ELSE {}) \cup (IF w \in Alive THEN {w} ELSE {})
      BY DEF PermitsFit
    <3> HIDE DEF r, w
    <3>2. /\ Cardinality({}) = 0 /\ Cardinality({r}) = 1 /\ Cardinality({w}) = 1
          /\ Cardinality({r, w}) = 2
      <4>1. Cardinality({r}) = 1 /\ Cardinality({w}) = 1 /\ Cardinality({}) = 0 /\ IsFiniteSet({r})
        BY FS_Singleton, FS_EmptySet
      <4>2. Cardinality({r} \cup {w}) = Cardinality({r}) + 1
        BY <4>1, <2>1, FS_AddElement
      <4>3. {r} \cup {w} = {r, w}
        OBVIOUS
      <4> QED
        BY <4>1, <4>2, <4>3
    <3>3. CASE r \in Alive /\ w \in Alive
      <4>1. Alive = {r, w}
        BY <3>1, <3>3
      <4> QED
        BY <3>2, <3>3, <4>1 DEF Up
    <3>4. CASE r \in Alive /\ w \notin Alive
      <4>1. Alive = {r}
        BY <3>1, <3>4
      <4> QED
        BY <3>2, <3>4, <4>1 DEF Up
    <3>5. CASE r \notin Alive /\ w \in Alive
      <4>1. Alive = {w}
        BY <3>1, <3>5
      <4> QED
        BY <3>2, <3>5, <4>1 DEF Up
    <3>6. CASE r \notin Alive /\ w \notin Alive
      <4>1. Alive = {}
        BY <3>1, <3>6
      <4> QED
        BY <3>2, <3>6, <4>1 DEF Up
    <3> QED
      BY <3>3, <3>4, <3>5, <3>6
  <2>3. sem + Cardinality(Alive) + Holding = 2
    <3>1. /\ sem \in Nat /\ Up(r) \in Nat /\ Up(w) \in Nat /\ Holding \in Nat
          /\ sem + Up(r) + Up(w) + Holding = 2
      BY DEF Types, PermitsFit, Up, Holding
    <3> QED
      BY ONLY <3>1, <2>2
  <2>4. \A f \in Alive : f[2] = gen
    BY <2>1 DEF PermitsFit
  <2>5. Cardinality(Reading) <= 1 /\ Cardinality(Reading) \in Nat
        /\ (Cardinality(Reading) = 0 \/ Reading # {})
    <3>1. CASE Reading = {}
      BY <3>1, FS_EmptySet
    <3>2. CASE Reading # {}
      <4>1. PICK f \in Reading : TRUE
        BY <3>2
      <4>2. Reading = {f}
        BY <4>1 DEF OneStart
      <4>3. Cardinality({f}) = 1
        BY FS_Singleton
      <4> QED
        BY <3>2, <4>2, <4>3
    <3> QED
      BY <3>1, <3>2
  <2>6. Cardinality(Reading)
          + (IF pc[Starter] # "off" THEN 1 ELSE 0) + (IF retry # "no" THEN 1 ELSE 0) <= 1
    BY <2>5 DEF OneStart
  <2> QED
    BY <2>3, <2>4, <2>6 DEF OneConnectionAtATime
<1> QED
  BY <1>1, Inductive, PTL

\* Who returns from Request() with "ok" has the answer, and with "timeout" has waited for it,
\* whatever the reader, the timer and innerClose() have written in whatever order (rock_stream.cpp).
THEOREM ResultsAreTrue == Spec => ResultsTrue
<1> DEFINE A == \A q \in Reqs : qpc[q] = "held" /\ qpc'[q] = "done" =>
                  /\ ctx[q].result = "ok" => ctx[q].rsp \/ "torn" \in races
                  /\ ctx[q].result = "timeout" => timer[q] = "erased"
<1>1. IInv /\ [Next]_vars => [A]_vars
  <2> SUFFICES ASSUME IInv, Next, NEW q \in Reqs, qpc[q] = "held", qpc'[q] = "done"
               PROVE  /\ ctx[q].result = "ok" => ctx[q].rsp \/ "torn" \in races
                      /\ ctx[q].result = "timeout" => timer[q] = "erased"
    OBVIOUS
  <2>1. qpc \in [Reqs -> {"idle", "add", "timer", "enqueue", "signal", "held", "done", "notconn"}]
    BY DEF IInv, Types
  <2>2. \E p \in Reqs : Request(p) \/ CallStep(p) \/ TimerStep(p)
    <3>1. CASE StartStep
      BY <3>1 DEF StartStep, WaitFiber, Connect, ConnectCb, StartFailed, RetryStart
    <3>2. CASE RetryExpires \/ Break \/ CloseBegin \/ CloseStep
      BY <3>2 DEF RetryExpires, Break, CloseBegin, CloseStep, CloseTimer, CloseSocket
    <3>3. ASSUME NEW f \in Fibers, FiberStep(f) PROVE FALSE
      <4>1. CASE CloseSteps(f)
        BY <4>1 DEF CloseSteps, Broadcast, SwapCtxs, ClearQueue, Answer, TestAuto, Arm
      <4>2. CASE ReadSteps(f)
        BY <4>2 DEF ReadSteps, ReadLoop, Recv, RecvFails, SetResult, SetRsp, ReadRsp
      <4>3. CASE WriteSteps(f)
        BY <4>3 DEF WriteSteps, WriteLoop, WriteLock, WriteTest, WriteWait, Send, WriteExit
      <4>4. CASE Post(f)
        BY <4>4 DEF Post
      <4> QED
        BY <3>3, <4>1, <4>2, <4>3, <4>4 DEF FiberStep
    <3> QED
      BY <3>1, <3>2, <3>3 DEF Next
  <2>3. Resume(q)
    <3>1. PICK p \in Reqs : Request(p) \/ CallStep(p) \/ TimerStep(p)
      BY <2>2
    <3>2. CASE TimerStep(p)
      BY <3>2 DEF TimerStep, Expire, OnTimerErase, OnTimerRsp
    <3>3. CASE Request(p)
      BY <3>3, <2>1 DEF Request
    <3>4. CASE CallStep(p)
      <4>1. \/ Resume(p)
            \/ \E l \in {"timer", "enqueue", "signal", "held"} : qpc' = [qpc EXCEPT ![p] = l]
        BY <3>4 DEF CallStep, AddCtx, AddTimer, Enqueue, Signal
      <4>2. ~ \E l \in {"timer", "enqueue", "signal", "held"} : qpc' = [qpc EXCEPT ![p] = l]
        BY <2>1
      <4>3. Resume(p) => p = q
        BY <2>1 DEF Resume
      <4> QED
        BY <4>1, <4>2, <4>3
    <3> QED
      BY <3>1, <3>2, <3>3, <3>4
  <2>4. ctx[q].woken > 0 /\ ("torn" \in races \/ ~Writing(q))
    BY <2>3 DEF Resume
  <2> QED
    BY <2>4 DEF IInv, AnswersFit, TimersFit
<1>2. ResultsTrue <=> [][A]_vars
  BY DEF ResultsTrue
<1> QED
  BY <1>1, <1>2, Inductive, PTL DEF Spec
=============================================================================
