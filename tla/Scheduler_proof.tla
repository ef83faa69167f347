--------------------------- MODULE Scheduler_proof ---------------------------
(***************************************************************************)
(* Proofs about Scheduler, for any worker threads, callbacks, fibers and   *)
(* bounds, with and without use_caller: no fiber is in the hands of two    *)
(* threads, no task is lost or run twice, the counters are exact, and      *)
(* Stop() leaves no task behind.                                           *)
(***************************************************************************)
EXTENDS Scheduler, QueueLemmas

Queued == ToSet(queue)
QFibers == {e.fiber : e \in Queued} \ {None}   \* the fibers in the queue
QJobs == {e.job : e \in Queued} \ {None}       \* the callbacks in the queue
Parked == QFibers \cup iowait
Busy == {t \in Threads : pc[t] \in {"run", "back", "after"}}
Held == {f \in Fibers : \E t \in Threads : cur[t].fiber = f \/ cbf[t] = f}

(***************************************************************************)
(* The inductive invariant.                                                *)
(***************************************************************************)

\* An entry is a callback or a fiber, and no two are the same one's.
QueueFits ==
    /\ IsInjective(queue)
    /\ \A e \in Queued : e.job = None <=> e.fiber # None
    /\ \A e, d \in Queued : e.fiber = d.fiber /\ e.fiber # None => e = d
    /\ \A e, d \in Queued : e.job = d.job /\ e.job # None => e = d

\* What a thread has in its hands, by where it is in Run().
HandsFit ==
    \A t \in Threads :
        /\ cur[t].job = None \/ cur[t].fiber = None
        /\ pc[t] \notin {"dispatch", "run", "back", "after"} => cur[t] = NoEntry
        /\ cur[t].job = None /\ cur[t].fiber = None => cur[t] = NoEntry /\ t \notin Busy
        /\ t \in Busy /\ cur[t].job # None => cbf[t] # None

OneHolder ==
    \A t, u \in Threads :
        /\ cur[t].fiber # None => cur[t].fiber # cbf[u]
        /\ t # u /\ cur[t].fiber # None => cur[t].fiber # cur[u].fiber
        /\ t # u /\ cbf[t] # None => cbf[t] # cbf[u]

\* The status of the fibers a thread holds.
HeldFits ==
    \A t \in Threads :
        /\ cbf[t] # None /\ ~(t \in Busy /\ cur[t].job # None) => fst[cbf[t]] = "INIT"
        /\ pc[t] = "dispatch" /\ cur[t].fiber # None =>
              fst[cur[t].fiber] \in {"HOLD", "READY"} /\ cur[t].fiber \notin Parked
        /\ pc[t] = "run" => fst[OnCpu(t)] = "EXEC" /\ OnCpu(t) \notin Parked
        /\ pc[t] \in {"back", "after"} =>
              \/ fst[OnCpu(t)] = "EXEC" /\ OnCpu(t) \in Parked
              \/ fst[OnCpu(t)] \in {"READY", "TERM"} /\ OnCpu(t) \notin Parked

\* Where a fiber is, by its status.
StatusFits ==
    \A f \in Fibers :
        /\ ~(f \in QFibers /\ f \in iowait)
        /\ f \in Parked => fst[f] \in {"EXEC", "HOLD", "READY"}
        /\ f \in iowait => fst[f] # "READY"
        /\ fst[f] = "FREE" => f \notin Held
        /\ fst[f] \in {"EXEC", "TERM"} => \E t \in Threads : t \in Busy /\ OnCpu(t) = f
        /\ fst[f] \in {"HOLD", "READY"} => f \in Held \/ f \in Parked

\* A started callback has one fiber until it has ended.
BodiesFit ==
    /\ \A f \in Fibers :
          IF fst[f] \in {"EXEC", "HOLD", "READY"}
          THEN body[f] # None /\ jobs[body[f]] = "started"
          ELSE body[f] = None
    /\ \A f, g \in Fibers : f # g /\ body[f] # None => body[f] # body[g]
    /\ \A j \in Jobs : jobs[j] = "started" => \E f \in Fibers : body[f] = j

\* A submitted callback is in the queue or with one thread, until it is started.
JobsFit ==
    /\ \A j \in Jobs : runs[j] = IF jobs[j] \in {"new", "queued"} THEN 0 ELSE 1
    /\ \A j \in Jobs : j \in QJobs => jobs[j] = "queued" /\ \A t \in Threads : t \notin TakenFor(j)
    /\ \A j \in Jobs : jobs[j] = "queued" => j \in QJobs \/ \E t \in Threads : t \in TakenFor(j)
    /\ \A t, u \in Threads : \A j \in Jobs : t \in TakenFor(j) => jobs[j] = "queued"
                                               /\ (u \in TakenFor(j) => t = u)

FiberInv == QueueFits /\ HandsFit /\ OneHolder /\ HeldFits /\ StatusFits /\ BodiesFit /\ JobsFit

\* Which thread can be where.
PlacesFit ==
    /\ stopping <=> pc[Caller] # "main"
    /\ ~useCaller => pc[Caller] \in {"main", "stop", "join", "done"}
    /\ pc[Caller] # "exit"
    /\ pc[Caller] = "done" => \A t \in Workers : pc[t] = "exit"
    /\ \A t \in Workers : pc[t] \notin {"main", "stop", "join", "done"}
    /\ ~stopping => /\ idleTerm = {}
                    /\ \A t \in Threads : pc[t] # "checkActive"
                    /\ \A t \in Workers : pc[t] = "exit" => useCaller /\ t = Spare

\* A thread that will look at the queue again before it leaves.
Alive(t) ==
    /\ pc[t] \notin {"main", "stop", "join", "done", "exit"}
    /\ ~(pc[t] = "dispatch" /\ cur[t] = NoEntry /\ t \in idleTerm)

\* A thread that has found the queue empty during Stop() has no entry of its own.
PinsStay ==
    switches = 0 =>
        /\ \A e \in Queued : e.pin # None =>
              e.pin \in Workers /\ e.pin \notin idleTerm /\ pc[e.pin] \notin {"exit", "checkActive"}
        /\ \A t \in Threads : cur[t].pin # None =>
              t \in Workers /\ cur[t].pin = t /\ t \notin idleTerm

\* Somebody looks at the queue again while there is something in it.
QueueServed ==
    switches = 0 /\ queue # <<>> =>
        \/ \E t \in Threads : Alive(t)
        \/ useCaller /\ pc[Caller] \in {"main", "stop"}

IInv == TypeOK /\ FiberInv /\ CountersExact /\ PlacesFit /\ PinsStay /\ QueueServed
-----------------------------------------------------------------------------
(***************************************************************************)
(* Frames: what a step that touches no task cannot disturb.                *)
(***************************************************************************)

\* Threads move, but not into, within or out of the execution of a task.
LEMMA QuietFrame ==
    ASSUME TypeOK, FiberInv,
           UNCHANGED <<queue, fst, body, cur, cbf, iowait, jobs, runs>>,
           \A t \in Threads : \/ pc'[t] = pc[t]
                              \/ /\ cur[t] = NoEntry /\ pc[t] \notin {"run", "back", "after"}
                                 /\ pc'[t] \notin {"run", "back", "after"}
    PROVE  FiberInv'
<1> USE DEF FiberInv
<1>1. Queued' = Queued /\ QFibers' = QFibers /\ QJobs' = QJobs /\ Parked' = Parked /\ Held' = Held
  BY DEF Queued, QFibers, QJobs, Parked, Held
<1>2. Busy' = Busy /\ \A t \in Threads : OnCpu(t)' = OnCpu(t)
  BY DEF Busy, OnCpu
<1>3. \A j \in Jobs : TakenFor(j)' = TakenFor(j)
  BY NoneAssumption DEF TakenFor, NoEntry, Entry
<1>4. QueueFits'
  BY <1>1 DEF QueueFits
<1>5. HandsFit'
  BY <1>2 DEF HandsFit, NoEntry, Entry
<1>6. OneHolder'
  BY DEF OneHolder
<1>7. HeldFits'
  BY <1>1, <1>2 DEF HeldFits, Busy, NoEntry, Entry
<1>8. StatusFits'
  BY <1>1, <1>2 DEF StatusFits
<1>9. BodiesFit'
  BY DEF BodiesFit
<1>10. JobsFit'
  BY <1>1, <1>3 DEF JobsFit
<1> QED
  BY <1>4, <1>5, <1>6, <1>7, <1>8, <1>9, <1>10

\* A fiber that is queued or armed, and does not run, is in nobody's hands.
LEMMA ParkedNotHeld ==
    ASSUME TypeOK, FiberInv, NEW f \in Fibers, f \in Parked, fst[f] # "EXEC"
    PROVE  f \notin Held
<1>1. fst[f] \in {"HOLD", "READY"}
  BY DEF FiberInv, StatusFits
<1>2. ASSUME NEW t \in Threads, cur[t].fiber = f PROVE FALSE
  <2>1. cur[t].fiber # None /\ cur[t].job = None /\ OnCpu(t) = f
    BY <1>2, NoneAssumption DEF FiberInv, HandsFit, OnCpu
  <2>2. pc[t] \in {"dispatch", "run", "back", "after"}
    BY <2>1 DEF FiberInv, HandsFit, NoEntry, Entry
  <2> QED
    BY <1>1, <1>2, <2>1, <2>2 DEF FiberInv, HeldFits
<1>3. ASSUME NEW t \in Threads, cbf[t] = f PROVE FALSE
  <2>1. cbf[t] # None
    BY <1>3, NoneAssumption
  <2>2. t \in Busy /\ cur[t].job # None
    BY <1>1, <1>3, <2>1 DEF FiberInv, HeldFits
  <2>3. OnCpu(t) = f
    BY <1>3, <2>2 DEF FiberInv, HandsFit, OnCpu
  <2> QED
    BY <1>1, <2>2, <2>3 DEF FiberInv, HeldFits, Busy
<1> QED
  BY <1>2, <1>3 DEF Held

\* The fiber a thread executes is one, and nobody else's.
LEMMA OnCpuOwn ==
    ASSUME TypeOK, FiberInv, NEW t \in Threads, t \in Busy
    PROVE  /\ OnCpu(t) \in Fibers /\ OnCpu(t) \in Held
           /\ \A u \in Threads \ {t} : cur[u].fiber # OnCpu(t) /\ cbf[u] # OnCpu(t)
           /\ \A u \in Threads \ {t} : u \in Busy => OnCpu(u) # OnCpu(t)
           /\ cur[t].fiber # None => cbf[t] # OnCpu(t)
<1>1. CASE cur[t].fiber # None
  <2>1. OnCpu(t) = cur[t].fiber /\ OnCpu(t) \in Fibers
    BY <1>1 DEF OnCpu, TypeOK, Entries
  <2>2. \A u \in Threads \ {t} : cur[u].fiber # OnCpu(t) /\ cbf[u] # OnCpu(t)
    BY <1>1, <2>1 DEF FiberInv, OneHolder
  <2>3. cbf[t] # OnCpu(t)
    BY <1>1, <2>1 DEF FiberInv, OneHolder
  <2>4. \A u \in Threads \ {t} : OnCpu(u) # OnCpu(t)
    BY <2>2 DEF OnCpu
  <2> QED
    BY <2>1, <2>2, <2>3, <2>4 DEF Held
<1>2. CASE cur[t].fiber = None
  <2>1. cur[t].job # None
    BY <1>2 DEF FiberInv, HandsFit
  <2>2. OnCpu(t) = cbf[t] /\ cbf[t] # None /\ OnCpu(t) \in Fibers
    BY <1>2, <2>1 DEF OnCpu, TypeOK, FiberInv, HandsFit
  <2>3. \A u \in Threads \ {t} : cur[u].fiber # OnCpu(t) /\ cbf[u] # OnCpu(t)
    BY <2>2 DEF FiberInv, OneHolder
  <2>4. \A u \in Threads \ {t} : OnCpu(u) # OnCpu(t)
    BY <2>3 DEF OnCpu
  <2> QED
    BY <1>2, <2>2, <2>3, <2>4 DEF Held
<1> QED
  BY <1>1, <1>2
-----------------------------------------------------------------------------
(***************************************************************************)
(* Every action that touches tasks keeps FiberInv.                         *)
(***************************************************************************)

\* Run() takes an entry out of the queue.
LEMMA TakeFiberInv ==
    ASSUME TypeOK, FiberInv, NEW t \in Threads, pc[t] = "take",
           NEW i \in 1..Len(queue), Eligible(t, queue[i]),
           cur' = [cur EXCEPT ![t] = queue[i]], queue' = RemoveAt(queue, i), Goto(t, "dispatch"),
           UNCHANGED <<fst, body, cbf, iowait, jobs, runs>>
    PROVE  FiberInv' /\ queue' \in Seq(Entries) /\ queue[i] \in Queued /\ queue[i] \in Entries
           /\ Queued' \subseteq Queued
<1> USE DEF FiberInv
<1>1. PICK e : e = queue[i]
  OBVIOUS
<1>2. /\ e \in Queued /\ e \in Entries /\ queue' \in Seq(Entries)
      /\ Queued' = Queued \ {e} /\ IsInjective(queue')
  BY <1>1, RemoveSet DEF Queued, TypeOK, QueueFits
<1>3. /\ cur'[t] = e /\ pc'[t] = "dispatch"
      /\ \A u \in Threads \ {t} : cur'[u] = cur[u] /\ pc'[u] = pc[u]
  BY <1>1 DEF TypeOK, Goto
<1>4. cur[t] = NoEntry /\ cur[t].fiber = None /\ cur[t].job = None
  BY DEF HandsFit, NoEntry, Entry
<1>5. e.fiber \in Fibers \cup {None} /\ e.job \in Jobs \cup {None} /\ (e.job = None <=> e.fiber # None)
  BY <1>2 DEF Entries, QueueFits
<1>6. QFibers' = QFibers \ {e.fiber} /\ QJobs' = QJobs \ {e.job}
  BY <1>2 DEF QFibers, QJobs, QueueFits
<1>7. e.fiber # None => e.fiber \in QFibers
  BY <1>2 DEF QFibers
<1>8. e.job # None => e.job \in QJobs
  BY <1>2 DEF QJobs
<1>9. e.fiber # None => /\ e.fiber \in Fibers /\ fst[e.fiber] \in {"HOLD", "READY"}
                        /\ e.fiber \notin Held /\ e.fiber \notin iowait /\ e.fiber \notin Parked'
  <2> SUFFICES ASSUME e.fiber # None
               PROVE  /\ e.fiber \in Fibers /\ fst[e.fiber] \in {"HOLD", "READY"}
                      /\ e.fiber \notin Held /\ e.fiber \notin iowait /\ e.fiber \notin Parked'
    OBVIOUS
  <2>1. e.fiber \in Fibers /\ e.fiber \in Parked /\ fst[e.fiber] # "EXEC"
    BY <1>1, <1>5, <1>7 DEF Parked, Eligible
  <2>2. e.fiber \notin Held
    BY <2>1, ParkedNotHeld
  <2>3. e.fiber \notin iowait
    BY <1>7, <2>1 DEF StatusFits
  <2> QED
    BY <1>6, <2>1, <2>2, <2>3 DEF StatusFits, Parked
<1>10. Parked' = Parked \ {e.fiber}
  <2>1. e.fiber \notin iowait
    <3>1. None \notin iowait
      BY NoneAssumption DEF TypeOK
    <3> QED
      BY <1>9, <3>1
  <2>2. iowait' = iowait
    OBVIOUS
  <2> QED
    BY <1>6, <2>1, <2>2 DEF Parked
<1>11. Busy' = Busy /\ t \notin Busy /\ \A u \in Threads \ {t} : OnCpu(u)' = OnCpu(u)
  BY <1>3 DEF Busy, OnCpu
<1>12. Held' = IF e.fiber # None THEN Held \cup {e.fiber} ELSE Held
  BY <1>3, <1>4, <1>9, NoneAssumption DEF Held
<1>13. QueueFits'
  BY <1>2 DEF QueueFits
<1>14. HandsFit'
  BY <1>3, <1>5, <1>11 DEF HandsFit, NoEntry, Entry
<1>15. OneHolder'
  BY <1>3, <1>9, NoneAssumption DEF OneHolder, Held
<1>16. HeldFits'
  <2>1. \A u \in Threads : u \in Busy => OnCpu(u) \in Held /\ OnCpu(u) # None
    BY OnCpuOwn, NoneAssumption
  <2>2. \A u \in Threads : cur[u].fiber # None => cur[u].fiber \in Held
    BY DEF Held, TypeOK, Entries
  <2> QED
    BY <1>3, <1>9, <1>10, <1>11, <2>1, <2>2 DEF HeldFits, Busy
<1>17. StatusFits'
  <2>1. ASSUME NEW f \in Fibers, fst[f] \in {"EXEC", "TERM"}
        PROVE  \E u \in Threads : u \in Busy' /\ OnCpu(u)' = f
    BY <2>1, <1>11 DEF StatusFits
  <2>2. ASSUME NEW f \in Fibers
        PROVE  /\ fst[f] = "FREE" => f \notin Held'
               /\ fst[f] \in {"HOLD", "READY"} => f \in Held' \/ f \in Parked'
    BY <1>9, <1>10, <1>12, NoneAssumption DEF StatusFits
  <2> QED
    BY <1>6, <1>10, <2>1, <2>2 DEF StatusFits
<1>18. BodiesFit'
  BY DEF BodiesFit
<1>19. JobsFit'
  <2>1. \A j \in Jobs : TakenFor(j)' = IF j = e.job THEN TakenFor(j) \cup {t} ELSE TakenFor(j)
    BY <1>3, <1>4, NoneAssumption DEF TakenFor
  <2> QED
    BY <1>5, <1>6, <1>8, <2>1, NoneAssumption DEF JobsFit
<1> QED
  BY <1>1, <1>2, <1>13, <1>14, <1>15, <1>16, <1>17, <1>18, <1>19

\* SwapIn() of a fiber task.
LEMMA SwapInFiberInv ==
    ASSUME TypeOK, FiberInv, NEW t \in Threads, SwapInFiber(t)
    PROVE  FiberInv'
<1> USE DEF FiberInv
<1>1. PICK f : f = cur[t].fiber
  OBVIOUS
<1>2. /\ pc[t] = "dispatch" /\ f # None /\ f \in Fibers
      /\ UNCHANGED <<queue, body, cur, cbf, iowait, jobs, runs>>
  BY <1>1 DEF SwapInFiber, At, ioVars, jobVars, TypeOK, Entries
<1>3. /\ pc'[t] = "run" /\ \A u \in Threads \ {t} : pc'[u] = pc[u]
      /\ fst'[f] = "EXEC" /\ \A g \in Fibers \ {f} : fst'[g] = fst[g]
  BY <1>1, <1>2 DEF SwapInFiber, Goto, TypeOK
<1>4. fst[f] \in {"HOLD", "READY"} /\ f \notin Parked /\ f \in Held /\ cur[t].job = None
  BY <1>1, <1>2 DEF HeldFits, HandsFit, Held
<1>5. Queued' = Queued /\ QFibers' = QFibers /\ QJobs' = QJobs /\ Parked' = Parked /\ Held' = Held
  BY <1>2 DEF Queued, QFibers, QJobs, Parked, Held
<1>6. /\ Busy' = Busy \cup {t} /\ t \notin Busy /\ OnCpu(t)' = f
      /\ \A u \in Threads : OnCpu(u)' = OnCpu(u)
  BY <1>1, <1>2, <1>3 DEF Busy, OnCpu
<1>7. \A u \in Threads \ {t} : cur[u].fiber # f /\ cbf[u] # f /\ OnCpu(u) # f
  BY <1>1, <1>2 DEF OneHolder, OnCpu
<1>8. cbf[t] # f
  BY <1>1, <1>2 DEF OneHolder
<1>9. QueueFits'
  BY <1>2, <1>5 DEF QueueFits
<1>10. HandsFit'
  BY <1>1, <1>2, <1>3, <1>4, <1>6 DEF HandsFit
<1>11. OneHolder'
  BY <1>2 DEF OneHolder
<1>12. HeldFits'
  <2>1. \A u \in Threads : cbf[u] # None => cbf[u] \in Fibers
    BY DEF TypeOK
  <2>2. \A u \in Threads : u \in Busy => OnCpu(u) \in Fibers
    BY OnCpuOwn
  <2>3. \A u \in Threads : cur[u].fiber # None => cur[u].fiber \in Fibers
    BY DEF TypeOK, Entries
  <2> QED
    BY <1>2, <1>3, <1>4, <1>5, <1>6, <1>7, <1>8, <2>1, <2>2, <2>3 DEF HeldFits, Busy
<1>13. StatusFits'
  BY <1>2, <1>3, <1>4, <1>5, <1>6 DEF StatusFits
<1>14. BodiesFit'
  BY <1>2, <1>3, <1>4 DEF BodiesFit
<1>15. JobsFit'
  <2>1. \A j \in Jobs : TakenFor(j)' = TakenFor(j)
    BY <1>2, <1>3, <1>4, NoneAssumption DEF TakenFor
  <2> QED
    BY <1>2, <1>5, <2>1 DEF JobsFit
<1> QED
  BY <1>9, <1>10, <1>11, <1>12, <1>13, <1>14, <1>15

\* SwapIn() of a callback, in the fiber the thread kept or in a new one.
LEMMA SwapInCallbackInv ==
    ASSUME TypeOK, FiberInv, NEW t \in Threads, SwapInCallback(t)
    PROVE  FiberInv' /\ jobs' \in [Jobs -> {"new", "queued", "started", "done"}]
           /\ runs' \in [Jobs -> Nat]
<1> USE DEF FiberInv
<1>1. PICK j : j = cur[t].job
  OBVIOUS
<1>2. /\ pc[t] = "dispatch" /\ j # None /\ j \in Jobs
      /\ UNCHANGED <<queue, cur, iowait>>
  BY <1>1 DEF SwapInCallback, At, ioVars, TypeOK, Entries
<1>3. PICK f \in Fibers :
         /\ IF cbf[t] # None
            THEN f = cbf[t]
            ELSE fst[f] = "FREE"
         /\ cbf' = [cbf EXCEPT ![t] = f]
         /\ fst' = [fst EXCEPT ![f] = "EXEC"]
         /\ body' = [body EXCEPT ![f] = j]
         /\ jobs' = [jobs EXCEPT ![j] = "started"]
         /\ runs' = [runs EXCEPT ![j] = @ + 1]
  BY <1>1 DEF SwapInCallback
<1>4. /\ pc'[t] = "run" /\ \A u \in Threads \ {t} : pc'[u] = pc[u]
      /\ cbf'[t] = f /\ \A u \in Threads \ {t} : cbf'[u] = cbf[u]
      /\ fst'[f] = "EXEC" /\ \A g \in Fibers \ {f} : fst'[g] = fst[g]
      /\ body'[f] = j /\ \A g \in Fibers \ {f} : body'[g] = body[g]
      /\ jobs'[j] = "started" /\ \A k \in Jobs \ {j} : jobs'[k] = jobs[k]
      /\ runs'[j] = runs[j] + 1 /\ \A k \in Jobs \ {j} : runs'[k] = runs[k]
  BY <1>2, <1>3 DEF SwapInCallback, Goto, TypeOK
<1>5. cur[t].fiber = None /\ t \notin Busy /\ f # None
  BY <1>1, <1>2, NoneAssumption DEF HandsFit, Busy
<1>6. fst[f] \in {"FREE", "INIT"} /\ (cbf[t] = None => fst[f] = "FREE") /\ (cbf[t] # None => cbf[t] = f)
  BY <1>3, <1>5 DEF HeldFits
<1>7. f \notin Parked /\ body[f] = None
  BY <1>6 DEF StatusFits, BodiesFit
<1>8. \A u \in Threads : /\ cur[u].fiber # f
                         /\ u # t => cbf[u] # f
  <2>1. CASE cbf[t] # None
    BY <2>1, <1>3, <1>5 DEF OneHolder
  <2>2. CASE cbf[t] = None
    <3>1. f \notin Held
      BY <2>2, <1>6 DEF StatusFits
    <3> QED
      BY <3>1 DEF Held
  <2> QED
    BY <2>1, <2>2
<1>9. Queued' = Queued /\ QFibers' = QFibers /\ QJobs' = QJobs /\ Parked' = Parked
  BY <1>2 DEF Queued, QFibers, QJobs, Parked
<1>10. Held' = Held \cup {f}
  BY <1>2, <1>4, <1>6, NoneAssumption DEF Held
<1>11. /\ Busy' = Busy \cup {t} /\ OnCpu(t)' = f
       /\ \A u \in Threads \ {t} : OnCpu(u)' = OnCpu(u) /\ OnCpu(u) # f
  BY <1>2, <1>4, <1>5, <1>8 DEF Busy, OnCpu
<1>12. jobs[j] = "queued" /\ t \in TakenFor(j)
  BY <1>1, <1>2 DEF JobsFit, TakenFor
<1>13. QueueFits'
  BY <1>2, <1>9 DEF QueueFits
<1>14. HandsFit'
  BY <1>1, <1>2, <1>4, <1>5, <1>11 DEF HandsFit
<1>15. OneHolder'
  BY <1>2, <1>4, <1>5, <1>8 DEF OneHolder
<1>16. HeldFits'
  <2>1. \A u \in Threads : cbf[u] # None => cbf[u] \in Fibers
    BY DEF TypeOK
  <2>2. \A u \in Threads : u \in Busy => OnCpu(u) \in Fibers
    BY OnCpuOwn
  <2>3. \A u \in Threads : cur[u].fiber # None => cur[u].fiber \in Fibers
    BY DEF TypeOK, Entries
  <2> QED
    BY <1>1, <1>2, <1>4, <1>7, <1>8, <1>9, <1>11, <2>1, <2>2, <2>3 DEF HeldFits, Busy
<1>17. StatusFits'
  BY <1>2, <1>4, <1>5, <1>6, <1>7, <1>9, <1>10, <1>11 DEF StatusFits
<1>18. BodiesFit'
  <2>1. \A g \in Fibers : body[g] # j
    BY <1>2, <1>12 DEF BodiesFit
  <2>2. \A g \in Fibers : body[g] # None => body[g] \in Jobs
    BY DEF TypeOK
  <2>3. \A g \in Fibers : IF fst'[g] \in {"EXEC", "HOLD", "READY"}
                          THEN body'[g] # None /\ jobs'[body'[g]] = "started"
                          ELSE body'[g] = None
    BY <1>2, <1>4, <2>1, <2>2 DEF BodiesFit
  <2>4. \A g, h \in Fibers : g # h /\ body'[g] # None => body'[g] # body'[h]
    BY <1>4, <2>1 DEF BodiesFit
  <2>5. \A k \in Jobs : jobs'[k] = "started" => \E g \in Fibers : body'[g] = k
    BY <1>4, <1>7, NoneAssumption DEF BodiesFit
  <2> QED
    BY <2>3, <2>4, <2>5 DEF BodiesFit
<1>19. JobsFit'
  <2>1. \A k \in Jobs \ {j} : TakenFor(k)' = TakenFor(k)
    BY <1>1, <1>2, <1>4 DEF TakenFor
  <2>2. TakenFor(j)' = {} /\ j \notin QJobs
    BY <1>2, <1>4, <1>12 DEF TakenFor, JobsFit
  <2> QED
    BY <1>2, <1>4, <1>9, <1>12, <2>1, <2>2 DEF JobsFit
<1>20. jobs' \in [Jobs -> {"new", "queued", "started", "done"}] /\ runs' \in [Jobs -> Nat]
  BY <1>2, <1>3 DEF TypeOK
<1> QED
  BY <1>13, <1>14, <1>15, <1>16, <1>17, <1>18, <1>19, <1>20

\* Two facts for the types of what threads hold.
LEMMA HeldTypes ==
    ASSUME TypeOK, FiberInv
    PROVE  /\ \A u \in Threads : cbf[u] # None => cbf[u] \in Fibers
           /\ \A u \in Threads : cur[u].fiber # None => cur[u].fiber \in Fibers
           /\ \A u \in Threads : u \in Busy => OnCpu(u) \in Fibers
BY OnCpuOwn DEF TypeOK, Entries

LEMMA QueueTypes ==
    ASSUME TypeOK
    PROVE  Queued \subseteq Entries /\ QFibers \subseteq Fibers /\ QJobs \subseteq Jobs
<1>1. Queued \subseteq Entries
  BY SetOfQueue DEF Queued, TypeOK
<1>2. \A e \in Queued : e.fiber \in Fibers \cup {None} /\ e.job \in Jobs \cup {None}
  BY <1>1 DEF Entries
<1> QED
  BY <1>1, <1>2 DEF QFibers, QJobs

\* The queue gets one more fiber, which was not in it.
LEMMA AppendFiber ==
    ASSUME TypeOK, FiberInv, NEW f \in Fibers, f \notin QFibers, NEW p \in Threads \cup {None},
           queue' = Append(queue, Entry(None, f, p))
    PROVE  /\ queue' \in Seq(Entries) /\ Queued' = Queued \cup {Entry(None, f, p)}
           /\ QFibers' = QFibers \cup {f} /\ QJobs' = QJobs /\ QueueFits'
<1> DEFINE e == Entry(None, f, p)
<1>1. e \in Entries /\ e.fiber = f /\ e.job = None /\ f # None
  BY NoneAssumption DEF Entry, Entries
<1> HIDE DEF e
<1>2. e \notin Queued
  BY <1>1 DEF QFibers
<1>3. /\ queue' \in Seq(Entries) /\ Queued' = Queued \cup {e} /\ IsInjective(queue')
  BY <1>1, <1>2, AppendSet DEF Queued, TypeOK, FiberInv, QueueFits, e
<1>4. QFibers' = QFibers \cup {f} /\ QJobs' = QJobs
  BY <1>1, <1>3 DEF QFibers, QJobs
<1>5. QueueFits'
  BY <1>1, <1>3 DEF QueueFits, FiberInv, QFibers
<1> QED
  BY <1>3, <1>4, <1>5 DEF e

\* The queue gets one more callback, which was not in it.
LEMMA AppendJob ==
    ASSUME TypeOK, FiberInv, NEW j \in Jobs, j \notin QJobs, NEW p \in Threads \cup {None},
           queue' = Append(queue, Entry(j, None, p))
    PROVE  /\ queue' \in Seq(Entries) /\ Queued' = Queued \cup {Entry(j, None, p)}
           /\ QFibers' = QFibers /\ QJobs' = QJobs \cup {j} /\ QueueFits'
<1> DEFINE e == Entry(j, None, p)
<1>1. e \in Entries /\ e.fiber = None /\ e.job = j /\ j # None
  BY NoneAssumption DEF Entry, Entries
<1> HIDE DEF e
<1>2. e \notin Queued
  BY <1>1 DEF QJobs
<1>3. /\ queue' \in Seq(Entries) /\ Queued' = Queued \cup {e} /\ IsInjective(queue')
  BY <1>1, <1>2, AppendSet DEF Queued, TypeOK, FiberInv, QueueFits, e
<1>4. QFibers' = QFibers /\ QJobs' = QJobs \cup {j}
  BY <1>1, <1>3 DEF QFibers, QJobs
<1>5. QueueFits'
  BY <1>1, <1>3 DEF QueueFits, FiberInv, QJobs
<1> QED
  BY <1>3, <1>4, <1>5 DEF e

\* The task leaves the CPU: it has parked itself (AddEvent() or Schedule() of its own
\* fiber), it is READY, or it has ended.
Leaves(t) ==
    \/ Parked' = Parked \cup {OnCpu(t)} /\ fst' = fst /\ body' = body /\ jobs' = jobs
    \/ /\ Parked' = Parked /\ fst' = [fst EXCEPT ![OnCpu(t)] = "READY"]
       /\ body' = body /\ jobs' = jobs
    \/ /\ Parked' = Parked /\ fst' = [fst EXCEPT ![OnCpu(t)] = "TERM"]
       /\ body' = [body EXCEPT ![OnCpu(t)] = None] /\ jobs' = [jobs EXCEPT ![JobOn(t)] = "done"]

LEMMA LeaveInv ==
    ASSUME TypeOK, FiberInv, NEW t \in Threads, pc[t] = "run", Goto(t, "back"),
           QueueFits', UNCHANGED <<cur, cbf, runs>>,
           Leaves(t),
           QFibers' \cap iowait' = {}, iowait' \subseteq iowait \cup {OnCpu(t)},
           OnCpu(t) \in iowait' => fst' = fst,
           QJobs' = QJobs
    PROVE  FiberInv'
<1> USE DEF FiberInv
<1>1. PICK f : f = OnCpu(t)
  OBVIOUS
<1>2. /\ f \in Fibers /\ f \in Held /\ t \in Busy
      /\ \A u \in Threads \ {t} : cur[u].fiber # f /\ cbf[u] # f /\ (u \in Busy => OnCpu(u) # f)
      /\ cur[t].fiber # None => cbf[t] # f
  BY <1>1, OnCpuOwn DEF Busy
<1>3. fst[f] = "EXEC" /\ f \notin Parked /\ body[f] # None /\ jobs[body[f]] = "started" /\ body[f] \in Jobs
  BY <1>1, <1>2 DEF HeldFits, BodiesFit, TypeOK
<1>4. pc'[t] = "back" /\ \A u \in Threads \ {t} : pc'[u] = pc[u]
  BY DEF TypeOK, Goto
<1>5. \/ Parked' = Parked \cup {f} /\ fst' = fst /\ body' = body /\ jobs' = jobs
      \/ Parked' = Parked /\ fst' = [fst EXCEPT ![f] = "READY"] /\ body' = body /\ jobs' = jobs
      \/ /\ Parked' = Parked /\ fst' = [fst EXCEPT ![f] = "TERM"] /\ body' = [body EXCEPT ![f] = None]
         /\ jobs' = [jobs EXCEPT ![body[f]] = "done"]
  BY <1>1 DEF JobOn, Leaves
<1>6. /\ \A g \in Fibers \ {f} : fst'[g] = fst[g] /\ body'[g] = body[g] /\ (g \in Parked' <=> g \in Parked)
      /\ \/ f \in Parked' /\ fst'[f] = "EXEC" /\ body'[f] = body[f]
         \/ f \notin Parked' /\ fst'[f] = "READY" /\ body'[f] = body[f]
         \/ f \notin Parked' /\ fst'[f] = "TERM" /\ body'[f] = None
  BY <1>2, <1>3, <1>5 DEF TypeOK
<1>7. Busy' = Busy /\ Held' = Held /\ \A u \in Threads : OnCpu(u)' = OnCpu(u)
  BY <1>2, <1>4 DEF Busy, Held, OnCpu
<1>8. HandsFit' /\ OneHolder'
  BY <1>4, <1>7 DEF HandsFit, OneHolder, Busy
<1>9. HeldFits'
  <2>1. ASSUME NEW u \in Threads \ {t} 
        PROVE  /\ cbf'[u] # None /\ ~(u \in Busy' /\ cur'[u].job # None) => fst'[cbf'[u]] = "INIT"
               /\ pc'[u] = "dispatch" /\ cur'[u].fiber # None =>
                     fst'[cur'[u].fiber] \in {"HOLD", "READY"} /\ cur'[u].fiber \notin Parked'
               /\ pc'[u] = "run" => fst'[OnCpu(u)'] = "EXEC" /\ OnCpu(u)' \notin Parked'
               /\ pc'[u] \in {"back", "after"} =>
                     \/ fst'[OnCpu(u)'] = "EXEC" /\ OnCpu(u)' \in Parked'
                     \/ fst'[OnCpu(u)'] \in {"READY", "TERM"} /\ OnCpu(u)' \notin Parked'
    BY <1>2, <1>4, <1>6, <1>7, HeldTypes DEF HeldFits, Busy
  <2>2. cbf'[t] # None /\ ~(t \in Busy' /\ cur'[t].job # None) => fst'[cbf'[t]] = "INIT"
    BY <1>2, <1>6, <1>7, HeldTypes DEF HeldFits, HandsFit
  <2>3. /\ OnCpu(t)' = f
        /\ \/ fst'[f] = "EXEC" /\ f \in Parked'
           \/ fst'[f] \in {"READY", "TERM"} /\ f \notin Parked'
    BY <1>1, <1>6, <1>7
  <2> QED
    BY <1>4, <2>1, <2>2, <2>3 DEF HeldFits
<1>10. StatusFits'
  <2>1. ASSUME NEW g \in Fibers
        PROVE  fst'[g] \in {"EXEC", "TERM"} => \E u \in Threads : u \in Busy' /\ OnCpu(u)' = g
    BY <1>1, <1>2, <1>6, <1>7 DEF StatusFits
  <2>2. ASSUME NEW g \in Fibers
        PROVE  /\ g \in Parked' => fst'[g] \in {"EXEC", "HOLD", "READY"}
               /\ fst'[g] = "FREE" => g \notin Held'
               /\ fst'[g] \in {"HOLD", "READY"} => g \in Held' \/ g \in Parked'
               /\ g \in iowait' => fst'[g] # "READY"
    BY <1>1, <1>2, <1>3, <1>6, <1>7 DEF StatusFits
  <2> QED
    BY <2>1, <2>2 DEF StatusFits
<1>11. BodiesFit'
  <2>1. \A g \in Fibers : body[g] # None => body[g] \in Jobs
    BY DEF TypeOK
  <2>2. CASE body' = body /\ jobs' = jobs
    BY <2>2, <1>3, <1>6 DEF BodiesFit
  <2>3. CASE /\ body'[f] = None /\ fst'[f] = "TERM"
             /\ jobs' = [jobs EXCEPT ![body[f]] = "done"]
    <3>1. jobs'[body[f]] = "done" /\ \A k \in Jobs \ {body[f]} : jobs'[k] = jobs[k]
      BY <2>3, <1>3 DEF TypeOK
    <3>2. \A g \in Fibers \ {f} : body[g] # body[f]
      BY <1>2, <1>3 DEF BodiesFit
    <3> QED
      BY <2>1, <2>3, <3>1, <3>2, <1>2, <1>6 DEF BodiesFit
  <2> QED
    BY <2>2, <2>3, <1>2, <1>5 DEF TypeOK
<1>12. JobsFit'
  <2>1. \A j \in Jobs : TakenFor(j)' = TakenFor(j)
    BY <1>4 DEF TakenFor
  <2>2. \A j \in Jobs : jobs'[j] = jobs[j] \/ (jobs[j] = "started" /\ jobs'[j] = "done")
    BY <1>3, <1>5 DEF TypeOK
  <2> QED
    BY <2>1, <2>2 DEF JobsFit
<1> QED
  BY <1>8, <1>9, <1>10, <1>11, <1>12

LEMMA WaitIOInv ==
    ASSUME TypeOK, FiberInv, NEW t \in Threads, WaitIO(t)
    PROVE  FiberInv' /\ OnCpu(t) \in Fibers \ iowait
<1>1. /\ pc[t] = "run" /\ t \in Busy /\ iowait' = iowait \cup {OnCpu(t)} /\ Goto(t, "back")
      /\ UNCHANGED <<queue, fst, body, cur, cbf, jobs, runs>>
  BY DEF WaitIO, MayYield, At, Busy
<1>2. OnCpu(t) \in Fibers /\ OnCpu(t) \notin Parked
  BY <1>1, OnCpuOwn DEF FiberInv, HeldFits
<1>3. Queued' = Queued /\ QFibers' = QFibers /\ QJobs' = QJobs /\ Parked' = Parked \cup {OnCpu(t)}
  BY <1>1 DEF Queued, QFibers, QJobs, Parked
<1>4. QueueFits'
  BY <1>1, <1>3 DEF FiberInv, QueueFits
<1>5. QFibers \subseteq Fibers
  BY QueueTypes
<1>6. QFibers' \cap iowait' = {}
  BY <1>1, <1>2, <1>3, <1>5 DEF FiberInv, StatusFits, Parked
<1>7. FiberInv'
  <2>1. /\ Parked' = Parked \cup {OnCpu(t)} /\ fst' = fst /\ body' = body /\ jobs' = jobs
        /\ iowait' \subseteq iowait \cup {OnCpu(t)} /\ UNCHANGED <<cur, cbf, runs>>
    BY <1>1, <1>3
  <2>2. Leaves(t)
    BY <2>1 DEF Leaves
  <2> QED
    BY <1>1, <1>3, <1>4, <1>6, <2>1, <2>2, LeaveInv
<1> QED
  BY <1>2, <1>7 DEF Parked

LEMMA YieldInv ==
    ASSUME TypeOK, FiberInv, NEW t \in Threads, YieldToReady(t) \/ Finish(t)
    PROVE  FiberInv' /\ OnCpu(t) \in Fibers /\ JobOn(t) \in Jobs
<1>1. /\ pc[t] = "run" /\ t \in Busy /\ Goto(t, "back")
      /\ UNCHANGED <<queue, iowait, cur, cbf, runs>>
  BY DEF YieldToReady, Finish, MayYield, At, Busy, ioVars
<1>2. OnCpu(t) \in Fibers /\ OnCpu(t) \notin Parked
  BY <1>1, OnCpuOwn DEF FiberInv, HeldFits
<1>3. JobOn(t) \in Jobs
  BY <1>1, <1>2 DEF FiberInv, HeldFits, BodiesFit, JobOn, TypeOK
<1>4. Queued' = Queued /\ QFibers' = QFibers /\ QJobs' = QJobs /\ Parked' = Parked
  BY <1>1 DEF Queued, QFibers, QJobs, Parked
<1>5. QueueFits'
  BY <1>1, <1>4 DEF FiberInv, QueueFits
<1>6. QFibers \subseteq Fibers
  BY QueueTypes
<1>7. QFibers' \cap iowait' = {} /\ OnCpu(t) \notin iowait'
  BY <1>1, <1>2, <1>4, <1>6 DEF FiberInv, StatusFits, Parked
<1>8. CASE YieldToReady(t)
  <2>1. fst' = [fst EXCEPT ![OnCpu(t)] = "READY"] /\ body' = body /\ jobs' = jobs
    BY <1>8 DEF YieldToReady
  <2>2. iowait' \subseteq iowait \cup {OnCpu(t)} /\ UNCHANGED <<cur, cbf, runs>>
    BY <1>1
  <2>3. Leaves(t)
    BY <1>4, <2>1 DEF Leaves
  <2>4. FiberInv'
    BY <1>1, <1>4, <1>5, <1>7, <2>2, <2>3, LeaveInv
  <2> QED
    BY <1>2, <1>3, <2>4
<1>9. CASE Finish(t)
  <2>1. /\ fst' = [fst EXCEPT ![OnCpu(t)] = "TERM"] /\ body' = [body EXCEPT ![OnCpu(t)] = None]
        /\ jobs' = [jobs EXCEPT ![JobOn(t)] = "done"]
    BY <1>9 DEF Finish
  <2>2. iowait' \subseteq iowait \cup {OnCpu(t)} /\ UNCHANGED <<cur, cbf, runs>>
    BY <1>1
  <2>3. Leaves(t)
    BY <1>4, <2>1 DEF Leaves
  <2>4. FiberInv'
    BY <1>1, <1>4, <1>5, <1>7, <2>2, <2>3, LeaveInv
  <2> QED
    BY <1>2, <1>3, <2>4
<1> QED
  BY <1>8, <1>9

LEMMA SwitchToInv ==
    ASSUME TypeOK, FiberInv, NEW t \in Threads, NEW p \in Pins, SwitchTo(t, p)
    PROVE  FiberInv' /\ queue' \in Seq(Entries)
<1>1. /\ pc[t] = "run" /\ t \in Busy /\ Goto(t, "back")
      /\ queue' = Append(queue, Entry(None, OnCpu(t), p))
      /\ UNCHANGED <<iowait, fst, body, cur, cbf, jobs, runs>>
  BY DEF SwitchTo, Schedule, At, Busy, ioVars
<1>2. OnCpu(t) \in Fibers /\ OnCpu(t) \notin Parked /\ p \in Threads \cup {None}
  BY <1>1, OnCpuOwn DEF FiberInv, HeldFits, Pins, Threads
<1>3. /\ queue' \in Seq(Entries) /\ QFibers' = QFibers \cup {OnCpu(t)} /\ QJobs' = QJobs /\ QueueFits'
  BY <1>1, <1>2, AppendFiber DEF Parked
<1>4. QFibers \subseteq Fibers
  BY QueueTypes
<1>5. /\ Parked' = Parked \cup {OnCpu(t)} /\ QFibers' \cap iowait' = {} /\ iowait' = iowait
  BY <1>1, <1>2, <1>3, <1>4 DEF Parked, FiberInv, StatusFits
<1>6. FiberInv'
  <2>1. /\ Parked' = Parked \cup {OnCpu(t)} /\ fst' = fst /\ body' = body /\ jobs' = jobs
        /\ iowait' \subseteq iowait \cup {OnCpu(t)} /\ UNCHANGED <<cur, cbf, runs>>
    BY <1>1, <1>5
  <2>2. Leaves(t)
    BY <2>1 DEF Leaves
  <2> QED
    BY <1>1, <1>3, <1>5, <2>1, <2>2, LeaveInv
<1> QED
  BY <1>3, <1>6

LEMMA BackInv ==
    ASSUME TypeOK, FiberInv, NEW t \in Threads, Back(t)
    PROVE  FiberInv'
<1> USE DEF FiberInv
<1>1. /\ pc[t] = "back" /\ UNCHANGED <<queue, fst, body, cur, cbf, iowait, jobs, runs>>
      /\ pc'[t] = "after" /\ \A u \in Threads \ {t} : pc'[u] = pc[u]
  BY DEF Back, At, Goto, TypeOK, ioVars, jobVars
<1>2. Queued' = Queued /\ QFibers' = QFibers /\ QJobs' = QJobs /\ Parked' = Parked /\ Held' = Held
  BY <1>1 DEF Queued, QFibers, QJobs, Parked, Held
<1>3. Busy' = Busy /\ \A u \in Threads : OnCpu(u)' = OnCpu(u)
  BY <1>1 DEF Busy, OnCpu
<1>4. \A j \in Jobs : TakenFor(j)' = TakenFor(j)
  BY <1>1 DEF TakenFor
<1>5. QueueFits' /\ OneHolder' /\ BodiesFit'
  BY <1>1, <1>2 DEF QueueFits, OneHolder, BodiesFit
<1>6. HandsFit' /\ HeldFits'
  BY <1>1, <1>2, <1>3 DEF HandsFit, HeldFits
<1>7. StatusFits' /\ JobsFit'
  BY <1>1, <1>2, <1>3, <1>4 DEF StatusFits, JobsFit
<1> QED
  BY <1>5, <1>6, <1>7

\* triggerEvent() moves a fiber from the armed events to the queue.
LEMMA EpollEventInv ==
    ASSUME TypeOK, FiberInv, NEW t \in Threads, NEW f \in Fibers, EpollEvent(t, f)
    PROVE  FiberInv' /\ queue' \in Seq(Entries) /\ f \in iowait
           /\ Queued' = Queued \cup {Entry(None, f, None)}
<1> USE DEF FiberInv
<1>1. /\ pc[t] = "epoll" /\ f \in iowait /\ iowait' = iowait \ {f} /\ Goto(t, "triggered")
      /\ queue' = Append(queue, Entry(None, f, None))
      /\ UNCHANGED <<fst, body, cur, cbf, jobs, runs>>
  BY DEF EpollEvent, At, Schedule, jobVars, TypeOK
<1>2. f \notin QFibers /\ fst[f] # "READY"
  BY <1>1 DEF StatusFits
<1>3. /\ queue' \in Seq(Entries) /\ Queued' = Queued \cup {Entry(None, f, None)}
      /\ QFibers' = QFibers \cup {f} /\ QJobs' = QJobs /\ QueueFits'
  BY <1>1, <1>2, AppendFiber
<1>4. Parked' = Parked
  BY <1>1, <1>3 DEF Parked
<1>5. pc'[t] = "triggered" /\ \A u \in Threads \ {t} : pc'[u] = pc[u]
  BY <1>1 DEF Goto, TypeOK
<1>6. Busy' = Busy /\ Held' = Held /\ \A u \in Threads : OnCpu(u)' = OnCpu(u)
  BY <1>1, <1>5 DEF Busy, Held, OnCpu
<1>7. \A j \in Jobs : TakenFor(j)' = TakenFor(j)
  BY <1>1, <1>5 DEF TakenFor
<1>8. OneHolder' /\ BodiesFit'
  BY <1>1 DEF OneHolder, BodiesFit
<1>9. HandsFit' /\ HeldFits'
  BY <1>1, <1>4, <1>5, <1>6 DEF HandsFit, HeldFits
<1>10. StatusFits'
  BY <1>1, <1>3, <1>4, <1>6 DEF StatusFits
<1>11. JobsFit'
  BY <1>1, <1>3, <1>7 DEF JobsFit
<1> QED
  BY <1>1, <1>3, <1>8, <1>9, <1>10, <1>11

\* Schedule() of a callback.
LEMMA SubmitInv ==
    ASSUME TypeOK, FiberInv, NEW t \in Threads, NEW j \in Jobs, NEW p \in Threads \cup {None},
           Submit(t, j, p)
    PROVE  FiberInv' /\ queue' \in Seq(Entries) /\ Queued' = Queued \cup {Entry(j, None, p)}
<1> USE DEF FiberInv
<1>1. /\ jobs[j] = "new" /\ jobs' = [jobs EXCEPT ![j] = "queued"]
      /\ queue' = Append(queue, Entry(j, None, p))
      /\ UNCHANGED <<fst, body, pc, cur, cbf, iowait, runs>>
  BY DEF Submit, Schedule, ioVars
<1>2. j \notin QJobs /\ \A u \in Threads : u \notin TakenFor(j)
  BY <1>1 DEF JobsFit
<1>3. /\ queue' \in Seq(Entries) /\ Queued' = Queued \cup {Entry(j, None, p)}
      /\ QFibers' = QFibers /\ QJobs' = QJobs \cup {j} /\ QueueFits'
  BY <1>1, <1>2, AppendJob
<1>4. Parked' = Parked /\ Busy' = Busy /\ Held' = Held /\ \A u \in Threads : OnCpu(u)' = OnCpu(u)
  BY <1>1, <1>3 DEF Parked, Busy, Held, OnCpu
<1>5. jobs'[j] = "queued" /\ \A k \in Jobs \ {j} : jobs'[k] = jobs[k]
  BY <1>1 DEF TypeOK
<1>6. HandsFit' /\ OneHolder' /\ HeldFits'
  BY <1>1, <1>4 DEF HandsFit, OneHolder, HeldFits
<1>7. StatusFits'
  BY <1>1, <1>3, <1>4 DEF StatusFits
<1>8. BodiesFit'
  BY <1>1, <1>5, NoneAssumption DEF BodiesFit, TypeOK
<1>9. JobsFit'
  <2>1. \A k \in Jobs : TakenFor(k)' = TakenFor(k)
    BY <1>1 DEF TakenFor
  <2> QED
    BY <1>1, <1>2, <1>3, <1>5, <2>1 DEF JobsFit
<1> QED
  BY <1>3, <1>6, <1>7, <1>8, <1>9

\* What Run() does with a task that is back: queue it again, forget it, keep its ended
\* fiber for the next callback, or leave it to whoever it is parked with.
Drops(t) == cbf' = IF cur[t].fiber # None THEN cbf ELSE [cbf EXCEPT ![t] = None]
Releases(t) ==
    \/ fst[OnCpu(t)] = "READY" /\ fst' = fst /\ QFibers' = QFibers \cup {OnCpu(t)} /\ Drops(t)
    \/ /\ fst[OnCpu(t)] = "TERM" /\ fst' = [fst EXCEPT ![OnCpu(t)] = "FREE"]
       /\ QFibers' = QFibers /\ Drops(t)
    \/ /\ fst[OnCpu(t)] = "TERM" /\ fst' = [fst EXCEPT ![OnCpu(t)] = "INIT"]
       /\ QFibers' = QFibers /\ cbf' = cbf /\ cur[t].fiber = None
    \/ /\ fst[OnCpu(t)] = "EXEC" /\ fst' = [fst EXCEPT ![OnCpu(t)] = "HOLD"]
       /\ QFibers' = QFibers /\ Drops(t)

LEMMA ReleaseInv ==
    ASSUME TypeOK, FiberInv, NEW t \in Threads, pc[t] = "after", Releases(t), QueueFits',
           cur' = [cur EXCEPT ![t] = NoEntry], Goto(t, "take"),
           UNCHANGED <<body, iowait, jobs, runs>>, QJobs' = QJobs
    PROVE  FiberInv'
<1> USE DEF FiberInv
<1>1. PICK f : f = OnCpu(t)
  OBVIOUS
<1>2. /\ f \in Fibers /\ f # None /\ t \in Busy
      /\ \A u \in Threads \ {t} : cur[u].fiber # f /\ cbf[u] # f /\ (u \in Busy => OnCpu(u) # f)
      /\ cur[t].fiber # None => cur[t].fiber = f /\ cbf[t] # f
      /\ cur[t].fiber = None => cbf[t] = f /\ cur[t].job # None
  BY <1>1, OnCpuOwn, NoneAssumption DEF Busy, OnCpu, HandsFit
<1>3. \/ fst[f] = "EXEC" /\ f \in Parked
      \/ fst[f] \in {"READY", "TERM"} /\ f \notin Parked
  BY <1>1 DEF HeldFits
<1>4. /\ pc'[t] = "take" /\ \A u \in Threads \ {t} : pc'[u] = pc[u]
      /\ cur'[t] = NoEntry /\ \A u \in Threads \ {t} : cur'[u] = cur[u]
      /\ NoEntry.fiber = None /\ NoEntry.job = None
  BY DEF TypeOK, Goto, NoEntry, Entry
<1>5. /\ \A u \in Threads \ {t} : cbf'[u] = cbf[u]
      /\ \A g \in Fibers \ {f} : fst'[g] = fst[g]
      /\ \/ fst'[f] = "READY" /\ QFibers' = QFibers \cup {f} /\ cbf'[t] # f
         \/ fst'[f] = "FREE" /\ QFibers' = QFibers /\ cbf'[t] # f
         \/ fst'[f] = "INIT" /\ QFibers' = QFibers /\ cbf'[t] = f
         \/ fst'[f] = "HOLD" /\ QFibers' = QFibers /\ cbf'[t] # f /\ fst[f] = "EXEC"
      /\ cbf'[t] \in {None, cbf[t]}
      /\ fst'[f] \in {"FREE", "INIT"} <=> fst[f] = "TERM"
      /\ fst'[f] = "READY" => fst[f] = "READY"
  BY <1>1, <1>2 DEF Releases, Drops, TypeOK
<1>6. Parked' = IF fst'[f] = "READY" THEN Parked \cup {f} ELSE Parked
  BY <1>5 DEF Parked
<1>7. Busy' = Busy \ {t} /\ \A u \in Threads \ {t} : OnCpu(u)' = OnCpu(u)
  BY <1>2, <1>4, <1>5 DEF Busy, OnCpu
<1>8. \A g \in Fibers : g \in Held' <=> g \in Held /\ (g = f => cbf'[t] = f)
  <2>1. ASSUME NEW g \in Fibers, g \in Held' PROVE g \in Held /\ (g = f => cbf'[t] = f)
    BY <2>1, <1>2, <1>4, <1>5, NoneAssumption DEF Held
  <2>2. ASSUME NEW g \in Fibers, g \in Held, g = f => cbf'[t] = f PROVE g \in Held'
    <3>1. CASE g = f
      BY <3>1, <2>2 DEF Held
    <3>2. CASE g # f
      <4>1. PICK u \in Threads : cur[u].fiber = g \/ cbf[u] = g
        BY <2>2 DEF Held
      <4>2. CASE u # t
        BY <4>1, <4>2, <1>4, <1>5 DEF Held
      <4>3. CASE u = t
        <5>1. cbf[t] = g /\ cur[t].fiber = f /\ cur[t].fiber # None
          BY <4>1, <4>3, <3>2, <1>2, NoneAssumption
        <5>2. cbf' = cbf
          BY <5>1 DEF Releases, Drops
        <5> QED
          BY <5>1, <5>2 DEF Held
      <4> QED
        BY <4>2, <4>3
    <3> QED
      BY <3>1, <3>2
  <2> QED
    BY <2>1, <2>2
<1>9. HandsFit'
  BY <1>4, <1>5, <1>7 DEF HandsFit
<1>10. OneHolder'
  BY <1>4, <1>5 DEF OneHolder
<1>11. HeldFits'
  <2>1. ASSUME NEW u \in Threads \ {t}
        PROVE  /\ cbf'[u] # None /\ ~(u \in Busy' /\ cur'[u].job # None) => fst'[cbf'[u]] = "INIT"
               /\ pc'[u] = "dispatch" /\ cur'[u].fiber # None =>
                     fst'[cur'[u].fiber] \in {"HOLD", "READY"} /\ cur'[u].fiber \notin Parked'
               /\ pc'[u] = "run" => fst'[OnCpu(u)'] = "EXEC" /\ OnCpu(u)' \notin Parked'
               /\ pc'[u] \in {"back", "after"} =>
                     \/ fst'[OnCpu(u)'] = "EXEC" /\ OnCpu(u)' \in Parked'
                     \/ fst'[OnCpu(u)'] \in {"READY", "TERM"} /\ OnCpu(u)' \notin Parked'
    BY <1>2, <1>4, <1>5, <1>6, <1>7, HeldTypes DEF HeldFits, Busy
  <2>2. cbf'[t] # None => fst'[cbf'[t]] = "INIT"
    <3>1. CASE cur[t].fiber # None
      <4>1. cur[t].job = None
        BY <3>1 DEF HandsFit
      <4> QED
        BY <3>1, <4>1, <1>2, <1>5, HeldTypes DEF HeldFits
    <3>2. CASE cur[t].fiber = None
      BY <3>2, <1>2, <1>5
    <3> QED
      BY <3>1, <3>2
  <2> QED
    BY <1>4, <2>1, <2>2 DEF HeldFits
<1>12. StatusFits'
  <2>1. ASSUME NEW g \in Fibers
        PROVE  fst'[g] \in {"EXEC", "TERM"} => \E u \in Threads : u \in Busy' /\ OnCpu(u)' = g
    BY <1>1, <1>5, <1>7 DEF StatusFits
  <2>2. ASSUME NEW g \in Fibers
        PROVE  /\ g \in Parked' => fst'[g] \in {"EXEC", "HOLD", "READY"}
               /\ fst'[g] = "FREE" => g \notin Held'
               /\ fst'[g] \in {"HOLD", "READY"} => g \in Held' \/ g \in Parked'
               /\ g \in iowait' => fst'[g] # "READY"
               /\ ~(g \in QFibers' /\ g \in iowait')
    <3>1. CASE g # f
      BY <3>1, <1>5, <1>6, <1>8 DEF StatusFits
    <3>2. CASE g = f
      BY <3>2, <1>2, <1>3, <1>5, <1>6, <1>8 DEF StatusFits, Parked
    <3> QED
      BY <3>1, <3>2
  <2> QED
    BY <2>1, <2>2 DEF StatusFits
<1>13. BodiesFit'
  BY <1>2, <1>3, <1>5 DEF BodiesFit
<1>14. JobsFit'
  <2>1. \A j \in Jobs : TakenFor(j)' = TakenFor(j)
    BY <1>4 DEF TakenFor
  <2> QED
    BY <2>1 DEF JobsFit
<1> QED
  BY <1>9, <1>10, <1>11, <1>12, <1>13, <1>14

LEMMA AfterInv ==
    ASSUME TypeOK, FiberInv, NEW t \in Threads, AfterFiber(t) \/ AfterCallback(t)
    PROVE  /\ FiberInv' /\ queue' \in Seq(Entries) /\ OnCpu(t) \in Fibers
           /\ Queued' \subseteq Queued \cup {Entry(None, OnCpu(t), cur[t].pin)}
<1> USE DEF FiberInv
<1>1. /\ pc[t] = "after" /\ t \in Busy /\ cur' = [cur EXCEPT ![t] = NoEntry] /\ Goto(t, "take")
      /\ UNCHANGED <<body, iowait, jobs, runs>>
  BY DEF AfterFiber, AfterCallback, At, Busy, ioVars, jobVars
<1>2. OnCpu(t) \in Fibers /\ cur[t].pin \in Threads \cup {None}
  BY <1>1, OnCpuOwn DEF TypeOK, Entries
<1>3. \/ /\ fst[OnCpu(t)] = "READY" /\ fst' = fst /\ Drops(t)
         /\ queue' = Append(queue, Entry(None, OnCpu(t), cur[t].pin))
      \/ /\ fst[OnCpu(t)] = "TERM" /\ fst' = [fst EXCEPT ![OnCpu(t)] = "FREE"]
         /\ queue' = queue /\ Drops(t)
      \/ /\ fst[OnCpu(t)] = "TERM" /\ fst' = [fst EXCEPT ![OnCpu(t)] = "INIT"]
         /\ queue' = queue /\ cbf' = cbf /\ cur[t].fiber = None
      \/ /\ fst[OnCpu(t)] = "EXEC" /\ fst' = [fst EXCEPT ![OnCpu(t)] = "HOLD"]
         /\ queue' = queue /\ Drops(t)
  <2>1. CASE AfterFiber(t)
    BY <2>1 DEF AfterFiber, OnCpu, Drops, Schedule
  <2>2. CASE AfterCallback(t)
    <3>1. cur[t].fiber = None
      BY <2>2 DEF AfterCallback, HandsFit
    <3> QED
      BY <2>2, <3>1 DEF AfterCallback, OnCpu, Drops, Schedule
  <2> QED
    BY <2>1, <2>2
<1>4. CASE fst[OnCpu(t)] = "READY"
  <2>1. fst' = fst /\ Drops(t) /\ queue' = Append(queue, Entry(None, OnCpu(t), cur[t].pin))
    BY <1>3, <1>4
  <2>2. OnCpu(t) \notin QFibers
    BY <1>1, <1>4 DEF HeldFits, Parked
  <2>3. /\ queue' \in Seq(Entries) /\ Queued' = Queued \cup {Entry(None, OnCpu(t), cur[t].pin)}
        /\ QFibers' = QFibers \cup {OnCpu(t)} /\ QJobs' = QJobs /\ QueueFits'
    BY <1>2, <2>1, <2>2, AppendFiber
  <2>4. Releases(t)
    BY <1>4, <2>1, <2>3 DEF Releases
  <2> QED
    BY <1>1, <1>2, <2>3, <2>4, ReleaseInv
<1>5. CASE fst[OnCpu(t)] # "READY"
  <2>1. queue' = queue
    BY <1>3, <1>5
  <2>2. queue' \in Seq(Entries) /\ Queued' = Queued /\ QFibers' = QFibers /\ QJobs' = QJobs
    BY <2>1 DEF TypeOK, Queued, QFibers, QJobs
  <2>3. QueueFits'
    BY <2>1, <2>2 DEF QueueFits
  <2>4. Releases(t)
    BY <1>3, <1>5, <2>2 DEF Releases
  <2> QED
    BY <1>1, <1>2, <2>2, <2>3, <2>4, ReleaseInv
<1> QED
  BY <1>4, <1>5
-----------------------------------------------------------------------------
(***************************************************************************)
(* The counters.                                                           *)
(***************************************************************************)

LEMMA FiniteThreads == IsFiniteSet(Threads) /\ IsFiniteSet(Fibers)
<1>1. IsFiniteSet(Workers \cup {Caller})
  BY ThreadsAssumption, FS_AddElement
<1>2. IsFiniteSet(1..NumFibers)
  BY BoundsAssumption, FS_Interval
<1> QED
  BY <1>1, <1>2 DEF Threads, Fibers

Bit(b) == IF b THEN 1 ELSE 0

\* A step of thread t moves nobody else.
Moves(t) == \A u \in Threads \ {t} : pc'[u] = pc[u] /\ cur'[u] = cur[u]

\* The step changes each counter by what it changes in what the counter counts: thread
\* t's place, and whether the event of fiber f is armed.
Counts(t, f) ==
    /\ active' = active + Bit(t \in Working') - Bit(t \in Working)
    /\ idle' = idle + Bit(t \in Idling') - Bit(t \in Idling)
    /\ pending' = pending + Bit(f \in iowait') - Bit(f \in iowait)
                          + Bit(t \in Triggering') - Bit(t \in Triggering)

LEMMA CountOne ==
    ASSUME NEW S, NEW T, NEW x, IsFiniteSet(S), T \ {x} = S \ {x}
    PROVE  /\ Cardinality(S) \in Nat /\ Cardinality(T) \in Nat
           /\ Cardinality(T) = Cardinality(S) + Bit(x \in T) - Bit(x \in S)
BY CountChange DEF Bit

LEMMA CountStep ==
    ASSUME TypeOK, CountersExact, NEW t \in Threads, NEW f, Moves(t),
           iowait' \ {f} = iowait \ {f}, Counts(t, f)
    PROVE  CountersExact' /\ active' \in Nat /\ idle' \in Nat /\ pending' \in Nat
<1>1. /\ IsFiniteSet(Working) /\ IsFiniteSet(Idling) /\ IsFiniteSet(Triggering)
      /\ IsFiniteSet(iowait)
  BY FiniteThreads, FS_Subset DEF Working, Idling, Triggering, TypeOK
<1>2. /\ Working' \ {t} = Working \ {t} /\ Idling' \ {t} = Idling \ {t}
      /\ Triggering' \ {t} = Triggering \ {t}
  BY DEF Moves, Working, Idling, Triggering
<1>3. /\ Cardinality(Working') \in Nat
      /\ Cardinality(Working') = Cardinality(Working) + Bit(t \in Working') - Bit(t \in Working)
  BY <1>1, <1>2, CountOne
<1>4. /\ Cardinality(Idling') \in Nat
      /\ Cardinality(Idling') = Cardinality(Idling) + Bit(t \in Idling') - Bit(t \in Idling)
  BY <1>1, <1>2, CountOne
<1>5. /\ Cardinality(Triggering') \in Nat /\ Cardinality(Triggering) \in Nat
      /\ Cardinality(Triggering')
           = Cardinality(Triggering) + Bit(t \in Triggering') - Bit(t \in Triggering)
  BY <1>1, <1>2, CountOne
<1>6. /\ Cardinality(iowait') \in Nat /\ Cardinality(iowait) \in Nat
      /\ Cardinality(iowait') = Cardinality(iowait) + Bit(f \in iowait') - Bit(f \in iowait)
  BY <1>1, CountOne
<1>7. active' = Cardinality(Working') /\ active' \in Nat
  BY <1>3 DEF Counts, CountersExact
<1>8. idle' = Cardinality(Idling') /\ idle' \in Nat
  BY <1>4 DEF Counts, CountersExact
<1>9. \A b : Bit(b) \in {0, 1}
  BY DEF Bit
<1>10. pending' = Cardinality(iowait') + Cardinality(Triggering') /\ pending' \in Nat
  <2>1. pending = Cardinality(iowait) + Cardinality(Triggering)
    BY DEF CountersExact
  <2> QED
    BY <1>5, <1>6, <1>9, <2>1 DEF Counts
<1> QED
  BY <1>7, <1>8, <1>10 DEF CountersExact

LEMMA CountStays ==
    ASSUME CountersExact, UNCHANGED <<pc, cur, iowait, active, idle, pending>>
    PROVE  CountersExact'
BY DEF CountersExact, Working, Idling, Triggering, NoEntry, Entry
-----------------------------------------------------------------------------
(***************************************************************************)
(* Who looks at the queue.                                                 *)
(***************************************************************************)

Outside == {"main", "stop", "join", "done", "exit"}

\* A step of a thread that stays in Run() and goes on to look at the queue: what it
\* queues is for any thread or for itself, and it is only at checkActive, and its idle
\* fiber only ends, after it has found the queue empty during Stop().
Serves(t) ==
    /\ pc[t] \notin Outside /\ pc'[t] \notin Outside
    /\ pc'[t] = "dispatch" /\ t \in idleTerm' => cur'[t] # NoEntry
    /\ pc'[t] = "checkActive" => stopping /\ queue' = <<>>
    /\ idleTerm' = idleTerm \/ (idleTerm' = idleTerm \cup {t} /\ pc[t] = "checkActive" /\ Queued' = Queued)
    /\ \A e \in Queued' : e \in Queued \/ e.pin \in {None, cur[t].pin}
    /\ cur'[t].pin \in {None, cur[t].pin} \/ \E e \in Queued : e.pin = cur'[t].pin /\ e.pin \in {None, t}

LEMMA ServeStep ==
    ASSUME IInv, NEW t \in Threads, Moves(t), Serves(t), queue' \in Seq(Entries),
           UNCHANGED <<useCaller, stopping, switches>>
    PROVE  PlacesFit' /\ PinsStay' /\ QueueServed'
<1>1. t \in Workers \/ t = Caller
  BY DEF Threads
<1>2. /\ Caller \in Threads /\ Workers \subseteq Threads /\ Caller \notin Workers
      /\ None \notin Workers
  BY ThreadsAssumption, NoneAssumption DEF Threads
<1>3. PlacesFit'
  <2>1. idleTerm' = idleTerm \/ stopping
    BY DEF Serves, IInv, PlacesFit
  <2>2. pc[Caller] = "done" => pc'[Caller] = "done" /\ \A u \in Workers : pc'[u] = "exit"
    BY <1>1, <1>2 DEF Moves, Serves, IInv, PlacesFit, Outside
  <2>3. pc'[Caller] = "done" => pc[Caller] = "done"
    BY <1>1, <1>2 DEF Moves, Serves, Outside
  <2> QED
    BY <1>1, <1>2, <2>1, <2>2, <2>3 DEF Moves, Serves, IInv, PlacesFit, Outside
<1>4. PinsStay'
  <2> SUFFICES ASSUME switches = 0
               PROVE  /\ \A e \in Queued' : e.pin # None =>
                            /\ e.pin \in Workers /\ e.pin \notin idleTerm'
                            /\ pc'[e.pin] \notin {"exit", "checkActive"}
                      /\ \A u \in Threads : cur'[u].pin # None =>
                            u \in Workers /\ cur'[u].pin = u /\ u \notin idleTerm'
    BY DEF PinsStay
  <2>1. /\ \A e \in Queued : e.pin # None =>
             e.pin \in Workers /\ e.pin \notin idleTerm /\ pc[e.pin] \notin {"exit", "checkActive"}
        /\ \A u \in Threads : cur[u].pin # None =>
             u \in Workers /\ cur[u].pin = u /\ u \notin idleTerm
    BY DEF IInv, PinsStay
  <2>2. pc'[t] = "checkActive" => Queued' = {}
    BY SetOfQueue DEF Serves, Queued
  <2>3. idleTerm' # idleTerm => cur[t].pin = None
    BY DEF Serves, IInv, FiberInv, HandsFit, NoEntry, Entry
  <2>4. \A e \in Queued' : e.pin # None =>
             e.pin \in Workers /\ e.pin \notin idleTerm' /\ pc'[e.pin] \notin {"exit", "checkActive"}
    <3> SUFFICES ASSUME NEW e \in Queued', e.pin # None
                 PROVE  /\ e.pin \in Workers /\ e.pin \notin idleTerm'
                        /\ pc'[e.pin] \notin {"exit", "checkActive"}
      OBVIOUS
    <3>1. CASE e.pin = t
      <4>1. pc'[t] \notin {"exit", "checkActive"}
        BY <2>2 DEF Serves, Outside
      <4>2. t \in Workers /\ t \notin idleTerm /\ (e \in Queued => pc[t] # "checkActive")
        BY <3>1, <2>1 DEF Serves
      <4>3. t \notin idleTerm'
        BY <3>1, <4>2 DEF Serves
      <4> QED
        BY <3>1, <4>1, <4>2, <4>3
    <3>2. CASE e.pin # t
      <4>1. e \in Queued
        BY <3>2, <2>1 DEF Serves
      <4> QED
        BY <3>2, <4>1, <2>1, <1>2 DEF Serves, Moves
    <3> QED
      BY <3>1, <3>2
  <2>5. \A u \in Threads : cur'[u].pin # None =>
             u \in Workers /\ cur'[u].pin = u /\ u \notin idleTerm'
    <3> SUFFICES ASSUME NEW u \in Threads, cur'[u].pin # None
                 PROVE  u \in Workers /\ cur'[u].pin = u /\ u \notin idleTerm'
      OBVIOUS
    <3>1. CASE u # t
      BY <3>1, <2>1 DEF Serves, Moves
    <3>2. CASE u = t
      <4>1. cur'[t].pin = t /\ t \in Workers /\ t \notin idleTerm
        BY <3>2, <2>1 DEF Serves
      <4>2. idleTerm' = idleTerm
        <5>1. CASE cur'[t].pin = cur[t].pin
          BY <5>1, <2>3, <3>2
        <5>2. CASE \E e \in Queued : e.pin = cur'[t].pin
          BY <5>2, <2>1, <4>1, <1>2 DEF Serves
        <5> QED
          BY <5>1, <5>2, <3>2 DEF Serves
      <4> QED
        BY <3>2, <4>1, <4>2
    <3> QED
      BY <3>1, <3>2
  <2> QED
    BY <2>4, <2>5
<1>5. Alive(t)'
  BY DEF Serves, Alive, Outside
<1>6. QueueServed'
  BY <1>5 DEF QueueServed
<1> QED
  BY <1>3, <1>4, <1>6
-----------------------------------------------------------------------------
(***************************************************************************)
(* Every step keeps the invariant: first the steps of Run() and Idle().    *)
(***************************************************************************)

\* A step between two tasks: it moves a thread that has no entry.
Between(t) ==
    /\ UNCHANGED <<queue, fst, body, cur, cbf, iowait, jobs, runs, useCaller, stopping, switches>>
    /\ cur[t] = NoEntry /\ pc[t] \notin Outside \cup {"run", "back", "after"}
    /\ \E l \in Places \ (Outside \cup {"run", "back", "after", "dispatch"}) : pc' = [pc EXCEPT ![t] = l]

LEMMA BetweenInv ==
    ASSUME IInv, NEW t \in Threads, Between(t), TypeOK', CountersExact',
           pc'[t] = "checkActive" => stopping /\ queue = <<>>,
           idleTerm' = idleTerm \/ (idleTerm' = idleTerm \cup {t} /\ pc[t] = "checkActive")
    PROVE  IInv'
<1>1. Moves(t) /\ pc'[t] \notin Outside \cup {"run", "back", "after", "dispatch"}
  BY DEF Between, Moves, IInv, TypeOK
<1>2. FiberInv'
  BY <1>1, QuietFrame DEF Between, IInv, Moves
<1>3. Queued' = Queued /\ cur' = cur /\ queue' \in Seq(Entries)
  BY DEF Between, Queued, TypeOK
<1>4. Serves(t)
  BY <1>1, <1>3 DEF Serves, Between
<1>5. PlacesFit' /\ PinsStay' /\ QueueServed'
  BY <1>1, <1>3, <1>4, ServeStep DEF Between
<1> QED
  BY <1>2, <1>5 DEF IInv

LEMMA IdleStepInv ==
    ASSUME IInv, NEW t \in Threads,
           \/ CheckPending(t) \/ CheckQueue(t) \/ CheckActive(t)
           \/ EpollTickle(t) \/ EpollTimeout(t) \/ EventDone(t) \/ IdleOut(t)
    PROVE  IInv'
<1> USE DEF IInv
<1>1. pc[t] \in {"check", "checkQueue", "checkActive", "epoll", "triggered", "out"}
  BY DEF CheckPending, CheckQueue, CheckActive, EpollTickle, EpollTimeout, EventDone, IdleOut, At
<1>2. PICK l \in {"checkQueue", "epoll", "checkActive", "out", "take"} :
          /\ pc' = [pc EXCEPT ![t] = l]
          /\ l = "checkActive" => stopping /\ queue = <<>>
          /\ IF pc[t] = "triggered" THEN pending' = pending - 1 ELSE pending' = pending
          /\ IF pc[t] = "out" THEN l = "take" /\ idle' = idle - 1 ELSE l # "take" /\ idle' = idle
  BY DEF CheckPending, CheckQueue, CheckActive, EpollTickle, EpollTimeout, EventDone, IdleOut, At,
         Goto, ioVars
<1>3. /\ UNCHANGED <<queue, fst, body, cur, cbf, iowait, ready, jobs, runs, useCaller, stopping,
                     switches, yields, tickles, active, owe>>
      /\ edge' \in BOOLEAN
      /\ idleTerm' = idleTerm \/ (idleTerm' = idleTerm \cup {t} /\ pc[t] = "checkActive")
  BY DEF CheckPending, CheckQueue, CheckActive, EpollTickle, EpollTimeout, EventDone, IdleOut, At,
         ioVars, stopVars, jobVars, TypeOK
<1>4. cur[t] = NoEntry
  BY <1>1 DEF FiberInv, HandsFit
<1>5. pc'[t] = l /\ Moves(t)
  BY <1>2, <1>3 DEF Moves, TypeOK
<1>6. Counts(t, 0)
  <2>1. active' = active + Bit(t \in Working') - Bit(t \in Working)
    BY <1>1, <1>2, <1>3, <1>5 DEF Working, Bit, TypeOK
  <2>2. idle' = idle + Bit(t \in Idling') - Bit(t \in Idling)
    BY <1>1, <1>2, <1>5 DEF Idling, Bit, TypeOK
  <2>3. pending' = pending + Bit(t \in Triggering') - Bit(t \in Triggering)
    BY <1>1, <1>2, <1>5 DEF Triggering, Bit, TypeOK
  <2>4. Bit(0 \in iowait') = Bit(0 \in iowait) /\ Bit(0 \in iowait) \in {0, 1}
        /\ Bit(t \in Triggering') \in {0, 1} /\ Bit(t \in Triggering) \in {0, 1} /\ pending \in Nat
    BY <1>3 DEF Bit, TypeOK
  <2>5. pending' = pending + Bit(0 \in iowait') - Bit(0 \in iowait)
                          + Bit(t \in Triggering') - Bit(t \in Triggering)
    BY ONLY <2>3, <2>4
  <2> QED
    BY <2>1, <2>2, <2>5 DEF Counts
<1>7. CountersExact' /\ active' \in Nat /\ idle' \in Nat /\ pending' \in Nat
  BY <1>3, <1>5, <1>6, CountStep
<1>8. TypeOK'
  BY <1>2, <1>3, <1>7 DEF TypeOK, Places
<1>9. Between(t)
  BY <1>1, <1>2, <1>3, <1>4 DEF Between, Places, Outside
<1> QED
  BY <1>2, <1>3, <1>5, <1>7, <1>8, <1>9, BetweenInv

LEMMA TickleInv ==
    ASSUME IInv, NEW t \in Threads, Tickle(t)
    PROVE  IInv'
<1> USE DEF IInv
<1>1. /\ UNCHANGED <<queue, fst, body, pc, cur, cbf, idleTerm, active, idle, iowait, ready, pending,
                     useCaller, stopping, tickles, jobs, runs, yields, switches>>
      /\ owe' = [owe EXCEPT ![t] = FALSE] /\ edge' \in BOOLEAN
  BY DEF Tickle, ioVars, stopVars, jobVars, TypeOK
<1>2. TypeOK'
  BY <1>1 DEF TypeOK
<1>3. FiberInv' /\ CountersExact'
  BY <1>1, QuietFrame, CountStays
<1>4. PlacesFit' /\ PinsStay' /\ QueueServed'
  BY <1>1 DEF PlacesFit, PinsStay, QueueServed, Alive, Queued
<1> QED
  BY <1>2, <1>3, <1>4

\* Run() finds nothing it may take: whatever is in the queue is another living thread's,
\* or a fiber some thread still executes.
LEMMA TakeNothingInv ==
    ASSUME IInv, NEW t \in Threads, Take(t), \A i \in 1..Len(queue) : ~Eligible(t, queue[i])
    PROVE  IInv'
<1> USE DEF IInv
<1>1. /\ pc[t] = "take" /\ pc' = [pc EXCEPT ![t] = "dispatch"]
      /\ cur' = [cur EXCEPT ![t] = NoEntry] /\ owe' = [owe EXCEPT ![t] = queue # <<>>]
      /\ UNCHANGED <<queue, active, fst, body, cbf, idleTerm, idle, edge, iowait, ready, pending,
                     useCaller, stopping, tickles, jobs, runs, yields, switches>>
  BY DEF Take, At, Goto, ioVars, stopVars, jobVars
<1>2. cur[t] = NoEntry /\ cur' = cur
  BY <1>1 DEF FiberInv, HandsFit, TypeOK
<1>3. pc'[t] = "dispatch" /\ Moves(t)
  BY <1>1, <1>2 DEF Moves, TypeOK
<1>4. TypeOK'
  BY <1>1, <1>2 DEF TypeOK, Places
<1>5. FiberInv'
  <2>1. \A u \in Threads : \/ pc'[u] = pc[u]
                           \/ /\ cur[u] = NoEntry /\ pc[u] \notin {"run", "back", "after"}
                              /\ pc'[u] \notin {"run", "back", "after"}
    BY <1>1, <1>2, <1>3 DEF Moves
  <2> QED
    BY <1>1, <1>2, <2>1, QuietFrame
<1>6. CountersExact'
  <2>1. Working' = Working /\ Idling' = Idling /\ Triggering' = Triggering
    BY <1>1, <1>2, <1>3 DEF Moves, Working, Idling, Triggering
  <2> QED
    BY <1>1, <2>1 DEF CountersExact
<1>7. Caller \in Threads /\ Workers \subseteq Threads /\ Caller \notin Workers
  BY ThreadsAssumption DEF Threads
<1>8. PlacesFit'
  BY <1>1, <1>3, <1>7 DEF PlacesFit, Moves
<1>9. PinsStay'
  BY <1>1, <1>2, <1>3, <1>7 DEF PinsStay, Moves, Queued
<1>10. QueueServed'
  <2> SUFFICES ASSUME switches = 0, queue # <<>>, t \in idleTerm
               PROVE  \E u \in Threads : Alive(u)'
    BY <1>1, <1>3 DEF QueueServed, Alive
  <2>1. PICK e : e = queue[1] /\ e \in Queued /\ e \in Entries /\ ~Eligible(t, e)
    <3>1. 1 \in 1..Len(queue)
      BY DEF TypeOK
    <3> QED
      BY <3>1, RemoveSet DEF Queued, TypeOK
  <2>2. CASE e.pin \notin {None, t}
    <3>1. e.pin \in Workers /\ e.pin \notin idleTerm /\ pc[e.pin] # "exit" /\ e.pin # t
      BY <2>1, <2>2 DEF PinsStay
    <3>2. Alive(e.pin)'
      BY <3>1, <1>1, <1>3, <1>7 DEF Alive, PlacesFit, Moves
    <3> QED
      BY <3>1, <3>2, <1>7
  <2>3. CASE e.pin \in {None, t}
    <3>1. e.fiber # None /\ fst[e.fiber] = "EXEC" /\ e.fiber \in Fibers
      BY <2>1, <2>3 DEF Eligible, Entries
    <3>2. PICK u \in Threads : u \in Busy
      BY <3>1 DEF FiberInv, StatusFits
    <3>3. Alive(u)'
      BY <3>2, <1>1, <1>3 DEF Busy, Alive, Moves
    <3> QED
      BY <3>3
  <2> QED
    BY <2>2, <2>3
<1> QED
  BY <1>4, <1>5, <1>6, <1>8, <1>9, <1>10

LEMMA TakeEntryInv ==
    ASSUME IInv, NEW t \in Threads, Take(t), NEW k \in 1..Len(queue), Eligible(t, queue[k])
    PROVE  IInv'
<1> USE DEF IInv
<1> DEFINE ok == {i \in 1..Len(queue) : Eligible(t, queue[i])}
           first == CHOOSE i \in ok : \A m \in ok : i <= m
<1>1. /\ pc[t] = "take" /\ Goto(t, "dispatch")
      /\ UNCHANGED <<fst, body, cbf, idleTerm, idle, edge, iowait, ready, pending,
                     useCaller, stopping, tickles, jobs, runs, yields, switches>>
  BY DEF Take, At, ioVars, stopVars, jobVars
<1>2. /\ cur' = [cur EXCEPT ![t] = queue[first]] /\ queue' = RemoveAt(queue, first)
      /\ active' = active + 1
  BY DEF Take
<1>3. first \in 1..Len(queue) /\ Eligible(t, queue[first])
  <2>1. Len(queue) \in Nat
    BY DEF TypeOK
  <2>2. \E i \in ok : \A m \in ok : i <= m
    <3>1. ok # {} /\ ok \subseteq Nat
      BY <2>1
    <3> HIDE DEF ok
    <3> QED
      BY <3>1, SmallestOf
  <2> QED
    BY <2>2
<1> HIDE DEF first
<1>4. FiberInv' /\ queue' \in Seq(Entries) /\ queue[first] \in Queued /\ queue[first] \in Entries
      /\ Queued' \subseteq Queued
  BY <1>1, <1>2, <1>3, TakeFiberInv
<1>5. pc'[t] = "dispatch" /\ cur'[t] = queue[first] /\ Moves(t)
  BY <1>1, <1>2 DEF Goto, Moves, TypeOK
<1>6. queue[first] # NoEntry
  BY <1>4 DEF FiberInv, QueueFits, NoEntry, Entry
<1>7. Counts(t, 0)
  <2>1. active' = active + Bit(t \in Working') - Bit(t \in Working)
    <3>1. t \in Working' /\ t \notin Working
      BY <1>1, <1>5, <1>6 DEF Working, NoEntry, Entry
    <3> QED
      BY <3>1, <1>2 DEF Bit, TypeOK
  <2>2. idle' = idle + Bit(t \in Idling') - Bit(t \in Idling)
    BY <1>1, <1>5 DEF Idling, Bit, TypeOK
  <2>3. pending' = pending + Bit(0 \in iowait') - Bit(0 \in iowait)
                          + Bit(t \in Triggering') - Bit(t \in Triggering)
    <3>1. (t \in Triggering') = FALSE /\ (t \in Triggering) = FALSE /\ iowait' = iowait
      BY <1>1, <1>5 DEF Triggering
    <3> QED
      BY <3>1, <1>1 DEF Bit, TypeOK
  <2> QED
    BY <2>1, <2>2, <2>3 DEF Counts
<1>8. CountersExact' /\ active' \in Nat
  BY <1>1, <1>5, <1>7, CountStep
<1>9. TypeOK'
  <2>1. owe' \in [Threads -> BOOLEAN]
    BY DEF Take, TypeOK
  <2>2. pc' \in [Threads -> Places] /\ cur' \in [Threads -> Entries]
    BY <1>1, <1>2, <1>4 DEF Goto, TypeOK, Places
  <2>3. /\ queue' \in Seq(Entries) /\ active' \in Nat
        /\ UNCHANGED <<useCaller, stopping, edge, fst, body, cbf, idleTerm, idle, pending, tickles,
                       yields, switches, ready, iowait, jobs, runs>>
    BY <1>1, <1>4, <1>8
  <2> QED
    BY <2>1, <2>2, <2>3 DEF TypeOK
<1>10. Serves(t)
  <2>1. \E e \in Queued : e.pin = cur'[t].pin /\ e.pin \in {None, t}
    BY <1>3, <1>4, <1>5 DEF Eligible
  <2> QED
    BY <1>1, <1>4, <1>5, <1>6, <2>1 DEF Serves, Outside
<1>11. PlacesFit' /\ PinsStay' /\ QueueServed'
  BY <1>1, <1>4, <1>5, <1>10, ServeStep
<1> QED
  BY <1>4, <1>8, <1>9, <1>11

LEMMA TakeInv ==
    ASSUME IInv, NEW t \in Threads, Take(t)
    PROVE  IInv'
BY TakeNothingInv, TakeEntryInv

\* No task: into the idle fiber, or out of Run() when it has ended.
LEMMA NoTaskInv ==
    ASSUME IInv, NEW t \in Threads, NoTask(t)
    PROVE  IInv'
<1> USE DEF IInv
<1>1. /\ pc[t] = "dispatch" /\ cur[t] = NoEntry
      /\ UNCHANGED <<queue, fst, body, cur, cbf, owe, idleTerm, active, edge, iowait, ready, pending,
                     useCaller, stopping, tickles, jobs, runs, yields, switches>>
  BY DEF NoTask, At, ioVars, stopVars, jobVars
<1>2. CASE t \notin idleTerm
  <2>1. pc' = [pc EXCEPT ![t] = "check"] /\ idle' = idle + 1
    BY <1>2 DEF NoTask, Goto
  <2>2. pc'[t] = "check" /\ Moves(t)
    BY <1>1, <2>1 DEF Moves, TypeOK
  <2>3. Counts(t, 0)
    <3>1. active' = active + Bit(t \in Working') - Bit(t \in Working)
      BY <1>1, <2>2 DEF Working, Bit, TypeOK
    <3>2. idle' = idle + Bit(t \in Idling') - Bit(t \in Idling)
      BY <1>1, <2>1, <2>2 DEF Idling, Bit, TypeOK
    <3>3. (t \in Triggering') = FALSE /\ (t \in Triggering) = FALSE /\ iowait' = iowait
      BY <1>1, <2>2 DEF Triggering
    <3> QED
      BY <1>1, <3>1, <3>2, <3>3 DEF Counts, Bit, TypeOK
  <2>4. CountersExact' /\ idle' \in Nat
    BY <1>1, <2>2, <2>3, CountStep
  <2>5. TypeOK'
    BY <1>1, <2>1, <2>4 DEF TypeOK, Places
  <2>6. Between(t)
    BY <1>1, <2>1 DEF Between, Places, Outside
  <2> QED
    BY <1>1, <2>2, <2>4, <2>5, <2>6, BetweenInv
<1>3. CASE t \in idleTerm
  <2>1. /\ pc' = [pc EXCEPT ![t] = IF t = Caller THEN "join" ELSE "exit"] /\ idle' = idle
    BY <1>3 DEF NoTask, Goto
  <2>2. pc'[t] = (IF t = Caller THEN "join" ELSE "exit") /\ \A u \in Threads \ {t} : pc'[u] = pc[u]
    BY <2>1 DEF TypeOK
  <2>3. TypeOK'
    BY <1>1, <2>1 DEF TypeOK, Places
  <2>4. FiberInv'
    <3>1. \A u \in Threads : \/ pc'[u] = pc[u]
                             \/ /\ cur[u] = NoEntry /\ pc[u] \notin {"run", "back", "after"}
                                /\ pc'[u] \notin {"run", "back", "after"}
      BY <1>1, <2>2
    <3> QED
      BY <1>1, <3>1, QuietFrame
  <2>5. CountersExact'
    <3>1. Working' = Working /\ Idling' = Idling /\ Triggering' = Triggering
      BY <1>1, <2>2 DEF Working, Idling, Triggering
    <3> QED
      BY <1>1, <2>1, <3>1 DEF CountersExact
  <2>6. Caller \in Threads /\ Workers \subseteq Threads /\ Caller \notin Workers /\ None \notin Threads
        /\ (t \in Workers \/ t = Caller)
    BY ThreadsAssumption, NoneAssumption DEF Threads
  <2>7. PlacesFit'
    BY <1>1, <1>3, <2>2, <2>6 DEF PlacesFit
  <2>8. PinsStay'
    BY <1>1, <1>3, <2>2, <2>6 DEF PinsStay, Queued
  <2>9. QueueServed'
    <3>1. ~Alive(t)
      BY <1>1, <1>3 DEF Alive
    <3>2. \A u \in Threads : Alive(u) => Alive(u)'
      BY <3>1, <1>1, <2>2 DEF Alive
    <3>3. pc[Caller] \in {"main", "stop"} => pc'[Caller] \in {"main", "stop"}
      BY <1>1, <2>2, <2>6
    <3> QED
      BY <1>1, <3>2, <3>3 DEF QueueServed
  <2> QED
    BY <2>3, <2>4, <2>5, <2>7, <2>8, <2>9
<1> QED
  BY <1>2, <1>3

\* SwapIn() and what follows the return of the task.
LEMMA SwapInInv ==
    ASSUME IInv, NEW t \in Threads, SwapInFiber(t) \/ SwapInCallback(t)
    PROVE  IInv'
<1> USE DEF IInv
<1>1. /\ pc[t] = "dispatch" /\ pc' = [pc EXCEPT ![t] = "run"] /\ cur[t] # NoEntry
      /\ UNCHANGED <<queue, cur, owe, idleTerm, active, idle, edge, iowait, ready, pending,
                     useCaller, stopping, tickles, yields, switches>>
  BY DEF SwapInFiber, SwapInCallback, At, Goto, ioVars, stopVars, jobVars, NoEntry, Entry
<1>2. FiberInv'
  BY SwapInFiberInv, SwapInCallbackInv
<1>3. pc'[t] = "run" /\ Moves(t)
  BY <1>1 DEF Moves, TypeOK
<1>4. Queued' = Queued /\ queue' \in Seq(Entries)
  BY <1>1 DEF Queued, TypeOK
<1>5. CountersExact'
  <2>1. Working' = Working /\ Idling' = Idling /\ Triggering' = Triggering
    BY <1>1, <1>3 DEF Moves, Working, Idling, Triggering
  <2> QED
    BY <1>1, <2>1 DEF CountersExact
<1>6. TypeOK'
  <2>1. /\ fst' \in [Fibers -> {"FREE", "INIT", "EXEC", "HOLD", "READY", "TERM"}]
        /\ body' \in [Fibers -> Jobs \cup {None}] /\ cbf' \in [Threads -> Fibers \cup {None}]
        /\ jobs' \in [Jobs -> {"new", "queued", "started", "done"}] /\ runs' \in [Jobs -> Nat]
    <3>1. CASE SwapInFiber(t)
      BY <3>1 DEF SwapInFiber, jobVars, TypeOK
    <3>2. CASE SwapInCallback(t)
      <4>1. cur[t].job \in Jobs \cup {None}
        BY DEF TypeOK, Entries
      <4> QED
        BY <3>2, <4>1, SwapInCallbackInv DEF SwapInCallback, TypeOK
    <3> QED
      BY <3>1, <3>2
  <2> QED
    BY <1>1, <2>1 DEF TypeOK, Places
<1>7. Serves(t)
  BY <1>1, <1>3, <1>4 DEF Serves, Outside
<1>8. PlacesFit' /\ PinsStay' /\ QueueServed'
  BY <1>1, <1>3, <1>4, <1>7, ServeStep
<1> QED
  BY <1>2, <1>5, <1>6, <1>8

LEMMA BackStepInv ==
    ASSUME IInv, NEW t \in Threads, Back(t)
    PROVE  IInv'
<1> USE DEF IInv
<1>1. /\ pc[t] = "back" /\ pc' = [pc EXCEPT ![t] = "after"] /\ active' = active - 1
      /\ UNCHANGED <<queue, fst, body, cur, cbf, owe, idleTerm, idle, edge, iowait, ready, pending,
                     useCaller, stopping, tickles, jobs, runs, yields, switches>>
  BY DEF Back, At, Goto, ioVars, stopVars, jobVars
<1>2. FiberInv'
  BY BackInv
<1>3. pc'[t] = "after" /\ Moves(t)
  BY <1>1 DEF Moves, TypeOK
<1>4. Counts(t, 0)
  <2>1. active' = active + Bit(t \in Working') - Bit(t \in Working)
    BY <1>1, <1>3 DEF Working, Bit, TypeOK
  <2>2. idle' = idle + Bit(t \in Idling') - Bit(t \in Idling)
    BY <1>1, <1>3 DEF Idling, Bit, TypeOK
  <2>3. (t \in Triggering') = FALSE /\ (t \in Triggering) = FALSE /\ iowait' = iowait
    BY <1>1, <1>3 DEF Triggering
  <2> QED
    BY <1>1, <2>1, <2>2, <2>3 DEF Counts, Bit, TypeOK
<1>5. CountersExact' /\ active' \in Nat
  BY <1>1, <1>3, <1>4, CountStep
<1>6. TypeOK'
  BY <1>1, <1>5 DEF TypeOK, Places
<1>7. Queued' = Queued /\ queue' \in Seq(Entries)
  BY <1>1 DEF Queued, TypeOK
<1>8. Serves(t)
  BY <1>1, <1>3, <1>7 DEF Serves, Outside
<1>9. PlacesFit' /\ PinsStay' /\ QueueServed'
  BY <1>1, <1>3, <1>7, <1>8, ServeStep
<1> QED
  BY <1>2, <1>5, <1>6, <1>9

LEMMA AfterStepInv ==
    ASSUME IInv, NEW t \in Threads, AfterFiber(t) \/ AfterCallback(t)
    PROVE  IInv'
<1> USE DEF IInv
<1>1. /\ pc[t] = "after" /\ pc' = [pc EXCEPT ![t] = "take"] /\ cur' = [cur EXCEPT ![t] = NoEntry]
      /\ UNCHANGED <<body, idleTerm, active, idle, edge, iowait, ready, pending,
                     useCaller, stopping, tickles, jobs, runs, yields, switches>>
  BY DEF AfterFiber, AfterCallback, At, Goto, ioVars, stopVars, jobVars
<1>2. /\ FiberInv' /\ queue' \in Seq(Entries) /\ OnCpu(t) \in Fibers
      /\ Queued' \subseteq Queued \cup {Entry(None, OnCpu(t), cur[t].pin)}
  BY AfterInv
<1>3. pc'[t] = "take" /\ Moves(t) /\ cur'[t] = NoEntry
  BY <1>1 DEF Moves, TypeOK
<1>4. CountersExact'
  <2>1. Working' = Working /\ Idling' = Idling /\ Triggering' = Triggering
    BY <1>1, <1>3 DEF Moves, Working, Idling, Triggering
  <2> QED
    BY <1>1, <2>1 DEF CountersExact
<1>5. TypeOK'
  <2>1. /\ fst' \in [Fibers -> {"FREE", "INIT", "EXEC", "HOLD", "READY", "TERM"}]
        /\ cbf' \in [Threads -> Fibers \cup {None}] /\ owe' \in [Threads -> BOOLEAN]
    BY DEF AfterFiber, AfterCallback, Schedule, TypeOK
  <2>2. NoEntry \in Entries
    BY DEF NoEntry, Entry, Entries
  <2> QED
    BY <1>1, <1>2, <2>1, <2>2 DEF TypeOK, Places
<1>6. Serves(t)
  <2>1. \A e \in Queued' : e \in Queued \/ e.pin \in {None, cur[t].pin}
    BY <1>2 DEF Entry
  <2>2. cur'[t].pin = None
    BY <1>3 DEF NoEntry, Entry
  <2> QED
    BY <1>1, <1>3, <2>1, <2>2 DEF Serves, Outside
<1>7. PlacesFit' /\ PinsStay' /\ QueueServed'
  BY <1>1, <1>2, <1>3, <1>6, ServeStep
<1> QED
  BY <1>2, <1>4, <1>5, <1>7

\* epoll_wait reports an event: its fiber is queued, and not yet counted off.
LEMMA EpollEventStepInv ==
    ASSUME IInv, NEW t \in Threads, NEW f \in Fibers, EpollEvent(t, f)
    PROVE  IInv'
<1> USE DEF IInv
<1>1. /\ pc[t] = "epoll" /\ pc' = [pc EXCEPT ![t] = "triggered"]
      /\ iowait' = iowait \ {f} /\ ready' = ready \ {f}
      /\ UNCHANGED <<fst, body, cur, cbf, idleTerm, active, idle, edge, pending,
                     useCaller, stopping, tickles, jobs, runs, yields, switches>>
  BY DEF EpollEvent, At, Goto, stopVars, jobVars
<1>2. FiberInv' /\ queue' \in Seq(Entries) /\ f \in iowait /\ Queued' = Queued \cup {Entry(None, f, None)}
  BY EpollEventInv
<1>3. pc'[t] = "triggered" /\ Moves(t)
  BY <1>1 DEF Moves, TypeOK
<1>4. Counts(t, f)
  <2>1. active' = active + Bit(t \in Working') - Bit(t \in Working)
    BY <1>1, <1>3 DEF Working, Bit, TypeOK
  <2>2. idle' = idle + Bit(t \in Idling') - Bit(t \in Idling)
    BY <1>1, <1>3 DEF Idling, Bit, TypeOK
  <2>3. /\ Bit(t \in Triggering') = 1 /\ Bit(t \in Triggering) = 0
        /\ Bit(f \in iowait') = 0 /\ Bit(f \in iowait) = 1
    BY <1>1, <1>2, <1>3 DEF Triggering, Bit
  <2> QED
    BY <1>1, <2>1, <2>2, <2>3 DEF Counts, TypeOK
<1>5. CountersExact'
  BY <1>1, <1>3, <1>4, CountStep
<1>6. TypeOK'
  <2>1. owe' \in [Threads -> BOOLEAN]
    BY DEF EpollEvent, Schedule, TypeOK
  <2> QED
    BY <1>1, <1>2, <2>1 DEF TypeOK, Places
<1>7. Serves(t)
  <2>1. \A e \in Queued' : e \in Queued \/ e.pin \in {None, cur[t].pin}
    BY <1>2 DEF Entry
  <2> QED
    BY <1>1, <1>3, <2>1 DEF Serves, Outside
<1>8. PlacesFit' /\ PinsStay' /\ QueueServed'
  BY <1>1, <1>2, <1>3, <1>7, ServeStep
<1> QED
  BY <1>2, <1>5, <1>6, <1>8

LEMMA RunStepInv ==
    ASSUME IInv, NEW t \in Threads, RunStep(t)
    PROVE  IInv'
BY TickleInv, TakeInv, SwapInInv, NoTaskInv, BackStepInv, AfterStepInv, IdleStepInv,
   EpollEventStepInv DEF RunStep, EpollReturn
-----------------------------------------------------------------------------
(***************************************************************************)
(* The steps of tasks, of the kernel and of the caller.                    *)
(***************************************************************************)

\* A task gives the thread back: it has armed an event, yielded, or ended.
LEMMA LeaveStepInv ==
    ASSUME IInv, NEW t \in Threads, WaitIO(t) \/ YieldToReady(t) \/ Finish(t)
    PROVE  IInv'
<1> USE DEF IInv
<1>1. /\ pc[t] = "run" /\ pc' = [pc EXCEPT ![t] = "back"]
      /\ UNCHANGED <<queue, cur, cbf, owe, idleTerm, active, idle, edge, ready,
                     useCaller, stopping, tickles, runs, switches>>
      /\ yields' \in Nat
  BY DEF WaitIO, YieldToReady, Finish, MayYield, At, Goto, ioVars, stopVars, TypeOK
<1>2. FiberInv' /\ OnCpu(t) \in Fibers /\ JobOn(t) \in Jobs
  <2>1. JobOn(t) \in Jobs
    <3>1. t \in Busy
      BY <1>1 DEF Busy
    <3>2. OnCpu(t) \in Fibers
      BY <3>1, OnCpuOwn
    <3> QED
      BY <1>1, <3>2 DEF FiberInv, HeldFits, BodiesFit, JobOn, TypeOK
  <2> QED
    BY <2>1, WaitIOInv, YieldInv
<1>3. pc'[t] = "back" /\ Moves(t)
  BY <1>1 DEF Moves, TypeOK
<1>4. \/ iowait' = iowait /\ pending' = pending
      \/ iowait' = iowait \cup {OnCpu(t)} /\ OnCpu(t) \notin iowait /\ pending' = pending + 1
  <2>1. CASE WaitIO(t)
    BY <2>1, WaitIOInv DEF WaitIO
  <2>2. CASE ~WaitIO(t)
    BY <2>2 DEF YieldToReady, Finish, ioVars
  <2> QED
    BY <2>1, <2>2
<1>5. Counts(t, OnCpu(t))
  <2>1. active' = active + Bit(t \in Working') - Bit(t \in Working)
    BY <1>1, <1>3 DEF Working, Bit, TypeOK
  <2>2. idle' = idle + Bit(t \in Idling') - Bit(t \in Idling)
    BY <1>1, <1>3 DEF Idling, Bit, TypeOK
  <2>3. Bit(t \in Triggering') = 0 /\ Bit(t \in Triggering) = 0
    BY <1>1, <1>3 DEF Triggering, Bit
  <2>4. pending' = pending + Bit(OnCpu(t) \in iowait') - Bit(OnCpu(t) \in iowait)
    BY <1>4 DEF Bit, TypeOK
  <2>5. pending \in Nat /\ Bit(OnCpu(t) \in iowait') \in {0, 1} /\ Bit(OnCpu(t) \in iowait) \in {0, 1}
    BY DEF Bit, TypeOK
  <2>6. pending' = pending + Bit(OnCpu(t) \in iowait') - Bit(OnCpu(t) \in iowait)
                          + Bit(t \in Triggering') - Bit(t \in Triggering)
    BY ONLY <2>3, <2>4, <2>5
  <2> QED
    BY <2>1, <2>2, <2>6 DEF Counts
<1>6. CountersExact' /\ pending' \in Nat
  <2>1. iowait' \ {OnCpu(t)} = iowait \ {OnCpu(t)}
    BY <1>4
  <2> QED
    BY <1>3, <1>5, <2>1, CountStep
<1>7. TypeOK'
  <2>1. /\ fst' \in [Fibers -> {"FREE", "INIT", "EXEC", "HOLD", "READY", "TERM"}]
        /\ body' \in [Fibers -> Jobs \cup {None}]
        /\ jobs' \in [Jobs -> {"new", "queued", "started", "done"}]
    BY <1>2 DEF WaitIO, YieldToReady, Finish, TypeOK
  <2> QED
    BY <1>1, <1>2, <1>4, <1>6, <2>1 DEF TypeOK, Places
<1>8. Queued' = Queued /\ queue' \in Seq(Entries)
  BY <1>1 DEF Queued, TypeOK
<1>9. Serves(t)
  BY <1>1, <1>3, <1>8 DEF Serves, Outside
<1>10. PlacesFit' /\ PinsStay' /\ QueueServed'
  BY <1>1, <1>3, <1>8, <1>9, ServeStep
<1> QED
  BY <1>2, <1>6, <1>7, <1>10

\* SwitchTo(): from now on switches > 0, and what is said of the pins no longer applies.
LEMMA SwitchToStepInv ==
    ASSUME IInv, NEW t \in Threads, NEW p \in Pins, SwitchTo(t, p)
    PROVE  IInv'
<1> USE DEF IInv
<1>1. /\ pc[t] = "run" /\ pc' = [pc EXCEPT ![t] = "back"] /\ switches' = switches + 1
      /\ UNCHANGED <<fst, body, cur, cbf, idleTerm, active, idle, edge, iowait, ready, pending,
                     useCaller, stopping, tickles, jobs, runs, yields>>
  BY DEF SwitchTo, At, Goto, ioVars, stopVars
<1>2. FiberInv' /\ queue' \in Seq(Entries)
  BY SwitchToInv
<1>3. pc'[t] = "back" /\ Moves(t)
  BY <1>1 DEF Moves, TypeOK
<1>4. CountersExact'
  <2>1. Working' = Working /\ Idling' = Idling /\ Triggering' = Triggering
    BY <1>1, <1>3 DEF Moves, Working, Idling, Triggering
  <2> QED
    BY <1>1, <2>1 DEF CountersExact
<1>5. TypeOK'
  <2>1. owe' \in [Threads -> BOOLEAN]
    BY DEF SwitchTo, Schedule, TypeOK
  <2>2. switches' \in Nat
    BY <1>1 DEF TypeOK
  <2>3. pc' \in [Threads -> Places] /\ queue' \in Seq(Entries)
    BY <1>1, <1>2 DEF TypeOK, Places
  <2>4. UNCHANGED <<fst, body, cur, cbf, idleTerm, active, idle, edge, iowait, ready, pending,
                    useCaller, stopping, tickles, jobs, runs, yields>>
    BY <1>1
  <2> QED
    BY <2>1, <2>2, <2>3, <2>4 DEF TypeOK
<1>6. PlacesFit'
  <2>1. Caller \in Threads /\ Workers \subseteq Threads /\ Caller \notin Workers
        /\ (t \in Workers \/ t = Caller)
    BY ThreadsAssumption DEF Threads
  <2> QED
    BY <1>1, <1>3, <2>1 DEF PlacesFit, Moves
<1>7. PinsStay' /\ QueueServed'
  <2>1. switches' # 0
    BY <1>1 DEF TypeOK
  <2> QED
    BY <2>1 DEF PinsStay, QueueServed
<1> QED
  BY <1>2, <1>4, <1>5, <1>6, <1>7

\* Schedule() of a callback: by a task, for any thread, or by the caller before Stop().
LEMMA SubmitStepInv ==
    ASSUME IInv, NEW t \in Threads, NEW j \in Jobs, NEW p \in Pins, Submit(t, j, p),
           (pc[t] = "run" /\ p = None) \/ (t = Caller /\ pc[t] = "main")
    PROVE  IInv'
<1> USE DEF IInv
<1>1. /\ jobs' = [jobs EXCEPT ![j] = "queued"] /\ owe' = [owe EXCEPT ![t] = queue = <<>>]
      /\ UNCHANGED <<fst, body, pc, cur, cbf, idleTerm, active, idle, edge, iowait, ready, pending,
                     useCaller, stopping, tickles, runs, yields, switches>>
  BY DEF Submit, Schedule, ioVars, stopVars
<1>2. Caller \in Threads /\ Workers \subseteq Threads /\ Caller \notin Workers /\ Spare \in Workers
      /\ p \in Threads \cup {None} /\ p # Spare
  BY ThreadsAssumption, NoneAssumption DEF Threads, Pins
<1>3. FiberInv' /\ queue' \in Seq(Entries) /\ Queued' = Queued \cup {Entry(j, None, p)}
  BY <1>2, SubmitInv
<1>4. TypeOK'
  BY <1>1, <1>3 DEF TypeOK
<1>5. CountersExact'
  BY <1>1, CountStays
<1>6. PlacesFit'
  BY <1>1 DEF PlacesFit
<1>7. PinsStay'
  <2>1. p # None => /\ p \in Workers /\ p \notin idleTerm /\ pc[p] \notin {"exit", "checkActive"}
    BY <1>2 DEF PlacesFit, Pins
  <2>2. \A e \in Queued' : e \in Queued \/ e.pin = p
    BY <1>3 DEF Entry
  <2> QED
    BY <1>1, <2>1, <2>2 DEF PinsStay
<1>8. QueueServed'
  <2>1. CASE pc[t] = "run"
    <3>1. Alive(t)'
      BY <1>1, <2>1 DEF Alive
    <3> QED
      BY <3>1 DEF QueueServed
  <2>2. CASE t = Caller /\ pc[t] = "main" /\ ~useCaller
    <3>1. Alive(Spare)'
      BY <1>1, <1>2, <2>2 DEF Alive, PlacesFit
    <3> QED
      BY <3>1, <1>2 DEF QueueServed
  <2>3. CASE t = Caller /\ pc[t] = "main" /\ useCaller
    BY <1>1, <2>3 DEF QueueServed
  <2> QED
    BY <2>1, <2>2, <2>3
<1> QED
  BY <1>3, <1>4, <1>5, <1>6, <1>7, <1>8

LEMMA TaskStepInv ==
    ASSUME IInv, NEW t \in Threads, TaskStep(t)
    PROVE  IInv'
<1>1. ASSUME NEW j \in ChildJobs, SubmitChild(t, j) PROVE IInv'
  <2>1. j \in Jobs /\ None \in Pins
    BY DEF Jobs, Pins
  <2>2. Submit(t, j, None) /\ pc[t] = "run"
    BY <1>1 DEF SubmitChild, At
  <2> QED
    BY <2>1, <2>2, SubmitStepInv
<1> QED
  BY <1>1, LeaveStepInv, SwitchToStepInv DEF TaskStep

LEMMA BecomeReadyInv ==
    ASSUME IInv, NEW f \in Fibers, BecomeReady(f)
    PROVE  IInv'
<1> USE DEF IInv
<1>1. /\ UNCHANGED <<queue, fst, body, pc, cur, cbf, owe, idleTerm, active, idle, edge, iowait, pending,
                     useCaller, stopping, tickles, jobs, runs, yields, switches>>
      /\ ready' = ready \cup {f} /\ f \in iowait
  BY DEF BecomeReady, stopVars, jobVars
<1>2. TypeOK'
  BY <1>1 DEF TypeOK
<1>3. FiberInv' /\ CountersExact'
  BY <1>1, QuietFrame, CountStays
<1>4. PlacesFit' /\ PinsStay' /\ QueueServed'
  BY <1>1 DEF PlacesFit, PinsStay, QueueServed, Alive, Queued
<1> QED
  BY <1>2, <1>3, <1>4

LEMMA StopStepInv ==
    ASSUME IInv, StopBegin \/ StopStep
    PROVE  IInv'
<1> USE DEF IInv
<1>1. /\ pc[Caller] \in {"main", "stop", "join"}
      /\ UNCHANGED <<useCaller, queue, fst, body, cur, cbf, idleTerm, active, idle, edge,
                     iowait, ready, pending, jobs, runs, yields, switches>>
  BY DEF StopBegin, StopStep, StopTickle, StopRun, StopJoin, At, ioVars, stopVars, jobVars
<1>2. Caller \in Threads /\ Workers \subseteq Threads /\ Caller \notin Workers
  BY ThreadsAssumption DEF Threads
<1>3. PICK l \in {"stop", "take", "join", "done"} :
         /\ pc' = [pc EXCEPT ![Caller] = l]
         /\ \/ pc[Caller] = "main" /\ l = "stop" /\ stopping' = TRUE
            \/ pc[Caller] = "stop" /\ l = "stop" /\ stopping' = stopping
            \/ pc[Caller] = "stop" /\ l = "take" /\ useCaller /\ stopping' = stopping
            \/ pc[Caller] = "stop" /\ l = "join" /\ (useCaller => queue = <<>>) /\ stopping' = stopping
            \/ /\ pc[Caller] = "join" /\ l = "done" /\ (\A t \in Workers : pc[t] = "exit")
               /\ stopping' = stopping
  <2>1. CASE StopBegin
    BY <2>1 DEF StopBegin, At, Goto
  <2>2. CASE StopTickle
    <3>1. pc[Caller] = "stop" /\ pc' = pc /\ stopping' = stopping
      BY <2>2 DEF StopTickle, At
    <3>2. pc = [pc EXCEPT ![Caller] = "stop"]
      BY <3>1, <1>2 DEF TypeOK
    <3> QED
      BY <3>1, <3>2
  <2>3. CASE StopRun
    BY <2>3 DEF StopRun, At, Goto, stopVars
  <2>4. CASE StopJoin
    BY <2>4 DEF StopJoin, At, Goto, stopVars
  <2> QED
    BY <2>1, <2>2, <2>3, <2>4 DEF StopStep
<1>4. pc'[Caller] = l /\ \A u \in Threads \ {Caller} : pc'[u] = pc[u]
  BY <1>2, <1>3 DEF TypeOK
<1>5. TypeOK'
  <2>1. tickles' \in Nat
    <3>1. CASE StopBegin
      <4>1. Cardinality(Workers) \in Nat
        BY ThreadsAssumption, FS_CardinalityType
      <4>2. Cardinality(Workers) # 0
        BY ThreadsAssumption, FS_EmptySet
      <4> QED
        BY <3>1, <4>1, <4>2 DEF StopBegin
    <3>2. CASE StopStep
      BY <3>2 DEF StopStep, StopTickle, StopRun, StopJoin, stopVars, TypeOK
    <3> QED
      BY <3>1, <3>2
  <2>2. owe' \in [Threads -> BOOLEAN] /\ stopping' \in BOOLEAN
    BY <1>3 DEF StopBegin, StopStep, StopTickle, StopRun, StopJoin, TypeOK
  <2> QED
    BY <1>1, <1>3, <2>1, <2>2 DEF TypeOK, Places
<1>6. cur[Caller] = NoEntry
  BY <1>1, <1>2 DEF FiberInv, HandsFit
<1>7. FiberInv'
  <2>1. \A u \in Threads : \/ pc'[u] = pc[u]
                           \/ /\ cur[u] = NoEntry /\ pc[u] \notin {"run", "back", "after"}
                              /\ pc'[u] \notin {"run", "back", "after"}
    BY <1>1, <1>3, <1>4, <1>6
  <2> QED
    BY <1>1, <2>1, QuietFrame
<1>8. CountersExact'
  <2>1. Working' = Working /\ Idling' = Idling /\ Triggering' = Triggering
    BY <1>1, <1>3, <1>4 DEF Working, Idling, Triggering
  <2> QED
    BY <1>1, <2>1 DEF CountersExact
<1>9. PlacesFit'
  BY <1>1, <1>2, <1>3, <1>4 DEF PlacesFit
<1>10. PinsStay'
  BY <1>1, <1>2, <1>4 DEF PinsStay, Queued
<1>11. QueueServed'
  <2>1. ~Alive(Caller)
    BY <1>1 DEF Alive
  <2>2. \A u \in Threads : Alive(u) => Alive(u)'
    BY <2>1, <1>1, <1>4 DEF Alive
  <2>3. l = "take" => Alive(Caller)'
    BY <1>4 DEF Alive
  <2> QED
    BY <1>1, <1>2, <1>3, <1>4, <2>2, <2>3 DEF QueueServed
<1> QED
  BY <1>5, <1>7, <1>8, <1>9, <1>10, <1>11
-----------------------------------------------------------------------------
(***************************************************************************)
(* The invariant holds.                                                    *)
(***************************************************************************)

LEMMA InitInv == Init => IInv
<1> SUFFICES ASSUME Init PROVE IInv
  OBVIOUS
<1> USE DEF Init
<1>1. NoEntry \in Entries /\ NoEntry.job = None /\ NoEntry.fiber = None /\ NoEntry.pin = None
  BY DEF NoEntry, Entry, Entries
<1>2. queue \in Seq(Entries) /\ Queued = {} /\ IsInjective(queue)
  BY EmptyQueue DEF Queued
<1>3. QFibers = {} /\ QJobs = {} /\ Parked = {}
  BY <1>2 DEF QFibers, QJobs, Parked
<1>4. /\ \A t \in Threads : pc[t] \in {"main", "exit", "take"} /\ cur[t] = NoEntry /\ cbf[t] = None
      /\ \A t \in Workers : pc[t] \in {"exit", "take"} /\ (pc[t] = "exit" => useCaller /\ t = Spare)
      /\ pc[Caller] = "main" /\ Caller \in Threads
  BY ThreadsAssumption DEF Threads
<1>5. TypeOK
  <2>1. pc \in [Threads -> Places] /\ cur \in [Threads -> Entries]
    BY <1>1 DEF Places
  <2>2. cbf \in [Threads -> Fibers \cup {None}] /\ owe \in [Threads -> BOOLEAN]
        /\ jobs \in [Jobs -> {"new", "queued", "started", "done"}] /\ runs \in [Jobs -> Nat]
    OBVIOUS
  <2>3. /\ fst \in [Fibers -> {"FREE", "INIT", "EXEC", "HOLD", "READY", "TERM"}]
        /\ body \in [Fibers -> Jobs \cup {None}]
    OBVIOUS
  <2>4. useCaller \in BOOLEAN /\ stopping \in BOOLEAN /\ edge \in BOOLEAN
    OBVIOUS
  <2>5. /\ {active, idle, pending, tickles, yields, switches} \subseteq Nat
        /\ ready \subseteq iowait /\ iowait \subseteq Fibers /\ idleTerm \subseteq Threads
    OBVIOUS
  <2> QED
    BY ONLY <1>2, <2>1, <2>2, <2>3, <2>4, <2>5 DEF TypeOK
<1>6. Busy = {} /\ Held = {} /\ \A j \in Jobs : TakenFor(j) = {}
  BY <1>1, <1>4, NoneAssumption DEF Busy, Held, TakenFor
<1>7. QueueFits /\ HandsFit /\ OneHolder /\ HeldFits
  BY <1>1, <1>2, <1>4, <1>6 DEF QueueFits, HandsFit, OneHolder, HeldFits
<1>8. StatusFits /\ BodiesFit /\ JobsFit
  BY <1>3, <1>6 DEF StatusFits, BodiesFit, JobsFit
<1>9. CountersExact
  <2>1. Working = {} /\ Idling = {} /\ Triggering = {}
    BY <1>4 DEF Working, Idling, Triggering
  <2> QED
    BY <2>1, FS_EmptySet DEF CountersExact
<1>10. PlacesFit /\ PinsStay /\ QueueServed
  BY <1>1, <1>2, <1>4 DEF PlacesFit, PinsStay, QueueServed
<1> QED
  BY <1>5, <1>7, <1>8, <1>9, <1>10 DEF IInv, FiberInv

LEMMA NextInv == IInv /\ [Next]_vars => IInv'
<1> SUFFICES ASSUME IInv, [Next]_vars PROVE IInv'
  OBVIOUS
<1>1. ASSUME NEW t \in Threads, RunStep(t) \/ TaskStep(t) PROVE IInv'
  BY <1>1, RunStepInv, TaskStepInv
<1>2. ASSUME NEW f \in Fibers, BecomeReady(f) PROVE IInv'
  BY <1>2, BecomeReadyInv
<1>3. ASSUME NEW j \in MainJobs, NEW p \in Pins, SubmitMain(j, p) PROVE IInv'
  <2>1. j \in Jobs /\ Caller \in Threads
    BY DEF Jobs, Threads
  <2>2. Submit(Caller, j, p) /\ pc[Caller] = "main"
    BY <1>3 DEF SubmitMain, At
  <2> QED
    BY <2>1, <2>2, SubmitStepInv
<1>4. ASSUME StopBegin \/ StopStep PROVE IInv'
  BY <1>4, StopStepInv
<1>5. ASSUME UNCHANGED vars PROVE IInv'
  <2>1. /\ UNCHANGED <<useCaller, queue, fst, body, pc, cur, cbf, owe, idleTerm, active, idle>>
        /\ UNCHANGED <<stopping, tickles, edge, iowait, ready, pending, jobs, runs, yields, switches>>
    BY <1>5 DEF vars
  <2>2. FiberInv'
    BY <2>1, QuietFrame DEF IInv
  <2>3. TypeOK' /\ PlacesFit' /\ PinsStay' /\ QueueServed'
    BY <2>1 DEF IInv, TypeOK, PlacesFit, PinsStay, QueueServed, Alive, Queued
  <2>4. CountersExact'
    BY <2>1, CountStays DEF IInv
  <2> QED
    BY <2>2, <2>3, <2>4 DEF IInv
<1> QED
  BY <1>1, <1>2, <1>3, <1>4, <1>5 DEF Next

THEOREM Inductive == Spec => []IInv
BY InitInv, NextInv, PTL DEF Spec
-----------------------------------------------------------------------------
(***************************************************************************)
(* What it gives.                                                          *)
(***************************************************************************)

LEMMA OneHolderEach ==
    ASSUME IInv, NEW f \in Fibers
    PROVE  Cardinality(Holders(f)) = IF f \in Held THEN 1 ELSE 0
<1>1. IsFiniteSet(Holders(f))
  BY FiniteThreads, FS_Subset DEF Holders
<1>2. \A t, u \in Holders(f) : t = u
  BY NoneAssumption DEF Holders, IInv, FiberInv, OneHolder
<1>3. Holders(f) = {} <=> f \notin Held
  BY DEF Holders, Held
<1> QED
  BY <1>1, <1>2, <1>3, AtMostOne

\* No fiber is in the hands of two threads, and the asserts of SwapIn(), Reset() and
\* YieldToHold() hold (fiber.cpp), whatever threads, callbacks and fibers there are.
THEOREM FiberOneThread == Spec => []OneThreadPerFiber
<1>1. ASSUME IInv PROVE OneThreadPerFiber
  <2>1. \A f \in Fibers : Cardinality(Holders(f)) <= 1
    BY <1>1, OneHolderEach
  <2>2. \A t \in Threads :
          /\ pc[t] = "dispatch" /\ cur[t].fiber # None => fst[cur[t].fiber] \in {"HOLD", "READY"}
          /\ pc[t] = "dispatch" /\ cbf[t] # None => fst[cbf[t]] = "INIT"
          /\ pc[t] = "run" => fst[OnCpu(t)] = "EXEC"
    BY <1>1 DEF IInv, FiberInv, HeldFits, Busy
  <2> QED
    BY <2>1, <2>2 DEF OneThreadPerFiber
<1> QED
  BY <1>1, Inductive, PTL

LEMMA QueueIndex ==
    ASSUME TypeOK, NEW i \in 1..Len(queue)
    PROVE  queue[i] \in Queued /\ i \in DOMAIN queue
BY DEF TypeOK, Queued, ToSet

LEMMA OneEntryEach ==
    ASSUME IInv
    PROVE  /\ \A j \in Jobs : Cardinality(QueuedFor(j)) = IF j \in QJobs THEN 1 ELSE 0
           /\ \A f \in Fibers : Cardinality(EntriesOf(f)) = IF f \in QFibers THEN 1 ELSE 0
<1> USE DEF IInv, FiberInv
<1>1. IsFiniteSet(1..Len(queue)) /\ Len(queue) \in Nat
  BY FS_Interval DEF TypeOK
<1>2. \A i, k \in 1..Len(queue) : queue[i] = queue[k] => i = k
  BY QueueIndex DEF QueueFits, IsInjective
<1>3. \A e \in Queued : \E i \in 1..Len(queue) : queue[i] = e
  BY DEF Queued, ToSet, TypeOK
<1>4. ASSUME NEW j \in Jobs PROVE Cardinality(QueuedFor(j)) = IF j \in QJobs THEN 1 ELSE 0
  <2>1. IsFiniteSet(QueuedFor(j))
    BY <1>1, FS_Subset DEF QueuedFor
  <2>2. \A i, k \in QueuedFor(j) : i = k
    BY <1>2, QueueIndex, NoneAssumption DEF QueuedFor, QueueFits
  <2>3. QueuedFor(j) = {} <=> j \notin QJobs
    BY <1>3, QueueIndex, NoneAssumption DEF QueuedFor, QJobs
  <2> QED
    BY <2>1, <2>2, <2>3, AtMostOne
<1>5. ASSUME NEW f \in Fibers PROVE Cardinality(EntriesOf(f)) = IF f \in QFibers THEN 1 ELSE 0
  <2>1. IsFiniteSet(EntriesOf(f))
    BY <1>1, FS_Subset DEF EntriesOf
  <2>2. \A i, k \in EntriesOf(f) : i = k
    BY <1>2, QueueIndex, NoneAssumption DEF EntriesOf, QueueFits
  <2>3. EntriesOf(f) = {} <=> f \notin QFibers
    BY <1>3, QueueIndex, NoneAssumption DEF EntriesOf, QFibers
  <2> QED
    BY <2>1, <2>2, <2>3, AtMostOne
<1> QED
  BY <1>4, <1>5

LEMMA TaskOnce ==
    ASSUME IInv
    PROVE  EachTaskOnce
<1> USE DEF IInv, FiberInv
<1>1. ASSUME NEW j \in Jobs
      PROVE  /\ runs[j] = IF jobs[j] \in {"new", "queued"} THEN 0 ELSE 1
             /\ Cardinality(QueuedFor(j)) + Cardinality(TakenFor(j)) = IF jobs[j] = "queued" THEN 1 ELSE 0
  <2>1. IsFiniteSet(TakenFor(j))
    BY FiniteThreads, FS_Subset DEF TakenFor
  <2>2. TakenFor(j) \subseteq Threads
    BY DEF TakenFor
  <2>3. \A t, u \in TakenFor(j) : t = u
    BY <2>2 DEF JobsFit
  <2>4. Cardinality(TakenFor(j)) = IF TakenFor(j) = {} THEN 0 ELSE 1
    BY <2>1, <2>3, AtMostOne
  <2>5. Cardinality(QueuedFor(j)) = IF j \in QJobs THEN 1 ELSE 0
    BY OneEntryEach
  <2>6. IF jobs[j] = "queued" THEN j \in QJobs <=> TakenFor(j) = {}
                              ELSE j \notin QJobs /\ TakenFor(j) = {}
    BY <2>2 DEF JobsFit
  <2>7. runs[j] = IF jobs[j] \in {"new", "queued"} THEN 0 ELSE 1
    BY DEF JobsFit
  <2> QED
    BY <2>4, <2>5, <2>6, <2>7
<1>2. ASSUME NEW f \in Fibers
      PROVE  LET parked == Cardinality(EntriesOf(f)) + Cardinality({f} \cap iowait)
             IN  /\ parked <= 1
                 /\ fst[f] = "HOLD" => parked + Cardinality(Holders(f)) = 1
                 /\ fst[f] \in {"FREE", "INIT", "TERM"} => parked = 0
  <2>1. Cardinality({f} \cap iowait) = IF f \in iowait THEN 1 ELSE 0
    <3>1. CASE f \in iowait
      <4>1. {f} \cap iowait = {f}
        BY <3>1
      <4> QED
        BY <3>1, <4>1, FS_Singleton
    <3>2. CASE f \notin iowait
      <4>1. {f} \cap iowait = {}
        BY <3>2
      <4> QED
        BY <3>2, <4>1, FS_EmptySet
    <3> QED
      BY <3>1, <3>2
  <2>2. Cardinality(EntriesOf(f)) = IF f \in QFibers THEN 1 ELSE 0
    BY OneEntryEach
  <2>3. Cardinality(Holders(f)) = IF f \in Held THEN 1 ELSE 0
    BY OneHolderEach
  <2>4. ~(f \in QFibers /\ f \in iowait) /\ (fst[f] \in {"FREE", "INIT", "TERM"} => f \notin Parked)
    BY DEF StatusFits
  <2>5. fst[f] = "HOLD" => (f \in Held <=> f \notin Parked)
    BY ParkedNotHeld DEF StatusFits
  <2> QED
    BY <2>1, <2>2, <2>3, <2>4, <2>5 DEF Parked
<1> QED
  BY <1>1, <1>2 DEF EachTaskOnce

\* No task is lost and none runs twice, in any order of the threads' steps (Scheduler::Run,
\* IOManager::Idle): see EachTaskOnce.
THEOREM TasksAreKept == Spec => []TasksKept
<1>1. ASSUME IInv PROVE TasksKept
  BY <1>1, TaskOnce DEF IInv, TasksKept
<1> QED
  BY <1>1, Inductive, PTL

LEMMA StopLeavesNothing ==
    ASSUME IInv
    PROVE  StopDrains
<1> USE DEF IInv, FiberInv
<1> SUFFICES ASSUME pc[Caller] = "done", switches = 0
             PROVE  /\ queue = <<>> /\ active = 0
                    /\ \A j \in Jobs : \/ jobs[j] \in {"new", "done"}
                                       \/ \E f \in iowait : body[f] = j
  BY DEF StopDrains
<1>1. \A t \in Threads : pc[t] \in {"done", "exit"}
  BY DEF PlacesFit, Threads
<1>2. \A t \in Threads : cur[t] = NoEntry /\ cur[t].fiber = None /\ t \notin Busy /\ ~Alive(t)
  BY <1>1 DEF HandsFit, NoEntry, Entry, Busy, Alive
<1>3. queue = <<>> /\ QJobs = {} /\ QFibers = {}
  <2>1. queue = <<>>
    BY <1>2 DEF QueueServed
  <2>2. Queued = {}
    BY <2>1, EmptyQueue DEF Queued
  <2> QED
    BY <2>1, <2>2 DEF QJobs, QFibers
<1>4. active = 0
  <2>1. Working = {}
    BY <1>1 DEF Working
  <2> QED
    BY <2>1, FS_EmptySet DEF CountersExact
<1>5. ASSUME NEW j \in Jobs, jobs[j] \notin {"new", "done"} PROVE \E f \in iowait : body[f] = j
  <2>1. \A t \in Threads : t \notin TakenFor(j)
    BY <1>1 DEF TakenFor
  <2>2. jobs[j] = "started"
    BY <1>3, <1>5, <2>1 DEF JobsFit, TypeOK
  <2>3. PICK f \in Fibers : body[f] = j
    BY <2>2 DEF BodiesFit
  <2>4. fst[f] \in {"EXEC", "HOLD", "READY"}
    BY <2>3, NoneAssumption DEF BodiesFit
  <2>5. fst[f] \in {"HOLD", "READY"} /\ (f \in Held \/ f \in Parked)
    BY <1>2, <2>4 DEF StatusFits
  <2>6. f \notin Held
    BY <1>2, <2>5, NoneAssumption DEF Held, HeldFits
  <2> QED
    BY <1>3, <2>3, <2>5, <2>6 DEF Parked
<1> QED
  BY <1>3, <1>4, <1>5

\* _active_threadNum, _idle_threadNum and _pendingEventNum count what IsStopping() takes
\* them for, and Stop() leaves no task behind (scheduler.cpp, iomanager.cpp).
THEOREM CountersAreSound == Spec => []CountersSound
<1>1. ASSUME IInv PROVE CountersSound
  BY <1>1, StopLeavesNothing DEF IInv, CountersSound
<1> QED
  BY <1>1, Inductive, PTL
=============================================================================
