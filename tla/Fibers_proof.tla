----------------------------- MODULE Fibers_proof -----------------------------
(***************************************************************************)
(* Proofs about what fibers wait on.  FiberSync, for any set of fibers: the *)
(* inductive invariant IInv, from which the asserts of mutex.cpp,          *)
(* exactly-once waking, strict FIFO and the refinement of Monitor follow.  *)
(* WorkGroup, for any finite sets of fibers and callbacks and any          *)
(* _batchSize: permits are conserved although FiberSemphore::post() hands  *)
(* them over, and WaitAll() returns only when every callback has.          *)
(***************************************************************************)
EXTENDS FiberSync, WorkGroup, QueueLemmas

NoDup(q) == \A i, j \in 1..Len(q) : q[i] = q[j] => i = j

(***************************************************************************)
(* What the queue operations do to membership.                             *)
(***************************************************************************)

\* list::push_back adds its argument and nothing else.
LEMMA AppendQueue ==
    ASSUME NEW S, NEW q \in Seq(S), NEW e \in S
    PROVE  /\ Append(q, e) \in Seq(S)
           /\ \A x : InQueue(x, Append(q, e)) <=> InQueue(x, q) \/ x = e
           /\ NoDup(q) /\ ~InQueue(e, q) => NoDup(Append(q, e))
<1>1. /\ Append(q, e) \in Seq(S)
      /\ Len(Append(q, e)) = Len(q) + 1
      /\ \A i \in 1..Len(q) : Append(q, e)[i] = q[i]
      /\ Append(q, e)[Len(q) + 1] = e
  OBVIOUS
<1>2. Len(q) \in Nat
  OBVIOUS
<1>3. \A x : InQueue(x, Append(q, e)) <=> InQueue(x, q) \/ x = e
  BY <1>1, <1>2 DEF InQueue
<1>4. NoDup(q) /\ ~InQueue(e, q) => NoDup(Append(q, e))
  BY <1>1, <1>2 DEF InQueue, NoDup
<1> QED
  BY <1>1, <1>3, <1>4

\* list::front and list::pop_front split a queue into its head and the others.
LEMMA TailQueue ==
    ASSUME NEW S, NEW q \in Seq(S), q # <<>>
    PROVE  /\ Head(q) \in S /\ InQueue(Head(q), q)
           /\ Tail(q) \in Seq(S)
           /\ \A x : InQueue(x, q) <=> InQueue(x, Tail(q)) \/ x = Head(q)
           /\ NoDup(q) => NoDup(Tail(q)) /\ ~InQueue(Head(q), Tail(q))
<1>1. /\ Len(q) \in Nat \ {0}
      /\ Head(q) = q[1] /\ Head(q) \in S
      /\ Tail(q) \in Seq(S)
      /\ Len(Tail(q)) = Len(q) - 1
      /\ \A i \in 1..Len(q) - 1 : Tail(q)[i] = q[i + 1]
  OBVIOUS
<1>2. InQueue(Head(q), q)
  BY <1>1 DEF InQueue
<1>3. ASSUME NEW x PROVE InQueue(x, q) <=> InQueue(x, Tail(q)) \/ x = Head(q)
  <2>1. ASSUME NEW i \in 1..Len(q), q[i] = x, x # Head(q)
        PROVE  i - 1 \in 1..Len(Tail(q)) /\ Tail(q)[i - 1] = x
    BY <2>1, <1>1
  <2>2. ASSUME NEW i \in 1..Len(Tail(q)), Tail(q)[i] = x
        PROVE  i + 1 \in 1..Len(q) /\ q[i + 1] = x
    BY <2>2, <1>1
  <2> QED
    BY <2>1, <2>2, <1>2 DEF InQueue
<1>4. NoDup(q) => NoDup(Tail(q)) /\ ~InQueue(Head(q), Tail(q))
  BY <1>1 DEF InQueue, NoDup
<1> QED
  BY <1>1, <1>2, <1>3, <1>4

\* Moving a whole queue behind another one.
LEMMA ConcatQueue ==
    ASSUME NEW S, NEW p \in Seq(S), NEW q \in Seq(S)
    PROVE  /\ p \o q \in Seq(S)
           /\ \A x : InQueue(x, p \o q) <=> InQueue(x, p) \/ InQueue(x, q)
           /\ NoDup(p) /\ NoDup(q) /\ (\A x \in S : ~(InQueue(x, p) /\ InQueue(x, q)))
                 => NoDup(p \o q)
<1>1. /\ p \o q \in Seq(S)
      /\ Len(p) \in Nat /\ Len(q) \in Nat
      /\ Len(p \o q) = Len(p) + Len(q)
      /\ \A i \in 1..Len(p) : (p \o q)[i] = p[i]
      /\ \A i \in Len(p) + 1 .. Len(p) + Len(q) : (p \o q)[i] = q[i - Len(p)]
  OBVIOUS
<1>2. ASSUME NEW x PROVE InQueue(x, p \o q) <=> InQueue(x, p) \/ InQueue(x, q)
  <2>1. ASSUME NEW i \in 1..Len(q), q[i] = x
        PROVE  i + Len(p) \in 1..Len(p \o q) /\ (p \o q)[i + Len(p)] = x
    BY <2>1, <1>1
  <2>2. ASSUME NEW i \in 1..Len(p \o q), (p \o q)[i] = x, i > Len(p)
        PROVE  i - Len(p) \in 1..Len(q) /\ q[i - Len(p)] = x
    BY <2>2, <1>1
  <2>3. ASSUME NEW i \in 1..Len(p \o q), ~(i > Len(p))
        PROVE  i \in 1..Len(p)
    BY <2>3, <1>1
  <2>4. ASSUME NEW i \in 1..Len(p) PROVE i \in 1..Len(p \o q)
    BY <2>4, <1>1
  <2> QED
    BY <2>1, <2>2, <2>3, <2>4, <1>1 DEF InQueue
<1>3. ASSUME NoDup(p), NoDup(q), \A x \in S : ~(InQueue(x, p) /\ InQueue(x, q))
      PROVE  NoDup(p \o q)
  <2>1. ASSUME NEW i \in 1..Len(p), NEW j \in 1..Len(q) PROVE p[i] # q[j]
    <3>1. p[i] \in S
      OBVIOUS
    <3> QED
      BY <1>3, <3>1 DEF InQueue
  <2> SUFFICES ASSUME NEW i \in 1..Len(p \o q), NEW j \in 1..Len(p \o q),
                      (p \o q)[i] = (p \o q)[j]
               PROVE  i = j
    BY DEF NoDup
  <2>2. CASE i <= Len(p) /\ j <= Len(p)
    BY <2>2, <1>1, <1>3 DEF NoDup
  <2>3. CASE i > Len(p) /\ j > Len(p)
    <3>1. i - Len(p) \in 1..Len(q) /\ j - Len(p) \in 1..Len(q)
      BY <2>3, <1>1
    <3>2. q[i - Len(p)] = q[j - Len(p)]
      BY <2>3, <1>1
    <3> QED
      BY <3>1, <3>2, <1>1, <1>3 DEF NoDup
  <2>4. CASE i <= Len(p) /\ j > Len(p)
    BY <2>4, <2>1, <1>1
  <2>5. CASE i > Len(p) /\ j <= Len(p)
    BY <2>5, <2>1, <1>1
  <2> QED
    BY <2>2, <2>3, <2>4, <2>5, <1>1
<1> QED
  BY <1>1, <1>2, <1>3
-----------------------------------------------------------------------------
(***************************************************************************)
(* The inductive invariant.  AssertsHold and WokenExactlyOnce are not      *)
(* inductive: they need that a fiber is in at most one place at a time,    *)
(* that only fibers inside wait() are parked on the condition, and that a  *)
(* fiber in the middle of a signal() is running.                           *)
(***************************************************************************)

\* A parked fiber is in one queue, once, or in the hands of one signal().
OnePlace ==
    /\ NoDup(mwaiters)
    /\ NoDup(cwaiters)
    /\ \A f, g \in Fibers : sig[f] = sig[g] /\ sig[f] # Nil => f = g
    /\ \A f \in Fibers : ~(InQueue(f, mwaiters) /\ InQueue(f, cwaiters))
    /\ \A f, g \in Fibers : sig[g] = f => ~InQueue(f, mwaiters) /\ ~InQueue(f, cwaiters)

\* Who can be in which place.
PlaceFits ==
    \A f \in Fibers :
        /\ InQueue(f, cwaiters) => pc[f] = "wait"
        /\ \A g \in Fibers : sig[g] = f => pc[f] = "wait"
        /\ sig[f] # Nil => pc[f] \in {"out", "in"}
        /\ status[f] = "HOLD" => Blocked(f)

IInv == TypeOK /\ OnePlace /\ PlaceFits /\ AssertsHold /\ WokenExactlyOnce

\* The locks start free and unqueued.
LEMMA InitIInv == Init => IInv
<1> SUFFICES ASSUME Init PROVE IInv
  OBVIOUS
<1> USE NilAssumption
<1>1. mwaiters = <<>> /\ cwaiters = <<>> /\ \A x : ~InQueue(x, mwaiters) /\ ~InQueue(x, cwaiters)
  BY DEF Init, InQueue
<1>2. TypeOK
  BY DEF Init, TypeOK
<1>3. OnePlace
  BY <1>1 DEF Init, OnePlace, NoDup
<1>4. PlaceFits /\ AssertsHold /\ WokenExactlyOnce
  BY <1>1 DEF Init, PlaceFits, AssertsHold, WokenExactlyOnce, WakeUps, Parked, Blocked
<1> QED
  BY <1>2, <1>3, <1>4 DEF IInv

\* Releasing the mutex, whoever does it and wherever the releasing fiber goes
\* next: the state of the queues and of the wake-ups is as the invariant says.
LEMMA UnlockFacts ==
    ASSUME TypeOK, OnePlace, WokenExactlyOnce, UnlockNoLock
    PROVE  /\ owner' \in Fibers \cup {Nil} /\ mwaiters' \in Seq(Fibers)
           /\ runq' \in [Fibers -> Nat]
           /\ NoDup(mwaiters')
           /\ owner' = Nil => mwaiters' = <<>> /\ runq' = runq /\ mwaiters = <<>>
           /\ owner' # Nil => /\ InQueue(owner', mwaiters) /\ ~InQueue(owner', mwaiters')
                              /\ runq' = [runq EXCEPT ![owner'] = @ + 1]
           /\ \A x : InQueue(x, mwaiters) <=> InQueue(x, mwaiters') \/ (owner' # Nil /\ x = owner')
<1> USE NilAssumption
<1>1. CASE mwaiters = <<>>
  BY <1>1 DEF UnlockNoLock, TypeOK, OnePlace, InQueue
<1>2. CASE mwaiters # <<>>
  <2>1. /\ Head(mwaiters) \in Fibers /\ InQueue(Head(mwaiters), mwaiters)
        /\ Tail(mwaiters) \in Seq(Fibers)
        /\ \A x : InQueue(x, mwaiters) <=> InQueue(x, Tail(mwaiters)) \/ x = Head(mwaiters)
        /\ NoDup(Tail(mwaiters)) /\ ~InQueue(Head(mwaiters), Tail(mwaiters))
    BY <1>2, TailQueue DEF TypeOK, OnePlace
  <2>2. /\ owner' = Head(mwaiters) /\ mwaiters' = Tail(mwaiters)
        /\ runq' = [runq EXCEPT ![Head(mwaiters)] = @ + 1]
    BY <1>2 DEF UnlockNoLock, Schedule
  <2>3. runq' \in [Fibers -> Nat]
    BY <2>1, <2>2 DEF TypeOK
  <2> QED
    BY <2>1, <2>2, <2>3
<1> QED
  BY <1>1, <1>2

\* Every step of every fiber preserves the invariant.
LEMMA NextIInv == IInv /\ [Next]_vars => IInv'
<1> SUFFICES ASSUME IInv, [Next]_vars PROVE IInv'
  OBVIOUS
<1> USE NilAssumption DEF IInv
<1>1. ASSUME NEW f \in Fibers, Lock(f) PROVE IInv'
  <2>1. CASE owner = Nil
    <3>1. /\ owner' = f /\ pc' = [pc EXCEPT ![f] = "in"]
          /\ UNCHANGED <<mwaiters, status, cwaiters, sig, runq>> /\ pc[f] = "out"
      BY <1>1, <2>1 DEF Lock, Running, TypeOK
    <3>2. TypeOK'
      BY <3>1 DEF TypeOK
    <3>3. OnePlace' /\ PlaceFits'
      BY <3>1 DEF OnePlace, PlaceFits, Blocked, TypeOK
    <3>4. AssertsHold'
      BY <2>1, <3>1 DEF AssertsHold, TypeOK, WokenExactlyOnce, InQueue, PlaceFits
    <3>5. WokenExactlyOnce'
      BY <2>1, <3>1 DEF WokenExactlyOnce, WakeUps, AssertsHold, Blocked, Parked, TypeOK
    <3> QED
      BY <3>2, <3>3, <3>4, <3>5
  <2>2. CASE owner # Nil
    <3>1. /\ mwaiters' = Append(mwaiters, f) /\ pc' = [pc EXCEPT ![f] = "lock"]
          /\ UNCHANGED <<owner, status, cwaiters, sig, runq>>
          /\ pc[f] = "out" /\ sig[f] = Nil
      BY <1>1, <2>2 DEF Lock, Running, TypeOK
    <3>2. ~InQueue(f, mwaiters) /\ ~InQueue(f, cwaiters) /\ \A g \in Fibers : sig[g] # f
      BY <3>1 DEF AssertsHold, PlaceFits
    <3>3. /\ mwaiters' \in Seq(Fibers) /\ NoDup(mwaiters')
          /\ \A x : InQueue(x, mwaiters') <=> InQueue(x, mwaiters) \/ x = f
      BY <3>1, <3>2, AppendQueue DEF TypeOK, OnePlace
    <3>4. TypeOK'
      BY <3>1, <3>3 DEF TypeOK
    <3>5. OnePlace'
      BY <3>1, <3>2, <3>3 DEF OnePlace, TypeOK
    <3>6. PlaceFits'
      BY <3>1, <3>2 DEF PlaceFits, Blocked, TypeOK
    <3>7. AssertsHold'
      BY <3>1, <3>2, <3>3 DEF AssertsHold, TypeOK
    <3>8. WokenExactlyOnce'
      BY <2>2, <3>1, <3>2, <3>3 DEF WokenExactlyOnce, WakeUps, AssertsHold, Blocked, Parked, TypeOK
    <3> QED
      BY <3>4, <3>5, <3>6, <3>7, <3>8
  <2> QED
    BY <2>1, <2>2
<1>2. ASSUME NEW f \in Fibers, Running(f, "in"), UnlockNoLock,
             pc' = [pc EXCEPT ![f] = "out"], UNCHANGED <<status, cwaiters, sig>>
      PROVE  IInv'
  <2>1. /\ owner = f /\ pc[f] = "in" /\ ~InQueue(f, mwaiters) /\ ~InQueue(f, cwaiters)
        /\ \A g \in Fibers : sig[g] # f
    BY <1>2 DEF Running, AssertsHold, WokenExactlyOnce, WakeUps, Parked, Blocked
  <2>2. TypeOK'
    BY <1>2, UnlockFacts DEF TypeOK
  <2>3. OnePlace'
    BY <1>2, UnlockFacts DEF OnePlace, TypeOK
  <2>4. PlaceFits'
    BY <1>2, <2>1 DEF PlaceFits, Blocked, TypeOK
  <2>5. AssertsHold'
    BY <1>2, <2>1, UnlockFacts DEF AssertsHold, TypeOK, OnePlace, PlaceFits, WokenExactlyOnce, WakeUps, Blocked, Parked
  <2>6. WokenExactlyOnce'
    <3>1. ASSUME NEW g \in Fibers PROVE WakeUps(g)'
      <4>1. CASE g = f
        <5>1. g # owner' /\ runq[g] = 0 /\ pc'[g] = "out"
          BY <4>1, <2>1, <1>2, UnlockFacts DEF TypeOK, WokenExactlyOnce, WakeUps, Blocked
        <5>2. runq'[g] = 0
          BY <5>1, <1>2, UnlockFacts DEF TypeOK
        <5> QED
          BY <4>1, <5>1, <5>2, <2>1, <1>2, UnlockFacts DEF WakeUps, Blocked, Parked
      <4>2. CASE g # f /\ g = owner'
        <5>1. InQueue(g, mwaiters) /\ ~InQueue(g, mwaiters') /\ pc'[g] = pc[g]
          BY <4>2, <1>2, UnlockFacts DEF TypeOK
        <5>2. Blocked(g) /\ runq[g] = 0 /\ ~InQueue(g, cwaiters) /\ \A h \in Fibers : sig[h] # g
          BY <5>1 DEF WokenExactlyOnce, WakeUps, Parked, OnePlace
        <5>3. runq'[g] = 1
          BY <4>2, <5>2, <1>2, UnlockFacts DEF TypeOK
        <5> QED
          BY <4>2, <5>1, <5>2, <5>3, <1>2, UnlockFacts DEF WakeUps, Blocked, Parked
      <4>3. CASE g # f /\ g # owner'
        <5>1. runq'[g] = runq[g] /\ pc'[g] = pc[g] /\ g # owner
          BY <4>3, <2>1, <1>2, UnlockFacts DEF TypeOK
        <5>2. InQueue(g, mwaiters') <=> InQueue(g, mwaiters)
          BY <4>3, <1>2, UnlockFacts
        <5> QED
          BY <4>3, <5>1, <5>2, <1>2, UnlockFacts DEF WokenExactlyOnce, WakeUps, Blocked, Parked
      <4> QED
        BY <4>1, <4>2, <4>3
    <3> QED
      BY <3>1, <1>2, UnlockFacts DEF WokenExactlyOnce
  <2> QED
    BY <2>2, <2>3, <2>4, <2>5, <2>6
<1>3. ASSUME NEW f \in Fibers, CondWait(f) PROVE IInv'
  <2>1. /\ owner = f /\ pc[f] = "in" /\ ~InQueue(f, mwaiters) /\ ~InQueue(f, cwaiters)
        /\ sig[f] = Nil /\ \A g \in Fibers : sig[g] # f
    BY <1>3 DEF CondWait, Running, AssertsHold, WokenExactlyOnce, WakeUps, Parked, Blocked
  <2>2. /\ UnlockNoLock /\ pc' = [pc EXCEPT ![f] = "wait"] /\ UNCHANGED <<status, sig>>
        /\ cwaiters' = Append(cwaiters, f)
    BY <1>3 DEF CondWait
  <2>3. /\ cwaiters' \in Seq(Fibers) /\ NoDup(cwaiters')
        /\ \A x : InQueue(x, cwaiters') <=> InQueue(x, cwaiters) \/ x = f
    BY <2>1, <2>2, AppendQueue DEF TypeOK, OnePlace
  <2>4. TypeOK'
    BY <2>2, <2>3, UnlockFacts DEF TypeOK
  <2>5. OnePlace'
    <3>1. NoDup(mwaiters') /\ NoDup(cwaiters')
      BY <2>2, <2>3, UnlockFacts
    <3>2. \A g \in Fibers : InQueue(g, mwaiters') => InQueue(g, mwaiters) /\ g # f
      BY <2>1, <2>2, UnlockFacts
    <3>3. \A g, h \in Fibers : sig'[h] = g => ~InQueue(g, mwaiters') /\ ~InQueue(g, cwaiters')
      BY <2>1, <2>2, <2>3, <3>2 DEF OnePlace
    <3>4. \A g \in Fibers : ~(InQueue(g, mwaiters') /\ InQueue(g, cwaiters'))
      BY <2>3, <3>2 DEF OnePlace
    <3> QED
      BY <2>2, <3>1, <3>3, <3>4 DEF OnePlace
  <2>6. PlaceFits'
    BY <2>1, <2>2, <2>3 DEF PlaceFits, Blocked, TypeOK
  <2>7. AssertsHold'
    BY <2>1, <2>2, <2>3, UnlockFacts DEF AssertsHold, TypeOK, OnePlace, PlaceFits, WokenExactlyOnce, WakeUps, Blocked, Parked
  <2>8. WokenExactlyOnce'
    <3>1. ASSUME NEW g \in Fibers PROVE WakeUps(g)'
      <4>1. CASE g = f
        <5>1. g # owner' /\ runq[g] = 0 /\ pc'[g] = "wait"
          BY <4>1, <2>1, <2>2, <2>3, UnlockFacts DEF TypeOK, WokenExactlyOnce, WakeUps, Blocked
        <5>2. runq'[g] = 0
          BY <5>1, <2>2, <2>3, UnlockFacts DEF TypeOK
        <5> QED
          BY <4>1, <5>1, <5>2, <2>1, <2>2, <2>3, UnlockFacts DEF WakeUps, Blocked, Parked
      <4>2. CASE g # f /\ g = owner'
        <5>1. InQueue(g, mwaiters) /\ ~InQueue(g, mwaiters') /\ pc'[g] = pc[g]
          BY <4>2, <2>2, <2>3, UnlockFacts DEF TypeOK
        <5>2. Blocked(g) /\ runq[g] = 0 /\ ~InQueue(g, cwaiters) /\ \A h \in Fibers : sig[h] # g
          BY <5>1 DEF WokenExactlyOnce, WakeUps, Parked, OnePlace
        <5>3. runq'[g] = 1
          BY <4>2, <5>2, <2>2, <2>3, UnlockFacts DEF TypeOK
        <5> QED
          BY <4>2, <5>1, <5>2, <5>3, <2>2, <2>3, UnlockFacts DEF WakeUps, Blocked, Parked
      <4>3. CASE g # f /\ g # owner'
        <5>1. runq'[g] = runq[g] /\ pc'[g] = pc[g] /\ g # owner
          BY <4>3, <2>1, <2>2, <2>3, UnlockFacts DEF TypeOK
        <5>2. InQueue(g, mwaiters') <=> InQueue(g, mwaiters)
          BY <4>3, <2>2, <2>3, UnlockFacts
        <5> QED
          BY <4>3, <5>1, <5>2, <2>2, <2>3, UnlockFacts DEF WokenExactlyOnce, WakeUps, Blocked, Parked
      <4> QED
        BY <4>1, <4>2, <4>3
    <3> QED
      BY <3>1, <2>2, <2>3, UnlockFacts DEF WokenExactlyOnce
  <2> QED
    BY <2>4, <2>5, <2>6, <2>7, <2>8
<1>4. ASSUME NEW f \in Fibers, SignalPop(f) PROVE IInv'
  <2>1. /\ cwaiters # <<>> /\ cwaiters' = Tail(cwaiters)
        /\ sig' = [sig EXCEPT ![f] = Head(cwaiters)]
        /\ UNCHANGED <<pc, status, owner, mwaiters, runq>>
        /\ sig[f] = Nil /\ pc[f] \in {"out", "in"}
    BY <1>4 DEF SignalPop, Running
  <2> DEFINE h == Head(cwaiters)
  <2>2. /\ h \in Fibers /\ InQueue(h, cwaiters) /\ cwaiters' \in Seq(Fibers)
        /\ \A x : InQueue(x, cwaiters) <=> InQueue(x, cwaiters') \/ x = h
        /\ NoDup(cwaiters') /\ ~InQueue(h, cwaiters')
    BY <2>1, TailQueue DEF TypeOK, OnePlace
  <2>3. /\ pc[h] = "wait" /\ owner # h /\ runq[h] = 0 /\ ~InQueue(h, mwaiters)
        /\ \A g \in Fibers : sig[g] # h
    BY <2>2 DEF PlaceFits, OnePlace, WokenExactlyOnce, WakeUps, Parked, Blocked
  <2>4. \A g \in Fibers : sig'[g] = IF g = f THEN h ELSE sig[g]
    BY <2>1 DEF TypeOK
  <2> HIDE DEF h
  <2>5. TypeOK'
    BY <2>1, <2>2 DEF TypeOK, h
  <2>6. OnePlace'
    BY <2>1, <2>2, <2>3, <2>4 DEF OnePlace
  <2>7. PlaceFits'
    BY <2>1, <2>2, <2>3, <2>4 DEF PlaceFits, Blocked
  <2>8. AssertsHold'
    BY <2>1, <2>3, <2>4 DEF AssertsHold
  <2>9. ASSUME NEW g \in Fibers PROVE WakeUps(g)'
    <3>1. Parked(g)' <=> Parked(g)
      BY <2>1, <2>2, <2>4 DEF Parked
    <3> QED
      BY <2>1, <3>1 DEF WokenExactlyOnce, WakeUps, Blocked
  <2> QED
    BY <2>1, <2>5, <2>6, <2>7, <2>8, <2>9 DEF WokenExactlyOnce
<1>5. ASSUME NEW f \in Fibers, SignalMove(f) PROVE IInv'
  <2> DEFINE h == sig[f]
  <2>1. /\ h \in Fibers /\ pc[h] = "wait" /\ owner # h /\ runq[h] = 0
        /\ ~InQueue(h, mwaiters) /\ ~InQueue(h, cwaiters)
        /\ \A g \in Fibers : sig[g] = h => g = f
    <3>1. h \in Fibers
      BY <1>5 DEF SignalMove, TypeOK
    <3> QED
      BY <1>5, <3>1 DEF SignalMove, AssertsHold, PlaceFits, OnePlace, WokenExactlyOnce, WakeUps, Parked, Blocked
  <2>2. /\ sig' = [sig EXCEPT ![f] = Nil] /\ UNCHANGED <<pc, status, cwaiters>>
        /\ \A g \in Fibers : sig'[g] = IF g = f THEN Nil ELSE sig[g]
    BY <1>5 DEF SignalMove, TypeOK
  <2>3. CASE owner = Nil
    <3>1. /\ owner' = h /\ runq' = [runq EXCEPT ![h] = @ + 1] /\ UNCHANGED mwaiters
          /\ mwaiters = <<>> /\ \A x : ~InQueue(x, mwaiters)
      BY <1>5, <2>3 DEF SignalMove, Schedule, WokenExactlyOnce, InQueue
    <3>2. \A g \in Fibers : runq'[g] = IF g = h THEN 1 ELSE runq[g]
      BY <2>1, <3>1 DEF TypeOK
    <3> HIDE DEF h
    <3>3. TypeOK'
      BY <2>1, <2>2, <3>1 DEF TypeOK
    <3>4. OnePlace' /\ PlaceFits'
      BY <2>2, <3>1 DEF OnePlace, PlaceFits, Blocked
    <3>5. AssertsHold'
      BY <2>1, <2>2, <2>3, <3>1 DEF AssertsHold, TypeOK, h
    <3>6. ASSUME NEW g \in Fibers PROVE WakeUps(g)'
      <4>1. CASE g = h
        BY <4>1, <2>1, <2>2, <3>1, <3>2 DEF WakeUps, Blocked, Parked
      <4>2. CASE g # h
        <5>1. Parked(g)' <=> Parked(g)
          BY <4>2, <2>2, <3>1 DEF Parked, h
        <5> QED
          BY <4>2, <5>1, <2>2, <2>3, <3>1, <3>2 DEF WokenExactlyOnce, WakeUps, Blocked
      <4> QED
        BY <4>1, <4>2
    <3> QED
      BY <2>1, <3>1, <3>3, <3>4, <3>5, <3>6 DEF WokenExactlyOnce
  <2>4. CASE owner # Nil
    <3>1. mwaiters' = Append(mwaiters, h) /\ UNCHANGED <<owner, runq>>
      BY <1>5, <2>4 DEF SignalMove
    <3>2. /\ mwaiters' \in Seq(Fibers) /\ NoDup(mwaiters')
          /\ \A x : InQueue(x, mwaiters') <=> InQueue(x, mwaiters) \/ x = h
      BY <2>1, <3>1, AppendQueue DEF TypeOK, OnePlace
    <3> HIDE DEF h
    <3>3. TypeOK'
      BY <2>2, <3>1, <3>2 DEF TypeOK
    <3>4. OnePlace'
      BY <2>1, <2>2, <3>2 DEF OnePlace
    <3>5. PlaceFits'
      BY <2>2 DEF PlaceFits, Blocked
    <3>6. AssertsHold'
      BY <2>1, <2>2, <3>1, <3>2 DEF AssertsHold, TypeOK
    <3>7. ASSUME NEW g \in Fibers PROVE WakeUps(g)'
      <4>1. Parked(g)' <=> Parked(g)
        BY <2>1, <2>2, <3>2 DEF Parked, h
      <4> QED
        BY <4>1, <2>2, <3>1 DEF WokenExactlyOnce, WakeUps, Blocked
    <3> QED
      BY <2>4, <3>1, <3>3, <3>4, <3>5, <3>6, <3>7 DEF WokenExactlyOnce
  <2> QED
    BY <2>3, <2>4
<1>6. ASSUME NEW f \in Fibers, Broadcast(f) PROVE IInv'
  <2>1. /\ cwaiters # <<>> /\ cwaiters' = <<>> /\ UNCHANGED <<pc, status, sig>>
        /\ \A x : ~InQueue(x, cwaiters')
    BY <1>6 DEF Broadcast, InQueue
  <2>2. ASSUME NEW g \in Fibers, InQueue(g, cwaiters)
        PROVE  /\ pc[g] = "wait" /\ owner # g /\ runq[g] = 0 /\ ~InQueue(g, mwaiters)
               /\ \A k \in Fibers : sig[k] # g
    BY <2>2 DEF PlaceFits, OnePlace, WokenExactlyOnce, WakeUps, Parked, Blocked
  <2>3. CASE owner = Nil
    <3> DEFINE h == Head(cwaiters)
    <3>1. /\ owner' = h /\ runq' = [runq EXCEPT ![h] = @ + 1]
          /\ mwaiters' = mwaiters \o Tail(cwaiters)
      BY <1>6, <2>3 DEF Broadcast, Schedule
    <3>2. /\ h \in Fibers /\ InQueue(h, cwaiters) /\ Tail(cwaiters) \in Seq(Fibers)
          /\ \A x : InQueue(x, cwaiters) <=> InQueue(x, Tail(cwaiters)) \/ x = h
          /\ NoDup(Tail(cwaiters)) /\ ~InQueue(h, Tail(cwaiters))
      BY <2>1, TailQueue DEF TypeOK, OnePlace
    <3> HIDE DEF h
    <3>3. /\ mwaiters' \in Seq(Fibers) /\ NoDup(mwaiters')
          /\ \A x : InQueue(x, mwaiters') <=> InQueue(x, mwaiters) \/ InQueue(x, Tail(cwaiters))
      <4>1. mwaiters \in Seq(Fibers) /\ NoDup(mwaiters)
        BY DEF TypeOK, OnePlace
      <4>2. \A x \in Fibers : ~(InQueue(x, mwaiters) /\ InQueue(x, Tail(cwaiters)))
        BY <2>2, <3>2
      <4> QED
        BY <3>1, <3>2, <4>1, <4>2, ConcatQueue
    <3>4. \A g \in Fibers : runq'[g] = IF g = h THEN 1 ELSE runq[g]
      BY <2>2, <3>1, <3>2 DEF TypeOK
    <3>5. TypeOK'
      BY <2>1, <3>1, <3>2, <3>3 DEF TypeOK
    <3>6. OnePlace'
      BY <2>1, <2>2, <3>2, <3>3 DEF OnePlace, NoDup
    <3>7. PlaceFits'
      BY <2>1 DEF PlaceFits, Blocked
    <3>8. AssertsHold'
      BY <2>1, <2>2, <2>3, <3>1, <3>2, <3>3 DEF AssertsHold, TypeOK
    <3>9. ASSUME NEW g \in Fibers PROVE WakeUps(g)'
      <4>1. CASE g = h
        BY <4>1, <2>1, <2>2, <3>1, <3>2, <3>3, <3>4 DEF WakeUps, Blocked, Parked
      <4>2. CASE g # h
        <5>1. Parked(g)' <=> Parked(g)
          BY <4>2, <2>1, <3>2, <3>3 DEF Parked
        <5> QED
          BY <4>2, <5>1, <2>1, <2>3, <3>1, <3>4 DEF WokenExactlyOnce, WakeUps, Blocked
      <4> QED
        BY <4>1, <4>2
    <3> QED
      BY <3>1, <3>2, <3>5, <3>6, <3>7, <3>8, <3>9 DEF WokenExactlyOnce
  <2>4. CASE owner # Nil
    <3>1. mwaiters' = mwaiters \o cwaiters /\ UNCHANGED <<owner, runq>>
      BY <1>6, <2>4 DEF Broadcast
    <3>2. /\ mwaiters' \in Seq(Fibers) /\ NoDup(mwaiters')
          /\ \A x : InQueue(x, mwaiters') <=> InQueue(x, mwaiters) \/ InQueue(x, cwaiters)
      BY <2>2, <3>1, ConcatQueue DEF TypeOK, OnePlace
    <3>3. TypeOK'
      BY <2>1, <3>1, <3>2 DEF TypeOK
    <3>4. OnePlace'
      BY <2>1, <2>2, <3>2 DEF OnePlace, NoDup
    <3>5. PlaceFits'
      BY <2>1 DEF PlaceFits, Blocked
    <3>6. AssertsHold'
      BY <2>1, <2>2, <3>1, <3>2 DEF AssertsHold, TypeOK
    <3>7. ASSUME NEW g \in Fibers PROVE WakeUps(g)'
      <4>1. Parked(g)' <=> Parked(g)
        BY <2>1, <3>2 DEF Parked
      <4> QED
        BY <4>1, <2>1, <3>1 DEF WokenExactlyOnce, WakeUps, Blocked
    <3> QED
      BY <2>4, <3>1, <3>3, <3>4, <3>5, <3>6, <3>7 DEF WokenExactlyOnce
  <2> QED
    BY <2>3, <2>4
<1>7. ASSUME NEW f \in Fibers, YieldToHold(f) PROVE IInv'
  <2>1. TypeOK'
    BY <1>7 DEF YieldToHold, TypeOK
  <2>2. OnePlace' /\ AssertsHold' /\ WokenExactlyOnce'
    BY <1>7 DEF YieldToHold, OnePlace, AssertsHold, WokenExactlyOnce, WakeUps, Parked, Blocked
  <2>3. PlaceFits'
    BY <1>7 DEF YieldToHold, Running, PlaceFits, Blocked, TypeOK
  <2> QED
    BY <2>1, <2>2, <2>3
<1>8. ASSUME NEW f \in Fibers, Resume(f) PROVE IInv'
  <2>1. /\ runq[f] > 0 /\ runq' = [runq EXCEPT ![f] = @ - 1] /\ pc' = [pc EXCEPT ![f] = "in"]
        /\ status' = [status EXCEPT ![f] = "EXEC"] /\ UNCHANGED <<owner, mwaiters, cwaiters, sig>>
    BY <1>8 DEF Resume
  <2>2. Blocked(f) /\ ~Parked(f) /\ runq[f] = 1 /\ owner = f
    BY <2>1 DEF WokenExactlyOnce, WakeUps
  <2>3. /\ \A g \in Fibers : runq'[g] = IF g = f THEN 0 ELSE runq[g]
        /\ \A g \in Fibers : pc'[g] = IF g = f THEN "in" ELSE pc[g]
        /\ \A g \in Fibers : status'[g] = IF g = f THEN "EXEC" ELSE status[g]
    BY <2>1, <2>2 DEF TypeOK
  <2>4. TypeOK'
    BY <2>1, <2>2 DEF TypeOK
  <2>5. OnePlace'
    BY <2>1 DEF OnePlace
  <2>6. PlaceFits'
    BY <2>1, <2>2, <2>3 DEF PlaceFits, Parked, Blocked
  <2>7. AssertsHold'
    BY <2>1, <2>2, <2>3 DEF AssertsHold
  <2>8. WokenExactlyOnce'
    BY <2>1, <2>2, <2>3 DEF WokenExactlyOnce, WakeUps, Parked, Blocked
  <2> QED
    BY <2>4, <2>5, <2>6, <2>7, <2>8
<1>9. CASE UNCHANGED vars
  BY <1>9 DEF vars, TypeOK, OnePlace, PlaceFits, AssertsHold, WokenExactlyOnce, WakeUps, Parked, Blocked
<1> QED
  BY <1>1, <1>2, <1>3, <1>4, <1>5, <1>6, <1>7, <1>8, <1>9
  DEF Next, Step, Unlock, UnlockIfNotUnique
-----------------------------------------------------------------------------
\* The invariant holds in every reachable state, for any set of fibers.
THEOREM Invariance == Spec => []IInv
  BY InitIInv, NextIInv, PTL DEF Spec

\* Type correctness of the state of FiberMutex and FiberCondition.
THEOREM TypeCorrect == Spec => []TypeOK
  BY Invariance, PTL DEF IInv

\* No assert of mutex.cpp can fail, for any number of fibers and any
\* interleaving of lock(), unlock(), wait(), signal() and broadcast().
THEOREM AssertsNeverFail == Spec => []AssertsHold
  BY Invariance, PTL DEF IInv

\* No blocked fiber is stranded and none is woken twice.
THEOREM NoWakeUpLost == Spec => []WokenExactlyOnce
  BY Invariance, PTL DEF IInv

\* What was in front of a queue stays there when others join behind.
LEMMA PrefixKept ==
    ASSUME NEW S, NEW p \in Seq(S), NEW q \in Seq(S), NEW e \in S
    PROVE  /\ SubSeq(p, 1, Len(p)) = p
           /\ SubSeq(Append(p, e), 1, Len(p)) = p
           /\ SubSeq(p \o q, 1, Len(p)) = p
  OBVIOUS

\* FiberMutex is strictly FIFO: no fiber overtakes the first waiter, whatever
\* lock(), signal() and broadcast() do meanwhile.
THEOREM Fifo == Spec => StrictFifo
<1> DEFINE FifoStep ==
      mwaiters # <<>> =>
          /\ owner' # owner => owner' = Head(mwaiters) /\ mwaiters' = Tail(mwaiters)
          /\ owner' = owner => SubSeq(mwaiters', 1, Len(mwaiters)) = mwaiters
<1>1. IInv /\ [Next]_vars => [FifoStep]_vars
  <2> SUFFICES ASSUME IInv, Next, mwaiters # <<>> PROVE FifoStep
    OBVIOUS
  <2> USE NilAssumption
  <2>1. owner # Nil /\ mwaiters \in Seq(Fibers) /\ cwaiters \in Seq(Fibers)
    BY DEF IInv, WokenExactlyOnce, TypeOK
  <2>2. CASE UNCHANGED <<owner, mwaiters>>
    BY <2>1, <2>2
  <2>3. ASSUME NEW f \in Fibers, Running(f, "in"), UnlockNoLock PROVE FifoStep
    <3>1. owner = f /\ ~InQueue(f, mwaiters)
      BY <2>3 DEF IInv, Running, AssertsHold, WokenExactlyOnce, WakeUps, Parked, Blocked
    <3>2. owner' = Head(mwaiters) /\ mwaiters' = Tail(mwaiters) /\ InQueue(Head(mwaiters), mwaiters)
      BY <2>1, <2>3, TailQueue DEF UnlockNoLock
    <3> QED
      BY <3>1, <3>2
  <2>4. ASSUME NEW f \in Fibers, Lock(f) \/ SignalMove(f) \/ Broadcast(f) PROVE FifoStep
    <3>1. \/ \E e \in Fibers : mwaiters' = Append(mwaiters, e)
          \/ mwaiters' = mwaiters \o cwaiters
      BY <2>1, <2>4 DEF Lock, SignalMove, Broadcast, IInv, TypeOK
    <3>2. owner' = owner
      BY <2>1, <2>4 DEF Lock, SignalMove, Broadcast
    <3>3. SubSeq(mwaiters', 1, Len(mwaiters)) = mwaiters
      BY <2>1, <3>1, PrefixKept
    <3> QED
      BY <3>2, <3>3
  <2> QED
    BY <2>2, <2>3, <2>4
    DEF Next, Step, Unlock, UnlockIfNotUnique, CondWait, SignalPop, YieldToHold, Resume
<1> QED
  BY <1>1, Invariance, PTL DEF Spec, StrictFifo

\* The mutex and its condition implement a monitor.
THEOREM ImplementsMonitor == Spec => MonitorSpec
<1>1. Init => Mon!Init
  BY DEF Init, Mon!Init, Notified
<1>2. IInv /\ IInv' /\ [Next]_vars => [Mon!Next]_(Mon!vars)
  <2> SUFFICES ASSUME IInv, IInv', [Next]_vars PROVE [Mon!Next]_(Mon!vars)
    OBVIOUS
  <2> USE NilAssumption
  <2>1. ASSUME NEW f \in Fibers, Lock(f) PROVE Mon!Call(f)
    <3>1. pc[f] = "out" /\ UNCHANGED cwaiters /\ pc \in [Fibers -> {"out", "lock", "in", "wait"}]
      BY <2>1 DEF Lock, Running, IInv, TypeOK
    <3>2. \/ pc' = [pc EXCEPT ![f] = "lock"]
          \/ pc' = [pc EXCEPT ![f] = "in"] /\ \A g \in Fibers : pc[g] # "in"
      BY <2>1 DEF Lock, IInv, AssertsHold
    <3>3. Notified' = Notified
      BY <3>1, <3>2 DEF Notified
    <3> QED
      BY <3>1, <3>2, <3>3 DEF Mon!Call, Mon!Free
  <2>2. ASSUME NEW f \in Fibers, Unlock(f) \/ UnlockIfNotUnique(f) PROVE Mon!Leave(f)
    <3>1. /\ pc[f] = "in" /\ UNCHANGED cwaiters /\ pc \in [Fibers -> {"out", "lock", "in", "wait"}]
          /\ pc' = [pc EXCEPT ![f] = "out"]
      BY <2>2 DEF Unlock, UnlockIfNotUnique, Running, IInv, TypeOK
    <3> QED
      BY <3>1 DEF Notified, Mon!Leave
  <2>3. ASSUME NEW f \in Fibers, CondWait(f) PROVE Mon!Wait(f)
    <3>1. /\ pc[f] = "in" /\ pc \in [Fibers -> {"out", "lock", "in", "wait"}]
          /\ pc' = [pc EXCEPT ![f] = "wait"]
      BY <2>3 DEF CondWait, Running, IInv, TypeOK
    <3>2. \A x : InQueue(x, cwaiters') <=> InQueue(x, cwaiters) \/ x = f
      BY <2>3, AppendQueue DEF CondWait, IInv, TypeOK
    <3>3. Notified' = Notified
      BY <3>1, <3>2 DEF Notified
    <3> QED
      BY <3>1, <3>3 DEF Mon!Wait
  <2>4. ASSUME NEW f \in Fibers, SignalPop(f) PROVE Mon!Notify({Head(cwaiters)})
    <3>1. cwaiters # <<>> /\ cwaiters' = Tail(cwaiters) /\ UNCHANGED pc
      BY <2>4 DEF SignalPop
    <3>2. /\ Head(cwaiters) \in Fibers /\ InQueue(Head(cwaiters), cwaiters)
          /\ \A x : InQueue(x, cwaiters) <=> InQueue(x, cwaiters') \/ x = Head(cwaiters)
          /\ ~InQueue(Head(cwaiters), cwaiters')
      BY <3>1, TailQueue DEF IInv, TypeOK, OnePlace
    <3>3. pc[Head(cwaiters)] = "wait"
      BY <3>2 DEF IInv, PlaceFits
    <3> QED
      BY <3>1, <3>2, <3>3 DEF Mon!Notify, Notified
  <2>5. ASSUME NEW f \in Fibers, Broadcast(f)
        PROVE  Mon!Notify({g \in Fibers : InQueue(g, cwaiters)})
    <3>1. cwaiters # <<>> /\ UNCHANGED pc /\ \A x : ~InQueue(x, cwaiters')
      BY <2>5 DEF Broadcast, InQueue
    <3>2. Head(cwaiters) \in Fibers /\ InQueue(Head(cwaiters), cwaiters)
      BY <3>1, TailQueue DEF IInv, TypeOK
    <3> QED
      BY <3>1, <3>2 DEF Mon!Notify, Notified, IInv, PlaceFits
  <2>6. ASSUME NEW f \in Fibers, Resume(f) PROVE Mon!Enter(f) \/ Mon!Reenter(f)
    <3>1. /\ pc' = [pc EXCEPT ![f] = "in"] /\ UNCHANGED cwaiters
          /\ pc \in [Fibers -> {"out", "lock", "in", "wait"}]
      BY <2>6 DEF Resume, IInv, TypeOK
    <3>2. Blocked(f) /\ ~Parked(f) /\ owner = f
      BY <2>6 DEF Resume, IInv, WokenExactlyOnce, WakeUps
    <3>3. \A g \in Fibers : pc[g] # "in"
      BY <3>2 DEF IInv, AssertsHold, Blocked
    <3>4. CASE pc[f] = "lock"
      BY <3>1, <3>3, <3>4 DEF Mon!Enter, Mon!Free, Notified
    <3>5. CASE pc[f] = "wait"
      BY <3>1, <3>2, <3>3, <3>5 DEF Mon!Reenter, Mon!Free, Notified, Parked
    <3> QED
      BY <3>2, <3>4, <3>5 DEF Blocked
  <2>7. ASSUME NEW f \in Fibers, SignalMove(f) \/ YieldToHold(f) PROVE UNCHANGED Mon!vars
    BY <2>7 DEF SignalMove, YieldToHold, Mon!vars, Notified
  <2>8. CASE UNCHANGED vars
    BY <2>8 DEF vars, Mon!vars, Notified
  <2>9. /\ {Head(cwaiters)} \in SUBSET Fibers \/ cwaiters = <<>>
        /\ {g \in Fibers : InQueue(g, cwaiters)} \in SUBSET Fibers
    BY TailQueue DEF IInv, TypeOK
  <2>10. ASSUME NEW f \in Fibers, SignalPop(f) PROVE Mon!Next
    BY <2>4, <2>9, <2>10 DEF Mon!Next, SignalPop
  <2>11. ASSUME NEW f \in Fibers, Broadcast(f) PROVE Mon!Next
    BY <2>5, <2>9, <2>11 DEF Mon!Next
  <2> QED
    BY <2>1, <2>2, <2>3, <2>6, <2>7, <2>8, <2>10, <2>11 DEF Next, Step, Mon!Next
<1> QED
  BY <1>1, <1>2, Invariance, PTL DEF Spec, MonitorSpec, Mon!Spec

-----------------------------------------------------------------------------
(***************************************************************************)
(* The inductive invariant.  Counting permits needs to know that a fiber   *)
(* is in one place at a time and that no callback is submitted twice; that *)
(* WaitAll() saw everything needs that nobody else is inside Schedule()    *)
(* once the owner has set _isFinish, and how far the owner's loop is.      *)
(***************************************************************************)

\* A fiber is in wait() exactly when it is queued, once, or scheduled.
InOnePlace ==
    /\ IsInjective(waitQueue)
    /\ ToSet(waitQueue) \cap woken = {}
    /\ \A f \in Submitters : at[f] = "hold" <=> f \in ToSet(waitQueue) \cup woken

\* A callback that is not in the scheduler yet is with one fiber, in one set.
OneOwner ==
    /\ \A f \in Submitters : todo[f] \cap held[f] = {}
    /\ \A f, g \in Submitters :
          f # g => (todo[f] \cup held[f]) \cap (todo[g] \cup held[g]) = {}
    /\ \A f \in Submitters : \A t \in todo[f] \cup held[f] : task[t] = "given"
    /\ \A t \in Tasks : task[t] = "given" => \E f \in Submitters : t \in todo[f] \cup held[f]

\* Only the owner is in WaitAll(), after everybody else has left Schedule().
PhaseFits ==
    /\ \A f \in Submitters : at[f] \in {"loop", "take", "counted", "finish", "returned"}
                                => f = Owner /\ isFinish
    /\ isFinish => /\ at[Owner] \notin {"idle", "acquire", "permit", "granted"}
                   /\ \A f \in Submitters \ {Owner} : at[f] = "idle"
    /\ \A f \in Submitters : at[f] = "idle" \/ isFinish => todo[f] = {} /\ held[f] = {}

\* How many permits WaitAll() has taken, by where it is.
LoopFits ==
    /\ ~isFinish => left = BatchSize
    /\ isFinish /\ at[Owner] \in {"take", "hold", "counted"} => left > 0
    /\ at[Owner] \in {"finish", "returned"} => left = 0 \/ isTimeouted

GroupInv == GroupTypeOK /\ InOnePlace /\ OneOwner /\ PhaseFits /\ LoopFits /\ PermitsConserved
-----------------------------------------------------------------------------
(***************************************************************************)
(* Counting.                                                               *)
(***************************************************************************)

\* The sets that PermitsConserved counts are finite.
LEMMA CountsAreNat ==
    ASSUME GroupTypeOK
    PROVE  /\ IsFiniteSet(woken) /\ Cardinality(woken) \in Nat
           /\ IsFiniteSet(InFlight) /\ Cardinality(InFlight) \in Nat
           /\ IsFiniteSet(Kept) /\ Cardinality(Kept) \in Nat
           /\ IsFiniteSet(Holders) /\ Cardinality(Holders) \in Nat
           /\ concurrency \in Nat /\ left \in Nat /\ BatchSize \in Nat
<1>1. woken \in SUBSET Submitters /\ Holders \in SUBSET Submitters
  BY DEF GroupTypeOK, Holders
<1>2. InFlight \in SUBSET Tasks /\ Kept \in SUBSET Tasks
  BY DEF GroupTypeOK, InFlight, Kept
<1>3. IsFiniteSet(woken) /\ IsFiniteSet(Holders) /\ IsFiniteSet(InFlight) /\ IsFiniteSet(Kept)
  BY <1>1, <1>2, FS_Subset, GroupAssumption
<1>4. concurrency \in Nat /\ left \in Nat /\ BatchSize \in Nat
  BY GroupAssumption DEF GroupTypeOK
<1> QED
  BY <1>3, <1>4, FS_CardinalityType

\* The same after a step.
LEMMA CountsStayNat ==
    ASSUME GroupTypeOK'
    PROVE  /\ Cardinality(woken') \in Nat /\ Cardinality(InFlight') \in Nat
           /\ Cardinality(Kept') \in Nat /\ Cardinality(Holders') \in Nat
           /\ concurrency' \in Nat /\ left' \in Nat
<1>1. woken' \in SUBSET Submitters /\ Holders' \in SUBSET Submitters
  BY DEF GroupTypeOK, Holders
<1>2. InFlight' \in SUBSET Tasks /\ Kept' \in SUBSET Tasks
  BY DEF GroupTypeOK, InFlight, Kept
<1>3. IsFiniteSet(woken') /\ IsFiniteSet(Holders') /\ IsFiniteSet(InFlight') /\ IsFiniteSet(Kept')
  BY <1>1, <1>2, FS_Subset, GroupAssumption
<1>4. concurrency' \in Nat /\ left' \in Nat
  BY GroupAssumption DEF GroupTypeOK
<1> QED
  BY <1>3, <1>4, FS_CardinalityType

\* A step that leaves the sum alone, and no fiber waiting beside a free permit,
\* conserves the permits.
QueueNeedsNone == waitQueue # <<>> => concurrency = 0
Permits == concurrency + Cardinality(woken) + Cardinality(InFlight)
             + Cardinality(Kept) + Cardinality(Holders) - left

LEMMA SameSum ==
    ASSUME GroupTypeOK, GroupTypeOK', PermitsConserved, QueueNeedsNone', isTimeouted' = isTimeouted,
           Permits' = Permits
    PROVE  PermitsConserved'
<1>1. ~isTimeouted => Permits = 0
  <2>1. ~isTimeouted =>
          concurrency + Cardinality(woken) + Cardinality(InFlight) + Cardinality(Kept)
            + Cardinality(Holders) + (BatchSize - left) = BatchSize
    BY DEF PermitsConserved
  <2>2. /\ Cardinality(woken) \in Int /\ Cardinality(InFlight) \in Int
        /\ Cardinality(Kept) \in Int /\ Cardinality(Holders) \in Int
        /\ concurrency \in Int /\ left \in Int /\ BatchSize \in Int
    BY CountsAreNat
  <2> QED
    BY ONLY <2>1, <2>2 DEF Permits
<1>2. Permits' = 0 =>
          concurrency' + Cardinality(woken') + Cardinality(InFlight') + Cardinality(Kept')
            + Cardinality(Holders') + (BatchSize - left') = BatchSize
  BY CountsAreNat, CountsStayNat DEF Permits
<1> QED
  BY <1>1, <1>2 DEF PermitsConserved, QueueNeedsNone

\* A fiber that moves counts as a holder of a permit by where it goes.
LEMMA MoveCounts ==
    ASSUME GroupTypeOK, NEW f \in Submitters, NEW l, Goto(f, l)
    PROVE  LET H == {"granted", "counted"}
           IN  /\ l \in H /\ at[f] \notin H => Cardinality(Holders') = Cardinality(Holders) + 1
               /\ l \notin H /\ at[f] \in H => Cardinality(Holders') = Cardinality(Holders) - 1
               /\ (l \in H <=> at[f] \in H) => Holders' = Holders
<1> DEFINE H == {"granted", "counted"}
<1>1. /\ l \in H => Holders' = Holders \cup {f}
      /\ l \notin H => Holders' = Holders \ {f}
      /\ f \in Holders <=> at[f] \in H
  BY DEF GroupTypeOK, Goto, Holders
<1>2. /\ Cardinality(Holders \cup {f}) = IF f \in Holders THEN Cardinality(Holders)
                                                          ELSE Cardinality(Holders) + 1
      /\ Cardinality(Holders \ {f}) = IF f \in Holders THEN Cardinality(Holders) - 1
                                                       ELSE Cardinality(Holders)
  BY CountsAreNat, FS_AddElement, FS_RemoveElement
<1> QED
  BY <1>1, <1>2

\* A callback that becomes queued or done changes the number in flight by one.
LEMMA FlightCounts ==
    ASSUME GroupTypeOK, NEW t \in Tasks, NEW l, task' = [task EXCEPT ![t] = l]
    PROVE  LET F == {"queued", "running", "ended"}
           IN  /\ l \in F /\ task[t] \notin F => Cardinality(InFlight') = Cardinality(InFlight) + 1
               /\ l \notin F /\ task[t] \in F => Cardinality(InFlight') = Cardinality(InFlight) - 1
               /\ (l \in F <=> task[t] \in F) => InFlight' = InFlight
<1> DEFINE F == {"queued", "running", "ended"}
<1>1. /\ l \in F => InFlight' = InFlight \cup {t}
      /\ l \notin F => InFlight' = InFlight \ {t}
      /\ t \in InFlight <=> task[t] \in F
  BY DEF GroupTypeOK, InFlight
<1>2. /\ Cardinality(InFlight \cup {t}) = IF t \in InFlight THEN Cardinality(InFlight)
                                                            ELSE Cardinality(InFlight) + 1
      /\ Cardinality(InFlight \ {t}) = IF t \in InFlight THEN Cardinality(InFlight) - 1
                                                         ELSE Cardinality(InFlight)
  BY CountsAreNat, FS_AddElement, FS_RemoveElement
<1> QED
  BY <1>1, <1>2

\* Putting a vector's callbacks into the scheduler moves them from one count to
\* the other.
LEMMA PushCounts ==
    ASSUME GroupTypeOK, OneOwner, NEW f \in Submitters,
           task' = [t \in Tasks |-> IF t \in held[f] THEN "queued" ELSE task[t]],
           held' = [held EXCEPT ![f] = {}]
    PROVE  Cardinality(InFlight') + Cardinality(Kept') = Cardinality(InFlight) + Cardinality(Kept)
<1>1. Kept' = Kept \ held[f] /\ held[f] \subseteq Kept
  <2>1. \A g \in Submitters \ {f} : held[g] \cap held[f] = {} /\ held'[g] = held[g]
    BY DEF OneOwner, GroupTypeOK
  <2>2. held'[f] = {}
    BY DEF GroupTypeOK
  <2> QED
    BY <2>1, <2>2 DEF Kept
<1>2. InFlight' = InFlight \cup held[f] /\ InFlight \cap held[f] = {}
  BY DEF GroupTypeOK, OneOwner, InFlight
<1>3. IsFiniteSet(held[f]) /\ Cardinality(held[f]) \in Nat
  BY <1>1, CountsAreNat, FS_Subset, FS_CardinalityType
<1>4. Cardinality(InFlight') = Cardinality(InFlight) + Cardinality(held[f])
  BY <1>2, <1>3, CountsAreNat, DisjointUnion
<1>5. Cardinality(Kept) = Cardinality(Kept') + Cardinality(held[f])
  <2>1. IsFiniteSet(Kept \ held[f])
    BY CountsAreNat, FS_Subset
  <2>2. (Kept \ held[f]) \cup held[f] = Kept /\ (Kept \ held[f]) \cap held[f] = {}
    BY <1>1
  <2>3. Cardinality((Kept \ held[f]) \cup held[f]) = Cardinality(Kept \ held[f]) + Cardinality(held[f])
    BY <2>1, <2>2, <1>3, DisjointUnion
  <2> QED
    BY <2>2, <2>3, <1>1
<1>6. Cardinality(Kept') \in Nat
  BY <1>1, CountsAreNat, FS_Subset, FS_CardinalityType
<1> QED
  BY <1>3, <1>4, <1>5, <1>6, CountsAreNat

\* post(): with a waiter the permit is on its way, else it is in the counter.
LEMMA PostCounts ==
    ASSUME GroupTypeOK, InOnePlace, SemPost
    PROVE  concurrency' + Cardinality(woken') = concurrency + Cardinality(woken) + 1
<1>1. CASE waitQueue # <<>>
  <2>1. Head(waitQueue) \in ToSet(waitQueue)
    BY <1>1, TailSet DEF GroupTypeOK
  <2>2. Head(waitQueue) \notin woken
    BY <2>1 DEF InOnePlace
  <2>3. Cardinality(woken') = Cardinality(woken) + 1 /\ concurrency' = concurrency
    BY <1>1, <2>2, CountsAreNat, FS_AddElement DEF SemPost
  <2> QED
    BY <2>3, CountsAreNat DEF GroupTypeOK
<1>2. CASE waitQueue = <<>>
  BY <1>2, CountsAreNat DEF SemPost, GroupTypeOK
<1> QED
  BY <1>1, <1>2
-----------------------------------------------------------------------------
(***************************************************************************)
(* The semaphore's operations, whoever calls them.                         *)
(***************************************************************************)

SemTypeOK == concurrency \in Nat /\ waitQueue \in Seq(Submitters) /\ woken \subseteq Submitters

\* wait() takes one permit for its caller or parks it.
LEMMA WaitKeeps ==
    ASSUME GroupInv, NEW f \in Submitters, NEW l \in {"granted", "counted"},
           at[f] \in {"permit", "take"}, SemWait(f, l)
    PROVE  /\ SemTypeOK' /\ InOnePlace' /\ QueueNeedsNone'
           /\ concurrency' + Cardinality(woken') + Cardinality(Holders')
                = concurrency + Cardinality(woken) + Cardinality(Holders)
           /\ Goto(f, l) \/ Goto(f, "hold")
<1> USE DEF GroupInv
<1>1. CASE concurrency > 0
  <2>1. /\ concurrency' = concurrency - 1 /\ Goto(f, l)
        /\ waitQueue' = waitQueue /\ woken' = woken
    BY <1>1 DEF SemWait, GroupTypeOK
  <2>2. Cardinality(Holders') = Cardinality(Holders) + 1
    BY <2>1, MoveCounts
  <2>3. SemTypeOK' /\ QueueNeedsNone'
    BY <1>1, <2>1 DEF GroupTypeOK, SemTypeOK, QueueNeedsNone, PermitsConserved
  <2>4. InOnePlace'
    BY <2>1 DEF InOnePlace, Goto, GroupTypeOK
  <2>5. concurrency' + Cardinality(woken') + Cardinality(Holders')
           = concurrency + Cardinality(woken) + Cardinality(Holders)
    <3>1. Cardinality(woken) \in Nat /\ Cardinality(Holders) \in Nat /\ concurrency \in Nat
      BY CountsAreNat
    <3>2. Cardinality(woken') = Cardinality(woken) /\ concurrency' = concurrency - 1
      BY <2>1
    <3>3. \A c, w, h \in Nat : (c - 1) + w + (h + 1) = c + w + h
      OBVIOUS
    <3> QED
      BY ONLY <3>1, <3>2, <3>3, <2>2
  <2> QED
    BY <2>1, <2>3, <2>4, <2>5
<1>2. CASE concurrency = 0
  <2>1. /\ concurrency' = concurrency /\ Goto(f, "hold")
        /\ waitQueue' = Append(waitQueue, f) /\ woken' = woken
    BY <1>2 DEF SemWait, GroupTypeOK
  <2>2. Holders' = Holders
    BY <2>1, MoveCounts
  <2>3. f \notin ToSet(waitQueue) /\ f \notin woken
    BY DEF InOnePlace
  <2>4. /\ waitQueue' \in Seq(Submitters) /\ ToSet(waitQueue') = ToSet(waitQueue) \cup {f}
        /\ IsInjective(waitQueue')
    BY <2>1, <2>3, AppendSet DEF GroupTypeOK, InOnePlace
  <2>5. SemTypeOK' /\ QueueNeedsNone'
    BY <1>2, <2>1, <2>4 DEF GroupTypeOK, SemTypeOK, QueueNeedsNone
  <2>6. InOnePlace'
    BY <2>1, <2>3, <2>4 DEF InOnePlace, Goto, GroupTypeOK
  <2> QED
    BY <2>1, <2>2, <2>5, <2>6
<1> QED
  BY <1>1, <1>2 DEF SemWait

\* post() and notifyAll() only move fibers from the queue to the scheduler.
LEMMA PostKeeps ==
    ASSUME GroupInv, SemPost \/ SemNotifyAll, at' = at
    PROVE  SemTypeOK' /\ InOnePlace' /\ QueueNeedsNone'
<1> USE DEF GroupInv
<1>1. CASE SemPost /\ waitQueue # <<>>
  <2>1. /\ woken' = woken \cup {Head(waitQueue)} /\ waitQueue' = Tail(waitQueue)
        /\ concurrency' = concurrency
    BY <1>1 DEF SemPost
  <2>2. /\ Head(waitQueue) \in ToSet(waitQueue) /\ Head(waitQueue) \in Submitters
        /\ waitQueue' \in Seq(Submitters) /\ IsInjective(waitQueue')
        /\ ToSet(waitQueue') = ToSet(waitQueue) \ {Head(waitQueue)}
    BY <1>1, <2>1, TailSet DEF GroupTypeOK, InOnePlace
  <2> QED
    BY <1>1, <2>1, <2>2 DEF SemTypeOK, QueueNeedsNone, InOnePlace, GroupTypeOK, PermitsConserved
<1>2. CASE SemPost /\ waitQueue = <<>>
  BY <1>2 DEF SemPost, SemTypeOK, QueueNeedsNone, InOnePlace, GroupTypeOK, PermitsConserved
<1>3. CASE SemNotifyAll
  <2>1. woken' = woken \cup ToSet(waitQueue) /\ waitQueue' = <<>> /\ concurrency' = concurrency
    BY <1>3 DEF SemNotifyAll, ToSet
  <2>2. ToSet(waitQueue) \subseteq Submitters
    BY SetOfQueue DEF GroupTypeOK
  <2> QED
    BY <2>1, <2>2, EmptyQueue DEF SemTypeOK, QueueNeedsNone, InOnePlace, GroupTypeOK
<1> QED
  BY <1>1, <1>2, <1>3
-----------------------------------------------------------------------------
(***************************************************************************)
(* Every action keeps the invariant.                                       *)
(***************************************************************************)

\* Schedule() takes callbacks nobody has.
LEMMA CallKeeps ==
    ASSUME GroupInv, NEW f \in Submitters, Call(f)
    PROVE  GroupInv'
<1> USE DEF GroupInv
<1>1. PICK S \in SUBSET {t \in Tasks : task[t] = "new"} :
          /\ todo' = [todo EXCEPT ![f] = S]
          /\ task' = [t \in Tasks |-> IF t \in S THEN "given" ELSE task[t]]
  BY DEF Call
<1>2. /\ at[f] = "idle" /\ ~isFinish /\ Goto(f, "acquire")
      /\ UNCHANGED <<timed, concurrency, waitQueue, woken, held, left, isFinish, isTimeouted, timer>>
  BY DEF Call, sem, flags
<1>3. GroupTypeOK'
  BY <1>1, <1>2 DEF GroupTypeOK, Goto
<1>4. InOnePlace'
  BY <1>2 DEF InOnePlace, GroupTypeOK, Goto
<1>5. OneOwner'
  BY <1>1, <1>2 DEF OneOwner, GroupTypeOK, PhaseFits
<1>6. PhaseFits'
  BY <1>1, <1>2 DEF PhaseFits, GroupTypeOK, Goto
<1>7. LoopFits'
  BY <1>2, GroupAssumption DEF LoopFits, GroupTypeOK, Goto
<1>8. PermitsConserved'
  <2>1. Holders' = Holders
    BY <1>2, MoveCounts
  <2>2. InFlight' = InFlight /\ Kept' = Kept
    BY <1>1, <1>2 DEF InFlight, Kept, GroupTypeOK
  <2> QED
    BY <1>2, <2>1, <2>2 DEF PermitsConserved
<1> QED
  BY <1>3, <1>4, <1>5, <1>6, <1>7, <1>8

\* The test before wait() only moves the fiber; without a permit it goes on after a timeout only.
LEMMA TestKeeps ==
    ASSUME GroupInv, NEW f \in Submitters, Test(f)
    PROVE  GroupInv'
<1> USE DEF GroupInv
<1>1. /\ at[f] = "acquire" /\ ~isFinish
      /\ UNCHANGED <<timed, concurrency, waitQueue, woken, todo, held, left, task, isFinish, isTimeouted, timer>>
  BY DEF Test, sem, flags, PhaseFits
<1>2. InFlight' = InFlight /\ Kept' = Kept
  BY <1>1 DEF InFlight, Kept
<1>3. CASE timed /\ isTimeouted
  <2>1. Goto(f, "granted")
    BY <1>3 DEF Test
  <2>2. GroupTypeOK' /\ InOnePlace' /\ PhaseFits'
    BY <1>1, <2>1 DEF GroupTypeOK, InOnePlace, PhaseFits, Goto
  <2>3. OneOwner' /\ LoopFits'
    BY <1>1, <2>1, GroupAssumption DEF OneOwner, LoopFits, GroupTypeOK, Goto
  <2>4. PermitsConserved'
    BY <1>1, <1>3 DEF PermitsConserved
  <2> QED
    BY <2>2, <2>3, <2>4
<1>4. CASE ~(timed /\ isTimeouted)
  <2>1. Goto(f, "permit")
    BY <1>4 DEF Test
  <2>2. GroupTypeOK' /\ InOnePlace' /\ PhaseFits'
    BY <1>1, <2>1 DEF GroupTypeOK, InOnePlace, PhaseFits, Goto
  <2>3. OneOwner' /\ LoopFits'
    BY <1>1, <2>1, GroupAssumption DEF OneOwner, LoopFits, GroupTypeOK, Goto
  <2>4. Holders' = Holders
    BY <1>1, <2>1, MoveCounts
  <2>5. PermitsConserved'
    BY <1>1, <1>2, <2>4 DEF PermitsConserved
  <2> QED
    BY <2>2, <2>3, <2>5
<1> QED
  BY <1>3, <1>4

\* The permit for the next callback is taken or waited for.
LEMMA AcquireKeeps ==
    ASSUME GroupInv, NEW f \in Submitters, Acquire(f)
    PROVE  GroupInv'
<1> USE DEF GroupInv
<1>1. /\ at[f] = "permit" /\ ~isFinish
      /\ UNCHANGED <<timed, todo, held, left, task, isFinish, isTimeouted, timer>>
  BY DEF Acquire, flags, PhaseFits
<1>2. InFlight' = InFlight /\ Kept' = Kept
  BY <1>1 DEF InFlight, Kept
<1>3. /\ SemTypeOK' /\ InOnePlace' /\ QueueNeedsNone'
      /\ concurrency' + Cardinality(woken') + Cardinality(Holders')
           = concurrency + Cardinality(woken) + Cardinality(Holders)
      /\ Goto(f, "granted") \/ Goto(f, "hold")
  BY <1>1, WaitKeeps DEF Acquire
<1>4. GroupTypeOK'
  BY <1>1, <1>3 DEF GroupTypeOK, SemTypeOK, Goto
<1>5. PhaseFits' /\ LoopFits'
  BY <1>1, <1>3, GroupAssumption DEF PhaseFits, LoopFits, GroupTypeOK, Goto
<1>6. OneOwner'
  BY <1>1 DEF OneOwner
<1>7. PermitsConserved'
  <2>1. Permits' = Permits
    BY <1>1, <1>2, <1>3, <1>4, CountsAreNat, CountsStayNat DEF Permits
  <2> QED
    BY <1>1, <1>2, <1>3, <1>4, <2>1, SameSum DEF PermitsConserved, QueueNeedsNone
<1> QED
  BY <1>3, <1>4, <1>5, <1>6, <1>7

\* A callback gets the permit: it is kept, or put into the scheduler.
LEMMA GrantedKeeps ==
    ASSUME GroupInv, NEW f \in Submitters, Granted(f)
    PROVE  GroupInv'
<1> USE DEF GroupInv
<1>1. PICK t \in todo[f] :
          /\ todo' = [todo EXCEPT ![f] = @ \ {t}]
          /\ IF timed
             THEN task' = [task EXCEPT ![t] = "queued"] /\ UNCHANGED held
             ELSE held' = [held EXCEPT ![f] = @ \cup {t}] /\ UNCHANGED task
  BY DEF Granted
<1>2. /\ at[f] = "granted" /\ ~isFinish /\ Goto(f, "acquire")
      /\ UNCHANGED <<timed, concurrency, waitQueue, woken, left, isFinish, isTimeouted, timer>>
  BY DEF Granted, sem, flags, PhaseFits
<1>3. t \in Tasks /\ task[t] = "given" /\ t \notin held[f]
  BY <1>1 DEF GroupTypeOK, OneOwner
<1>4. GroupTypeOK'
  BY <1>1, <1>2, <1>3 DEF GroupTypeOK, Goto
<1>5. InOnePlace'
  BY <1>2 DEF InOnePlace, GroupTypeOK, Goto
<1>6. OneOwner'
  <2>1. CASE timed
    BY <2>1, <1>1, <1>3 DEF OneOwner, GroupTypeOK
  <2>2. CASE ~timed
    BY <2>2, <1>1, <1>3 DEF OneOwner, GroupTypeOK
  <2> QED
    BY <2>1, <2>2
<1>7. PhaseFits'
  BY <1>1, <1>2 DEF PhaseFits, GroupTypeOK, Goto
<1>8. LoopFits'
  BY <1>2, GroupAssumption DEF LoopFits, GroupTypeOK, Goto
<1>9. PermitsConserved'
  <2>1. Cardinality(Holders') = Cardinality(Holders) - 1
    BY <1>2, MoveCounts
  <2>2. Cardinality(InFlight') + Cardinality(Kept') = Cardinality(InFlight) + Cardinality(Kept) + 1
    <3>1. CASE timed
      <4>1. Kept' = Kept
        BY <1>1, <3>1 DEF Kept
      <4>2. Cardinality(InFlight') = Cardinality(InFlight) + 1
        BY <1>1, <1>3, <3>1, FlightCounts
      <4> QED
        BY <4>1, <4>2, CountsAreNat
    <3>2. CASE ~timed
      <4>1. InFlight' = InFlight
        BY <1>1, <3>2 DEF InFlight
      <4>2. Kept' = Kept \cup {t} /\ t \notin Kept
        BY <1>1, <1>3, <3>2 DEF Kept, GroupTypeOK, OneOwner
      <4>3. Cardinality(Kept') = Cardinality(Kept) + 1
        BY <4>2, CountsAreNat, FS_AddElement
      <4> QED
        BY <4>1, <4>3, CountsAreNat
    <3> QED
      BY <3>1, <3>2
  <2>8. Permits' = Permits
    BY <1>2, <1>4, <2>1, <2>2, CountsAreNat, CountsStayNat DEF Permits
  <2> QED
    BY <1>2, <1>4, <2>1, <2>2, <2>8, SameSum DEF PermitsConserved, QueueNeedsNone
<1> QED
  BY <1>4, <1>5, <1>6, <1>7, <1>8, <1>9

\* All of the vector goes into the scheduler.
LEMMA PushKeeps ==
    ASSUME GroupInv, NEW f \in Submitters, Push(f)
    PROVE  GroupInv'
<1> USE DEF GroupInv
<1>1. /\ at[f] = "acquire" /\ todo[f] = {} /\ ~isFinish
      /\ task' = [t \in Tasks |-> IF t \in held[f] THEN "queued" ELSE task[t]]
      /\ held' = [held EXCEPT ![f] = {}]
      /\ Goto(f, "idle")
      /\ UNCHANGED <<timed, concurrency, waitQueue, woken, todo, left, isFinish, isTimeouted, timer>>
  BY DEF Push, sem, flags, PhaseFits
<1>2. GroupTypeOK'
  BY <1>1 DEF GroupTypeOK, Goto
<1>3. InOnePlace' /\ PhaseFits' /\ LoopFits'
  BY <1>1, GroupAssumption DEF InOnePlace, PhaseFits, LoopFits, GroupTypeOK, Goto
<1>4. OneOwner'
  BY <1>1 DEF OneOwner, GroupTypeOK
<1>5. PermitsConserved'
  <2>1. Holders' = Holders
    BY <1>1, MoveCounts
  <2>2. Cardinality(InFlight') + Cardinality(Kept') = Cardinality(InFlight) + Cardinality(Kept)
    BY <1>1, PushCounts
  <2>8. Permits' = Permits
    BY <1>1, <1>2, <2>1, <2>2, CountsAreNat, CountsStayNat DEF Permits
  <2> QED
    BY <1>1, <1>2, <2>1, <2>2, <2>8, SameSum DEF PermitsConserved, QueueNeedsNone
<1> QED
  BY <1>2, <1>3, <1>4, <1>5

\* A woken fiber goes on with the permit it was handed, or without one.
LEMMA ResumeKeeps ==
    ASSUME GroupInv, NEW f \in Submitters, SubmitterResume(f)
    PROVE  GroupInv'
<1> USE DEF GroupInv
<1> DEFINE l == IF isFinish THEN "counted" ELSE "granted"
<1>1. /\ f \in woken /\ woken' = woken \ {f} /\ Goto(f, l)
      /\ UNCHANGED <<timed, concurrency, waitQueue, todo, held, left, task, isFinish, isTimeouted, timer>>
  BY DEF SubmitterResume, flags
<1>2. at[f] = "hold" /\ (isFinish => f = Owner)
  BY <1>1 DEF InOnePlace, PhaseFits
<1>3. GroupTypeOK'
  BY <1>1 DEF GroupTypeOK, Goto
<1>4. InOnePlace'
  BY <1>1, <1>2 DEF InOnePlace, GroupTypeOK, Goto
<1>5. PhaseFits' /\ LoopFits'
  BY <1>1, <1>2, GroupAssumption DEF PhaseFits, LoopFits, GroupTypeOK, Goto
<1>6. OneOwner'
  BY <1>1 DEF OneOwner
<1>7. PermitsConserved'
  <2>1. Cardinality(Holders') = Cardinality(Holders) + 1
    BY <1>1, <1>2, MoveCounts
  <2>2. Cardinality(woken') = Cardinality(woken) - 1
    BY <1>1, CountsAreNat, FS_RemoveElement
  <2>3. InFlight' = InFlight /\ Kept' = Kept
    BY <1>1 DEF InFlight, Kept
  <2>8. Permits' = Permits
    BY <1>1, <1>3, <2>1, <2>2, <2>3, CountsAreNat, CountsStayNat DEF Permits
  <2> QED
    BY <1>1, <1>3, <2>1, <2>2, <2>3, <2>8, SameSum DEF PermitsConserved, QueueNeedsNone
<1> QED
  BY <1>3, <1>4, <1>5, <1>6, <1>7

\* doWork(): the callback runs and its permit is posted.
LEMMA TaskKeeps ==
    ASSUME GroupInv, NEW t \in Tasks, TaskStep(t)
    PROVE  GroupInv'
<1> USE DEF GroupInv
<1>1. /\ task[t] \in {"queued", "running", "ended"}
      /\ UNCHANGED <<timed, at, todo, held, left, isFinish, isTimeouted, timer>>
      /\ Holders' = Holders /\ Kept' = Kept
  BY DEF TaskStep, Start, End, Post, flags, Holders, Kept
<1>2. PICK l \in {"running", "ended", "done"} : task' = [task EXCEPT ![t] = l]
  BY DEF TaskStep, Start, End, Post
<1>3. OneOwner' /\ PhaseFits' /\ LoopFits'
  BY <1>1, <1>2 DEF OneOwner, PhaseFits, LoopFits, GroupTypeOK
<1>4. CASE Start(t) \/ End(t)
  <2>1. UNCHANGED <<concurrency, waitQueue, woken>> /\ InFlight' = InFlight
    BY <1>4, FlightCounts DEF Start, End, sem
  <2>2. GroupTypeOK' /\ InOnePlace'
    BY <1>1, <1>2, <2>1 DEF GroupTypeOK, InOnePlace
  <2>3. PermitsConserved'
    BY <1>1, <2>1 DEF PermitsConserved
  <2> QED
    BY <1>3, <2>2, <2>3
<1>5. CASE Post(t)
  <2>1. Cardinality(InFlight') = Cardinality(InFlight) - 1
    <3>1. task[t] = "ended" /\ task' = [task EXCEPT ![t] = "done"]
      BY <1>5 DEF Post
    <3>2. "done" \notin {"queued", "running", "ended"} /\ GroupTypeOK
      OBVIOUS
    <3> QED
      BY ONLY <3>1, <3>2, t \in Tasks, FlightCounts
  <2>2. concurrency' + Cardinality(woken') = concurrency + Cardinality(woken) + 1
    BY <1>5, PostCounts DEF Post
  <2>3. SemTypeOK' /\ InOnePlace' /\ QueueNeedsNone'
    BY <1>1, <1>5, PostKeeps DEF Post
  <2>4. GroupTypeOK'
    BY <1>1, <1>2, <2>3 DEF GroupTypeOK, SemTypeOK
  <2>5. PermitsConserved'
    <3>1. Permits' = Permits
      BY <1>1, <2>1, <2>2, <2>3, <2>4, CountsAreNat, CountsStayNat DEF Permits
    <3> QED
      BY <1>1, <2>1, <2>2, <2>3, <2>4, <3>1, SameSum DEF PermitsConserved, QueueNeedsNone
  <2> QED
    BY <1>3, <2>3, <2>4, <2>5
<1> QED
  BY <1>4, <1>5 DEF TaskStep

\* WaitAll(): everybody has left Schedule(), then the owner takes permits.
LEMMA WaitAllKeeps ==
    ASSUME GroupInv, WaitAll \/ WaitStep
    PROVE  GroupInv'
<1> USE GroupAssumption DEF GroupInv
<1>1. UNCHANGED <<timed, todo, held, task, isTimeouted>> /\ InFlight' = InFlight /\ Kept' = Kept
  BY DEF WaitAll, WaitStep, WaitLoop, WaitTake, WaitCounted, WaitReturn, flags, InFlight, Kept
<1>2. OneOwner'
  BY <1>1 DEF OneOwner
<1>3. CASE WaitAll
  <2>1. Holders' = Holders
    BY <1>3, MoveCounts DEF WaitAll
  <2>2. GroupTypeOK' /\ InOnePlace' /\ PhaseFits' /\ LoopFits'
    BY <1>1, <1>3 DEF WaitAll, GroupTypeOK, InOnePlace, PhaseFits, LoopFits, Goto, sem
  <2>3. PermitsConserved'
    BY <1>1, <1>3, <2>1 DEF WaitAll, PermitsConserved, sem
  <2> QED
    BY <1>2, <2>2, <2>3
<1>4. CASE WaitLoop
  <2>1. Holders' = Holders
    BY <1>4, MoveCounts DEF WaitLoop
  <2>2. GroupTypeOK' /\ InOnePlace' /\ PhaseFits' /\ LoopFits'
    BY <1>1, <1>4 DEF WaitLoop, GroupTypeOK, InOnePlace, PhaseFits, LoopFits, Goto, sem, flags
  <2>3. PermitsConserved'
    BY <1>1, <1>4, <2>1 DEF WaitLoop, PermitsConserved, sem, flags
  <2> QED
    BY <1>2, <2>2, <2>3
<1>5. CASE WaitTake
  <2>1. /\ SemTypeOK' /\ InOnePlace' /\ QueueNeedsNone'
        /\ concurrency' + Cardinality(woken') + Cardinality(Holders')
             = concurrency + Cardinality(woken) + Cardinality(Holders)
        /\ Goto(Owner, "counted") \/ Goto(Owner, "hold")
    BY <1>5, WaitKeeps DEF WaitTake
  <2>2. at[Owner] = "take" /\ UNCHANGED <<left, isFinish, timer>>
    BY <1>5 DEF WaitTake, flags
  <2>3. GroupTypeOK'
    BY <1>1, <2>1, <2>2 DEF GroupTypeOK, SemTypeOK, Goto
  <2>4. PhaseFits' /\ LoopFits'
    BY <1>1, <2>1, <2>2 DEF PhaseFits, LoopFits, GroupTypeOK, Goto
  <2>5. PermitsConserved'
    <3>1. Permits' = Permits
      BY <1>1, <2>1, <2>2, <2>3, CountsAreNat, CountsStayNat DEF Permits
    <3> QED
      BY <1>1, <2>1, <2>2, <2>3, <3>1, SameSum DEF PermitsConserved, QueueNeedsNone
  <2> QED
    BY <1>2, <2>1, <2>3, <2>4, <2>5
<1>6. CASE WaitCounted
  <2>1. /\ at[Owner] = "counted" /\ isFinish /\ left > 0
        /\ left' = left - 1 /\ Goto(Owner, "loop")
        /\ UNCHANGED <<concurrency, waitQueue, woken, isFinish, timer>>
    BY <1>6 DEF WaitCounted, sem, flags, PhaseFits, LoopFits
  <2>2. Cardinality(Holders') = Cardinality(Holders) - 1
    BY <2>1, MoveCounts
  <2>3. GroupTypeOK' /\ InOnePlace' /\ PhaseFits' /\ LoopFits'
    BY <1>1, <2>1 DEF GroupTypeOK, InOnePlace, PhaseFits, LoopFits, Goto
  <2>4. PermitsConserved'
    <3>1. Permits' = Permits
      BY <1>1, <2>1, <2>2, <2>3, CountsAreNat, CountsStayNat DEF Permits
    <3> QED
      BY <1>1, <2>1, <2>2, <2>3, <3>1, SameSum DEF PermitsConserved, QueueNeedsNone
  <2> QED
    BY <1>2, <2>3, <2>4
<1>7. CASE WaitReturn
  <2>1. /\ at[Owner] = "finish" /\ Goto(Owner, "returned") /\ timer' \in BOOLEAN
        /\ UNCHANGED <<concurrency, waitQueue, woken, left, isFinish>>
    BY <1>7 DEF WaitReturn, sem, GroupTypeOK
  <2>2. Holders' = Holders
    BY <2>1, MoveCounts
  <2>3. GroupTypeOK' /\ InOnePlace' /\ PhaseFits' /\ LoopFits'
    BY <1>1, <2>1 DEF GroupTypeOK, InOnePlace, PhaseFits, LoopFits, Goto
  <2>4. PermitsConserved'
    BY <1>1, <2>1, <2>2 DEF PermitsConserved
  <2> QED
    BY <1>2, <2>3, <2>4
<1> QED
  BY <1>3, <1>4, <1>5, <1>6, <1>7 DEF WaitStep

\* OnTimer(): after it the permits are not counted any more.
LEMMA TimerKeeps ==
    ASSUME GroupInv, TimerFires \/ TimerNotifies
    PROVE  GroupInv'
<1> USE DEF GroupInv
<1>1. UNCHANGED <<timed, at, todo, held, left, task, isFinish>> /\ isTimeouted' /\ timer' \in BOOLEAN
  BY DEF TimerFires, TimerNotifies, GroupTypeOK
<1>2. SemTypeOK' /\ InOnePlace' /\ QueueNeedsNone'
  <2>1. CASE TimerFires
    BY <2>1 DEF TimerFires, sem, SemTypeOK, InOnePlace, QueueNeedsNone, GroupTypeOK, PermitsConserved
  <2>2. CASE TimerNotifies
    BY <2>2, PostKeeps DEF TimerNotifies
  <2> QED
    BY <2>1, <2>2
<1>3. isTimeouted' \in BOOLEAN
  BY DEF TimerFires, TimerNotifies, GroupTypeOK
<1>4. GroupTypeOK'
  BY <1>1, <1>2, <1>3 DEF GroupTypeOK, SemTypeOK
<1>5. OneOwner' /\ PhaseFits' /\ LoopFits'
  BY <1>1 DEF OneOwner, PhaseFits, LoopFits
<1>6. PermitsConserved'
  BY <1>1, <1>2 DEF PermitsConserved, QueueNeedsNone
<1> QED
  BY <1>2, <1>4, <1>5, <1>6
-----------------------------------------------------------------------------
(***************************************************************************)
(* The theorems.                                                           *)
(***************************************************************************)

LEMMA InitHolds == GroupInit => GroupInv
<1> SUFFICES ASSUME GroupInit PROVE GroupInv
  OBVIOUS
<1>1. GroupTypeOK
  <2>1. timed \in BOOLEAN /\ timer \in BOOLEAN /\ isFinish \in BOOLEAN /\ isTimeouted \in BOOLEAN
    BY GroupAssumption DEF GroupInit
  <2>2. concurrency \in Nat /\ left \in 0..BatchSize /\ waitQueue \in Seq(Submitters)
    BY GroupAssumption, EmptyQueue DEF GroupInit
  <2> QED
    BY <2>1, <2>2 DEF GroupInit, GroupTypeOK
<1>2. InOnePlace /\ OneOwner /\ PhaseFits /\ LoopFits
  BY GroupAssumption, EmptyQueue DEF GroupInit, InOnePlace, OneOwner, PhaseFits, LoopFits
<1>3. PermitsConserved
  <2>1. woken = {} /\ InFlight = {} /\ Kept = {} /\ Holders = {}
    BY DEF GroupInit, InFlight, Kept, Holders
  <2>2. Cardinality({}) = 0
    BY FS_EmptySet
  <2> QED
    BY <2>1, <2>2, GroupAssumption DEF GroupInit, PermitsConserved
<1> QED
  BY <1>1, <1>2, <1>3 DEF GroupInv

LEMMA StepKeeps == GroupInv /\ [GroupNext]_groupVars => GroupInv'
<1> SUFFICES ASSUME GroupInv, [GroupNext]_groupVars PROVE GroupInv'
  OBVIOUS
<1>1. ASSUME NEW f \in Submitters, Call(f) \/ SubmitterStep(f) PROVE GroupInv'
  BY <1>1, CallKeeps, TestKeeps, AcquireKeeps, GrantedKeeps, PushKeeps, ResumeKeeps DEF SubmitterStep
<1>2. ASSUME NEW t \in Tasks, TaskStep(t) PROVE GroupInv'
  BY <1>2, TaskKeeps
<1>3. CASE WaitAll \/ WaitStep
  BY <1>3, WaitAllKeeps
<1>4. CASE TimerFires \/ TimerNotifies
  BY <1>4, TimerKeeps
<1>5. CASE UNCHANGED groupVars
  <2>1. UNCHANGED <<timed, concurrency, waitQueue, woken, at, todo, held, left, task,
                    isFinish, isTimeouted, timer>>
    BY <1>5 DEF groupVars, sem, flags
  <2>2. InFlight' = InFlight /\ Kept' = Kept /\ Holders' = Holders
    BY <2>1 DEF InFlight, Kept, Holders
  <2> QED
    BY <2>1, <2>2 DEF GroupInv, GroupTypeOK, InOnePlace, OneOwner, PhaseFits, LoopFits, PermitsConserved
<1> QED
  BY <1>1, <1>2, <1>3, <1>4, <1>5 DEF GroupNext

\* What WaitAll() returning without a timeout means: every permit is in its hands,
\* so none is with a callback, and no fiber has a callback left to submit.
LEMMA AllPermitsTaken == GroupInv => WaitAllMeansDone
<1> SUFFICES ASSUME GroupInv, at[Owner] = "returned", ~isTimeouted, NEW t \in Tasks
             PROVE  task[t] \in {"new", "done"}
  BY DEF WaitAllMeansDone
<1>1. left = 0 /\ isFinish
  BY GroupAssumption DEF GroupInv, LoopFits, PhaseFits
<1>2. concurrency + Cardinality(woken) + Cardinality(InFlight) + Cardinality(Kept)
        + Cardinality(Holders) + (BatchSize - left) = BatchSize
  BY DEF GroupInv, PermitsConserved
<1>3. Cardinality(InFlight) = 0
  <2>1. GroupTypeOK
    BY DEF GroupInv
  <2>2. /\ Cardinality(woken) \in Nat /\ Cardinality(InFlight) \in Nat /\ Cardinality(Kept) \in Nat
        /\ Cardinality(Holders) \in Nat /\ concurrency \in Nat /\ BatchSize \in Nat
    BY <2>1, CountsAreNat
  <2> QED
    BY ONLY <1>1, <1>2, <2>2
<1>4. InFlight = {}
  BY <1>3, CountsAreNat, FS_EmptySet DEF GroupInv
<1>5. task[t] # "given"
  BY <1>1 DEF GroupInv, OneOwner, PhaseFits
<1> QED
  BY <1>4, <1>5 DEF GroupInv, GroupTypeOK, InFlight

\* For any fibers, callbacks and _batchSize: permits are conserved, no more than
\* _batchSize callbacks are in flight, and WaitAll() returns without a timeout only
\* when every callback has.
THEOREM GroupIsSound == GroupSpec => []GroupSound
<1>1. GroupInv => GroupSound
  BY AllPermitsTaken DEF GroupInv, GroupSound
<1> QED
  BY InitHolds, StepKeeps, <1>1, PTL DEF GroupSpec
=============================================================================
