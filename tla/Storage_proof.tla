---------------------------- MODULE Storage_proof ----------------------------
(***************************************************************************)
(* Proofs about the parts of MCStorage, for every value of the constants.  *)
(* One part moves at a time, so a part's invariant is kept by the part's   *)
(* own actions; the inductive invariant of each part stands before the     *)
(* theorem that needs it.                                                  *)
(***************************************************************************)
EXTENDS MCStorage, QueueLemmas

-----------------------------------------------------------------------------
(***************************************************************************)
(* FoxPool.  A thread is in the list of free ones, in the hand of one      *)
(* check() or has one callback with a pointer to it (ThreadsFit), and a    *)
(* callback is in one place until it has run (JobsFit).  That the pool     *)
(* does not sleep while it could deal needs that a thread that does not    *)
(* run was stopped (StartFits).                                            *)
(***************************************************************************)
FoxCallback == {F!STOP} \cup [op : {"job"}, job : Jobs, wrap : BOOLEAN]
FoxThreadType == [m_callbacks : Seq(FoxCallback), batch : Seq(FoxCallback), byte : BOOLEAN,
                  m_start : BOOLEAN, loop : {"none", "running", "ended"}]

\* What a thread has in hand and in its queue, and what a queue holds.
Queue(th) == th.batch \o th.m_callbacks
Has(q, j) == \E k \in DOMAIN q : ~F!IsStop(q[k]) /\ q[k].job = j
EachOnce(q) == \A k, l \in DOMAIN q : ~F!IsStop(q[k]) /\ ~F!IsStop(q[l]) /\ q[k].job = q[l].job => k = l
Points(q) == F!Pointers(q) # {}
PointsOnce(q) == \A k, l \in F!Pointers(q) : k = l
Halts(q) == \E k \in DOMAIN q : F!IsStop(q[k])

PoolTypeOK ==
    /\ thr \in [F!Threads -> FoxThreadType]
    /\ pool \in [m_callbacks : Seq(Jobs), m_freeFoxThreads : Seq(F!Threads), m_cur : Nat,
                 m_start : BOOLEAN, m_advance : BOOLEAN]
    /\ checks \in Nat /\ hands \subseteq F!Threads \X Jobs /\ vec \in Seq(Jobs)
    /\ job \in [Jobs -> {"new", "queued", "run", "dropped"}] /\ stopping \in 0 .. m_size

StartFits ==
    /\ \A t \in F!Threads : /\ thr[t].m_start <=> thr[t].loop = "running"
                            /\ thr[t].batch # <<>> => thr[t].loop = "running"
    /\ stopping > 0 => pool.m_start
    /\ pool.m_start \/ pool.m_freeFoxThreads # <<>> \/ hands # {} \/ (\E t \in F!Threads : Points(Queue(thr[t]))) =>
          \A t \in F!Threads : thr[t].loop # "none"

ThreadsFit ==
    /\ IsInjective(pool.m_freeFoxThreads)
    /\ \A t \in F!Threads : /\ PointsOnce(Queue(thr[t]))
                            /\ t \in ToSet(pool.m_freeFoxThreads) => ~Points(Queue(thr[t]))
    /\ \A h \in hands : h[1] \notin ToSet(pool.m_freeFoxThreads) /\ ~Points(Queue(thr[h[1]]))
    /\ \A g, h \in hands : g[1] = h[1] => g = h

\* The places a callback may be in.
Waiting(j) == j \in ToSet(pool.m_callbacks)
Dealt(j) == j \in ToSet(vec)
InHand(j) == \E h \in hands : h[2] = j
Given(j) == \E t \in F!Threads : Has(Queue(thr[t]), j)
JobsFit ==
    /\ IsInjective(pool.m_callbacks) /\ IsInjective(vec)
    /\ \A g, h \in hands : g[2] = h[2] => g = h
    /\ \A t \in F!Threads : EachOnce(Queue(thr[t]))
    /\ \A t, u \in F!Threads, j \in Jobs : Has(Queue(thr[t]), j) /\ Has(Queue(thr[u]), j) => t = u
    /\ \A j \in Jobs : /\ Waiting(j) => ~Dealt(j) /\ ~InHand(j) /\ ~Given(j)
                       /\ Dealt(j) => ~InHand(j) /\ ~Given(j)
                       /\ InHand(j) => ~Given(j)
                       /\ Waiting(j) \/ Dealt(j) \/ InHand(j) \/ Given(j) => job[j] = "queued"

AnyStopped == \E t \in F!Threads : thr[t].loop = "ended" \/ Halts(Queue(thr[t]))
DealsFit ==
    /\ pool.m_start /\ ~AnyStopped /\ checks = 0 /\ hands = {} =>
          pool.m_callbacks = <<>> \/ pool.m_freeFoxThreads = <<>>
    /\ \A j \in Jobs : job[j] = "dropped" => AnyStopped

PoolInv == PoolTypeOK /\ StartFits /\ ThreadsFit /\ JobsFit /\ DealsFit
PoolPartInv == which = "pool" => PoolInv

\* FoxPool counts as this module does.
LEMMA FoxCount ==
    ASSUME NEW A
    PROVE  F!Cardinality(A) = Cardinality(A)
  BY DEF F!Cardinality, Cardinality

\* A callback of a queue, by its place.
LEMMA Callbacks ==
    ASSUME NEW cb \in FoxCallback
    PROVE  /\ F!IsStop(cb) <=> cb = F!STOP
           /\ ~F!IsStop(cb) => cb.job \in Jobs /\ cb.wrap \in BOOLEAN
  BY DEF FoxCallback, F!IsStop, F!STOP

\* A callback is appended to a queue.
LEMMA QueueGrows ==
    ASSUME NEW q \in Seq(FoxCallback), NEW cb \in FoxCallback
    PROVE  /\ Append(q, cb) \in Seq(FoxCallback)
           /\ \A j : Has(Append(q, cb), j) <=> Has(q, j) \/ (~F!IsStop(cb) /\ cb.job = j)
           /\ EachOnce(q) /\ (F!IsStop(cb) \/ ~Has(q, cb.job)) => EachOnce(Append(q, cb))
           /\ Points(Append(q, cb)) <=> Points(q) \/ (~F!IsStop(cb) /\ cb.wrap)
           /\ PointsOnce(q) /\ (F!IsStop(cb) \/ ~cb.wrap \/ ~Points(q)) => PointsOnce(Append(q, cb))
           /\ Halts(Append(q, cb)) <=> Halts(q) \/ F!IsStop(cb)
<1> DEFINE r == Append(q, cb)
           n == Len(q)
<1>1. /\ n \in Nat /\ DOMAIN q = 1 .. n /\ r \in Seq(FoxCallback) /\ DOMAIN r = 1 .. (n + 1)
      /\ r[n + 1] = cb /\ \A k \in 1 .. n : r[k] = q[k]
  OBVIOUS
<1> HIDE DEF r, n
<1>2. (\A k \in 1 .. n : k \in 1 .. (n + 1)) /\ n + 1 \in 1 .. (n + 1) /\ \A k \in 1 .. (n + 1) : k \in 1 .. n \/ k = n + 1
  BY ONLY <1>1
<1>3. \A j : Has(r, j) <=> Has(q, j) \/ (~F!IsStop(cb) /\ cb.job = j)
  BY ONLY <1>1, <1>2 DEF Has
<1>4. EachOnce(q) /\ (F!IsStop(cb) \/ ~Has(q, cb.job)) => EachOnce(r)
  BY ONLY <1>1, <1>2 DEF Has, EachOnce
<1>5. \A k : k \in F!Pointers(r) <=> k \in F!Pointers(q) \/ (k = n + 1 /\ ~F!IsStop(cb) /\ cb.wrap)
  BY ONLY <1>1, <1>2 DEF F!Pointers
<1>6. Points(r) <=> Points(q) \/ (~F!IsStop(cb) /\ cb.wrap)
  BY ONLY <1>5 DEF Points
<1>7. PointsOnce(q) /\ (F!IsStop(cb) \/ ~cb.wrap \/ ~Points(q)) => PointsOnce(r)
  BY ONLY <1>5 DEF Points, PointsOnce
<1>8. Halts(r) <=> Halts(q) \/ F!IsStop(cb)
  BY ONLY <1>1, <1>2 DEF Halts
<1> QED
  BY <1>1, <1>3, <1>4, <1>6, <1>7, <1>8 DEF r

\* A batch is taken off the front of a queue.
LEMMA QueueCut ==
    ASSUME NEW b \in Seq(FoxCallback), NEW m \in Seq(FoxCallback)
    PROVE  /\ \A j : Has(b \o m, j) <=> Has(b, j) \/ Has(m, j)
           /\ EachOnce(b \o m) => EachOnce(b) /\ EachOnce(m) /\ \A j : ~(Has(b, j) /\ Has(m, j))
           /\ Points(b \o m) <=> Points(b) \/ Points(m)
           /\ PointsOnce(b \o m) => PointsOnce(b) /\ PointsOnce(m) /\ ~(Points(b) /\ Points(m))
           /\ Halts(b \o m) <=> Halts(b) \/ Halts(m)
<1> DEFINE q == b \o m
           n == Len(b)
           l == Len(m)
<1>1. /\ n \in Nat /\ l \in Nat /\ DOMAIN b = 1 .. n /\ DOMAIN m = 1 .. l /\ DOMAIN q = 1 .. (n + l)
      /\ (\A k \in 1 .. n : q[k] = b[k]) /\ \A k \in 1 .. l : q[n + k] = m[k]
  OBVIOUS
<1> HIDE DEF q, n, l
<1>2. /\ \A k \in 1 .. n : k \in 1 .. (n + l)
      /\ \A k \in 1 .. l : n + k \in 1 .. (n + l)
      /\ \A k \in 1 .. (n + l) : ~(k \in 1 .. n) => k - n \in 1 .. l /\ n + (k - n) = k
      /\ \A k \in 1 .. n, i \in 1 .. l : k # n + i
      /\ \A k, i \in 1 .. l : n + k = n + i => k = i
  BY ONLY <1>1
<1>3. ASSUME NEW j PROVE Has(q, j) <=> Has(b, j) \/ Has(m, j)
  <2>1. Has(b, j) => Has(q, j)
    BY ONLY <1>1, <1>2 DEF Has
  <2>2. Has(m, j) => Has(q, j)
    BY ONLY <1>1, <1>2 DEF Has
  <2>3. ASSUME NEW k \in 1 .. (n + l), ~F!IsStop(q[k]), q[k].job = j PROVE Has(b, j) \/ Has(m, j)
    <3>1. CASE k \in 1 .. n
      BY ONLY <1>1, <2>3, <3>1 DEF Has
    <3>2. CASE ~(k \in 1 .. n)
      <4>1. k - n \in 1 .. l /\ q[k] = m[k - n]
        BY ONLY <1>1, <1>2, <3>2, k \in 1 .. (n + l)
      <4> QED
        BY ONLY <1>1, <2>3, <4>1 DEF Has
    <3> QED
      BY <3>1, <3>2
  <2> QED
    BY ONLY <1>1, <2>1, <2>2, <2>3 DEF Has
<1>4. EachOnce(q) => EachOnce(b) /\ EachOnce(m) /\ \A j : ~(Has(b, j) /\ Has(m, j))
  <2>1. EachOnce(q) => EachOnce(b)
    BY ONLY <1>1, <1>2 DEF EachOnce
  <2>2. ASSUME EachOnce(q), NEW k \in 1 .. l, NEW i \in 1 .. l, ~F!IsStop(m[k]), ~F!IsStop(m[i]), m[k].job = m[i].job
        PROVE  k = i
    <3>1. n + k \in 1 .. (n + l) /\ n + i \in 1 .. (n + l) /\ q[n + k] = m[k] /\ q[n + i] = m[i]
      BY ONLY <1>1, <1>2
    <3>2. n + k = n + i
      BY ONLY <1>1, <2>2, <3>1 DEF EachOnce
    <3> QED
      BY ONLY <1>1, <3>2
  <2>3. ASSUME EachOnce(q), NEW k \in 1 .. n, NEW i \in 1 .. l, ~F!IsStop(b[k]), ~F!IsStop(m[i]), b[k].job = m[i].job
        PROVE  FALSE
    <3>1. k \in 1 .. (n + l) /\ n + i \in 1 .. (n + l) /\ q[k] = b[k] /\ q[n + i] = m[i] /\ k # n + i
      BY ONLY <1>1, <1>2
    <3> QED
      BY ONLY <1>1, <2>3, <3>1 DEF EachOnce
  <2>4. EachOnce(q) => EachOnce(m)
    BY <1>1, <2>2 DEF EachOnce
  <2>5. EachOnce(q) => \A j : ~(Has(b, j) /\ Has(m, j))
    BY <1>1, <2>3 DEF Has
  <2> QED
    BY <2>1, <2>4, <2>5
<1>5. /\ \A k \in F!Pointers(b) : k \in 1 .. n /\ k \in F!Pointers(q)
      /\ \A k \in F!Pointers(m) : k \in 1 .. l /\ n + k \in F!Pointers(q)
      /\ \A k \in F!Pointers(q) : k \in F!Pointers(b) \/ k - n \in F!Pointers(m)
  <2>1. \A k \in F!Pointers(b) : k \in 1 .. n /\ k \in F!Pointers(q)
    BY ONLY <1>1, <1>2 DEF F!Pointers
  <2>2. \A k \in F!Pointers(m) : k \in 1 .. l /\ n + k \in F!Pointers(q)
    BY ONLY <1>1, <1>2 DEF F!Pointers
  <2>3. ASSUME NEW k \in F!Pointers(q), ~(k \in 1 .. n) PROVE k - n \in F!Pointers(m)
    <3>1. k \in 1 .. (n + l) /\ ~F!IsStop(q[k]) /\ q[k].wrap
      BY ONLY <1>1, k \in F!Pointers(q) DEF F!Pointers
    <3>2. k - n \in 1 .. l /\ q[k] = m[k - n]
      BY ONLY <1>1, <1>2, <2>3, <3>1
    <3> QED
      BY ONLY <1>1, <3>1, <3>2 DEF F!Pointers
  <2>4. ASSUME NEW k \in F!Pointers(q), k \in 1 .. n PROVE k \in F!Pointers(b)
    BY ONLY <1>1, <2>4 DEF F!Pointers
  <2> QED
    BY <2>1, <2>2, <2>3, <2>4
<1>6. Points(q) <=> Points(b) \/ Points(m)
  BY ONLY <1>5 DEF Points
<1>7. PointsOnce(q) => PointsOnce(b) /\ PointsOnce(m) /\ ~(Points(b) /\ Points(m))
  BY ONLY <1>2, <1>5 DEF Points, PointsOnce
<1>8. Halts(q) <=> Halts(b) \/ Halts(m)
  <2>1. Halts(b) => Halts(q)
    BY ONLY <1>1, <1>2 DEF Halts
  <2>2. Halts(m) => Halts(q)
    BY ONLY <1>1, <1>2 DEF Halts
  <2>3. ASSUME NEW k \in 1 .. (n + l), F!IsStop(q[k]) PROVE Halts(b) \/ Halts(m)
    BY ONLY <1>1, <1>2, <2>3 DEF Halts
  <2> QED
    BY ONLY <1>1, <2>1, <2>2, <2>3 DEF Halts
<1> QED
  BY <1>3, <1>4, <1>6, <1>7, <1>8 DEF q

\* What dispatch() does to a thread's queue (FoxThread::dispatch(), FoxThread::stop()).
LEMMA Dispatched ==
    ASSUME NEW th \in FoxThreadType, NEW cb \in FoxCallback
    PROVE  /\ F!Dispatch(th, cb) \in FoxThreadType
           /\ Queue(th) \in Seq(FoxCallback)
           /\ Queue(F!Dispatch(th, cb)) = Append(Queue(th), cb)
           /\ F!Dispatch(th, cb).batch = th.batch /\ F!Dispatch(th, cb).loop = th.loop
           /\ F!Dispatch(th, cb).m_start = th.m_start
<1>1. th.batch \in Seq(FoxCallback) /\ th.m_callbacks \in Seq(FoxCallback)
  BY DEF FoxThreadType
<1> DEFINE b == th.batch
           m == th.m_callbacks
           g == Append(m, cb)
<1>2. b \o g = Append(b \o m, cb)
  <2>1. b \in Seq(FoxCallback) /\ m \in Seq(FoxCallback)
    BY <1>1
  <2> HIDE DEF b, m
  <2>2. b \o m \in Seq(FoxCallback) /\ <<cb>> \in Seq(FoxCallback)
    BY ONLY <2>1, cb \in FoxCallback
  <2>3. Append(b \o m, cb) = (b \o m) \o <<cb>> /\ g = m \o <<cb>>
    BY ONLY <2>1, <2>2, cb \in FoxCallback, AppendIsConcat DEF g
  <2>4. (b \o m) \o <<cb>> = b \o (m \o <<cb>>)
    BY ONLY <2>1, <2>2, ConcatAssociative
  <2> QED
    BY <2>3, <2>4
<1> HIDE DEF b, m, g
<1>3. /\ F!Dispatch(th, cb) = [th EXCEPT !.m_callbacks = g, !.byte = TRUE] /\ g \in Seq(FoxCallback)
      /\ th \in [m_callbacks : Seq(FoxCallback), batch : Seq(FoxCallback), byte : BOOLEAN,
                 m_start : BOOLEAN, loop : {"none", "running", "ended"}]
  BY <1>1 DEF F!Dispatch, FoxThreadType, g, m
<1>6. /\ F!Dispatch(th, cb) \in FoxThreadType /\ F!Dispatch(th, cb).batch = th.batch
      /\ F!Dispatch(th, cb).loop = th.loop /\ F!Dispatch(th, cb).m_start = th.m_start
      /\ F!Dispatch(th, cb).m_callbacks = g
  BY <1>3 DEF FoxThreadType
<1>4. Queue(th) = b \o m /\ b \o m \in Seq(FoxCallback)
  BY <1>1 DEF Queue, b, m
<1>5. Queue(F!Dispatch(th, cb)) = b \o g
  BY <1>6 DEF Queue, b
<1> QED
  BY <1>2, <1>4, <1>5, <1>6

\* What appending to the front and joining do to a queue's elements.
LEMMA JoinSet ==
    ASSUME NEW C, NEW p \in Seq(C), NEW q \in Seq(C)
    PROVE  /\ p \o q \in Seq(C)
           /\ ToSet(p \o q) = ToSet(p) \cup ToSet(q)
           /\ IsInjective(p) /\ IsInjective(q) /\ ToSet(p) \cap ToSet(q) = {} => IsInjective(p \o q)
<1> DEFINE r == p \o q
           n == Len(p)
           l == Len(q)
<1>1. /\ n \in Nat /\ l \in Nat /\ DOMAIN p = 1 .. n /\ DOMAIN q = 1 .. l /\ DOMAIN r = 1 .. (n + l) /\ r \in Seq(C)
      /\ (\A k \in 1 .. n : r[k] = p[k]) /\ \A k \in 1 .. l : r[n + k] = q[k]
  OBVIOUS
<1> HIDE DEF r, n, l
<1>2. /\ \A k \in 1 .. n : k \in 1 .. (n + l)
      /\ \A k \in 1 .. l : n + k \in 1 .. (n + l)
      /\ \A k \in 1 .. (n + l) : ~(k \in 1 .. n) => k - n \in 1 .. l /\ n + (k - n) = k
  BY ONLY <1>1
<1>3. \A k \in 1 .. (n + l) : ~(k \in 1 .. n) => k - n \in 1 .. l /\ r[k] = q[k - n]
  BY ONLY <1>1, <1>2
<1>4. ToSet(p) \cup ToSet(q) \subseteq ToSet(r)
  BY ONLY <1>1, <1>2 DEF ToSet
<1>5. ASSUME NEW k \in 1 .. (n + l) PROVE r[k] \in ToSet(p) \cup ToSet(q)
  BY ONLY <1>1, <1>3, k \in 1 .. (n + l) DEF ToSet
<1>6. ToSet(r) \subseteq ToSet(p) \cup ToSet(q)
  BY ONLY <1>1, <1>5 DEF ToSet
<1>7. ASSUME IsInjective(p), IsInjective(q), ToSet(p) \cap ToSet(q) = {}, NEW i \in 1 .. (n + l), NEW k \in 1 .. (n + l), r[i] = r[k]
      PROVE  i = k
  <2>1. CASE i \in 1 .. n /\ k \in 1 .. n
    BY ONLY <1>1, <1>7, <2>1 DEF IsInjective
  <2>2. CASE ~(i \in 1 .. n) /\ ~(k \in 1 .. n)
    <3>1. i - n \in 1 .. l /\ k - n \in 1 .. l /\ q[i - n] = q[k - n]
      BY ONLY <1>3, <1>7, <2>2
    <3>2. i - n = k - n
      BY ONLY <1>1, <1>7, <3>1 DEF IsInjective
    <3> QED
      BY ONLY <1>1, <3>2, i \in 1 .. (n + l), k \in 1 .. (n + l)
  <2>3. CASE i \in 1 .. n /\ ~(k \in 1 .. n)
    <3>1. r[i] \in ToSet(p) /\ r[k] \in ToSet(q)
      BY ONLY <1>1, <1>3, <2>3, k \in 1 .. (n + l) DEF ToSet
    <3> QED
      BY ONLY <1>7, <3>1
  <2>4. CASE ~(i \in 1 .. n) /\ k \in 1 .. n
    <3>1. r[k] \in ToSet(p) /\ r[i] \in ToSet(q)
      BY ONLY <1>1, <1>3, <2>4, i \in 1 .. (n + l) DEF ToSet
    <3> QED
      BY ONLY <1>7, <3>1
  <2> QED
    BY <2>1, <2>2, <2>3, <2>4
<1>8. IsInjective(p) /\ IsInjective(q) /\ ToSet(p) \cap ToSet(q) = {} => IsInjective(r)
  BY <1>1, <1>7 DEF IsInjective
<1> QED
  BY <1>1, <1>4, <1>6, <1>8 DEF r

\* One element is put in front, or at the end none or one.
LEMMA OneSet ==
    ASSUME NEW C, NEW e \in C
    PROVE  <<e>> \in Seq(C) /\ ToSet(<<e>>) = {e} /\ IsInjective(<<e>>)
<1>1. <<e>> \in Seq(C) /\ DOMAIN <<e>> = {1} /\ <<e>>[1] = e
  OBVIOUS
<1> QED
  BY <1>1 DEF ToSet, IsInjective

\* Thread t has got callback cb, and no other thread anything.
Gets(t, cb) ==
    /\ thr' \in [F!Threads -> FoxThreadType]
    /\ \A u \in F!Threads :
          /\ thr'[u].loop = thr[u].loop /\ thr'[u].batch = thr[u].batch /\ thr'[u].m_start = thr[u].m_start
          /\ \A j : Has(Queue(thr'[u]), j) <=> Has(Queue(thr[u]), j) \/ (u = t /\ ~F!IsStop(cb) /\ cb.job = j)
          /\ EachOnce(Queue(thr[u])) /\ (u = t => F!IsStop(cb) \/ ~Has(Queue(thr[t]), cb.job)) => EachOnce(Queue(thr'[u]))
          /\ Points(Queue(thr'[u])) <=> Points(Queue(thr[u])) \/ (u = t /\ ~F!IsStop(cb) /\ cb.wrap)
          /\ PointsOnce(Queue(thr[u])) /\ (u = t => F!IsStop(cb) \/ ~cb.wrap \/ ~Points(Queue(thr[t]))) => PointsOnce(Queue(thr'[u]))
          /\ Halts(Queue(thr'[u])) <=> Halts(Queue(thr[u])) \/ (u = t /\ F!IsStop(cb))

LEMMA ThreadGets ==
    ASSUME PoolTypeOK, NEW t \in F!Threads, NEW cb \in FoxCallback, thr' = [thr EXCEPT ![t] = F!Dispatch(thr[t], cb)]
    PROVE  Gets(t, cb)
<1>1. thr \in [F!Threads -> FoxThreadType]
  BY DEF PoolTypeOK
<1>2. thr[t] \in FoxThreadType
  BY <1>1
<1> DEFINE d == F!Dispatch(thr[t], cb)
           q == Queue(thr[t])
<1>3. d \in FoxThreadType /\ q \in Seq(FoxCallback) /\ Queue(d) = Append(q, cb) /\ d.batch = thr[t].batch /\ d.loop = thr[t].loop /\ d.m_start = thr[t].m_start
  BY <1>2, Dispatched
<1>4. thr' = [thr EXCEPT ![t] = d]
  OBVIOUS
<1> HIDE DEF d
<1>5. thr' \in [F!Threads -> FoxThreadType] /\ thr'[t] = d /\ \A u \in F!Threads \ {t} : thr'[u] = thr[u]
  BY ONLY <1>1, <1>3, <1>4, t \in F!Threads
<1> HIDE DEF q
<1>6. /\ \A j : Has(Append(q, cb), j) <=> Has(q, j) \/ (~F!IsStop(cb) /\ cb.job = j)
      /\ EachOnce(q) /\ (F!IsStop(cb) \/ ~Has(q, cb.job)) => EachOnce(Append(q, cb))
      /\ Points(Append(q, cb)) <=> Points(q) \/ (~F!IsStop(cb) /\ cb.wrap)
      /\ PointsOnce(q) /\ (F!IsStop(cb) \/ ~cb.wrap \/ ~Points(q)) => PointsOnce(Append(q, cb))
      /\ Halts(Append(q, cb)) <=> Halts(q) \/ F!IsStop(cb)
  BY <1>3, QueueGrows
<1>7. q = Queue(thr[t])
  BY DEF q
<1> QED
  BY ONLY <1>3, <1>5, <1>6, <1>7 DEF Gets

\* A callback for thread t, with a pointer or without.
LEMMA Orders ==
    ASSUME NEW j \in Jobs
    PROVE  /\ F!Wrapped(j) \in FoxCallback /\ ~F!IsStop(F!Wrapped(j)) /\ F!Wrapped(j).job = j /\ F!Wrapped(j).wrap
           /\ F!Plain(j) \in FoxCallback /\ ~F!IsStop(F!Plain(j)) /\ F!Plain(j).job = j /\ ~F!Plain(j).wrap
           /\ F!STOP \in FoxCallback /\ F!IsStop(F!STOP)
  BY DEF F!Wrapped, F!Plain, FoxCallback, F!IsStop, F!STOP

LEMMA NothingQueued ==
    /\ Queue(F!NewThread) = <<>> /\ F!NewThread \in FoxThreadType
    /\ (\A j : ~Has(<<>>, j)) /\ EachOnce(<<>>) /\ ~Points(<<>>) /\ PointsOnce(<<>>) /\ ~Halts(<<>>)
<1> DEFINE e == <<>>
<1>1. e \in Seq(FoxCallback) /\ DOMAIN e = {} /\ e \o e = e
  OBVIOUS
<1> HIDE DEF e
<1>2. F!Pointers(e) = {}
  BY <1>1 DEF F!Pointers
<1>3. (\A j : ~Has(e, j)) /\ EachOnce(e) /\ ~Points(e) /\ PointsOnce(e) /\ ~Halts(e)
  BY <1>1, <1>2 DEF Has, EachOnce, Points, PointsOnce, Halts
<1>4. F!NewThread = [m_callbacks |-> e, batch |-> e, byte |-> FALSE, m_start |-> FALSE, loop |-> "none"]
  BY DEF F!NewThread, e
<1>5. Queue(F!NewThread) = e /\ F!NewThread \in FoxThreadType
  BY <1>1, <1>4 DEF Queue, FoxThreadType
<1> QED
  BY <1>3, <1>5 DEF e

LEMMA PoolInvInit == F!PoolInit => PoolInv
<1> SUFFICES ASSUME F!PoolInit PROVE PoolInv
  OBVIOUS
<1>1. /\ thr = [t \in F!Threads |-> F!NewThread] /\ job = [j \in Jobs |-> "new"]
      /\ checks = 0 /\ hands = {} /\ vec = <<>> /\ stopping = 0
      /\ pool.m_callbacks = <<>> /\ pool.m_freeFoxThreads = <<>> /\ pool.m_start = FALSE
      /\ pool \in [m_callbacks : Seq(Jobs), m_freeFoxThreads : Seq(F!Threads), m_cur : Nat,
                   m_start : BOOLEAN, m_advance : BOOLEAN]
  <2>1. <<>> \in Seq(Jobs) /\ <<>> \in Seq(F!Threads)
    OBVIOUS
  <2> QED
    BY <2>1 DEF F!PoolInit
<1>2. \A t \in F!Threads : thr[t] = F!NewThread /\ Queue(thr[t]) = <<>>
  BY <1>1, NothingQueued
<1>3. ToSet(<<>>) = {} /\ IsInjective(<<>>) /\ <<>> \in Seq(Jobs)
  BY EmptyQueue
<1>4. PoolTypeOK
  BY <1>1, <1>3, NothingQueued, PoolAssumption DEF PoolTypeOK
<1>5. StartFits
  BY <1>1, <1>2, NothingQueued DEF StartFits, F!NewThread
<1>6. ThreadsFit
  BY <1>1, <1>2, <1>3, NothingQueued DEF ThreadsFit
<1>7. JobsFit
  BY <1>1, <1>2, <1>3, NothingQueued DEF JobsFit, Waiting, Dealt, InHand, Given
<1>8. DealsFit
  BY <1>1 DEF DealsFit
<1> QED
  BY <1>4, <1>5, <1>6, <1>7, <1>8 DEF PoolInv

\* Callback j is with a thread now, and all others are where they were.
GivenToo(j) ==
    /\ \A u \in F!Threads : EachOnce(Queue(thr'[u]))
    /\ \A u, v \in F!Threads, i \in Jobs : Has(Queue(thr'[u]), i) /\ Has(Queue(thr'[v]), i) => u = v
    /\ \A i \in Jobs : Given(i)' <=> Given(i) \/ i = j
    /\ AnyStopped' <=> AnyStopped

LEMMA GivesOne ==
    ASSUME PoolInv, NEW t \in F!Threads, NEW j \in Jobs, ~Given(j), NEW cb, ~F!IsStop(cb), cb.job = j, Gets(t, cb)
    PROVE  GivenToo(j)
<1>1. /\ \A u \in F!Threads : EachOnce(Queue(thr[u])) /\ ~Has(Queue(thr[u]), j)
      /\ \A u, v \in F!Threads, i \in Jobs : Has(Queue(thr[u]), i) /\ Has(Queue(thr[v]), i) => u = v
  BY DEF PoolInv, JobsFit, Given
<1>2. /\ \A u \in F!Threads, i \in Jobs : Has(Queue(thr'[u]), i) <=> Has(Queue(thr[u]), i) \/ (u = t /\ i = j)
      /\ \A u \in F!Threads : EachOnce(Queue(thr[u])) /\ (u = t => ~Has(Queue(thr[t]), j)) => EachOnce(Queue(thr'[u]))
      /\ \A u \in F!Threads : thr'[u].loop = thr[u].loop /\ (Halts(Queue(thr'[u])) <=> Halts(Queue(thr[u])))
  BY DEF Gets
<1>3. \A u \in F!Threads : EachOnce(Queue(thr'[u]))
  BY <1>1, <1>2
<1>4. \A u, v \in F!Threads, i \in Jobs : Has(Queue(thr'[u]), i) /\ Has(Queue(thr'[v]), i) => u = v
  BY <1>1, <1>2
<1>5. \A i \in Jobs : Given(i)' <=> Given(i) \/ i = j
  BY <1>2 DEF Given
<1>6. AnyStopped' <=> AnyStopped
  BY <1>2 DEF AnyStopped
<1> QED
  BY <1>3, <1>4, <1>5, <1>6 DEF GivenToo

\* A thread gets a plain callback: the pool's threads stay as they are.
LEMMA PlainGiven ==
    ASSUME PoolInv, NEW t \in F!Threads, NEW j \in Jobs, ~Given(j), thr' = [thr EXCEPT ![t] = F!Dispatch(@, F!Plain(j))],
           hands' = hands, stopping' = stopping,
           pool'.m_freeFoxThreads = pool.m_freeFoxThreads, pool'.m_start = pool.m_start
    PROVE  thr' \in [F!Threads -> FoxThreadType] /\ StartFits' /\ ThreadsFit' /\ GivenToo(j)
<1> DEFINE cb == F!Plain(j)
<1>1. cb \in FoxCallback /\ ~F!IsStop(cb) /\ cb.job = j /\ ~cb.wrap
  BY Orders
<1>2. Gets(t, cb)
  BY <1>1, ThreadGets DEF PoolInv
<1> HIDE DEF cb
<1>3. GivenToo(j)
  BY <1>1, <1>2, GivesOne
<1>4. /\ thr' \in [F!Threads -> FoxThreadType]
      /\ \A u \in F!Threads : /\ thr'[u].loop = thr[u].loop /\ thr'[u].batch = thr[u].batch /\ thr'[u].m_start = thr[u].m_start
                              /\ Points(Queue(thr'[u])) <=> Points(Queue(thr[u]))
                              /\ PointsOnce(Queue(thr[u])) => PointsOnce(Queue(thr'[u]))
  BY <1>1, <1>2 DEF Gets
<1>5. StartFits /\ ThreadsFit /\ hands \subseteq F!Threads \X Jobs
  BY DEF PoolInv, PoolTypeOK
<1>6. StartFits'
  BY <1>4, <1>5 DEF StartFits
<1>7. ThreadsFit'
  BY <1>4, <1>5 DEF ThreadsFit
<1> QED
  BY <1>3, <1>4, <1>6, <1>7

LEMMA PoolStarts ==
    ASSUME PoolInv, F!Start
    PROVE  PoolInv'
<1>1. /\ \A t \in F!Threads : thr[t].loop = "none"
      /\ thr' = [t \in F!Threads |-> F!StartThread(thr[t])]
      /\ pool' = [pool EXCEPT !.m_freeFoxThreads = [k \in 1 .. m_size |-> k - 1], !.m_start = TRUE]
      /\ checks' = checks + 1 /\ UNCHANGED <<hands, vec, job, stopping>>
  BY DEF F!Start
<1>2. PoolTypeOK /\ StartFits /\ ThreadsFit /\ JobsFit /\ DealsFit
  BY DEF PoolInv
<1>3. m_size \in Nat \ {0} /\ F!Threads = 0 .. (m_size - 1) /\ 0 \in F!Threads
  BY PoolAssumption DEF F!Threads
<1>4. ~pool.m_start /\ pool.m_freeFoxThreads = <<>> /\ hands = {} /\ \A t \in F!Threads : ~Points(Queue(thr[t]))
  BY <1>1, <1>2, <1>3 DEF StartFits
<1>5. ASSUME NEW t \in F!Threads
      PROVE  /\ thr'[t] \in FoxThreadType /\ thr'[t].loop = "running" /\ thr'[t].m_start
             /\ Queue(thr'[t]) = Queue(thr[t])
  <2>1. thr[t] \in FoxThreadType /\ thr'[t] = F!StartThread(thr[t])
    BY <1>1, <1>2 DEF PoolTypeOK
  <2> QED
    BY <2>1 DEF F!StartThread, FoxThreadType, Queue
<1> DEFINE f == [k \in 1 .. m_size |-> k - 1]
<1>6. f \in Seq(F!Threads) /\ IsInjective(f)
  <2>1. \A k \in 1 .. m_size : k - 1 \in F!Threads
    BY <1>3
  <2>2. f \in Seq(F!Threads)
    BY <1>3, <2>1
  <2> QED
    BY <1>3, <2>2 DEF IsInjective
<1> HIDE DEF f
<1>7. /\ pool'.m_freeFoxThreads = f /\ pool'.m_start /\ pool'.m_callbacks = pool.m_callbacks
      /\ pool' \in [m_callbacks : Seq(Jobs), m_freeFoxThreads : Seq(F!Threads), m_cur : Nat,
                    m_start : BOOLEAN, m_advance : BOOLEAN]
  BY <1>1, <1>2, <1>6 DEF PoolTypeOK, f
<1>8. PoolTypeOK'
  BY <1>1, <1>2, <1>5, <1>7 DEF PoolTypeOK
<1>9. StartFits'
  BY <1>1, <1>5, <1>7 DEF StartFits
<1>10. ThreadsFit'
  BY <1>1, <1>2, <1>4, <1>5, <1>6, <1>7 DEF ThreadsFit
<1>11. JobsFit'
  BY <1>1, <1>2, <1>5, <1>7 DEF JobsFit, Waiting, Dealt, InHand, Given
<1>12. DealsFit'
  <2>1. checks' # 0
    BY <1>1, <1>2 DEF PoolTypeOK
  <2>2. AnyStopped => AnyStopped'
    BY <1>1, <1>5 DEF AnyStopped
  <2> QED
    BY <1>1, <1>2, <2>1, <2>2 DEF DealsFit
<1> QED
  BY <1>8, <1>9, <1>10, <1>11, <1>12 DEF PoolInv

LEMMA PoolCheckEnds ==
    ASSUME PoolInv, F!CheckEnds
    PROVE  PoolInv'
<1>1. /\ checks > 0 /\ checks' = checks - 1 /\ UNCHANGED <<thr, pool, hands, vec, job, stopping>>
      /\ ~pool.m_start \/ pool.m_freeFoxThreads = <<>> \/ pool.m_callbacks = <<>>
  BY DEF F!CheckEnds
<1>2. PoolTypeOK'
  BY <1>1 DEF PoolInv, PoolTypeOK
<1>3. StartFits' /\ ThreadsFit'
  BY <1>1 DEF PoolInv, StartFits, ThreadsFit
<1>4. JobsFit'
  BY <1>1 DEF PoolInv, JobsFit, Waiting, Dealt, InHand, Given
<1>5. DealsFit'
  BY <1>1 DEF PoolInv, DealsFit, AnyStopped
<1> QED
  BY <1>2, <1>3, <1>4, <1>5 DEF PoolInv

LEMMA PoolCheckTakes ==
    ASSUME PoolInv, F!CheckTakes
    PROVE  PoolInv'
<1> DEFINE t == Head(pool.m_freeFoxThreads)
           j == Head(pool.m_callbacks)
           f == Tail(pool.m_freeFoxThreads)
           c == Tail(pool.m_callbacks)
<1>1. /\ checks > 0 /\ checks' = checks - 1 /\ UNCHANGED <<thr, vec, job, stopping>>
      /\ pool.m_start /\ pool.m_freeFoxThreads # <<>> /\ pool.m_callbacks # <<>>
      /\ hands' = hands \cup {<<t, j>>}
      /\ pool' = [pool EXCEPT !.m_freeFoxThreads = f, !.m_callbacks = c]
  BY DEF F!CheckTakes
<1>2. PoolTypeOK /\ StartFits /\ ThreadsFit /\ JobsFit /\ DealsFit
  BY DEF PoolInv
<1>3. pool.m_freeFoxThreads \in Seq(F!Threads) /\ pool.m_callbacks \in Seq(Jobs)
  BY <1>2 DEF PoolTypeOK
<1>4. IsInjective(pool.m_freeFoxThreads) /\ IsInjective(pool.m_callbacks)
  BY <1>2 DEF ThreadsFit, JobsFit
<1>5. /\ t \in ToSet(pool.m_freeFoxThreads) /\ t \in F!Threads /\ f \in Seq(F!Threads)
      /\ ToSet(f) = ToSet(pool.m_freeFoxThreads) \ {t} /\ IsInjective(f)
  BY <1>1, <1>3, <1>4, TailSet
<1>6. /\ Waiting(j) /\ j \in Jobs /\ c \in Seq(Jobs)
      /\ ToSet(c) = ToSet(pool.m_callbacks) \ {j} /\ IsInjective(c)
  BY <1>1, <1>3, <1>4, TailSet DEF Waiting
<1> HIDE DEF t, j, f, c
<1>7. /\ pool'.m_freeFoxThreads = f /\ pool'.m_start /\ pool'.m_callbacks = c
      /\ pool' \in [m_callbacks : Seq(Jobs), m_freeFoxThreads : Seq(F!Threads), m_cur : Nat,
                    m_start : BOOLEAN, m_advance : BOOLEAN]
  BY <1>1, <1>2, <1>5, <1>6 DEF PoolTypeOK
<1>8. <<t, j>>[1] = t /\ <<t, j>>[2] = j /\ <<t, j>> \in F!Threads \X Jobs
  BY <1>5, <1>6
<1>9. PoolTypeOK'
  BY <1>1, <1>2, <1>7, <1>8 DEF PoolTypeOK
<1>10. StartFits'
  BY <1>1, <1>2, <1>7 DEF StartFits
<1> DEFINE e == <<t, j>>
<1>11. hands' = hands \cup {e} /\ e[1] = t /\ e[2] = j
  BY <1>1, <1>8
<1> HIDE DEF e
<1>12. ThreadsFit'
  BY <1>1, <1>2, <1>5, <1>7, <1>11 DEF ThreadsFit
<1>13. JobsFit'
  <2>1. /\ \A i \in Jobs : /\ Waiting(i)' <=> Waiting(i) /\ i # j
                           /\ Dealt(i)' <=> Dealt(i)
                           /\ Given(i)' <=> Given(i)
                           /\ InHand(i)' <=> InHand(i) \/ i = j
    BY <1>1, <1>6, <1>7, <1>11 DEF Waiting, Dealt, Given, InHand
  <2>2. \A g, h \in hands' : g[2] = h[2] => g = h
    BY <1>2, <1>6, <1>11 DEF JobsFit, InHand
  <2> QED
    BY <1>1, <1>2, <1>6, <1>7, <2>1, <2>2 DEF JobsFit
<1>14. DealsFit'
  BY <1>1, <1>2, <1>11 DEF DealsFit, AnyStopped
<1> QED
  BY <1>9, <1>10, <1>12, <1>13, <1>14 DEF PoolInv

\* The thread that check() took gets the callback.
LEMMA PoolGives ==
    ASSUME PoolInv, NEW t \in F!Threads, NEW j \in Jobs, <<t, j>> \in hands, hands' = hands \ {<<t, j>>}, checks' = checks + 1,
           thr[t].m_start, thr' = [thr EXCEPT ![t] = F!Dispatch(@, F!Wrapped(j))], UNCHANGED <<pool, vec, job, stopping>>
    PROVE  PoolInv'
<1> DEFINE cb == F!Wrapped(j)
           e == <<t, j>>
<1>1. cb \in FoxCallback /\ ~F!IsStop(cb) /\ cb.job = j /\ cb.wrap
  BY Orders
<1>2. Gets(t, cb)
  BY <1>1, ThreadGets DEF PoolInv
<1>3. e \in hands /\ hands' = hands \ {e} /\ e[1] = t /\ e[2] = j
  OBVIOUS
<1> HIDE DEF cb, e
<1>4. PoolTypeOK /\ StartFits /\ ThreadsFit /\ JobsFit /\ DealsFit
  BY DEF PoolInv
<1>5. InHand(j) /\ ~Given(j) /\ t \notin ToSet(pool.m_freeFoxThreads) /\ ~Points(Queue(thr[t]))
  BY <1>3, <1>4 DEF JobsFit, ThreadsFit, InHand
<1>6. GivenToo(j)
  BY <1>1, <1>2, <1>5, GivesOne
<1>7. /\ thr' \in [F!Threads -> FoxThreadType]
      /\ \A u \in F!Threads : /\ thr'[u].loop = thr[u].loop /\ thr'[u].batch = thr[u].batch /\ thr'[u].m_start = thr[u].m_start
                              /\ Points(Queue(thr'[u])) <=> Points(Queue(thr[u])) \/ u = t
                              /\ PointsOnce(Queue(thr'[u]))
  BY <1>1, <1>2, <1>4, <1>5 DEF Gets, ThreadsFit
<1>8. PoolTypeOK'
  BY <1>4, <1>7 DEF PoolTypeOK
<1>9. StartFits'
  BY <1>3, <1>4, <1>7 DEF StartFits
<1>10. ThreadsFit'
  BY <1>3, <1>4, <1>5, <1>7 DEF ThreadsFit, PoolTypeOK
<1>11. JobsFit'
  <2>1. \A i \in Jobs : /\ Waiting(i)' <=> Waiting(i)
                        /\ Dealt(i)' <=> Dealt(i)
                        /\ Given(i)' <=> Given(i) \/ i = j
                        /\ InHand(i)' <=> InHand(i) /\ i # j
    <3>1. \A i \in Jobs : InHand(i)' <=> InHand(i) /\ i # j
      BY <1>3, <1>4 DEF InHand, JobsFit
    <3> QED
      BY <1>6, <3>1 DEF Waiting, Dealt, GivenToo
  <2>2. /\ \A u \in F!Threads : EachOnce(Queue(thr'[u]))
        /\ \A u, v \in F!Threads, i \in Jobs : Has(Queue(thr'[u]), i) /\ Has(Queue(thr'[v]), i) => u = v
    BY <1>6 DEF GivenToo
  <2> QED
    BY <1>3, <1>4, <1>5, <2>1, <2>2 DEF JobsFit
<1>12. DealsFit'
  <2>1. checks' # 0
    BY <1>4 DEF PoolTypeOK
  <2> QED
    BY <1>4, <1>6, <2>1 DEF DealsFit, GivenToo
<1> QED
  BY <1>8, <1>9, <1>10, <1>11, <1>12 DEF PoolInv

\* The thread does not run: it goes back to the free ones, the callback to the front.
LEMMA PoolGivesBack ==
    ASSUME PoolInv, NEW t \in F!Threads, NEW j \in Jobs, <<t, j>> \in hands, hands' = hands \ {<<t, j>>}, checks' = checks + 1,
           pool' = [pool EXCEPT !.m_callbacks = <<j>> \o @, !.m_freeFoxThreads = Append(@, t)], UNCHANGED <<thr, vec, job, stopping>>
    PROVE  PoolInv'
<1> DEFINE c == <<j>> \o pool.m_callbacks
           f == Append(pool.m_freeFoxThreads, t)
           e == <<t, j>>
<1>1. PoolTypeOK /\ StartFits /\ ThreadsFit /\ JobsFit /\ DealsFit
  BY DEF PoolInv
<1>2. e \in hands /\ hands' = hands \ {e} /\ e[1] = t /\ e[2] = j
  OBVIOUS
<1> HIDE DEF e
<1>3. /\ InHand(j) /\ ~Waiting(j) /\ ~Given(j) /\ ~Dealt(j) /\ job[j] = "queued"
      /\ t \notin ToSet(pool.m_freeFoxThreads) /\ ~Points(Queue(thr[t]))
  BY <1>1, <1>2 DEF JobsFit, ThreadsFit, InHand
<1>4. /\ pool.m_freeFoxThreads \in Seq(F!Threads) /\ pool.m_callbacks \in Seq(Jobs)
      /\ IsInjective(pool.m_freeFoxThreads) /\ IsInjective(pool.m_callbacks)
  BY <1>1 DEF PoolTypeOK, ThreadsFit, JobsFit
<1>5. f \in Seq(F!Threads) /\ ToSet(f) = ToSet(pool.m_freeFoxThreads) \cup {t} /\ IsInjective(f)
  BY <1>3, <1>4, AppendSet
<1>6. c \in Seq(Jobs) /\ ToSet(c) = ToSet(pool.m_callbacks) \cup {j} /\ IsInjective(c)
  <2> DEFINE o == <<j>>
             d == pool.m_callbacks
  <2>1. o \in Seq(Jobs) /\ ToSet(o) = {j} /\ IsInjective(o) /\ c = o \o d
    BY OneSet
  <2>2. {j} \cap ToSet(d) = {} /\ d \in Seq(Jobs) /\ IsInjective(d)
    BY <1>3, <1>4 DEF Waiting
  <2> HIDE DEF c, o, d
  <2>3. o \o d \in Seq(Jobs) /\ ToSet(o \o d) = ToSet(o) \cup ToSet(d) /\ IsInjective(o \o d)
    BY <2>1, <2>2, JoinSet
  <2> QED
    BY <2>1, <2>3 DEF d
<1>7. pool' = [pool EXCEPT !.m_callbacks = c, !.m_freeFoxThreads = f]
  OBVIOUS
<1> HIDE DEF c, f
<1>8. /\ pool'.m_freeFoxThreads = f /\ pool'.m_start = pool.m_start /\ pool'.m_callbacks = c
      /\ pool' \in [m_callbacks : Seq(Jobs), m_freeFoxThreads : Seq(F!Threads), m_cur : Nat,
                    m_start : BOOLEAN, m_advance : BOOLEAN]
  BY <1>1, <1>5, <1>6, <1>7 DEF PoolTypeOK
<1>9. PoolTypeOK'
  BY <1>1, <1>8 DEF PoolTypeOK
<1>10. StartFits'
  BY <1>1, <1>2, <1>8 DEF StartFits
<1>11. ThreadsFit'
  BY <1>1, <1>2, <1>3, <1>5, <1>8 DEF ThreadsFit
<1>12. JobsFit'
  <2>1. \A i \in Jobs : /\ Waiting(i)' <=> Waiting(i) \/ i = j
                        /\ Dealt(i)' <=> Dealt(i)
                        /\ Given(i)' <=> Given(i)
                        /\ InHand(i)' <=> InHand(i) /\ i # j
    <3>1. \A i \in Jobs : InHand(i)' <=> InHand(i) /\ i # j
      BY <1>1, <1>2 DEF InHand, JobsFit
    <3> QED
      BY <1>6, <1>8, <3>1 DEF Waiting, Dealt, Given
  <2> QED
    BY <1>1, <1>2, <1>3, <1>6, <1>8, <2>1 DEF JobsFit
<1>13. DealsFit'
  <2>1. checks' # 0
    BY <1>1 DEF PoolTypeOK
  <2> QED
    BY <1>1, <2>1 DEF DealsFit, AnyStopped
<1> QED
  BY <1>9, <1>10, <1>11, <1>12, <1>13 DEF PoolInv

LEMMA PoolCheckGives ==
    ASSUME PoolInv, NEW t \in F!Threads, NEW j \in Jobs, F!CheckGives(t, j)
    PROVE  PoolInv'
<1>1. /\ <<t, j>> \in hands /\ hands' = hands \ {<<t, j>>} /\ checks' = checks + 1 /\ UNCHANGED <<vec, job, stopping>>
      /\ \/ /\ thr[t].m_start
            /\ thr' = [thr EXCEPT ![t] = F!Dispatch(@, F!Wrapped(j))] /\ UNCHANGED pool
         \/ /\ pool' = [pool EXCEPT !.m_callbacks = <<j>> \o @, !.m_freeFoxThreads = Append(@, t)]
            /\ UNCHANGED thr
  BY DEF F!CheckGives
<1>2. CASE thr[t].m_start /\ thr' = [thr EXCEPT ![t] = F!Dispatch(@, F!Wrapped(j))] /\ UNCHANGED pool
  BY <1>1, <1>2, PoolGives
<1>3. CASE pool' = [pool EXCEPT !.m_callbacks = <<j>> \o @, !.m_freeFoxThreads = Append(@, t)] /\ UNCHANGED thr
  <2>1. UNCHANGED <<thr, vec, job, stopping>>
    BY <1>1, <1>3
  <2> QED
    BY <1>1, <1>3, <2>1, PoolGivesBack, Zenon
<1> QED
  BY <1>1, <1>2, <1>3

\* Callbacks that nobody has dispatched are nowhere; these are marked as queued.
LEMMA NewOnes ==
    ASSUME PoolInv, NEW J, J \subseteq Jobs, \A j \in J : job[j] = "new", F!Queued(J)
    PROVE  /\ \A j \in J : ~Waiting(j) /\ ~Dealt(j) /\ ~InHand(j) /\ ~Given(j)
           /\ job' \in [Jobs -> {"new", "queued", "run", "dropped"}]
           /\ \A j \in Jobs : job'[j] = IF j \in J THEN "queued" ELSE job[j]
<1>1. /\ \A j \in Jobs : Waiting(j) \/ Dealt(j) \/ InHand(j) \/ Given(j) => job[j] = "queued"
      /\ job \in [Jobs -> {"new", "queued", "run", "dropped"}]
  BY DEF PoolInv, JobsFit, PoolTypeOK
<1>2. job' = [j \in Jobs |-> IF j \in J THEN "queued" ELSE job[j]]
  BY DEF F!Queued
<1> QED
  BY <1>1, <1>2

\* A callback that is new goes to one thread, which nobody has to release.
LEMMA PlainDispatched ==
    ASSUME PoolInv, NEW t \in F!Threads, NEW j \in Jobs, job[j] = "new", F!Queued({j}),
           thr' = [thr EXCEPT ![t] = F!Dispatch(@, F!Plain(j))], UNCHANGED <<checks, hands, vec, stopping>>,
           pool' \in [m_callbacks : Seq(Jobs), m_freeFoxThreads : Seq(F!Threads), m_cur : Nat,
                      m_start : BOOLEAN, m_advance : BOOLEAN],
           pool'.m_callbacks = pool.m_callbacks, pool'.m_freeFoxThreads = pool.m_freeFoxThreads, pool'.m_start = pool.m_start
    PROVE  PoolInv'
<1>1. PoolTypeOK /\ StartFits /\ ThreadsFit /\ JobsFit /\ DealsFit
  BY DEF PoolInv
<1>2. /\ ~Waiting(j) /\ ~Dealt(j) /\ ~InHand(j) /\ ~Given(j)
      /\ job' \in [Jobs -> {"new", "queued", "run", "dropped"}]
      /\ \A i \in Jobs : job'[i] = IF i = j THEN "queued" ELSE job[i]
  <2> DEFINE J == {j}
  <2>1. J \subseteq Jobs /\ (\A i \in J : job[i] = "new") /\ F!Queued(J) /\ \A i : i \in J <=> i = j
    OBVIOUS
  <2> HIDE DEF J
  <2> QED
    BY <2>1, NewOnes
<1>3. thr' \in [F!Threads -> FoxThreadType] /\ StartFits' /\ ThreadsFit' /\ GivenToo(j)
  BY <1>2, PlainGiven
<1>4. PoolTypeOK'
  BY <1>1, <1>2, <1>3 DEF PoolTypeOK
<1>5. JobsFit'
  <2>1. \A i \in Jobs : /\ Waiting(i)' <=> Waiting(i)
                        /\ Dealt(i)' <=> Dealt(i)
                        /\ Given(i)' <=> Given(i) \/ i = j
                        /\ InHand(i)' <=> InHand(i)
    BY <1>3 DEF Waiting, Dealt, InHand, GivenToo
  <2>2. /\ \A u \in F!Threads : EachOnce(Queue(thr'[u]))
        /\ \A u, v \in F!Threads, i \in Jobs : Has(Queue(thr'[u]), i) /\ Has(Queue(thr'[v]), i) => u = v
    BY <1>3 DEF GivenToo
  <2> QED
    BY <1>1, <1>2, <2>1, <2>2 DEF JobsFit
<1>6. DealsFit'
  BY <1>1, <1>2, <1>3 DEF DealsFit, GivenToo
<1> QED
  BY <1>3, <1>4, <1>5, <1>6 DEF PoolInv

\* The thread whose turn it is.
LEMMA Turn ==
    ASSUME PoolTypeOK
    PROVE  /\ pool.m_cur % m_size \in F!Threads
           /\ \A p : p = [pool EXCEPT !.m_cur = @ + 1] =>
                 /\ p \in [m_callbacks : Seq(Jobs), m_freeFoxThreads : Seq(F!Threads), m_cur : Nat,
                           m_start : BOOLEAN, m_advance : BOOLEAN]
                 /\ p.m_callbacks = pool.m_callbacks /\ p.m_freeFoxThreads = pool.m_freeFoxThreads /\ p.m_start = pool.m_start
<1> DEFINE c == pool.m_cur
<1>1. c \in Nat /\ m_size \in Nat \ {0}
  BY PoolAssumption DEF PoolTypeOK
<1> HIDE DEF c
<1>2. c % m_size \in 0 .. (m_size - 1)
  BY ONLY <1>1
<1>3. c + 1 \in Nat
  BY <1>1
<1> QED
  BY <1>2, <1>3 DEF F!Threads, PoolTypeOK, c

LEMMA PoolDispatchTo ==
    ASSUME PoolInv, NEW t \in F!Threads, NEW j \in Jobs, F!DispatchTo(t, j)
    PROVE  PoolInv'
<1>1. job[j] = "new" /\ F!Queued({j}) /\ thr' = [thr EXCEPT ![t] = F!Dispatch(@, F!Plain(j))]
  BY DEF F!DispatchTo
<1>2. UNCHANGED <<checks, hands, vec, stopping>> /\ pool' = pool
  BY DEF F!DispatchTo
<1>3. pool \in [m_callbacks : Seq(Jobs), m_freeFoxThreads : Seq(F!Threads), m_cur : Nat,
                m_start : BOOLEAN, m_advance : BOOLEAN]
  BY DEF PoolInv, PoolTypeOK
<1> QED
  BY <1>1, <1>2, <1>3, PlainDispatched

LEMMA PoolDispatchJob ==
    ASSUME PoolInv, NEW j \in Jobs, F!DispatchJob(j)
    PROVE  PoolInv'
<1>1. job[j] = "new" /\ F!Queued({j}) /\ UNCHANGED <<hands, vec, stopping>>
  BY DEF F!DispatchJob
<1>2. PoolTypeOK /\ StartFits /\ ThreadsFit /\ JobsFit /\ DealsFit
  BY DEF PoolInv
<1>3. CASE ~pool.m_advance
  <2> DEFINE t == pool.m_cur % m_size
  <2>1. /\ pool' = [pool EXCEPT !.m_cur = @ + 1] /\ checks' = checks
        /\ thr' = [thr EXCEPT ![t] = F!Dispatch(@, F!Plain(j))]
    BY <1>3 DEF F!DispatchJob
  <2>2. t \in F!Threads
    BY <1>2, Turn
  <2> HIDE DEF t
  <2>3. /\ pool' \in [m_callbacks : Seq(Jobs), m_freeFoxThreads : Seq(F!Threads), m_cur : Nat,
                      m_start : BOOLEAN, m_advance : BOOLEAN]
        /\ pool'.m_callbacks = pool.m_callbacks /\ pool'.m_freeFoxThreads = pool.m_freeFoxThreads /\ pool'.m_start = pool.m_start
    BY <1>2, <2>1, Turn
  <2>4. UNCHANGED <<checks, hands, vec, stopping>>
    BY <1>1, <2>1
  <2> QED
    BY <1>1, <2>1, <2>2, <2>3, <2>4, PlainDispatched
<1>4. CASE pool.m_advance
  <2> DEFINE c == Append(pool.m_callbacks, j)
  <2>1. pool' = [pool EXCEPT !.m_callbacks = c] /\ checks' = checks + 1 /\ thr' = thr
    BY <1>4 DEF F!DispatchJob
  <2>2. /\ ~Waiting(j) /\ ~Dealt(j) /\ ~InHand(j) /\ ~Given(j)
        /\ job' \in [Jobs -> {"new", "queued", "run", "dropped"}]
        /\ \A i \in Jobs : job'[i] = IF i = j THEN "queued" ELSE job[i]
    <3> DEFINE J == {j}
    <3>1. J \subseteq Jobs /\ (\A i \in J : job[i] = "new") /\ F!Queued(J) /\ \A i : i \in J <=> i = j
      BY <1>1
    <3> HIDE DEF J
    <3> QED
      BY <3>1, NewOnes
  <2>3. c \in Seq(Jobs) /\ ToSet(c) = ToSet(pool.m_callbacks) \cup {j} /\ IsInjective(c)
    <3>1. pool.m_callbacks \in Seq(Jobs) /\ IsInjective(pool.m_callbacks) /\ j \notin ToSet(pool.m_callbacks)
      BY <1>2, <2>2 DEF PoolTypeOK, JobsFit, Waiting
    <3> QED
      BY <3>1, AppendSet
  <2> HIDE DEF c
  <2>4. /\ pool'.m_freeFoxThreads = pool.m_freeFoxThreads /\ pool'.m_start = pool.m_start /\ pool'.m_callbacks = c
        /\ pool' \in [m_callbacks : Seq(Jobs), m_freeFoxThreads : Seq(F!Threads), m_cur : Nat,
                      m_start : BOOLEAN, m_advance : BOOLEAN]
    BY <1>2, <2>1, <2>3 DEF PoolTypeOK
  <2>5. PoolTypeOK' /\ StartFits' /\ ThreadsFit'
    BY <1>1, <1>2, <2>1, <2>2, <2>4 DEF PoolTypeOK, StartFits, ThreadsFit
  <2>6. JobsFit'
    <3>1. \A i \in Jobs : /\ Waiting(i)' <=> Waiting(i) \/ i = j
                          /\ Dealt(i)' <=> Dealt(i)
                          /\ Given(i)' <=> Given(i)
                          /\ InHand(i)' <=> InHand(i)
      BY <1>1, <2>1, <2>3, <2>4 DEF Waiting, Dealt, InHand, Given
    <3> QED
      BY <1>1, <1>2, <2>1, <2>2, <2>3, <2>4, <3>1 DEF JobsFit
  <2>7. DealsFit'
    <3>1. checks' # 0
      BY <1>2, <2>1 DEF PoolTypeOK
    <3> QED
      BY <1>2, <2>1, <2>2, <3>1 DEF DealsFit, AnyStopped
  <2> QED
    BY <2>5, <2>6, <2>7 DEF PoolInv
<1> QED
  BY <1>3, <1>4

\* What batchDispatch() is given: callbacks that nobody has dispatched, each once.
LEMMA VectorsAre ==
    ASSUME PoolTypeOK, NEW js \in F!Vectors
    PROVE  /\ js \in Seq(Jobs) /\ IsInjective(js) /\ ToSet(js) = {js[k] : k \in DOMAIN js}
           /\ ToSet(js) \subseteq Jobs /\ \A j \in ToSet(js) : job[j] = "new"
<1> DEFINE new == {j \in Jobs : job[j] = "new"}
           n == F!Cardinality(new)
<1>1. n \in Nat
  BY PoolAssumption, FoxCount, FS_Subset, FS_CardinalityType
<1>2. js \in [1 .. n -> new] /\ \A k, l \in DOMAIN js : js[k] = js[l] => k = l
  <2>1. F!Vectors = {q \in [1 .. n -> new] : \A k, l \in DOMAIN q : q[k] = q[l] => k = l}
    BY DEF F!Vectors
  <2> HIDE DEF new, n
  <2> QED
    BY <2>1
<1>3. \A j \in new : j \in Jobs /\ job[j] = "new"
  OBVIOUS
<1> HIDE DEF new, n
<1>4. js \in Seq(Jobs)
  BY <1>1, <1>2, <1>3
<1> QED
  BY <1>2, <1>3, <1>4 DEF IsInjective, ToSet

LEMMA PoolBatchDispatch ==
    ASSUME PoolInv, F!BatchDispatch
    PROVE  PoolInv'
<1>1. vec = <<>> /\ UNCHANGED <<thr, hands, stopping>>
  BY DEF F!BatchDispatch, F!Lock
<1>2. PoolTypeOK /\ StartFits /\ ThreadsFit /\ JobsFit /\ DealsFit
  BY DEF PoolInv
<1>3. PICK js \in F!Vectors :
         /\ F!Queued({js[k] : k \in DOMAIN js})
         /\ IF pool.m_advance
            THEN pool' = [pool EXCEPT !.m_callbacks = @ \o js] /\ checks' = checks + 1 /\ vec' = vec
            ELSE vec' = js /\ UNCHANGED <<pool, checks>>
  BY DEF F!BatchDispatch
<1> DEFINE J == ToSet(js)
<1>4. js \in Seq(Jobs) /\ IsInjective(js) /\ J \subseteq Jobs /\ (\A j \in J : job[j] = "new") /\ F!Queued(J)
  BY <1>2, <1>3, VectorsAre
<1>5. /\ \A j \in J : ~Waiting(j) /\ ~Dealt(j) /\ ~InHand(j) /\ ~Given(j)
      /\ job' \in [Jobs -> {"new", "queued", "run", "dropped"}]
      /\ \A i \in Jobs : job'[i] = IF i \in J THEN "queued" ELSE job[i]
  BY <1>4, NewOnes
<1>6. ToSet(vec) = {} /\ IsInjective(vec)
  BY <1>1, EmptyQueue
<1>7. CASE pool.m_advance
  <2> DEFINE b == pool.m_callbacks
             c == b \o js
  <2>1. pool' = [pool EXCEPT !.m_callbacks = c] /\ checks' = checks + 1 /\ vec' = vec
    BY <1>3, <1>7
  <2>2. c \in Seq(Jobs) /\ ToSet(c) = ToSet(b) \cup J /\ IsInjective(c)
    <3>1. b \in Seq(Jobs) /\ IsInjective(b) /\ ToSet(b) \cap J = {}
      BY <1>2, <1>5 DEF PoolTypeOK, JobsFit, Waiting
    <3> HIDE DEF b
    <3> QED
      BY <1>4, <3>1, JoinSet
  <2> HIDE DEF c
  <2>3. /\ pool'.m_freeFoxThreads = pool.m_freeFoxThreads /\ pool'.m_start = pool.m_start /\ pool'.m_callbacks = c
        /\ pool' \in [m_callbacks : Seq(Jobs), m_freeFoxThreads : Seq(F!Threads), m_cur : Nat,
                      m_start : BOOLEAN, m_advance : BOOLEAN]
    BY <1>2, <2>1, <2>2 DEF PoolTypeOK
  <2>4. PoolTypeOK' /\ StartFits' /\ ThreadsFit'
    BY <1>1, <1>2, <1>5, <2>1, <2>3 DEF PoolTypeOK, StartFits, ThreadsFit
  <2>5. JobsFit'
    <3>1. \A i \in Jobs : /\ Waiting(i)' <=> Waiting(i) \/ i \in J
                          /\ Dealt(i)' <=> Dealt(i)
                          /\ Given(i)' <=> Given(i)
                          /\ InHand(i)' <=> InHand(i)
      BY <1>1, <2>1, <2>2, <2>3 DEF Waiting, Dealt, InHand, Given
    <3> HIDE DEF J
    <3> QED
      BY <1>1, <1>2, <1>5, <2>1, <2>2, <2>3, <3>1 DEF JobsFit
  <2>6. DealsFit'
    <3>1. checks' # 0
      BY <1>2, <2>1 DEF PoolTypeOK
    <3> HIDE DEF J
    <3> QED
      BY <1>1, <1>2, <1>5, <3>1 DEF DealsFit, AnyStopped
  <2> QED
    BY <2>4, <2>5, <2>6 DEF PoolInv
<1>8. CASE ~pool.m_advance
  <2>1. vec' = js /\ pool' = pool /\ checks' = checks
    BY <1>3, <1>8
  <2>2. PoolTypeOK' /\ StartFits' /\ ThreadsFit'
    BY <1>1, <1>2, <1>4, <1>5, <2>1 DEF PoolTypeOK, StartFits, ThreadsFit
  <2>3. JobsFit'
    <3>1. \A i \in Jobs : /\ Waiting(i)' <=> Waiting(i)
                          /\ Dealt(i)' <=> i \in J
                          /\ ~Dealt(i)
                          /\ Given(i)' <=> Given(i)
                          /\ InHand(i)' <=> InHand(i)
      BY <1>1, <1>6, <2>1 DEF Waiting, Dealt, InHand, Given
    <3> HIDE DEF J
    <3> QED
      BY <1>1, <1>2, <1>4, <1>5, <2>1, <3>1 DEF JobsFit
  <2>4. DealsFit'
    <3> HIDE DEF J
    <3> QED
      BY <1>1, <1>2, <1>5, <2>1 DEF DealsFit, AnyStopped
  <2> QED
    BY <2>2, <2>3, <2>4 DEF PoolInv
<1> QED
  BY <1>7, <1>8

LEMMA PoolBatchNext ==
    ASSUME PoolInv, F!BatchNext
    PROVE  PoolInv'
<1> DEFINE j == Head(vec)
           w == Tail(vec)
           t == pool.m_cur % m_size
<1>1. /\ vec # <<>> /\ vec' = w /\ UNCHANGED <<checks, hands, job, stopping>>
      /\ pool' = [pool EXCEPT !.m_cur = @ + 1]
      /\ thr' = [thr EXCEPT ![t] = F!Dispatch(@, F!Plain(j))]
  BY DEF F!BatchNext
<1>2. PoolTypeOK /\ StartFits /\ ThreadsFit /\ JobsFit /\ DealsFit
  BY DEF PoolInv
<1>3. vec \in Seq(Jobs) /\ IsInjective(vec)
  BY <1>2 DEF PoolTypeOK, JobsFit
<1>4. Dealt(j) /\ j \in Jobs /\ w \in Seq(Jobs) /\ ToSet(w) = ToSet(vec) \ {j} /\ IsInjective(w)
  BY <1>1, <1>3, TailSet DEF Dealt
<1>5. t \in F!Threads
  BY <1>2, Turn
<1> HIDE DEF j, w, t
<1>6. /\ pool' \in [m_callbacks : Seq(Jobs), m_freeFoxThreads : Seq(F!Threads), m_cur : Nat,
                    m_start : BOOLEAN, m_advance : BOOLEAN]
      /\ pool'.m_callbacks = pool.m_callbacks /\ pool'.m_freeFoxThreads = pool.m_freeFoxThreads /\ pool'.m_start = pool.m_start
  BY <1>1, <1>2, Turn
<1>7. ~Given(j) /\ ~Waiting(j) /\ ~InHand(j) /\ job[j] = "queued"
  BY <1>2, <1>4 DEF JobsFit
<1>8. thr' \in [F!Threads -> FoxThreadType] /\ StartFits' /\ ThreadsFit' /\ GivenToo(j)
  BY <1>1, <1>4, <1>5, <1>6, <1>7, PlainGiven
<1>9. PoolTypeOK'
  BY <1>1, <1>2, <1>4, <1>6, <1>8 DEF PoolTypeOK
<1>10. JobsFit'
  <2>1. \A i \in Jobs : /\ Waiting(i)' <=> Waiting(i)
                        /\ Dealt(i)' <=> Dealt(i) /\ i # j
                        /\ Given(i)' <=> Given(i) \/ i = j
                        /\ InHand(i)' <=> InHand(i)
    BY <1>1, <1>4, <1>6, <1>8 DEF Waiting, Dealt, InHand, GivenToo
  <2>2. /\ \A u \in F!Threads : EachOnce(Queue(thr'[u]))
        /\ \A u, v \in F!Threads, i \in Jobs : Has(Queue(thr'[u]), i) /\ Has(Queue(thr'[v]), i) => u = v
    BY <1>8 DEF GivenToo
  <2> QED
    BY <1>1, <1>2, <1>4, <1>6, <1>7, <2>1, <2>2 DEF JobsFit
<1>11. DealsFit'
  BY <1>1, <1>2, <1>6, <1>8 DEF DealsFit, GivenToo
<1> QED
  BY <1>8, <1>9, <1>10, <1>11 DEF PoolInv

LEMMA PoolLoopTake ==
    ASSUME PoolInv, NEW t \in F!Threads, F!LoopTake(t)
    PROVE  PoolInv'
<1>1. /\ thr[t].loop = "running" /\ thr[t].batch = <<>> /\ thr' = [thr EXCEPT ![t] = F!ReadCb(@)]
      /\ UNCHANGED <<pool, checks, hands, vec, job, stopping>>
  BY DEF F!LoopTake, F!InLoop
<1>2. PoolTypeOK /\ StartFits /\ ThreadsFit /\ JobsFit /\ DealsFit
  BY DEF PoolInv
<1> DEFINE th == thr[t]
           m == th.m_callbacks
           d == F!ReadCb(th)
<1>3. th \in FoxThreadType /\ m \in Seq(FoxCallback) /\ thr \in [F!Threads -> FoxThreadType]
  BY <1>2 DEF PoolTypeOK, FoxThreadType
<1>4. <<>> \o m = m /\ m \o <<>> = m /\ <<>> \in Seq(FoxCallback)
  <2> HIDE DEF m
  <2> QED
    BY <1>3
<1>5. /\ d \in FoxThreadType /\ d.batch = m /\ d.m_callbacks = <<>> /\ d.loop = th.loop /\ d.m_start = th.m_start
  BY <1>3, <1>4 DEF F!ReadCb, FoxThreadType
<1>6. Queue(th) = <<>> \o m /\ Queue(d) = m \o <<>>
  BY <1>1, <1>5 DEF Queue
<1>7. thr' = [thr EXCEPT ![t] = d]
  BY <1>1
<1> HIDE DEF d
<1>8. thr' \in [F!Threads -> FoxThreadType] /\ thr'[t] = d /\ \A u \in F!Threads \ {t} : thr'[u] = thr[u]
  BY ONLY <1>3, <1>5, <1>7, t \in F!Threads
<1>9. \A u \in F!Threads : /\ Queue(thr'[u]) = Queue(thr[u]) /\ thr'[u].loop = thr[u].loop /\ thr'[u].m_start = thr[u].m_start
                           /\ thr'[u].batch # <<>> => thr[u].loop = "running" \/ thr[u].batch # <<>>
  BY <1>1, <1>4, <1>5, <1>6, <1>8
<1>10. PoolTypeOK'
  BY <1>1, <1>2, <1>8 DEF PoolTypeOK
<1>11. StartFits'
  BY <1>1, <1>2, <1>9 DEF StartFits
<1>12. ThreadsFit'
  BY <1>1, <1>2, <1>9 DEF ThreadsFit, PoolTypeOK
<1>13. JobsFit'
  <2>1. \A i \in Jobs : /\ Waiting(i)' <=> Waiting(i)
                        /\ Dealt(i)' <=> Dealt(i)
                        /\ Given(i)' <=> Given(i)
                        /\ InHand(i)' <=> InHand(i)
    BY <1>1, <1>9 DEF Waiting, Dealt, InHand, Given
  <2> QED
    BY <1>1, <1>2, <1>9, <2>1 DEF JobsFit
<1>14. DealsFit'
  BY <1>1, <1>2, <1>9 DEF DealsFit, AnyStopped
<1> QED
  BY <1>10, <1>11, <1>12, <1>13, <1>14 DEF PoolInv

\* What a batch ran, and what it dropped.
LEMMA RanOf ==
    ASSUME NEW b \in Seq(FoxCallback), NEW j
    PROVE  /\ j \in F!Ran(b) => Has(b, j)
           /\ ~Halts(b) /\ Has(b, j) => j \in F!Ran(b)
<1>1. DOMAIN b = 1 .. Len(b) /\ Len(b) \in Nat
  OBVIOUS
<1>2. \A k \in DOMAIN b : k \in 1 .. k /\ \A l \in 1 .. k : l \in DOMAIN b
  BY <1>1
<1>3. F!Ran(b) = {b[k].job : k \in {i \in DOMAIN b : \A l \in 1 .. i : ~F!IsStop(b[l])}}
  BY DEF F!Ran
<1>4. ASSUME j \in F!Ran(b) PROVE Has(b, j)
  <2>1. PICK k \in DOMAIN b : (\A l \in 1 .. k : ~F!IsStop(b[l])) /\ b[k].job = j
    BY <1>3, <1>4
  <2> QED
    BY <1>2, <2>1 DEF Has
<1>5. ASSUME ~Halts(b), Has(b, j) PROVE j \in F!Ran(b)
  <2>1. PICK k \in DOMAIN b : b[k].job = j
    BY <1>5 DEF Has
  <2>2. \A l \in 1 .. k : ~F!IsStop(b[l])
    BY <1>2, <1>5 DEF Halts
  <2> QED
    BY <1>3, <2>1, <2>2
<1> QED
  BY <1>4, <1>5

\* A batch has at most one pointer to its thread; it is released that often.
LEMMA ReleasedOnce ==
    ASSUME NEW b \in Seq(FoxCallback), PointsOnce(b), NEW t \in F!Threads
    PROVE  LET n == F!Cardinality(F!Pointers(b))
               r == [k \in 1 .. n |-> t]
           IN  /\ n \in Nat /\ (n = 0 <=> ~Points(b))
               /\ r \in Seq(F!Threads) /\ IsInjective(r)
               /\ ToSet(r) = IF Points(b) THEN {t} ELSE {}
               /\ n = 0 => r = <<>>
<1> DEFINE n == F!Cardinality(F!Pointers(b))
           r == [k \in 1 .. n |-> t]
<1>1. IsFiniteSet(F!Pointers(b))
  <2>1. F!Pointers(b) \subseteq 1 .. Len(b) /\ Len(b) \in Nat
    BY DEF F!Pointers
  <2>2. IsFiniteSet(1 .. Len(b))
    BY <2>1, FS_Interval
  <2> QED
    BY <2>1, <2>2, FS_Subset
<1>2. n = IF Points(b) THEN 1 ELSE 0
  <2> DEFINE P == F!Pointers(b)
  <2>1. \A x, y \in P : x = y
    BY DEF PointsOnce
  <2>2. n = Cardinality(P) /\ (Points(b) <=> P # {})
    BY FoxCount DEF Points
  <2> HIDE DEF P, n
  <2>3. Cardinality(P) = IF P = {} THEN 0 ELSE 1
    BY <1>1, <2>1, AtMostOne DEF P
  <2> QED
    BY <2>2, <2>3
<1> HIDE DEF n
<1>3. /\ DOMAIN r = (IF Points(b) THEN {1} ELSE {}) /\ r \in Seq(F!Threads)
      /\ Points(b) => r[1] = t
      /\ ~Points(b) => r = <<>>
  <2>1. CASE Points(b)
    BY <1>2, <2>1
  <2>2. CASE ~Points(b)
    BY <1>2, <2>2
  <2> QED
    BY <2>1, <2>2
<1> HIDE DEF r
<1>4. /\ n \in Nat /\ (n = 0 <=> ~Points(b))
      /\ r \in Seq(F!Threads) /\ IsInjective(r)
      /\ ToSet(r) = IF Points(b) THEN {t} ELSE {}
      /\ n = 0 => r = <<>>
  <2>1. n \in Nat /\ (n = 0 <=> ~Points(b))
    BY <1>2
  <2>2. IsInjective(r)
    BY <1>3 DEF IsInjective
  <2>3. ToSet(r) = IF Points(b) THEN {t} ELSE {}
    BY <1>3 DEF ToSet
  <2> QED
    BY <1>3, <2>1, <2>2, <2>3
<1> QED
  BY <1>4 DEF n, r

\* Thread t has run its batch.
LEMMA PoolRuns ==
    ASSUME PoolInv, NEW t \in F!Threads, F!LoopRun(t)
    PROVE  /\ thr' \in [F!Threads -> FoxThreadType]
           /\ \A u \in F!Threads \ {t} : thr'[u] = thr[u]
           /\ thr[t].loop = "running" /\ thr[t].batch # <<>> /\ thr'[t].batch = <<>>
           /\ thr'[t].m_start <=> thr'[t].loop = "running"
           /\ thr'[t].loop = IF Halts(thr[t].batch) THEN "ended" ELSE "running"
           /\ Queue(thr'[t]) = thr[t].m_callbacks
<1>1. /\ thr[t].batch # <<>>
      /\ thr' = [thr EXCEPT ![t] = IF Halts(thr[t].batch) THEN F!BreakLoop(@) ELSE [@ EXCEPT !.batch = <<>>]]
  BY DEF F!LoopRun, Halts
<1> DEFINE th == thr[t]
           m == th.m_callbacks
           d == IF Halts(thr[t].batch) THEN F!BreakLoop(th) ELSE [th EXCEPT !.batch = <<>>]
<1>2. /\ th \in FoxThreadType /\ m \in Seq(FoxCallback) /\ thr \in [F!Threads -> FoxThreadType]
      /\ th.loop = "running" /\ th.m_start
  BY <1>1 DEF PoolInv, PoolTypeOK, StartFits, FoxThreadType
<1>3. <<>> \o m = m /\ <<>> \in Seq(FoxCallback)
  <2> HIDE DEF m
  <2> QED
    BY <1>2
<1>4. /\ d \in FoxThreadType /\ d.batch = <<>> /\ d.m_callbacks = m
      /\ d.m_start <=> d.loop = "running"
      /\ d.loop = IF Halts(thr[t].batch) THEN "ended" ELSE "running"
  <2>1. CASE Halts(thr[t].batch)
    BY <1>2, <1>3, <2>1 DEF F!BreakLoop, FoxThreadType
  <2>2. CASE ~Halts(thr[t].batch)
    BY <1>2, <1>3, <2>2 DEF FoxThreadType
  <2> QED
    BY <2>1, <2>2
<1>5. thr' = [thr EXCEPT ![t] = d]
  BY <1>1
<1>6. Queue(d) = m
  BY <1>3, <1>4 DEF Queue
<1> HIDE DEF d
<1>7. thr' \in [F!Threads -> FoxThreadType] /\ thr'[t] = d /\ \A u \in F!Threads \ {t} : thr'[u] = thr[u]
  BY ONLY <1>2, <1>4, <1>5, t \in F!Threads
<1> QED
  BY <1>1, <1>2, <1>4, <1>6, <1>7

LEMMA PoolLoopRun ==
    ASSUME PoolInv, NEW t \in F!Threads, F!LoopRun(t)
    PROVE  PoolInv'
<1> DEFINE b == thr[t].batch
           m == thr[t].m_callbacks
           n == F!Cardinality(F!Pointers(b))
           r == [k \in 1 .. n |-> t]
           f == pool.m_freeFoxThreads \o r
<1>1. /\ UNCHANGED <<hands, vec, stopping>> /\ checks' = checks + n
      /\ pool' = [pool EXCEPT !.m_freeFoxThreads = f]
  BY DEF F!LoopRun
<1>2. PoolTypeOK /\ StartFits /\ ThreadsFit /\ JobsFit /\ DealsFit
  BY DEF PoolInv
<1>3. b \in Seq(FoxCallback) /\ m \in Seq(FoxCallback) /\ Queue(thr[t]) = b \o m
  BY <1>2 DEF PoolTypeOK, FoxThreadType, Queue
<1>4. job' = [j \in Jobs |-> IF j \in F!Ran(b) THEN (IF job[j] = "queued" THEN "run" ELSE "again")
                             ELSE IF Has(b, j) THEN "dropped" ELSE job[j]]
  BY DEF F!LoopRun, Has
<1>5. /\ thr' \in [F!Threads -> FoxThreadType]
      /\ \A u \in F!Threads \ {t} : thr'[u] = thr[u]
      /\ thr[t].loop = "running" /\ thr'[t].batch = <<>>
      /\ thr'[t].m_start <=> thr'[t].loop = "running"
      /\ thr'[t].loop = IF Halts(b) THEN "ended" ELSE "running"
      /\ Queue(thr'[t]) = m
  BY PoolRuns
<1>6. PointsOnce(Queue(thr[t])) /\ EachOnce(Queue(thr[t]))
  BY <1>2 DEF ThreadsFit, JobsFit
<1> HIDE DEF b, m
<1>7. /\ \A j : Has(Queue(thr[t]), j) <=> Has(b, j) \/ Has(m, j)
      /\ EachOnce(m) /\ \A j : ~(Has(b, j) /\ Has(m, j))
      /\ Points(Queue(thr[t])) <=> Points(b) \/ Points(m)
      /\ PointsOnce(b) /\ PointsOnce(m) /\ ~(Points(b) /\ Points(m))
      /\ Halts(Queue(thr[t])) <=> Halts(b) \/ Halts(m)
  <2> DEFINE q == b \o m
  <2>1. q = Queue(thr[t])
    BY <1>3
  <2>2. /\ \A j : Has(q, j) <=> Has(b, j) \/ Has(m, j)
        /\ EachOnce(q) => EachOnce(b) /\ EachOnce(m) /\ \A j : ~(Has(b, j) /\ Has(m, j))
        /\ Points(q) <=> Points(b) \/ Points(m)
        /\ PointsOnce(q) => PointsOnce(b) /\ PointsOnce(m) /\ ~(Points(b) /\ Points(m))
        /\ Halts(q) <=> Halts(b) \/ Halts(m)
    BY <1>3, QueueCut
  <2> HIDE DEF q
  <2> QED
    BY <1>6, <2>1, <2>2
<1>8. /\ n \in Nat /\ (n = 0 <=> ~Points(b)) /\ r \in Seq(F!Threads) /\ IsInjective(r)
      /\ ToSet(r) = (IF Points(b) THEN {t} ELSE {}) /\ (n = 0 => r = <<>>)
  BY <1>3, <1>7, ReleasedOnce
<1> HIDE DEF n, r
<1>9. /\ pool.m_freeFoxThreads \in Seq(F!Threads) /\ IsInjective(pool.m_freeFoxThreads)
      /\ Points(b) => t \notin ToSet(pool.m_freeFoxThreads)
  BY <1>2, <1>7 DEF PoolTypeOK, ThreadsFit
<1>10. /\ f \in Seq(F!Threads) /\ IsInjective(f)
       /\ \A u : u \in ToSet(f) <=> u \in ToSet(pool.m_freeFoxThreads) \/ (Points(b) /\ u = t)
       /\ ~Points(b) => f = pool.m_freeFoxThreads
  <2> DEFINE p == pool.m_freeFoxThreads
  <2>1. p \in Seq(F!Threads) /\ IsInjective(p) /\ ToSet(p) \cap ToSet(r) = {}
    BY <1>8, <1>9
  <2> HIDE DEF p
  <2>2. p \o r \in Seq(F!Threads) /\ ToSet(p \o r) = ToSet(p) \cup ToSet(r) /\ IsInjective(p \o r)
    BY <1>8, <2>1, JoinSet
  <2>3. p \o <<>> = p
    BY <2>1
  <2> QED
    BY <1>8, <2>2, <2>3 DEF p
<1> HIDE DEF f
<1>11. /\ pool'.m_freeFoxThreads = f /\ pool'.m_start = pool.m_start /\ pool'.m_callbacks = pool.m_callbacks
       /\ pool' \in [m_callbacks : Seq(Jobs), m_freeFoxThreads : Seq(F!Threads), m_cur : Nat,
                     m_start : BOOLEAN, m_advance : BOOLEAN]
  BY <1>1, <1>2, <1>10 DEF PoolTypeOK
<1>12. \A j \in Jobs : /\ j \in F!Ran(b) => Has(b, j)
                       /\ ~Halts(b) /\ Has(b, j) => j \in F!Ran(b)
                       /\ Has(b, j) => Given(j) /\ job[j] = "queued"
  <2>1. \A j \in Jobs : (j \in F!Ran(b) => Has(b, j)) /\ (~Halts(b) /\ Has(b, j) => j \in F!Ran(b))
    BY <1>3, RanOf
  <2>2. \A j \in Jobs : Has(b, j) => Given(j)
    BY <1>7 DEF Given
  <2> QED
    BY <1>2, <2>1, <2>2 DEF JobsFit
<1>13. /\ job' \in [Jobs -> {"new", "queued", "run", "dropped"}]
       /\ \A j \in Jobs : (~Has(b, j) => job'[j] = job[j]) /\ (job'[j] = "dropped" => job[j] = "dropped" \/ Halts(b))
  BY <1>2, <1>4, <1>12 DEF PoolTypeOK
<1>14. PoolTypeOK'
  BY <1>1, <1>2, <1>5, <1>8, <1>11, <1>13 DEF PoolTypeOK
<1>15. StartFits'
  <2>1. ASSUME pool'.m_start \/ f # <<>> \/ hands # {} \/ (\E u \in F!Threads : Points(Queue(thr'[u])))
        PROVE  \A u \in F!Threads : thr[u].loop # "none"
    <3>1. (\E u \in F!Threads : Points(Queue(thr'[u]))) => \E u \in F!Threads : Points(Queue(thr[u]))
      BY <1>5, <1>7
    <3>2. f # <<>> => pool.m_freeFoxThreads # <<>> \/ Points(Queue(thr[t]))
      BY <1>7, <1>10
    <3> QED
      BY <1>2, <1>11, <2>1, <3>1, <3>2 DEF StartFits
  <2>2. \A u \in F!Threads : thr[u].loop # "none" => thr'[u].loop # "none"
    BY <1>5
  <2>3. \A u \in F!Threads : /\ thr'[u].m_start <=> thr'[u].loop = "running"
                             /\ thr'[u].batch # <<>> => thr'[u].loop = "running"
    BY <1>2, <1>5 DEF StartFits
  <2>4. stopping' > 0 => pool'.m_start
    BY <1>1, <1>2, <1>11 DEF StartFits
  <2> QED
    BY <1>1, <1>11, <2>1, <2>2, <2>3, <2>4 DEF StartFits
<1>16. ThreadsFit'
  <2>1. \A u \in F!Threads : PointsOnce(Queue(thr'[u])) /\ (u \in ToSet(f) => ~Points(Queue(thr'[u])))
    BY <1>2, <1>5, <1>7, <1>10 DEF ThreadsFit
  <2>2. ASSUME NEW h \in hands PROVE h[1] \notin ToSet(f) /\ ~Points(Queue(thr'[h[1]]))
    <3>1. h[1] \in F!Threads /\ h[1] \notin ToSet(pool.m_freeFoxThreads) /\ ~Points(Queue(thr[h[1]]))
      BY <1>2, <2>2 DEF ThreadsFit, PoolTypeOK
    <3> QED
      BY <1>5, <1>7, <1>10, <3>1
  <2> QED
    BY <1>1, <1>2, <1>10, <1>11, <2>1, <2>2 DEF ThreadsFit
<1>17. JobsFit'
  <2>1. \A u \in F!Threads : \A j : Has(Queue(thr'[u]), j) => Has(Queue(thr[u]), j) /\ (u = t => ~Has(b, j))
    BY <1>5, <1>7
  <2>2. \A j \in Jobs : Given(j)' => Given(j) /\ ~Has(b, j)
    <3>1. \A u \in F!Threads, j \in Jobs : Has(b, j) /\ Has(Queue(thr[u]), j) => u = t
      BY <1>2, <1>7 DEF JobsFit
    <3> QED
      BY <2>1, <3>1 DEF Given
  <2>3. \A j \in Jobs : (Waiting(j)' <=> Waiting(j)) /\ (Dealt(j)' <=> Dealt(j)) /\ (InHand(j)' <=> InHand(j))
    BY <1>1, <1>11 DEF Waiting, Dealt, InHand
  <2>4. \A u \in F!Threads : EachOnce(Queue(thr'[u]))
    BY <1>2, <1>5, <1>7 DEF JobsFit
  <2>5. \A u, v \in F!Threads, j \in Jobs : Has(Queue(thr'[u]), j) /\ Has(Queue(thr'[v]), j) => u = v
    BY <1>2, <2>1 DEF JobsFit
  <2>6. ASSUME NEW j \in Jobs
        PROVE  /\ Waiting(j)' => ~Dealt(j)' /\ ~InHand(j)' /\ ~Given(j)'
               /\ Dealt(j)' => ~InHand(j)' /\ ~Given(j)'
               /\ InHand(j)' => ~Given(j)'
               /\ Waiting(j)' \/ Dealt(j)' \/ InHand(j)' \/ Given(j)' => job'[j] = "queued"
    <3>1. /\ Waiting(j) => ~Dealt(j) /\ ~InHand(j) /\ ~Given(j)
          /\ Dealt(j) => ~InHand(j) /\ ~Given(j)
          /\ InHand(j) => ~Given(j)
          /\ Waiting(j) \/ Dealt(j) \/ InHand(j) \/ Given(j) => job[j] = "queued"
      BY <1>2 DEF JobsFit
    <3> QED
      BY <1>12, <1>13, <2>2, <2>3, <3>1
  <2> QED
    BY <1>1, <1>2, <1>11, <2>4, <2>5, <2>6 DEF JobsFit
<1>18. DealsFit'
  <2>1. AnyStopped \/ Halts(b) => AnyStopped'
    <3>1. Halts(b) => thr'[t].loop = "ended"
      BY <1>5
    <3>2. \A u \in F!Threads : thr[u].loop = "ended" \/ Halts(Queue(thr[u])) =>
                                   thr'[u].loop = "ended" \/ Halts(Queue(thr'[u]))
      BY <1>5, <1>7
    <3> QED
      BY <3>1, <3>2 DEF AnyStopped
  <2>2. checks' = 0 => checks = 0 /\ ~Points(b)
    BY <1>1, <1>2, <1>8 DEF PoolTypeOK
  <2> QED
    BY <1>1, <1>2, <1>10, <1>11, <1>13, <2>1, <2>2 DEF DealsFit
<1> QED
  BY <1>14, <1>15, <1>16, <1>17, <1>18 DEF PoolInv

LEMMA PoolStopBegin ==
    ASSUME PoolInv, F!StopBegin
    PROVE  PoolInv'
<1>1. pool.m_start /\ stopping' = m_size /\ UNCHANGED <<thr, pool, checks, hands, vec, job>>
  BY DEF F!StopBegin
<1>2. PoolTypeOK'
  BY <1>1, PoolAssumption DEF PoolInv, PoolTypeOK
<1>3. StartFits' /\ ThreadsFit'
  BY <1>1 DEF PoolInv, StartFits, ThreadsFit
<1>4. JobsFit'
  BY <1>1 DEF PoolInv, JobsFit, Waiting, Dealt, InHand, Given
<1>5. DealsFit'
  BY <1>1 DEF PoolInv, DealsFit, AnyStopped
<1> QED
  BY <1>2, <1>3, <1>4, <1>5 DEF PoolInv

LEMMA PoolStopNext ==
    ASSUME PoolInv, F!StopNext
    PROVE  PoolInv'
<1> DEFINE t == m_size - stopping
           cb == F!STOP
<1>1. /\ stopping > 0 /\ stopping' = stopping - 1
      /\ thr' = [thr EXCEPT ![t] = F!StopThread(@)]
      /\ pool' = [pool EXCEPT !.m_start = stopping > 1]
      /\ UNCHANGED <<checks, hands, vec, job>>
  BY DEF F!StopNext
<1>2. PoolTypeOK /\ StartFits /\ ThreadsFit /\ JobsFit /\ DealsFit
  BY DEF PoolInv
<1>3. t \in F!Threads /\ stopping' \in 0 .. m_size
  BY <1>1, <1>2, PoolAssumption DEF PoolTypeOK, F!Threads
<1> HIDE DEF t
<1>4. pool.m_start /\ \A u \in F!Threads : thr[u].loop # "none"
  BY <1>1, <1>2 DEF StartFits
<1>5. F!StopThread(thr[t]) = F!Dispatch(thr[t], cb)
  <2>1. thr[t].loop # "none"
    BY <1>3, <1>4
  <2>2. thr[t] \in FoxThreadType
    BY <1>2, <1>3 DEF PoolTypeOK
  <2> QED
    BY <2>1, <2>2 DEF F!StopThread, F!Dispatch, FoxThreadType
<1>6. cb \in FoxCallback /\ F!IsStop(cb)
  BY DEF FoxCallback, F!IsStop, F!STOP
<1>7. thr' = [thr EXCEPT ![t] = F!Dispatch(thr[t], cb)]
  BY <1>1, <1>5
<1> HIDE DEF cb
<1>8. Gets(t, cb)
  BY <1>2, <1>3, <1>6, <1>7, ThreadGets
<1>9. /\ thr' \in [F!Threads -> FoxThreadType]
      /\ \A u \in F!Threads :
            /\ thr'[u].loop = thr[u].loop /\ thr'[u].batch = thr[u].batch /\ thr'[u].m_start = thr[u].m_start
            /\ \A j : Has(Queue(thr'[u]), j) <=> Has(Queue(thr[u]), j)
            /\ EachOnce(Queue(thr[u])) => EachOnce(Queue(thr'[u]))
            /\ Points(Queue(thr'[u])) <=> Points(Queue(thr[u]))
            /\ PointsOnce(Queue(thr[u])) => PointsOnce(Queue(thr'[u]))
            /\ Halts(Queue(thr'[u])) <=> Halts(Queue(thr[u])) \/ u = t
  BY <1>6, <1>8 DEF Gets
<1>10. /\ pool'.m_freeFoxThreads = pool.m_freeFoxThreads /\ pool'.m_callbacks = pool.m_callbacks
       /\ pool'.m_start = (stopping > 1)
       /\ pool' \in [m_callbacks : Seq(Jobs), m_freeFoxThreads : Seq(F!Threads), m_cur : Nat,
                     m_start : BOOLEAN, m_advance : BOOLEAN]
  <2> DEFINE on == stopping > 1
  <2>1. on \in BOOLEAN /\ pool' = [pool EXCEPT !.m_start = on]
    BY <1>1
  <2> HIDE DEF on
  <2>2. /\ pool'.m_freeFoxThreads = pool.m_freeFoxThreads /\ pool'.m_callbacks = pool.m_callbacks
        /\ pool'.m_start = on
        /\ pool' \in [m_callbacks : Seq(Jobs), m_freeFoxThreads : Seq(F!Threads), m_cur : Nat,
                       m_start : BOOLEAN, m_advance : BOOLEAN]
    BY <1>2, <2>1 DEF PoolTypeOK
  <2> QED
    BY <2>2 DEF on
<1>11. PoolTypeOK'
  BY <1>1, <1>2, <1>3, <1>9, <1>10 DEF PoolTypeOK
<1>12. StartFits'
  <2>1. stopping' > 0 => pool'.m_start
    BY <1>1, <1>2, <1>10 DEF PoolTypeOK
  <2> QED
    BY <1>1, <1>2, <1>4, <1>9, <1>10, <2>1 DEF StartFits
<1>13. ThreadsFit'
  BY <1>1, <1>2, <1>9, <1>10 DEF ThreadsFit, PoolTypeOK
<1>14. JobsFit'
  <2>1. \A i \in Jobs : /\ Waiting(i)' <=> Waiting(i)
                        /\ Dealt(i)' <=> Dealt(i)
                        /\ Given(i)' <=> Given(i)
                        /\ InHand(i)' <=> InHand(i)
    BY <1>1, <1>9, <1>10 DEF Waiting, Dealt, InHand, Given
  <2> QED
    BY <1>1, <1>2, <1>9, <1>10, <2>1 DEF JobsFit
<1>15. DealsFit'
  <2>1. AnyStopped'
    BY <1>3, <1>9 DEF AnyStopped
  <2> QED
    BY <2>1 DEF DealsFit
<1> QED
  BY <1>11, <1>12, <1>13, <1>14, <1>15 DEF PoolInv

LEMMA PoolInvNext == PoolPartInv /\ [Next]_vars => PoolPartInv'
<1> SUFFICES ASSUME PoolPartInv, [Next]_vars, which' = "pool" PROVE PoolInv'
  BY DEF PoolPartInv
<1>1. which = "pool" /\ (F!PoolNext \/ UNCHANGED poolVars)
  BY DEF Next, vars
<1>2. PoolInv
  BY <1>1 DEF PoolPartInv
<1>3. CASE UNCHANGED poolVars
  <2>1. UNCHANGED <<thr, pool, checks, hands, vec, job, stopping>>
    BY <1>3 DEF poolVars
  <2>2. PoolTypeOK'
    BY <1>2, <2>1 DEF PoolInv, PoolTypeOK
  <2>3. StartFits' /\ ThreadsFit'
    BY <1>2, <2>1 DEF PoolInv, StartFits, ThreadsFit
  <2>4. JobsFit'
    BY <1>2, <2>1 DEF PoolInv, JobsFit, Waiting, Dealt, InHand, Given
  <2>5. DealsFit'
    BY <1>2, <2>1 DEF PoolInv, DealsFit, AnyStopped
  <2> QED
    BY <2>2, <2>3, <2>4, <2>5 DEF PoolInv
<1>4. CASE F!Start
  BY <1>2, <1>4, PoolStarts
<1>5. CASE F!CheckEnds
  BY <1>2, <1>5, PoolCheckEnds
<1>6. CASE F!CheckTakes
  BY <1>2, <1>6, PoolCheckTakes
<1>7. CASE F!BatchDispatch
  BY <1>2, <1>7, PoolBatchDispatch
<1>8. CASE F!BatchNext
  BY <1>2, <1>8, PoolBatchNext
<1>9. CASE F!StopBegin
  BY <1>2, <1>9, PoolStopBegin
<1>10. CASE F!StopNext
  BY <1>2, <1>10, PoolStopNext
<1>11. ASSUME NEW j \in Jobs, F!DispatchJob(j) PROVE PoolInv'
  BY <1>2, <1>11, PoolDispatchJob
<1>12. ASSUME NEW t \in F!Threads, NEW j \in Jobs, F!CheckGives(t, j) PROVE PoolInv'
  BY <1>2, <1>12, PoolCheckGives
<1>13. ASSUME NEW t \in F!Threads, NEW j \in Jobs, F!DispatchTo(t, j) PROVE PoolInv'
  BY <1>2, <1>13, PoolDispatchTo
<1>14. ASSUME NEW t \in F!Threads, F!LoopTake(t) PROVE PoolInv'
  BY <1>2, <1>14, PoolLoopTake
<1>15. ASSUME NEW t \in F!Threads, F!LoopRun(t) PROVE PoolInv'
  BY <1>2, <1>15, PoolLoopRun
<1> QED
  BY <1>1, <1>3, <1>4, <1>5, <1>6, <1>7, <1>8, <1>9, <1>10, <1>11, <1>12, <1>13, <1>14, <1>15 DEF F!PoolNext

\* A set that has no two elements is counted by whether it has one.
LEMMA OneOrNone ==
    ASSUME NEW A, \A x, y \in A : x = y
    PROVE  F!Cardinality(A) = IF A = {} THEN 0 ELSE 1
<1>1. IsFiniteSet(A)
  <2>1. CASE A = {}
    BY <2>1, FS_EmptySet
  <2>2. ASSUME NEW x \in A PROVE IsFiniteSet(A)
    <3>1. A = {x}
      OBVIOUS
    <3> QED
      BY <3>1, FS_Singleton
  <2> QED
    BY <2>1, <2>2
<1> QED
  BY <1>1, AtMostOne, FoxCount

LEMMA PoolKept == PoolInv => F!PoolDeals
<1> SUFFICES ASSUME PoolInv PROVE F!PoolDeals
  OBVIOUS
<1>1. PoolTypeOK /\ StartFits /\ ThreadsFit /\ JobsFit /\ DealsFit
  BY DEF PoolInv
<1> DEFINE f == pool.m_freeFoxThreads
<1>2. f \in Seq(F!Threads) /\ IsInjective(f)
  BY <1>1 DEF PoolTypeOK, ThreadsFit
<1>3. \A t \in F!Threads : F!Todo(t) = Queue(thr[t]) /\ (F!IsFree(t) <=> t \in ToSet(f))
  BY DEF F!Todo, Queue, F!IsFree, ToSet
<1>4. F!Stopped <=> AnyStopped
  BY <1>3 DEF F!Stopped, AnyStopped, Halts
<1>5. \A k, l \in DOMAIN f : f[k] = f[l] => k = l
  BY <1>2 DEF IsInjective
<1>6. ASSUME NEW t \in F!Threads
      PROVE  /\ F!Cardinality(F!Pointers(F!Todo(t))) + F!Cardinality({h \in hands : h[1] = t}) <= 1
             /\ F!IsFree(t) => F!Pointers(F!Todo(t)) = {} /\ \A h \in hands : h[1] # t
  <2> DEFINE P == F!Pointers(Queue(thr[t]))
             H == {h \in hands : h[1] = t}
  <2>1. (\A x, y \in P : x = y) /\ (t \in ToSet(f) => P = {})
    BY <1>1 DEF ThreadsFit, PointsOnce, Points
  <2>2. (\A x, y \in H : x = y) /\ (t \in ToSet(f) => H = {})
    BY <1>1 DEF ThreadsFit
  <2>3. P = {} \/ H = {}
    BY <1>1 DEF ThreadsFit, Points
  <2>4. \A h \in hands : h[1] = t => h \in H
    OBVIOUS
  <2>5. F!Todo(t) = Queue(thr[t]) /\ (F!IsFree(t) <=> t \in ToSet(f))
    BY <1>3
  <2> HIDE DEF P, H
  <2>6. F!Cardinality(P) = (IF P = {} THEN 0 ELSE 1) /\ F!Cardinality(H) = (IF H = {} THEN 0 ELSE 1)
    BY <2>1, <2>2, OneOrNone
  <2>7. F!Cardinality(P) + F!Cardinality(H) <= 1
    BY <2>3, <2>6
  <2>8. F!IsFree(t) => P = {} /\ \A h \in hands : h[1] # t
    BY <2>1, <2>2, <2>4, <2>5
  <2> QED
    BY <2>5, <2>7, <2>8 DEF P, H
<1>7. pool.m_start /\ ~F!Stopped /\ checks = 0 /\ hands = {} =>
          pool.m_callbacks = <<>> \/ pool.m_freeFoxThreads = <<>>
  BY <1>1, <1>4 DEF DealsFit
<1>8. \A j \in Jobs : job[j] # "again" /\ (job[j] = "dropped" => F!Stopped)
  BY <1>1, <1>4 DEF PoolTypeOK, DealsFit
<1>9. F!Spins => F!Stopped
  <2> SUFFICES ASSUME F!Spins PROVE AnyStopped
    BY <1>4
  <2>1. PICK t \in F!Threads : t \in ToSet(f)
    <3>1. f # <<>>
      BY DEF F!Spins
    <3> QED
      BY <1>2, <3>1, SetOfQueue
  <2>2. ~thr[t].m_start /\ pool.m_start
    BY <1>3, <2>1 DEF F!Spins
  <2>3. thr[t].loop # "none" /\ thr[t].loop # "running"
    BY <1>1, <2>2 DEF StartFits
  <2>4. thr[t].loop = "ended"
    BY <1>1, <2>3 DEF PoolTypeOK, FoxThreadType
  <2> QED
    BY <2>4 DEF AnyStopped
<1> HIDE DEF f
<1>10. \A t \in F!Threads :
          /\ F!Cardinality(F!Pointers(F!Todo(t))) + F!Cardinality({h \in hands : h[1] = t}) <= 1
          /\ F!IsFree(t) => F!Pointers(F!Todo(t)) = {} /\ \A h \in hands : h[1] # t
  BY <1>6
<1> QED
  BY <1>5, <1>7, <1>8, <1>9, <1>10 DEF F!PoolDeals, f

\* A thread of the pool is free, taken or has one of the pool's callbacks, a callback
\* runs once and is dropped only by a stop, and no callback waits beside a free thread
\* when nobody looks, however many threads and callbacks (FoxThreadPool::check(),
\* dispatch(), batchDispatch(), releaseFoxThread(), stop()).
THEOREM PoolDealsFairly == Spec => []PoolDeals
<1>1. Init => PoolPartInv
  BY PoolInvInit DEF Init, PoolPartInv
<1>2. PoolPartInv /\ [Next]_vars => PoolPartInv'
  BY PoolInvNext
<1>3. PoolPartInv => PoolDeals
  BY PoolKept DEF PoolPartInv, PoolDeals
<1> QED
  BY <1>1, <1>2, <1>3, PTL DEF Spec

-----------------------------------------------------------------------------
(***************************************************************************)
(* MySQLStmt.  What is sent is right because a block that nothing overran  *)
(* is large enough for the value it has (BlocksFit): a text gets a new     *)
(* block when the last value was shorter, which is safe only while the     *)
(* last value fitted its block.                                            *)
(***************************************************************************)
StmtTypeOK ==
    /\ m_binds = [i \in Slots |-> [type |-> m_binds[i].type, cap |-> m_binds[i].cap, len |-> m_binds[i].len, val |-> m_binds[i].val]]
    /\ \A i \in Slots : m_binds[i].cap \in Int /\ m_binds[i].len \in Int
    /\ bound = [i \in Slots |-> bound[i]] /\ wide \subseteq Slots /\ runs \in Nat /\ errno \in {"ok", "failed"}
    /\ res = [m_errno |-> res.m_errno, meta |-> res.meta, m_binds |-> res.m_binds, left |-> res.left, run |-> res.run]

NoValue(b) == b.type \in {S!Null, "zero"}
BlockFits(b, v) ==
    /\ b.cap = -1 => b.len = 0 /\ NoValue(b)
    /\ b.cap # -1 => 0 <= b.len /\ b.len <= b.cap
    /\ v = IF NoValue(b) THEN S!Null ELSE b.val
BlocksFit == \A i \in Slots \ wide : BlockFits(m_binds[i], bound[i])

ResultFits == res.m_errno = "ok" /\ res.meta =>
                  res.run \in 1 .. runs /\ \A k \in DOMAIN Columns : res.m_binds[k] = S!Alloc(Columns[k])

StmtInv == StmtTypeOK /\ BlocksFit /\ ResultFits
StmtPartInv == which = "stmt" => StmtInv

LEMMA StmtInvInit == S!StmtInit => StmtInv
<1> SUFFICES ASSUME S!StmtInit PROVE StmtInv
  OBVIOUS
<1>1. /\ m_binds = [i \in Slots |-> S!Unbound] /\ bound = [i \in Slots |-> S!Null]
      /\ wide = {} /\ res = S!NoResult /\ runs = 0 /\ errno = "ok"
  BY DEF S!StmtInit
<1>2. StmtTypeOK
  BY <1>1 DEF StmtTypeOK, S!Unbound, S!NoResult
<1>3. BlocksFit
  BY <1>1 DEF BlocksFit, BlockFits, NoValue, S!Unbound
<1>4. ResultFits
  BY <1>1 DEF ResultFits, S!NoResult
<1> QED
  BY <1>2, <1>3, <1>4 DEF StmtInv

LEMMA WidthIs == \A type \in DOMAIN S!Width : S!Width[type] \in Nat /\ type # S!Null /\ type # "zero"
  BY DEF S!Width, S!Null

\* A parameter's block becomes b for value v, and the others are as they were.
LEMMA OneBound ==
    ASSUME StmtInv, NEW i \in Slots, NEW b, NEW v, S!Bound(i, b, v),
           b = [type |-> b.type, cap |-> b.cap, len |-> b.len, val |-> b.val], b.cap \in Int, b.len \in Int,
           wide' \subseteq Slots, \A k \in Slots \ {i} : k \in wide' <=> k \in wide,
           i \notin wide' => BlockFits(b, v)
    PROVE  StmtInv'
<1>1. m_binds' = [m_binds EXCEPT ![i] = b] /\ bound' = [bound EXCEPT ![i] = v] /\ UNCHANGED <<errno, sent, res, runs>>
  BY DEF S!Bound
<1>2. StmtTypeOK /\ BlocksFit /\ ResultFits
  BY DEF StmtInv
<1>3. /\ m_binds'[i] = b /\ \A k \in Slots \ {i} : m_binds'[k] = m_binds[k]
      /\ bound'[i] = v /\ \A k \in Slots \ {i} : bound'[k] = bound[k]
      /\ m_binds' = [k \in Slots |-> m_binds'[k]] /\ bound' = [k \in Slots |-> bound'[k]]
  BY <1>1, <1>2 DEF StmtTypeOK
<1>4. \A k \in Slots : m_binds'[k] = [type |-> m_binds'[k].type, cap |-> m_binds'[k].cap, len |-> m_binds'[k].len, val |-> m_binds'[k].val]
  BY <1>2, <1>3 DEF StmtTypeOK
<1>5. StmtTypeOK'
  BY <1>1, <1>2, <1>3, <1>4 DEF StmtTypeOK
<1>6. BlocksFit'
  BY <1>2, <1>3 DEF BlocksFit
<1>7. ResultFits'
  BY <1>1, <1>2 DEF ResultFits
<1> QED
  BY <1>5, <1>6, <1>7 DEF StmtInv

LEMMA StmtBindNumber ==
    ASSUME StmtInv, NEW i \in Slots, NEW type \in DOMAIN S!Width, NEW v, S!BindNumber(i, type, v)
    PROVE  StmtInv'
<1> DEFINE b == m_binds[i]
           n == S!Width[type]
           d == S!BindCopy(b, type, n, v)
           cap == IF b.cap = -1 THEN n ELSE b.cap
<1>1. /\ S!Bound(i, d, v)
      /\ wide' = IF b.cap # -1 /\ b.cap < n THEN wide \cup {i} ELSE wide
  BY DEF S!BindNumber
<1>2. n \in Nat /\ type # S!Null /\ type # "zero"
  BY WidthIs
<1>3. wide \subseteq Slots /\ b.cap \in Int /\ b.len \in Int /\ (i \notin wide => BlockFits(b, bound[i]))
  BY DEF StmtInv, StmtTypeOK, BlocksFit
<1> HIDE DEF b, n
<1>4. d = [type |-> type, cap |-> cap, len |-> n, val |-> S!Copied(v, n, cap)] /\ cap \in Int
  BY <1>2, <1>3 DEF S!BindCopy
<1> HIDE DEF d, cap
<1>5. i \notin wide' => i \notin wide /\ n <= cap
  BY <1>1, <1>2, <1>3 DEF cap
<1>6. i \notin wide' => BlockFits(d, v)
  <2>1. n <= cap => S!Copied(v, n, cap) = v
    BY DEF S!Copied
  <2>2. /\ d.type = type /\ d.cap = cap /\ d.len = n /\ d.val = S!Copied(v, n, cap)
        /\ ~NoValue(d)
    BY <1>2, <1>4 DEF NoValue
  <2>3. n <= cap => cap # -1
    BY <1>2
  <2> QED
    BY <1>2, <1>5, <2>1, <2>2, <2>3 DEF BlockFits
<1>7. wide' \subseteq Slots /\ \A k \in Slots \ {i} : k \in wide' <=> k \in wide
  BY <1>1, <1>3
<1>8. d = [type |-> d.type, cap |-> d.cap, len |-> d.len, val |-> d.val] /\ d.cap \in Int /\ d.len \in Int
  BY <1>2, <1>4
<1> QED
  BY <1>1, <1>6, <1>7, <1>8, OneBound

LEMMA StmtBindText ==
    ASSUME StmtInv, NEW i \in Slots, NEW type \in {"string", "blob"}, NEW n \in Nat, NEW v, S!BindText(i, type, n, v)
    PROVE  StmtInv'
<1> DEFINE b == m_binds[i]
           d == S!BindCopyLen(b, type, n, v)
           cap == IF b.cap = -1 \/ b.len < n THEN n ELSE b.cap
<1>1. S!Bound(i, d, v) /\ wide' = IF b.len < n THEN wide \ {i} ELSE wide
  BY DEF S!BindText
<1>2. type # S!Null /\ type # "zero"
  BY DEF S!Null
<1>3. wide \subseteq Slots /\ b.cap \in Int /\ b.len \in Int /\ (i \notin wide => BlockFits(b, bound[i]))
  BY DEF StmtInv, StmtTypeOK, BlocksFit
<1> HIDE DEF b
<1>4. d = [type |-> type, cap |-> cap, len |-> n, val |-> S!Copied(v, n, cap)] /\ cap \in Int
  BY <1>3 DEF S!BindCopyLen
<1> HIDE DEF d
<1>5. i \notin wide' => n <= cap
  <2>1. CASE b.len < n
    BY <2>1
  <2>2. CASE ~(b.len < n)
    <3>1. i \notin wide' => BlockFits(b, bound[i])
      BY <1>1, <1>3, <2>2
    <3>2. BlockFits(b, bound[i]) => b.cap = -1 \/ b.len <= b.cap
      BY DEF BlockFits
    <3> QED
      BY <1>3, <2>2, <3>1, <3>2
  <2> QED
    BY <2>1, <2>2
<1> HIDE DEF cap
<1>6. i \notin wide' => BlockFits(d, v)
  <2>1. n <= cap => S!Copied(v, n, cap) = v
    BY DEF S!Copied
  <2>2. /\ d.type = type /\ d.cap = cap /\ d.len = n /\ d.val = S!Copied(v, n, cap)
        /\ ~NoValue(d)
    BY <1>2, <1>4 DEF NoValue
  <2>3. n <= cap => cap # -1
    OBVIOUS
  <2> QED
    BY <1>5, <2>1, <2>2, <2>3 DEF BlockFits
<1>7. wide' \subseteq Slots /\ \A k \in Slots \ {i} : k \in wide' <=> k \in wide
  BY <1>1, <1>3
<1>8. d = [type |-> d.type, cap |-> d.cap, len |-> d.len, val |-> d.val] /\ d.cap \in Int /\ d.len \in Int
  BY <1>4
<1> QED
  BY <1>1, <1>6, <1>7, <1>8, OneBound

LEMMA StmtBindNull ==
    ASSUME StmtInv, NEW i \in Slots, S!BindNull(i)
    PROVE  StmtInv'
<1> DEFINE b == m_binds[i]
           d == [b EXCEPT !.type = S!Null]
<1>1. S!Bound(i, d, S!Null) /\ wide' = wide
  BY DEF S!BindNull
<1>2. /\ wide \subseteq Slots /\ b.cap \in Int /\ b.len \in Int /\ (i \notin wide => BlockFits(b, bound[i]))
      /\ b = [type |-> b.type, cap |-> b.cap, len |-> b.len, val |-> b.val]
  BY DEF StmtInv, StmtTypeOK, BlocksFit
<1> HIDE DEF b
<1>3. d = [type |-> S!Null, cap |-> b.cap, len |-> b.len, val |-> b.val]
  BY <1>2
<1> HIDE DEF d
<1>4. i \notin wide' => BlockFits(d, S!Null)
  BY <1>1, <1>2, <1>3 DEF BlockFits, NoValue
<1>5. d = [type |-> d.type, cap |-> d.cap, len |-> d.len, val |-> d.val] /\ d.cap \in Int /\ d.len \in Int
  BY <1>2, <1>3
<1> QED
  BY <1>1, <1>2, <1>4, <1>5, OneBound

\* The parameters are as they were, and the result fits.
LEMMA SameBlocks ==
    ASSUME StmtInv, UNCHANGED <<m_binds, bound, wide>>, runs' \in Nat, errno' \in {"ok", "failed"}, ResultFits',
           (res = [m_errno |-> res.m_errno, meta |-> res.meta, m_binds |-> res.m_binds, left |-> res.left, run |-> res.run])'
    PROVE  StmtInv'
<1>1. StmtTypeOK'
  BY DEF StmtInv, StmtTypeOK
<1>2. BlocksFit'
  BY DEF StmtInv, BlocksFit
<1> QED
  BY <1>1, <1>2 DEF StmtInv

LEMMA StmtStep == ASSUME StmtInv, S!StmtNext PROVE StmtInv'
<1>1. ASSUME S!Bind PROVE StmtInv'
  <2>1. PICK i \in Slots, v \in Values :
           \/ \E type \in DOMAIN S!Width : S!BindNumber(i, type, v)
           \/ \E type \in {"string", "blob"}, size \in Texts : S!BindText(i, type, size, v)
           \/ S!BindTime(i, v)
           \/ S!BindNull(i)
    BY <1>1 DEF S!Bind
  <2>2. CASE \E type \in DOMAIN S!Width : S!BindNumber(i, type, v)
    BY <2>2, StmtBindNumber
  <2>3. CASE \E type \in {"string", "blob"}, size \in Texts : S!BindText(i, type, size, v)
    BY <2>3, StmtBindText, StmtAssumption
  <2>4. CASE S!BindTime(i, v)
    BY <2>4, StmtBindText DEF S!BindTime
  <2>5. CASE S!BindNull(i)
    BY <2>5, StmtBindNull
  <2> QED
    BY <2>1, <2>2, <2>3, <2>4, <2>5
<1>2. /\ runs \in Nat /\ ResultFits
      /\ res = [m_errno |-> res.m_errno, meta |-> res.meta, m_binds |-> res.m_binds, left |-> res.left, run |-> res.run]
  BY DEF StmtInv, StmtTypeOK
<1>7. errno \in {"ok", "failed"}
  BY DEF StmtInv, StmtTypeOK
<1>3. ASSUME S!Execute PROVE StmtInv'
  <2>1. runs' = runs + 1 /\ errno' \in {"ok", "failed"} /\ UNCHANGED <<m_binds, bound, wide, res>>
    BY <1>3 DEF S!Execute
  <2>2. ResultFits'
    BY <1>2, <2>1 DEF ResultFits
  <2> QED
    BY <1>2, <2>1, <2>2, SameBlocks
<1>4. ASSUME S!Query PROVE StmtInv'
  <2>1. UNCHANGED <<m_binds, bound, wide>> /\ S!ResultCreate
    BY <1>4 DEF S!Query
  <2>2. ASSUME NEW e, NEW found, res' = S!Without(e, found), e = "failed" \/ found = FALSE,
               runs' = runs \/ runs' = runs + 1, errno' \in {"ok", "failed"}
        PROVE  StmtInv'
    <3>1. res' = [m_errno |-> e, meta |-> found, m_binds |-> <<>>, left |-> 0, run |-> 0]
      BY <2>2 DEF S!Without, S!NoResult
    <3>2. (res = [m_errno |-> res.m_errno, meta |-> res.meta, m_binds |-> res.m_binds, left |-> res.left, run |-> res.run])'
      BY <3>1
    <3>3. ResultFits'
      BY <2>2, <3>1 DEF ResultFits
    <3>4. runs' \in Nat
      BY <1>2, <2>2
    <3> QED
      BY <2>1, <2>2, <3>2, <3>3, <3>4, SameBlocks
  <2>3. ASSUME NEW n, runs' = runs + 1, errno' = "ok",
               res' = [m_errno |-> errno', meta |-> TRUE, left |-> n, run |-> runs + 1,
                       m_binds |-> [k \in DOMAIN Columns |-> S!Alloc(Columns[k])]]
        PROVE  StmtInv'
    <3>1. (res = [m_errno |-> res.m_errno, meta |-> res.meta, m_binds |-> res.m_binds, left |-> res.left, run |-> res.run])'
      BY <2>3
    <3>2. ResultFits'
      BY <1>2, <2>3 DEF ResultFits
    <3> QED
      BY <1>2, <2>1, <2>3, <3>1, <3>2, SameBlocks
  <2>4. CASE res' = S!Without(errno, FALSE) /\ runs' = runs /\ errno' = errno
    BY <1>7, <2>2, <2>4
  <2>5. CASE res' = S!Without(errno', TRUE) /\ (runs' = runs \/ runs' = runs + 1) /\ errno' = "failed"
    BY <2>2, <2>5
  <2>6. CASE /\ runs' = runs + 1 /\ errno' = "ok"
             /\ \E n \in 0 .. MaxRows :
                   res' = [m_errno |-> errno', meta |-> TRUE, left |-> n, run |-> runs + 1,
                           m_binds |-> [k \in DOMAIN Columns |-> S!Alloc(Columns[k])]]
    BY <2>3, <2>6
  <2> QED
    BY <2>1, <2>4, <2>5, <2>6 DEF S!ResultCreate
<1>5. ASSUME S!Fetch PROVE StmtInv'
  <2>1. /\ res' = [res EXCEPT !.left = @ - 1]
        /\ UNCHANGED <<m_binds, bound, wide, errno, runs>>
    BY <1>5 DEF S!Fetch
  <2>2. /\ res'.m_errno = res.m_errno /\ res'.meta = res.meta /\ res'.m_binds = res.m_binds /\ res'.run = res.run
        /\ (res = [m_errno |-> res.m_errno, meta |-> res.meta, m_binds |-> res.m_binds, left |-> res.left, run |-> res.run])'
    BY <1>2, <2>1
  <2>3. ResultFits'
    BY <1>2, <2>1, <2>2 DEF ResultFits
  <2> QED
    BY <1>2, <1>7, <2>1, <2>2, <2>3, SameBlocks
<1>6. ASSUME S!FreeResult PROVE StmtInv'
  <2>1. res' = [m_errno |-> "absent", meta |-> FALSE, m_binds |-> <<>>, left |-> 0, run |-> 0] /\ UNCHANGED <<m_binds, bound, wide, errno, runs>>
    BY <1>6 DEF S!FreeResult, S!NoResult
  <2>2. ResultFits' /\ (res = [m_errno |-> res.m_errno, meta |-> res.meta, m_binds |-> res.m_binds, left |-> res.left, run |-> res.run])'
    BY <2>1 DEF ResultFits
  <2> QED
    BY <1>2, <1>7, <2>1, <2>2, SameBlocks
<1> QED
  BY <1>1, <1>3, <1>4, <1>5, <1>6 DEF S!StmtNext

LEMMA StmtInvNext == StmtPartInv /\ [Next]_vars => StmtPartInv'
<1> SUFFICES ASSUME StmtPartInv, [Next]_vars, which' = "stmt" PROVE StmtInv'
  BY DEF StmtPartInv
<1>1. which = "stmt" /\ (S!StmtNext \/ UNCHANGED stmtVars)
  BY DEF Next, vars
<1>2. StmtInv
  BY <1>1 DEF StmtPartInv
<1>3. CASE UNCHANGED stmtVars
  BY <1>2, <1>3 DEF stmtVars, StmtInv, StmtTypeOK, BlocksFit, ResultFits
<1>4. CASE S!StmtNext
  BY <1>2, <1>4, StmtStep
<1> QED
  BY <1>1, <1>3, <1>4

LEMMA StmtKept == StmtInv => S!StmtHonest
<1> SUFFICES ASSUME StmtInv PROVE S!StmtHonest
  OBVIOUS
<1>1. \A i \in Slots \ wide : S!Sent[i] = bound[i]
  BY DEF StmtInv, BlocksFit, BlockFits, NoValue, S!Sent
<1>2. ASSUME NEW k \in DOMAIN Columns PROVE S!Alloc(Columns[k]) >= Columns[k].length
  <2> DEFINE c == Columns[k]
  <2>1. /\ c.length \in Nat
        /\ c.type \in DOMAIN S!Width => S!Width[c.type] \in Nat /\ c.length <= S!Width[c.type]
        /\ c.type = "datetime" => c.length <= 40
    BY StmtAssumption, WidthIs
  <2> HIDE DEF c
  <2>2. S!Alloc(c) >= c.length
    BY <2>1 DEF S!Alloc
  <2> QED
    BY <2>2 DEF c
<1>3. res.m_errno = "ok" /\ res.meta => res.run \in 1 .. runs /\ \A k \in DOMAIN Columns : res.m_binds[k] >= Columns[k].length
  BY <1>2 DEF StmtInv, ResultFits
<1> QED
  BY <1>1, <1>3 DEF S!StmtHonest

\* An execution sends what the caller bound last, however parameters are bound and
\* bound again, and a result without an error is that of an execution that did not fail and
\* fits its columns' buffers, the result of a statement without a result set excepted, for
\* every set of parameters and sizes (MySQLStmt::bind...(), execute(), query()).
THEOREM StatementsAreHonest == Spec => []StmtHonest
<1>1. Init => StmtPartInv
  BY StmtInvInit DEF Init, StmtPartInv
<1>2. StmtPartInv /\ [Next]_vars => StmtPartInv'
  BY StmtInvNext
<1>3. StmtPartInv => StmtHonest
  BY StmtKept DEF StmtPartInv, StmtHonest
<1> QED
  BY <1>1, <1>2, <1>3, PTL DEF Spec
=============================================================================
