---------------------------- MODULE Services_proof ----------------------------
(***************************************************************************)
(* Proofs about the parts of MCServers, for every value of the constants.  *)
(* One part moves at a time, so a part's invariant is kept by the part's   *)
(* own actions; the inductive invariant of each part stands before the     *)
(* theorem that needs it.                                                  *)
(***************************************************************************)
EXTENDS MCServers, QueueLemmas

-----------------------------------------------------------------------------
(***************************************************************************)
(* TcpServer.  That a running server's sockets are open, and have one      *)
(* accept loop each, needs that sockets are numbered through, so that a    *)
(* new one has no loop of an earlier Start(); that a stopped server whose  *)
(* callbacks are over has no socket with a loop; and that a callback is on *)
(* its way to a running server only if Start() came too early.             *)
(***************************************************************************)

\* How many sockets Bind() has numbered.
Numbered == Cardinality(Addrs) * done.binds
LoopPlaces == {"test", "accept", "held", "handshake", "ended"}
History == [binds : Nat, starts : Nat, clients : Nat, had : SUBSET Nat, dropped : SUBSET Nat, early : Nat, torn : BOOLEAN]

TcpTypeOK ==
    /\ _listenSockets \subseteq 1 .. Numbered
    /\ _isStop \in BOOLEAN /\ stops \in Nat
    /\ loop \in [DOMAIN loop -> LoopPlaces]
    /\ closing \in [at : {"none", "cancel", "again", "close"}, left : SUBSET Nat]
    /\ DOMAIN loop \subseteq (1 .. done.starts) \X (1 .. Numbered)
    /\ done \in History /\ done.had \subseteq 1 .. Numbered

\* The sockets of the server are open while no callback goes through them.
TcpOpen ==
    /\ closing.at # "none" => stops > 0
    /\ closing.at = "none" => _listenSockets \subseteq open

\* A stopped server's sockets have no loop yet; a running server's have the ones of the
\* last Start().
TcpLoops ==
    /\ _isStop /\ stops = 0 => \A x \in DOMAIN loop : x[2] \notin _listenSockets
    /\ ~_isStop /\ stops = 0 => \A s \in _listenSockets \cap done.had :
          /\ <<done.starts, s>> \in DOMAIN loop
          /\ \A x \in DOMAIN loop : x[2] = s => x = <<done.starts, s>> /\ loop[x] # "ended"
    /\ ~_isStop /\ done.early = 0 => stops = 0 /\ done.had \ done.dropped \subseteq _listenSockets

TcpInv == TcpTypeOK /\ TcpOpen /\ TcpLoops
TcpPartInv == which = "tcp" => TcpInv

\* A step of the sum is a step of the server, or the server is not the part that runs.
LEMMA TcpFrame ==
    ASSUME [Next]_vars
    PROVE  /\ which' = which
           /\ which = "tcp" => T!TcpNext \/ UNCHANGED tcpVars
BY DEF Next, vars, OnlyFox, OnlyWs, OnlyHttp, OnlyRock, OnlyXftp, OnlyTcp

\* TcpServer counts as this module does.
LEMMA TcpCardinality ==
    ASSUME NEW S
    PROVE  T!Cardinality(S) = Cardinality(S)
BY DEF T!Cardinality, Cardinality

\* What the history becomes.
IsStarted(r, d, h, e) ==
    /\ r \in History /\ r.starts = d.starts + 1 /\ r.binds = d.binds
    /\ r.had = h /\ r.dropped = d.dropped /\ r.early = e

LEMMA TcpStarted ==
    ASSUME NEW d \in History, NEW h \in SUBSET Nat, NEW e \in Nat
    PROVE  IsStarted([d EXCEPT !.starts = @ + 1, !.had = h, !.early = e], d, h, e)
<1> DEFINE n == d.starts + 1
<1>1. n \in Nat
  BY DEF History
<1> HIDE DEF n
<1>2. LET r == [d EXCEPT !.starts = n, !.had = h, !.early = e] IN
      r \in History /\ r.starts = n /\ r.binds = d.binds /\ r.had = h /\ r.dropped = d.dropped /\ r.early = e
  BY <1>1, Zenon DEF History
<1> QED
  BY <1>2 DEF n, IsStarted

LEMMA TcpBound ==
    ASSUME NEW d \in History, NEW l \in SUBSET Nat
    PROVE  LET r == [d EXCEPT !.binds = @ + 1, !.dropped = @ \cup l] IN
           /\ r \in History /\ r.starts = d.starts /\ r.binds = d.binds + 1
           /\ r.had = d.had /\ r.dropped = d.dropped \cup l /\ r.early = d.early
<1> DEFINE n == d.binds + 1
           u == d.dropped \cup l
<1>1. n \in Nat
  BY DEF History
<1>2. u \in SUBSET Nat
  <2>1. d.dropped \subseteq Nat
    BY DEF History
  <2>2. \A i \in u : i \in Nat
    BY <2>1
  <2> QED
    BY <2>2, Zenon
<1> HIDE DEF n, u
<1>3. LET r == [d EXCEPT !.binds = n, !.dropped = u] IN
      r \in History /\ r.starts = d.starts /\ r.binds = n /\ r.had = d.had /\ r.dropped = u /\ r.early = d.early
  BY <1>1, <1>2, Zenon DEF History
<1> QED
  BY <1>3, Zenon DEF n, u

LEMMA TcpNoted ==
    ASSUME NEW d \in History,
           NEW r \in {[d EXCEPT !.binds = @ + 1], [d EXCEPT !.clients = @ + 1], [d EXCEPT !.torn = TRUE]}
    PROVE  /\ r \in History /\ r.starts = d.starts /\ r.had = d.had /\ r.dropped = d.dropped /\ r.early = d.early
           /\ r = [d EXCEPT !.binds = @ + 1] => r.binds = d.binds + 1
           /\ r # [d EXCEPT !.binds = @ + 1] => r.binds = d.binds
<1> DEFINE n == d.binds + 1
           m == d.clients + 1
<1>1. n \in Nat /\ m \in Nat
  BY DEF History
<1> HIDE DEF n, m
<1>2. LET q == [d EXCEPT !.binds = n] IN
      q \in History /\ q.starts = d.starts /\ q.had = d.had /\ q.dropped = d.dropped /\ q.early = d.early /\ q.binds = n
  BY <1>1, Zenon DEF History
<1>3. LET q == [d EXCEPT !.clients = m] IN
      q \in History /\ q.starts = d.starts /\ q.had = d.had /\ q.dropped = d.dropped /\ q.early = d.early /\ q.binds = d.binds
  BY <1>1, Zenon DEF History
<1>4. LET q == [d EXCEPT !.torn = TRUE] IN
      q \in History /\ q.starts = d.starts /\ q.had = d.had /\ q.dropped = d.dropped /\ q.early = d.early /\ q.binds = d.binds
  BY <1>1, Zenon DEF History
<1> QED
  BY <1>2, <1>3, <1>4, Zenon DEF n, m

\* A loop goes on, and none is made.
LEMMA LoopsStay ==
    ASSUME TcpTypeOK, TcpLoops, DOMAIN loop' = DOMAIN loop,
           \A x \in DOMAIN loop : loop'[x] = "ended" => loop[x] = "ended" \/ _isStop,
           UNCHANGED <<_listenSockets, _isStop, stops, done>>
    PROVE  TcpLoops'
BY DEF TcpLoops

LEMMA TcpInvInit == Init => TcpInv
<1> SUFFICES ASSUME T!TcpInit PROVE TcpInv
  BY DEF Init
<1> USE DEF T!TcpInit
<1>1. TcpTypeOK
  BY DEF TcpTypeOK, History
<1>2. TcpOpen /\ TcpLoops
  BY DEF TcpOpen, TcpLoops
<1> QED
  BY <1>1, <1>2 DEF TcpInv

LEMMA NumberedIsNat ==
    ASSUME TcpTypeOK
    PROVE  Cardinality(Addrs) \in Nat /\ Numbered \in Nat
<1>1. Cardinality(Addrs) \in Nat
  BY FS_CardinalityType, ServersAssumption
<1>2. \A a, b \in Nat : a * b \in Nat
  OBVIOUS
<1> QED
  BY <1>1, <1>2 DEF Numbered, TcpTypeOK, History

LEMMA TcpBinds ==
    ASSUME TcpInv, T!Bind
    PROVE  TcpInv'
<1> DEFINE new == (Numbered + 1) .. (Numbered + Cardinality(Addrs))
           noted == [done EXCEPT !.binds = @ + 1]
           dropped == [done EXCEPT !.binds = @ + 1, !.dropped = @ \cup _listenSockets]
<1>1. TcpTypeOK /\ TcpOpen /\ TcpLoops
  BY DEF TcpInv
<1>2. Cardinality(Addrs) \in Nat /\ Numbered \in Nat
  BY <1>1, NumberedIsNat
<1>3. /\ closing.at = "none" /\ open' = open \cup new
      /\ \/ _listenSockets' = {} /\ done' = dropped
         \/ _listenSockets' = _listenSockets \cup new /\ done' = noted
      /\ UNCHANGED <<_isStop, loop, stops, closing>>
  <2>1. PICK fails \in SUBSET Addrs :
            /\ open' = open \cup new
            /\ IF fails # {} THEN _listenSockets' = {} /\ done' = dropped
               ELSE _listenSockets' = _listenSockets \cup new /\ done' = noted
    BY TcpCardinality, Zenon DEF T!Bind, Numbered
  <2>2. closing.at = "none" /\ UNCHANGED <<_isStop, loop, stops, closing>>
    BY DEF T!Bind
  <2> HIDE DEF new, noted, dropped
  <2> QED
    BY <2>1, <2>2
<1>4. done \in History /\ _listenSockets \in SUBSET Nat
  BY <1>1, <1>2 DEF TcpTypeOK
<1>5. /\ done' \in History /\ done'.binds = done.binds + 1 /\ done'.starts = done.starts
      /\ done'.had = done.had /\ done'.early = done.early
      /\ \/ _listenSockets' = {} /\ done'.dropped = done.dropped \cup _listenSockets
         \/ _listenSockets' = _listenSockets \cup new /\ done'.dropped = done.dropped
  <2>1. CASE done' = dropped /\ _listenSockets' = {}
    <3>1. /\ dropped \in History /\ dropped.starts = done.starts /\ dropped.binds = done.binds + 1
          /\ dropped.had = done.had /\ dropped.dropped = done.dropped \cup _listenSockets /\ dropped.early = done.early
      BY <1>4, TcpBound, Zenon
    <3> HIDE DEF dropped
    <3> QED
      BY <2>1, <3>1
  <2>2. CASE done' = noted /\ _listenSockets' = _listenSockets \cup new
    <3>1. /\ noted \in History /\ noted.starts = done.starts /\ noted.binds = done.binds + 1
          /\ noted.had = done.had /\ noted.dropped = done.dropped /\ noted.early = done.early
      BY <1>4, TcpNoted, Zenon
    <3> HIDE DEF noted
    <3> QED
      BY <2>2, <3>1
  <2> QED
    BY <1>3, <2>1, <2>2
<1> HIDE DEF noted, dropped
<1>6. Numbered' = Numbered + Cardinality(Addrs)
  <2>1. Numbered' = Cardinality(Addrs) * (done.binds + 1) /\ done.binds \in Nat
    BY <1>4, <1>5 DEF Numbered, History
  <2>2. \A a, b \in Nat : a * (b + 1) = a * b + a
    OBVIOUS
  <2> QED
    BY <1>2, <2>1, <2>2 DEF Numbered
<1>7. /\ \A n \in new : n \in 1 .. Numbered' /\ n \notin 1 .. Numbered
      /\ 1 .. Numbered \subseteq 1 .. Numbered'
  BY <1>2, <1>6
<1> HIDE DEF new
<1>8. TcpTypeOK'
  <2>1. _listenSockets' \subseteq 1 .. Numbered' /\ done'.had \subseteq 1 .. Numbered'
    BY <1>1, <1>3, <1>5, <1>7 DEF TcpTypeOK
  <2>2. DOMAIN loop \subseteq (1 .. done.starts) \X (1 .. Numbered')
    BY <1>1, <1>7 DEF TcpTypeOK
  <2>3. DOMAIN loop' \subseteq (1 .. done'.starts) \X (1 .. Numbered')
    BY <1>3, <1>5, <2>2
  <2> QED
    BY <1>1, <1>3, <1>5, <2>1, <2>3 DEF TcpTypeOK
<1>9. TcpOpen'
  BY <1>1, <1>3 DEF TcpOpen
<1>10. TcpLoops'
  <2>1. \A x \in DOMAIN loop : x[2] \in 1 .. Numbered
    BY <1>1 DEF TcpTypeOK
  <2>2. \A s \in _listenSockets' : s \in _listenSockets \/ s \in new
    BY <1>3
  <2>3. \A s \in _listenSockets' \cap done.had : s \in _listenSockets \cap done.had
    BY <1>1, <1>7, <2>2 DEF TcpTypeOK
  <2>4. _isStop /\ stops = 0 => \A x \in DOMAIN loop : x[2] \notin _listenSockets'
    BY <1>1, <1>7, <2>1, <2>2 DEF TcpLoops
  <2>5. done.had \ done.dropped \subseteq _listenSockets => done.had \ done'.dropped \subseteq _listenSockets'
    <3>1. CASE _listenSockets' = {} /\ done'.dropped = done.dropped \cup _listenSockets
      BY <3>1
    <3>2. CASE _listenSockets' = _listenSockets \cup new /\ done'.dropped = done.dropped
      BY <3>2
    <3> QED
      BY <1>5, <3>1, <3>2
  <2> QED
    BY <1>1, <1>3, <1>5, <2>3, <2>4, <2>5 DEF TcpLoops
<1> QED
  BY <1>8, <1>9, <1>10 DEF TcpInv

LEMMA TcpStarts ==
    ASSUME TcpInv, T!Start
    PROVE  TcpInv'
<1> DEFINE k == done.starts + 1
           fresh == {k} \X _listenSockets
<1>1. TcpTypeOK /\ TcpOpen /\ TcpLoops
  BY DEF TcpInv
<1>2. /\ closing.at = "none" /\ _isStop /\ _isStop' = FALSE
      /\ DOMAIN loop' = DOMAIN loop \cup fresh
      /\ \A x \in DOMAIN loop \cup fresh : loop'[x] = IF x \in DOMAIN loop THEN loop[x] ELSE "test"
      /\ loop' = [x \in DOMAIN loop \cup fresh |-> IF x \in DOMAIN loop THEN loop[x] ELSE "test"]
      /\ UNCHANGED <<_listenSockets, open, stops, closing>>
  BY DEF T!Start, T!Begin, T!Loops
<1>3. done \in History /\ _listenSockets \in SUBSET Nat /\ done.starts \in Nat /\ stops \in Nat
  BY <1>1 DEF TcpTypeOK, History
<1>4. done' = [done EXCEPT !.starts = @ + 1, !.had = _listenSockets, !.early = stops]
  BY DEF T!Start, T!Begin
<1>5. IsStarted([done EXCEPT !.starts = @ + 1, !.had = _listenSockets, !.early = stops], done, _listenSockets, stops)
  BY <1>3, TcpStarted, Zenon
<1>6. /\ done' \in History /\ done'.starts = k /\ done'.binds = done.binds
      /\ done'.had = _listenSockets /\ done'.dropped = done.dropped /\ done'.early = stops
  <2>1. IsStarted(done', done, _listenSockets, stops)
    BY <1>4, <1>5, Zenon
  <2> QED
    BY <2>1 DEF IsStarted
<1>7. Numbered' = Numbered
  BY <1>6 DEF Numbered
<1>8. \A x \in fresh : x = <<k, x[2]>> /\ x[2] \in _listenSockets /\ x \in (1 .. k) \X (1 .. Numbered)
  BY <1>1, <1>3 DEF TcpTypeOK
<1>9. \A x \in DOMAIN loop : x \in (1 .. k) \X (1 .. Numbered) /\ x[1] # k
  BY <1>1, <1>3 DEF TcpTypeOK
<1>10. \A s \in _listenSockets : <<k, s>> \in fresh
  OBVIOUS
<1> HIDE DEF fresh
<1>11. TcpTypeOK'
  <2>1. loop' \in [DOMAIN loop' -> LoopPlaces]
    BY <1>1, <1>2 DEF TcpTypeOK, LoopPlaces
  <2>2. DOMAIN loop' \subseteq (1 .. done'.starts) \X (1 .. Numbered')
    BY <1>2, <1>6, <1>7, <1>8, <1>9
  <2> QED
    BY <1>1, <1>2, <1>6, <1>7, <2>1, <2>2 DEF TcpTypeOK
<1>12. TcpOpen'
  BY <1>1, <1>2 DEF TcpOpen
<1>13. TcpLoops'
  <2>1. ASSUME stops = 0, NEW s \in _listenSockets
        PROVE  /\ <<k, s>> \in DOMAIN loop'
               /\ \A x \in DOMAIN loop' : x[2] = s => x = <<k, s>> /\ loop'[x] # "ended"
    <3>1. \A x \in DOMAIN loop : x[2] \notin _listenSockets
      BY <1>1, <1>2, <2>1 DEF TcpLoops
    <3>2. ASSUME NEW x \in DOMAIN loop', x[2] = s PROVE x = <<k, s>> /\ loop'[x] # "ended"
      <4>1. x \notin DOMAIN loop /\ x \in fresh
        BY <1>2, <2>1, <3>1, <3>2
      <4> QED
        BY <4>1, <3>2, <1>2, <1>8
    <3> QED
      BY <1>2, <1>10, <3>2
  <2> QED
    BY <1>2, <1>3, <1>6, <2>1 DEF TcpLoops
<1> QED
  BY <1>11, <1>12, <1>13 DEF TcpInv

LEMMA TcpStops ==
    ASSUME TcpInv, T!Stop \/ T!StopDone
    PROVE  TcpInv'
<1>1. TcpTypeOK /\ TcpOpen /\ TcpLoops /\ stops \in Nat
  BY DEF TcpInv, TcpTypeOK
<1>2. UNCHANGED <<loop, done, open>> /\ Numbered' = Numbered
  BY DEF T!Stop, T!StopDone, Numbered
<1>3. CASE T!Stop
  <2>1. /\ ~_isStop /\ _isStop' = TRUE /\ stops' = stops + 1 /\ UNCHANGED <<_listenSockets, closing>>
    BY <1>3 DEF T!Stop
  <2>2. stops' \in Nat /\ stops' # 0 /\ stops' > 0
    BY <1>1, <2>1
  <2> QED
    BY <1>1, <1>2, <2>1, <2>2 DEF TcpInv, TcpTypeOK, TcpOpen, TcpLoops
<1>4. CASE T!StopDone
  <2>1. /\ closing.at = "cancel" /\ stops' = stops - 1 /\ _listenSockets' = {} /\ UNCHANGED _isStop
        /\ closing' = [closing EXCEPT !.at = "none"]
    BY <1>4 DEF T!StopDone
  <2>2. stops > 0 /\ stops' \in Nat /\ (~_isStop => done.early # 0)
    BY <1>1, <2>1 DEF TcpOpen, TcpLoops
  <2>3. closing' \in [at : {"none", "cancel", "again", "close"}, left : SUBSET Nat] /\ closing'.at = "none"
    BY <1>1, <2>1 DEF TcpTypeOK
  <2>4. TcpTypeOK'
    BY <1>1, <1>2, <2>1, <2>2, <2>3 DEF TcpTypeOK
  <2>5. TcpOpen' /\ TcpLoops'
    BY <1>2, <2>1, <2>2, <2>3 DEF TcpOpen, TcpLoops
  <2> QED
    BY <2>4, <2>5 DEF TcpInv
<1> QED
  BY <1>3, <1>4

\* The steps of a callback of Stop() that change no list.
LEMMA TcpCloses ==
    ASSUME TcpInv, T!StopBegins \/ T!CancelAll \/ T!Close
    PROVE  TcpInv'
<1>1. TcpTypeOK /\ TcpOpen /\ TcpLoops
  BY DEF TcpInv
<1>2. UNCHANGED <<_listenSockets, _isStop, stops, done>> /\ Numbered' = Numbered
  BY DEF T!StopBegins, T!CancelAll, T!Close, Numbered
<1>3. closing \in [at : {"none", "cancel", "again", "close"}, left : SUBSET Nat] /\ _listenSockets \in SUBSET Nat
  BY <1>1, NumberedIsNat DEF TcpTypeOK
<1>4. stops > 0 /\ closing' \in [at : {"none", "cancel", "again", "close"}, left : SUBSET Nat] /\ closing'.at # "none"
  <2>1. CASE T!StopBegins
    BY <2>1, <1>3 DEF T!StopBegins
  <2>2. CASE T!CancelAll
    BY <2>2, <1>1, <1>3 DEF T!CancelAll, TcpOpen
  <2>3. CASE T!Close
    BY <2>3, <1>1, <1>3 DEF T!Close, TcpOpen
  <2> QED
    BY <2>1, <2>2, <2>3
<1>5. /\ DOMAIN loop' = DOMAIN loop /\ loop' \in [DOMAIN loop' -> LoopPlaces]
      /\ \A x \in DOMAIN loop : loop'[x] = "ended" => loop[x] = "ended"
  <2>1. CASE UNCHANGED loop
    BY <2>1, <1>1 DEF TcpTypeOK
  <2>2. CASE T!CancelAll
    <3>1. PICK s : loop' = [x \in DOMAIN loop |-> IF x[2] = s /\ loop[x] = "held" THEN "accept" ELSE loop[x]]
      BY <2>2 DEF T!CancelAll, T!Loops
    <3> QED
      BY <3>1, <1>1 DEF TcpTypeOK, LoopPlaces
  <2> QED
    BY <2>1, <2>2 DEF T!StopBegins, T!Close
<1>6. TcpTypeOK'
  BY <1>1, <1>2, <1>4, <1>5 DEF TcpTypeOK
<1>7. TcpOpen'
  BY <1>2, <1>4 DEF TcpOpen
<1>8. TcpLoops'
  BY <1>1, <1>2, <1>5, LoopsStay
<1> QED
  BY <1>6, <1>7, <1>8 DEF TcpInv

\* The loops' own steps, and what clients do.
LEMMA TcpGoesOn ==
    ASSUME TcpInv, NEW x \in DOMAIN loop, T!AcceptTest(x) \/ T!Accept(x) \/ T!AcceptWakes(x) \/ T!Handshake(x)
    PROVE  TcpInv'
<1>1. TcpTypeOK /\ TcpOpen /\ TcpLoops
  BY DEF TcpInv
<1>2. UNCHANGED <<_listenSockets, open, _isStop, stops, closing, done>> /\ Numbered' = Numbered
  BY DEF T!AcceptTest, T!Accept, T!AcceptWakes, T!Handshake, Numbered
<1>3. PICK a \in LoopPlaces : loop' = [loop EXCEPT ![x] = a] /\ (a = "ended" => _isStop)
  BY DEF T!AcceptTest, T!Accept, T!AcceptWakes, T!Handshake, T!Goes, LoopPlaces
<1>4. /\ DOMAIN loop' = DOMAIN loop /\ loop' \in [DOMAIN loop' -> LoopPlaces]
      /\ \A y \in DOMAIN loop : loop'[y] = "ended" => loop[y] = "ended" \/ _isStop
  BY <1>1, <1>3 DEF TcpTypeOK
<1>5. TcpTypeOK'
  BY <1>1, <1>2, <1>4 DEF TcpTypeOK
<1>6. TcpOpen' /\ TcpLoops'
  BY <1>1, <1>2, <1>4, LoopsStay DEF TcpOpen
<1> QED
  BY <1>5, <1>6 DEF TcpInv

LEMMA TcpNotes ==
    ASSUME TcpInv, T!ClientConnects \/ T!Torn
    PROVE  TcpInv'
<1>1. TcpTypeOK /\ TcpOpen /\ TcpLoops
  BY DEF TcpInv
<1>2. UNCHANGED <<_listenSockets, open, _isStop, loop, stops, closing>>
  BY DEF T!ClientConnects, T!Torn
<1>3. done' \in {[done EXCEPT !.clients = @ + 1], [done EXCEPT !.torn = TRUE]} /\ done'.binds = done.binds /\ done \in History
  BY <1>1 DEF T!ClientConnects, T!Torn, TcpTypeOK, History
<1>4. /\ done' \in History /\ done'.starts = done.starts /\ done'.binds = done.binds
      /\ done'.had = done.had /\ done'.dropped = done.dropped /\ done'.early = done.early
  BY <1>3, TcpNoted, Zenon
<1>5. Numbered' = Numbered
  BY <1>4 DEF Numbered
<1> QED
  BY <1>1, <1>2, <1>4, <1>5 DEF TcpInv, TcpTypeOK, TcpOpen, TcpLoops

LEMMA TcpInvNext ==
    ASSUME TcpInv, T!TcpNext
    PROVE  TcpInv'
BY TcpBinds, TcpStarts, TcpStops, TcpCloses, TcpGoesOn, TcpNotes DEF T!TcpNext, T!Callback, T!Loops

\* The server's property (TcpServer::Bind, Start, Stop and startAccept), whatever the
\* order of binds, starts and stops and of the steps of Stop()'s callback: a socket that a
\* running server has and had at its Start() is open and has one accept loop; and the
\* server has all of those that no failing Bind() dropped, unless it was started
\* before the callback of an earlier Stop().
THEOREM ListenersAreSound == Spec => []ListenersSound
<1>1. Init => TcpPartInv
  BY TcpInvInit DEF TcpPartInv
<1>2. TcpPartInv /\ [Next]_vars => TcpPartInv'
  <2> SUFFICES ASSUME TcpPartInv, [Next]_vars, which' = "tcp" PROVE TcpInv'
    BY DEF TcpPartInv
  <2>1. TcpInv /\ (T!TcpNext \/ UNCHANGED tcpVars)
    BY TcpFrame DEF TcpPartInv
  <2>2. CASE T!TcpNext
    BY <2>1, <2>2, TcpInvNext
  <2>3. CASE UNCHANGED tcpVars
    BY <2>1, <2>3 DEF tcpVars, TcpInv, TcpTypeOK, TcpOpen, TcpLoops, Numbered
  <2> QED
    BY <2>1, <2>2, <2>3
<1>3. TcpPartInv => ListenersSound
  <2> DEFINE at(s) == {x \in DOMAIN loop : x[2] = s /\ loop[x] # "ended"}
  <2> SUFFICES ASSUME TcpInv, ~_isStop
               PROVE  /\ stops = 0 => \A s \in _listenSockets \cap done.had : s \in open /\ Cardinality(at(s)) = 1
                      /\ done.early = 0 => done.had \ done.dropped \subseteq _listenSockets
    BY TcpCardinality, Zenon DEF TcpPartInv, ListenersSound, T!ListenersSound, T!Loops
  <2>1. ASSUME stops = 0, NEW s \in _listenSockets \cap done.had
        PROVE  s \in open /\ at(s) = {<<done.starts, s>>}
    <3>1. /\ <<done.starts, s>> \in DOMAIN loop
          /\ \A x \in DOMAIN loop : x[2] = s => x = <<done.starts, s>> /\ loop[x] # "ended"
      BY <2>1 DEF TcpInv, TcpLoops
    <3>2. <<done.starts, s>> \in at(s)
      BY <3>1
    <3>3. s \in open
      BY <2>1 DEF TcpInv, TcpOpen, TcpTypeOK
    <3> QED
      BY <3>1, <3>2, <3>3
  <2> QED
    BY <2>1, FS_Singleton DEF TcpInv, TcpLoops
<1> QED
  BY <1>1, <1>2, <1>3, PTL DEF Spec

-----------------------------------------------------------------------------
(***************************************************************************)
(* FoxRedis.  A request is in one place: in the FoxThread's queue, in its  *)
(* batch, or behind a connection with a Ctx.  That its caller waits there, *)
(* is not scheduled and has not asked again needs all three places, and    *)
(* that a Ctx whose timeout has fired is told apart from one that has not. *)
(***************************************************************************)

Pcmd(i) == [op |-> "pcmd", id |-> i]
Pcmds == {Pcmd(i) : i \in F!Requests}
FoxCallbacks == Pcmds \cup {[op |-> "pinit"], F!STOP}
OnConnection == F!Requests \cup {F!Ping, F!Auth}

\* The elements of q that are in A are there once.
Once(q, A) == \A j, k \in DOMAIN q : q[j] = q[k] /\ q[j] \in A => j = k

Caller == [pc : {"run", "wait"}, n : Nat, fiber : BOOLEAN, ready : Nat, rpy : {F!NoReply} \cup F!Requests]

RedisTypeOK ==
    /\ conf \in [cluster : BOOLEAN, passwd : BOOLEAN, m_event : BOOLEAN]
    /\ conf.m_event => ~conf.cluster
    /\ fox \in [m_callbacks : Seq(FoxCallbacks), batch : Seq(FoxCallbacks), byte : BOOLEAN,
                m_start : BOOLEAN, loop : {"none", "running", "ended", "crashed"}]
    /\ m_status \in {"UNCONNECTED", "CONNECTING", "CONNECTED"}
    /\ pending \in Seq(OnConnection)
    /\ ctx \in [F!Requests -> [live : BOOLEAN, timeout : BOOLEAN]]
    /\ fctx \in [Callers -> Caller]

\* The requests the FoxThread has not run yet.
Hand == {i \in F!Requests : Pcmd(i) \in ToSet(fox.m_callbacks) \cup ToSet(fox.batch)}

HandOnce ==
    /\ Once(fox.m_callbacks, Pcmds) /\ Once(fox.batch, Pcmds)
    /\ \A i \in F!Requests : ~(Pcmd(i) \in ToSet(fox.m_callbacks) /\ Pcmd(i) \in ToSet(fox.batch))

PendingOnce ==
    /\ Once(pending, F!Requests)
    /\ m_status = "UNCONNECTED" => pending = <<>>
    /\ conf.cluster => m_status # "CONNECTING" /\ ToSet(pending) \subseteq F!Requests

\* What a caller's record says of it.
CallerFits ==
    \A c \in Callers :
       /\ fctx[c].ready \in {0, 1} /\ (fctx[c].ready = 1 => fctx[c].pc = "wait")
       /\ fctx[c].fiber => fctx[c].pc = "wait" /\ fctx[c].ready = 0
       /\ fctx[c].rpy \in {F!NoReply, <<c, fctx[c].n>>}

\* Where a request is, and what its caller then does.
RequestFits ==
    \A i \in F!Requests :
       /\ ctx[i].live <=> i \in ToSet(pending)
       /\ i \in Hand => ~ctx[i].live
       /\ ctx[i].live => i[2] <= fctx[i[1]].n
       /\ i \in Hand \/ (ctx[i].live /\ ~ctx[i].timeout) => fctx[i[1]].n = i[2] /\ fctx[i[1]].fiber

RedisInv == RedisTypeOK /\ HandOnce /\ PendingOnce /\ CallerFits /\ RequestFits
RedisPartInv == which = "fox" => RedisInv

-----------------------------------------------------------------------------
(* What the steps do to queues and callers. *)

LEMMA OnceAppend ==
    ASSUME NEW C, NEW A, NEW q \in Seq(C), NEW e \in C
    PROVE  Once(q, A) /\ (e \in A => e \notin ToSet(q)) => Once(Append(q, e), A)
<1> SUFFICES ASSUME Once(q, A), e \in A => e \notin ToSet(q),
                    NEW j \in DOMAIN Append(q, e), NEW k \in DOMAIN Append(q, e),
                    Append(q, e)[j] = Append(q, e)[k], Append(q, e)[j] \in A
             PROVE  j = k
  BY DEF Once
<1>1. /\ Len(q) \in Nat /\ DOMAIN q = 1 .. Len(q)
      /\ DOMAIN Append(q, e) = 1 .. (Len(q) + 1)
      /\ \A n \in 1 .. Len(q) : Append(q, e)[n] = q[n]
      /\ Append(q, e)[Len(q) + 1] = e
  OBVIOUS
<1>2. \A n \in 1 .. (Len(q) + 1) : n \in 1 .. Len(q) \/ n = Len(q) + 1
  BY <1>1
<1>3. \A n \in 1 .. Len(q) : q[n] \in ToSet(q)
  BY <1>1 DEF ToSet
<1> QED
  BY <1>1, <1>2, <1>3 DEF Once

LEMMA OnceTail ==
    ASSUME NEW C, NEW A, NEW q \in Seq(C), q # <<>>
    PROVE  /\ Head(q) \in C /\ Head(q) \in ToSet(q) /\ Tail(q) \in Seq(C)
           /\ ToSet(Tail(q)) \subseteq ToSet(q)
           /\ \A x \in ToSet(q) : x = Head(q) \/ x \in ToSet(Tail(q))
           /\ Once(q, A) => Once(Tail(q), A) /\ (Head(q) \in A => Head(q) \notin ToSet(Tail(q)))
<1>1. /\ Len(q) \in Nat /\ 1 \in DOMAIN q /\ DOMAIN q = 1 .. Len(q)
      /\ Head(q) = q[1] /\ Head(q) \in C /\ Tail(q) \in Seq(C)
      /\ DOMAIN Tail(q) = 1 .. (Len(q) - 1)
      /\ \A n \in 1 .. (Len(q) - 1) : Tail(q)[n] = q[n + 1]
  OBVIOUS
<1>2. \A n \in 1 .. (Len(q) - 1) : n + 1 \in DOMAIN q /\ n + 1 # 1
  BY <1>1
<1>3. \A n \in DOMAIN q : n = 1 \/ (n - 1 \in 1 .. (Len(q) - 1) /\ Tail(q)[n - 1] = q[n])
  BY <1>1
<1>4. ToSet(Tail(q)) \subseteq ToSet(q)
  BY <1>1, <1>2 DEF ToSet
<1>5. \A x \in ToSet(q) : x = Head(q) \/ x \in ToSet(Tail(q))
  <2> SUFFICES ASSUME NEW n \in DOMAIN q PROVE q[n] = Head(q) \/ q[n] \in ToSet(Tail(q))
    BY DEF ToSet
  <2>1. CASE n = 1
    BY <2>1, <1>1
  <2>2. CASE n - 1 \in 1 .. (Len(q) - 1) /\ Tail(q)[n - 1] = q[n]
    BY <2>2, <1>1 DEF ToSet
  <2> QED
    BY <2>1, <2>2, <1>3
<1>6. ASSUME Once(q, A)
      PROVE  Once(Tail(q), A) /\ (Head(q) \in A => Head(q) \notin ToSet(Tail(q)))
  <2>1. Once(Tail(q), A)
    <3> SUFFICES ASSUME NEW j \in 1 .. (Len(q) - 1), NEW k \in 1 .. (Len(q) - 1),
                        Tail(q)[j] = Tail(q)[k], Tail(q)[j] \in A
                 PROVE  j = k
      BY <1>1 DEF Once
    <3>1. j + 1 = k + 1
      BY <1>1, <1>2, <1>6 DEF Once
    <3> QED
      BY <3>1
  <2>2. ASSUME Head(q) \in A, Head(q) \in ToSet(Tail(q)) PROVE FALSE
    <3>1. PICK n \in 1 .. (Len(q) - 1) : Tail(q)[n] = q[1]
      BY <2>2, <1>1 DEF ToSet
    <3> QED
      BY <3>1, <2>2, <1>1, <1>2, <1>6 DEF Once
  <2> QED
    BY <2>1, <2>2
<1>7. Head(q) \in ToSet(q)
  BY <1>1 DEF ToSet
<1> QED
  BY <1>1, <1>4, <1>5, <1>6, <1>7

LEMMA PcmdFacts ==
    /\ \A i, j : Pcmd(i) = Pcmd(j) => i = j
    /\ \A i : Pcmd(i).op = "pcmd" /\ Pcmd(i).id = i
    /\ \A i : Pcmd(i) # [op |-> "pinit"] /\ Pcmd(i) # F!STOP
    /\ \A e \in FoxCallbacks : e.op = "pcmd" => e.id \in F!Requests /\ e = Pcmd(e.id)
<1>1. \A i : Pcmd(i).op = "pcmd" /\ Pcmd(i).id = i
  BY DEF Pcmd
<1>2. F!STOP.op = "stop" /\ [op |-> "pinit"].op = "pinit"
  BY DEF F!STOP
<1> QED
  BY <1>1, <1>2 DEF FoxCallbacks, Pcmds

LEMMA RequestFacts ==
    /\ F!Ping \notin F!Requests /\ F!Auth \notin F!Requests /\ F!NoReply \notin F!Requests
    /\ \A i \in F!Requests : i = <<i[1], i[2]>> /\ i[1] \in Callers /\ i[2] \in Nat
    /\ \A i, j \in F!Requests : i[1] = j[1] /\ i[2] = j[2] => i = j
    /\ \A c \in Callers, n \in Nat : n < MaxCmds => <<c, n + 1>> \in F!Requests
<1>1. \A i \in F!Requests : i = <<i[1], i[2]>> /\ i[1] \in Callers /\ i[2] \in Nat /\ Len(i) = 2
  BY DEF F!Requests
<1>2. Len(F!Ping) = 1 /\ Len(F!Auth) = 1 /\ Len(F!NoReply) = 0
  BY DEF F!Ping, F!Auth, F!NoReply
<1>3. \A c \in Callers, n \in Nat : n < MaxCmds => <<c, n + 1>> \in F!Requests
  BY ServersAssumption DEF F!Requests
<1>4. \A i, j \in F!Requests : i[1] = j[1] /\ i[2] = j[2] => i = j
  BY <1>1, Zenon
<1> QED
  BY <1>1, <1>2, <1>3, <1>4

LEMMA RedisFrame ==
    ASSUME [Next]_vars
    PROVE  /\ which' = which
           /\ which = "fox" => F!RedisNext \/ UNCHANGED foxVars
BY DEF Next, vars, OnlyFox, OnlyWs, OnlyHttp, OnlyRock, OnlyXftp, OnlyTcp

LEMMA RedisInvInit == Init => RedisInv
<1> SUFFICES ASSUME F!RedisInit PROVE RedisInv
  BY DEF Init
<1>1. /\ conf \in [cluster : BOOLEAN, passwd : BOOLEAN, m_event : BOOLEAN] /\ conf.m_event = FALSE
      /\ fox.m_callbacks = <<>> /\ fox.batch = <<>> /\ fox.byte = FALSE
      /\ fox = [m_callbacks |-> <<>>, batch |-> <<>>, byte |-> FALSE, m_start |-> TRUE, loop |-> "running"]
      /\ m_status = "UNCONNECTED" /\ pending = <<>>
      /\ ctx = [i \in F!Requests |-> [live |-> FALSE, timeout |-> FALSE]]
      /\ fctx = [c \in Callers |-> [pc |-> "run", n |-> 0, fiber |-> FALSE, ready |-> 0, rpy |-> F!NoReply]]
  BY DEF F!RedisInit, F!StartThread, F!NewThread, F!NoCtx
<1>2. \A A : Once(<<>>, A)
  BY DEF Once
<1>3. ToSet(<<>>) = {}
  BY DEF ToSet
<1>4. RedisTypeOK
  <2>1. fox \in [m_callbacks : Seq(FoxCallbacks), batch : Seq(FoxCallbacks), byte : BOOLEAN,
                 m_start : BOOLEAN, loop : {"none", "running", "ended", "crashed"}]
    BY <1>1
  <2>2. ctx \in [F!Requests -> [live : BOOLEAN, timeout : BOOLEAN]]
    BY <1>1
  <2>3. fctx \in [Callers -> Caller]
    BY <1>1 DEF Caller
  <2>4. pending \in Seq(OnConnection)
    BY <1>1
  <2> QED
    BY <1>1, <2>1, <2>2, <2>3, <2>4 DEF RedisTypeOK
<1>5. HandOnce
  BY <1>1, <1>2, <1>3 DEF HandOnce
<1>6. PendingOnce
  BY <1>1, <1>2, <1>3 DEF PendingOnce
<1>7. CallerFits
  BY <1>1 DEF CallerFits
<1>8. RequestFits
  <2>1. Hand = {} /\ ToSet(pending) = {}
    BY <1>1, <1>3 DEF Hand
  <2>2. \A i \in F!Requests : ctx[i].live = FALSE
    BY <1>1
  <2> QED
    BY <2>1, <2>2 DEF RequestFits
<1> QED
  BY <1>4, <1>5, <1>6, <1>7, <1>8 DEF RedisInv

\* A step of the FoxThread that only takes requests away, or moves them.
LEMMA QuietStep ==
    ASSUME RedisInv,
           fox' \in [m_callbacks : Seq(FoxCallbacks), batch : Seq(FoxCallbacks), byte : BOOLEAN,
                     m_start : BOOLEAN, loop : {"none", "running", "ended", "crashed"}],
           HandOnce', Hand' \subseteq Hand,
           UNCHANGED <<conf, m_status, pending, ctx, fctx>>
    PROVE  RedisInv'
<1>1. RedisTypeOK'
  BY DEF RedisInv, RedisTypeOK
<1>2. PendingOnce' /\ CallerFits'
  BY DEF RedisInv, PendingOnce, CallerFits
<1>3. RequestFits'
  BY DEF RedisInv, RequestFits
<1> QED
  BY <1>1, <1>2, <1>3 DEF RedisInv

LEMMA RedisQuiet ==
    ASSUME RedisInv, F!InitClient \/ F!StopFox \/ F!Take \/ F!RunStop
    PROVE  RedisInv'
<1> DEFINE Thread == [m_callbacks : Seq(FoxCallbacks), batch : Seq(FoxCallbacks), byte : BOOLEAN,
                      m_start : BOOLEAN, loop : {"none", "running", "ended", "crashed"}]
<1>0. /\ fox \in Thread /\ fox.m_callbacks \in Seq(FoxCallbacks) /\ fox.batch \in Seq(FoxCallbacks)
      /\ fox.byte \in BOOLEAN /\ fox.m_start \in BOOLEAN /\ fox.loop \in {"none", "running", "ended", "crashed"}
      /\ HandOnce
      /\ \A i : Pcmd(i) # [op |-> "pinit"] /\ Pcmd(i) # F!STOP
      /\ [op |-> "pinit"] \in FoxCallbacks /\ F!STOP \in FoxCallbacks
      /\ [op |-> "pinit"] \notin Pcmds /\ F!STOP \notin Pcmds
      /\ ToSet(<<>>) = {} /\ \A A : Once(<<>>, A)
      /\ <<>> \in Seq(FoxCallbacks)
  <2>1. [op |-> "pinit"] \notin Pcmds /\ F!STOP \notin Pcmds
    BY PcmdFacts DEF Pcmds
  <2>2. ToSet(<<>>) = {} /\ \A A : Once(<<>>, A)
    BY DEF ToSet, Once
  <2> QED
    BY <2>1, <2>2, PcmdFacts DEF RedisInv, RedisTypeOK, FoxCallbacks
\* appended: pinit or the null callback
<1>1. ASSUME NEW e \in {[op |-> "pinit"], F!STOP},
             fox'.m_callbacks = Append(fox.m_callbacks, e), fox'.batch = fox.batch, fox' \in Thread
      PROVE  HandOnce' /\ Hand' \subseteq Hand
  <2>1. /\ ToSet(Append(fox.m_callbacks, e)) = ToSet(fox.m_callbacks) \cup {e}
        /\ Once(Append(fox.m_callbacks, e), Pcmds)
    BY <1>0, <1>1, AppendSet, OnceAppend DEF HandOnce
  <2>2. \A i : Pcmd(i) \in ToSet(fox'.m_callbacks) <=> Pcmd(i) \in ToSet(fox.m_callbacks)
    BY <2>1, <1>0, <1>1
  <2> QED
    BY <2>1, <2>2, <1>0, <1>1 DEF HandOnce, Hand
<1>2. CASE F!InitClient
  <2> DEFINE q == Append(fox.m_callbacks, [op |-> "pinit"])
  <2>1. fox' = [fox EXCEPT !.m_callbacks = q, !.byte = TRUE]
        /\ UNCHANGED <<conf, m_status, pending, ctx, fctx, drops>>
    BY <1>2 DEF F!InitClient, F!Dispatch
  <2>2. q \in Seq(FoxCallbacks)
    BY <1>0
  <2> HIDE DEF q
  <2>3. fox' \in Thread /\ fox'.m_callbacks = q /\ fox'.batch = fox.batch
    BY <1>0, <2>1, <2>2
  <2> QED
    BY <1>1, <2>1, <2>3, QuietStep DEF q
<1>3. CASE F!StopFox
  <2> DEFINE q == Append(fox.m_callbacks, F!STOP)
             b == fox.byte \/ fox.loop # "none"
  <2>1. fox' = [fox EXCEPT !.m_callbacks = q, !.byte = b]
        /\ UNCHANGED <<conf, m_status, pending, ctx, fctx, drops>>
    BY <1>3 DEF F!StopFox, F!StopThread
  <2>2. q \in Seq(FoxCallbacks) /\ b \in BOOLEAN
    BY <1>0
  <2> HIDE DEF q, b
  <2>3. fox' \in Thread /\ fox'.m_callbacks = q /\ fox'.batch = fox.batch
    BY <1>0, <2>1, <2>2
  <2> QED
    BY <1>1, <2>1, <2>3, QuietStep DEF q
<1>4. CASE F!Take
  <2>1. fox' = [fox EXCEPT !.byte = FALSE, !.batch = fox.m_callbacks, !.m_callbacks = <<>>]
        /\ fox.batch = <<>>
        /\ UNCHANGED <<conf, m_status, pending, ctx, fctx, drops>>
    BY <1>4 DEF F!Take, F!ReadCb, F!InLoop
  <2>2. fox' \in Thread /\ fox'.m_callbacks = <<>> /\ fox'.batch = fox.m_callbacks
    BY <1>0, <2>1
  <2>3. HandOnce' /\ Hand' \subseteq Hand
    BY <1>0, <2>2 DEF HandOnce, Hand
  <2> QED
    BY <2>1, <2>2, <2>3, QuietStep
<1>5. CASE F!RunStop
  <2>1. fox' = [fox EXCEPT !.batch = <<>>, !.m_start = FALSE, !.loop = "ended"]
        /\ UNCHANGED <<conf, m_status, pending, ctx, fctx, drops>>
    BY <1>5 DEF F!RunStop, F!BreakLoop
  <2>2. fox' \in Thread /\ fox'.m_callbacks = fox.m_callbacks /\ fox'.batch = <<>>
    BY <1>0, <2>1
  <2>3. HandOnce' /\ Hand' \subseteq Hand
    BY <1>0, <2>2 DEF HandOnce, Hand
  <2> QED
    BY <2>1, <2>2, <2>3, QuietStep
<1> QED
  BY <1>2, <1>3, <1>4, <1>5

LEMMA RedisAsk ==
    ASSUME RedisInv, NEW c \in Callers, F!Cmd(c) \/ F!CmdCluster(c)
    PROVE  RedisInv'
<1> DEFINE i0 == <<c, fctx[c].n + 1>>
           r == [pc |-> "wait", n |-> fctx[c].n + 1, fiber |-> TRUE, ready |-> 0, rpy |-> F!NoReply]
           q == Append(fox.m_callbacks, Pcmd(i0))
<1>0. RedisTypeOK /\ HandOnce /\ PendingOnce /\ CallerFits /\ RequestFits
  BY DEF RedisInv
<1>1. /\ fctx[c].pc = "run" /\ fctx[c].n < MaxCmds
      /\ fctx' = [fctx EXCEPT ![c] = r]
      /\ fox' = [fox EXCEPT !.m_callbacks = q, !.byte = TRUE]
      /\ UNCHANGED <<conf, m_status, pending, ctx, drops>>
  BY DEF F!Cmd, F!CmdCluster, F!Ask, F!Dispatch, Pcmd
<1>2. fctx[c].n \in Nat /\ i0 \in F!Requests /\ i0[1] = c /\ i0[2] = fctx[c].n + 1
      /\ r \in Caller /\ fctx \in [Callers -> Caller]
  BY <1>0, <1>1, RequestFacts DEF RedisTypeOK, Caller
<1>3. Pcmd(i0) \in FoxCallbacks /\ Pcmd(i0) \in Pcmds
  BY <1>2 DEF FoxCallbacks, Pcmds
<1>4. i0 \notin Hand /\ ~ctx[i0].live
  BY <1>0, <1>2 DEF RequestFits
<1>5. Pcmd(i0) \notin ToSet(fox.m_callbacks) /\ Pcmd(i0) \notin ToSet(fox.batch)
  BY <1>2, <1>4 DEF Hand
<1>6. /\ fctx' \in [Callers -> Caller]
      /\ fctx'[c].pc = "wait" /\ fctx'[c].n = fctx[c].n + 1 /\ fctx'[c].fiber /\ fctx'[c].ready = 0
      /\ fctx'[c].rpy = F!NoReply
      /\ \A d \in Callers : d # c => fctx'[d] = fctx[d]
  <2> HIDE DEF r
  <2>1. fctx' \in [Callers -> Caller] /\ fctx'[c] = r /\ \A d \in Callers : d # c => fctx'[d] = fctx[d]
    BY <1>1, <1>2
  <2> QED
    BY <2>1 DEF r
<1>7. /\ fox.m_callbacks \in Seq(FoxCallbacks) /\ q \in Seq(FoxCallbacks)
      /\ ToSet(q) = ToSet(fox.m_callbacks) \cup {Pcmd(i0)}
      /\ Once(q, Pcmds)
  <2>1. fox.m_callbacks \in Seq(FoxCallbacks)
    BY <1>0 DEF RedisTypeOK
  <2> QED
    BY <2>1, <1>0, <1>3, <1>5, AppendSet, OnceAppend DEF HandOnce
<1> HIDE DEF q, r, i0
<1>8. /\ fox' \in [m_callbacks : Seq(FoxCallbacks), batch : Seq(FoxCallbacks), byte : BOOLEAN,
                   m_start : BOOLEAN, loop : {"none", "running", "ended", "crashed"}]
      /\ fox'.m_callbacks = q /\ fox'.batch = fox.batch
  BY <1>0, <1>1, <1>7 DEF RedisTypeOK
<1>9. RedisTypeOK'
  BY <1>0, <1>1, <1>6, <1>8 DEF RedisTypeOK
<1>10. HandOnce'
  BY <1>0, <1>5, <1>7, <1>8, PcmdFacts DEF HandOnce
<1>11. PendingOnce'
  BY <1>0, <1>1 DEF PendingOnce
<1>12. CallerFits'
  BY <1>0, <1>6 DEF CallerFits
<1>13. RequestFits'
  <2>1. Hand' = Hand \cup {i0}
    BY <1>2, <1>7, <1>8, PcmdFacts DEF Hand
  <2> SUFFICES ASSUME NEW i \in F!Requests
               PROVE  /\ ctx[i].live <=> i \in ToSet(pending)
                      /\ i \in Hand' => ~ctx[i].live
                      /\ ctx[i].live => i[2] <= fctx'[i[1]].n
                      /\ i \in Hand' \/ (ctx[i].live /\ ~ctx[i].timeout) => fctx'[i[1]].n = i[2] /\ fctx'[i[1]].fiber
    BY <1>1 DEF RequestFits
  <2>2. /\ ctx[i].live <=> i \in ToSet(pending)
        /\ i \in Hand => ~ctx[i].live
        /\ ctx[i].live => i[2] <= fctx[i[1]].n
        /\ i \in Hand \/ (ctx[i].live /\ ~ctx[i].timeout) => fctx[i[1]].n = i[2] /\ fctx[i[1]].fiber
        /\ i[1] \in Callers /\ i[2] \in Nat
    BY <1>0, RequestFacts DEF RequestFits
  <2>3. CASE i[1] # c
    BY <2>1, <2>2, <2>3, <1>2, <1>6
  <2>4. CASE i[1] = c
    <3>1. ~fctx[c].fiber
      BY <1>0, <1>1 DEF CallerFits
    <3>2. i \notin Hand /\ ~(ctx[i].live /\ ~ctx[i].timeout)
      BY <3>1, <2>2, <2>4
    <3>3. ctx[i].live => i[2] <= fctx'[c].n
      BY <2>2, <2>4, <1>2, <1>6
    <3>4. i = i0 => ~ctx[i].live /\ fctx'[c].n = i[2] /\ fctx'[c].fiber
      BY <1>2, <1>4, <1>6
    <3> QED
      BY <2>1, <2>2, <2>4, <3>2, <3>3, <3>4
  <2> QED
    BY <2>3, <2>4
<1> QED
  BY <1>9, <1>10, <1>11, <1>12, <1>13 DEF RedisInv

LEMMA RedisReturn ==
    ASSUME RedisInv, NEW c \in Callers, F!Return(c)
    PROVE  RedisInv'
<1>0. RedisTypeOK /\ HandOnce /\ PendingOnce /\ CallerFits /\ RequestFits
  BY DEF RedisInv
<1>1. /\ fctx[c].ready > 0
      /\ fctx' = [fctx EXCEPT ![c].pc = "run", ![c].ready = @ - 1]
      /\ UNCHANGED <<conf, fox, m_status, pending, ctx, drops>>
  BY DEF F!Return
<1>2. fctx[c].ready = 1 /\ fctx \in [Callers -> Caller] /\ ~fctx[c].fiber
  BY <1>0, <1>1 DEF CallerFits, RedisTypeOK
<1>3. /\ fctx' \in [Callers -> Caller]
      /\ fctx'[c].pc = "run" /\ fctx'[c].ready = 0 /\ fctx'[c].n = fctx[c].n
      /\ fctx'[c].fiber = fctx[c].fiber /\ fctx'[c].rpy = fctx[c].rpy
      /\ \A d \in Callers : d # c => fctx'[d] = fctx[d]
  BY <1>1, <1>2 DEF Caller
<1>4. RedisTypeOK'
  BY <1>0, <1>1, <1>3 DEF RedisTypeOK
<1>5. HandOnce' /\ PendingOnce'
  BY <1>0, <1>1 DEF HandOnce, PendingOnce
<1>6. CallerFits'
  BY <1>0, <1>2, <1>3 DEF CallerFits
<1>7. RequestFits'
  <2>1. Hand' = Hand
    BY <1>1 DEF Hand
  <2>2. \A i \in F!Requests : i[1] \in Callers /\ fctx'[i[1]].n = fctx[i[1]].n /\ fctx'[i[1]].fiber = fctx[i[1]].fiber
    BY <1>3, RequestFacts
  <2> QED
    BY <1>0, <1>1, <2>1, <2>2 DEF RequestFits
<1> QED
  BY <1>4, <1>5, <1>6, <1>7 DEF RedisInv

\* From k to l, caller c is scheduled, with its own answer or none.
GetsScheduled(c, k, l) ==
    /\ k.fiber /\ l.pc = k.pc /\ l.n = k.n /\ l.fiber = FALSE /\ l.ready = 1
    /\ l.rpy \in {F!NoReply, <<c, k.n>>}

LEMMA CallerRecord ==
    \A k \in Caller : \A rpy \in {F!NoReply} \cup F!Requests :
       [k EXCEPT !.fiber = FALSE, !.ready = @ + 1, !.rpy = rpy] \in Caller
<1> SUFFICES ASSUME NEW k \in Caller, NEW rpy \in {F!NoReply} \cup F!Requests
             PROVE  [k EXCEPT !.fiber = FALSE, !.ready = @ + 1, !.rpy = rpy] \in Caller
  OBVIOUS
<1> DEFINE Given == {F!NoReply} \cup F!Requests
           ready == k.ready + 1
<1>1. ready \in Nat
  BY DEF Caller
<1>2. k \in [pc : {"run", "wait"}, n : Nat, fiber : BOOLEAN, ready : Nat, rpy : Given] /\ rpy \in Given
  BY DEF Caller
<1> HIDE DEF Given, ready
<1>3. [k EXCEPT !.fiber = FALSE, !.ready = ready, !.rpy = rpy]
         \in [pc : {"run", "wait"}, n : Nat, fiber : BOOLEAN, ready : Nat, rpy : Given]
  BY <1>1, <1>2, Zenon
<1> QED
  BY <1>3 DEF Caller, Given, ready

\* A caller that waits and is not scheduled is scheduled once.
LEMMA CallerScheduled ==
    ASSUME RedisInv, NEW i \in F!Requests, fctx[i[1]].n = i[2], fctx[i[1]].fiber,
           NEW reply \in {F!NoReply, i}, fctx' = F!Schedule(fctx, i, reply)
    PROVE  /\ fctx' \in [Callers -> Caller]
           /\ \A c \in Callers : c # i[1] => fctx'[c] = fctx[c]
           /\ GetsScheduled(i[1], fctx[i[1]], fctx'[i[1]])
<1>1. fctx \in [Callers -> Caller] /\ i[1] \in Callers /\ i = <<i[1], i[2]>>
  BY RequestFacts DEF RedisInv, RedisTypeOK
<1>2. fctx[i[1]].ready = 0
  BY <1>1 DEF RedisInv, CallerFits
<1>3. reply \in {F!NoReply} \cup F!Requests
  OBVIOUS
<1>4. /\ fctx' \in [Callers -> Caller]
      /\ \A c \in Callers : c # i[1] => fctx'[c] = fctx[c]
      /\ fctx'[i[1]].pc = fctx[i[1]].pc
      /\ fctx'[i[1]].n = i[2]
      /\ fctx'[i[1]].fiber = FALSE
      /\ fctx'[i[1]].ready = 1
      /\ fctx'[i[1]].rpy = reply
  <2> DEFINE g == [fctx EXCEPT ![i[1]].fiber = FALSE, ![i[1]].ready = @ + 1, ![i[1]].rpy = reply]
  <2>1. fctx' = g
    BY DEF F!Schedule
  <2>2. g \in [Callers -> Caller]
    <3>1. fctx[i[1]] \in Caller
      BY <1>1
    <3> DEFINE k == [fctx[i[1]] EXCEPT !.fiber = FALSE, !.ready = @ + 1, !.rpy = reply]
    <3>2. k \in Caller
      BY <1>3, <3>1, CallerRecord, Zenon
    <3>3. g = [fctx EXCEPT ![i[1]] = k]
      BY <1>1
    <3> HIDE DEF g, k
    <3> QED
      BY <1>1, <3>2, <3>3
  <2>3. \A c \in Callers : c # i[1] => g[c] = fctx[c]
    BY <1>1
  <2>4. /\ g[i[1]].pc = fctx[i[1]].pc /\ g[i[1]].n = i[2] /\ g[i[1]].fiber = FALSE
        /\ g[i[1]].ready = 1 /\ g[i[1]].rpy = reply
    BY <1>1, <1>2 DEF Caller
  <2> QED
    BY <2>1, <2>2, <2>3, <2>4, Zenon
<1>5. fctx'[i[1]].rpy \in {F!NoReply, <<i[1], fctx[i[1]].n>>}
  BY <1>1, <1>4, Zenon
<1> QED
  BY <1>4, <1>5, Zenon DEF GetsScheduled

\* An event of the FoxThread: requests go from its hand to the connection or away, and
\* a caller is scheduled only when nothing is left that could schedule it again.
LEMMA EventStep ==
    ASSUME RedisInv,
           RedisTypeOK', HandOnce', PendingOnce', Hand' \subseteq Hand,
           \A c \in Callers :
              \/ fctx'[c] = fctx[c]
              \/ /\ GetsScheduled(c, fctx[c], fctx'[c])
                 /\ \A i \in F!Requests : i[1] = c => i \notin Hand' /\ ~(ctx'[i].live /\ ~ctx'[i].timeout),
           \A i \in F!Requests :
              /\ ctx'[i].live <=> i \in ToSet(pending')
              /\ i \in Hand' => ~ctx'[i].live
              /\ ctx'[i].live => ctx[i].live \/ i \in Hand
              /\ ctx'[i].live /\ ~ctx'[i].timeout => (ctx[i].live /\ ~ctx[i].timeout) \/ i \in Hand
    PROVE  RedisInv'
<1>1. \A c \in Callers : fctx'[c].n = fctx[c].n
  BY DEF GetsScheduled
<1>2. CallerFits'
  <2> SUFFICES ASSUME NEW c \in Callers
               PROVE  /\ fctx'[c].ready \in {0, 1} /\ (fctx'[c].ready = 1 => fctx'[c].pc = "wait")
                      /\ fctx'[c].fiber => fctx'[c].pc = "wait" /\ fctx'[c].ready = 0
                      /\ fctx'[c].rpy \in {F!NoReply, <<c, fctx'[c].n>>}
    BY DEF CallerFits
  <2>1. /\ fctx[c].ready \in {0, 1} /\ (fctx[c].ready = 1 => fctx[c].pc = "wait")
        /\ fctx[c].fiber => fctx[c].pc = "wait" /\ fctx[c].ready = 0
        /\ fctx[c].rpy \in {F!NoReply, <<c, fctx[c].n>>}
    BY DEF RedisInv, CallerFits
  <2> QED
    BY <2>1 DEF GetsScheduled
<1>3. RequestFits'
  <2> SUFFICES ASSUME NEW i \in F!Requests
               PROVE  /\ ctx'[i].live => i[2] <= fctx'[i[1]].n
                      /\ i \in Hand' \/ (ctx'[i].live /\ ~ctx'[i].timeout) => fctx'[i[1]].n = i[2] /\ fctx'[i[1]].fiber
    BY DEF RequestFits
  <2>1. /\ ctx[i].live => i[2] <= fctx[i[1]].n
        /\ i \in Hand \/ (ctx[i].live /\ ~ctx[i].timeout) => fctx[i[1]].n = i[2] /\ fctx[i[1]].fiber
    BY DEF RedisInv, RequestFits
  <2>2. i[1] \in Callers /\ i[2] \in Nat
    BY RequestFacts
  <2>3. ctx'[i].live => i[2] <= fctx'[i[1]].n
    BY <1>1, <2>1, <2>2
  <2>4. ASSUME i \in Hand' \/ (ctx'[i].live /\ ~ctx'[i].timeout)
        PROVE  fctx'[i[1]].n = i[2] /\ fctx'[i[1]].fiber
    <3>1. fctx'[i[1]] = fctx[i[1]]
      BY <2>4, <2>2
    <3>2. i \in Hand \/ (ctx[i].live /\ ~ctx[i].timeout)
      BY <2>4
    <3> QED
      BY <3>1, <3>2, <2>1
  <2> QED
    BY <2>3, <2>4
<1> QED
  BY <1>2, <1>3 DEF RedisInv

\* The next of the batch has been taken.
LEMMA RanOneDoes ==
    ASSUME RedisInv, fox.batch # <<>>, fox' = F!RanOne(fox)
    PROVE  /\ fox' \in [m_callbacks : Seq(FoxCallbacks), batch : Seq(FoxCallbacks), byte : BOOLEAN,
                        m_start : BOOLEAN, loop : {"none", "running", "ended", "crashed"}]
           /\ HandOnce' /\ Hand' \subseteq Hand
           /\ Head(fox.batch) \in FoxCallbacks
           /\ \A i \in F!Requests : Head(fox.batch) = Pcmd(i) => i \in Hand /\ i \notin Hand'
<1> DEFINE b == Tail(fox.batch)
<1>1. /\ fox.batch \in Seq(FoxCallbacks) /\ RedisTypeOK /\ HandOnce
      /\ \A i \in F!Requests : Pcmd(i) \in Pcmds
  BY DEF RedisInv, RedisTypeOK, Pcmds
<1>2. /\ Head(fox.batch) \in FoxCallbacks /\ Head(fox.batch) \in ToSet(fox.batch) /\ b \in Seq(FoxCallbacks)
      /\ ToSet(b) \subseteq ToSet(fox.batch)
      /\ Once(b, Pcmds) /\ (Head(fox.batch) \in Pcmds => Head(fox.batch) \notin ToSet(b))
  BY <1>1, OnceTail DEF HandOnce
<1>3. fox' = [fox EXCEPT !.batch = b]
  BY DEF F!RanOne
<1> HIDE DEF b
<1>4. /\ fox' \in [m_callbacks : Seq(FoxCallbacks), batch : Seq(FoxCallbacks), byte : BOOLEAN,
                   m_start : BOOLEAN, loop : {"none", "running", "ended", "crashed"}]
      /\ fox'.m_callbacks = fox.m_callbacks /\ fox'.batch = b
  BY <1>1, <1>2, <1>3 DEF RedisTypeOK
<1>5. HandOnce' /\ Hand' \subseteq Hand
  BY <1>1, <1>2, <1>4 DEF HandOnce, Hand
<1>6. ASSUME NEW i \in F!Requests, Head(fox.batch) = Pcmd(i)
      PROVE  i \in Hand /\ i \notin Hand'
  BY <1>1, <1>2, <1>4, <1>6 DEF HandOnce, Hand
<1> QED
  BY <1>2, <1>4, <1>5, <1>6

\* Connecting leaves no request on a connection that was not there.
LEMMA PinitDoes ==
    ASSUME RedisInv, F!Pinit
    PROVE  /\ conf' \in [cluster : BOOLEAN, passwd : BOOLEAN, m_event : BOOLEAN] /\ (conf'.m_event => ~conf'.cluster)
           /\ m_status' \in {"UNCONNECTED", "CONNECTING", "CONNECTED"}
           /\ pending' \in Seq(OnConnection) /\ PendingOnce'
           /\ \A i \in F!Requests : i \in ToSet(pending') <=> i \in ToSet(pending)
<1>0. /\ m_status \in {"UNCONNECTED", "CONNECTING", "CONNECTED"} /\ pending \in Seq(OnConnection) /\ PendingOnce
      /\ conf \in [cluster : BOOLEAN, passwd : BOOLEAN, m_event : BOOLEAN] /\ (conf.m_event => ~conf.cluster)
  BY DEF RedisInv, RedisTypeOK
<1>1. /\ ToSet(<<>>) = {} /\ Once(<<>>, F!Requests)
      /\ ToSet(<<F!Ping>>) = {F!Ping} /\ Once(<<F!Ping>>, F!Requests)
      /\ <<F!Ping>> \in Seq(OnConnection) /\ <<>> \in Seq(OnConnection)
      /\ F!Ping \notin F!Requests
  <2>1. ToSet(<<>>) = {} /\ Once(<<>>, F!Requests) /\ Once(<<F!Ping>>, F!Requests)
    BY DEF ToSet, Once
  <2>2. ToSet(<<F!Ping>>) = {F!Ping}
    BY DEF ToSet
  <2>3. F!Ping \in OnConnection
    BY DEF OnConnection
  <2> QED
    BY <2>1, <2>2, <2>3, RequestFacts
<1>2. \/ m_status' = m_status /\ pending' = pending /\ conf' = conf
      \/ /\ m_status = "UNCONNECTED" /\ m_status' = "CONNECTING" /\ pending' = <<F!Ping>>
         /\ ~conf.cluster /\ conf' = [conf EXCEPT !.m_event = TRUE]
      \/ m_status = "UNCONNECTED" /\ m_status' = "CONNECTED" /\ pending' = <<>> /\ conf' = conf
  BY DEF F!Pinit, F!PinitFox, F!PinitCluster, F!NotBegun
<1>3. CASE m_status' = m_status /\ pending' = pending /\ conf' = conf
  BY <1>0, <1>3 DEF PendingOnce
<1>4. CASE /\ m_status = "UNCONNECTED" /\ m_status' = "CONNECTING" /\ pending' = <<F!Ping>>
           /\ ~conf.cluster /\ conf' = [conf EXCEPT !.m_event = TRUE]
  <2>1. pending = <<>>
    BY <1>0, <1>4 DEF PendingOnce
  <2>2. /\ conf' \in [cluster : BOOLEAN, passwd : BOOLEAN, m_event : BOOLEAN]
        /\ ~conf'.cluster
    BY <1>0, <1>4
  <2>3. PendingOnce'
    BY <1>1, <1>4, <2>2 DEF PendingOnce
  <2> QED
    BY <1>1, <1>4, <2>1, <2>2, <2>3
<1>5. CASE m_status = "UNCONNECTED" /\ m_status' = "CONNECTED" /\ pending' = <<>> /\ conf' = conf
  <2>1. pending = <<>>
    BY <1>0, <1>5 DEF PendingOnce
  <2>2. PendingOnce'
    BY <1>0, <1>1, <1>5 DEF PendingOnce
  <2> QED
    BY <1>0, <1>1, <1>5, <2>1, <2>2
<1> QED
  BY <1>2, <1>3, <1>4, <1>5

LEMMA RedisRunPinit ==
    ASSUME RedisInv, F!RunPinit
    PROVE  RedisInv'
<1>1. fox.batch # <<>> /\ fox' = F!RanOne(fox) /\ F!Pinit /\ UNCHANGED <<ctx, fctx>>
  BY DEF F!RunPinit
<1>2. /\ fox' \in [m_callbacks : Seq(FoxCallbacks), batch : Seq(FoxCallbacks), byte : BOOLEAN,
                   m_start : BOOLEAN, loop : {"none", "running", "ended", "crashed"}]
      /\ HandOnce' /\ Hand' \subseteq Hand
  BY <1>1, RanOneDoes
<1>3. /\ conf' \in [cluster : BOOLEAN, passwd : BOOLEAN, m_event : BOOLEAN] /\ (conf'.m_event => ~conf'.cluster)
      /\ m_status' \in {"UNCONNECTED", "CONNECTING", "CONNECTED"}
      /\ pending' \in Seq(OnConnection) /\ PendingOnce'
      /\ \A i \in F!Requests : i \in ToSet(pending') <=> i \in ToSet(pending)
  BY <1>1, PinitDoes
<1>4. RedisTypeOK'
  BY <1>1, <1>2, <1>3 DEF RedisInv, RedisTypeOK
<1>5. \A c \in Callers : fctx'[c] = fctx[c]
  BY <1>1
<1>6. \A i \in F!Requests :
         /\ ctx'[i].live <=> i \in ToSet(pending')
         /\ i \in Hand' => ~ctx'[i].live
         /\ ctx'[i].live => ctx[i].live \/ i \in Hand
         /\ ctx'[i].live /\ ~ctx'[i].timeout => (ctx[i].live /\ ~ctx[i].timeout) \/ i \in Hand
  BY <1>1, <1>2, <1>3 DEF RedisInv, RequestFits
<1> QED
  BY <1>2, <1>3, <1>4, <1>5, <1>6, EventStep

LEMMA RedisRunPcmd ==
    ASSUME RedisInv, F!RunPcmd
    PROVE  RedisInv'
<1>1. PICK i \in F!Requests : Head(fox.batch) = Pcmd(i)
  <2>1. Head(fox.batch) \in FoxCallbacks /\ Head(fox.batch).op = "pcmd"
    BY RanOneDoes DEF F!RunPcmd
  <2> QED
    BY <2>1, PcmdFacts
<1>2. /\ fox.batch # <<>> /\ fox' = F!RanOne(fox)
      /\ F!Unconnected(i) \/ F!NewCtx(i)
      /\ m_status = "UNCONNECTED" => F!Unconnected(i)
  <2>1. Head(fox.batch).id = i
    BY <1>1, PcmdFacts
  <2> QED
    BY <2>1 DEF F!RunPcmd, F!PcmdFox, F!PcmdCluster
<1>3. /\ fox' \in [m_callbacks : Seq(FoxCallbacks), batch : Seq(FoxCallbacks), byte : BOOLEAN,
                   m_start : BOOLEAN, loop : {"none", "running", "ended", "crashed"}]
      /\ HandOnce' /\ Hand' \subseteq Hand
      /\ i \in Hand /\ i \notin Hand'
  BY <1>1, <1>2, RanOneDoes
<1>4. RedisTypeOK /\ PendingOnce /\ CallerFits /\ RequestFits
  BY DEF RedisInv
<1>5. i[1] \in Callers /\ fctx[i[1]].n = i[2] /\ fctx[i[1]].fiber /\ fctx[i[1]].ready = 0 /\ ~ctx[i].live
  BY <1>3, <1>4, RequestFacts DEF RequestFits, CallerFits
<1>6. CASE F!Unconnected(i)
  <2>1. F!Pinit /\ fctx' = F!Schedule(fctx, i, F!NoReply) /\ UNCHANGED ctx
    BY <1>6 DEF F!Unconnected
  <2>2. /\ conf' \in [cluster : BOOLEAN, passwd : BOOLEAN, m_event : BOOLEAN] /\ (conf'.m_event => ~conf'.cluster)
        /\ m_status' \in {"UNCONNECTED", "CONNECTING", "CONNECTED"}
        /\ pending' \in Seq(OnConnection) /\ PendingOnce'
        /\ \A j \in F!Requests : j \in ToSet(pending') <=> j \in ToSet(pending)
    BY <1>2, <2>1, PinitDoes
  <2>3. /\ fctx' \in [Callers -> Caller]
        /\ \A c \in Callers : c # i[1] => fctx'[c] = fctx[c]
        /\ GetsScheduled(i[1], fctx[i[1]], fctx'[i[1]])
    BY <1>5, <2>1, CallerScheduled
  <2>4. RedisTypeOK'
    BY <1>2, <1>3, <1>4, <2>1, <2>2, <2>3 DEF RedisTypeOK
  <2>5. \A j \in F!Requests :
           /\ ctx'[j].live <=> j \in ToSet(pending')
           /\ j \in Hand' => ~ctx'[j].live
           /\ ctx'[j].live => ctx[j].live \/ j \in Hand
           /\ ctx'[j].live /\ ~ctx'[j].timeout => (ctx[j].live /\ ~ctx[j].timeout) \/ j \in Hand
    BY <1>3, <1>4, <2>1, <2>2 DEF RequestFits
  <2>6. ASSUME NEW j \in F!Requests, j[1] = i[1]
        PROVE  j \notin Hand' /\ ~(ctx'[j].live /\ ~ctx'[j].timeout)
    <3>1. j \in Hand \/ (ctx[j].live /\ ~ctx[j].timeout) => j = i
      <4>1. j \in Hand \/ (ctx[j].live /\ ~ctx[j].timeout) => fctx[i[1]].n = j[2]
        BY <1>4, <2>6 DEF RequestFits
      <4> QED
        BY <4>1, <1>5, <2>6, RequestFacts
    <3> QED
      BY <3>1, <1>3, <1>5, <2>1
  <2>7. \A c \in Callers :
           \/ fctx'[c] = fctx[c]
           \/ /\ GetsScheduled(c, fctx[c], fctx'[c])
              /\ \A j \in F!Requests : j[1] = c => j \notin Hand' /\ ~(ctx'[j].live /\ ~ctx'[j].timeout)
    BY <2>3, <2>6
  <2> QED
    BY <1>3, <2>2, <2>4, <2>5, <2>7, EventStep
<1>7. CASE F!NewCtx(i) /\ m_status # "UNCONNECTED"
  <2>1. /\ ctx' = [ctx EXCEPT ![i] = [live |-> TRUE, timeout |-> FALSE]]
        /\ pending' = Append(pending, i)
        /\ UNCHANGED <<conf, m_status, fctx, drops>>
    BY <1>7 DEF F!NewCtx
  <2>2. /\ ctx' \in [F!Requests -> [live : BOOLEAN, timeout : BOOLEAN]]
        /\ ctx'[i].live /\ \A j \in F!Requests : j # i => ctx'[j] = ctx[j]
    BY <1>4, <2>1 DEF RedisTypeOK
  <2>3. /\ pending' \in Seq(OnConnection) /\ ToSet(pending') = ToSet(pending) \cup {i}
        /\ Once(pending', F!Requests)
    <3>1. pending \in Seq(OnConnection) /\ i \in OnConnection /\ i \notin ToSet(pending)
      BY <1>4, <1>5 DEF RedisTypeOK, OnConnection, RequestFits
    <3> QED
      BY <3>1, <2>1, <1>4, AppendSet, OnceAppend DEF PendingOnce
  <2>4. PendingOnce'
    BY <1>2, <1>4, <1>7, <2>1, <2>3 DEF PendingOnce
  <2>5. RedisTypeOK'
    BY <1>2, <1>3, <1>4, <2>1, <2>2, <2>3 DEF RedisTypeOK
  <2>6. \A c \in Callers : fctx'[c] = fctx[c]
    BY <2>1
  <2>7. \A j \in F!Requests :
           /\ ctx'[j].live <=> j \in ToSet(pending')
           /\ j \in Hand' => ~ctx'[j].live
           /\ ctx'[j].live => ctx[j].live \/ j \in Hand
           /\ ctx'[j].live /\ ~ctx'[j].timeout => (ctx[j].live /\ ~ctx[j].timeout) \/ j \in Hand
    BY <1>3, <1>4, <2>2, <2>3 DEF RequestFits
  <2> QED
    BY <1>3, <2>4, <2>5, <2>6, <2>7, EventStep
<1> QED
  BY <1>2, <1>6, <1>7

\* A request that waits for an answer and has no timeout yet: its caller can be scheduled,
\* and no other request of that caller can schedule it.
LEMMA OnlyOne ==
    ASSUME RedisInv, NEW i \in F!Requests, i \in Hand \/ (ctx[i].live /\ ~ctx[i].timeout)
    PROVE  /\ fctx[i[1]].n = i[2] /\ fctx[i[1]].fiber
           /\ \A j \in F!Requests : /\ j[1] = i[1]
                                    /\ j \in Hand \/ (ctx[j].live /\ ~ctx[j].timeout)
                                    => j = i
<1>1. fctx[i[1]].n = i[2] /\ fctx[i[1]].fiber
  BY DEF RedisInv, RequestFits
<1>2. ASSUME NEW j \in F!Requests, j[1] = i[1], j \in Hand \/ (ctx[j].live /\ ~ctx[j].timeout)
      PROVE  j = i
  <2>1. fctx[j[1]].n = j[2]
    BY <1>2 DEF RedisInv, RequestFits
  <2> QED
    BY <2>1, <1>1, <1>2, RequestFacts
<1> QED
  BY <1>1, <1>2

\* Another command behind a connection, of no caller.
LEMMA RedisOwnCommand ==
    ASSUME RedisInv, NEW e \in {F!Ping, F!Auth}, ~conf.cluster,
           m_status' # "UNCONNECTED", m_status' \in {"CONNECTING", "CONNECTED"}, pending' = Append(pending, e) \/ pending' = pending,
           UNCHANGED <<conf, fox, ctx, fctx>>,
           m_status # "UNCONNECTED"
    PROVE  RedisInv'
<1>1. RedisTypeOK /\ HandOnce /\ PendingOnce /\ RequestFits
  BY DEF RedisInv
<1>2. e \in OnConnection /\ e \notin F!Requests /\ pending \in Seq(OnConnection)
  BY <1>1, RequestFacts DEF OnConnection, RedisTypeOK
<1>3. /\ pending' \in Seq(OnConnection) /\ Once(pending', F!Requests)
      /\ \A i \in F!Requests : i \in ToSet(pending') <=> i \in ToSet(pending)
  <2>1. /\ Append(pending, e) \in Seq(OnConnection) /\ Once(Append(pending, e), F!Requests)
        /\ ToSet(Append(pending, e)) = ToSet(pending) \cup {e}
    BY <1>1, <1>2, AppendSet, OnceAppend DEF PendingOnce
  <2> QED
    BY <2>1, <1>1, <1>2 DEF PendingOnce
<1>4. PendingOnce'
  BY <1>3 DEF PendingOnce
<1>5. RedisTypeOK' /\ HandOnce' /\ Hand' = Hand
  BY <1>1, <1>3 DEF RedisTypeOK, HandOnce, Hand
<1>6. \A i \in F!Requests :
         /\ ctx'[i].live <=> i \in ToSet(pending')
         /\ i \in Hand' => ~ctx'[i].live
         /\ ctx'[i].live => ctx[i].live \/ i \in Hand
         /\ ctx'[i].live /\ ~ctx'[i].timeout => (ctx[i].live /\ ~ctx[i].timeout) \/ i \in Hand
  BY <1>1, <1>3, <1>5 DEF RequestFits
<1>7. \A c \in Callers : fctx'[c] = fctx[c]
  OBVIOUS
<1> QED
  BY <1>4, <1>5, <1>6, <1>7, EventStep

LEMMA RedisConnect ==
    ASSUME RedisInv, F!ConnectCb \/ F!TimeCb
    PROVE  RedisInv'
<1>1. CASE F!ConnectCb
  <2>1. /\ m_status = "CONNECTING" /\ m_status' = "CONNECTED"
        /\ pending' = Append(pending, F!Auth) \/ pending' = pending
        /\ UNCHANGED <<conf, fox, ctx, fctx>>
    BY <1>1 DEF F!ConnectCb
  <2>2. ~conf.cluster
    BY <2>1 DEF RedisInv, PendingOnce
  <2> QED
    BY <2>1, <2>2, RedisOwnCommand
<1>2. CASE F!TimeCb /\ m_status # "UNCONNECTED"
  <2>1. /\ m_status' = m_status /\ conf.m_event
        /\ pending' = Append(pending, F!Ping)
        /\ UNCHANGED <<conf, fox, ctx, fctx>>
    BY <1>2 DEF F!TimeCb
  <2>2. ~conf.cluster /\ m_status \in {"CONNECTING", "CONNECTED"}
    BY <1>2, <2>1 DEF RedisInv, RedisTypeOK
  <2> QED
    BY <1>2, <2>1, <2>2, RedisOwnCommand
<1>3. CASE F!TimeCb /\ m_status = "UNCONNECTED"
  <2>1. fox' = [fox EXCEPT !.loop = "crashed"] /\ UNCHANGED <<conf, m_status, pending, ctx, fctx>>
    BY <1>3 DEF F!TimeCb
  <2>2. /\ fox' \in [m_callbacks : Seq(FoxCallbacks), batch : Seq(FoxCallbacks), byte : BOOLEAN,
                     m_start : BOOLEAN, loop : {"none", "running", "ended", "crashed"}]
        /\ fox'.m_callbacks = fox.m_callbacks /\ fox'.batch = fox.batch
    BY <2>1 DEF RedisInv, RedisTypeOK
  <2>3. HandOnce' /\ Hand' = Hand
    BY <2>2 DEF RedisInv, HandOnce, Hand
  <2> QED
    BY <2>1, <2>2, <2>3, QuietStep
<1> QED
  BY <1>1, <1>2, <1>3

LEMMA RedisTimedOut ==
    ASSUME RedisInv, NEW i \in F!Requests, F!EventCb(i) \/ F!EventCbCluster(i)
    PROVE  RedisInv'
<1>1. /\ ctx[i].live /\ ~ctx[i].timeout
      /\ ctx' = [ctx EXCEPT ![i].timeout = TRUE]
      /\ fctx' = F!Schedule(fctx, i, F!NoReply)
      /\ UNCHANGED <<conf, fox, m_status, pending, drops>>
  BY DEF F!EventCb, F!EventCbCluster, F!TimedOut
<1>2. RedisTypeOK /\ HandOnce /\ PendingOnce /\ RequestFits
  BY DEF RedisInv
<1>3. /\ fctx' \in [Callers -> Caller]
      /\ \A c \in Callers : c # i[1] => fctx'[c] = fctx[c]
      /\ GetsScheduled(i[1], fctx[i[1]], fctx'[i[1]])
  BY <1>1, OnlyOne, CallerScheduled
<1>4. /\ ctx' \in [F!Requests -> [live : BOOLEAN, timeout : BOOLEAN]]
      /\ ctx'[i].live /\ ctx'[i].timeout
      /\ \A j \in F!Requests : j # i => ctx'[j] = ctx[j]
  BY <1>1, <1>2 DEF RedisTypeOK
<1>5. RedisTypeOK' /\ HandOnce' /\ PendingOnce' /\ Hand' = Hand
  <2>1. RedisTypeOK'
    BY <1>1, <1>2, <1>3, <1>4 DEF RedisTypeOK
  <2>2. HandOnce' /\ PendingOnce' /\ Hand' = Hand
    BY <1>1, <1>2 DEF HandOnce, PendingOnce, Hand
  <2> QED
    BY <2>1, <2>2
<1>6. \A j \in F!Requests :
         /\ ctx'[j].live <=> j \in ToSet(pending')
         /\ j \in Hand' => ~ctx'[j].live
         /\ ctx'[j].live => ctx[j].live \/ j \in Hand
         /\ ctx'[j].live /\ ~ctx'[j].timeout => (ctx[j].live /\ ~ctx[j].timeout) \/ j \in Hand
  BY <1>1, <1>2, <1>4, <1>5 DEF RequestFits
<1>7. ASSUME NEW j \in F!Requests, j[1] = i[1]
      PROVE  j \notin Hand' /\ ~(ctx'[j].live /\ ~ctx'[j].timeout)
  <2>1. j \in Hand \/ (ctx[j].live /\ ~ctx[j].timeout) => j = i
    BY <1>1, <1>7, OnlyOne
  <2>2. i \notin Hand
    BY <1>1, <1>2 DEF RequestFits
  <2> QED
    BY <2>1, <2>2, <1>4, <1>5, <1>6
<1>8. \A c \in Callers :
         \/ fctx'[c] = fctx[c]
         \/ /\ GetsScheduled(c, fctx[c], fctx'[c])
            /\ \A j \in F!Requests : j[1] = c => j \notin Hand' /\ ~(ctx'[j].live /\ ~ctx'[j].timeout)
  BY <1>3, <1>7
<1> QED
  BY <1>5, <1>6, <1>8, EventStep

\* A scheduled callback of hiredis: the request's Ctx is deleted, and its caller is
\* scheduled unless the timeout already did that.
LEMMA RedisAnswer ==
    ASSUME RedisInv, F!Answer
    PROVE  RedisInv'
<1> DEFINE i == Head(pending)
<1>1. /\ pending # <<>> /\ m_status = "CONNECTED"
      /\ pending' = Tail(pending) /\ ctx' = F!CmdCbCtx(ctx, i)
      /\ \E reply \in {F!NoReply, i} : fctx' = F!Called(fctx, i, reply)
      /\ UNCHANGED <<conf, fox, m_status, drops>>
  BY DEF F!Answer
<1>2. PICK reply \in {F!NoReply, i} : fctx' = F!Called(fctx, i, reply)
  BY <1>1
<1>3. RedisTypeOK /\ HandOnce /\ PendingOnce /\ RequestFits
  BY DEF RedisInv
<1>4. /\ i \in ToSet(pending) /\ i \in OnConnection
      /\ pending' \in Seq(OnConnection) /\ Once(pending', F!Requests)
      /\ ToSet(pending') \subseteq ToSet(pending)
      /\ \A x \in ToSet(pending) : x = i \/ x \in ToSet(pending')
      /\ i \in F!Requests => i \notin ToSet(pending')
  <2>1. pending \in Seq(OnConnection) /\ Once(pending, F!Requests)
    BY <1>3 DEF RedisTypeOK, PendingOnce
  <2> QED
    BY <2>1, <1>1, OnceTail
<1> HIDE DEF i
<1>5. PendingOnce' /\ HandOnce' /\ Hand' = Hand
  BY <1>1, <1>3, <1>4 DEF PendingOnce, HandOnce, Hand
<1>6. CASE i \in F!Requests
  <2>1. /\ ctx' = [ctx EXCEPT ![i].live = FALSE]
        /\ ctx' \in [F!Requests -> [live : BOOLEAN, timeout : BOOLEAN]]
        /\ ~ctx'[i].live
        /\ \A j \in F!Requests : j # i => ctx'[j] = ctx[j]
    BY <1>1, <1>3, <1>6 DEF F!CmdCbCtx, RedisTypeOK
  <2>2. ctx[i].live /\ i \notin Hand
    BY <1>3, <1>4, <1>6 DEF RequestFits
  <2>3. fctx' = IF ctx[i].timeout THEN fctx ELSE F!Schedule(fctx, i, reply)
    BY <1>2, <1>6 DEF F!Called, F!CmdCb, F!CmdCbCluster
  <2>4. \A j \in F!Requests :
           /\ ctx'[j].live <=> j \in ToSet(pending')
           /\ j \in Hand' => ~ctx'[j].live
           /\ ctx'[j].live => ctx[j].live \/ j \in Hand
           /\ ctx'[j].live /\ ~ctx'[j].timeout => (ctx[j].live /\ ~ctx[j].timeout) \/ j \in Hand
    BY <1>3, <1>4, <1>5, <1>6, <2>1 DEF RequestFits
  <2>5. /\ fctx' \in [Callers -> Caller]
        /\ \A c \in Callers :
              \/ fctx'[c] = fctx[c]
              \/ /\ GetsScheduled(c, fctx[c], fctx'[c])
                 /\ \A j \in F!Requests : j[1] = c => j \notin Hand' /\ ~(ctx'[j].live /\ ~ctx'[j].timeout)
    <3>1. CASE ctx[i].timeout
      BY <3>1, <2>3, <1>3 DEF RedisTypeOK
    <3>2. CASE ~ctx[i].timeout
      <4>1. /\ fctx' \in [Callers -> Caller]
            /\ \A c \in Callers : c # i[1] => fctx'[c] = fctx[c]
            /\ GetsScheduled(i[1], fctx[i[1]], fctx'[i[1]])
        BY <3>2, <2>2, <2>3, <1>6, OnlyOne, CallerScheduled
      <4>2. ASSUME NEW j \in F!Requests, j[1] = i[1]
            PROVE  j \notin Hand' /\ ~(ctx'[j].live /\ ~ctx'[j].timeout)
        <5>1. j \in Hand \/ (ctx[j].live /\ ~ctx[j].timeout) => j = i
          BY <3>2, <2>2, <1>6, <4>2, OnlyOne
        <5> QED
          BY <5>1, <2>1, <2>2, <1>5
      <4> QED
        BY <4>1, <4>2
    <3> QED
      BY <3>1, <3>2
  <2>6. RedisTypeOK'
    BY <1>1, <1>3, <1>4, <2>1, <2>5 DEF RedisTypeOK
  <2> QED
    BY <1>5, <2>4, <2>5, <2>6, EventStep
<1>7. CASE i \notin F!Requests
  <2>1. ctx' = ctx /\ ~conf.cluster
    BY <1>1, <1>3, <1>4, <1>7 DEF F!CmdCbCtx, PendingOnce
  <2>2. fctx' = fctx
    BY <1>2, <1>7, <2>1 DEF F!Called, F!CmdCb
  <2>3. RedisTypeOK'
    BY <1>1, <1>3, <1>4, <2>1, <2>2 DEF RedisTypeOK
  <2>4. \A j \in F!Requests :
           /\ ctx'[j].live <=> j \in ToSet(pending')
           /\ j \in Hand' => ~ctx'[j].live
           /\ ctx'[j].live => ctx[j].live \/ j \in Hand
           /\ ctx'[j].live /\ ~ctx'[j].timeout => (ctx[j].live /\ ~ctx[j].timeout) \/ j \in Hand
    BY <1>3, <1>4, <1>5, <1>7, <2>1 DEF RequestFits
  <2> QED
    BY <1>5, <2>2, <2>3, <2>4, EventStep
<1> QED
  BY <1>6, <1>7

\* The connection is freed: every request on it is called back without a reply.
LEMMA RedisDropped ==
    ASSUME RedisInv, F!Disconnected \/ F!NodeDisconnected
    PROVE  RedisInv'
<1>1. /\ pending' = <<>> /\ ctx' = F!CtxGone /\ fctx' = F!AllCalled
      /\ m_status' \in {"UNCONNECTED", "CONNECTED"} /\ UNCHANGED <<conf, fox>>
  BY DEF F!Disconnected, F!NodeDisconnected
<1>2. RedisTypeOK /\ HandOnce /\ PendingOnce /\ RequestFits
  BY DEF RedisInv
<1>3. F!Range(pending) = ToSet(pending) /\ ToSet(<<>>) = {} /\ Once(<<>>, F!Requests) /\ <<>> \in Seq(OnConnection)
  BY DEF F!Range, ToSet, Once
<1>4. PendingOnce' /\ HandOnce' /\ Hand' = Hand
  BY <1>1, <1>2, <1>3 DEF PendingOnce, HandOnce, Hand
<1>5. ASSUME NEW j \in F!Requests
      PROVE  /\ ctx'[j] \in [live : BOOLEAN, timeout : BOOLEAN]
             /\ ~ctx'[j].live
  <2>1. CASE j \in ToSet(pending)
    <3>1. ctx'[j] = [ctx EXCEPT ![j].live = FALSE][j]
      BY <1>1, <1>3, <2>1 DEF F!CtxGone, F!CmdCbCtx
    <3>2. ctx'[j] = [ctx[j] EXCEPT !.live = FALSE]
      BY <3>1, <1>2 DEF RedisTypeOK
    <3> QED
      BY <3>2, <1>2 DEF RedisTypeOK
  <2>2. CASE j \notin ToSet(pending)
    <3>1. ctx'[j] = ctx[j] /\ ~ctx[j].live
      BY <1>1, <1>2, <1>3, <2>2 DEF F!CtxGone, RequestFits
    <3> QED
      BY <3>1, <1>2 DEF RedisTypeOK
  <2> QED
    BY <2>1, <2>2
<1>6. ctx' \in [F!Requests -> [live : BOOLEAN, timeout : BOOLEAN]]
  <2>1. ctx' = [j \in F!Requests |-> ctx'[j]]
    BY <1>1 DEF F!CtxGone
  <2> QED
    BY <2>1, <1>5
<1>7. ASSUME NEW c \in Callers
      PROVE  /\ fctx'[c] \in Caller
             /\ \/ fctx'[c] = fctx[c]
                \/ /\ GetsScheduled(c, fctx[c], fctx'[c])
                   /\ \A j \in F!Requests : j[1] = c => j \notin Hand' /\ ~(ctx'[j].live /\ ~ctx'[j].timeout)
  <2> DEFINE i == <<c, fctx[c].n>>
             g == F!Schedule(fctx, i, F!NoReply)
  <2>0. fctx'[c] = IF i \in ToSet(pending) THEN F!Called(fctx, i, F!NoReply)[c] ELSE fctx[c]
    BY <1>1, <1>3 DEF F!AllCalled
  <2>1. i \in ToSet(pending) => i \in F!Requests
    <3>1. i[1] = c /\ Len(i) = 2
      OBVIOUS
    <3>2. Len(F!Ping) = 1 /\ Len(F!Auth) = 1
      BY DEF F!Ping, F!Auth
    <3>3. ToSet(pending) \subseteq OnConnection
      BY <1>2 DEF RedisTypeOK, ToSet
    <3> QED
      BY <3>1, <3>2, <3>3 DEF OnConnection
  <2>2. fctx[c] \in Caller
    BY <1>2 DEF RedisTypeOK
  <2>3. i[1] = c /\ i[2] = fctx[c].n
    OBVIOUS
  <2> HIDE DEF i
  <2>4. CASE i \in ToSet(pending) /\ ~ctx[i].timeout
    <3>1. i \in F!Requests /\ ctx[i].live /\ i \notin Hand
      BY <2>1, <2>4, <1>2 DEF RequestFits
    <3>2. fctx'[c] = g[c]
      BY <2>0, <2>4, <3>1 DEF F!Called, F!CmdCb, F!CmdCbCluster
    <3> DEFINE k == [fctx[c] EXCEPT !.fiber = FALSE, !.ready = @ + 1, !.rpy = F!NoReply]
    <3>3. fctx[c].fiber
      BY <3>1, <2>3, <2>4, OnlyOne
    <3>4. fctx[c].ready = 0
      BY <3>3 DEF RedisInv, CallerFits
    <3>5. g[c] = k
      BY <2>3, <3>3, <1>2 DEF F!Schedule, RedisTypeOK
    <3>6. k \in Caller
      <4>1. F!NoReply \in {F!NoReply} \cup F!Requests
        OBVIOUS
      <4> QED
        BY <2>2, <4>1, CallerRecord, Zenon
    <3>7. /\ k.pc = fctx[c].pc /\ k.n = fctx[c].n /\ k.fiber = FALSE /\ k.ready = 1 /\ k.rpy = F!NoReply
      BY <2>2, <3>4 DEF Caller
    <3>8. GetsScheduled(c, fctx[c], k)
      BY <3>3, <3>7 DEF GetsScheduled
    <3>9. ASSUME NEW j \in F!Requests, j[1] = c
          PROVE  j \notin Hand'
      <4>1. j \in Hand => j = i
        BY <3>1, <2>3, <2>4, <3>9, OnlyOne
      <4> QED
        BY <4>1, <3>1, <1>4
    <3> HIDE DEF g, k
    <3> QED
      BY <3>2, <3>5, <3>6, <3>8, <3>9, <1>5
  <2>5. CASE i \in ToSet(pending) /\ ctx[i].timeout
    <3>1. fctx'[c] = fctx[c]
      BY <2>0, <2>1, <2>5 DEF F!Called, F!CmdCb, F!CmdCbCluster
    <3> QED
      BY <3>1, <2>2
  <2>6. CASE i \notin ToSet(pending)
    BY <2>0, <2>2, <2>6
  <2> QED
    BY <2>4, <2>5, <2>6
<1>8. fctx' \in [Callers -> Caller]
  <2>1. fctx' = [c \in Callers |-> fctx'[c]]
    BY <1>1 DEF F!AllCalled
  <2> QED
    BY <2>1, <1>7
<1>9. RedisTypeOK'
  BY <1>1, <1>2, <1>3, <1>6, <1>8 DEF RedisTypeOK
<1>10. \A j \in F!Requests :
          /\ ctx'[j].live <=> j \in ToSet(pending')
          /\ j \in Hand' => ~ctx'[j].live
          /\ ctx'[j].live => ctx[j].live \/ j \in Hand
          /\ ctx'[j].live /\ ~ctx'[j].timeout => (ctx[j].live /\ ~ctx[j].timeout) \/ j \in Hand
  BY <1>1, <1>3, <1>5
<1>11. Hand' \subseteq Hand
  BY <1>4
<1> QED
  BY <1>4, <1>7, <1>9, <1>10, <1>11, EventStep

LEMMA RedisInvNext == RedisPartInv /\ [Next]_vars => RedisPartInv'
<1> SUFFICES ASSUME RedisInv, F!RedisNext \/ UNCHANGED foxVars
             PROVE  RedisInv'
  BY RedisFrame DEF RedisPartInv
<1>1. CASE UNCHANGED foxVars
  BY <1>1 DEF foxVars, RedisInv, RedisTypeOK, HandOnce, PendingOnce, CallerFits, RequestFits, Hand
<1>2. ASSUME NEW c \in Callers, F!Cmd(c) \/ F!CmdCluster(c)
      PROVE  RedisInv'
  BY <1>2, RedisAsk DEF F!Cmd, F!CmdCluster
<1>3. ASSUME NEW c \in Callers, F!Return(c)
      PROVE  RedisInv'
  BY <1>3, RedisReturn
<1>4. CASE F!InitClient \/ F!StopFox
  BY <1>4, RedisQuiet
<1>5. CASE F!LoopStep
  BY <1>5, RedisQuiet, RedisRunPcmd, RedisRunPinit DEF F!LoopStep
<1>6. CASE F!Answer
  BY <1>6, RedisAnswer
<1>7. CASE F!ConnectCb \/ F!TimeCb
  BY <1>7, RedisConnect
<1>8. CASE F!Disconnected \/ F!NodeDisconnected
  BY <1>8, RedisDropped
<1>9. CASE F!Timeouts
  BY <1>9, RedisTimedOut DEF F!Timeouts
<1> QED
  BY <1>1, <1>2, <1>3, <1>4, <1>5, <1>6, <1>7, <1>8, <1>9 DEF F!RedisNext

\* The requests F!AnswersOwn speaks of are the ones in the FoxThread's hand.
LEMMA HandIsInHand ==
    ASSUME RedisInv
    PROVE  F!InHand = Hand
<1> DEFINE q == fox.m_callbacks
           b == fox.batch
<1>1. q \in Seq(FoxCallbacks) /\ b \in Seq(FoxCallbacks)
  BY DEF RedisInv, RedisTypeOK
<1> HIDE DEF q, b
<1>2. F!Range(q \o b) = ToSet(q) \cup ToSet(b)
  <2>1. F!Range(q \o b) = {(q \o b)[n] : n \in DOMAIN (q \o b)}
    BY DEF F!Range
  <2>2. /\ Len(q) \in Nat /\ Len(b) \in Nat
        /\ DOMAIN (q \o b) = 1 .. (Len(q) + Len(b)) /\ DOMAIN q = 1 .. Len(q) /\ DOMAIN b = 1 .. Len(b)
        /\ \A n \in 1 .. Len(q) : (q \o b)[n] = q[n]
        /\ \A n \in 1 .. Len(b) : (q \o b)[Len(q) + n] = b[n]
    BY <1>1
  <2>3. \A n \in 1 .. (Len(q) + Len(b)) : n \in 1 .. Len(q) \/ (n - Len(q) \in 1 .. Len(b) /\ n = Len(q) + (n - Len(q)))
    BY <2>2
  <2>4. /\ \A n \in 1 .. Len(q) : n \in 1 .. (Len(q) + Len(b))
        /\ \A n \in 1 .. Len(b) : Len(q) + n \in 1 .. (Len(q) + Len(b))
    BY <2>2
  <2>5. ASSUME NEW x \in F!Range(q \o b) PROVE x \in ToSet(q) \cup ToSet(b)
    <3>1. PICK n \in 1 .. (Len(q) + Len(b)) : x = (q \o b)[n]
      BY <2>1, <2>2, <2>5
    <3>2. CASE n \in 1 .. Len(q)
      BY <3>1, <3>2, <2>2 DEF ToSet
    <3>3. CASE n - Len(q) \in 1 .. Len(b) /\ n = Len(q) + (n - Len(q))
      BY <3>1, <3>3, <2>2 DEF ToSet
    <3> QED
      BY <3>2, <3>3, <2>3
  <2>6. ASSUME NEW x \in ToSet(q) \cup ToSet(b) PROVE x \in F!Range(q \o b)
    <3>1. ASSUME NEW n \in 1 .. Len(q), x = q[n] PROVE x \in F!Range(q \o b)
      BY <3>1, <2>1, <2>2, <2>4
    <3>2. ASSUME NEW n \in 1 .. Len(b), x = b[n] PROVE x \in F!Range(q \o b)
      BY <3>2, <2>1, <2>2, <2>4
    <3> QED
      BY <3>1, <3>2, <2>2, <2>6 DEF ToSet
  <2> QED
    BY <2>5, <2>6
<1>3. \A x \in ToSet(q) \cup ToSet(b) : x \in FoxCallbacks
  BY <1>1 DEF ToSet
<1>4. F!InHand = {k.id : k \in {x \in ToSet(q) \cup ToSet(b) : x.op = "pcmd"}}
  BY <1>2 DEF F!InHand, q, b
<1>5. Hand = {i \in F!Requests : Pcmd(i) \in ToSet(q) \cup ToSet(b)}
  BY DEF Hand, q, b
<1> QED
  BY <1>3, <1>4, <1>5, PcmdFacts

\* Every cmd() is answered once, with its own answer or none, and while the FoxThread may
\* still touch the request on the caller's stack the caller waits for it and is not
\* scheduled (FoxRedis, FoxRedisCluster, db/redis.cpp).
THEOREM AnswersAreOwn == Spec => []AnswersOwn
<1>1. Init => RedisPartInv
  BY RedisInvInit DEF RedisPartInv
<1>2. RedisPartInv /\ [Next]_vars => RedisPartInv'
  BY RedisInvNext
<1>3. RedisPartInv => AnswersOwn
  <2> SUFFICES ASSUME RedisInv PROVE F!AnswersOwn
    BY DEF RedisPartInv, AnswersOwn
  <2>1. CallerFits /\ RequestFits
    BY DEF RedisInv
  <2>2. F!Range(pending) = ToSet(pending)
    BY DEF F!Range, ToSet
  <2>3. \A c \in Callers : /\ fctx[c].ready <= 1 /\ (fctx[c].ready = 1 => fctx[c].pc = "wait")
                           /\ fctx[c].rpy # F!NoReply => fctx[c].rpy = <<c, fctx[c].n>>
    <3> TAKE c \in Callers
    <3>1. /\ fctx[c].ready \in {0, 1} /\ (fctx[c].ready = 1 => fctx[c].pc = "wait")
          /\ fctx[c].rpy \in {F!NoReply, <<c, fctx[c].n>>}
      BY <2>1 DEF CallerFits
    <3> QED
      BY <3>1
  <2>4. \A i \in Hand \cup {j \in F!Requests : ctx[j].live /\ ~ctx[j].timeout} :
           fctx[i[1]].pc = "wait" /\ fctx[i[1]].n = i[2] /\ fctx[i[1]].fiber
    BY <2>1, RequestFacts DEF RequestFits, CallerFits, Hand
  <2>5. \A i \in F!Requests : ctx[i].live <=> i \in F!Range(pending)
    BY <2>1, <2>2 DEF RequestFits
  <2> QED
    BY <2>3, <2>4, <2>5, HandIsInHand DEF F!AnswersOwn
<1> QED
  BY <1>1, <1>2, <1>3, PTL DEF Spec

-----------------------------------------------------------------------------
(***************************************************************************)
(* XftpSession.  A packet is in one place: in the queue of its file's      *)
(* worker, in a scheduled callback, in the session's queue, in the         *)
(* writer's batch or with the client.  The packets of one file are written *)
(* in order because they wait in one queue, which only grows at its end,   *)
(* and a packet that waits is younger than every one of its file that was  *)
(* written.                                                                *)
(***************************************************************************)

Positive == Nat \ {0}
\* The worker thread of packet p.
Thread(p) == packets[p].index % ThreadNum

XftpTypeOK ==
    /\ packets \in Seq([cmd : Handled \cup Unhandled, index : {0, 1}])
    /\ thread \in [X!Threads -> Seq(Positive)]
    /\ sched \subseteq Positive
    /\ queue \in Seq(Nat) /\ flushed \in Seq(Positive)
    /\ xwr \in [pc : {"none", "loop", "lock", "wait", "send", "stop", "done"}, batch : Seq(Nat), stop : BOOLEAN]
    /\ file \in Seq(Positive)

\* The packets that wait for thread t are its own, in the order they were read.
ThreadsFit ==
    \A t \in X!Threads :
       /\ \A k \in 1 .. Len(thread[t]) : thread[t][k] <= Len(packets) /\ Thread(thread[t][k]) = t
       /\ \A j, k \in 1 .. Len(thread[t]) : j < k => thread[t][j] < thread[t][k]

\* The packets a worker has handled.
Answers == sched \cup ToSet(queue) \cup ToSet(xwr.batch) \cup ToSet(flushed)

AnswersFit ==
    /\ \A p \in Answers : p <= Len(packets) /\ \A t \in X!Threads : p # 0 => p \notin ToSet(thread[t])
    /\ Once(queue, Positive) /\ Once(xwr.batch, Positive) /\ Once(flushed, Positive)
    /\ \A p \in Answers \ {0} :
          /\ p \in sched => p \notin ToSet(queue) \cup ToSet(xwr.batch) \cup ToSet(flushed)
          /\ p \in ToSet(queue) => p \notin ToSet(xwr.batch) \cup ToSet(flushed)
          /\ p \in ToSet(xwr.batch) => p \notin ToSet(flushed)

FileFits ==
    /\ \A j \in 1 .. Len(file) : /\ file[j] <= Len(packets)
                                 /\ \A t \in X!Threads : Thread(file[j]) = t => \A k \in 1 .. Len(thread[t]) : file[j] < thread[t][k]
    /\ \A j, k \in 1 .. Len(file) : j < k /\ Thread(file[j]) = Thread(file[k]) => file[j] < file[k]

XftpInv == XftpTypeOK /\ ThreadsFit /\ AnswersFit /\ FileFits
XftpPartInv == which = "xftp" => XftpInv

LEMMA XftpFrame ==
    ASSUME [Next]_vars
    PROVE  /\ which' = which
           /\ which = "xftp" => X!XftpNext \/ UNCHANGED xftpVars
BY DEF Next, vars, OnlyFox, OnlyWs, OnlyHttp, OnlyRock, OnlyXftp, OnlyTcp

LEMMA XftpInvInit == Init => XftpInv
<1> SUFFICES ASSUME X!XftpInit PROVE XftpInv
  BY DEF Init
<1>1. /\ packets = <<>> /\ thread = [t \in X!Threads |-> <<>>] /\ sched = {}
      /\ queue = <<>> /\ flushed = <<>> /\ file = <<>>
      /\ xwr = [pc |-> "none", batch |-> <<>>, stop |-> FALSE]
  BY DEF X!XftpInit
<1>2. ToSet(<<>>) = {} /\ Len(<<>>) = 0 /\ \A A : Once(<<>>, A)
  BY DEF ToSet, Once
<1>3. XftpTypeOK
  BY <1>1 DEF XftpTypeOK
<1>4. \A t \in X!Threads : thread[t] = <<>>
  BY <1>1
<1>5. Answers = {}
  BY <1>1, <1>2 DEF Answers
<1> QED
  BY <1>1, <1>2, <1>3, <1>4, <1>5 DEF XftpInv, ThreadsFit, AnswersFit, FileFits

\* A step that only moves answers on, or drops them.
LEMMA AnswersMove ==
    ASSUME XftpInv,
           UNCHANGED <<packets, thread, file>>,
           xwr' \in [pc : {"none", "loop", "lock", "wait", "send", "stop", "done"}, batch : Seq(Nat), stop : BOOLEAN],
           sched' \subseteq Positive, queue' \in Seq(Nat), flushed' \in Seq(Positive),
           Answers' \subseteq Answers \cup {0},
           Once(queue', Positive), Once(xwr'.batch, Positive), Once(flushed', Positive),
           \A p \in Positive :
              /\ p \in sched' => p \notin ToSet(queue') \cup ToSet(xwr'.batch) \cup ToSet(flushed')
              /\ p \in ToSet(queue') => p \notin ToSet(xwr'.batch) \cup ToSet(flushed')
              /\ p \in ToSet(xwr'.batch) => p \notin ToSet(flushed')
    PROVE  XftpInv'
<1>1. XftpTypeOK'
  BY DEF XftpInv, XftpTypeOK
<1>2. ThreadsFit' /\ FileFits'
  BY DEF XftpInv, ThreadsFit, FileFits, Thread
<1>3. Answers' \subseteq Nat
  <2>1. xwr'.batch \in Seq(Nat)
    OBVIOUS
  <2>2. ToSet(queue') \subseteq Nat /\ ToSet(xwr'.batch) \subseteq Nat /\ ToSet(flushed') \subseteq Nat
    BY <2>1 DEF ToSet, Positive
  <2> QED
    BY <2>2 DEF Answers, Positive
<1>4. \A p \in Answers' : p <= Len(packets) /\ \A t \in X!Threads : p # 0 => p \notin ToSet(thread[t])
  <2>1. Len(packets) \in Nat
    BY DEF XftpInv, XftpTypeOK
  <2> QED
    BY <2>1 DEF XftpInv, AnswersFit
<1>5. AnswersFit'
  BY <1>3, <1>4 DEF AnswersFit, Positive
<1> QED
  BY <1>1, <1>2, <1>5 DEF XftpInv

\* What AnswersFit says of the places one by one.
LEMMA AnswersFacts ==
    ASSUME XftpInv
    PROVE  /\ packets \in Seq([cmd : Handled \cup Unhandled, index : {0, 1}]) /\ Len(packets) \in Nat
           /\ xwr \in [pc : {"none", "loop", "lock", "wait", "send", "stop", "done"}, batch : Seq(Nat), stop : BOOLEAN]
           /\ queue \in Seq(Nat) /\ xwr.batch \in Seq(Nat) /\ flushed \in Seq(Positive) /\ sched \subseteq Positive
           /\ Once(queue, Positive) /\ Once(xwr.batch, Positive) /\ Once(flushed, Positive)
           /\ \A p \in Positive :
                 /\ p \in sched => p \notin ToSet(queue) \cup ToSet(xwr.batch) \cup ToSet(flushed)
                 /\ p \in ToSet(queue) => p \notin ToSet(xwr.batch) \cup ToSet(flushed)
                 /\ p \in ToSet(xwr.batch) => p \notin ToSet(flushed)
<1>1. XftpTypeOK /\ AnswersFit
  BY DEF XftpInv
<1>2. /\ packets \in Seq([cmd : Handled \cup Unhandled, index : {0, 1}]) /\ Len(packets) \in Nat
      /\ xwr \in [pc : {"none", "loop", "lock", "wait", "send", "stop", "done"}, batch : Seq(Nat), stop : BOOLEAN]
      /\ queue \in Seq(Nat) /\ xwr.batch \in Seq(Nat) /\ flushed \in Seq(Positive) /\ sched \subseteq Positive
  BY <1>1 DEF XftpTypeOK
<1>3. ASSUME NEW p \in Positive
      PROVE  /\ p \in sched => p \notin ToSet(queue) \cup ToSet(xwr.batch) \cup ToSet(flushed)
             /\ p \in ToSet(queue) => p \notin ToSet(xwr.batch) \cup ToSet(flushed)
             /\ p \in ToSet(xwr.batch) => p \notin ToSet(flushed)
  <2>1. p # 0
    BY DEF Positive
  <2> QED
    BY <1>1, <2>1 DEF AnswersFit, Answers
<1> QED
  BY <1>1, <1>2, <1>3 DEF AnswersFit

\* pushResponse() of the end mark, or of a packet whose callback runs.
LEMMA XftpPush ==
    ASSUME XftpInv, NEW p \in {0} \cup sched, X!pushResponse(p), sched' = sched \ {p},
           UNCHANGED <<packets, thread, file, flushed>>
    PROVE  XftpInv'
<1> DEFINE q == Append(queue, p)
<1>1. /\ queue' = q
      /\ xwr' = xwr \/ xwr' = [xwr EXCEPT !.pc = "lock"]
  BY DEF X!pushResponse
<1>2. p \in Nat /\ (p # 0 => p \in sched)
  BY AnswersFacts DEF Positive
<1>3. q \in Seq(Nat) /\ ToSet(q) = ToSet(queue) \cup {p} /\ Once(q, Positive)
  <2>1. queue \in Seq(Nat) /\ Once(queue, Positive) /\ (p \in Positive => p \notin ToSet(queue))
    BY <1>2, AnswersFacts DEF Positive
  <2> QED
    BY <1>2, <2>1, AppendSet, OnceAppend
<1> HIDE DEF q
<1>4. /\ xwr' \in [pc : {"none", "loop", "lock", "wait", "send", "stop", "done"}, batch : Seq(Nat), stop : BOOLEAN]
      /\ xwr'.batch = xwr.batch
  BY <1>1, AnswersFacts
<1>5. Answers' \subseteq Answers \cup {0}
  BY <1>1, <1>2, <1>3, <1>4 DEF Answers
<1>6. \A x \in Positive :
         /\ x \in sched' => x \notin ToSet(queue') \cup ToSet(xwr'.batch) \cup ToSet(flushed')
         /\ x \in ToSet(queue') => x \notin ToSet(xwr'.batch) \cup ToSet(flushed')
         /\ x \in ToSet(xwr'.batch) => x \notin ToSet(flushed')
  BY <1>1, <1>2, <1>3, <1>4, AnswersFacts DEF Positive
<1> QED
  BY <1>1, <1>3, <1>4, <1>5, <1>6, AnswersMove, AnswersFacts

\* Fibers that begin, wait or end move no answer.
LEMMA XftpQuiet ==
    ASSUME XftpInv, UNCHANGED <<queue, packets, thread, sched, file, flushed>>,
           xwr' \in [pc : {"none", "loop", "lock", "wait", "send", "stop", "done"}, batch : Seq(Nat), stop : BOOLEAN],
           xwr'.batch = xwr.batch
    PROVE  XftpInv'
<1>1. Answers' \subseteq Answers \cup {0}
  BY DEF Answers
<1> QED
  BY <1>1, AnswersMove, AnswersFacts

LEMMA XftpTakes ==
    ASSUME XftpInv, X!FlushTakes
    PROVE  XftpInv'
<1> DEFINE Writer == [pc : {"none", "loop", "lock", "wait", "send", "stop", "done"}, batch : Seq(Nat), stop : BOOLEAN]
<1>1. /\ xwr \in Writer /\ queue \in Seq(Nat)
      /\ UNCHANGED <<packets, thread, sched, file, flushed>>
      /\ \/ xwr' = [xwr EXCEPT !.pc = "stop"] /\ queue' = queue
         \/ xwr' = [xwr EXCEPT !.pc = "wait"] /\ queue' = queue
         \/ xwr' = [pc |-> "send", batch |-> queue, stop |-> FALSE] /\ queue' = <<>>
  BY AnswersFacts DEF X!FlushTakes
<1>2. CASE queue' = queue /\ (xwr' = [xwr EXCEPT !.pc = "stop"] \/ xwr' = [xwr EXCEPT !.pc = "wait"])
  <2>1. xwr' \in Writer /\ xwr'.batch = xwr.batch
    BY <1>1, <1>2
  <2> QED
    BY <1>1, <1>2, <2>1, XftpQuiet
<1>3. CASE xwr' = [pc |-> "send", batch |-> queue, stop |-> FALSE] /\ queue' = <<>>
  <2>1. xwr' \in Writer /\ xwr'.batch = queue
    BY <1>1, <1>3
  <2>2. ToSet(<<>>) = {} /\ Once(<<>>, Positive) /\ <<>> \in Seq(Nat)
    BY DEF ToSet, Once
  <2>3. Answers' \subseteq Answers \cup {0}
    BY <1>1, <1>3, <2>1, <2>2 DEF Answers
  <2>4. \A x \in Positive :
           /\ x \in sched' => x \notin ToSet(queue') \cup ToSet(xwr'.batch) \cup ToSet(flushed')
           /\ x \in ToSet(queue') => x \notin ToSet(xwr'.batch) \cup ToSet(flushed')
           /\ x \in ToSet(xwr'.batch) => x \notin ToSet(flushed')
    BY <1>1, <1>3, <2>1, <2>2, AnswersFacts
  <2> QED
    BY <1>1, <1>3, <2>1, <2>2, <2>3, <2>4, AnswersMove, AnswersFacts
<1> QED
  BY <1>1, <1>2, <1>3

LEMMA XftpSends ==
    ASSUME XftpInv, X!FlushSends
    PROVE  XftpInv'
<1> DEFINE Writer == [pc : {"none", "loop", "lock", "wait", "send", "stop", "done"}, batch : Seq(Nat), stop : BOOLEAN]
           b == Tail(xwr.batch)
           p == Head(xwr.batch)
<1>1. /\ xwr \in Writer /\ xwr.batch \in Seq(Nat)
      /\ UNCHANGED <<queue, packets, thread, sched, file>>
      /\ ToSet(<<>>) = {} /\ Once(<<>>, Positive) /\ <<>> \in Seq(Nat)
  BY AnswersFacts DEF X!FlushSends, ToSet, Once
<1>2. \/ /\ \E pc \in {"stop", "loop"} : xwr' = [xwr EXCEPT !.pc = pc]
         /\ flushed' = flushed
      \/ xwr' = [xwr EXCEPT !.pc = "stop", !.batch = <<>>] /\ flushed' = flushed
      \/ xwr.batch # <<>> /\ xwr' = [xwr EXCEPT !.batch = b, !.stop = TRUE] /\ flushed' = flushed
      \/ xwr.batch # <<>> /\ p # 0 /\ xwr' = [xwr EXCEPT !.batch = b] /\ flushed' = Append(flushed, p)
  BY DEF X!FlushSends
<1>3. xwr.batch # <<>> =>
         /\ p \in Nat /\ p \in ToSet(xwr.batch) /\ b \in Seq(Nat)
         /\ ToSet(b) \subseteq ToSet(xwr.batch)
         /\ Once(b, Positive) /\ (p \in Positive => p \notin ToSet(b))
  <2> DEFINE c == xwr.batch
  <2>1. c \in Seq(Nat) /\ Once(c, Positive)
    BY AnswersFacts
  <2> HIDE DEF c
  <2>2. c # <<>> =>
           /\ Head(c) \in Nat /\ Head(c) \in ToSet(c) /\ Tail(c) \in Seq(Nat)
           /\ ToSet(Tail(c)) \subseteq ToSet(c)
           /\ Once(Tail(c), Positive) /\ (Head(c) \in Positive => Head(c) \notin ToSet(Tail(c)))
    BY <2>1, OnceTail
  <2> QED
    BY <2>2 DEF c
<1> HIDE DEF b, p
<1>4. CASE /\ \E pc \in {"stop", "loop"} : xwr' = [xwr EXCEPT !.pc = pc]
           /\ flushed' = flushed
  <2>1. xwr' \in Writer /\ xwr'.batch = xwr.batch
    BY <1>1, <1>4
  <2> QED
    BY <1>1, <1>4, <2>1, XftpQuiet
\* dropped: all, or the end mark
<1>5. ASSUME NEW c \in Seq(Nat), xwr' \in Writer, xwr'.batch = c, flushed' = flushed,
             ToSet(c) \subseteq ToSet(xwr.batch), Once(c, Positive)
      PROVE  XftpInv'
  <2>1. Answers' \subseteq Answers \cup {0}
    BY <1>1, <1>5 DEF Answers
  <2>2. \A x \in Positive :
           /\ x \in sched' => x \notin ToSet(queue') \cup ToSet(xwr'.batch) \cup ToSet(flushed')
           /\ x \in ToSet(queue') => x \notin ToSet(xwr'.batch) \cup ToSet(flushed')
           /\ x \in ToSet(xwr'.batch) => x \notin ToSet(flushed')
    BY <1>1, <1>5, AnswersFacts
  <2> QED
    BY <1>1, <1>5, <2>1, <2>2, AnswersMove, AnswersFacts
<1>6. CASE xwr' = [xwr EXCEPT !.pc = "stop", !.batch = <<>>] /\ flushed' = flushed
  <2>1. xwr' \in Writer /\ xwr'.batch = <<>>
    BY <1>1, <1>6
  <2> QED
    BY <1>1, <1>5, <1>6, <2>1
<1>7. CASE xwr.batch # <<>> /\ xwr' = [xwr EXCEPT !.batch = b, !.stop = TRUE] /\ flushed' = flushed
  <2>1. xwr' \in Writer /\ xwr'.batch = b
    BY <1>1, <1>3, <1>7
  <2> QED
    BY <1>3, <1>5, <1>7, <2>1
<1>8. CASE xwr.batch # <<>> /\ p # 0 /\ xwr' = [xwr EXCEPT !.batch = b] /\ flushed' = Append(flushed, p)
  <2>1. xwr' \in Writer /\ xwr'.batch = b
    BY <1>1, <1>3, <1>8
  <2>2. p \in Positive
    BY <1>3, <1>8 DEF Positive
  <2>3. /\ flushed' \in Seq(Positive) /\ ToSet(flushed') = ToSet(flushed) \cup {p}
        /\ Once(flushed', Positive)
    <3>1. flushed \in Seq(Positive) /\ Once(flushed, Positive) /\ p \notin ToSet(flushed)
      BY <1>3, <1>8, <2>2, AnswersFacts
    <3> QED
      BY <1>8, <2>2, <3>1, AppendSet, OnceAppend
  <2>4. Answers' \subseteq Answers \cup {0}
    BY <1>1, <1>3, <1>8, <2>1, <2>3 DEF Answers
  <2>5. \A x \in Positive :
           /\ x \in sched' => x \notin ToSet(queue') \cup ToSet(xwr'.batch) \cup ToSet(flushed')
           /\ x \in ToSet(queue') => x \notin ToSet(xwr'.batch) \cup ToSet(flushed')
           /\ x \in ToSet(xwr'.batch) => x \notin ToSet(flushed')
    BY <1>1, <1>3, <1>8, <2>1, <2>2, <2>3, AnswersFacts
  <2> QED
    BY <1>1, <1>3, <1>8, <2>1, <2>3, <2>4, <2>5, AnswersMove, AnswersFacts
<1> QED
  BY <1>2, <1>4, <1>6, <1>7, <1>8

\* A packet is read, and given to its worker or to nobody.
LEMMA XftpReceives ==
    ASSUME XftpInv, X!RecvRequest
    PROVE  XftpInv'
<1> DEFINE n == Len(packets)
<1>1. XftpTypeOK /\ ThreadsFit /\ AnswersFit /\ FileFits
  BY DEF XftpInv
<1>2. PICK cmd \in Handled \cup Unhandled, index \in {0, 1} :
         /\ packets' = Append(packets, [cmd |-> cmd, index |-> index])
         /\ X!dispatch(n + 1, cmd, index)
  BY DEF X!RecvRequest
<1>3. UNCHANGED <<xwr, queue, sched, file, flushed>>
  BY DEF X!RecvRequest
<1> DEFINE t0 == index % ThreadNum
           e == [cmd |-> cmd, index |-> index]
<1>4. /\ packets \in Seq([cmd : Handled \cup Unhandled, index : {0, 1}]) /\ n \in Nat
      /\ e \in [cmd : Handled \cup Unhandled, index : {0, 1}]
  BY <1>1 DEF XftpTypeOK
<1> HIDE DEF e
<1>5. /\ packets' \in Seq([cmd : Handled \cup Unhandled, index : {0, 1}]) /\ Len(packets') = n + 1
      /\ packets'[n + 1] = e /\ \A k \in 1 .. n : packets'[k] = packets[k]
  BY <1>2, <1>4 DEF e
<1>6. /\ \A k \in 1 .. n : (packets'[k]).index % ThreadNum = Thread(k)
      /\ (packets'[n + 1]).index % ThreadNum = t0
  BY <1>5 DEF Thread, e
<1>7. t0 \in X!Threads
  <2>1. index \in Int /\ ThreadNum \in Int /\ ThreadNum > 0
    BY ServersAssumption
  <2>2. \A i, m \in Int : m > 0 => i % m \in 0 .. (m - 1)
    OBVIOUS
  <2>3. t0 \in 0 .. (ThreadNum - 1)
    BY <2>1, <2>2
  <2> QED
    BY <2>3 DEF X!Threads
<1> HIDE DEF t0
<1>8. \/ thread' = thread
      \/ thread' = [thread EXCEPT ![t0] = Append(@, n + 1)]
  BY <1>2 DEF X!dispatch, t0
<1>9. /\ thread' \in [X!Threads -> Seq(Positive)]
      /\ \A t \in X!Threads : thread'[t] = thread[t] \/ (t = t0 /\ thread'[t] = Append(thread[t], n + 1))
  <2>1. n + 1 \in Positive /\ thread \in [X!Threads -> Seq(Positive)]
    BY <1>1, <1>4 DEF XftpTypeOK, Positive
  <2> HIDE DEF n
  <2>2. CASE thread' = thread
    BY <2>1, <2>2
  <2>3. CASE thread' = [thread EXCEPT ![t0] = Append(@, n + 1)]
    <3>1. Append(thread[t0], n + 1) \in Seq(Positive)
      BY <2>1, <1>7
    <3> QED
      BY <2>1, <2>3, <3>1, <1>7
  <2> QED
    BY <1>8, <2>2, <2>3
<1>10. /\ \A t \in X!Threads : \A k \in 1 .. Len(thread[t]) :
             thread[t][k] \in 1 .. n /\ Thread(thread[t][k]) = t
       /\ \A t \in X!Threads : thread[t] \in Seq(Positive)
  BY <1>1, <1>4 DEF ThreadsFit, XftpTypeOK, Positive
\* the new packet is behind all that wait for its thread
<1>11. ASSUME NEW t \in X!Threads, NEW k \in 1 .. Len(thread'[t])
       PROVE  \/ k \in 1 .. Len(thread[t]) /\ thread'[t][k] = thread[t][k]
              \/ k = Len(thread[t]) + 1 /\ thread'[t][k] = n + 1 /\ t = t0
  BY <1>9, <1>10
<1> HIDE DEF n
<1>12. XftpTypeOK'
  BY <1>1, <1>3, <1>5, <1>9 DEF XftpTypeOK
<1>13. ThreadsFit'
  <2> SUFFICES ASSUME NEW t \in X!Threads
               PROVE  /\ \A k \in 1 .. Len(thread'[t]) :
                            thread'[t][k] <= n + 1 /\ (packets'[thread'[t][k]]).index % ThreadNum = t
                      /\ \A j, k \in 1 .. Len(thread'[t]) : j < k => thread'[t][j] < thread'[t][k]
    BY <1>5 DEF ThreadsFit, Thread
  <2>1. ASSUME NEW k \in 1 .. Len(thread'[t])
        PROVE  thread'[t][k] <= n + 1 /\ (packets'[thread'[t][k]]).index % ThreadNum = t
    <3>1. CASE k \in 1 .. Len(thread[t]) /\ thread'[t][k] = thread[t][k]
      BY <3>1, <1>4, <1>6, <1>10
    <3>2. CASE thread'[t][k] = n + 1 /\ t = t0
      BY <3>2, <1>4, <1>6
    <3> QED
      BY <1>11, <3>1, <3>2
  <2>2. ASSUME NEW j \in 1 .. Len(thread'[t]), NEW k \in 1 .. Len(thread'[t]), j < k
        PROVE  thread'[t][j] < thread'[t][k]
    <3>1. Len(thread[t]) \in Nat /\ Len(thread'[t]) \in Nat
      BY <1>9, <1>10
    <3>2. CASE k \in 1 .. Len(thread[t]) /\ thread'[t][k] = thread[t][k]
      <4>1. j \in 1 .. Len(thread[t])
        BY <2>2, <3>1, <3>2
      <4>2. thread'[t][j] = thread[t][j]
        BY <1>11, <3>1, <4>1
      <4> QED
        BY <1>1, <2>2, <3>2, <4>1, <4>2 DEF ThreadsFit
    <3>3. CASE k = Len(thread[t]) + 1 /\ thread'[t][k] = n + 1
      <4>1. j \in 1 .. Len(thread[t])
        BY <2>2, <3>1, <3>3
      <4>2. thread'[t][j] = thread[t][j]
        BY <1>11, <3>1, <4>1
      <4> QED
        BY <1>4, <1>10, <3>3, <4>1, <4>2
    <3> QED
      BY <1>11, <3>2, <3>3
  <2> QED
    BY <2>1, <2>2
<1>14. AnswersFit'
  <2>1. Answers' = Answers
    BY <1>3 DEF Answers
  <2>2. Answers \subseteq Nat
    <3>1. ToSet(queue) \subseteq Nat /\ ToSet(xwr.batch) \subseteq Nat /\ ToSet(flushed) \subseteq Nat /\ sched \subseteq Nat
      BY AnswersFacts DEF ToSet, Positive
    <3> QED
      BY <3>1 DEF Answers
  <2>3. ASSUME NEW p \in Answers
        PROVE  p <= n + 1 /\ \A t \in X!Threads : p # 0 => p \notin ToSet(thread'[t])
    <3>1. p <= n /\ p \in Nat
      BY <1>1, <2>2 DEF AnswersFit, n
    <3>2. ASSUME NEW t \in X!Threads, p # 0, p \in ToSet(thread'[t]) PROVE FALSE
      <4>1. PICK k \in 1 .. Len(thread'[t]) : thread'[t][k] = p
        BY <3>2, <1>9 DEF ToSet
      <4>2. k \in 1 .. Len(thread[t]) /\ thread[t][k] = p
        BY <1>4, <1>11, <3>1, <4>1
      <4>3. p \in ToSet(thread[t])
        BY <4>2, <1>10 DEF ToSet
      <4> QED
        BY <1>1, <3>2, <4>3 DEF AnswersFit
    <3> QED
      BY <1>4, <3>1, <3>2
  <2> QED
    BY <1>1, <1>3, <1>5, <2>1, <2>3 DEF AnswersFit
<1>15. FileFits'
  <2>1. file \in Seq(Positive) /\ \A j \in 1 .. Len(file) : file[j] \in 1 .. n
    BY <1>1, <1>4 DEF FileFits, XftpTypeOK, Positive, n
  <2>2. \A j \in 1 .. Len(file) : (packets'[file[j]]).index % ThreadNum = Thread(file[j])
    BY <1>6, <2>1
  <2>3. ASSUME NEW j \in 1 .. Len(file), NEW t \in X!Threads, Thread(file[j]) = t, NEW k \in 1 .. Len(thread'[t])
        PROVE  file[j] < thread'[t][k]
    <3>1. CASE k \in 1 .. Len(thread[t]) /\ thread'[t][k] = thread[t][k]
      BY <3>1, <2>3, <1>1 DEF FileFits
    <3>2. CASE thread'[t][k] = n + 1
      BY <3>2, <2>1, <1>4
    <3> QED
      BY <1>11, <3>1, <3>2
  <2>4. \A j, k \in 1 .. Len(file) : j < k /\ Thread(file[j]) = Thread(file[k]) => file[j] < file[k]
    BY <1>1 DEF FileFits
  <2>5. \A j \in 1 .. Len(file) : file[j] <= n + 1
    BY <2>1, <1>4
  <2> QED
    BY <1>3, <1>5, <2>2, <2>3, <2>4, <2>5 DEF FileFits, Thread
<1> QED
  BY <1>12, <1>13, <1>14, <1>15 DEF XftpInv

\* A worker handles the oldest packet of its queue, writes it to the file or not, and
\* schedules the answer while the session lives.
LEMMA XftpHandles ==
    ASSUME XftpInv, NEW t0 \in X!Threads, X!handleTest(t0)
    PROVE  XftpInv'
<1> DEFINE q == thread[t0]
           p == Head(thread[t0])
<1>1. XftpTypeOK /\ ThreadsFit /\ AnswersFit /\ FileFits
  BY DEF XftpInv
<1>2. /\ q # <<>>
      /\ file' \in {<<p>>, Append(file, p), file}
      /\ sched' \in {sched, sched \cup {p}}
      /\ thread' = [thread EXCEPT ![t0] = Tail(q)]
      /\ UNCHANGED <<xwr, queue, packets, flushed>>
  BY DEF X!handleTest
<1>3. q \in Seq(Positive) /\ Len(packets) \in Nat
  BY <1>1 DEF XftpTypeOK
<1>4. /\ p = q[1] /\ 1 \in 1 .. Len(q) /\ p \in Positive
      /\ Tail(q) \in Seq(Positive) /\ Len(Tail(q)) = Len(q) - 1 /\ Len(q) \in Nat
      /\ \A k \in 1 .. (Len(q) - 1) : k + 1 \in 1 .. Len(q) /\ k + 1 > 1 /\ Tail(q)[k] = q[k + 1]
  BY <1>2, <1>3
<1>5. /\ p <= Len(packets) /\ Thread(p) = t0 /\ p \in ToSet(q)
      /\ \A k \in 1 .. Len(Tail(q)) : p < Tail(q)[k]
  <2>1. /\ \A k \in 1 .. Len(q) : q[k] <= Len(packets) /\ Thread(q[k]) = t0
        /\ \A j, k \in 1 .. Len(q) : j < k => q[j] < q[k]
    BY <1>1 DEF ThreadsFit
  <2>2. p \in ToSet(q)
    BY <1>3, <1>4 DEF ToSet
  <2> HIDE DEF p, q
  <2> QED
    BY <1>4, <2>1, <2>2
<1>6. /\ thread' \in [X!Threads -> Seq(Positive)]
      /\ thread'[t0] = Tail(q) /\ \A t \in X!Threads : t # t0 => thread'[t] = thread[t]
  BY <1>1, <1>2, <1>4 DEF XftpTypeOK
<1>7. \A t \in X!Threads : \A k \in 1 .. Len(thread'[t]) : \E j \in 1 .. Len(thread[t]) : thread'[t][k] = thread[t][j]
  <2> SUFFICES ASSUME NEW t \in X!Threads, NEW k \in 1 .. Len(thread'[t])
               PROVE  \E j \in 1 .. Len(thread[t]) : thread'[t][k] = thread[t][j]
    OBVIOUS
  <2>1. CASE t = t0
    <3>1. k \in 1 .. (Len(q) - 1)
      BY <1>4, <1>6, <2>1
    <3>2. k + 1 \in 1 .. Len(thread[t]) /\ thread'[t][k] = thread[t][k + 1]
      BY <1>4, <1>6, <2>1, <3>1
    <3> QED
      BY <3>2
  <2>2. CASE t # t0
    BY <1>6, <2>2
  <2> QED
    BY <2>1, <2>2
<1>8. XftpTypeOK'
  <2>1. file' \in Seq(Positive) /\ sched' \subseteq Positive
    <3>1. file \in Seq(Positive) /\ sched \subseteq Positive
      BY <1>1 DEF XftpTypeOK
    <3> HIDE DEF p
    <3>2. <<p>> \in Seq(Positive) /\ Append(file, p) \in Seq(Positive)
      BY <1>4, <3>1
    <3> QED
      BY <1>2, <1>4, <3>1, <3>2
  <2> QED
    BY <1>1, <1>2, <1>6, <2>1 DEF XftpTypeOK
<1>9. ThreadsFit'
  <2> SUFFICES ASSUME NEW t \in X!Threads
               PROVE  /\ \A k \in 1 .. Len(thread'[t]) : thread'[t][k] <= Len(packets) /\ Thread(thread'[t][k]) = t
                      /\ \A j, k \in 1 .. Len(thread'[t]) : j < k => thread'[t][j] < thread'[t][k]
    BY <1>2 DEF ThreadsFit, Thread
  <2>1. \A k \in 1 .. Len(thread'[t]) : thread'[t][k] <= Len(packets) /\ Thread(thread'[t][k]) = t
    BY <1>1, <1>7 DEF ThreadsFit
  <2>2. CASE t = t0
    <3>1. \A j, k \in 1 .. Len(q) : j < k => q[j] < q[k]
      BY <1>1 DEF ThreadsFit
    <3>2. ASSUME NEW j \in 1 .. Len(Tail(q)), NEW k \in 1 .. Len(Tail(q)), j < k
          PROVE  Tail(q)[j] < Tail(q)[k]
      <4> HIDE DEF q
      <4>1. j + 1 < k + 1 /\ j \in 1 .. (Len(q) - 1) /\ k \in 1 .. (Len(q) - 1)
        BY <1>4, <3>2
      <4> QED
        BY <1>4, <3>1, <4>1
    <3> QED
      BY <1>6, <2>1, <2>2, <3>2
  <2>3. CASE t # t0
    BY <1>1, <1>6, <2>1, <2>3 DEF ThreadsFit
  <2> QED
    BY <2>2, <2>3
<1>10. p \notin Answers /\ \A t \in X!Threads : p \notin ToSet(thread'[t])
  <2>1. p \notin Answers
    BY <1>1, <1>4, <1>5 DEF AnswersFit, Positive
  <2>2. ASSUME NEW t \in X!Threads, p \in ToSet(thread'[t]) PROVE FALSE
    <3>1. PICK k \in 1 .. Len(thread'[t]) : thread'[t][k] = p
      <4>1. thread'[t] \in Seq(Positive)
        BY <1>6
      <4>2. DOMAIN (thread'[t]) = 1 .. Len(thread'[t])
        BY <4>1
      <4> HIDE DEF p
      <4> QED
        BY <2>2, <4>2 DEF ToSet
    <3>2. CASE t = t0
      <4>1. k \in 1 .. Len(Tail(q)) /\ Tail(q)[k] = p
        BY <1>6, <3>1, <3>2
      <4>2. p < p
        BY <1>5, <4>1
      <4> QED
        BY <1>4, <4>2 DEF Positive
    <3>3. CASE t # t0
      BY <1>1, <1>5, <1>6, <3>1, <3>3 DEF ThreadsFit
    <3> QED
      BY <3>2, <3>3
  <2> QED
    BY <2>1, <2>2
<1>11. \A t \in X!Threads : ToSet(thread'[t]) \subseteq ToSet(thread[t])
  <2> TAKE t \in X!Threads
  <2>1. thread'[t] \in Seq(Positive) /\ thread[t] \in Seq(Positive)
    BY <1>1, <1>6 DEF XftpTypeOK
  <2>2. DOMAIN (thread'[t]) = 1 .. Len(thread'[t]) /\ DOMAIN (thread[t]) = 1 .. Len(thread[t])
    BY <2>1
  <2>3. \A k \in 1 .. Len(thread'[t]) : \E j \in 1 .. Len(thread[t]) : thread'[t][k] = thread[t][j]
    BY <1>7
  <2> QED
    BY <2>2, <2>3 DEF ToSet
<1> HIDE DEF p, q
<1>12. AnswersFit'
  <2>1. Answers' \subseteq Answers \cup {p} /\ Answers \subseteq Answers'
    BY <1>2 DEF Answers
  <2>2. \A x \in Answers' : x <= Len(packets) /\ \A t \in X!Threads : x # 0 => x \notin ToSet(thread'[t])
    BY <1>1, <1>5, <1>10, <1>11, <2>1 DEF AnswersFit
  <2>3. ASSUME NEW x \in Answers' \ {0}
        PROVE  /\ x \in sched' => x \notin ToSet(queue) \cup ToSet(xwr.batch) \cup ToSet(flushed)
               /\ x \in ToSet(queue) => x \notin ToSet(xwr.batch) \cup ToSet(flushed)
               /\ x \in ToSet(xwr.batch) => x \notin ToSet(flushed)
    <3>1. CASE x = p
      <4>1. x \notin ToSet(queue) \cup ToSet(xwr.batch) \cup ToSet(flushed)
        BY <1>10, <3>1 DEF Answers
      <4> QED
        BY <4>1
    <3>2. CASE x # p
      <4>1. x \in Answers \ {0} /\ (x \in sched' => x \in sched)
        BY <1>2, <2>1, <2>3, <3>2
      <4> QED
        BY <1>1, <4>1 DEF AnswersFit
    <3> QED
      BY <3>1, <3>2
  <2> QED
    BY <1>1, <1>2, <2>2, <2>3 DEF AnswersFit
<1>13. FileFits'
  <2>0. /\ file \in Seq(Positive) /\ Len(file) \in Nat /\ \A j \in 1 .. Len(file) : file[j] \in Positive
        /\ \A j \in 1 .. Len(file) : /\ file[j] <= Len(packets)
                                     /\ \A t \in X!Threads : Thread(file[j]) = t => \A k \in 1 .. Len(thread[t]) : file[j] < thread[t][k]
        /\ \A j, k \in 1 .. Len(file) : j < k /\ Thread(file[j]) = Thread(file[k]) => file[j] < file[k]
    BY <1>1 DEF XftpTypeOK, FileFits
  \* what is in the file is older than what waits
  <2>1. ASSUME NEW x \in Positive, NEW t \in X!Threads, Thread(x) = t, NEW k \in 1 .. Len(thread'[t]),
               x = p \/ \E j \in 1 .. Len(file) : x = file[j]
        PROVE  x < thread'[t][k]
    <3>1. CASE x = p
      BY <1>5, <1>6, <2>1, <3>1
    <3>2. CASE \E j \in 1 .. Len(file) : x = file[j]
      BY <1>7, <2>0, <2>1, <3>2
    <3> QED
      BY <2>1, <3>1, <3>2
  <2>2. \A j \in 1 .. Len(file) : Thread(file[j]) = t0 => file[j] < p
    BY <2>0, <1>4 DEF q
  <2>3. ASSUME NEW f \in Seq(Positive), file' = f,
               \A j \in 1 .. Len(f) : f[j] = p \/ \E i \in 1 .. Len(file) : f[j] = file[i],
               \A j, k \in 1 .. Len(f) : j < k /\ Thread(f[j]) = Thread(f[k]) => f[j] < f[k]
        PROVE  FileFits'
    <3>1. \A j \in 1 .. Len(f) : f[j] \in Positive
      BY <2>3
    <3>2. \A j \in 1 .. Len(f) : f[j] <= Len(packets)
      BY <2>0, <2>3, <1>5
    <3>3. \A j \in 1 .. Len(f) : \A t \in X!Threads : Thread(f[j]) = t => \A k \in 1 .. Len(thread'[t]) : f[j] < thread'[t][k]
      BY <2>1, <2>3, <3>1
    <3> QED
      BY <1>2, <2>3, <3>2, <3>3 DEF FileFits, Thread
  <2>4. CASE file' = <<p>>
    <3> DEFINE f == <<p>>
    <3>1. f \in Seq(Positive) /\ Len(f) = 1 /\ f[1] = p
      BY <1>4
    <3> HIDE DEF f
    <3>2. /\ \A j \in 1 .. Len(f) : f[j] = p
          /\ \A j, k \in 1 .. Len(f) : ~(j < k)
      BY <3>1
    <3> QED
      BY <2>3, <2>4, <3>1, <3>2 DEF f
  <2>5. CASE file' = Append(file, p)
    <3> DEFINE f == Append(file, p)
    <3>1. /\ f \in Seq(Positive) /\ Len(f) = Len(file) + 1 /\ f[Len(file) + 1] = p
          /\ \A j \in 1 .. Len(file) : f[j] = file[j]
      BY <1>4, <2>0
    <3> HIDE DEF f
    <3>2. \A j \in 1 .. Len(f) : j \in 1 .. Len(file) \/ j = Len(file) + 1
      BY <2>0, <3>1
    <3>3. \A j \in 1 .. Len(f) : f[j] = p \/ \E i \in 1 .. Len(file) : f[j] = file[i]
      BY <3>1, <3>2
    <3>4. ASSUME NEW j \in 1 .. Len(f), NEW k \in 1 .. Len(f), j < k, Thread(f[j]) = Thread(f[k])
          PROVE  f[j] < f[k]
      <4>1. j \in 1 .. Len(file)
        BY <2>0, <3>1, <3>4
      <4>2. CASE k \in 1 .. Len(file)
        BY <2>0, <3>1, <3>4, <4>1, <4>2
      <4>3. CASE k = Len(file) + 1
        <5>1. f[k] = p /\ f[j] = file[j]
          BY <3>1, <4>1, <4>3
        <5>2. Thread(file[j]) = t0
          BY <1>5, <3>4, <5>1
        <5> QED
          BY <2>2, <4>1, <5>1, <5>2
      <4> QED
        BY <3>2, <4>2, <4>3
    <3> QED
      BY <2>3, <2>5, <3>1, <3>3, <3>4 DEF f
  <2>6. CASE file' = file
    BY <2>0, <2>3, <2>6
  <2> QED
    BY <1>2, <2>4, <2>5, <2>6
<1> QED
  BY <1>8, <1>9, <1>12, <1>13 DEF XftpInv

LEMMA XftpInvNext == XftpPartInv /\ [Next]_vars => XftpPartInv'
<1> SUFFICES ASSUME XftpInv, X!XftpNext \/ UNCHANGED xftpVars
             PROVE  XftpInv'
  BY XftpFrame DEF XftpPartInv
<1> DEFINE Writer == [pc : {"none", "loop", "lock", "wait", "send", "stop", "done"}, batch : Seq(Nat), stop : BOOLEAN]
<1>0. xwr \in Writer
  BY AnswersFacts
<1>1. ASSUME UNCHANGED <<queue, packets, thread, sched, file, flushed>>,
             xwr' = xwr \/ \E pc \in {"loop", "done"} : xwr' = [xwr EXCEPT !.pc = pc]
      PROVE  XftpInv'
  <2>1. xwr' \in Writer /\ xwr'.batch = xwr.batch
    BY <1>0, <1>1
  <2> QED
    BY <1>1, <2>1, XftpQuiet
<1>2. CASE UNCHANGED xftpVars
  BY <1>1, <1>2 DEF xftpVars
<1>3. CASE X!startWriter \/ X!ReaderCloses \/ X!RecvFails \/ X!FlushEnds
  BY <1>1, <1>3 DEF X!startWriter, X!ReaderCloses, X!RecvFails, X!FlushEnds
<1>4. CASE X!PushEnd
  <2>1. X!pushResponse(0) /\ UNCHANGED <<packets, thread, sched, file, flushed>>
    BY <1>4 DEF X!PushEnd
  <2>2. sched' = sched \ {0}
    BY <2>1, AnswersFacts DEF Positive
  <2> QED
    BY <2>1, <2>2, XftpPush
<1>5. CASE X!Respond
  BY <1>5, XftpPush DEF X!Respond
<1>6. CASE X!RecvRequest
  BY <1>6, XftpReceives
<1>7. CASE X!FlushTakes
  BY <1>7, XftpTakes
<1>8. CASE X!FlushSends
  BY <1>8, XftpSends
<1>9. ASSUME NEW t \in X!Threads, X!handleTest(t)
      PROVE  XftpInv'
  BY <1>9, XftpHandles
<1> QED
  BY <1>2, <1>3, <1>4, <1>5, <1>6, <1>7, <1>8, <1>9 DEF X!XftpNext, X!XftpReader, X!XftpWriter

LEMMA XftpAnsweredOnce == XftpPartInv => (which = "xftp" => X!AnsweredOnce)
<1> SUFFICES ASSUME XftpInv PROVE X!AnsweredOnce
  BY DEF XftpPartInv
<1>1. XftpTypeOK /\ AnswersFit /\ FileFits
  BY DEF XftpInv
<1>2. {flushed[k] : k \in 1 .. Len(flushed)} = ToSet(flushed) /\ ToSet(flushed) \subseteq Positive
  <2>1. flushed \in Seq(Positive)
    BY <1>1 DEF XftpTypeOK
  <2>2. DOMAIN flushed = 1 .. Len(flushed) /\ \A k \in 1 .. Len(flushed) : flushed[k] \in Positive
    BY <2>1
  <2> QED
    BY <2>2 DEF ToSet
<1>3. \A i, j \in 1 .. Len(flushed) : flushed[i] = flushed[j] => i = j
  BY <1>1 DEF XftpTypeOK, AnswersFit, Once
<1>4. ASSUME NEW t \in X!Threads, NEW i \in 1 .. Len(thread[t])
      PROVE  thread[t][i] \notin ToSet(flushed)
  <2>1. thread[t][i] \in ToSet(thread[t])
    BY <1>1 DEF XftpTypeOK, ToSet
  <2> QED
    BY <1>1, <1>2, <2>1 DEF AnswersFit, Answers, Positive
<1>5. \A i, j \in 1 .. Len(file) : i < j /\ packets[file[i]].index = packets[file[j]].index => file[i] < file[j]
  BY <1>1 DEF FileFits, Thread
<1> QED
  BY <1>2, <1>3, <1>4, <1>5 DEF X!AnsweredOnce

-----------------------------------------------------------------------------
(***************************************************************************)
(* RockWire.  What is on its way is the units of the messages that the     *)
(* receiver does not have, one after the other: what it has read of the    *)
(* next one, what is in the kernel, and what the sender has still to write *)
(* (or would have, had its connection not failed).                         *)
(***************************************************************************)

\* q is the sequences us[n], us[n + 1], ... one after the other; us[i] begins behind at[i].
SplitAt(us, q, n, at) ==
    /\ at \in [n .. (Len(us) + 1) -> Nat]
    /\ at[n] = 0 /\ at[Len(us) + 1] = Len(q)
    /\ \A i, j \in n .. (Len(us) + 1) : i <= j => at[i] <= at[j]
    /\ \A i \in n .. Len(us) : /\ at[i + 1] = at[i] + Len(us[i])
                               /\ \A k \in 1 .. Len(us[i]) : q[at[i] + k] = us[i][k]
Stream(us, q, n) == \E at : SplitAt(us, q, n, at)

LEMMA StreamEmpty ==
    ASSUME NEW C, NEW us \in Seq(Seq(C))
    PROVE  Stream(us, <<>>, Len(us) + 1)
<1> DEFINE at == [i \in (Len(us) + 1) .. (Len(us) + 1) |-> 0]
<1>1. Len(us) \in Nat /\ Len(<<>>) = 0
  OBVIOUS
<1>2. SplitAt(us, <<>>, Len(us) + 1, at)
  BY <1>1 DEF SplitAt
<1> QED
  BY <1>2 DEF Stream

\* A stream that is not empty begins with the first of its sequences, whole.
LEMMA StreamFirst ==
    ASSUME NEW C, NEW us \in Seq(Seq(C)), NEW q \in Seq(C), NEW n \in 1 .. (Len(us) + 1),
           Stream(us, q, n), q # <<>>
    PROVE  /\ n <= Len(us) /\ us[n] \in Seq(C) /\ Len(us[n]) <= Len(q)
           /\ \A k \in 1 .. Len(us[n]) : q[k] = us[n][k]
           /\ Len(us[n]) < Len(q) => n < Len(us)
<1>1. PICK at : SplitAt(us, q, n, at)
  BY DEF Stream
<1>2. Len(us) \in Nat /\ n \in Nat /\ Len(q) \in Nat \ {0}
  OBVIOUS
<1>3. n <= Len(us)
  <2> SUFFICES ASSUME n = Len(us) + 1 PROVE FALSE
    BY <1>2
  <2>1. at[n] = 0 /\ at[n] = Len(q)
    BY <1>1 DEF SplitAt
  <2> QED
    BY <1>2, <2>1
<1>4. us[n] \in Seq(C) /\ Len(us[n]) \in Nat
  BY <1>2, <1>3
<1>5. /\ at[n + 1] = Len(us[n]) /\ \A k \in 1 .. Len(us[n]) : q[0 + k] = us[n][k]
      /\ at[n + 1] <= Len(q)
      /\ n = Len(us) => at[n + 1] = Len(q)
  <2>1. n \in n .. Len(us) /\ n + 1 \in n .. (Len(us) + 1) /\ Len(us) + 1 \in n .. (Len(us) + 1) /\ n + 1 <= Len(us) + 1
    BY <1>2, <1>3
  <2>2. /\ at[n + 1] = 0 + Len(us[n]) /\ \A k \in 1 .. Len(us[n]) : q[0 + k] = us[n][k]
        /\ at[n + 1] <= at[Len(us) + 1] /\ at[Len(us) + 1] = Len(q)
    BY <1>1, <2>1 DEF SplitAt
  <2> QED
    BY <1>4, <2>2
<1> QED
  BY <1>2, <1>3, <1>4, <1>5

\* Without its first sequence it is a stream still.
LEMMA StreamRest ==
    ASSUME NEW C, NEW us \in Seq(Seq(C)), NEW q \in Seq(C), NEW n \in 1 .. Len(us),
           Stream(us, q, n), NEW s \in Seq(C), Len(q) = Len(us[n]) + Len(s),
           \A k \in 1 .. Len(s) : s[k] = q[Len(us[n]) + k]
    PROVE  Stream(us, s, n + 1)
<1>1. PICK at : SplitAt(us, q, n, at)
  BY DEF Stream
<1> DEFINE d == Len(us[n])
           N == Len(us)
           to == [i \in (n + 1) .. (N + 1) |-> at[i] - d]
<1>2. N \in Nat /\ n \in Nat /\ 1 <= n /\ n <= N /\ Len(q) \in Nat /\ Len(s) \in Nat
  OBVIOUS
<1>3. \A i \in 1 .. N : Len(us[i]) \in Nat
  <2> TAKE i \in 1 .. N
  <2>1. us[i] \in Seq(C)
    OBVIOUS
  <2> QED
    BY <2>1
<1>4. /\ at \in [n .. (N + 1) -> Nat]
      /\ at[n] = 0 /\ at[N + 1] = Len(q)
      /\ \A i, j \in n .. (N + 1) : i <= j => at[i] <= at[j]
      /\ \A i \in n .. N : /\ at[i + 1] = at[i] + Len(us[i])
                           /\ \A k \in 1 .. Len(us[i]) : q[at[i] + k] = us[i][k]
  BY <1>1 DEF SplitAt
<1>5. Len(q) = d + Len(s) /\ d \in Nat
  BY <1>2, <1>3
<1> HIDE DEF N
<1>6. /\ at[n + 1] = d /\ d \in Nat
      /\ \A i \in (n + 1) .. (N + 1) : at[i] \in Nat /\ at[i] >= d
  <2>1. n \in n .. N /\ n + 1 \in n .. (N + 1) /\ \A i \in (n + 1) .. (N + 1) : i \in n .. (N + 1) /\ n + 1 <= i
    BY <1>2
  <2>2. at[n + 1] = 0 + d
    BY <1>4, <2>1
  <2>3. at[n + 1] = d
    BY <2>2, <1>5
  <2> HIDE DEF d
  <2>4. \A i \in (n + 1) .. (N + 1) : at[i] \in Nat /\ at[n + 1] <= at[i]
    BY <1>4, <2>1
  <2> QED
    BY <1>5, <2>3, <2>4
<1> HIDE DEF d
<1>7. to \in [(n + 1) .. (N + 1) -> Nat]
  BY <1>6
<1>8. \A i \in (n + 1) .. (N + 1) : to[i] = at[i] - d
  OBVIOUS
<1> HIDE DEF to
<1>9. \A i \in (n + 1) .. (N + 1) : i \in n .. (N + 1)
  BY ONLY <1>2
<1>10. n + 1 \in (n + 1) .. (N + 1) /\ N + 1 \in (n + 1) .. (N + 1)
  BY ONLY <1>2
<1>11. to[n + 1] = 0 /\ to[N + 1] = Len(s)
  <2>1. to[n + 1] = d - d /\ to[N + 1] = Len(q) - d
    BY <1>6, <1>4, <1>8, <1>10
  <2> QED
    BY ONLY <1>2, <1>5, <2>1
<1>12. \A i, j \in (n + 1) .. (N + 1) : i <= j => to[i] <= to[j]
  <2> SUFFICES ASSUME NEW i \in (n + 1) .. (N + 1), NEW j \in (n + 1) .. (N + 1), i <= j
               PROVE  to[i] <= to[j]
    OBVIOUS
  <2>1. at[i] <= at[j] /\ at[i] \in Nat /\ at[j] \in Nat
    BY <1>6, <1>4, <1>9
  <2>2. to[i] = at[i] - d /\ to[j] = at[j] - d
    BY <1>8
  <2> QED
    BY ONLY <1>5, <2>1, <2>2
<1>13. ASSUME NEW i \in (n + 1) .. N
      PROVE  to[i + 1] = to[i] + Len(us[i]) /\ \A k \in 1 .. Len(us[i]) : s[to[i] + k] = us[i][k]
  <2>1. i \in n .. N /\ i \in n .. (N + 1) /\ i + 1 \in n .. (N + 1) /\ i \in (n + 1) .. (N + 1) /\ i + 1 \in (n + 1) .. (N + 1)
        /\ i \in 1 .. N /\ N + 1 \in n .. (N + 1) /\ i + 1 <= N + 1
    BY <1>2
  <2>10. Len(us[i]) \in Nat
    BY <1>2, <1>3, <2>1
  <2>2. /\ at[i + 1] = at[i] + Len(us[i]) /\ \A k \in 1 .. Len(us[i]) : q[at[i] + k] = us[i][k]
        /\ at[i + 1] <= at[N + 1] /\ at[N + 1] = d + Len(s)
    BY <1>4, <1>5, <2>1
  <2>5. /\ at[i] \in Nat /\ at[i] >= d /\ at[i + 1] \in Nat /\ at[i + 1] >= d
        /\ to[i] = at[i] - d /\ to[i + 1] = at[i + 1] - d
    BY <1>6, <1>8, <2>1
  <2>6. at[i + 1] = at[i] + Len(us[i]) /\ at[i + 1] <= d + Len(s)
    BY <2>2
  <2>3. to[i + 1] = to[i] + Len(us[i])
    <3> DEFINE l == Len(us[i])
    <3>1. at[i + 1] = at[i] + l /\ l \in Nat
      BY ONLY <2>6, <2>10
    <3> HIDE DEF l
    <3>2. to[i + 1] = to[i] + l
      BY ONLY <1>5, <2>5, <3>1
    <3> QED
      BY ONLY <3>2 DEF l
  <2>4. ASSUME NEW k \in 1 .. Len(us[i])
        PROVE  s[to[i] + k] = us[i][k]
    <3>1. to[i] + k \in 1 .. Len(s) /\ d + (to[i] + k) = at[i] + k
      <4>1. k \in 1 .. Len(us[i])
        OBVIOUS
      <4> QED
        <5> DEFINE l == Len(us[i])
               e == Len(s)
        <5>1. k \in 1 .. l /\ l \in Nat /\ at[i + 1] = at[i] + l
          BY ONLY <4>1, <2>6, <2>10
        <5>2. at[i + 1] <= d + e /\ e \in Nat /\ d \in Nat
          BY ONLY <2>6, <1>2, <1>5
        <5> HIDE DEF l, e
        <5>3. to[i] + k \in 1 .. e /\ d + (to[i] + k) = at[i] + k
          <6> DEFINE a == at[i]
                     b == at[i + 1]
                     t == to[i]
          <6>1. /\ a \in Nat /\ a >= d /\ t = a - d /\ b = a + l /\ b <= d + e
                /\ k \in 1 .. l /\ l \in Nat /\ e \in Nat /\ d \in Nat
            BY ONLY <2>5, <5>1, <5>2
          <6> HIDE DEF a, b, t
          <6>2. t \in Int /\ k \in Nat /\ t >= 0 /\ k >= 1
            BY ONLY <6>1
          <6>3. t + k \in Nat /\ t + k >= 1 /\ t + k <= e /\ d + (t + k) = a + k
            BY ONLY <6>1, <6>2
          <6>4. t + k \in 1 .. e
            BY ONLY <6>3, <6>1
          <6> QED
            BY ONLY <6>3, <6>4 DEF a, t
        <5> QED
          BY ONLY <5>3 DEF e
    <3>2. s[to[i] + k] = q[d + (to[i] + k)]
      BY <3>1 DEF d
    <3> QED
      BY <2>2, <3>1, <3>2
  <2> QED
    BY <2>3, <2>4
<1> HIDE DEF to
<1>14. SplitAt(us, s, n + 1, to)
  BY <1>7, <1>11, <1>12, <1>13 DEF SplitAt, N
<1> QED
  BY <1>14 DEF Stream

\* One more sequence.
LEMMA StreamGrows ==
    ASSUME NEW C, NEW us \in Seq(Seq(C)), NEW q \in Seq(C), NEW n \in 1 .. (Len(us) + 1),
           Stream(us, q, n), NEW u \in Seq(C)
    PROVE  Stream(Append(us, u), q \o u, n)
<1>1. PICK at : SplitAt(us, q, n, at)
  BY DEF Stream
<1> DEFINE vs == Append(us, u)
           p == q \o u
           N == Len(us)
           to == [i \in n .. (N + 2) |-> IF i <= N + 1 THEN at[i] ELSE Len(p)]
<1>2. /\ N \in Nat /\ n \in Nat /\ n <= N + 1 /\ Len(q) \in Nat /\ Len(u) \in Nat
      /\ Len(vs) = N + 1 /\ vs[N + 1] = u /\ \A i \in 1 .. N : vs[i] = us[i] /\ Len(us[i]) \in Nat
  OBVIOUS
<1>3. /\ p \in Seq(C) /\ Len(p) = Len(q) + Len(u)
      /\ \A k \in 1 .. Len(q) : p[k] = q[k]
      /\ \A k \in 1 .. Len(u) : p[Len(q) + k] = u[k]
  OBVIOUS
<1> HIDE DEF p, vs
<1>4. /\ at \in [n .. (N + 1) -> Nat]
      /\ at[n] = 0 /\ at[N + 1] = Len(q)
      /\ \A i, j \in n .. (N + 1) : i <= j => at[i] <= at[j]
      /\ \A i \in n .. N : /\ at[i + 1] = at[i] + Len(us[i])
                           /\ \A k \in 1 .. Len(us[i]) : q[at[i] + k] = us[i][k]
  BY <1>1 DEF SplitAt
<1>5. \A i \in n .. (N + 1) : at[i] \in Nat /\ at[i] <= Len(q) /\ to[i] = at[i]
  BY <1>2, <1>4
<1>6. to[N + 2] = Len(p)
  BY <1>2
<1>7. \A i \in n .. (N + 2) : i \in n .. (N + 1) \/ i = N + 2
  BY <1>2
<1>8. to \in [n .. (N + 2) -> Nat]
  <2>1. Len(p) \in Nat
    BY <1>2, <1>3
  <2>2. \A i \in n .. (N + 2) : to[i] \in Nat
    BY <1>5, <1>6, <1>7, <2>1
  <2> QED
    BY <2>2
<1>9. to[n] = 0
  BY <1>2, <1>4, <1>5
<1> HIDE DEF to
<1>10. ASSUME NEW i \in n .. (N + 2), NEW j \in n .. (N + 2), i <= j
       PROVE  to[i] <= to[j]
  <2>1. CASE i \in n .. (N + 1) /\ j \in n .. (N + 1)
    BY <1>4, <1>5, <1>10, <2>1
  <2>2. CASE i \in n .. (N + 1) /\ j = N + 2
    <3>1. to[i] \in Nat /\ to[i] <= Len(q) /\ to[j] = Len(q) + Len(u)
      BY <1>3, <1>5, <1>6, <2>2
    <3> QED
      BY <1>2, <3>1
  <2>3. CASE i = N + 2
    <3>1. j = N + 2
      BY <1>2, <1>10, <2>3
    <3> QED
      BY <1>3, <1>2, <1>6, <2>3, <3>1
  <2> QED
    BY <1>7, <2>1, <2>2, <2>3
<1>11. ASSUME NEW i \in n .. (N + 1)
       PROVE  to[i + 1] = to[i] + Len(vs[i]) /\ \A k \in 1 .. Len(vs[i]) : p[to[i] + k] = vs[i][k]
  <2>1. CASE i = N + 1
    <3>1. to[i] = Len(q) /\ to[i + 1] = Len(p) /\ vs[i] = u
      BY <1>2, <1>4, <1>5, <1>6, <2>1
    <3> QED
      BY <1>3, <3>1
  <2>2. CASE i \in n .. N
    <3>1. i \in n .. (N + 1) /\ i + 1 \in n .. (N + 1) /\ vs[i] = us[i] /\ Len(us[i]) \in Nat
      BY <1>2, <2>2
    <3>2. to[i] = at[i] /\ to[i + 1] = at[i + 1] /\ at[i + 1] <= Len(q) /\ at[i] \in Nat
      BY <1>5, <3>1
    <3>3. /\ at[i + 1] = at[i] + Len(us[i]) /\ \A k \in 1 .. Len(us[i]) : q[at[i] + k] = us[i][k]
      BY <1>4, <2>2
    <3>4. \A k \in 1 .. Len(us[i]) : at[i] + k \in 1 .. Len(q)
      BY <1>2, <3>1, <3>2, <3>3
    <3> QED
      BY <1>3, <3>1, <3>2, <3>3, <3>4
  <2> QED
    BY <1>2, <2>1, <2>2
<1>12. SplitAt(vs, p, n, to)
  <2>1. Len(vs) = N + 1 /\ (N + 1) + 1 = N + 2
    BY <1>2
  <2> QED
    BY <2>1, <1>6, <1>8, <1>9, <1>10, <1>11 DEF SplitAt
<1> QED
  BY <1>12 DEF Stream, vs, p

\* The fields; the provers have to be told that the code's own strings are among them.
Field == STRING \cup {"head", "request", "response", "notify", "0", "404", "unhandle", "empty"}
Kind == {"request", "response", "notify"}
Record == [type : Kind, sn : Field, cmd : Field, result : Field, str : Field, notify : Field, file : Seq(Field), data : Field]
Unit == [m : Nat, v : Seq(Field), len : Nat, flag : BOOLEAN]

LEMMA FieldFacts ==
    /\ STRING \subseteq Field
    /\ "head" \in Field /\ "request" \in Field /\ "response" \in Field /\ "notify" \in Field
    /\ "0" \in Field /\ "404" \in Field /\ "unhandle" \in Field /\ "empty" \in Field
  BY DEF Field

\* A function on 1 .. n is a sequence.
LEMMA ListIsSeq ==
    ASSUME NEW C, NEW n \in Nat, NEW f, f = [k \in 1 .. n |-> f[k]], \A k \in 1 .. n : f[k] \in C
    PROVE  f \in Seq(C) /\ Len(f) = n
<1>1. f \in [1 .. n -> C]
  OBVIOUS
<1> QED
  BY <1>1

\* What is compressed comes back.
LEMMA GzipBack ==
    ASSUME NEW f \in Seq(Field), f # <<>>
    PROVE  /\ R!Gzip(f) \in Seq(Seq(Field)) /\ Len(R!Gzip(f)) >= 1
           /\ R!Gunzip(R!Gzip(f)) = f
<1> DEFINE n == Len(f)
           h == (n + 1) \div 2
           z == R!Gzip(f)
           b == R!Gunzip(z)
<1>1. n \in Nat /\ n >= 1
  OBVIOUS
<1>2. h \in Nat /\ h >= 1 /\ 2 * h >= n /\ 2 * h <= n + 1
  BY <1>1
<1>3. \A i \in 1 .. n : f[i] \in Field
  OBVIOUS
<1>4. z = [i \in 1 .. h |-> IF 2 * i <= n THEN <<f[2 * i - 1], f[2 * i]>> ELSE <<f[2 * i - 1]>>]
  BY DEF R!Gzip
<1> HIDE DEF z, h
<1>5. ASSUME NEW i \in 1 .. h
      PROVE  /\ z[i] = IF 2 * i <= n THEN <<f[2 * i - 1], f[2 * i]>> ELSE <<f[2 * i - 1]>>
             /\ z[i] \in Seq(Field) /\ Len(z[i]) = IF 2 * i <= n THEN 2 ELSE 1
  <2>1. 2 * i - 1 \in 1 .. n /\ (2 * i <= n => 2 * i \in 1 .. n)
    BY <1>1, <1>2
  <2>2. z[i] = IF 2 * i <= n THEN <<f[2 * i - 1], f[2 * i]>> ELSE <<f[2 * i - 1]>>
    BY <1>4
  <2> DEFINE a == f[2 * i - 1]
             e == f[2 * i]
  <2>3. a \in Field /\ (2 * i <= n => e \in Field)
    BY <1>3, <2>1
  <2>4. z[i] = IF 2 * i <= n THEN <<a, e>> ELSE <<a>>
    BY <2>2
  <2> HIDE DEF a, e
  <2>5. z[i] \in Seq(Field) /\ Len(z[i]) = IF 2 * i <= n THEN 2 ELSE 1
    <3>1. CASE 2 * i <= n
      BY <2>3, <2>4, <3>1
    <3>2. CASE ~(2 * i <= n)
      BY <2>3, <2>4, <3>2
    <3> QED
      BY <3>1, <3>2
  <2> QED
    BY <2>2, <2>5
<1>6. z \in Seq(Seq(Field)) /\ Len(z) = h
  <2>1. z = [k \in 1 .. h |-> z[k]]
    BY <1>4
  <2>2. \A k \in 1 .. h : z[k] \in Seq(Field)
    BY <1>5
  <2> QED
    BY ONLY <1>2, <2>1, <2>2, ListIsSeq
<1>7. 2 * h - 2 + Len(z[h]) = n
  <2>1. h \in 1 .. h
    BY <1>2
  <2>2. Len(z[h]) = IF 2 * h <= n THEN 2 ELSE 1
    BY <1>5, <2>1
  <2> QED
    BY <1>1, <1>2, <2>2
<1>8. b = [i \in 1 .. n |-> z[(i + 1) \div 2][IF i % 2 = 1 THEN 1 ELSE 2]]
  BY <1>6, <1>7 DEF R!Gunzip
<1> HIDE DEF b
<1>9. ASSUME NEW i \in 1 .. n
      PROVE  b[i] = f[i]
  <2> DEFINE j == (i + 1) \div 2
  <2>1. b[i] = z[j][IF i % 2 = 1 THEN 1 ELSE 2]
    BY <1>8
  <2>2. /\ j \in 1 .. h
        /\ i % 2 = 1 => 2 * j - 1 = i
        /\ i % 2 # 1 => 2 * j = i
    BY <1>1, <1>2 DEF h
  <2> HIDE DEF j
  <2>3. CASE i % 2 = 1
    <3>1. b[i] = z[j][1] /\ 2 * j - 1 = i
      BY <2>1, <2>2, <2>3
    <3>2. z[j] = <<f[2 * j - 1], f[2 * j]>> \/ z[j] = <<f[2 * j - 1]>>
      BY <1>5, <2>2
    <3>3. z[j][1] = f[2 * j - 1]
      BY <3>2
    <3> QED
      BY <3>1, <3>3
  <2>4. CASE i % 2 # 1
    <3>1. 2 * j <= n /\ 2 * j = i
      BY <2>2, <2>4, <1>1
    <3>2. b[i] = z[j][2]
      BY <2>1, <2>4
    <3>3. z[j] = <<f[2 * j - 1], f[2 * j]>>
      BY <1>5, <2>2, <3>1
    <3>4. z[j][2] = f[2 * j]
      BY <3>3
    <3> QED
      BY <3>1, <3>2, <3>4
  <2> QED
    BY <2>3, <2>4
<1>10. b = f
  BY <1>8, <1>9
<1> QED
  BY <1>2, <1>6, <1>10 DEF z, b

\* The units of a message: the head, that tells how many follow, and the body, from which
\* the fields come back.
LEMMA SerializedFacts ==
    ASSUME NEW f \in Seq(Field), f # <<>>, NEW n \in Nat
    PROVE  LET u == R!Serialized(n, f)
           IN  /\ u \in Seq(Unit) /\ Len(u) >= 2
               /\ u[1].v = <<"head">> /\ u[1].len = Len(u) - 1
               /\ \A body \in Seq(Seq(Field)) :
                     Len(body) = Len(u) - 1 /\ (\A k \in 1 .. Len(body) : body[k] = u[k + 1].v)
                     => (IF u[1].flag THEN R!Gunzip(body) ELSE [i \in 1 .. Len(body) |-> body[i][1]]) = f
<1> DEFINE zip == Len(f) > MinGzip
           plain == [i \in 1 .. Len(f) |-> <<f[i]>>]
           body == IF zip THEN R!Gzip(f) ELSE plain
           head == [m |-> n, v |-> <<"head">>, len |-> Len(body), flag |-> zip]
           rest == [i \in 1 .. Len(body) |-> [m |-> n, v |-> body[i], len |-> 0, flag |-> FALSE]]
           u == R!Serialized(n, f)
<1>1. Len(f) \in Nat /\ Len(f) >= 1 /\ \A i \in 1 .. Len(f) : f[i] \in Field
  OBVIOUS
<1>2. plain \in Seq(Seq(Field)) /\ Len(plain) = Len(f)
  <2>1. \A i \in 1 .. Len(f) : plain[i] \in Seq(Field)
    BY <1>1
  <2>2. plain = [i \in 1 .. Len(f) |-> plain[i]]
    OBVIOUS
  <2> HIDE DEF plain
  <2> QED
    BY <1>1, <2>1, <2>2, ListIsSeq
<1>3. /\ R!Gzip(f) \in Seq(Seq(Field)) /\ Len(R!Gzip(f)) >= 1
      /\ R!Gunzip(R!Gzip(f)) = f
  BY GzipBack
<1>4. zip \in BOOLEAN
  BY <1>1, MessagesAssumption
<1>5. u = <<head>> \o rest
  BY DEF R!Serialized
<1> HIDE DEF plain, zip, u
<1>6. body \in Seq(Seq(Field)) /\ Len(body) \in Nat /\ Len(body) >= 1
  BY <1>1, <1>2, <1>3
<1> HIDE DEF body
<1>7. rest \in Seq(Unit) /\ Len(rest) = Len(body)
  <2>1. \A i \in 1 .. Len(body) : rest[i] \in Unit
    BY <1>6 DEF Unit
  <2>2. rest = [i \in 1 .. Len(body) |-> rest[i]]
    OBVIOUS
  <2> HIDE DEF rest
  <2> QED
    BY <1>6, <2>1, <2>2, ListIsSeq
<1>8. head \in Unit /\ head.v = <<"head">> /\ head.len = Len(body) /\ head.flag = zip
  <2> QED
    BY <1>4, <1>6, FieldFacts DEF Unit
<1>9. \A i \in 1 .. Len(body) : rest[i].v = body[i]
  <2> TAKE i \in 1 .. Len(body)
  <2>1. rest[i] = [m |-> n, v |-> body[i], len |-> 0, flag |-> FALSE]
    OBVIOUS
  <2> HIDE DEF rest
  <2> QED
    BY <2>1
<1> HIDE DEF head, rest
<1>10. /\ u \in Seq(Unit) /\ Len(u) = Len(body) + 1 /\ u[1] = head
       /\ \A k \in 1 .. Len(body) : u[k + 1] = rest[k]
  BY <1>5, <1>6, <1>7, <1>8
<1>11. ASSUME NEW b \in Seq(Seq(Field)), Len(b) = Len(u) - 1, \A k \in 1 .. Len(b) : b[k] = u[k + 1].v
       PROVE  (IF u[1].flag THEN R!Gunzip(b) ELSE [i \in 1 .. Len(b) |-> b[i][1]]) = f
  <2>1. Len(b) = Len(body)
    BY <1>6, <1>10, <1>11
  <2>2. \A k \in 1 .. Len(b) : b[k] = body[k]
    BY <1>9, <1>10, <1>11, <2>1
  <2>3. b = body
    BY <1>6, <1>11, <2>1, <2>2, SeqEqual
  <2>4. CASE zip
    <3>1. body = R!Gzip(f)
      BY <2>4 DEF body
    <3> QED
      BY <1>3, <1>8, <1>10, <2>3, <2>4, <3>1
  <2>5. CASE ~zip
    <3>1. body = plain
      BY <2>5 DEF body
    <3>2. \A i \in 1 .. Len(f) : plain[i][1] = f[i]
      BY DEF plain
    <3>3. Len(b) = Len(f) /\ \A i \in 1 .. Len(b) : b[i][1] = f[i]
      BY <1>2, <2>3, <3>1, <3>2
    <3>4. [i \in 1 .. Len(b) |-> b[i][1]] = f
      <4> DEFINE g == [i \in 1 .. Len(b) |-> b[i][1]]
      <4>1. g = [i \in 1 .. Len(b) |-> g[i]] /\ \A i \in 1 .. Len(b) : g[i] = f[i]
        BY <3>3
      <4> HIDE DEF g
      <4>2. g \in Seq(Field) /\ Len(g) = Len(b)
        BY ONLY <1>1, <3>3, <4>1, ListIsSeq
      <4> QED
        BY ONLY <3>3, <4>1, <4>2, SeqEqual, f \in Seq(Field) DEF g
    <3> QED
      BY <1>8, <1>10, <2>5, <3>4
  <2> QED
    BY <2>4, <2>5
<1> QED
  BY <1>6, <1>8, <1>10, <1>11 DEF u

\* Two records of a message that agree on every field.
LEMMA RecordsEqual ==
    ASSUME NEW p \in Record, NEW q \in Record, p.type = q.type, p.sn = q.sn, p.cmd = q.cmd, p.result = q.result,
           p.str = q.str, p.notify = q.notify, p.file = q.file, p.data = q.data
    PROVE  p = q
<1>1. \A r \in Record : r = [type |-> r.type, sn |-> r.sn, cmd |-> r.cmd, result |-> r.result, str |-> r.str,
                            notify |-> r.notify, file |-> r.file, data |-> r.data]
  BY DEF Record
<1> QED
  BY <1>1

\* What a record is before its own fields are read.
LEMMA BlankFacts ==
    ASSUME NEW k \in Kind
    PROVE  LET p == R!Blank(k)
           IN  /\ p \in Record /\ p.type = k /\ p.sn = "0" /\ p.cmd = "0" /\ p.result = "404" /\ p.str = "unhandle"
               /\ p.notify = "0" /\ p.file = <<>>
<1> DEFINE p == R!Blank(k)
<1>1. <<>> \in Seq(Field)
  OBVIOUS
<1>2. p = [type |-> k, sn |-> "0", cmd |-> "0", result |-> "404", str |-> "unhandle", notify |-> "0", file |-> <<>>, data |-> "empty"]
  BY DEF R!Blank
<1> HIDE DEF p
<1>3. p \in Record
  BY <1>1, <1>2, FieldFacts DEF Record
<1>4. /\ p.type = k /\ p.sn = "0" /\ p.cmd = "0" /\ p.result = "404" /\ p.str = "unhandle"
      /\ p.notify = "0" /\ p.file = <<>>
  BY <1>2
<1> QED
  BY <1>3, <1>4 DEF p

\* A message is put together again from its fields.
LEMMA ParseBack ==
    ASSUME NEW m \in Messages, xftp = (m.file # <<>>)
    PROVE  /\ R!ToByteArray(m) \in Seq(Field) /\ R!ToByteArray(m) # <<>>
           /\ R!ParseFromByteArray(R!ToByteArray(m)) = m
<1> DEFINE s == m.sn
           c == m.cmd
           r == m.result
           t == m.str
           y == m.notify
           fi == m.file
           d == m.data
           body == IF xftp THEN fi \o <<d>> ELSE <<d>>
           base == R!Base(m)
           f == base \o body
<1>1. /\ m \in Record
      /\ Len(m.file) \in {0, 6}
      /\ m.type # "response" => m.result = "404" /\ m.str = "unhandle"
      /\ m.type # "notify" => m.notify = "0"
      /\ m.type = "notify" => m.sn = "0" /\ m.cmd = "0"
  <2>1. m \in [type : Kind, sn : STRING, cmd : STRING, result : STRING, str : STRING, notify : STRING,
               file : Seq(STRING), data : STRING]
    BY MessagesAssumption DEF Kind
  <2>2. STRING \subseteq Field
    BY FieldFacts
  <2>3. \A C, D : C \subseteq D => Seq(C) \subseteq Seq(D)
    OBVIOUS
  <2>4. m \in Record
    <3>1. Seq(STRING) \subseteq Seq(Field)
      BY <2>2, <2>3
    <3> QED
      BY ONLY <2>1, <2>2, <3>1 DEF Record
  <2> QED
    BY <2>4, MessagesAssumption
<1>2. "request" \in Field /\ "response" \in Field /\ "notify" \in Field
  BY FieldFacts
<1>3. /\ m.type \in {"request", "response", "notify"} /\ s \in Field /\ c \in Field /\ r \in Field
      /\ t \in Field /\ y \in Field /\ fi \in Seq(Field) /\ d \in Field
      /\ (xftp => Len(fi) = 6) /\ (~xftp => fi = <<>>)
  <2>1. /\ m.type \in Kind /\ m.sn \in Field /\ m.cmd \in Field /\ m.result \in Field
        /\ m.str \in Field /\ m.notify \in Field /\ m.file \in Seq(Field) /\ m.data \in Field
    BY <1>1 DEF Record
  <2>2. xftp => Len(fi) = 6
    <3>1. fi \in Seq(Field) /\ Len(fi) \in {0, 6}
      BY <1>1, <2>1
    <3>2. xftp => fi # <<>>
      OBVIOUS
    <3> HIDE DEF fi
    <3> QED
      BY ONLY <3>1, <3>2
  <2>3. ~xftp => fi = <<>>
    OBVIOUS
  <2> QED
    BY <2>1, <2>2, <2>3 DEF Kind
<1>4. base = CASE m.type = "request" -> <<"request", s, c>> [] m.type = "response" -> <<"response", s, c, r, t>>
               [] OTHER -> <<"notify", y>>
  BY DEF R!Base, R!RequestFields, R!ResponseFields, R!NotifyFields
<1>5. R!ToByteArray(m) = f
  BY DEF R!ToByteArray, R!XftpBody, R!RockBody
<1> HIDE DEF base, s, c, r, t, y, fi, d
<1>6. /\ base \in Seq(Field) /\ Len(base) \in {2, 3, 5} /\ base[1] = m.type
      /\ Len(base) = IF m.type = "request" THEN 3 ELSE IF m.type = "response" THEN 5 ELSE 2
  <2>1. CASE m.type = "request"
    <3>1. base = <<"request", s, c>>
      BY <1>4, <2>1
    <3> QED
      BY <1>3, <1>2, <2>1, <3>1
  <2>2. CASE m.type = "response"
    <3>1. base = <<"response", s, c, r, t>>
      BY <1>4, <2>2
    <3> QED
      BY <1>3, <1>2, <2>2, <3>1
  <2>3. CASE m.type = "notify"
    <3>1. base = <<"notify", y>>
      BY <1>4, <2>3
    <3> QED
      BY <1>3, <1>2, <2>3, <3>1
  <2> QED
    BY <1>3, <2>1, <2>2, <2>3
<1>7. /\ body \in Seq(Field) /\ Len(body) = IF xftp THEN 7 ELSE 1
      /\ body[Len(body)] = d
      /\ xftp => \A k \in 1 .. 6 : body[k] = fi[k]
  <2>0. <<d>> \in Seq(Field) /\ Len(<<d>>) = 1 /\ <<d>>[1] = d
    BY <1>3
  <2>1. CASE xftp
    <3>1. body = fi \o <<d>>
      BY <2>1
    <3> HIDE DEF body
    <3>2. /\ body \in Seq(Field) /\ Len(body) = 7 /\ body[7] = d
          /\ \A k \in 1 .. 6 : body[k] = fi[k]
      BY <1>3, <2>0, <2>1, <3>1, ConcatProperties
    <3> QED
      BY <2>1, <3>2
  <2>2. CASE ~xftp
    BY <2>0, <2>2
  <2> QED
    BY <2>1, <2>2
<1> HIDE DEF body
<1>8. /\ f \in Seq(Field) /\ Len(f) = Len(base) + Len(body) /\ f # <<>>
      /\ \A k \in 1 .. Len(base) : f[k] = base[k]
      /\ \A k \in 1 .. Len(body) : f[Len(base) + k] = body[k]
  <2>1. base \in Seq(Field) /\ body \in Seq(Field) /\ Len(base) >= 2
    BY <1>6, <1>7
  <2> QED
    BY ONLY <2>1
<1> HIDE DEF f
<1> DEFINE p == CASE m.type = "request" -> [R!Blank("request") EXCEPT !.sn = s, !.cmd = c]
                  [] m.type = "response" -> [R!Blank("response") EXCEPT !.sn = s, !.cmd = c, !.result = r, !.str = t]
                  [] OTHER -> [R!Blank("notify") EXCEPT !.notify = y]
<1>9. /\ p \in Record /\ p.type = m.type /\ p.sn = m.sn /\ p.cmd = m.cmd /\ p.result = m.result /\ p.str = m.str
      /\ p.notify = m.notify /\ p.file = <<>>
  <2>1. CASE m.type = "request"
    <3> DEFINE b == R!Blank("request")
    <3>1. p = [b EXCEPT !.sn = s, !.cmd = c] /\ "request" \in Kind
      BY <2>1 DEF Kind
    <3> HIDE DEF p
    <3>2. m.result = "404" /\ m.str = "unhandle" /\ m.notify = "0" /\ s = m.sn /\ c = m.cmd
      BY <1>1, <2>1 DEF s, c
    <3>3. /\ b \in Record /\ b.type = m.type /\ b.sn = "0" /\ b.cmd = "0" /\ b.result = "404" /\ b.str = "unhandle"
          /\ b.notify = "0" /\ b.file = <<>>
      BY <2>1, <3>1, BlankFacts
    <3> HIDE DEF b
    <3>4. p \in Record
      BY ONLY <1>3, <3>1, <3>3 DEF Record
    <3>5. /\ p.type = m.type /\ p.sn = m.sn /\ p.cmd = m.cmd /\ p.result = m.result /\ p.str = m.str
          /\ p.notify = m.notify /\ p.file = <<>>
      BY ONLY <3>1, <3>2, <3>3 DEF Record
    <3> QED
      BY <3>4, <3>5
  <2>2. CASE m.type = "response"
    <3> DEFINE b == R!Blank("response")
    <3>1. p = [b EXCEPT !.sn = s, !.cmd = c, !.result = r, !.str = t] /\ "response" \in Kind
      BY <2>2 DEF Kind
    <3> HIDE DEF p
    <3>2. m.notify = "0" /\ s = m.sn /\ c = m.cmd /\ r = m.result /\ t = m.str
      BY <1>1, <2>2 DEF s, c, r, t
    <3>3. /\ b \in Record /\ b.type = m.type /\ b.sn = "0" /\ b.cmd = "0" /\ b.result = "404" /\ b.str = "unhandle"
          /\ b.notify = "0" /\ b.file = <<>>
      BY <2>2, <3>1, BlankFacts
    <3> HIDE DEF b
    <3>4. p \in Record
      BY ONLY <1>3, <3>1, <3>3 DEF Record
    <3>5. /\ p.type = m.type /\ p.sn = m.sn /\ p.cmd = m.cmd /\ p.result = m.result /\ p.str = m.str
          /\ p.notify = m.notify /\ p.file = <<>>
      BY ONLY <3>1, <3>2, <3>3 DEF Record
    <3> QED
      BY <3>4, <3>5
  <2>3. CASE m.type = "notify"
    <3> DEFINE b == R!Blank("notify")
    <3>1. p = [b EXCEPT !.notify = y] /\ "notify" \in Kind
      BY <2>3 DEF Kind
    <3> HIDE DEF p
    <3>2. m.sn = "0" /\ m.cmd = "0" /\ m.result = "404" /\ m.str = "unhandle" /\ y = m.notify
      BY <1>1, <2>3 DEF y
    <3>3. /\ b \in Record /\ b.type = m.type /\ b.sn = "0" /\ b.cmd = "0" /\ b.result = "404" /\ b.str = "unhandle"
          /\ b.notify = "0" /\ b.file = <<>>
      BY <2>3, <3>1, BlankFacts
    <3> HIDE DEF b
    <3>4. p \in Record
      BY ONLY <1>3, <3>1, <3>3 DEF Record
    <3>5. /\ p.type = m.type /\ p.sn = m.sn /\ p.cmd = m.cmd /\ p.result = m.result /\ p.str = m.str
          /\ p.notify = m.notify /\ p.file = <<>>
      BY ONLY <3>1, <3>2, <3>3 DEF Record
    <3> QED
      BY <3>4, <3>5
  <2> QED
    BY <1>3, <2>1, <2>2, <2>3
<1>10. (CASE f[1] = "request" -> R!ParseRequest(f) [] f[1] = "response" -> R!ParseResponse(f) [] OTHER -> R!ParseNotify(f)) = p
  <2>1. f[1] = m.type
    BY <1>6, <1>8
  <2>2. CASE m.type = "request"
    <3>1. f[2] = s /\ f[3] = c
      BY <1>4, <1>6, <1>8, <2>2
    <3> QED
      BY <2>1, <2>2, <3>1 DEF R!ParseRequest
  <2>3. CASE m.type = "response"
    <3>1. f[2] = s /\ f[3] = c /\ f[4] = r /\ f[5] = t
      BY <1>4, <1>6, <1>8, <2>3
    <3> QED
      BY <2>1, <2>3, <3>1 DEF R!ParseResponse
  <2>4. CASE m.type = "notify"
    <3>1. f[2] = y
      BY <1>4, <1>6, <1>8, <2>4
    <3> QED
      BY <2>1, <2>4, <3>1 DEF R!ParseNotify
  <2> QED
    BY <1>3, <2>2, <2>3, <2>4
<1> HIDE DEF p
<1>11. Len(R!Base(p)) = Len(base)
  <2>0. p.type = m.type /\ p.sn = s /\ p.cmd = c /\ p.result = r /\ p.str = t /\ p.notify = y
    BY <1>9 DEF s, c, r, t, y
  <2>1. R!Base(p) = CASE m.type = "request" -> <<"request", s, c>> [] m.type = "response" -> <<"response", s, c, r, t>>
                      [] OTHER -> <<"notify", y>>
    BY ONLY <2>0 DEF R!Base, R!RequestFields, R!ResponseFields, R!NotifyFields
  <2> QED
    BY ONLY <1>4, <2>1
<1> DEFINE at == Len(base) + 1
<1>12. R!ParseFromByteArray(f) = IF xftp THEN R!ParseXftpBody(p, f, at) ELSE R!ParseRockBody(p, f, at)
  BY <1>10, <1>11 DEF R!ParseFromByteArray
<1>13. CASE xftp
  <2>1. SubSeq(f, at, at + 5) = fi
    <3>1. at \in Nat /\ at >= 1 /\ at + 5 <= Len(f)
      BY <1>6, <1>7, <1>8, <1>13
    <3>2. \A k \in 1 .. 6 : f[at + k - 1] = fi[k]
      BY <1>6, <1>7, <1>8, <1>13
    <3> HIDE DEF at
    <3> DEFINE z == SubSeq(f, at, at + 5)
    <3>3. z \in Seq(Field) /\ Len(z) = 6 /\ \A k \in 1 .. 6 : z[k] = f[at + k - 1]
      <4>1. f \in Seq(Field)
        BY <1>8
      <4> QED
        BY ONLY <3>1, <4>1
    <3> HIDE DEF z
    <3>4. fi \in Seq(Field) /\ Len(fi) = 6 /\ \A k \in 1 .. Len(z) : z[k] = fi[k]
      BY <1>3, <1>13, <3>2, <3>3
    <3>5. z = fi
      BY ONLY <3>3, <3>4, SeqEqual
    <3> QED
      BY <3>5 DEF z
  <2>2. f[at + 6] = d
    BY <1>6, <1>7, <1>8, <1>13
  <2>3. R!ParseFromByteArray(f) = [p EXCEPT !.file = fi, !.data = d]
    BY <1>12, <1>13, <2>1, <2>2 DEF R!ParseXftpBody
  <2>4. R!ParseFromByteArray(f) = m
    <3>1. [p EXCEPT !.file = fi, !.data = d] = m
      <4> DEFINE q == [p EXCEPT !.file = fi, !.data = d]
      <4>1. q \in Record
        BY ONLY <1>3, <1>9 DEF Record
      <4>2. /\ q.type = p.type /\ q.sn = p.sn /\ q.cmd = p.cmd /\ q.result = p.result /\ q.str = p.str
            /\ q.notify = p.notify /\ q.file = fi /\ q.data = d
        BY ONLY <1>9 DEF Record
      <4> HIDE DEF q
      <4>3. q = m
        <5>1. q.file = m.file /\ q.data = m.data
          BY <4>2 DEF fi, d
        <5> QED
          BY ONLY <1>1, <1>9, <4>1, <4>2, <5>1, RecordsEqual
      <4> QED
        BY <4>3 DEF q
    <3> QED
      BY <2>3, <3>1
  <2> QED
    BY <1>5, <1>8, <2>4
<1>14. CASE ~xftp
  <2>1. f[at] = d
    BY <1>6, <1>7, <1>8, <1>14
  <2>2. R!ParseFromByteArray(f) = [p EXCEPT !.data = d]
    BY <1>12, <1>14, <2>1 DEF R!ParseRockBody
  <2>3. fi = <<>>
    BY <1>3, <1>14
  <2>4. R!ParseFromByteArray(f) = m
    <3>1. [p EXCEPT !.data = d] = m
      <4> DEFINE q == [p EXCEPT !.data = d]
      <4>1. q \in Record
        BY ONLY <1>3, <1>9 DEF Record
      <4>2. /\ q.type = p.type /\ q.sn = p.sn /\ q.cmd = p.cmd /\ q.result = p.result /\ q.str = p.str
            /\ q.notify = p.notify /\ q.file = p.file /\ q.data = d
        BY ONLY <1>9 DEF Record
      <4> HIDE DEF q
      <4>3. q = m
        <5>1. q.file = m.file /\ q.data = m.data
          BY <1>9, <2>3, <4>2 DEF fi, d
        <5> QED
          BY ONLY <1>1, <1>9, <4>1, <4>2, <5>1, RecordsEqual
      <4> QED
        BY <4>3 DEF q
    <3> QED
      BY <2>2, <3>1
  <2> QED
    BY <1>5, <1>8, <2>4
<1> QED
  BY <1>3, <1>13, <1>14

\* What the units of a message are, and that the parser makes the message of them.
LEMMA UnitsFacts ==
    ASSUME NEW m \in Messages, xftp = (m.file # <<>>), NEW n \in Nat
    PROVE  LET u == R!Units(n, m)
           IN  /\ u \in Seq(Unit) /\ Len(u) >= 2
               /\ u[1].v = <<"head">> /\ u[1].len = Len(u) - 1
               /\ \A body \in Seq(Seq(Field)) :
                     Len(body) = Len(u) - 1 /\ (\A k \in 1 .. Len(body) : body[k] = u[k + 1].v)
                     => R!ParseFromByteArray(IF u[1].flag THEN R!Gunzip(body) ELSE [i \in 1 .. Len(body) |-> body[i][1]]) = m
<1> DEFINE f == R!ToByteArray(m)
<1>1. f \in Seq(Field) /\ f # <<>> /\ R!ParseFromByteArray(f) = m
  BY ParseBack
<1>2. R!Units(n, m) = R!Serialized(n, f)
  BY DEF R!Units
<1> HIDE DEF f
<1> QED
  BY <1>1, <1>2, SerializedFacts

\* Parts of sequences, by names of their own.
Cat(s, t) == s \o t
First(s, k) == SubSeq(s, 1, k)
After(s, k) == SubSeq(s, k + 1, Len(s))

LEMMA CatSeq ==
    ASSUME NEW C, NEW s \in Seq(C), NEW t \in Seq(C)
    PROVE  Cat(s, t) \in Seq(C)
BY DEF Cat

LEMMA CatAssociative ==
    ASSUME NEW C, NEW s \in Seq(C), NEW t \in Seq(C), NEW u \in Seq(C)
    PROVE  Cat(Cat(s, t), u) = Cat(s, Cat(t, u))
BY DEF Cat

LEMMA CatEmpty ==
    ASSUME NEW C, NEW s \in Seq(C)
    PROVE  Cat(s, <<>>) = s /\ Cat(<<>>, s) = s
BY DEF Cat

LEMMA CatLen ==
    ASSUME NEW C, NEW s \in Seq(C), NEW t \in Seq(C)
    PROVE  Len(Cat(s, t)) = Len(s) + Len(t)
BY DEF Cat

LEMMA CatNothing == Cat(<<>>, <<>>) = <<>>
<1>1. <<>> \in Seq(Nat)
  OBVIOUS
<1> QED
  BY <1>1, CatEmpty

Sent == [i \in 1 .. Len(msgs) |-> R!Units(i, msgs[i])]

RockTypeOK ==
    /\ xftp \in BOOLEAN /\ over \in BOOLEAN
    /\ msgs \in Seq(Messages) /\ \A i \in 1 .. Len(msgs) : xftp = (msgs[i].file # <<>>)
    /\ received \in Seq(Messages) /\ Len(received) <= Len(msgs) /\ \A i \in 1 .. Len(received) : received[i] = msgs[i]
    /\ out \in [pc : {"idle", "write", "closed"}, left : Seq(Unit)]
    /\ rocks \in Seq(Unit)
    /\ in \in [pc : {"head", "body", "parse", "failed"}, head : Seq(Unit), ba : Seq(Unit), left : Int]

\* Where the two sides are.
SidesFit ==
    /\ out.pc = "idle" => out.left = <<>>
    /\ out.pc = "write" => out.left # <<>>
    /\ in.pc = "head" => in.head = <<>> /\ in.ba = <<>>
    /\ in.pc \in {"body", "parse"} => Len(in.head) = 1
    /\ ~over /\ in.pc = "body" => in.left > 0 /\ Len(in.ba) + in.left = in.head[1].len
    /\ ~over /\ in.pc = "parse" => Len(in.ba) = in.head[1].len

\* The messages that the receiver does not have are what it has read of the next one, what
\* is on its way and what is still to write: `rest', when the sender has not failed.
Whole(rest) == Cat(Cat(Cat(in.head, in.ba), rocks), rest)
StreamFits ==
    ~over /\ in.pc # "failed" =>
       \E rest \in Seq(Unit) : /\ out.pc # "closed" => rest = out.left
                               /\ Stream(Sent, Whole(rest), Len(received) + 1)

\* A receiver that took too much reads until the stream ends; one that failed before
\* had its reasons.
EndsFit ==
    /\ over => /\ in.pc \in {"body", "failed"} /\ (in.pc = "body" => in.left = -1)
               /\ Len(msgs) > Len(received) + 1
    /\ in.pc = "failed" /\ ~over => out.pc = "closed" \/ (~xftp /\ \E i \in 1 .. Len(msgs) : Sent[i][1].len > MaxLength)

RockInv == RockTypeOK /\ SidesFit /\ StreamFits /\ EndsFit
RockPartInv == which = "rock" => RockInv

LEMMA SentFacts ==
    ASSUME RockTypeOK
    PROVE  /\ Sent \in Seq(Seq(Unit)) /\ Len(Sent) = Len(msgs) /\ Len(msgs) \in Nat
           /\ \A i \in 1 .. Len(msgs) : Sent[i] = R!Units(i, msgs[i]) /\ Sent[i] \in Seq(Unit)
<1>1. Len(msgs) \in Nat
  BY DEF RockTypeOK
<1>2. \A i \in 1 .. Len(msgs) : Sent[i] = R!Units(i, msgs[i])
  BY DEF Sent
<1>3. \A i \in 1 .. Len(msgs) : Sent[i] \in Seq(Unit)
  <2> TAKE i \in 1 .. Len(msgs)
  <2>1. msgs[i] \in Messages /\ xftp = (msgs[i].file # <<>>) /\ i \in Nat
    BY DEF RockTypeOK
  <2> QED
    BY <1>2, <2>1, UnitsFacts
<1>4. Sent = [i \in 1 .. Len(msgs) |-> Sent[i]]
  BY DEF Sent
<1>5. Sent \in Seq(Seq(Unit)) /\ Len(Sent) = Len(msgs)
  BY ONLY <1>1, <1>3, <1>4, ListIsSeq
<1> QED
  BY <1>1, <1>2, <1>3, <1>5

LEMMA SentSame ==
    ASSUME UNCHANGED <<msgs, xftp>>
    PROVE  Sent' = Sent
BY DEF Sent, R!Units, R!ToByteArray, R!XftpBody, R!RockBody

LEMMA UnitsSame ==
    ASSUME UNCHANGED xftp
    PROVE  \A n, m : R!Units(n, m)' = R!Units(n, m)
BY DEF R!Units, R!ToByteArray, R!XftpBody, R!RockBody

LEMMA SentGrows ==
    ASSUME RockTypeOK, NEW m \in Messages, xftp = (m.file # <<>>), msgs' = Append(msgs, m), UNCHANGED xftp
    PROVE  LET u == R!Units(Len(msgs) + 1, m) IN u \in Seq(Unit) /\ u # <<>> /\ Sent' = Append(Sent, u)
<1> DEFINE u == R!Units(Len(msgs) + 1, m)
           N == Len(msgs)
<1>1. N \in Nat /\ Sent \in Seq(Seq(Unit)) /\ Len(Sent) = N /\ \A i \in 1 .. N : Sent[i] = R!Units(i, msgs[i])
  BY SentFacts
<1>2. u \in Seq(Unit) /\ Len(u) >= 2
  BY <1>1, UnitsFacts
<1>3. u # <<>>
  BY <1>2
<1>4. Sent' = [i \in 1 .. Len(msgs') |-> R!Units(i, msgs'[i])]
  BY DEF Sent, R!Units, R!ToByteArray, R!XftpBody, R!RockBody
<1>5. msgs \in Seq(Messages)
  BY DEF RockTypeOK
<1>6. Len(msgs') = N + 1 /\ msgs'[N + 1] = m /\ \A i \in 1 .. N : msgs'[i] = msgs[i]
  BY <1>5
<1> DEFINE a == Append(Sent, u)
<1>7. /\ a \in Seq(Seq(Unit)) /\ Len(a) = N + 1 /\ a[N + 1] = u
      /\ \A i \in 1 .. N : a[i] = Sent[i]
  BY <1>1, <1>2
<1>8. \A i \in 1 .. (N + 1) : Sent'[i] = a[i]
  <2> TAKE i \in 1 .. (N + 1)
  <2>1. CASE i = N + 1
    <3>1. Sent'[i] = R!Units(N + 1, m)
      BY <1>4, <1>6, <2>1
    <3> QED
      BY <1>7, <2>1, <3>1
  <2>2. CASE i \in 1 .. N
    <3>1. Sent'[i] = R!Units(i, msgs[i])
      BY <1>4, <1>6, <2>2
    <3> QED
      BY <1>1, <1>7, <2>2, <3>1
  <2> QED
    BY <1>1, <2>1, <2>2
<1> HIDE DEF a, u, N
<1>9. Sent' \in Seq(Seq(Unit)) /\ Len(Sent') = N + 1
  <2>1. Sent' = [i \in 1 .. (N + 1) |-> Sent'[i]]
    BY <1>4, <1>6
  <2>2. \A i \in 1 .. (N + 1) : Sent'[i] \in Seq(Unit)
    BY <1>1, <1>7, <1>8
  <2>3. N + 1 \in Nat
    BY <1>1
  <2> QED
    BY ONLY <2>1, <2>2, <2>3, ListIsSeq
<1>10. Sent' = a
  BY ONLY <1>7, <1>8, <1>9, SeqEqual
<1> QED
  BY <1>2, <1>3, <1>10 DEF a, u, N

LEMMA RockFrame ==
    ASSUME [Next]_vars
    PROVE  /\ which' = which
           /\ which = "rock" => R!WireNext \/ UNCHANGED rockVars
BY DEF Next, vars, OnlyFox, OnlyWs, OnlyHttp, OnlyRock, OnlyXftp, OnlyTcp

LEMMA RockInvInit == Init => RockInv
<1> SUFFICES ASSUME R!WireInit PROVE RockInv
  BY DEF Init
<1>1. /\ xftp \in BOOLEAN /\ over = FALSE /\ msgs = <<>> /\ received = <<>> /\ rocks = <<>>
      /\ out = [pc |-> "idle", left |-> <<>>]
      /\ in = [pc |-> "head", head |-> <<>>, ba |-> <<>>, left |-> 0]
  BY DEF R!WireInit, R!Idle
<1>2. RockTypeOK
  <2>1. out \in [pc : {"idle", "write", "closed"}, left : Seq(Unit)]
        /\ in \in [pc : {"head", "body", "parse", "failed"}, head : Seq(Unit), ba : Seq(Unit), left : Int]
    BY <1>1
  <2>2. msgs \in Seq(Messages) /\ received \in Seq(Messages) /\ rocks \in Seq(Unit) /\ Len(msgs) = 0 /\ Len(received) = 0
    BY <1>1
  <2>3. \A i \in 1 .. Len(msgs) : i \in {}
    BY <2>2
  <2>4. \A i \in 1 .. Len(received) : i \in {}
    BY <2>2
  <2>5. Len(received) <= Len(msgs)
    BY ONLY <2>2
  <2>6. xftp \in BOOLEAN /\ over \in BOOLEAN
    BY <1>1, Zenon
  <2> QED
    BY ONLY <2>1, <2>2, <2>3, <2>4, <2>5, <2>6 DEF RockTypeOK
<1>3. Sent \in Seq(Seq(Unit)) /\ Len(Sent) = 0
  BY <1>1, <1>2, SentFacts
<1>4. Stream(Sent, <<>>, 1)
  <2>1. Stream(Sent, <<>>, Len(Sent) + 1)
    BY <1>3, StreamEmpty
  <2> QED
    BY <1>3, <2>1
<1>5. StreamFits
  <2>1. <<>> \in Seq(Unit) /\ Whole(<<>>) = <<>> /\ Len(received) + 1 = 1 /\ out.left = <<>>
    <3>1. <<>> \in Seq(Unit) /\ Cat(<<>>, <<>>) = <<>>
      BY CatNothing
    <3>2. in.head = <<>> /\ in.ba = <<>> /\ rocks = <<>> /\ Len(received) = 0 /\ out.left = <<>>
      BY <1>1
    <3> QED
      BY ONLY <3>1, <3>2 DEF Whole
  <2> QED
    BY <1>4, <2>1 DEF StreamFits
<1> QED
  BY <1>1, <1>2, <1>5 DEF RockInv, SidesFit, EndsFit

LEMMA RockSends ==
    ASSUME RockInv, NEW m \in Messages, R!SerializeToStream(m)
    PROVE  RockInv'
<1> DEFINE u == R!Units(Len(msgs) + 1, m)
           N == Len(msgs)
<1>1. /\ out.pc = "idle" /\ xftp = (m.file # <<>>) /\ msgs' = Append(msgs, m)
      /\ out' = [pc |-> "write", left |-> u] /\ UNCHANGED <<xftp, rocks, in, received, over>>
  BY DEF R!SerializeToStream
<1>2. RockTypeOK /\ SidesFit /\ StreamFits /\ EndsFit
  BY DEF RockInv
<1>3. u \in Seq(Unit) /\ u # <<>> /\ Sent' = Append(Sent, u)
  BY <1>1, <1>2, SentGrows
<1> HIDE DEF u
<1>4. /\ N \in Nat /\ Len(msgs') = N + 1 /\ msgs' \in Seq(Messages) /\ msgs'[N + 1] = m
      /\ \A i \in 1 .. N : msgs'[i] = msgs[i]
  <2>1. msgs \in Seq(Messages)
    BY <1>2 DEF RockTypeOK
  <2> QED
    BY <1>1, <2>1
<1>5. Len(received) \in Nat /\ Len(received) <= N
  BY <1>2 DEF RockTypeOK
<1>6. RockTypeOK'
  <2>1. \A i \in 1 .. (N + 1) : xftp = (msgs'[i].file # <<>>)
    <3> TAKE i \in 1 .. (N + 1)
    <3>1. i \in 1 .. N \/ i = N + 1
      BY <1>4
    <3> QED
      BY <1>1, <1>2, <1>4, <3>1 DEF RockTypeOK
  <2>2. \A i \in 1 .. Len(received) : received[i] = msgs'[i]
    BY <1>2, <1>4, <1>5 DEF RockTypeOK
  <2>3. out' \in [pc : {"idle", "write", "closed"}, left : Seq(Unit)]
    BY <1>1, <1>3
  <2>4. xftp' \in BOOLEAN /\ over' \in BOOLEAN /\ rocks' \in Seq(Unit) /\ received' \in Seq(Messages)
        /\ in' \in [pc : {"head", "body", "parse", "failed"}, head : Seq(Unit), ba : Seq(Unit), left : Int]
    BY <1>1, <1>2 DEF RockTypeOK
  <2>5. Len(received') <= Len(msgs')
    BY <1>1, <1>4, <1>5
  <2> QED
    BY <1>1, <1>4, <2>1, <2>2, <2>3, <2>4, <2>5 DEF RockTypeOK
<1>7. SidesFit'
  BY <1>1, <1>2, <1>3 DEF SidesFit
<1>8. StreamFits'
  <2> SUFFICES ASSUME ~over, in.pc # "failed"
               PROVE  Stream(Sent', Cat(Cat(Cat(in.head, in.ba), rocks), u), Len(received) + 1)
    BY <1>1, <1>3 DEF StreamFits, Whole
  <2>1. out.left = <<>>
    BY <1>1, <1>2 DEF SidesFit
  <2> DEFINE p == Cat(Cat(in.head, in.ba), rocks)
  <2>2. p \in Seq(Unit)
    BY <1>2, CatSeq DEF RockTypeOK
  <2>3. Stream(Sent, Cat(p, <<>>), Len(received) + 1)
    BY <1>1, <1>2, <2>1 DEF StreamFits, Whole
  <2> HIDE DEF p
  <2>4. Cat(p, <<>>) = p
    BY <2>2, CatEmpty
  <2>5. Sent \in Seq(Seq(Unit)) /\ Len(received) + 1 \in 1 .. (Len(Sent) + 1)
    BY <1>2, <1>5, SentFacts
  <2>6. Stream(Append(Sent, u), p \o u, Len(received) + 1)
    BY ONLY <1>3, <2>2, <2>3, <2>4, <2>5, StreamGrows
  <2> QED
    BY <1>3, <2>6 DEF p, Cat
<1>9. EndsFit'
  <2>1. \A i \in 1 .. N : i \in 1 .. Len(msgs') /\ Sent'[i] = Sent[i]
    BY <1>2, <1>3, <1>4, SentFacts
  <2>2. over => Len(msgs') > Len(received) + 1
    BY <1>2, <1>4, <1>5 DEF EndsFit
  <2>3. in.pc = "failed" /\ ~over => ~xftp /\ \E i \in 1 .. N : Sent[i][1].len > MaxLength
    BY <1>1, <1>2 DEF EndsFit
  <2>4. in.pc = "failed" /\ ~over => ~xftp /\ \E i \in 1 .. Len(msgs') : Sent'[i][1].len > MaxLength
    BY <2>1, <2>3
  <2> QED
    BY <1>1, <1>2, <2>2, <2>4 DEF EndsFit
<1> QED
  BY <1>6, <1>7, <1>8, <1>9 DEF RockInv

\* Taking k units from the front of one sequence to the end of another.
LEMMA Shift ==
    ASSUME NEW C, NEW a \in Seq(C), NEW b \in Seq(C), NEW k \in 0 .. Len(b)
    PROVE  /\ First(b, k) \in Seq(C) /\ Len(First(b, k)) = k
           /\ After(b, k) \in Seq(C) /\ Len(After(b, k)) = Len(b) - k
           /\ Cat(Cat(a, First(b, k)), After(b, k)) = Cat(a, b)
<1> DEFINE x == SubSeq(b, 1, k)
           y == SubSeq(b, k + 1, Len(b))
<1>1. Len(b) \in Nat /\ k \in Nat /\ k <= Len(b) /\ Len(a) \in Nat
  OBVIOUS
<1>2. x \in Seq(C) /\ Len(x) = k /\ \A i \in 1 .. k : x[i] = b[i]
  BY <1>1
<1>3. y \in Seq(C) /\ Len(y) = Len(b) - k /\ \A i \in 1 .. (Len(b) - k) : y[i] = b[k + i]
  BY <1>1
<1> HIDE DEF x, y
<1> DEFINE p == (a \o x) \o y
           q == a \o b
<1>4. /\ p \in Seq(C) /\ Len(p) = Len(a) + Len(b)
      /\ \A i \in 1 .. Len(a) : p[i] = a[i]
      /\ \A i \in 1 .. k : p[Len(a) + i] = x[i]
      /\ \A i \in 1 .. (Len(b) - k) : p[Len(a) + k + i] = y[i]
  <2> DEFINE c == a \o x
  <2>1. /\ c \in Seq(C) /\ Len(c) = Len(a) + k
        /\ \A i \in 1 .. Len(a) : c[i] = a[i]
        /\ \A i \in 1 .. k : c[Len(a) + i] = x[i]
    <3>1. a \in Seq(C) /\ x \in Seq(C)
      BY <1>2
    <3>2. /\ c \in Seq(C) /\ Len(c) = Len(a) + Len(x)
          /\ \A i \in 1 .. Len(a) : c[i] = a[i]
          /\ \A i \in 1 .. Len(x) : c[Len(a) + i] = x[i]
      BY ONLY <3>1
    <3> HIDE DEF c
    <3> QED
      BY ONLY <1>2, <3>2
  <2> HIDE DEF c
  <2> DEFINE d == c \o y
  <2>2. /\ d \in Seq(C) /\ Len(d) = Len(c) + Len(y)
        /\ \A i \in 1 .. Len(c) : d[i] = c[i]
        /\ \A i \in 1 .. Len(y) : d[Len(c) + i] = y[i]
    <3>1. c \in Seq(C) /\ y \in Seq(C)
      BY <1>3, <2>1
    <3> QED
      BY ONLY <3>1
  <2>3. p = d
    BY DEF p, c
  <2> HIDE DEF d
  <2>4. \A i \in 1 .. k : d[Len(a) + i] = x[i]
    <3> TAKE i \in 1 .. k
    <3>1. Len(a) + i \in 1 .. Len(c)
      BY <1>1, <2>1
    <3> QED
      BY <2>1, <2>2, <3>1
  <2>5. \A i \in 1 .. Len(a) : d[i] = a[i]
    <3> TAKE i \in 1 .. Len(a)
    <3>1. i \in 1 .. Len(c)
      BY <1>1, <2>1
    <3> QED
      BY <2>1, <2>2, <3>1
  <2>6. d \in Seq(C) /\ Len(d) = Len(a) + Len(b) /\ \A i \in 1 .. (Len(b) - k) : d[Len(a) + k + i] = y[i]
    BY <1>1, <1>3, <2>1, <2>2
  <2> QED
    BY <2>3, <2>4, <2>5, <2>6
<1>5. /\ q \in Seq(C) /\ Len(q) = Len(a) + Len(b)
      /\ \A i \in 1 .. Len(a) : q[i] = a[i]
      /\ \A i \in 1 .. Len(b) : q[Len(a) + i] = b[i]
  BY <1>1
<1> HIDE DEF p, q
<1>6. ASSUME NEW i \in 1 .. Len(p)
      PROVE  p[i] = q[i]
  <2>1. CASE i \in 1 .. Len(a)
    BY <1>4, <1>5, <2>1
  <2>2. CASE i - Len(a) \in 1 .. k
    <3> DEFINE j == i - Len(a)
    <3>1. i = Len(a) + j /\ j \in 1 .. k /\ j \in 1 .. Len(b)
      BY <1>1, <2>2
    <3> HIDE DEF j
    <3> QED
      BY <1>2, <1>4, <1>5, <3>1
  <2>3. CASE i - Len(a) - k \in 1 .. (Len(b) - k)
    <3> DEFINE j == i - Len(a) - k
    <3>1. i = Len(a) + k + j /\ j \in 1 .. (Len(b) - k) /\ i = Len(a) + (k + j) /\ k + j \in 1 .. Len(b)
      BY <1>1, <2>3
    <3> HIDE DEF j
    <3>2. p[i] = y[j]
      BY <1>4, <3>1
    <3>3. q[i] = b[k + j]
      BY <1>5, <3>1
    <3>4. y[j] = b[k + j]
      BY <1>3, <3>1
    <3> QED
      BY <3>2, <3>3, <3>4
  <2>4. i \in Nat /\ i >= 1 /\ i <= Len(a) + Len(b)
    BY <1>4
  <2> QED
    BY <1>1, <2>1, <2>2, <2>3, <2>4
<1>7. p = q
  BY ONLY <1>4, <1>5, <1>6, SeqEqual
<1> QED
  BY <1>2, <1>3, <1>7 DEF p, q, x, y, Cat, First, After

\* The less of two numbers.
LEMMA MinOfTwo ==
    ASSUME NEW a \in Int, NEW b \in Int
    PROVE  R!Min({a, b}) \in Int /\ R!Min({a, b}) <= a /\ R!Min({a, b}) <= b
<1>1. \E x \in {a, b} : \A y \in {a, b} : x <= y
  <2>1. CASE a <= b
    BY <2>1
  <2>2. CASE b <= a
    BY <2>2
  <2> QED
    BY <2>1, <2>2
<1>2. R!Min({a, b}) \in {a, b} /\ \A y \in {a, b} : R!Min({a, b}) <= y
  BY <1>1, Zenon DEF R!Min
<1> QED
  BY <1>2

LEMMA ShiftIn ==
    ASSUME NEW C, NEW p \in Seq(C), NEW a \in Seq(C), NEW b \in Seq(C), NEW k \in 0 .. Len(b)
    PROVE  Cat(Cat(p, Cat(a, First(b, k))), After(b, k)) = Cat(Cat(p, a), b)
<1>1. Cat(p, a) \in Seq(C)
  BY CatSeq
<1>2. First(b, k) \in Seq(C) /\ Cat(Cat(Cat(p, a), First(b, k)), After(b, k)) = Cat(Cat(p, a), b)
  BY <1>1, Shift
<1>3. Cat(p, Cat(a, First(b, k))) = Cat(Cat(p, a), First(b, k))
  BY <1>2, CatAssociative
<1> QED
  BY <1>2, <1>3

Sender == [pc : {"idle", "write", "closed"}, left : Seq(Unit)]
Receiver == [pc : {"head", "body", "parse", "failed"}, head : Seq(Unit), ba : Seq(Unit), left : Int]

\* A step of one side, with no message sent or received.
LEMMA RockKeeps ==
    ASSUME RockInv, UNCHANGED <<xftp, msgs, received>>, over' \in BOOLEAN, out' \in Sender, rocks' \in Seq(Unit),
           in' \in Receiver
    PROVE  RockTypeOK' /\ Sent' = Sent
<1>1. Sent' = Sent
  BY SentSame
<1>2. RockTypeOK
  BY DEF RockInv
<1>3. /\ xftp' \in BOOLEAN /\ msgs' \in Seq(Messages) /\ received' \in Seq(Messages)
      /\ Len(received') <= Len(msgs')
  BY <1>2 DEF RockTypeOK
<1>4. /\ \A i \in 1 .. Len(msgs') : xftp' = (msgs'[i].file # <<>>)
      /\ \A i \in 1 .. Len(received') : received'[i] = msgs'[i]
  BY <1>2 DEF RockTypeOK
<1> QED
  BY <1>1, <1>3, <1>4 DEF RockTypeOK, Sender, Receiver

LEMMA RockWrites ==
    ASSUME RockInv, R!WriteFixSize
    PROVE  RockInv'
<1>1. PICK k \in 1 .. R!Min({RockBuffer, IF out.left[1].v = <<"head">> THEN 1 ELSE Len(out.left)}) :
          /\ rocks' = rocks \o SubSeq(out.left, 1, k)
          /\ out' = [pc |-> IF k = Len(out.left) THEN "idle" ELSE "write", left |-> SubSeq(out.left, k + 1, Len(out.left))]
  BY DEF R!WriteFixSize
<1>2. out.pc = "write" /\ UNCHANGED <<xftp, in, msgs, received, over>>
  BY DEF R!WriteFixSize
<1>3. RockTypeOK /\ SidesFit /\ StreamFits /\ EndsFit
  BY DEF RockInv
<1> DEFINE l == out.left
<1>4. l \in Seq(Unit) /\ Len(l) \in Nat \ {0} /\ rocks \in Seq(Unit)
  BY <1>2, <1>3 DEF RockTypeOK, SidesFit
<1> HIDE DEF l
<1>5. k \in 1 .. Len(l)
  <2> DEFINE j == IF l[1].v = <<"head">> THEN 1 ELSE Len(l)
  <2>1. j \in Int /\ j <= Len(l) /\ RockBuffer \in Int
    BY <1>4, MessagesAssumption
  <2>2. k \in 1 .. R!Min({RockBuffer, j})
    BY DEF l
  <2> HIDE DEF j
  <2>3. R!Min({RockBuffer, j}) \in Int /\ R!Min({RockBuffer, j}) <= j
    BY <2>1, MinOfTwo
  <2> QED
    BY <1>4, <2>1, <2>2, <2>3
<1> DEFINE x == First(l, k)
           y == After(l, k)
           p == Cat(in.head, in.ba)
<1>6. p \in Seq(Unit)
  BY <1>3, CatSeq DEF RockTypeOK
<1> HIDE DEF p
<1>7. /\ x \in Seq(Unit) /\ y \in Seq(Unit) /\ Len(y) = Len(l) - k
      /\ Cat(Cat(p, Cat(rocks, x)), y) = Cat(Cat(p, rocks), l)
  <2>1. k \in 0 .. Len(l)
    BY <1>4, <1>5
  <2> QED
    BY <1>4, <1>6, <2>1, Shift, ShiftIn
<1>8. rocks' = Cat(rocks, x) /\ out' = [pc |-> IF k = Len(l) THEN "idle" ELSE "write", left |-> y]
  BY <1>1 DEF l, First, After, Cat
<1> HIDE DEF x, y
<1>9. RockTypeOK' /\ Sent' = Sent
  <2>1. out' \in Sender
    BY <1>7, <1>8 DEF Sender
  <2>2. rocks' \in Seq(Unit)
    BY <1>4, <1>7, <1>8, CatSeq
  <2>3. over' \in BOOLEAN /\ in' \in Receiver
    BY <1>2, <1>3 DEF RockTypeOK, Receiver
  <2> QED
    BY <1>2, <2>1, <2>2, <2>3, RockKeeps
<1>10. SidesFit'
  <2>1. out'.pc = "idle" => y = <<>>
    BY <1>4, <1>5, <1>7, <1>8
  <2>2. out'.pc = "write" => y # <<>>
    BY <1>4, <1>5, <1>7, <1>8
  <2> QED
    BY <1>2, <1>3, <1>8, <2>1, <2>2 DEF SidesFit
<1>11. StreamFits'
  <2> SUFFICES ASSUME ~over, in.pc # "failed"
               PROVE  Stream(Sent, Cat(Cat(p, Cat(rocks, x)), y), Len(received) + 1)
    BY <1>2, <1>7, <1>8, <1>9 DEF StreamFits, Whole, p
  <2>1. Stream(Sent, Cat(Cat(p, rocks), l), Len(received) + 1)
    BY <1>2, <1>3 DEF StreamFits, Whole, p, l
  <2> QED
    BY <1>7, <2>1
<1>12. EndsFit'
  BY <1>2, <1>3, <1>9 DEF EndsFit
<1> QED
  BY <1>9, <1>10, <1>11, <1>12 DEF RockInv

LEMMA RockEnds ==
    ASSUME RockInv, R!WriteFails \/ R!ReadFails \/ UNCHANGED rockVars
    PROVE  RockInv'
<1>1. RockTypeOK /\ SidesFit /\ StreamFits /\ EndsFit
  BY DEF RockInv
<1>2. out \in Sender /\ in \in Receiver /\ over \in BOOLEAN /\ rocks \in Seq(Unit)
  BY <1>1 DEF RockTypeOK, Sender, Receiver
<1>3. CASE R!WriteFails
  <2>1. out.pc = "write" /\ out' = [pc |-> "closed", left |-> <<>>] /\ UNCHANGED <<xftp, rocks, in, msgs, received, over>>
    BY <1>3 DEF R!WriteFails
  <2>2. out' \in Sender
    BY <2>1 DEF Sender
  <2>3. RockTypeOK' /\ Sent' = Sent
    BY <1>2, <2>1, <2>2, RockKeeps
  <2>4. StreamFits'
    <3>1. out.left \in Seq(Unit)
      BY <1>2 DEF Sender
    <3> QED
      BY <1>1, <2>1, <2>3, <3>1 DEF StreamFits, Whole
  <2>5. SidesFit' /\ EndsFit'
    BY <1>1, <2>1, <2>3 DEF SidesFit, EndsFit
  <2> QED
    BY <2>3, <2>4, <2>5 DEF RockInv
<1>4. CASE R!ReadFails
  <2>1. in.pc \in {"head", "body"} /\ out.pc = "closed" /\ in' = [in EXCEPT !.pc = "failed"]
        /\ UNCHANGED <<xftp, out, rocks, msgs, received, over>>
    BY <1>4 DEF R!ReadFails
  <2>2. in' \in Receiver /\ in'.pc = "failed"
    BY <1>2, <2>1 DEF Receiver
  <2>3. RockTypeOK' /\ Sent' = Sent
    BY <1>2, <2>1, <2>2, RockKeeps
  <2>4. StreamFits' /\ SidesFit'
    BY <1>1, <2>1, <2>2 DEF StreamFits, SidesFit
  <2>5. EndsFit'
    BY <1>1, <2>1, <2>2 DEF EndsFit
  <2> QED
    BY <2>3, <2>4, <2>5 DEF RockInv
<1>5. CASE UNCHANGED rockVars
  <2>1. UNCHANGED <<xftp, out, rocks, in, msgs, received, over>>
    BY <1>5 DEF rockVars
  <2>2. RockTypeOK' /\ Sent' = Sent
    BY <1>2, <2>1, RockKeeps
  <2> QED
    BY <1>1, <2>1, <2>2 DEF RockInv, SidesFit, StreamFits, EndsFit, Whole
<1> QED
  BY <1>3, <1>4, <1>5

\* What the receiver finds at the front of the stream: the units of the next message.
LEMMA RockFront ==
    ASSUME RockInv, NEW q \in Seq(Unit), Stream(Sent, q, Len(received) + 1), q # <<>>
    PROVE  LET n == Len(received) + 1
           IN  /\ n \in 1 .. Len(msgs) /\ n \in 1 .. Len(Sent) /\ Sent \in Seq(Seq(Unit))
               /\ Sent[n] \in Seq(Unit) /\ Len(Sent[n]) >= 2
               /\ Sent[n][1].v = <<"head">> /\ Sent[n][1].len = Len(Sent[n]) - 1
               /\ Len(Sent[n]) <= Len(q) /\ \A k \in 1 .. Len(Sent[n]) : q[k] = Sent[n][k]
               /\ Len(Sent[n]) < Len(q) => n < Len(msgs)
               /\ \A body \in Seq(Seq(Field)) :
                     Len(body) = Len(Sent[n]) - 1 /\ (\A k \in 1 .. Len(body) : body[k] = Sent[n][k + 1].v)
                     => R!ParseFromByteArray(IF Sent[n][1].flag THEN R!Gunzip(body) ELSE [i \in 1 .. Len(body) |-> body[i][1]]) = msgs[n]
<1> DEFINE n == Len(received) + 1
<1>1. RockTypeOK
  BY DEF RockInv
<1>2. /\ Sent \in Seq(Seq(Unit)) /\ Len(Sent) = Len(msgs) /\ Len(msgs) \in Nat
      /\ \A i \in 1 .. Len(msgs) : Sent[i] = R!Units(i, msgs[i]) /\ Sent[i] \in Seq(Unit)
  BY <1>1, SentFacts
<1>3. n \in 1 .. (Len(Sent) + 1)
  BY <1>1, <1>2 DEF RockTypeOK
<1> HIDE DEF n
<1>4. Stream(Sent, q, n)
  BY DEF n
<1>5. /\ n <= Len(Sent) /\ Sent[n] \in Seq(Unit) /\ Len(Sent[n]) <= Len(q)
      /\ \A k \in 1 .. Len(Sent[n]) : q[k] = Sent[n][k]
      /\ Len(Sent[n]) < Len(q) => n < Len(Sent)
  BY <1>2, <1>3, <1>4, StreamFirst
<1>6. n \in 1 .. Len(msgs) /\ n \in Nat
  BY <1>2, <1>3, <1>5
<1>7. msgs[n] \in Messages /\ xftp = (msgs[n].file # <<>>) /\ Sent[n] = R!Units(n, msgs[n])
  BY <1>1, <1>2, <1>6 DEF RockTypeOK
<1>8. /\ Len(Sent[n]) >= 2
      /\ Sent[n][1].v = <<"head">> /\ Sent[n][1].len = Len(Sent[n]) - 1
      /\ \A body \in Seq(Seq(Field)) :
            Len(body) = Len(Sent[n]) - 1 /\ (\A k \in 1 .. Len(body) : body[k] = Sent[n][k + 1].v)
            => R!ParseFromByteArray(IF Sent[n][1].flag THEN R!Gunzip(body) ELSE [i \in 1 .. Len(body) |-> body[i][1]]) = msgs[n]
  BY ONLY <1>6, <1>7, UnitsFacts
<1> QED
  BY ONLY <1>2, <1>5, <1>6, <1>8 DEF n

LEMMA RockReadsHead ==
    ASSUME RockInv, R!ReadHead
    PROVE  RockInv'
<1>1. /\ in.pc = "head" /\ rocks # <<>> /\ rocks' = Tail(rocks)
      /\ in' = IF Head(rocks).v # <<"head">> \/ (~xftp /\ Head(rocks).len > MaxLength) THEN [in EXCEPT !.pc = "failed"]
               ELSE [pc |-> "body", head |-> <<Head(rocks)>>, ba |-> <<>>, left |-> Head(rocks).len]
      /\ UNCHANGED <<xftp, out, msgs, received, over>>
  BY DEF R!ReadHead
<1>2. RockTypeOK /\ SidesFit /\ StreamFits /\ EndsFit
  BY DEF RockInv
<1>3. /\ out \in Sender /\ in \in Receiver /\ rocks \in Seq(Unit) /\ over \in BOOLEAN
      /\ ~over /\ in.head = <<>> /\ in.ba = <<>>
  BY <1>1, <1>2 DEF RockTypeOK, Sender, Receiver, SidesFit, EndsFit
<1>4. PICK rest \in Seq(Unit) : (out.pc # "closed" => rest = out.left) /\ Stream(Sent, Whole(rest), Len(received) + 1)
  BY <1>1, <1>2, <1>3 DEF StreamFits
<1> DEFINE n == Len(received) + 1
           h == Head(rocks)
           t == Tail(rocks)
<1>5. h = rocks[1] /\ h \in Unit /\ t \in Seq(Unit) /\ <<h>> \in Seq(Unit) /\ <<h>> \o t = rocks /\ Len(rocks) >= 1
  BY <1>1, <1>3
<1>6. Whole(rest) = Cat(rocks, rest)
  <2>1. Whole(rest) = Cat(Cat(<<>>, rocks), rest)
    BY <1>3, CatNothing DEF Whole
  <2>2. Cat(<<>>, rocks) = rocks
    BY <1>3, CatEmpty
  <2> QED
    BY ONLY <2>1, <2>2
<1>7. /\ Cat(rocks, rest) \in Seq(Unit) /\ Cat(rocks, rest) # <<>> /\ Cat(rocks, rest)[1] = h
  <2>1. rocks \in Seq(Unit) /\ rest \in Seq(Unit) /\ Len(rocks) >= 1 /\ h = rocks[1]
    BY <1>3, <1>5
  <2> HIDE DEF h
  <2> QED
    BY ONLY <2>1 DEF Cat
<1> HIDE DEF h, t
<1>8. /\ n \in 1 .. Len(msgs) /\ Sent[n] \in Seq(Unit) /\ Len(Sent[n]) >= 2
      /\ Sent[n][1].v = <<"head">> /\ Sent[n][1].len = Len(Sent[n]) - 1
      /\ h = Sent[n][1]
  <2>1. Stream(Sent, Cat(rocks, rest), n)
    BY <1>4, <1>6
  <2>2. /\ n \in 1 .. Len(msgs) /\ Sent[n] \in Seq(Unit) /\ Len(Sent[n]) >= 2
        /\ Sent[n][1].v = <<"head">> /\ Sent[n][1].len = Len(Sent[n]) - 1
        /\ \A k \in 1 .. Len(Sent[n]) : Cat(rocks, rest)[k] = Sent[n][k]
    BY <1>7, <2>1, RockFront
  <2>3. 1 \in 1 .. Len(Sent[n])
    BY <2>2
  <2> QED
    BY <1>7, <2>2, <2>3
<1>9. h.len \in Nat /\ h.len >= 1
  <2>1. h.len \in Nat
    BY <1>5 DEF Unit
  <2>2. h.len = Len(Sent[n]) - 1 /\ Len(Sent[n]) \in Nat /\ Len(Sent[n]) >= 2
    BY <1>8
  <2> QED
    BY ONLY <2>1, <2>2
<1>10. CASE ~xftp /\ h.len > MaxLength
  <2>1. in' = [in EXCEPT !.pc = "failed"]
    BY <1>1, <1>10 DEF h
  <2>2. in' \in Receiver /\ in'.pc = "failed"
    BY <1>3, <2>1 DEF Receiver
  <2>3. RockTypeOK' /\ Sent' = Sent
    BY <1>1, <1>3, <1>5, <2>2, RockKeeps DEF t
  <2>4. StreamFits' /\ SidesFit'
    BY <1>1, <1>2, <2>2 DEF StreamFits, SidesFit
  <2>5. EndsFit'
    <3>1. \E i \in 1 .. Len(msgs) : Sent[i][1].len > MaxLength
      BY <1>8, <1>10
    <3> QED
      BY <1>1, <1>3, <1>10, <2>3, <3>1 DEF EndsFit
  <2> QED
    BY <2>3, <2>4, <2>5 DEF RockInv
<1>11. CASE ~(~xftp /\ h.len > MaxLength)
  <2>1. in' = [pc |-> "body", head |-> <<h>>, ba |-> <<>>, left |-> h.len]
    BY <1>1, <1>8, <1>11 DEF h
  <2>2. in' \in Receiver
    BY <1>5, <1>9, <2>1 DEF Receiver
  <2>3. RockTypeOK' /\ Sent' = Sent
    BY <1>1, <1>3, <1>5, <2>2, RockKeeps DEF t
  <2>4. SidesFit'
    <3>1. /\ in'.pc = "body" /\ in'.head = <<h>> /\ in'.ba = <<>> /\ in'.left = h.len /\ Len(<<h>>) = 1
          /\ <<h>>[1] = h /\ Len(<<>>) = 0
      BY <2>1
    <3> QED
      BY <1>1, <1>2, <1>9, <3>1 DEF SidesFit
  <2>5. Whole(rest)' = Cat(rocks, rest)
    <3>1. Whole(rest)' = Cat(Cat(Cat(<<h>>, <<>>), t), rest)
      BY <1>1, <2>1 DEF Whole, t
    <3>2. Cat(<<h>>, <<>>) = <<h>>
      BY <1>5, CatEmpty
    <3>3. Cat(<<h>>, t) = rocks
      BY <1>5 DEF Cat
    <3> QED
      BY <3>1, <3>2, <3>3
  <2>6. StreamFits'
    <3>1. Stream(Sent, Whole(rest)', Len(received) + 1)
      BY <1>4, <1>6, <2>5
    <3> QED
      BY <1>1, <1>4, <2>3, <3>1 DEF StreamFits
  <2>7. EndsFit'
    BY <1>1, <1>3, <2>1 DEF EndsFit
  <2> QED
    BY <2>3, <2>4, <2>6, <2>7 DEF RockInv
<1> QED
  BY <1>10, <1>11

\* What is where in the stream.
LEMMA WholeParts ==
    ASSUME in.head \in Seq(Unit), in.ba \in Seq(Unit), rocks \in Seq(Unit), NEW r \in Seq(Unit)
    PROVE  LET q == Whole(r)
               s == Cat(rocks, r)
           IN  /\ q \in Seq(Unit) /\ s \in Seq(Unit) /\ Len(s) = Len(rocks) + Len(r)
               /\ Len(q) = Len(in.head) + Len(in.ba) + Len(s)
               /\ \A i \in 1 .. Len(in.head) : q[i] = in.head[i]
               /\ \A i \in 1 .. Len(in.ba) : q[Len(in.head) + i] = in.ba[i]
               /\ \A i \in 1 .. Len(s) : q[Len(in.head) + Len(in.ba) + i] = s[i]
<1> DEFINE C == Unit
           h == in.head
           b == in.ba
           w == rocks
           q == Cat(Cat(Cat(h, b), w), r)
           s == Cat(w, r)
           a == Cat(h, b)
<1>0. h \in Seq(C) /\ b \in Seq(C) /\ w \in Seq(C) /\ r \in Seq(C) /\ q = Whole(r)
  BY DEF Whole
<1> HIDE DEF C, h, b, w
<1>1. a \in Seq(C) /\ s \in Seq(C)
  BY <1>0, CatSeq
<1>2. q = Cat(a, s)
  BY <1>0, <1>1, CatAssociative
<1>3. Len(s) = Len(w) + Len(r)
  BY <1>0, CatLen
<1>4. Len(h) \in Nat /\ Len(b) \in Nat
  BY <1>0
<1>5. /\ Len(a) = Len(h) + Len(b)
      /\ \A i \in 1 .. Len(h) : a[i] = h[i]
      /\ \A i \in 1 .. Len(b) : a[Len(h) + i] = b[i]
  BY <1>0 DEF Cat
<1> HIDE DEF q, s, a
<1>6. /\ q \in Seq(C) /\ Len(q) = Len(a) + Len(s)
      /\ \A i \in 1 .. Len(a) : q[i] = a[i]
      /\ \A i \in 1 .. Len(s) : q[Len(a) + i] = s[i]
  BY ONLY <1>1, <1>2 DEF Cat
<1>7. \A i \in 1 .. Len(h) : i \in 1 .. Len(a)
  BY ONLY <1>4, <1>5
<1>8. \A i \in 1 .. Len(b) : Len(h) + i \in 1 .. Len(a)
  BY ONLY <1>4, <1>5
<1> QED
  <2>1. /\ q \in Seq(C) /\ s \in Seq(C) /\ Len(s) = Len(w) + Len(r) /\ Len(q) = Len(h) + Len(b) + Len(s)
        /\ \A i \in 1 .. Len(h) : q[i] = h[i]
        /\ \A i \in 1 .. Len(b) : q[Len(h) + i] = b[i]
        /\ \A i \in 1 .. Len(s) : q[Len(h) + Len(b) + i] = s[i]
    BY ONLY <1>1, <1>3, <1>5, <1>6, <1>7, <1>8
  <2> QED
    BY ONLY <1>0, <2>1 DEF C, h, b, w, s

LEMMA RockReadsBody ==
    ASSUME RockInv, R!ReadBody
    PROVE  RockInv'
<1> DEFINE size == IF in.left < 0 THEN RockBuffer ELSE R!Min({in.left, RockBuffer})
<1>1. PICK k \in 1 .. R!Min({R!Room(size), Len(rocks)}) :
          /\ in' = [in EXCEPT !.ba = @ \o SubSeq(rocks, 1, k),
                              !.left = IF in.left < k THEN -1 ELSE @ - k,
                              !.pc = IF in.left = k THEN "parse" ELSE "body"]
          /\ over' = (over \/ in.left < k)
          /\ rocks' = SubSeq(rocks, k + 1, Len(rocks))
  BY Zenon DEF R!ReadBody
<1>2. in.pc = "body" /\ rocks # <<>> /\ UNCHANGED <<xftp, out, msgs, received>>
  BY DEF R!ReadBody
<1>3. RockTypeOK /\ SidesFit /\ StreamFits /\ EndsFit
  BY DEF RockInv
<1>4. /\ out \in Sender /\ in \in Receiver /\ rocks \in Seq(Unit) /\ over \in BOOLEAN
      /\ in.head \in Seq(Unit) /\ in.ba \in Seq(Unit) /\ in.left \in Int
      /\ Len(rocks) \in Nat /\ Len(in.ba) \in Nat
  BY <1>3 DEF RockTypeOK, Sender, Receiver
<1>5. k \in 1 .. Len(rocks)
  <2>1. RockBuffer \in Int /\ NodeSize \in Nat \ {0}
    BY MessagesAssumption
  <2>2. size \in Int
    BY <1>4, <2>1, MinOfTwo
  <2> HIDE DEF size
  <2> DEFINE room == R!Room(size)
  <2>3. room \in Int
    <3> DEFINE m == Len(in.ba) + size - 1
               d == m \div NodeSize
    <3>1. m \in Int
      BY ONLY <1>4, <2>2
    <3>2. room = (d + 1) * NodeSize - Len(in.ba)
      BY DEF R!Room
    <3> HIDE DEF m
    <3>3. d \in Int
      BY ONLY <2>1, <3>1
    <3> HIDE DEF d, room
    <3> QED
      BY ONLY <1>4, <2>1, <3>2, <3>3
  <2>4. k \in 1 .. R!Min({room, Len(rocks)})
    OBVIOUS
  <2> HIDE DEF room
  <2>5. R!Min({room, Len(rocks)}) \in Int /\ R!Min({room, Len(rocks)}) <= Len(rocks)
    <3>1. Len(rocks) \in Int
      BY <1>4
    <3> QED
      BY ONLY <2>3, <3>1, MinOfTwo
  <2> QED
    BY ONLY <1>4, <2>4, <2>5
<1> DEFINE x == First(rocks, k)
           y == After(rocks, k)
           n == Len(received) + 1
<1> HIDE DEF size
<1>6. x \in Seq(Unit) /\ y \in Seq(Unit) /\ Len(x) = k /\ k \in Nat /\ k >= 1
  <2>1. k \in 0 .. Len(rocks)
    BY <1>4, <1>5
  <2> QED
    BY ONLY <1>4, <1>5, <2>1, Shift
<1>7. /\ in'.ba = Cat(in.ba, x) /\ in'.head = in.head /\ rocks' = y
      /\ in'.left = IF in.left < k THEN -1 ELSE in.left - k
      /\ in'.pc = IF in.left = k THEN "parse" ELSE "body"
  BY <1>1, <1>4 DEF Receiver, First, After, Cat
<1>8. in' \in Receiver
  <2>1. in.ba \o SubSeq(rocks, 1, k) \in Seq(Unit)
    BY <1>4, <1>6, CatSeq DEF Cat, First
  <2> DEFINE a == in.ba \o SubSeq(rocks, 1, k)
             l == IF in.left < k THEN -1 ELSE in.left - k
             pc == IF in.left = k THEN "parse" ELSE "body"
  <2>2. a \in Seq(Unit) /\ l \in Int /\ pc \in {"head", "body", "parse", "failed"}
    BY <1>4, <1>6, <2>1
  <2>3. in' = [in EXCEPT !.ba = a, !.left = l, !.pc = pc]
    BY <1>1
  <2> HIDE DEF a, l, pc
  <2> QED
    BY ONLY <1>4, <2>2, <2>3 DEF Receiver
<1> HIDE DEF x, y
<1>9. RockTypeOK' /\ Sent' = Sent
  <2>1. over' \in BOOLEAN
    BY <1>1
  <2> QED
    BY <1>2, <1>4, <1>6, <1>7, <1>8, <2>1, RockKeeps
<1>10. Len(in.head) = 1
  BY <1>2, <1>3 DEF SidesFit
<1>11. CASE over
  <2>1. in.left = -1 /\ Len(msgs) > Len(received) + 1
    BY <1>2, <1>3, <1>11 DEF EndsFit
  <2>2. over' /\ in'.pc = "body" /\ in'.left = -1
    <3>1. in.left < k /\ in.left # k
      BY ONLY <1>6, <2>1
    <3> QED
      BY <1>1, <1>7, <1>11, <3>1
  <2>3. SidesFit'
    BY <1>2, <1>3, <1>7, <1>10, <2>2 DEF SidesFit
  <2>4. StreamFits' /\ EndsFit'
    BY <1>2, <2>1, <2>2 DEF StreamFits, EndsFit
  <2> QED
    BY <1>9, <2>3, <2>4 DEF RockInv
<1>12. CASE ~over
  <2>1. PICK rest \in Seq(Unit) : (out.pc # "closed" => rest = out.left) /\ Stream(Sent, Whole(rest), n)
    BY <1>2, <1>3, <1>12 DEF StreamFits
  <2> DEFINE q == Whole(rest)
  <2>2. /\ q \in Seq(Unit) /\ Len(q) = Len(in.head) + Len(in.ba) + (Len(rocks) + Len(rest))
        /\ \A i \in 1 .. Len(in.head) : q[i] = in.head[i]
    <3>1. /\ q \in Seq(Unit) /\ Len(Cat(rocks, rest)) = Len(rocks) + Len(rest)
          /\ Len(q) = Len(in.head) + Len(in.ba) + Len(Cat(rocks, rest))
          /\ \A i \in 1 .. Len(in.head) : q[i] = in.head[i]
      BY <1>4, WholeParts
    <3> QED
      BY <3>1
  <2> HIDE DEF q
  <2>3. Len(rest) \in Nat /\ q # <<>> /\ q[1] = in.head[1] /\ Len(q) >= 1 + Len(in.ba) + k
    <3>1. Len(rest) \in Nat
      OBVIOUS
    <3>2. Len(q) >= 1 + Len(in.ba) + k /\ Len(q) >= 1
      <4> DEFINE a == Len(q)
                 b == Len(in.head)
                 c == Len(in.ba)
                 d == Len(rocks)
                 e == Len(rest)
      <4>1. a = b + c + (d + e) /\ b = 1 /\ c \in Nat /\ d \in Nat /\ e \in Nat /\ k \in 1 .. d
        BY <1>4, <1>5, <1>10, <2>2, <3>1
      <4> HIDE DEF a, b, c, d, e
      <4>2. a >= 1 + c + k /\ a >= 1
        BY ONLY <4>1
      <4> QED
        BY <4>2 DEF a, c
    <3>3. 1 \in 1 .. Len(in.head)
      BY <1>10
    <3>4. q # <<>>
      <4>1. q \in Seq(Unit)
        BY <2>2
      <4> QED
        BY ONLY <3>2, <4>1
    <3>5. q[1] = in.head[1]
      BY <2>2, <3>3
    <3> QED
      BY <3>1, <3>2, <3>4, <3>5
  <2>4. /\ n \in 1 .. Len(msgs) /\ Len(Sent[n]) \in Nat /\ Sent[n][1].len = Len(Sent[n]) - 1
        /\ in.head[1] = Sent[n][1]
        /\ Len(Sent[n]) < Len(q) => n < Len(msgs)
    <3>1. Stream(Sent, q, n)
      BY <2>1 DEF q
    <3>2. /\ n \in 1 .. Len(msgs) /\ Sent[n] \in Seq(Unit) /\ Sent[n][1].len = Len(Sent[n]) - 1 /\ Len(Sent[n]) >= 2
          /\ Len(Sent[n]) < Len(q) => n < Len(msgs)
          /\ \A i \in 1 .. Len(Sent[n]) : q[i] = Sent[n][i]
      BY <2>2, <2>3, <3>1, RockFront
    <3>3. 1 \in 1 .. Len(Sent[n]) /\ Len(Sent[n]) \in Nat
      BY <3>2
    <3> QED
      BY <2>3, <3>2, <3>3
  <2>5. in.left > 0 /\ Len(in.ba) + in.left = Len(Sent[n]) - 1
    BY <1>2, <1>3, <1>12, <2>4 DEF SidesFit
  <2>6. Whole(rest)' = q
    <3>1. Whole(rest)' = Cat(Cat(Cat(in.head, Cat(in.ba, x)), y), rest)
      BY <1>7 DEF Whole
    <3>2. k \in 0 .. Len(rocks)
      BY <1>4, <1>5
    <3>3. Cat(Cat(in.head, Cat(in.ba, x)), y) = Cat(Cat(in.head, in.ba), rocks)
      BY ONLY <1>4, <3>2, ShiftIn DEF x, y
    <3> QED
      BY <3>1, <3>3 DEF Whole, q
  <2>7. CASE in.left < k
    <3>1. over' /\ in'.pc = "body" /\ in'.left = -1
      <4>1. in.left # k
        BY ONLY <1>4, <1>6, <2>7
      <4> QED
        BY <1>1, <1>7, <2>7, <4>1
    <3>2. n < Len(msgs)
      <4>1. Len(Sent[n]) < Len(q)
        <5>1. Len(q) \in Nat
          <6>1. q \in Seq(Unit)
            BY <2>2
          <6> QED
            BY ONLY <6>1
        <5> DEFINE a == Len(q)
                   b == Len(Sent[n])
                   c == Len(in.ba)
                   d == in.left
        <5>2. /\ a \in Nat /\ b \in Nat /\ c \in Nat /\ d \in Int /\ k \in Nat
              /\ a >= 1 + c + k /\ d < k /\ c + d = b - 1
          BY <1>4, <1>6, <2>3, <2>4, <2>5, <2>7, <5>1
        <5> HIDE DEF a, b, c, d
        <5>3. b < a
          BY ONLY <5>2
        <5> QED
          BY <5>3 DEF a, b
      <4> QED
        BY <2>4, <4>1
    <3>3. SidesFit'
      BY <1>2, <1>3, <1>7, <1>10, <3>1 DEF SidesFit
    <3>4. Len(msgs') > Len(received') + 1
      BY <1>2, <1>3, <2>4, <3>2 DEF RockTypeOK
    <3>5. StreamFits' /\ EndsFit'
      BY <1>2, <3>1, <3>4 DEF StreamFits, EndsFit
    <3> QED
      BY <1>9, <3>3, <3>5 DEF RockInv
  <2>8. CASE ~(in.left < k)
    <3>1. /\ over' = over /\ in'.left = in.left - k /\ in'.pc \in {"body", "parse"}
          /\ (in'.pc = "parse" <=> in.left = k)
      <4>1. over' = over
        BY <1>1, <1>4, <1>12, <2>8
      <4> QED
        BY <1>7, <2>8, <4>1
    <3>2. Len(in'.ba) = Len(in.ba) + k
      <4>1. in.ba \in Seq(Unit) /\ x \in Seq(Unit) /\ Len(x) = k
        BY <1>4, <1>6
      <4>2. in'.ba = Cat(in.ba, x)
        BY <1>7
      <4> QED
        BY ONLY <4>1, <4>2, CatLen
    <3>3. in.head[1].len = Len(Sent[n]) - 1
      BY <2>4
    <3>4. SidesFit'
      <4>1. in'.pc = "body" => in'.left > 0 /\ Len(in'.ba) + in'.left = in.head[1].len
        <5> DEFINE a == Len(in'.ba)
                   b == Len(Sent[n])
                   c == Len(in.ba)
                   d == in.left
                   e == in'.left
                   f == in.head[1].len
        <5>1. /\ b \in Nat /\ c \in Nat /\ d \in Int /\ k \in Nat /\ a = c + k /\ e = d - k
              /\ f = b - 1 /\ c + d = b - 1 /\ ~(d < k)
          BY <1>4, <1>6, <2>4, <2>5, <2>8, <3>1, <3>2, <3>3
        <5>2. in'.pc = "body" => d # k
          BY <3>1
        <5> HIDE DEF a, b, c, d, e, f
        <5>3. (d # k => e > 0) /\ a + e = f
          BY ONLY <5>1
        <5> QED
          BY <5>2, <5>3 DEF a, e, f
      <4>2. in'.pc = "parse" => Len(in'.ba) = in.head[1].len
        BY ONLY <1>4, <1>6, <2>4, <2>5, <3>1, <3>2, <3>3
      <4> QED
        BY <1>2, <1>3, <1>7, <1>10, <3>1, <4>1, <4>2 DEF SidesFit
    <3>5. StreamFits'
      BY <1>2, <1>9, <2>1, <2>6 DEF StreamFits, q
    <3>6. EndsFit'
      BY <1>12, <3>1 DEF EndsFit
    <3> QED
      BY <1>9, <3>4, <3>5, <3>6 DEF RockInv
  <2> QED
    BY <2>7, <2>8
<1> QED
  BY <1>11, <1>12

LEMMA RockParses ==
    ASSUME RockInv, R!ParseFromStream
    PROVE  RockInv'
<1> DEFINE body == [i \in 1 .. Len(in.ba) |-> in.ba[i].v]
           n == Len(received) + 1
<1>1. /\ in.pc = "parse" /\ UNCHANGED <<xftp, out, rocks, msgs, over>>
      /\ in' = [pc |-> "head", head |-> <<>>, ba |-> <<>>, left |-> 0]
      /\ received' = Append(received, R!ParseFromByteArray(IF Head(in.head).flag THEN R!Gunzip(body)
                                                           ELSE [i \in 1 .. Len(body) |-> body[i][1]]))
  BY DEF R!ParseFromStream, R!Idle
<1>2. RockTypeOK /\ SidesFit /\ StreamFits /\ EndsFit
  BY DEF RockInv
<1>3. /\ ~over /\ Len(in.head) = 1 /\ Len(in.ba) = in.head[1].len
      /\ in.head \in Seq(Unit) /\ in.ba \in Seq(Unit) /\ rocks \in Seq(Unit) /\ Len(in.ba) \in Nat
      /\ xftp \in BOOLEAN /\ out \in Sender
  BY <1>1, <1>2 DEF RockTypeOK, SidesFit, EndsFit, Receiver, Sender
<1>4. PICK rest \in Seq(Unit) : (out.pc # "closed" => rest = out.left) /\ Stream(Sent, Whole(rest), n)
  BY <1>1, <1>2, <1>3 DEF StreamFits
<1> DEFINE q == Whole(rest)
           s == Cat(rocks, rest)
<1>5. /\ q \in Seq(Unit) /\ s \in Seq(Unit) /\ Len(q) = 1 + Len(in.ba) + Len(s)
      /\ q[1] = in.head[1]
      /\ \A i \in 1 .. Len(in.ba) : q[1 + i] = in.ba[i]
      /\ \A i \in 1 .. Len(s) : q[1 + Len(in.ba) + i] = s[i]
  <2>1. /\ q \in Seq(Unit) /\ s \in Seq(Unit) /\ Len(q) = Len(in.head) + Len(in.ba) + Len(s)
        /\ \A i \in 1 .. Len(in.head) : q[i] = in.head[i]
        /\ \A i \in 1 .. Len(in.ba) : q[Len(in.head) + i] = in.ba[i]
        /\ \A i \in 1 .. Len(s) : q[Len(in.head) + Len(in.ba) + i] = s[i]
    BY <1>3, WholeParts DEF Whole
  <2>2. 1 \in 1 .. Len(in.head)
    BY <1>3
  <2> QED
    BY <1>3, <2>1, <2>2
<1>6. Stream(Sent, q, n)
  BY <1>4
<1> HIDE DEF q, s
<1>7. Len(s) \in Nat /\ q # <<>>
  <2>1. Len(s) \in Nat
    BY <1>5
  <2>2. Len(q) >= 1 /\ q \in Seq(Unit)
    <3> DEFINE a == Len(q)
               b == Len(in.ba)
               c == Len(s)
    <3>1. a = 1 + b + c /\ b \in Nat /\ c \in Nat
      BY <1>3, <1>5, <2>1
    <3> HIDE DEF a, b, c
    <3>2. a >= 1
      BY ONLY <3>1
    <3> QED
      BY <1>5, <3>2 DEF a
  <2>3. q # <<>>
    BY ONLY <2>2
  <2> QED
    BY <2>1, <2>3
<1>8. /\ n \in 1 .. Len(msgs) /\ n \in 1 .. Len(Sent) /\ Sent \in Seq(Seq(Unit))
      /\ Len(Sent[n]) >= 2 /\ Sent[n] \in Seq(Unit)
      /\ Sent[n][1].len = Len(Sent[n]) - 1
      /\ \A i \in 1 .. Len(Sent[n]) : q[i] = Sent[n][i]
      /\ \A b \in Seq(Seq(Field)) :
            Len(b) = Len(Sent[n]) - 1 /\ (\A i \in 1 .. Len(b) : b[i] = Sent[n][i + 1].v)
            => R!ParseFromByteArray(IF Sent[n][1].flag THEN R!Gunzip(b) ELSE [i \in 1 .. Len(b) |-> b[i][1]]) = msgs[n]
  BY <1>5, <1>6, <1>7, RockFront
<1>9. Len(Sent[n]) \in Nat /\ 1 \in 1 .. Len(Sent[n])
  BY <1>8
<1>10. Head(in.head) = Sent[n][1] /\ in.head[1] = Sent[n][1]
  <2>1. Head(in.head) = in.head[1]
    BY <1>3
  <2> QED
    BY <1>5, <1>8, <1>9, <2>1
<1>11. Len(in.ba) = Len(Sent[n]) - 1
  BY <1>3, <1>8, <1>10
<1>12. body \in Seq(Seq(Field)) /\ Len(body) = Len(in.ba)
  <2>1. \A i \in 1 .. Len(in.ba) : body[i] \in Seq(Field)
    <3> TAKE i \in 1 .. Len(in.ba)
    <3>1. in.ba[i] \in Unit
      BY <1>3
    <3> QED
      BY <3>1 DEF Unit
  <2>2. body = [i \in 1 .. Len(in.ba) |-> body[i]]
    OBVIOUS
  <2> HIDE DEF body
  <2> QED
    BY ONLY <1>3, <2>1, <2>2, ListIsSeq
<1>13. \A i \in 1 .. Len(body) : body[i] = Sent[n][i + 1].v
  <2> TAKE i \in 1 .. Len(body)
  <2>1. i \in 1 .. Len(in.ba) /\ i + 1 \in 1 .. Len(Sent[n]) /\ 1 + i = i + 1
    <3>1. i \in 1 .. Len(in.ba)
      BY <1>12
    <3> HIDE DEF body
    <3> QED
      BY ONLY <1>9, <1>11, <3>1
  <2>2. body[i] = in.ba[i].v
    BY <2>1
  <2>3. in.ba[i] = q[i + 1] /\ q[i + 1] = Sent[n][i + 1]
    BY <1>5, <1>8, <2>1
  <2> QED
    BY <2>2, <2>3
<1> HIDE DEF body
<1>14. received' = Append(received, msgs[n])
  <2>1. R!ParseFromByteArray(IF Sent[n][1].flag THEN R!Gunzip(body) ELSE [i \in 1 .. Len(body) |-> body[i][1]]) = msgs[n]
    BY <1>8, <1>11, <1>12, <1>13
  <2> QED
    BY <1>1, <1>10, <2>1
<1>15. msgs[n] \in Messages /\ received \in Seq(Messages) /\ Len(received) \in Nat /\ Len(received) <= Len(msgs) /\ n <= Len(msgs)
  BY <1>2, <1>8 DEF RockTypeOK
<1>16. /\ received' \in Seq(Messages) /\ Len(received') = n
       /\ \A i \in 1 .. n : received'[i] = msgs[i]
  <2>1. /\ received' \in Seq(Messages) /\ Len(received') = n /\ received'[n] = msgs[n]
        /\ \A i \in 1 .. Len(received) : received'[i] = received[i]
    BY <1>14, <1>15
  <2>2. \A i \in 1 .. Len(received) : received[i] = msgs[i]
    BY <1>2 DEF RockTypeOK
  <2>3. \A i \in 1 .. n : i = n \/ i \in 1 .. Len(received)
    BY <1>15
  <2> QED
    BY ONLY <2>1, <2>2, <2>3
<1>17. Sent' = Sent
  BY <1>1, SentSame
<1>18. RockTypeOK'
  <2>1. in' \in Receiver
    BY <1>1 DEF Receiver
  <2>2. /\ xftp' \in BOOLEAN /\ over' \in BOOLEAN /\ msgs' \in Seq(Messages) /\ out' \in Sender /\ rocks' \in Seq(Unit)
        /\ \A i \in 1 .. Len(msgs') : xftp' = (msgs'[i].file # <<>>)
    BY <1>1, <1>2, <1>3 DEF RockTypeOK
  <2>3. Len(received') <= Len(msgs') /\ \A i \in 1 .. Len(received') : received'[i] = msgs'[i]
    BY <1>1, <1>15, <1>16
  <2> QED
    BY ONLY <1>16, <2>1, <2>2, <2>3 DEF RockTypeOK, Sender, Receiver
<1>19. SidesFit'
  BY <1>1, <1>2 DEF SidesFit
<1>20. StreamFits'
  <2>1. Whole(rest)' = s
    <3>1. Whole(rest)' = Cat(Cat(Cat(<<>>, <<>>), rocks), rest)
      BY <1>1 DEF Whole
    <3>2. Cat(<<>>, rocks) = rocks
      BY <1>3, CatEmpty
    <3> QED
      BY ONLY <3>1, <3>2, CatNothing DEF s
  <2>2. Len(q) = Len(Sent[n]) + Len(s)
    BY <1>3, <1>5, <1>7, <1>9, <1>11
  <2>3. \A i \in 1 .. Len(s) : s[i] = q[Len(Sent[n]) + i]
    <3>1. 1 + Len(in.ba) = Len(Sent[n])
      BY <1>3, <1>9, <1>11
    <3> QED
      BY <1>5, <3>1
  <2>4. q \in Seq(Unit) /\ s \in Seq(Unit)
    BY <1>5
  <2>5. Stream(Sent, s, n + 1)
    BY ONLY <1>6, <1>8, <2>2, <2>3, <2>4, StreamRest
  <2>6. Stream(Sent, Whole(rest)', Len(received') + 1)
    BY <1>16, <2>1, <2>5
  <2> QED
    BY <1>1, <1>4, <1>17, <2>6 DEF StreamFits
<1>21. EndsFit'
  BY <1>1, <1>3 DEF EndsFit
<1> QED
  BY <1>18, <1>19, <1>20, <1>21 DEF RockInv

LEMMA RockInvNext == RockPartInv /\ [Next]_vars => RockPartInv'
<1> SUFFICES ASSUME RockInv, R!WireNext \/ UNCHANGED rockVars
             PROVE  RockInv'
  BY RockFrame DEF RockPartInv
<1>1. ASSUME NEW m \in Messages, R!SerializeToStream(m)
      PROVE  RockInv'
  BY <1>1, RockSends
<1>2. CASE R!WriteFixSize
  BY <1>2, RockWrites
<1>3. CASE R!WriteFails \/ R!ReadFails \/ UNCHANGED rockVars
  BY <1>3, RockEnds
<1>4. CASE R!ReadHead
  BY <1>4, RockReadsHead
<1>5. CASE R!ReadBody
  BY <1>5, RockReadsBody
<1>6. CASE R!ParseFromStream
  BY <1>6, RockParses
<1> QED
  BY <1>1, <1>2, <1>3, <1>4, <1>5, <1>6 DEF R!WireNext

LEMMA RockKept == RockPartInv => (which = "rock" => R!MessagesKept)
<1> SUFFICES ASSUME RockInv PROVE R!MessagesKept
  BY DEF RockPartInv
<1>1. RockTypeOK /\ EndsFit
  BY DEF RockInv
<1>2. R!IsPrefix(received, msgs)
  <2>1. /\ received \in Seq(Messages) /\ msgs \in Seq(Messages) /\ Len(received) <= Len(msgs)
        /\ \A i \in 1 .. Len(received) : received[i] = msgs[i]
    BY <1>1 DEF RockTypeOK
  <2> DEFINE a == SubSeq(received, 1, Len(received))
             b == SubSeq(msgs, 1, Len(received))
  <2>2. a \in Seq(Messages) /\ Len(a) = Len(received) /\ \A i \in 1 .. Len(received) : a[i] = received[i]
    BY <2>1
  <2>3. b \in Seq(Messages) /\ Len(b) = Len(received) /\ \A i \in 1 .. Len(received) : b[i] = msgs[i]
    BY <2>1
  <2> HIDE DEF a, b
  <2>4. a = b
    BY ONLY <2>1, <2>2, <2>3, SeqEqual
  <2> QED
    BY <2>1, <2>4 DEF R!IsPrefix, a, b
<1>3. in.pc = "failed" /\ ~over => out.pc = "closed" \/ (~xftp /\ \E i \in 1 .. Len(msgs) : R!Units(i, msgs[i])[1].len > MaxLength)
  BY <1>1, SentFacts DEF EndsFit
<1>4. over => Len(msgs) > Len(received) + 1
  BY <1>1 DEF EndsFit
<1> QED
  BY <1>2, <1>3, <1>4 DEF R!MessagesKept

\* However the bytes of a stream are cut, its receiver gets the messages that were sent,
\* whole and in order (rock_protocol.cpp, stream.cpp); and an XFTP session answers every
\* packet once and writes a file's packets in order (xftp_server.cpp).
THEOREM MessagesAreKept == Spec => []MessagesKept
<1>1. Init => RockPartInv /\ XftpPartInv
  BY RockInvInit, XftpInvInit DEF RockPartInv, XftpPartInv
<1>2. (RockPartInv /\ XftpPartInv) /\ [Next]_vars => (RockPartInv /\ XftpPartInv)'
  BY RockInvNext, XftpInvNext
<1>3. RockPartInv /\ XftpPartInv => MessagesKept
  BY RockKept, XftpAnsweredOnce DEF MessagesKept
<1> QED
  BY <1>1, <1>2, <1>3, PTL DEF Spec
-----------------------------------------------------------------------------
(***************************************************************************)
(* WsSession.  That the servlet gets whole messages rests on what the      *)
(* reader keeps of an unfinished one (ReaderFits): its fragments, none of  *)
(* them the last, and no data frame is left out behind them while it still *)
(* reads and is in step with the client; once it is not, nothing that it   *)
(* hands over is a message.  That the client gets the queued messages whole and in order     *)
(* rests on the numbers in the queue and the writer's batch being          *)
(* consecutive and on the last piece written being the one before the      *)
(* piece the writer is at (WriterFits).  That a session which is done has  *)
(* no writer at work is a matter of the one permit (PermitFits).           *)
(***************************************************************************)
PieceNames == {"pong", "head", "length", "data"}
ReaderPlaces == {"shake", "connect", "start", "run", "handle", "end", "force", "join", "close", "done"}
WriterPlaces == {"none", "scheduled", "lock", "wait", "send", "stop", "post", "done"}
InFrame == [op : FrameOps, fin : BOOLEAN, mask : BOOLEAN, size : Sizes]
Pushed == [op : FrameOps \cup {"nil"}, size : Sizes]
MessageGot == [op : FrameOps \cup {"garbage"}, ids : Seq(Nat)]

WsTypeOK ==
    /\ rd \in [pc : ReaderPlaces, op : FrameOps, part : Seq(Nat)]
    /\ wr \in [pc : WriterPlaces, batch : Seq(Nat), at : Nat]
    /\ _sendQueue \in Seq(Nat) /\ _sem \in Nat
    /\ wire \in Seq(Nat \X PieceNames)
    /\ sent \in Seq(InFrame)
    /\ got \in Seq(MessageGot)
    /\ pushed \in Seq(Pushed)
    /\ late \in [desync : BOOLEAN, overtaken : BOOLEAN]

\* The permit is the writer's from its first step to its last, and then the reader's.
PermitFits ==
    /\ rd.pc \in {"shake", "connect", "start"} => wr.pc = "none"
    /\ wr.pc \in {"lock", "wait", "send", "stop", "post"} => _sem = 0 /\ rd.pc \notin {"close", "done"}
    /\ wr.pc \in {"none", "scheduled", "done"} /\ rd.pc \notin {"close", "done"} => _sem = 1
    /\ wr.pc = "scheduled" /\ rd.pc \in {"close", "done"} => _sem = 0 /\ late.overtaken

\* Of the frames s, b is the first with data after a.
IsData(s, i) == s[i].op \notin {"ping", "pong"}
FollowsIn(s, a, b) == a < b /\ b <= Len(s) /\ IsData(s, b) /\ \A i \in (a + 1) .. (b - 1) : ~IsData(s, i)
\* The fragments ids follow frame a and each other.
Chained(s, a, ids) ==
    /\ ids # <<>> => FollowsIn(s, a, ids[1])
    /\ \A j \in 1 .. (Len(ids) - 1) : FollowsIn(s, ids[j], ids[j + 1])
\* The first of the fragments that gives a kind gives op.
Names(s, op, ids) == \E j \in 1 .. Len(ids) : /\ op = s[ids[j]].op /\ \A k \in 1 .. (j - 1) : s[ids[k]].op = "continue"
                                              /\ op = "continue" => j = Len(ids)
\* A whole message, and the beginning of one.
WholeMessage(s, a, op, ids) ==
    ids # <<>> /\ Chained(s, a, ids) /\ (\A j \in 1 .. Len(ids) : s[ids[j]].fin <=> j = Len(ids)) /\ Names(s, op, ids)
Begun(s, a, op, ids) ==
    /\ Chained(s, a, ids) /\ \A j \in 1 .. Len(ids) : ~s[ids[j]].fin
    /\ IF op = "continue" THEN \A j \in 1 .. Len(ids) : s[ids[j]].op = "continue" ELSE Names(s, op, ids)

\* The last fragment of the messages g up to the i-th, and the last one read, 0 for none.
LastOf(g, i) == IF i = 0 THEN 0 ELSE g[i].ids[Len(g[i].ids)]
LastRead(a, ids) == IF ids = <<>> THEN a ELSE ids[Len(ids)]

\* The first n handed over are whole messages, and the others none at all.
WholeUpTo(s, g, n) ==
    /\ \A i \in 1 .. n : WholeMessage(s, LastOf(g, i - 1), g[i].op, g[i].ids)
    /\ \A i \in (n + 1) .. Len(g) : g[i] = W!Garbage

ReaderFits ==
    /\ \E n \in 0 .. Len(got) : WholeUpTo(sent, got, n) /\ (~late.desync => n = Len(got))
    /\ ~late.desync =>
          /\ Begun(sent, LastOf(got, Len(got)), rd.op, rd.part)
          /\ rd.pc \in {"shake", "connect", "start", "run", "handle"} =>
                \A i \in (LastRead(LastOf(got, Len(got)), rd.part) + 1) .. Len(sent) : ~IsData(sent, i)

\* The writes of message n of p, and the one after x.
PiecesIn(p, n) == IF p[n].op \in {"ping", "pong"} THEN <<<<n, "head">>>>
                  ELSE IF p[n].size = "long" THEN <<<<n, "head">>, <<n, "length">>, <<n, "data">>>>
                  ELSE <<<<n, "head">>, <<n, "data">>>>
NextIn(p, x, y) ==
    /\ x[1] \in 1 .. Len(p) /\ y[1] <= Len(p)
    /\ \E a \in 1 .. Len(PiecesIn(p, x[1])) :
          /\ x = PiecesIn(p, x[1])[a]
          /\ y = IF a < Len(PiecesIn(p, x[1])) THEN PiecesIn(p, x[1])[a + 1] ELSE <<x[1] + 1, "head">>
\* Piece i of w comes after the piece before it; only pongs stand between them.
OnlyPongs(w, a, b) == \A l \in a .. b : w[l][1] = 0
InOrder(w, p, i) ==
    w[i][1] # 0 =>
       \/ w[i] = <<1, "head">> /\ p # <<>> /\ OnlyPongs(w, 1, i - 1)
       \/ \E k \in 1 .. (i - 1) : w[k][1] # 0 /\ NextIn(p, w[k], w[i]) /\ OnlyPongs(w, k + 1, i - 1)
\* The messages up to n are written, and of the next one the pieces up to at.
Written(w, p, n, at) ==
    \/ n = 0 /\ at = 0 /\ OnlyPongs(w, 1, Len(w))
    \/ \E k \in 1 .. Len(w) :
          /\ w[k][1] # 0 /\ OnlyPongs(w, k + 1, Len(w))
          /\ IF at # 0 THEN at < Len(PiecesIn(p, n + 1)) /\ w[k] = PiecesIn(p, n + 1)[at]
                       ELSE n # 0 /\ w[k] = PiecesIn(p, n)[Len(PiecesIn(p, n))]

\* How many messages the writer has finished.
Finished == Len(pushed) - Len(_sendQueue) - Len(wr.batch)
Counts(q, n) == \A i \in 1 .. Len(q) : q[i] = n + i

WriterFits ==
    /\ Len(_sendQueue) <= Len(pushed) /\ Counts(_sendQueue, Len(pushed) - Len(_sendQueue))
    /\ wr.pc # "send" => wr.batch = <<>>
    /\ wr.pc \in {"none", "scheduled", "lock", "wait", "send"} =>
          /\ Finished >= 0 /\ Counts(wr.batch, Finished)
          /\ wr.batch = <<>> => wr.at = 0
          /\ Written(wire, pushed, Finished, wr.at)
    /\ \A i \in 1 .. Len(wire) : InOrder(wire, pushed, i)

WsInv == WsTypeOK /\ PermitFits /\ ReaderFits /\ WriterFits
WsPartInv == which \in {"ws", "push"} => WsInv

\* Longer lists of frames keep what was said of a shorter one.
Longer(s, t) == Len(s) <= Len(t) /\ \A i \in 1 .. Len(s) : t[i] = s[i]

LEMMA FollowsLonger ==
    ASSUME NEW s \in Seq(InFrame), NEW t \in Seq(InFrame), Longer(s, t), NEW a \in Nat, NEW b \in Nat, FollowsIn(s, a, b)
    PROVE  FollowsIn(t, a, b)
BY DEF FollowsIn, IsData, Longer

LEMMA ChainedLonger ==
    ASSUME NEW s \in Seq(InFrame), NEW t \in Seq(InFrame), Longer(s, t), NEW a \in Nat, NEW ids \in Seq(Nat), Chained(s, a, ids)
    PROVE  Chained(t, a, ids)
<1>1. ids # <<>> => FollowsIn(t, a, ids[1])
  BY FollowsLonger DEF Chained
<1>2. ASSUME NEW j \in 1 .. (Len(ids) - 1) PROVE FollowsIn(t, ids[j], ids[j + 1])
  BY FollowsLonger DEF Chained
<1> QED
  BY <1>1, <1>2 DEF Chained

\* The frames of a chain have been read and carry data.
LEMMA ChainedRead ==
    ASSUME NEW s \in Seq(InFrame), NEW a \in Nat, NEW ids \in Seq(Nat), Chained(s, a, ids), NEW j \in 1 .. Len(ids)
    PROVE  ids[j] \in 1 .. Len(s) /\ IsData(s, ids[j])
<1>1. ids # <<>> /\ ids[j] \in Nat
  OBVIOUS
<1>2. CASE j = 1
  BY <1>1, <1>2 DEF Chained, FollowsIn
<1>3. CASE j # 1
  <2>1. j - 1 \in 1 .. (Len(ids) - 1) /\ (j - 1) + 1 = j /\ ids[j - 1] \in Nat
    BY <1>3
  <2>2. FollowsIn(s, ids[j - 1], ids[j])
    BY <2>1 DEF Chained
  <2> QED
    BY <2>1, <2>2, <1>1 DEF FollowsIn
<1> QED
  BY <1>2, <1>3

LEMMA NamesLonger ==
    ASSUME NEW s \in Seq(InFrame), NEW t \in Seq(InFrame), Longer(s, t), NEW op, NEW ids \in Seq(Nat),
           \A j \in 1 .. Len(ids) : ids[j] \in 1 .. Len(s), Names(s, op, ids)
    PROVE  Names(t, op, ids)
<1>1. PICK j \in 1 .. Len(ids) : /\ op = s[ids[j]].op /\ \A k \in 1 .. (j - 1) : s[ids[k]].op = "continue"
                                 /\ op = "continue" => j = Len(ids)
  BY DEF Names
<1>2. \A i \in 1 .. Len(ids) : t[ids[i]] = s[ids[i]]
  BY DEF Longer
<1>3. \A k \in 1 .. (j - 1) : k \in 1 .. Len(ids)
  OBVIOUS
<1> QED
  BY <1>1, <1>2, <1>3 DEF Names

LEMMA WholeLonger ==
    ASSUME NEW s \in Seq(InFrame), NEW t \in Seq(InFrame), Longer(s, t), NEW a \in Nat, NEW op, NEW ids \in Seq(Nat),
           WholeMessage(s, a, op, ids)
    PROVE  WholeMessage(t, a, op, ids)
<1>1. \A j \in 1 .. Len(ids) : ids[j] \in 1 .. Len(s)
  BY ChainedRead DEF WholeMessage
<1>2. \A j \in 1 .. Len(ids) : t[ids[j]] = s[ids[j]]
  BY <1>1 DEF Longer
<1> QED
  BY <1>1, <1>2, ChainedLonger, NamesLonger DEF WholeMessage

LEMMA BegunLonger ==
    ASSUME NEW s \in Seq(InFrame), NEW t \in Seq(InFrame), Longer(s, t), NEW a \in Nat, NEW op, NEW ids \in Seq(Nat),
           Begun(s, a, op, ids)
    PROVE  Begun(t, a, op, ids)
<1>1. \A j \in 1 .. Len(ids) : ids[j] \in 1 .. Len(s)
  BY ChainedRead DEF Begun
<1>2. \A j \in 1 .. Len(ids) : t[ids[j]] = s[ids[j]]
  BY <1>1 DEF Longer
<1> QED
  BY <1>1, <1>2, ChainedLonger, NamesLonger DEF Begun

\* A frame more.
LEMMA FrameMore ==
    ASSUME NEW s \in Seq(InFrame), NEW f \in InFrame
    PROVE  /\ Append(s, f) \in Seq(InFrame) /\ Longer(s, Append(s, f))
           /\ Len(Append(s, f)) = Len(s) + 1 /\ Append(s, f)[Len(s) + 1] = f
BY DEF Longer

\* What a data frame makes of what the reader keeps: more of a message, or one that is
\* whole (Taken(), Joined(), Opcode()).
Opcodes(op, op2) == IF op = "continue" /\ op2 # "continue" THEN op2 ELSE op
LEMMA FrameBegins ==
    ASSUME NEW s \in Seq(InFrame), NEW f \in InFrame, f.op \notin {"ping", "pong"},
           NEW a \in Nat, a <= Len(s), NEW op, NEW ids \in Seq(Nat), Begun(s, a, op, ids),
           \A i \in (LastRead(a, ids) + 1) .. Len(s) : ~IsData(s, i)
    PROVE  /\ ~f.fin => Begun(Append(s, f), a, Opcodes(op, f.op), Append(ids, Len(s) + 1))
           /\ f.fin => WholeMessage(Append(s, f), a, Opcodes(op, f.op), Append(ids, Len(s) + 1))
<1> DEFINE t == Append(s, f)
           all == Append(ids, Len(s) + 1)
           op2 == Opcodes(op, f.op)
<1>1. t \in Seq(InFrame) /\ Longer(s, t) /\ Len(t) = Len(s) + 1 /\ t[Len(t)] = f
  BY FrameMore
<1>2. all \in Seq(Nat) /\ all = Append(ids, Len(t))
  BY <1>1
<1>3. op2 = IF op = "continue" /\ t[Len(t)].op # "continue" THEN t[Len(t)].op ELSE op
  BY <1>1 DEF Opcodes
<1>4. IsData(t, Len(t))
  BY <1>1 DEF IsData
<1> HIDE DEF t, all, op2
<1> DEFINE n == Len(ids)
<1>5. n \in Nat /\ Len(all) = n + 1 /\ all[n + 1] = Len(t) /\ (\A j \in 1 .. n : all[j] = ids[j]) /\ all # <<>>
  BY <1>2
<1>6. \A j \in 1 .. n : ids[j] \in 1 .. Len(s) /\ t[ids[j]] = s[ids[j]]
  BY <1>1, ChainedRead DEF Begun, Longer
<1>7. Chained(t, a, ids)
  BY <1>1, ChainedLonger DEF Begun
<1>8. FollowsIn(t, LastRead(a, ids), Len(t))
  <2>1. LastRead(a, ids) \in Nat /\ LastRead(a, ids) <= Len(s)
    <3>1. CASE ids = <<>>
      BY <3>1 DEF LastRead
    <3>2. CASE ids # <<>>
      BY <3>2, <1>6, <1>5 DEF LastRead
    <3> QED
      BY <3>1, <3>2
  <2> DEFINE l == LastRead(a, ids)
  <2>2. \A i \in (l + 1) .. (Len(t) - 1) : ~IsData(t, i)
    <3>1. \A i \in (l + 1) .. (Len(t) - 1) : i \in (l + 1) .. Len(s) /\ i \in 1 .. Len(s)
      BY <1>1, <2>1
    <3> QED
      BY <1>1, <3>1 DEF Longer, IsData
  <2> QED
    BY <1>1, <1>4, <2>1, <2>2 DEF FollowsIn
<1>9. Chained(t, a, all)
  <2>1. FollowsIn(t, a, all[1])
    <3>1. CASE ids = <<>>
      BY <3>1, <1>5, <1>8 DEF LastRead
    <3>2. CASE ids # <<>>
      BY <3>2, <1>5, <1>7 DEF Chained
    <3> QED
      BY <3>1, <3>2
  <2>2. ASSUME NEW j \in 1 .. (Len(all) - 1) PROVE FollowsIn(t, all[j], all[j + 1])
    <3>1. CASE j = n
      <4>1. ids # <<>>
        BY <3>1
      <4> QED
        BY <4>1, <3>1, <1>5, <1>8 DEF LastRead
    <3>2. CASE j # n
      <4>1. j \in 1 .. (n - 1) /\ j \in 1 .. n /\ j + 1 \in 1 .. n
        BY <3>2, <1>5
      <4> QED
        BY <4>1, <1>5, <1>7 DEF Chained
    <3> QED
      BY <3>1, <3>2
  <2> QED
    BY <2>1, <2>2 DEF Chained
<1>10. \A j \in 1 .. n : all[j] = ids[j] /\ ~t[all[j]].fin
  BY <1>5, <1>6 DEF Begun
<1>11. IF op2 = "continue" THEN \A j \in 1 .. Len(all) : t[all[j]].op = "continue" ELSE Names(t, op2, all)
  <2>1. \A j \in 1 .. Len(all) : j \in 1 .. n \/ j = n + 1
    BY <1>5
  <2>2. CASE op # "continue"
    <3>1. PICK j \in 1 .. n : op = s[ids[j]].op /\ \A k \in 1 .. (j - 1) : s[ids[k]].op = "continue"
      <4>1. Names(s, op, ids)
        BY <2>2 DEF Begun
      <4> QED
        BY ONLY <4>1 DEF Names
    <3>2. \A k \in 1 .. (j - 1) : k \in 1 .. n
      BY <1>5
    <3>3. op = t[all[j]].op /\ \A k \in 1 .. (j - 1) : t[all[k]].op = "continue"
      BY <3>1, <3>2, <1>5, <1>6
    <3>4. op2 = op /\ j \in 1 .. Len(all)
      BY <1>3, <2>2, <1>5
    <3> QED
      BY <3>3, <3>4, <2>2 DEF Names
  <2>3. CASE op = "continue"
    <3>1. \A j \in 1 .. n : t[all[j]].op = "continue"
      BY <2>3, <1>5, <1>6 DEF Begun
    <3>2. CASE f.op = "continue"
      <4>1. op2 = "continue"
        BY <1>1, <1>3, <2>3, <3>2
      <4>2. \A j \in 1 .. Len(all) : t[all[j]].op = "continue"
        BY <1>1, <3>1, <3>2, <2>1, <1>5
      <4> QED
        BY <4>1, <4>2
    <3>3. CASE f.op # "continue"
      <4>1. op2 = f.op /\ op2 = t[all[n + 1]].op
        BY <1>1, <1>3, <3>3, <2>3, <1>5
      <4>2. n + 1 \in 1 .. Len(all) /\ \A k \in 1 .. ((n + 1) - 1) : k \in 1 .. n
        BY <1>5
      <4> HIDE DEF n
      <4> QED
        BY <4>1, <4>2, <3>1, <3>3 DEF Names
    <3> QED
      BY <3>2, <3>3
  <2> QED
    BY <2>2, <2>3
<1>12. \A j \in 1 .. Len(all) : j \in 1 .. n \/ j = Len(all)
  BY <1>5
<1>13. t[all[Len(all)]].fin = f.fin
  BY <1>1, <1>5
<1>14. ASSUME ~f.fin PROVE Begun(t, a, op2, all)
  <2>1. \A j \in 1 .. Len(all) : ~t[all[j]].fin
    BY <1>10, <1>12, <1>13, <1>14
  <2> QED
    BY <1>9, <1>11, <2>1 DEF Begun
<1>15. ASSUME f.fin PROVE WholeMessage(t, a, op2, all)
  <2>1. \A j \in 1 .. Len(all) : t[all[j]].fin <=> j = Len(all)
    <3>1. \A j \in 1 .. n : j # Len(all)
      BY <1>5
    <3> QED
      BY <1>10, <1>12, <1>13, <1>15, <3>1
  <2>2. Names(t, op2, all)
    <3>1. CASE op2 = "continue"
      <4>1. \A j \in 1 .. Len(all) : t[all[j]].op = "continue"
        BY <3>1, <1>11
      <4>2. Len(all) \in 1 .. Len(all) /\ \A j \in 1 .. (Len(all) - 1) : j \in 1 .. Len(all)
        BY <1>5
      <4> QED
        BY ONLY <3>1, <4>1, <4>2 DEF Names
    <3> QED
      BY <1>11, <3>1
  <2> QED
    BY <1>5, <1>9, <2>1, <2>2 DEF WholeMessage
<1> QED
  BY <1>14, <1>15 DEF t, all, op2

\* The frames of the messages so far have been read.
LEMMA LastIsRead ==
    ASSUME NEW s \in Seq(InFrame), NEW g \in Seq(MessageGot), NEW n \in 0 .. Len(g), NEW i \in 0 .. n,
           \A k \in 1 .. n : WholeMessage(s, LastOf(g, k - 1), g[k].op, g[k].ids)
    PROVE  LastOf(g, i) \in Nat /\ LastOf(g, i) <= Len(s)
<1>1. CASE i = 0
  BY <1>1 DEF LastOf
<1>2. CASE i # 0
  <2>1. i \in 1 .. Len(g) /\ i \in 1 .. n
    BY <1>2
  <2> DEFINE ids == g[i].ids
  <2>2. ids \in Seq(Nat)
    <3>1. g[i] \in MessageGot
      BY <2>1
    <3> QED
      BY <3>1 DEF MessageGot
  <2>3. WholeMessage(s, LastOf(g, i - 1), g[i].op, ids)
    BY <2>1
  <2> HIDE DEF ids
  <2>4. ids # <<>> /\ \A j \in 1 .. (Len(ids) - 1) : FollowsIn(s, ids[j], ids[j + 1])
    BY <2>3 DEF WholeMessage, Chained
  <2>5. Len(ids) \in 1 .. Len(ids) /\ ids[Len(ids)] \in Nat
    BY <2>2, <2>4
  <2>6. ids[Len(ids)] <= Len(s)
    <3>1. FollowsIn(s, LastOf(g, i - 1), ids[1])
      BY <2>3 DEF WholeMessage, Chained
    <3>2. CASE Len(ids) = 1
      BY <3>1, <3>2 DEF FollowsIn
    <3>3. CASE Len(ids) # 1
      <4>1. Len(ids) - 1 \in 1 .. (Len(ids) - 1) /\ (Len(ids) - 1) + 1 = Len(ids)
        <5> DEFINE m == Len(ids)
        <5>1. m \in Nat /\ m >= 1 /\ m # 1
          BY <2>2, <2>5, <3>3
        <5> HIDE DEF m
        <5>2. m - 1 \in 1 .. (m - 1) /\ (m - 1) + 1 = m
          BY ONLY <5>1
        <5> QED
          BY <5>2 DEF m
      <4>2. FollowsIn(s, ids[Len(ids) - 1], ids[(Len(ids) - 1) + 1])
        BY <2>4, <4>1
      <4> QED
        BY <4>1, <4>2 DEF FollowsIn
    <3> QED
      BY <3>2, <3>3
  <2> QED
    BY <1>2, <2>5, <2>6 DEF LastOf, ids
<1> QED
  BY <1>1, <1>2

LEMMA LastIsLonger ==
    ASSUME NEW g \in Seq(MessageGot), NEW m \in MessageGot
    PROVE  LET h == Append(g, m) IN
           /\ \A i \in 0 .. Len(g) : LastOf(h, i) = LastOf(g, i)
           /\ LastOf(h, Len(h)) = m.ids[Len(m.ids)] /\ Len(h) = Len(g) + 1
           /\ (\A i \in 1 .. Len(g) : h[i] = g[i]) /\ h[Len(h)] = m
<1> DEFINE h == Append(g, m)
<1>1. Len(h) = Len(g) + 1 /\ h[Len(h)] = m /\ \A i \in 1 .. Len(g) : h[i] = g[i]
  OBVIOUS
<1>2. Len(h) # 0
  BY <1>1
<1> QED
  BY <1>1, <1>2 DEF LastOf

\* The writes of one message.
LEMMA PiecesFacts ==
    ASSUME NEW p \in Seq(Pushed), NEW n \in 1 .. Len(p)
    PROVE  /\ Len(PiecesIn(p, n)) \in {1, 2, 3} /\ PiecesIn(p, n)[1] = <<n, "head">>
           /\ \A a \in 1 .. Len(PiecesIn(p, n)) : PiecesIn(p, n)[a] \in Nat \X PieceNames /\ PiecesIn(p, n)[a][1] = n
<1>1. CASE p[n].op \in {"ping", "pong"}
  BY <1>1 DEF PiecesIn, PieceNames
<1>2. CASE p[n].op \notin {"ping", "pong"} /\ p[n].size = "long"
  BY <1>2 DEF PiecesIn, PieceNames
<1>3. CASE p[n].op \notin {"ping", "pong"} /\ p[n].size # "long"
  BY <1>3 DEF PiecesIn, PieceNames
<1> QED
  BY <1>1, <1>2, <1>3

\* A message more in the queue changes nothing of those before it.
LEMMA PiecesLonger ==
    ASSUME NEW p \in Seq(Pushed), NEW r \in Seq(Pushed), Longer(p, r), NEW n \in 1 .. Len(p)
    PROVE  PiecesIn(r, n) = PiecesIn(p, n)
<1>1. r[n] = p[n]
  BY DEF Longer
<1> QED
  BY <1>1 DEF PiecesIn

LEMMA InOrderLonger ==
    ASSUME NEW p \in Seq(Pushed), NEW r \in Seq(Pushed), Longer(p, r),
           NEW w \in Seq(Nat \X PieceNames), NEW i \in 1 .. Len(w), InOrder(w, p, i)
    PROVE  InOrder(w, r, i)
<1>1. Len(p) \in Nat /\ Len(r) \in Nat /\ Len(p) <= Len(r) /\ (p # <<>> => r # <<>>)
  BY DEF Longer
<1>2. ASSUME NEW k \in 1 .. (i - 1), NextIn(p, w[k], w[i]) PROVE NextIn(r, w[k], w[i])
  <2>1. w[k] \in Nat \X PieceNames /\ w[i] \in Nat \X PieceNames
    OBVIOUS
  <2>2. w[k][1] \in Nat /\ w[i][1] \in Nat
    BY <2>1
  <2>3. w[k][1] \in 1 .. Len(p) /\ w[i][1] <= Len(p)
    BY <1>2 DEF NextIn
  <2>4. PiecesIn(r, w[k][1]) = PiecesIn(p, w[k][1])
    BY <2>3, PiecesLonger
  <2>5. w[k][1] \in 1 .. Len(r) /\ w[i][1] <= Len(r)
    BY <1>1, <2>2, <2>3
  <2> QED
    BY <1>2, <2>4, <2>5 DEF NextIn
<1> QED
  BY <1>1, <1>2 DEF InOrder

LEMMA WrittenLonger ==
    ASSUME NEW p \in Seq(Pushed), NEW r \in Seq(Pushed), Longer(p, r),
           NEW w \in Seq(Nat \X PieceNames), NEW n \in Nat, NEW at \in Nat,
           n <= Len(p), at # 0 => n < Len(p), Written(w, p, n, at)
    PROVE  Written(w, r, n, at)
<1>1. at # 0 => PiecesIn(r, n + 1) = PiecesIn(p, n + 1)
  BY PiecesLonger
<1>2. n # 0 => PiecesIn(r, n) = PiecesIn(p, n)
  BY PiecesLonger
<1> QED
  BY <1>1, <1>2 DEF Written

\* A piece more.
LEMMA InOrderMore ==
    ASSUME NEW p \in Seq(Pushed), NEW w \in Seq(Nat \X PieceNames), NEW x \in Nat \X PieceNames,
           NEW i \in 1 .. Len(w), InOrder(w, p, i)
    PROVE  InOrder(Append(w, x), p, i)
<1> DEFINE v == Append(w, x)
<1>1. \A k \in 1 .. Len(w) : v[k] = w[k]
  OBVIOUS
<1>2. i \in 1 .. Len(w) /\ Len(w) \in Nat /\ \A k \in 1 .. i : k \in 1 .. Len(w)
  OBVIOUS
<1> HIDE DEF v
<1>3. \A k \in 1 .. (i - 1) : k \in 1 .. i /\ \A l \in (k + 1) .. (i - 1) : l \in 1 .. i
  BY <1>2
<1>4. v[i] = w[i] /\ \A k \in 1 .. (i - 1) : v[k] = w[k]
  BY <1>1, <1>2, <1>3
<1>5. \A k \in 1 .. (i - 1) : OnlyPongs(w, k + 1, i - 1) => OnlyPongs(v, k + 1, i - 1)
  BY <1>3, <1>1, <1>2 DEF OnlyPongs
<1>6. OnlyPongs(w, 1, i - 1) => OnlyPongs(v, 1, i - 1)
  BY <1>4 DEF OnlyPongs
<1>7. InOrder(v, p, i)
  BY <1>4, <1>5, <1>6 DEF InOrder
<1> QED
  BY <1>7 DEF v

LEMMA PongMore ==
    ASSUME NEW p \in Seq(Pushed), NEW w \in Seq(Nat \X PieceNames), NEW n \in Nat, NEW at \in Nat
    PROVE  /\ InOrder(Append(w, <<0, "pong">>), p, Len(w) + 1)
           /\ Written(w, p, n, at) => Written(Append(w, <<0, "pong">>), p, n, at)
<1> DEFINE v == Append(w, <<0, "pong">>)
<1>1. /\ \A k \in 1 .. Len(w) : v[k] = w[k]
      /\ v[Len(w) + 1] = <<0, "pong">> /\ Len(v) = Len(w) + 1 /\ Len(w) \in Nat
  OBVIOUS
<1>2. v[Len(w) + 1][1] = 0
  BY <1>1
<1> HIDE DEF v
<1>3. InOrder(v, p, Len(w) + 1)
  BY <1>2 DEF InOrder
<1>4. ASSUME NEW k \in 1 .. Len(w), OnlyPongs(w, k + 1, Len(w)) PROVE OnlyPongs(v, k + 1, Len(v))
  <2>1. \A l \in (k + 1) .. Len(v) : (l \in (k + 1) .. Len(w) /\ l \in 1 .. Len(w)) \/ l = Len(w) + 1
    BY <1>1
  <2> QED
    BY <2>1, <1>1, <1>2, <1>4 DEF OnlyPongs
<1>5. OnlyPongs(w, 1, Len(w)) => OnlyPongs(v, 1, Len(v))
  <2>1. \A l \in 1 .. Len(v) : l \in 1 .. Len(w) \/ l = Len(w) + 1
    BY <1>1
  <2> QED
    BY <2>1, <1>1, <1>2 DEF OnlyPongs
<1>6. ASSUME Written(w, p, n, at) PROVE Written(v, p, n, at)
  <2>1. CASE n = 0 /\ at = 0 /\ OnlyPongs(w, 1, Len(w))
    BY <2>1, <1>5 DEF Written
  <2>2. ASSUME NEW k \in 1 .. Len(w), w[k][1] # 0, OnlyPongs(w, k + 1, Len(w)),
               IF at # 0 THEN at < Len(PiecesIn(p, n + 1)) /\ w[k] = PiecesIn(p, n + 1)[at]
                         ELSE n # 0 /\ w[k] = PiecesIn(p, n)[Len(PiecesIn(p, n))]
        PROVE  Written(v, p, n, at)
    <3>1. k \in 1 .. Len(v) /\ v[k] = w[k]
      BY <1>1
    <3> QED
      BY <2>2, <3>1, <1>4 DEF Written
  <2> QED
    BY <1>6, <2>1, <2>2 DEF Written
<1> QED
  BY <1>3, <1>6 DEF v

LEMMA PieceMore ==
    ASSUME NEW p \in Seq(Pushed), NEW w \in Seq(Nat \X PieceNames), NEW n \in Nat, NEW at \in Nat,
           n < Len(p), at < Len(PiecesIn(p, n + 1)), Written(w, p, n, at)
    PROVE  /\ InOrder(Append(w, PiecesIn(p, n + 1)[at + 1]), p, Len(w) + 1)
           /\ at + 1 = Len(PiecesIn(p, n + 1)) => Written(Append(w, PiecesIn(p, n + 1)[at + 1]), p, n + 1, 0)
           /\ at + 1 # Len(PiecesIn(p, n + 1)) => Written(Append(w, PiecesIn(p, n + 1)[at + 1]), p, n, at + 1)
<1> DEFINE q == PiecesIn(p, n + 1)
           x == q[at + 1]
           v == Append(w, x)
           e == Len(w) + 1
<1>1. n + 1 \in 1 .. Len(p) /\ Len(p) \in Nat
  OBVIOUS
<1>2. Len(q) \in {1, 2, 3} /\ q[1] = <<n + 1, "head">> /\ \A a \in 1 .. Len(q) : q[a] \in Nat \X PieceNames /\ q[a][1] = n + 1
  BY <1>1, PiecesFacts
<1> HIDE DEF q
<1>3. at < Len(q)
  BY DEF q
<1>4. at + 1 \in 1 .. Len(q) /\ (at # 0 => at \in 1 .. Len(q)) /\ (at + 1 # Len(q) => at + 1 < Len(q))
  <2> DEFINE c == Len(q)
  <2>1. c \in {1, 2, 3} /\ at < c
    BY <1>2, <1>3
  <2> HIDE DEF c
  <2>2. at + 1 \in 1 .. c /\ (at # 0 => at \in 1 .. c) /\ (at + 1 # c => at + 1 < c)
    BY ONLY <2>1, at \in Nat
  <2> QED
    BY <2>2 DEF c
<1>5. x \in Nat \X PieceNames /\ x[1] = n + 1
  BY <1>2, <1>4
<1> HIDE DEF x
<1>6. /\ \A k \in 1 .. Len(w) : v[k] = w[k]
      /\ v[e] = x /\ Len(v) = e /\ Len(w) \in Nat /\ e \in 1 .. Len(v) /\ e - 1 = Len(w)
  BY <1>5
<1> HIDE DEF v, e
<1>7. ASSUME NEW a \in Nat, OnlyPongs(w, a + 1, Len(w)) PROVE OnlyPongs(v, a + 1, e - 1)
  <2>1. \A l \in (a + 1) .. Len(w) : l \in 1 .. Len(w)
    BY <1>6
  <2> QED
    BY <2>1, <1>6, <1>7 DEF OnlyPongs
<1>8. InOrder(v, p, e)
  <2>1. CASE n = 0 /\ at = 0 /\ OnlyPongs(w, 1, Len(w))
    <3>1. v[e] = <<1, "head">>
      BY <2>1, <1>2, <1>6 DEF x
    <3>2. OnlyPongs(v, 1, e - 1) /\ p # <<>>
      BY <2>1, <1>6, <1>1 DEF OnlyPongs
    <3> QED
      BY <3>1, <3>2 DEF InOrder
  <2>2. ASSUME NEW k \in 1 .. Len(w), w[k][1] # 0, OnlyPongs(w, k + 1, Len(w)),
               IF at # 0 THEN at < Len(q) /\ w[k] = q[at]
                         ELSE n # 0 /\ w[k] = PiecesIn(p, n)[Len(PiecesIn(p, n))]
        PROVE  InOrder(v, p, e)
    <3>1. k \in 1 .. (e - 1) /\ v[k] = w[k] /\ OnlyPongs(v, k + 1, e - 1)
      BY <2>2, <1>6, <1>7
    <3>2. NextIn(p, w[k], x)
      <4>1. CASE at # 0
        <5>1. at \in 1 .. Len(q) /\ w[k] = q[at] /\ w[k][1] = n + 1
          BY <4>1, <2>2, <1>2, <1>4
        <5>2. PiecesIn(p, w[k][1]) = q
          BY <5>1 DEF q
        <5> QED
          BY <5>1, <5>2, <1>1, <1>3, <1>5 DEF NextIn, x
      <4>2. CASE at = 0
        <5> DEFINE r == PiecesIn(p, n)
        <5>1. n \in 1 .. Len(p) /\ n # 0 /\ w[k] = r[Len(r)]
          BY <4>2, <2>2, <1>1
        <5>2. Len(r) \in {1, 2, 3} /\ \A a \in 1 .. Len(r) : r[a][1] = n
          BY <5>1, PiecesFacts
        <5> HIDE DEF r
        <5>3. Len(r) \in 1 .. Len(r) /\ ~(Len(r) < Len(r))
          <6> DEFINE c == Len(r)
          <6>1. c \in {1, 2, 3}
            BY <5>2
          <6> HIDE DEF c
          <6>2. c \in 1 .. c /\ ~(c < c)
            BY ONLY <6>1
          <6> QED
            BY <6>2 DEF c
        <5>4. w[k][1] = n /\ x = <<n + 1, "head">>
          BY <5>1, <5>2, <5>3, <4>2, <1>2 DEF x
        <5>5. PiecesIn(p, w[k][1]) = r
          BY <5>4 DEF r
        <5> QED
          <6>1. w[k][1] \in 1 .. Len(p) /\ x[1] <= Len(p)
            BY <5>1, <5>4, <1>1, <1>5
          <6>2. x = IF Len(r) < Len(r) THEN r[Len(r) + 1] ELSE <<w[k][1] + 1, "head">>
            BY <5>3, <5>4
          <6> QED
            BY ONLY Zenon, <5>1, <5>3, <5>5, <6>1, <6>2 DEF NextIn
      <4> QED
        BY <4>1, <4>2
    <3> QED
      BY <2>2, <3>1, <3>2, <1>6 DEF InOrder
  <2> QED
    BY <2>1, <2>2 DEF Written, q
<1>9. v[e][1] # 0 /\ OnlyPongs(v, e + 1, Len(v)) /\ v[e] = q[at + 1]
  BY <1>5, <1>6 DEF OnlyPongs, x
<1>10. at + 1 = Len(q) => Written(v, p, n + 1, 0)
  BY <1>6, <1>9 DEF Written, q
<1>11. at + 1 # Len(q) => Written(v, p, n, at + 1)
  <2>1. at + 1 # Len(q) => at + 1 < Len(q) /\ at + 1 # 0
    BY <1>4
  <2> QED
    BY <2>1, <1>6, <1>9 DEF Written, q
<1> QED
  BY <1>8, <1>10, <1>11 DEF v, x, q, e


LEMMA WsFrame ==
    ASSUME [Next]_vars
    PROVE  /\ which' = which
           /\ which \in {"ws", "push"} => W!WsNext \/ Q!WsNext \/ UNCHANGED wsVars
BY DEF Next, vars, OnlyFox, OnlyWs, OnlyHttp, OnlyRock, OnlyXftp, OnlyTcp

\* The second session differs from the first in what may come from outside only: its other
\* actions are the same.
LEMMA WsSame ==
    /\ Q!HandleShake => W!HandleShake
    /\ Q!OnConnect => W!OnConnect
    /\ Q!StartSender => W!StartSender
    /\ Q!RecvNothing => W!RecvNothing
    /\ Q!Handle => W!Handle
    /\ Q!OnClose => W!OnClose
    /\ Q!ForceClose => W!ForceClose
    /\ Q!waitSender => W!waitSender
    /\ Q!CloseSession => W!CloseSession
    /\ Q!SenderBegins => W!SenderBegins
    /\ Q!SenderTakes => W!SenderTakes
    /\ Q!WSSendMessage => W!WSSendMessage
    /\ Q!SenderCloses => W!SenderCloses
    /\ Q!SenderEnds => W!SenderEnds
    /\ Q!PeerLeaves => W!PeerLeaves
<1>1. /\ Q!HandleShake => W!HandleShake
      /\ Q!OnConnect => W!OnConnect
      /\ Q!StartSender => W!StartSender
      /\ Q!RecvNothing => W!RecvNothing
      /\ Q!Handle => W!Handle
  BY DEF Q!HandleShake, W!HandleShake, Q!OnConnect, W!OnConnect, Q!StartSender, W!StartSender, Q!RecvNothing,
         W!RecvNothing, Q!Handle, W!Handle, Q!Read, W!Read, Q!StartTimer, W!StartTimer
<1>2. /\ Q!OnClose => W!OnClose
      /\ Q!ForceClose => W!ForceClose
      /\ Q!waitSender => W!waitSender
      /\ Q!CloseSession => W!CloseSession
  BY DEF Q!OnClose, W!OnClose, Q!ForceClose, W!ForceClose, Q!waitSender, W!waitSender, Q!CloseSession, W!CloseSession,
         Q!Read, W!Read, Q!pushMessage, W!pushMessage, Q!Nil, W!Nil
<1>3. /\ Q!SenderBegins => W!SenderBegins
      /\ Q!SenderTakes => W!SenderTakes
      /\ Q!SenderCloses => W!SenderCloses
      /\ Q!SenderEnds => W!SenderEnds
      /\ Q!PeerLeaves => W!PeerLeaves
  BY DEF Q!SenderBegins, W!SenderBegins, Q!SenderTakes, W!SenderTakes, Q!SenderCloses, W!SenderCloses,
         Q!SenderEnds, W!SenderEnds, Q!PeerLeaves, W!PeerLeaves
<1>4. ASSUME NEW n PROVE (Q!Fails(n) <=> W!Fails(n)) /\ Q!Pieces(n) = W!Pieces(n)
  BY DEF Q!Fails, W!Fails, Q!Pieces, W!Pieces, Q!Control, W!Control
<1>5. Q!WSSendMessage => W!WSSendMessage
  BY <1>4 DEF Q!WSSendMessage, W!WSSendMessage, Q!Control, W!Control, Q!Nil, W!Nil
<1> QED
  BY <1>1, <1>2, <1>3, <1>5

LEMMA WsInvInit == Init => WsInv
<1> SUFFICES ASSUME W!WsInit PROVE WsInv
  BY DEF Init
<1> USE DEF W!WsInit
<1>1. WsTypeOK
  BY DEF WsTypeOK, ReaderPlaces, WriterPlaces, FrameOps
<1>2. PermitFits
  BY DEF PermitFits
<1>3. ReaderFits
  <2>1. Begun(sent, LastOf(got, Len(got)), rd.op, rd.part)
    BY DEF Begun, Chained
  <2>3. \A i \in (LastRead(LastOf(got, Len(got)), rd.part) + 1) .. Len(sent) : FALSE
    BY DEF LastRead, LastOf
  <2>4. 0 \in 0 .. Len(got) /\ 0 = Len(got) /\ WholeUpTo(sent, got, 0)
    BY DEF WholeUpTo
  <2> QED
    BY <2>1, <2>3, <2>4 DEF ReaderFits
<1>4. WriterFits
  <2>1. Finished = 0 /\ Counts(wr.batch, Finished) /\ Counts(_sendQueue, Len(pushed) - Len(_sendQueue))
    <3>1. Len(wr.batch) = 0 /\ Len(_sendQueue) = 0 /\ Len(pushed) = 0
      OBVIOUS
    <3>2. \A n : Counts(wr.batch, n) /\ Counts(_sendQueue, n)
      BY ONLY <3>1 DEF Counts
    <3>3. Finished = 0
      BY ONLY <3>1 DEF Finished
    <3> QED
      BY ONLY <3>2, <3>3
  <2>2. Written(wire, pushed, 0, wr.at)
    BY DEF Written, OnlyPongs
  <2> QED
    BY <2>1, <2>2 DEF WriterFits
<1> QED
  BY <1>1, <1>2, <1>3, <1>4 DEF WsInv

\* The reader goes on, and what it has of the client's messages stays.
Reading == {"shake", "connect", "start", "run", "handle"}
LEMMA ReaderMoves ==
    ASSUME WsTypeOK, ReaderFits, NEW x \in ReaderPlaces, rd' = [rd EXCEPT !.pc = x], UNCHANGED <<sent, got>>,
           x \in Reading => rd.pc \in Reading, late.desync => late'.desync
    PROVE  ReaderFits' /\ rd'.pc = x /\ rd' \in [pc : ReaderPlaces, op : FrameOps, part : Seq(Nat)]
<1>1. rd \in [pc : ReaderPlaces, op : FrameOps, part : Seq(Nat)]
  BY DEF WsTypeOK
<1>2. rd'.pc = x /\ rd'.op = rd.op /\ rd'.part = rd.part /\ rd' \in [pc : ReaderPlaces, op : FrameOps, part : Seq(Nat)]
  BY <1>1
<1> QED
  BY <1>2 DEF ReaderFits, Reading

LEMMA ReaderStays ==
    ASSUME ReaderFits, UNCHANGED <<rd, sent, got, late>>
    PROVE  ReaderFits'
BY DEF ReaderFits

LEMMA WriterStays ==
    ASSUME WriterFits, UNCHANGED <<wr, _sendQueue, wire, pushed>>
    PROVE  WriterFits'
BY DEF WriterFits, Finished

LEMMA WsReads ==
    ASSUME WsInv,
           \/ W!HandleShake \/ W!OnConnect \/ W!RecvNothing \/ W!Handle
           \/ W!OnClose \/ W!waitSender \/ W!CloseSession \/ W!StartSender
    PROVE  WsInv'
<1>1. WsTypeOK /\ PermitFits /\ ReaderFits /\ WriterFits
  BY DEF WsInv
<1>2. PICK x \in ReaderPlaces : rd' = [rd EXCEPT !.pc = x] /\ (x \in Reading => rd.pc \in Reading)
  BY DEF W!HandleShake, W!OnConnect, W!RecvNothing, W!Handle, W!OnClose, W!waitSender, W!CloseSession, W!StartSender,
         W!Read, ReaderPlaces, Reading
<1>3. UNCHANGED <<sent, got, _sendQueue, wire, pushed>> /\ late'.desync = late.desync
  BY <1>1 DEF WsTypeOK, W!HandleShake, W!OnConnect, W!RecvNothing, W!Handle, W!OnClose, W!waitSender, W!CloseSession, W!StartSender
<1>4. ReaderFits' /\ rd'.pc = x /\ rd' \in [pc : ReaderPlaces, op : FrameOps, part : Seq(Nat)]
  BY <1>1, <1>2, <1>3, ReaderMoves
<1>5. CASE W!HandleShake \/ W!OnConnect \/ W!RecvNothing \/ W!Handle \/ W!OnClose \/ W!CloseSession
  <2>1. UNCHANGED <<wr, _sem, late>>
    BY <1>5 DEF W!HandleShake, W!OnConnect, W!RecvNothing, W!Handle, W!OnClose, W!CloseSession
  <2>2. WsTypeOK'
    BY <1>1, <1>3, <1>4, <2>1 DEF WsTypeOK
  <2>3. PermitFits'
    BY <1>1, <1>2, <1>4, <1>5, <2>1
    DEF PermitFits, W!HandleShake, W!OnConnect, W!RecvNothing, W!Handle, W!OnClose, W!CloseSession, W!Read
  <2> QED
    BY <1>1, <1>3, <1>4, <2>1, <2>2, <2>3, WriterStays DEF WsInv
<1>6. CASE W!waitSender
  <2>1. /\ rd.pc = "join" /\ _sem > 0 /\ _sem' = _sem - 1 /\ rd' = [rd EXCEPT !.pc = "close"] /\ UNCHANGED wr
        /\ late' = [late EXCEPT !.overtaken = wr.pc = "scheduled"]
    BY <1>6 DEF W!waitSender, W!Read
  <2>2. rd'.pc = "close"
    BY <1>1, <2>1 DEF WsTypeOK
  <2>3. _sem \in Nat /\ wr \in [pc : WriterPlaces, batch : Seq(Nat), at : Nat] /\ late \in [desync : BOOLEAN, overtaken : BOOLEAN]
    BY <1>1 DEF WsTypeOK
  <2>4. _sem' \in Nat
    BY <2>1, <2>3
  <2>5. late' \in [desync : BOOLEAN, overtaken : BOOLEAN] /\ late'.overtaken = (wr.pc = "scheduled")
    BY <2>1, <2>3
  <2>6. WsTypeOK'
    BY <1>1, <1>3, <1>4, <2>1, <2>4, <2>5 DEF WsTypeOK
  <2>7. wr.pc \in {"none", "scheduled", "done"} /\ _sem = 1 /\ _sem' = 0
    BY <1>1, <2>1, <2>3 DEF PermitFits, WriterPlaces
  <2>8. PermitFits'
    BY <2>1, <2>2, <2>5, <2>7 DEF PermitFits
  <2> QED
    BY <1>1, <1>3, <1>4, <2>1, <2>6, <2>8, WriterStays DEF WsInv
<1>7. CASE W!StartSender
  <2>1. rd.pc = "start" /\ rd' = [rd EXCEPT !.pc = "run"] /\ wr' = [wr EXCEPT !.pc = "scheduled"] /\ UNCHANGED <<_sem, late>>
    BY <1>7 DEF W!StartSender, W!Read
  <2>2. rd'.pc = "run"
    BY <1>1, <2>1 DEF WsTypeOK
  <2>3. wr \in [pc : WriterPlaces, batch : Seq(Nat), at : Nat] /\ "scheduled" \in WriterPlaces
    BY <1>1 DEF WsTypeOK, WriterPlaces
  <2>4. /\ wr' \in [pc : WriterPlaces, batch : Seq(Nat), at : Nat]
        /\ wr'.pc = "scheduled" /\ wr'.batch = wr.batch /\ wr'.at = wr.at
    BY <2>1, <2>3
  <2>5. WsTypeOK'
    BY <1>1, <1>3, <1>4, <2>1, <2>4 DEF WsTypeOK
  <2>6. wr.pc = "none" /\ _sem = 1
    BY <1>1, <2>1 DEF PermitFits
  <2>7. PermitFits'
    BY <2>1, <2>2, <2>4, <2>6 DEF PermitFits
  <2>8. WriterFits'
    <3>1. Finished' = Finished
      BY <1>3, <2>4 DEF Finished
    <3> QED
      BY <1>1, <1>3, <2>4, <2>6, <3>1 DEF WriterFits
  <2> QED
    BY <1>4, <2>5, <2>7, <2>8 DEF WsInv
<1> QED
  BY <1>5, <1>6, <1>7

\* The writer's own steps that write nothing.
LEMMA WriterSteps ==
    ASSUME WsInv, W!SenderBegins \/ W!SenderTakes \/ W!SenderCloses \/ W!SenderEnds
    PROVE  WsInv'
<1>1. WsTypeOK /\ PermitFits /\ ReaderFits /\ WriterFits
  BY DEF WsInv
<1>2. UNCHANGED <<rd, wire, sent, got, pushed, late>> /\ ReaderFits'
  BY <1>1, ReaderStays DEF W!SenderBegins, W!SenderTakes, W!SenderCloses, W!SenderEnds
<1>3. /\ wr \in [pc : WriterPlaces, batch : Seq(Nat), at : Nat] /\ _sem \in Nat /\ _sendQueue \in Seq(Nat)
      /\ {"lock", "wait", "send", "post", "done"} \subseteq WriterPlaces
  BY <1>1 DEF WsTypeOK, WriterPlaces
<1>4. CASE W!SenderBegins
  <2>1. /\ wr.pc = "scheduled" /\ _sem > 0 /\ _sem' = _sem - 1 /\ wr' = [wr EXCEPT !.pc = "lock"] /\ UNCHANGED _sendQueue
    BY <1>4 DEF W!SenderBegins
  <2>2. /\ wr' \in [pc : WriterPlaces, batch : Seq(Nat), at : Nat]
        /\ wr'.pc = "lock" /\ wr'.batch = wr.batch /\ wr'.at = wr.at
    BY <1>3, <2>1
  <2>3. _sem' \in Nat
    BY <1>3, <2>1
  <2>4. WsTypeOK'
    BY <1>1, <1>2, <2>1, <2>2, <2>3 DEF WsTypeOK
  <2>5. rd.pc \notin {"close", "done"} /\ _sem = 1 /\ _sem' = 0
    BY <1>1, <2>1 DEF PermitFits
  <2>6. PermitFits'
    BY <1>1, <1>2, <2>1, <2>2, <2>5 DEF PermitFits
  <2>7. WriterFits'
    BY <1>1, <1>2, <2>1, <2>2 DEF WriterFits, Finished
  <2> QED
    BY <1>2, <2>4, <2>6, <2>7 DEF WsInv
<1>5. CASE W!SenderTakes /\ _sendQueue = <<>> /\ conn
  <2>1. wr.pc = "lock" /\ wr' = [wr EXCEPT !.pc = "wait"] /\ UNCHANGED <<_sem, _sendQueue>>
    BY <1>5 DEF W!SenderTakes
  <2>2. /\ wr' \in [pc : WriterPlaces, batch : Seq(Nat), at : Nat]
        /\ wr'.pc = "wait" /\ wr'.batch = wr.batch /\ wr'.at = wr.at
    BY <1>3, <2>1
  <2>3. WsTypeOK'
    BY <1>1, <1>2, <2>1, <2>2 DEF WsTypeOK
  <2>4. PermitFits'
    BY <1>1, <1>2, <2>1, <2>2 DEF PermitFits
  <2>5. WriterFits'
    BY <1>1, <1>2, <2>1, <2>2 DEF WriterFits, Finished
  <2> QED
    BY <1>2, <2>3, <2>4, <2>5 DEF WsInv
<1>6. CASE W!SenderTakes /\ ~(_sendQueue = <<>> /\ conn)
  <2>1. /\ wr.pc = "lock" /\ wr' = [pc |-> "send", batch |-> _sendQueue, at |-> 0] /\ _sendQueue' = <<>> /\ UNCHANGED _sem
    BY <1>6 DEF W!SenderTakes
  <2>2. /\ wr' \in [pc : WriterPlaces, batch : Seq(Nat), at : Nat] /\ _sendQueue' \in Seq(Nat)
        /\ wr'.pc = "send" /\ wr'.batch = _sendQueue /\ wr'.at = 0
    BY <1>3, <2>1
  <2>3. WsTypeOK'
    BY <1>1, <1>2, <2>1, <2>2 DEF WsTypeOK
  <2>4. PermitFits'
    BY <1>1, <1>2, <2>1, <2>2 DEF PermitFits
  <2>5. WriterFits'
    <3>1. wr.batch = <<>> /\ wr.at = 0 /\ Len(wr.batch) = 0 /\ Len(_sendQueue') = 0
      BY <1>1, <2>1 DEF WriterFits
    <3>2. Finished' = Len(pushed) - 0 - Len(_sendQueue) /\ Finished = Len(pushed) - Len(_sendQueue) - 0
      BY <1>2, <2>2, <3>1 DEF Finished
    <3>3. Len(_sendQueue) \in Nat /\ Len(pushed) \in Nat
      BY <1>1 DEF WsTypeOK
    <3>4. Finished' = Len(pushed) - Len(_sendQueue) /\ Finished' = Finished /\ Len(pushed) - 0 \in Nat
      BY <3>2, <3>3
    <3>5. Counts(_sendQueue', Len(pushed) - 0)
      BY <3>1 DEF Counts
    <3> QED
      BY <1>1, <1>2, <2>1, <2>2, <3>1, <3>3, <3>4, <3>5 DEF WriterFits
  <2> QED
    BY <1>2, <2>3, <2>4, <2>5 DEF WsInv
<1>7. CASE W!SenderCloses
  <2>1. wr.pc = "stop" /\ wr' = [wr EXCEPT !.pc = "post"] /\ UNCHANGED <<_sem, _sendQueue>>
    BY <1>7 DEF W!SenderCloses
  <2>2. /\ wr' \in [pc : WriterPlaces, batch : Seq(Nat), at : Nat]
        /\ wr'.pc = "post" /\ wr'.batch = wr.batch
    BY <1>3, <2>1
  <2>3. WsTypeOK'
    BY <1>1, <1>2, <2>1, <2>2 DEF WsTypeOK
  <2>4. PermitFits'
    BY <1>1, <1>2, <2>1, <2>2 DEF PermitFits
  <2>5. WriterFits'
    BY <1>1, <1>2, <2>1, <2>2 DEF WriterFits
  <2> QED
    BY <1>2, <2>3, <2>4, <2>5 DEF WsInv
<1>8. CASE W!SenderEnds
  <2>1. wr.pc = "post" /\ _sem' = _sem + 1 /\ wr' = [wr EXCEPT !.pc = "done"] /\ UNCHANGED _sendQueue
    BY <1>8 DEF W!SenderEnds
  <2>2. /\ wr' \in [pc : WriterPlaces, batch : Seq(Nat), at : Nat]
        /\ wr'.pc = "done" /\ wr'.batch = wr.batch
    BY <1>3, <2>1
  <2>3. _sem' \in Nat
    BY <1>3, <2>1
  <2>4. WsTypeOK'
    BY <1>1, <1>2, <2>1, <2>2, <2>3 DEF WsTypeOK
  <2>5. _sem = 0 /\ _sem' = 1 /\ rd.pc \notin {"close", "done"}
    BY <1>1, <2>1 DEF PermitFits
  <2>6. PermitFits'
    BY <1>1, <1>2, <2>1, <2>2, <2>5 DEF PermitFits
  <2>7. WriterFits'
    BY <1>1, <1>2, <2>1, <2>2 DEF WriterFits
  <2> QED
    BY <1>2, <2>4, <2>6, <2>7 DEF WsInv
<1> QED
  BY <1>4, <1>5, <1>6, <1>7, <1>8

\* A message is queued, and a writer that waits is woken.
LEMMA Pushes ==
    ASSUME WsTypeOK, WriterFits, NEW m \in Pushed, W!pushMessage(m), UNCHANGED wire
    PROVE  /\ WriterFits'
           /\ wr' \in [pc : WriterPlaces, batch : Seq(Nat), at : Nat] /\ _sendQueue' \in Seq(Nat) /\ pushed' \in Seq(Pushed)
           /\ wr'.pc = IF wr.pc = "wait" THEN "lock" ELSE wr.pc
<1>1. /\ wr \in [pc : WriterPlaces, batch : Seq(Nat), at : Nat] /\ _sendQueue \in Seq(Nat) /\ pushed \in Seq(Pushed)
      /\ wire \in Seq(Nat \X PieceNames) /\ "lock" \in WriterPlaces
  BY DEF WsTypeOK, WriterPlaces
<1>2. /\ _sendQueue' = Append(_sendQueue, Len(pushed) + 1) /\ pushed' = Append(pushed, m)
      /\ wr' = IF wr.pc = "wait" THEN [wr EXCEPT !.pc = "lock"] ELSE wr
  BY DEF W!pushMessage
<1>3. /\ wr' \in [pc : WriterPlaces, batch : Seq(Nat), at : Nat]
      /\ wr'.pc = (IF wr.pc = "wait" THEN "lock" ELSE wr.pc) /\ wr'.batch = wr.batch /\ wr'.at = wr.at
  BY <1>1, <1>2
<1>4. /\ pushed' \in Seq(Pushed) /\ Longer(pushed, pushed') /\ Len(pushed') = Len(pushed) + 1 /\ Len(pushed) \in Nat
  BY <1>1, <1>2 DEF Longer
<1>5. /\ _sendQueue' \in Seq(Nat) /\ Len(_sendQueue') = Len(_sendQueue) + 1 /\ Len(_sendQueue) \in Nat
      /\ _sendQueue'[Len(_sendQueue) + 1] = Len(pushed) + 1
      /\ \A i \in 1 .. Len(_sendQueue) : _sendQueue'[i] = _sendQueue[i]
  BY <1>1, <1>2, <1>4
<1>6. Len(wr.batch) \in Nat /\ wr.at \in Nat
  BY <1>1
<1>7. Finished' = Finished /\ Finished \in Int /\ Len(pushed') - Len(_sendQueue') = Len(pushed) - Len(_sendQueue)
  BY <1>3, <1>4, <1>5, <1>6 DEF Finished
<1>8. Len(_sendQueue) <= Len(pushed) /\ Counts(_sendQueue, Len(pushed) - Len(_sendQueue))
  BY DEF WriterFits
<1>9. Counts(_sendQueue', Len(pushed) - Len(_sendQueue))
  <2> DEFINE q == _sendQueue
             r == _sendQueue'
             n == Len(pushed)
             k == Len(_sendQueue)
  <2>1. /\ n \in Nat /\ k \in Nat /\ k = Len(q) /\ Len(r) = k + 1 /\ r[k + 1] = n + 1
        /\ \A i \in 1 .. k : r[i] = q[i] /\ q[i] = (n - k) + i
    BY <1>4, <1>5, <1>8 DEF Counts
  <2> HIDE DEF q, r, n, k
  <2>2. \A i \in 1 .. Len(r) : r[i] = (n - k) + i
    BY ONLY <2>1
  <2> QED
    BY <2>2 DEF Counts, r, n, k
<1>10. Len(_sendQueue') <= Len(pushed')
  BY <1>4, <1>5, <1>8
<1>11. ASSUME wr.pc \in {"none", "scheduled", "lock", "wait", "send"} PROVE Written(wire, pushed', Finished, wr.at)
  <2>1. Finished >= 0 /\ (wr.batch = <<>> => wr.at = 0) /\ Written(wire, pushed, Finished, wr.at)
    BY <1>11 DEF WriterFits
  <2>2. wr.at # 0 => Len(wr.batch) > 0
    BY <2>1, <1>1
  <2>3. Finished \in Nat /\ Finished <= Len(pushed) /\ (wr.at # 0 => Finished < Len(pushed))
    <3> DEFINE n == Len(pushed)
               k == Len(_sendQueue)
               b == Len(wr.batch)
    <3>1. n \in Nat /\ k \in Nat /\ b \in Nat /\ Finished = n - k - b /\ Finished >= 0 /\ (wr.at # 0 => b > 0)
      BY <2>1, <2>2, <1>4, <1>5, <1>6 DEF Finished
    <3> HIDE DEF n, k, b
    <3>2. Finished \in Nat /\ Finished <= n /\ (wr.at # 0 => Finished < n)
      BY ONLY <3>1
    <3> QED
      BY <3>2 DEF n
  <2> QED
    BY <2>1, <2>3, <1>1, <1>4, <1>6, WrittenLonger
<1>12. \A i \in 1 .. Len(wire) : InOrder(wire, pushed', i)
  BY <1>1, <1>4, InOrderLonger DEF WriterFits
<1>13. WriterFits'
  BY <1>3, <1>7, <1>9, <1>10, <1>11, <1>12 DEF WriterFits
<1> QED
  BY <1>3, <1>4, <1>5, <1>13

LEMMA WsPushes ==
    ASSUME WsInv, NEW m \in Pushed, W!pushMessage(m), UNCHANGED <<_sem, wire, sent, got, late>>,
           UNCHANGED rd \/ (rd.pc = "force" /\ rd' = [rd EXCEPT !.pc = "join"])
    PROVE  WsInv'
<1>1. WsTypeOK /\ PermitFits /\ ReaderFits /\ WriterFits
  BY DEF WsInv
<1>2. /\ WriterFits'
      /\ wr' \in [pc : WriterPlaces, batch : Seq(Nat), at : Nat] /\ _sendQueue' \in Seq(Nat) /\ pushed' \in Seq(Pushed)
      /\ wr'.pc = IF wr.pc = "wait" THEN "lock" ELSE wr.pc
  BY <1>1, Pushes
<1>3. /\ ReaderFits' /\ rd' \in [pc : ReaderPlaces, op : FrameOps, part : Seq(Nat)]
      /\ rd'.pc = rd.pc \/ (rd.pc = "force" /\ rd'.pc = "join")
  <2>1. CASE UNCHANGED rd
    BY <2>1, <1>1, ReaderStays DEF WsTypeOK
  <2>2. CASE rd.pc = "force" /\ rd' = [rd EXCEPT !.pc = "join"]
    <3>1. "join" \in ReaderPlaces /\ "join" \notin Reading
      BY DEF ReaderPlaces, Reading
    <3> QED
      BY <2>2, <3>1, <1>1, ReaderMoves
  <2> QED
    BY <2>1, <2>2
<1>4. WsTypeOK'
  BY <1>1, <1>2, <1>3 DEF WsTypeOK
<1>5. PermitFits'
  BY <1>1, <1>2, <1>3 DEF PermitFits
<1> QED
  BY <1>2, <1>3, <1>4, <1>5 DEF WsInv

\* ForceClose(), the timer and the program queue.
LEMMA WsQueues ==
    ASSUME WsInv, W!ForceClose \/ W!TimerFires \/ Q!TimerFires \/ \E m \in OutMessages : W!SendMessage(m) \/ Q!SendMessage(m)
    PROVE  WsInv'
<1>1. W!Nil \in Pushed /\ W!CloseMessage \in Pushed /\ OutMessages \subseteq Pushed
  BY FramesAssumption DEF W!Nil, W!CloseMessage, Pushed, FrameOps, Sizes
<1>2. \A m : Q!pushMessage(m) <=> W!pushMessage(m)
  BY DEF Q!pushMessage, W!pushMessage
<1>3. CASE W!ForceClose
  BY <1>1, <1>3, WsPushes DEF W!ForceClose, W!Read
<1>4. CASE W!TimerFires \/ Q!TimerFires
  <2>1. PICK m \in {W!Nil, W!CloseMessage} : W!pushMessage(m)
    BY <1>2, <1>4 DEF W!TimerFires, Q!TimerFires, W!CloseMessage, Q!CloseMessage, W!Nil, Q!Nil
  <2>2. UNCHANGED <<rd, _sem, wire, sent, got, late>>
    BY <1>4 DEF W!TimerFires, Q!TimerFires
  <2> QED
    BY <2>1, <2>2, <1>1, WsPushes
<1>5. ASSUME NEW m \in OutMessages, W!SendMessage(m) \/ Q!SendMessage(m) PROVE WsInv'
  <2>1. W!pushMessage(m) /\ UNCHANGED <<rd, _sem, wire, sent, got, late>>
    BY <1>2, <1>5 DEF W!SendMessage, Q!SendMessage
  <2> QED
    BY <2>1, <1>1, WsPushes
<1> QED
  BY <1>3, <1>4, <1>5

\* A write, the end of a message, of a batch, or of the writer's work.
LEMMA WriterSends ==
    ASSUME WsInv, W!WSSendMessage
    PROVE  WsInv'
<1>1. WsTypeOK /\ PermitFits /\ ReaderFits /\ WriterFits
  BY DEF WsInv
<1>2. wr.pc = "send" /\ UNCHANGED <<rd, _sendQueue, _sem, sent, got, pushed, late>> /\ ReaderFits'
  BY <1>1, ReaderStays DEF W!WSSendMessage
<1>3. /\ wr \in [pc : WriterPlaces, batch : Seq(Nat), at : Nat] /\ _sendQueue \in Seq(Nat) /\ pushed \in Seq(Pushed)
      /\ wire \in Seq(Nat \X PieceNames) /\ {"lock", "stop"} \subseteq WriterPlaces
  BY <1>1 DEF WsTypeOK, WriterPlaces
<1>4. /\ Finished >= 0 /\ Counts(wr.batch, Finished) /\ (wr.batch = <<>> => wr.at = 0)
      /\ Written(wire, pushed, Finished, wr.at) /\ \A i \in 1 .. Len(wire) : InOrder(wire, pushed, i)
  BY <1>1, <1>2 DEF WriterFits
\* The batch is finished, or cut short by the end mark or a failure.
<1>5. ASSUME NEW x \in {"lock", "stop"}, wr' \in [pc : WriterPlaces, batch : Seq(Nat), at : Nat], wr'.pc = x,
             wr'.batch = <<>>, x = "lock" => wr.batch = <<>> /\ wr'.at = wr.at, UNCHANGED wire
      PROVE  WsInv'
  <2>1. WsTypeOK'
    BY <1>1, <1>2, <1>5 DEF WsTypeOK
  <2>2. PermitFits'
    BY <1>1, <1>2, <1>5 DEF PermitFits
  <2>3. WriterFits'
    <3>1. CASE x = "lock"
      <4>1. Finished' = Finished
        BY <3>1, <1>2, <1>5 DEF Finished
      <4> QED
        BY <3>1, <4>1, <1>1, <1>2, <1>4, <1>5 DEF WriterFits
    <3>2. CASE x = "stop"
      BY <3>2, <1>1, <1>2, <1>5 DEF WriterFits
    <3> QED
      BY <3>1, <3>2
  <2> QED
    BY <1>2, <2>1, <2>2, <2>3 DEF WsInv
<1>6. CASE wr.batch = <<>> /\ wr' = [wr EXCEPT !.pc = IF conn THEN "lock" ELSE "stop"] /\ UNCHANGED wire
  <2> DEFINE x == IF conn THEN "lock" ELSE "stop"
  <2>1. x \in {"lock", "stop"} /\ wr' = [wr EXCEPT !.pc = x]
    BY <1>6
  <2> HIDE DEF x
  <2>2. wr' \in [pc : WriterPlaces, batch : Seq(Nat), at : Nat] /\ wr'.pc = x /\ wr'.batch = wr.batch /\ wr'.at = wr.at
    BY <2>1, <1>3
  <2> QED
    BY <2>1, <2>2, <1>5, <1>6
<1>7. CASE wr' = [wr EXCEPT !.pc = "stop", !.batch = <<>>] /\ UNCHANGED wire
  <2> DEFINE x == "stop"
             y == <<>>
  <2>1. x \in WriterPlaces /\ y \in Seq(Nat) /\ wr' = [wr EXCEPT !.pc = x, !.batch = y]
    BY <1>7, <1>3
  <2> HIDE DEF x, y
  <2>2. wr' \in [pc : WriterPlaces, batch : Seq(Nat), at : Nat] /\ wr'.pc = x /\ wr'.batch = y
    BY <2>1, <1>3
  <2> QED
    BY <2>2, <1>5, <1>7 DEF x, y
<1>8. ASSUME wr.batch # <<>>, wire' = Append(wire, W!Pieces(Head(wr.batch))[wr.at + 1]),
             wr' = IF wr.at + 1 = Len(W!Pieces(Head(wr.batch)))
                   THEN [wr EXCEPT !.batch = Tail(@), !.at = 0]
                   ELSE [wr EXCEPT !.at = @ + 1]
      PROVE  WsInv'
  <2> DEFINE b == wr.batch
             n == Finished
             at == wr.at
             c == Len(PiecesIn(pushed, n + 1))
             w2 == Append(wire, PiecesIn(pushed, n + 1)[at + 1])
  <2>1. b \in Seq(Nat) /\ b # <<>> /\ at \in Nat /\ Len(b) \in Nat /\ Len(b) >= 1
    <3>1. b \in Seq(Nat) /\ b # <<>> /\ at \in Nat
      BY <1>3, <1>8
    <3> HIDE DEF b
    <3> QED
      BY <3>1
  <2>2. n \in Nat /\ n + Len(b) = Len(pushed) - Len(_sendQueue) /\ n < Len(pushed) /\ n + 1 \in 1 .. Len(pushed)
    BY <1>3, <1>4, <2>1 DEF Finished
  <2>3. Head(b) = n + 1
    BY <1>4, <2>1 DEF Counts
  <2>4. W!Pieces(n + 1) = PiecesIn(pushed, n + 1)
    BY DEF W!Pieces, PiecesIn, W!Control
  <2>5. c \in {1, 2, 3} /\ \A a \in 1 .. c : PiecesIn(pushed, n + 1)[a] \in Nat \X PieceNames
    BY <1>3, <2>2, PiecesFacts
  <2>6. at < c
    <3>1. at # 0 => at < c
      BY <1>4 DEF Written
    <3>2. c \in {1, 2, 3} /\ at \in Nat
      BY <2>1, <2>5
    <3> HIDE DEF c, at
    <3> QED
      BY <3>1, <3>2
  <2>7. wire' = w2 /\ wr' = IF at + 1 = c THEN [wr EXCEPT !.batch = Tail(b), !.at = 0] ELSE [wr EXCEPT !.at = at + 1]
    BY <1>8, <2>3, <2>4
  <2>8. Len(pushed) \in Nat /\ w2 \in Seq(Nat \X PieceNames) /\ Len(w2) = Len(wire) + 1 /\ Len(wire) \in Nat
    <3>1. at + 1 \in 1 .. c
      BY ONLY <2>1, <2>5, <2>6
    <3>2. PiecesIn(pushed, n + 1)[at + 1] \in Nat \X PieceNames
      BY <3>1, <2>5
    <3> QED
      BY <3>2, <1>3
  <2>9. /\ InOrder(w2, pushed, Len(wire) + 1)
        /\ at + 1 = c => Written(w2, pushed, n + 1, 0)
        /\ at + 1 # c => Written(w2, pushed, n, at + 1)
    BY <1>3, <1>4, <2>1, <2>2, <2>6, PieceMore
  <2>10. \A i \in 1 .. Len(w2) : InOrder(w2, pushed, i)
    <3>1. at + 1 \in 1 .. c
      BY ONLY <2>1, <2>5, <2>6
    <3>2. PiecesIn(pushed, n + 1)[at + 1] \in Nat \X PieceNames
      BY <3>1, <2>5
    <3>3. \A i \in 1 .. Len(wire) : InOrder(w2, pushed, i)
      BY <3>2, <1>3, <1>4, InOrderMore
    <3>4. \A i \in 1 .. Len(w2) : i \in 1 .. Len(wire) \/ i = Len(wire) + 1
      BY <2>8
    <3> QED
      BY <3>3, <3>4, <2>9
  <2> HIDE DEF w2
  <2>11. CASE at + 1 = c
    <3> DEFINE d == Tail(b)
    <3>1. d \in Seq(Nat) /\ Len(d) = Len(b) - 1 /\ \A i \in 1 .. Len(d) : d[i] = b[i + 1]
      BY <2>1
    <3>2. wr' = [wr EXCEPT !.batch = d, !.at = 0]
      BY <2>7, <2>11
    <3> HIDE DEF d
    <3>3. wr' \in [pc : WriterPlaces, batch : Seq(Nat), at : Nat] /\ wr'.pc = "send" /\ wr'.batch = d /\ wr'.at = 0
      BY <3>1, <3>2, <1>2, <1>3
    <3>4. Finished' = n + 1
      <4>1. Finished' = Len(pushed) - Len(_sendQueue) - Len(d)
        BY <1>2, <3>3 DEF Finished
      <4> DEFINE k == Len(pushed) - Len(_sendQueue)
                 l == Len(b)
      <4>2. n \in Nat /\ l \in Nat /\ n + l = k /\ Finished' = k - (l - 1)
        BY <4>1, <3>1, <2>1, <2>2
      <4> HIDE DEF n, k, l
      <4> QED
        BY ONLY <4>2
    <3>5. Counts(d, n + 1)
      <4>1. \A i \in 1 .. Len(b) : b[i] = n + i
        BY <1>4 DEF Counts
      <4> DEFINE l == Len(b)
      <4>2. l \in Nat /\ n \in Nat /\ Len(d) = l - 1 /\ (\A i \in 1 .. l : b[i] = n + i) /\ \A i \in 1 .. Len(d) : d[i] = b[i + 1]
        BY <4>1, <3>1, <2>1, <2>2
      <4> HIDE DEF n, l, b
      <4>3. \A i \in 1 .. Len(d) : d[i] = (n + 1) + i
        BY ONLY <4>2
      <4> QED
        BY <4>3 DEF Counts
    <3>6. Finished' >= 0 /\ Written(wire', pushed', Finished', wr'.at) /\ Counts(wr'.batch, Finished')
      BY <3>3, <3>4, <3>5, <2>2, <2>7, <2>9, <2>11, <1>2
    <3>7. WriterFits'
      BY <3>3, <3>6, <2>7, <2>10, <1>1, <1>2 DEF WriterFits
    <3>8. WsTypeOK' /\ PermitFits'
      BY <3>3, <2>7, <2>8, <1>1, <1>2 DEF WsTypeOK, PermitFits
    <3> QED
      BY <3>7, <3>8, <1>2 DEF WsInv
  <2>12. CASE at + 1 # c
    <3>1. wr' = [wr EXCEPT !.at = at + 1] /\ at + 1 \in Nat
      BY <2>7, <2>12, <2>1
    <3>2. wr' \in [pc : WriterPlaces, batch : Seq(Nat), at : Nat] /\ wr'.pc = "send" /\ wr'.batch = b /\ wr'.at = at + 1
      BY <3>1, <1>2, <1>3
    <3>3. Finished' = n
      BY <3>2, <1>2 DEF Finished
    <3>4. Finished' >= 0 /\ Written(wire', pushed', Finished', wr'.at) /\ Counts(wr'.batch, Finished')
      BY <3>2, <3>3, <2>2, <2>7, <2>9, <2>12, <1>2, <1>4
    <3>5. WriterFits'
      BY <3>2, <3>4, <2>1, <2>7, <2>10, <1>1, <1>2 DEF WriterFits
    <3>6. WsTypeOK' /\ PermitFits'
      BY <3>2, <2>7, <2>8, <1>1, <1>2 DEF WsTypeOK, PermitFits
    <3> QED
      BY <3>5, <3>6, <1>2 DEF WsInv
  <2> QED
    BY <2>11, <2>12
<1>9. \/ wr.batch = <<>> /\ wr' = [wr EXCEPT !.pc = IF conn THEN "lock" ELSE "stop"] /\ UNCHANGED wire
      \/ wr' = [wr EXCEPT !.pc = "stop", !.batch = <<>>] /\ UNCHANGED wire
      \/ /\ wr.batch # <<>> /\ wire' = Append(wire, W!Pieces(Head(wr.batch))[wr.at + 1])
         /\ wr' = IF wr.at + 1 = Len(W!Pieces(Head(wr.batch)))
                  THEN [wr EXCEPT !.batch = Tail(@), !.at = 0]
                  ELSE [wr EXCEPT !.at = @ + 1]
  BY Zenon DEF W!WSSendMessage
<1> QED
  BY <1>6, <1>7, <1>8, <1>9

\* The messages handed over stay whole while more is read.
LEMMA GotStays ==
    ASSUME WsTypeOK, ReaderFits, NEW f \in InFrame, sent' = Append(sent, f)
    PROVE  /\ sent' \in Seq(InFrame) /\ Longer(sent, sent') /\ Len(sent') = Len(sent) + 1 /\ sent'[Len(sent) + 1] = f
           /\ \E n \in 0 .. Len(got) : WholeUpTo(sent', got, n) /\ (~late.desync => n = Len(got))
           /\ ~late.desync =>
                 /\ \A i \in 0 .. Len(got) : LastOf(got, i) \in Nat /\ LastOf(got, i) <= Len(sent)
                 /\ \A i \in 1 .. Len(got) : WholeMessage(sent', LastOf(got, i - 1), got[i].op, got[i].ids)
<1>1. sent \in Seq(InFrame) /\ got \in Seq(MessageGot) /\ Len(got) \in Nat
  BY DEF WsTypeOK
<1>2. sent' \in Seq(InFrame) /\ Longer(sent, sent') /\ Len(sent') = Len(sent) + 1 /\ sent'[Len(sent) + 1] = f
  BY <1>1, FrameMore
<1>3. PICK n \in 0 .. Len(got) : WholeUpTo(sent, got, n) /\ (~late.desync => n = Len(got))
  BY DEF ReaderFits
<1>4. \A i \in 1 .. n : WholeMessage(sent, LastOf(got, i - 1), got[i].op, got[i].ids)
  BY <1>3 DEF WholeUpTo
<1>5. \A i \in 0 .. n : LastOf(got, i) \in Nat /\ LastOf(got, i) <= Len(sent)
  BY <1>1, <1>4, LastIsRead
<1>6. ASSUME NEW i \in 1 .. n PROVE WholeMessage(sent', LastOf(got, i - 1), got[i].op, got[i].ids)
  <2>1. i \in 1 .. Len(got) /\ i - 1 \in 0 .. n
    BY <1>1, <1>3
  <2>2. got[i] \in MessageGot
    BY <1>1, <2>1
  <2>3. got[i].ids \in Seq(Nat) /\ LastOf(got, i - 1) \in Nat
    BY <2>1, <2>2, <1>5 DEF MessageGot
  <2> QED
    BY <2>3, <1>1, <1>2, <1>4, WholeLonger
<1>7. WholeUpTo(sent', got, n)
  BY <1>3, <1>6 DEF WholeUpTo
<1> QED
  BY <1>2, <1>3, <1>5, <1>6, <1>7

\* A frame that leaves the unfinished message alone: one without data, or one that is
\* refused, after which nothing is read.
LEMMA ReaderHears ==
    ASSUME WsTypeOK, ReaderFits, NEW f \in InFrame, sent' = Append(sent, f), UNCHANGED got, late.desync => late'.desync,
           NEW x \in ReaderPlaces, rd' = [rd EXCEPT !.pc = x], x \in Reading => f.op \in {"ping", "pong"} /\ rd.pc \in Reading
    PROVE  ReaderFits' /\ rd'.pc = x /\ rd' \in [pc : ReaderPlaces, op : FrameOps, part : Seq(Nat)]
<1>1. rd \in [pc : ReaderPlaces, op : FrameOps, part : Seq(Nat)] /\ sent \in Seq(InFrame) /\ Len(got) \in 0 .. Len(got)
  BY DEF WsTypeOK
<1>2. rd'.pc = x /\ rd'.op = rd.op /\ rd'.part = rd.part /\ rd' \in [pc : ReaderPlaces, op : FrameOps, part : Seq(Nat)]
  BY <1>1
<1>3. /\ sent' \in Seq(InFrame) /\ Longer(sent, sent') /\ Len(sent') = Len(sent) + 1 /\ sent'[Len(sent) + 1] = f
      /\ \E n \in 0 .. Len(got) : WholeUpTo(sent', got, n) /\ (~late.desync => n = Len(got))
  BY GotStays
<1>4. \E n \in 0 .. Len(got') : WholeUpTo(sent', got', n) /\ (~late'.desync => n = Len(got'))
  BY <1>3
<1> DEFINE a == LastOf(got, Len(got))
           l == LastRead(a, rd.part)
<1>5. ASSUME ~late'.desync
      PROVE  Begun(sent', a, rd.op, rd.part) /\ (x \in Reading => \A i \in (l + 1) .. Len(sent') : ~IsData(sent', i))
  <2>1. Begun(sent, a, rd.op, rd.part) /\ (rd.pc \in Reading => \A i \in (l + 1) .. Len(sent) : ~IsData(sent, i))
    BY <1>5 DEF ReaderFits, Reading
  <2>2. a \in Nat /\ a <= Len(sent)
    BY <1>1, <1>5, GotStays
  <2>3. Begun(sent', a, rd.op, rd.part)
    BY <1>1, <1>3, <2>1, <2>2, BegunLonger
  <2>4. ASSUME x \in Reading PROVE \A i \in (l + 1) .. Len(sent') : ~IsData(sent', i)
    <3>1. l \in Nat
      <4>1. CASE rd.part = <<>>
        BY <4>1, <2>2 DEF LastRead
      <4>2. CASE rd.part # <<>>
        <5>1. Len(rd.part) \in 1 .. Len(rd.part)
          BY <4>2, <1>1
        <5> QED
          BY <4>2, <5>1, <1>1 DEF LastRead
      <4> QED
        BY <4>1, <4>2
    <3> HIDE DEF l
    <3>2. \A i \in (l + 1) .. Len(sent') : (i \in (l + 1) .. Len(sent) /\ i \in 1 .. Len(sent)) \/ i = Len(sent) + 1
      BY <1>1, <1>3, <3>1
    <3> QED
      BY <1>3, <2>1, <2>4, <3>2 DEF IsData, Longer
  <2> QED
    BY <2>3, <2>4
<1> QED
  BY <1>2, <1>4, <1>5 DEF ReaderFits, Reading

\* A data frame, the last of its message or not.
LEMMA ReaderTakes ==
    ASSUME WsTypeOK, ReaderFits, rd.pc = "run", ~late.desync, UNCHANGED late, NEW f \in InFrame, sent' = Append(sent, f), f.op \notin {"ping", "pong"}, W!Taken(f)
    PROVE  /\ ReaderFits' /\ rd'.pc \in {"run", "handle"}
           /\ rd' \in [pc : ReaderPlaces, op : FrameOps, part : Seq(Nat)] /\ got' \in Seq(MessageGot)
<1>1. rd \in [pc : ReaderPlaces, op : FrameOps, part : Seq(Nat)] /\ sent \in Seq(InFrame) /\ got \in Seq(MessageGot)
  BY DEF WsTypeOK
<1> DEFINE a == LastOf(got, Len(got))
           op2 == Opcodes(rd.op, f.op)
           all == Append(rd.part, Len(sent) + 1)
<1>2. op2 = W!Opcode(f) /\ op2 \in FrameOps /\ all \in Seq(Nat) /\ f.op \in FrameOps
  BY <1>1 DEF Opcodes, W!Opcode, InFrame
<1>3. W!Joined(f) = [rd EXCEPT !.op = op2, !.part = all]
  BY <1>2 DEF W!Joined
<1>4. /\ sent' \in Seq(InFrame) /\ Longer(sent, sent') /\ Len(sent') = Len(sent) + 1 /\ Len(sent) \in Nat
      /\ \A i \in 0 .. Len(got) : LastOf(got, i) \in Nat /\ LastOf(got, i) <= Len(sent)
      /\ \A i \in 1 .. Len(got) : WholeMessage(sent', LastOf(got, i - 1), got[i].op, got[i].ids)
  BY <1>1, GotStays
<1>5. a \in Nat /\ a <= Len(sent)
  BY <1>1, <1>4
<1>6. /\ Begun(sent, a, rd.op, rd.part)
      /\ \A i \in (LastRead(a, rd.part) + 1) .. Len(sent) : ~IsData(sent, i)
  BY DEF ReaderFits
<1>7. /\ ~f.fin => Begun(sent', a, op2, all)
      /\ f.fin => WholeMessage(sent', a, op2, all)
  BY <1>1, <1>5, <1>6, FrameBegins
<1>8. all # <<>> /\ all[Len(all)] = Len(sent')
  <2> DEFINE q == rd.part
             e == Len(sent) + 1
  <2>1. q \in Seq(Nat) /\ e \in Nat /\ e = Len(sent')
    BY <1>1, <1>4
  <2> HIDE DEF q, e
  <2>2. LET v == Append(q, e) IN v # <<>> /\ v[Len(v)] = e
    BY <2>1
  <2> QED
    BY <2>1, <2>2 DEF q, e
<1> HIDE DEF all, op2
<1>9. CASE f.fin
  <2> DEFINE m == [op |-> op2, ids |-> all]
  <2>1. got' = Append(got, m) /\ rd' = [pc |-> "handle", op |-> "continue", part |-> <<>>]
    <3>1. W!Joined(f).part = all
      BY <1>1, <1>2, <1>3
    <3> QED
      BY <3>1, <1>2, <1>9 DEF W!Taken
  <2>2. m \in MessageGot /\ m.op = op2 /\ m.ids = all
    BY <1>2 DEF MessageGot
  <2> HIDE DEF m
  <2>3. got' \in Seq(MessageGot)
    BY <1>1, <2>1, <2>2
  <2>4. /\ \A i \in 0 .. Len(got) : LastOf(got', i) = LastOf(got, i)
        /\ LastOf(got', Len(got')) = Len(sent') /\ Len(got') = Len(got) + 1 /\ Len(got) \in Nat
        /\ (\A i \in 1 .. Len(got) : got'[i] = got[i]) /\ got'[Len(got')] = m
    <3> DEFINE h == Append(got, m)
    <3>1. /\ \A i \in 0 .. Len(got) : LastOf(h, i) = LastOf(got, i)
          /\ LastOf(h, Len(h)) = m.ids[Len(m.ids)] /\ Len(h) = Len(got) + 1
          /\ (\A i \in 1 .. Len(got) : h[i] = got[i]) /\ h[Len(h)] = m
      BY <1>1, <2>2, LastIsLonger
    <3>3. got' = h
      BY <2>1
    <3> HIDE DEF h
    <3>2. Len(got) \in Nat
      BY <1>1
    <3> QED
      BY <3>1, <3>2, <3>3, <2>2, <1>8
  <2>5. ASSUME NEW i \in 1 .. Len(got') PROVE WholeMessage(sent', LastOf(got', i - 1), got'[i].op, got'[i].ids)
    <3>1. CASE i \in 1 .. Len(got)
      <4>1. got'[i] = got[i] /\ LastOf(got', i - 1) = LastOf(got, i - 1)
        BY <3>1, <2>4
      <4> QED
        BY <4>1, <3>1, <1>4
    <3>2. CASE i \notin 1 .. Len(got)
      <4>1. i = Len(got') /\ i - 1 = Len(got) /\ LastOf(got', i - 1) = a
        BY <3>2, <2>4
      <4> QED
        BY <4>1, <1>7, <1>9, <2>2, <2>4
    <3> QED
      BY <3>1, <3>2
  <2>6. Begun(sent', LastOf(got', Len(got')), rd'.op, rd'.part)
    BY <2>1 DEF Begun, Chained
  <2>7. \A i \in (LastRead(LastOf(got', Len(got')), rd'.part) + 1) .. Len(sent') : FALSE
    BY <2>1, <2>4, <1>4 DEF LastRead
  <2>8. rd' \in [pc : ReaderPlaces, op : FrameOps, part : Seq(Nat)] /\ rd'.pc = "handle"
    BY <2>1 DEF ReaderPlaces, FrameOps
  <2>9. Len(got') \in 0 .. Len(got') /\ WholeUpTo(sent', got', Len(got'))
    BY <2>3, <2>5 DEF WholeUpTo
  <2> QED
    BY <2>3, <2>6, <2>7, <2>8, <2>9 DEF ReaderFits
<1>10. CASE ~f.fin
  <2>1. rd' = [rd EXCEPT !.op = op2, !.part = all] /\ got' = got
    BY <1>3, <1>10 DEF W!Taken
  <2>2. rd' \in [pc : ReaderPlaces, op : FrameOps, part : Seq(Nat)] /\ rd'.pc = "run" /\ rd'.op = op2 /\ rd'.part = all
    BY <2>1, <1>1, <1>2
  <2>3. \A i \in (LastRead(a, all) + 1) .. Len(sent') : FALSE
    BY <1>8, <1>4 DEF LastRead
  <2>4. Len(got) \in 0 .. Len(got) /\ WholeUpTo(sent', got, Len(got))
    BY <1>1, <1>4 DEF WholeUpTo
  <2> QED
    BY <1>1, <1>7, <1>10, <2>1, <2>2, <2>3, <2>4 DEF ReaderFits
<1> QED
  BY <1>9, <1>10

\* What is left to show when the reader has done its part.
LEMMA ReaderDone ==
    ASSUME WsInv, rd.pc = "run", UNCHANGED <<wr, _sendQueue, _sem, pushed>>,
           ReaderFits', rd' \in [pc : ReaderPlaces, op : FrameOps, part : Seq(Nat)], rd'.pc \in {"run", "handle", "end"},
           sent' \in Seq(InFrame), got' \in Seq(MessageGot),
           late' \in [desync : BOOLEAN, overtaken : BOOLEAN], late'.overtaken = late.overtaken,
           UNCHANGED wire \/ wire' = Append(wire, <<0, "pong">>)
    PROVE  WsInv'
<1>1. WsTypeOK /\ PermitFits /\ ReaderFits /\ WriterFits
  BY DEF WsInv
<1>2. wire \in Seq(Nat \X PieceNames)
  BY <1>1 DEF WsTypeOK
<1>3. PermitFits'
  BY <1>1 DEF PermitFits
<1>4. wire' \in Seq(Nat \X PieceNames) /\ WriterFits'
  <2>1. CASE UNCHANGED wire
    BY <2>1, <1>1, <1>2, WriterStays
  <2>2. CASE wire' = Append(wire, <<0, "pong">>)
    <3>1. <<0, "pong">> \in Nat \X PieceNames
      BY DEF PieceNames
    <3>2. wire' \in Seq(Nat \X PieceNames) /\ Len(wire') = Len(wire) + 1 /\ Len(wire) \in Nat
      BY <2>2, <3>1, <1>2
    <3>3. pushed \in Seq(Pushed) /\ wr.at \in Nat /\ Len(pushed) \in Nat /\ Len(_sendQueue) \in Nat /\ Len(wr.batch) \in Nat
      BY <1>1 DEF WsTypeOK
    <3>4. Finished' = Finished /\ Finished \in Int
      BY <3>3 DEF Finished
    <3>5. ASSUME wr.pc \in {"none", "scheduled", "lock", "wait", "send"} PROVE Written(wire', pushed, Finished, wr.at)
      <4>1. Finished >= 0 /\ Written(wire, pushed, Finished, wr.at)
        BY <3>5, <1>1 DEF WriterFits
      <4>2. Finished \in Nat
        BY <3>4, <4>1
      <4> QED
        BY <4>1, <4>2, <2>2, <3>3, <1>2, PongMore
    <3>6. \A i \in 1 .. Len(wire') : InOrder(wire', pushed, i)
      <4>1. \A i \in 1 .. Len(wire) : InOrder(wire', pushed, i)
        BY <2>2, <3>1, <3>3, <1>1, <1>2, InOrderMore DEF WriterFits
      <4>2. InOrder(wire', pushed, Len(wire) + 1)
        BY <2>2, <3>3, <1>2, 0 \in Nat, PongMore
      <4>3. \A i \in 1 .. Len(wire') : i \in 1 .. Len(wire) \/ i = Len(wire) + 1
        BY <3>2
      <4> QED
        BY <4>1, <4>2, <4>3
    <3> QED
      BY <1>1, <3>2, <3>4, <3>5, <3>6 DEF WriterFits
  <2> QED
    BY <2>1, <2>2
<1>5. WsTypeOK'
  BY <1>1, <1>4 DEF WsTypeOK
<1> QED
  BY <1>3, <1>4, <1>5 DEF WsInv

LEMMA WsReceives ==
    ASSUME WsInv, W!WSRecvMessage \/ Q!WSRecvMessage
    PROVE  WsInv'
<1>1. WsTypeOK /\ PermitFits /\ ReaderFits /\ WriterFits
  BY DEF WsInv
<1>2. InFrames \cup {Pings} \subseteq InFrame
  <2>1. Pings \in InFrame
    BY DEF Pings, Frame, InFrame, FrameOps, Sizes
  <2>2. InFrames \subseteq InFrame
    BY FramesAssumption DEF InFrame
  <2> QED
    BY <2>1, <2>2
<1>3. ASSUME NEW f PROVE /\ Q!WSPong(f) <=> W!WSPong(f)
                         /\ Q!Taken(f) <=> W!Taken(f)
                         /\ Q!Refused(f) <=> W!Refused(f)
                         /\ Q!StaysUnread(f) = W!StaysUnread(f)
  <2>1. Q!Opcode(f) = W!Opcode(f)
    BY DEF Q!Opcode, W!Opcode
  <2>2. Q!Joined(f) = W!Joined(f)
    BY <2>1 DEF Q!Joined, W!Joined
  <2>3. Q!StaysUnread(f) = W!StaysUnread(f)
    BY DEF Q!StaysUnread, W!StaysUnread
  <2> QED
    BY <2>1, <2>2, <2>3 DEF Q!WSPong, W!WSPong, Q!Taken, W!Taken, Q!Refused, W!Refused, Q!Read, W!Read
<1>4. PICK f \in InFrames \cup {Pings} :
         /\ rd.pc = "run" /\ ~late.desync /\ sent' = Append(sent, f)
         /\ \/ f.op = "ping" /\ W!WSPong(f)
            \/ f.op = "pong" /\ late' = [late EXCEPT !.desync = W!StaysUnread(f)] /\ UNCHANGED <<conn, rd, wire, got>>
            \/ f.op \notin {"ping", "pong"} /\ W!Refused(f) /\ conn' = FALSE /\ W!Read("end") /\ UNCHANGED <<wire, got, late>>
            \/ f.op \notin {"ping", "pong"} /\ ~W!Refused(f) /\ W!Taken(f) /\ UNCHANGED <<conn, wire, late>>
         /\ UNCHANGED <<peer, wr, _sendQueue, _sem, _timer, _connsMap, pushed>>
  <2>1. CASE W!WSRecvMessage
    BY <2>1 DEF W!WSRecvMessage, W!Control
  <2>2. CASE Q!WSRecvMessage
    BY <2>2, <1>3 DEF Q!WSRecvMessage, Q!Control, Q!Read, W!Read
  <2> QED
    BY <2>1, <2>2
<1>5. /\ f \in InFrame /\ W!StaysUnread(f) \in BOOLEAN /\ late \in [desync : BOOLEAN, overtaken : BOOLEAN]
      /\ wire \in Seq(Nat \X PieceNames) /\ rd \in [pc : ReaderPlaces, op : FrameOps, part : Seq(Nat)]
      /\ {"run", "end"} \subseteq ReaderPlaces /\ "end" \notin Reading /\ "run" \in Reading
  BY <1>1, <1>2, <1>4 DEF WsTypeOK, InFrame, ReaderPlaces, Reading, W!StaysUnread
<1>6. sent' \in Seq(InFrame)
  BY <1>1, <1>4, <1>5, GotStays
<1>7. UNCHANGED <<wr, _sendQueue, _sem, pushed>>
  BY <1>4
<1>8. [late EXCEPT !.desync = W!StaysUnread(f)] \in [desync : BOOLEAN, overtaken : BOOLEAN]
      /\ [late EXCEPT !.desync = W!StaysUnread(f)].overtaken = late.overtaken
  BY <1>5
<1>9. got \in Seq(MessageGot)
  BY <1>1 DEF WsTypeOK
<1>10. CASE f.op \in {"ping", "pong"} /\ UNCHANGED rd
  <2>1. rd' = [rd EXCEPT !.pc = "run"]
    BY <1>4, <1>5, <1>10
  <2>2. late' = [late EXCEPT !.desync = W!StaysUnread(f)] /\ got' = got /\ (UNCHANGED wire \/ wire' = Append(wire, <<0, "pong">>))
    BY <1>4, <1>10 DEF W!WSPong
  <2>3. ReaderFits' /\ rd'.pc = "run" /\ rd' \in [pc : ReaderPlaces, op : FrameOps, part : Seq(Nat)]
    <3>1. rd.pc = "run" /\ sent' = Append(sent, f)
      BY <1>4
    <3>2. /\ WsTypeOK /\ ReaderFits /\ f \in InFrame /\ got' = got /\ "run" \in ReaderPlaces
          /\ f.op \in {"ping", "pong"} /\ rd.pc \in Reading /\ ~late.desync
      BY <1>4, <1>1, <1>5, <1>10, <2>2, <3>1
    <3> QED
      BY ONLY <3>1, <3>2, <2>1, ReaderHears
  <2> QED
    BY <2>2, <2>3, <1>4, <1>6, <1>7, <1>8, <1>9, ReaderDone
<1>11. CASE W!Read("end") /\ got' = got /\ UNCHANGED wire /\ late' \in {late, [late EXCEPT !.desync = W!StaysUnread(f)]}
  <2>1. rd' = [rd EXCEPT !.pc = "end"]
    BY <1>11 DEF W!Read
  <2>2. ReaderFits' /\ rd'.pc = "end" /\ rd' \in [pc : ReaderPlaces, op : FrameOps, part : Seq(Nat)]
    BY <1>1, <1>4, <1>5, <1>11, <2>1, ReaderHears
  <2>3. late' \in [desync : BOOLEAN, overtaken : BOOLEAN] /\ late'.overtaken = late.overtaken
    BY <1>5, <1>8, <1>11
  <2> QED
    BY <2>2, <2>3, <1>4, <1>6, <1>7, <1>9, <1>11, ReaderDone
<1>12. CASE f.op \notin {"ping", "pong"} /\ W!Taken(f) /\ UNCHANGED <<wire, late>>
  <2>1. /\ ReaderFits' /\ rd'.pc \in {"run", "handle"}
        /\ rd' \in [pc : ReaderPlaces, op : FrameOps, part : Seq(Nat)] /\ got' \in Seq(MessageGot)
    BY <1>1, <1>4, <1>5, <1>12, ReaderTakes
  <2> QED
    BY <2>1, <1>4, <1>5, <1>6, <1>7, <1>12, ReaderDone
<1>13. \/ f.op \in {"ping", "pong"} /\ UNCHANGED rd
       \/ W!Read("end") /\ got' = got /\ UNCHANGED wire /\ late' \in {late, [late EXCEPT !.desync = W!StaysUnread(f)]}
       \/ f.op \notin {"ping", "pong"} /\ W!Taken(f) /\ UNCHANGED <<wire, late>>
  BY <1>4 DEF W!WSPong
<1> QED
  BY <1>10, <1>11, <1>12, <1>13

\* Out of step, the reader hands over what it takes for a message, answers what it takes
\* for a ping, or ends.
LEMMA WsGarbage ==
    ASSUME WsInv, W!RecvGarbage \/ Q!RecvGarbage
    PROVE  WsInv'
<1>1. WsTypeOK /\ PermitFits /\ ReaderFits /\ WriterFits
  BY DEF WsInv
<1>2. rd.pc = "run" /\ late.desync /\ UNCHANGED <<wr, _sendQueue, _sem, pushed, late>>
  BY DEF W!RecvGarbage, Q!RecvGarbage
<1>3. /\ W!Noise \in InFrame /\ W!Noise.op = "pong" /\ W!Garbage \in MessageGot
      /\ {"run", "end"} \subseteq ReaderPlaces /\ "end" \notin Reading /\ "run" \in Reading
  BY DEF W!Noise, W!Garbage, InFrame, MessageGot, FrameOps, Sizes, ReaderPlaces, Reading
<1>4. /\ rd \in [pc : ReaderPlaces, op : FrameOps, part : Seq(Nat)] /\ sent \in Seq(InFrame)
      /\ got \in Seq(MessageGot) /\ late \in [desync : BOOLEAN, overtaken : BOOLEAN] /\ Len(got) \in Nat
  BY <1>1 DEF WsTypeOK
<1>5. CASE sent' = Append(sent, W!Noise) /\ got' = Append(got, W!Garbage) /\ UNCHANGED wire
           /\ rd' = [pc |-> "handle", op |-> "continue", part |-> <<>>]
  <2>1. PICK n \in 0 .. Len(got) : WholeUpTo(sent', got, n)
    BY <1>1, <1>3, <1>5, GotStays
  <2>2. sent' \in Seq(InFrame) /\ got' \in Seq(MessageGot)
    BY <1>3, <1>4, <1>5
  <2>3. rd' \in [pc : ReaderPlaces, op : FrameOps, part : Seq(Nat)] /\ rd'.pc = "handle"
    BY <1>5 DEF ReaderPlaces, FrameOps
  <2>4. /\ Len(got') = Len(got) + 1 /\ got'[Len(got) + 1] = W!Garbage
        /\ \A i \in 1 .. Len(got) : got'[i] = got[i]
    BY <1>4, <1>5
  <2>5. \A i \in 1 .. n : got'[i] = got[i] /\ LastOf(got', i - 1) = LastOf(got, i - 1)
    <3>1. \A i \in 1 .. n : i \in 1 .. Len(got) /\ (i - 1 = 0 \/ i - 1 \in 1 .. Len(got))
      BY <1>4
    <3> QED
      BY <2>4, <3>1 DEF LastOf
  <2>6. \A i \in (n + 1) .. Len(got') : i \in (n + 1) .. Len(got) \/ i = Len(got) + 1
    BY <1>4, <2>4
  <2>7. \A i \in (n + 1) .. Len(got) : i \in 1 .. Len(got)
    OBVIOUS
  <2>8. \A i \in 1 .. n : WholeMessage(sent', LastOf(got', i - 1), got'[i].op, got'[i].ids)
    BY <2>1, <2>5 DEF WholeUpTo
  <2>9. \A i \in (n + 1) .. Len(got') : got'[i] = W!Garbage
    <3>1. \A i \in (n + 1) .. Len(got) : got[i] = W!Garbage
      BY <2>1 DEF WholeUpTo
    <3> QED
      BY <3>1, <2>4, <2>6, <2>7
  <2>10. WholeUpTo(sent', got', n) /\ n \in 0 .. Len(got')
    BY <1>4, <2>4, <2>8, <2>9 DEF WholeUpTo
  <2>11. ReaderFits'
    BY <1>2, <2>10 DEF ReaderFits
  <2> QED
    BY <1>2, <1>4, <1>5, <2>2, <2>3, <2>11, ReaderDone
<1>6. CASE /\ sent' = Append(sent, W!Noise) /\ UNCHANGED <<rd, got>>
           /\ UNCHANGED wire \/ wire' = Append(wire, <<0, "pong">>)
  <2>1. sent' \in Seq(InFrame) /\ rd' = [rd EXCEPT !.pc = "run"]
    BY <1>2, <1>3, <1>4, <1>6
  <2>2. ReaderFits' /\ rd'.pc = "run" /\ rd' \in [pc : ReaderPlaces, op : FrameOps, part : Seq(Nat)]
    <3>1. /\ WsTypeOK /\ ReaderFits /\ W!Noise \in InFrame /\ sent' = Append(sent, W!Noise) /\ got' = got
          /\ late' = late /\ "run" \in ReaderPlaces /\ W!Noise.op \in {"ping", "pong"} /\ rd.pc \in Reading
      BY <1>1, <1>2, <1>3, <1>6
    <3> QED
      BY ONLY <3>1, <2>1, ReaderHears
  <2> QED
    BY <1>2, <1>4, <1>6, <2>1, <2>2, ReaderDone
<1>7. CASE rd' = [rd EXCEPT !.pc = "end"] /\ UNCHANGED <<sent, got, wire>>
  <2>1. ReaderFits' /\ rd'.pc = "end" /\ rd' \in [pc : ReaderPlaces, op : FrameOps, part : Seq(Nat)]
    BY <1>1, <1>2, <1>3, <1>7, ReaderMoves
  <2> QED
    BY <1>2, <1>4, <1>7, <2>1, ReaderDone
<1> QED
  BY <1>5, <1>6, <1>7
  DEF W!RecvGarbage, Q!RecvGarbage, W!Noise, Q!Noise, W!Garbage, Q!Garbage, W!Read, Q!Read

LEMMA WsInvNext == WsPartInv /\ [Next]_vars => WsPartInv'
<1> SUFFICES ASSUME WsInv, W!WsNext \/ Q!WsNext \/ UNCHANGED wsVars
             PROVE  WsInv'
  BY WsFrame DEF WsPartInv
<1>1. CASE W!HandleShake \/ W!OnConnect \/ W!RecvNothing \/ W!Handle
           \/ W!OnClose \/ W!waitSender \/ W!CloseSession \/ W!StartSender
  BY <1>1, WsReads
<1>2. CASE W!SenderBegins \/ W!SenderTakes \/ W!SenderCloses \/ W!SenderEnds
  BY <1>2, WriterSteps
<1>3. CASE W!WSSendMessage
  BY <1>3, WriterSends
<1>4. CASE W!ForceClose \/ W!TimerFires \/ Q!TimerFires \/ \E m \in OutMessages : W!SendMessage(m) \/ Q!SendMessage(m)
  BY <1>4, WsQueues
<1>5. CASE W!WSRecvMessage \/ Q!WSRecvMessage
  BY <1>5, WsReceives
<1>6. CASE W!RecvGarbage \/ Q!RecvGarbage
  BY <1>6, WsGarbage
<1>7. CASE W!PeerLeaves
  BY <1>7 DEF W!PeerLeaves, WsInv, WsTypeOK, PermitFits, ReaderFits, WriterFits, Finished
<1>8. CASE UNCHANGED wsVars
  BY <1>8 DEF wsVars, WsInv, WsTypeOK, PermitFits, ReaderFits, WriterFits, Finished
<1> QED
  BY <1>1, <1>2, <1>3, <1>4, <1>5, <1>6, <1>7, <1>8, WsSame
  DEF W!WsNext, Q!WsNext, W!Reader, Q!Reader, W!Sender, Q!Sender

LEMMA WsWhole == WsPartInv => FramesWhole
<1> SUFFICES ASSUME WsInv PROVE W!FramesWhole /\ W!DoneMeansDone
  BY DEF WsPartInv, FramesWhole
<1>1. WsTypeOK /\ PermitFits /\ ReaderFits /\ WriterFits
  BY DEF WsInv
<1>2. \A a, b : FollowsIn(sent, a, b) <=> W!Follows(a, b)
  BY DEF FollowsIn, W!Follows, IsData, W!Data, W!Control
<1>3. \A i : PiecesIn(pushed, i) = W!Pieces(i)
  BY DEF PiecesIn, W!Pieces, W!Control
<1>4. \A x, y : NextIn(pushed, x, y) <=> W!NextPiece(x, y)
  BY <1>3 DEF NextIn, W!NextPiece
<1>5. ASSUME NEW i \in 1 .. Len(got)
      PROVE  LET ids == got[i].ids IN
             \/ /\ ids # <<>> /\ W!Follows(IF i = 1 THEN 0 ELSE got[i - 1].ids[Len(got[i - 1].ids)], ids[1])
                /\ \A j \in 1 .. (Len(ids) - 1) : W!Follows(ids[j], ids[j + 1])
                /\ \A j \in 1 .. Len(ids) : sent[ids[j]].fin <=> j = Len(ids)
                /\ \E j \in 1 .. Len(ids) : /\ got[i].op = sent[ids[j]].op /\ \A k \in 1 .. (j - 1) : sent[ids[k]].op = "continue"
                                            /\ got[i].op = "continue" => j = Len(ids)
             \/ late.desync /\ \A k \in i .. Len(got) : got[k] = W!Garbage
  <2> DEFINE a == IF i = 1 THEN 0 ELSE got[i - 1].ids[Len(got[i - 1].ids)]
             ids == got[i].ids
  <2>1. a = LastOf(got, i - 1)
    BY DEF LastOf
  <2>2. PICK n \in 0 .. Len(got) : WholeUpTo(sent, got, n) /\ (~late.desync => n = Len(got))
    BY <1>1 DEF ReaderFits
  <2>3. Len(got) \in Nat
    BY <1>1 DEF WsTypeOK
  <2>4. CASE i \in 1 .. n
    <3>1. WholeMessage(sent, a, got[i].op, ids)
      BY <2>1, <2>2, <2>4 DEF WholeUpTo
    <3> HIDE DEF a, ids
    <3>2. ids # <<>> /\ W!Follows(a, ids[1]) /\ \A j \in 1 .. (Len(ids) - 1) : W!Follows(ids[j], ids[j + 1])
      BY <3>1, <1>2 DEF WholeMessage, Chained
    <3>3. \A j \in 1 .. Len(ids) : sent[ids[j]].fin <=> j = Len(ids)
      BY <3>1 DEF WholeMessage
    <3>4. \E j \in 1 .. Len(ids) : /\ got[i].op = sent[ids[j]].op /\ \A k \in 1 .. (j - 1) : sent[ids[k]].op = "continue"
                                   /\ got[i].op = "continue" => j = Len(ids)
      BY <3>1 DEF WholeMessage, Names
    <3> QED
      BY <3>2, <3>3, <3>4 DEF a, ids
  <2>5. CASE i \notin 1 .. n
    <3>1. late.desync /\ \A k \in i .. Len(got) : k \in (n + 1) .. Len(got)
      BY <2>2, <2>3, <2>5
    <3> QED
      BY <2>2, <3>1 DEF WholeUpTo
  <2> QED
    BY <2>4, <2>5
<1>6. ASSUME NEW i \in 1 .. Len(wire), wire[i][1] # 0
      PROVE  \/ wire[i] = <<1, "head">> /\ pushed # <<>> /\ \A k \in 1 .. (i - 1) : wire[k][1] = 0
             \/ \E k \in 1 .. (i - 1) : /\ wire[k][1] # 0 /\ W!NextPiece(wire[k], wire[i])
                                       /\ \A l \in (k + 1) .. (i - 1) : wire[l][1] = 0
  <2>1. InOrder(wire, pushed, i)
    BY <1>1 DEF WriterFits
  <2> QED
    BY <2>1, <1>4, <1>6 DEF InOrder, OnlyPongs
<1>7. W!FramesWhole
  BY <1>5, <1>6 DEF W!FramesWhole
<1>8. wr \in [pc : WriterPlaces, batch : Seq(Nat), at : Nat]
  BY <1>1 DEF WsTypeOK
<1>9. W!DoneMeansDone
  BY <1>1, <1>8 DEF PermitFits, W!DoneMeansDone, WriterPlaces
<1> QED
  BY <1>7, <1>9

\* A servlet gets the client's messages whole and in order, and nothing else until a ping
\* or pong with a mask or a payload has put the reader out of step; the client gets the
\* queued ones, and a session that is done has no writer at work (WSRecvMessage(), WSPong(),
\* WSSendMessage(), doSend() and waitSender() in ws_session.cpp), whatever frames the client
\* sends, whoever queues and whenever the timer fires.
THEOREM FramesAreWhole == Spec => []FramesWhole
<1>1. Init => WsPartInv
  BY WsInvInit DEF WsPartInv
<1> QED
  BY <1>1, WsInvNext, WsWhole, PTL DEF Spec
-----------------------------------------------------------------------------
(***************************************************************************)
(* HttpSession.  The tokens of the requests that are not answered are what *)
(* the session has of the current one, what is in its buffer, what is on   *)
(* its way and the body that the client holds back: one stream of whole    *)
(* requests (BytesFit).  The pieces the parser was given are the beginning *)
(* of the head of the current request, cut behind lines, and the body the  *)
(* session has read is the beginning of its body (TakenFits).            *)
(***************************************************************************)
Token == [r : Nat, t : {"x", "n"}, i : Nat]
Request == [lines : Nat, body : Seq({"x", "n"}), conn : {"keep-alive", "close"}, expect : BOOLEAN, ok : BOOLEAN]

\* The tokens of the requests asked, each head with its body.
HttpTokens(r, q) == H!HeadOf(r, q) \o H!BodyOf(r, q)
OnTheWire(qs) == [r \in 1 .. Len(qs) |-> HttpTokens(r, qs[r])]
\* The request that the session is at, and what it has taken of it.
Current == Len(said) + 1
HeadTaken(fed) == H!End(fed, Len(fed))
HeadSize(q) == 2 * q.lines + 1
\* The body that the client holds back.
HeldBack == IF cli.pc = "body" THEN H!BodyOf(Len(asked), asked[Len(asked)]) ELSE <<>>

HttpTypeOK ==
    /\ _is_keepAlive \in BOOLEAN
    /\ net \in Seq(Token) /\ asked \in Seq(Request)
    /\ cli \in [pc : {"idle", "body", "answer"}, piped : BOOLEAN]
    /\ ses \in [pc : {"recv", "parsed", "body", "handle", "send", "closed"},
                data : Seq(Token), fed : Seq(Seq(Token)), body : Seq(Token)]
    /\ served \in Seq([head : Seq(Seq(Token)), body : Seq(Token)])
    /\ said \in Seq({"keep-alive", "close"})
    /\ fate \in [lost : BOOLEAN, faulty : BOOLEAN]

\* The client asks again before the answer only if that is on record.
ClientFits ==
    /\ cli.pc = "body" => asked # <<>>
    /\ Len(said) <= Len(asked) /\ (Len(asked) <= Len(said) + 1 \/ cli.piped)
    /\ fate.lost => cli.piped

\* A session goes on only if the client was told so.
GoesOn ==
    /\ ses.pc # "closed" /\ said # <<>> => said[Len(said)] = "keep-alive" /\ _is_keepAlive
    /\ ses.pc = "closed" /\ ~fate.faulty => said # <<>> /\ said[Len(said)] = "close"

\* What a servlet is handed is request r, which is q.
KeptWhole(g, r, q) ==
    /\ H!CutFrom(g.head, H!HeadOf(r, q)) /\ HeadTaken(g.head) = HeadSize(q)
    /\ g.body = H!BodyOf(r, q) /\ q.ok
ServedFits ==
    /\ Len(served) <= Len(asked)
    /\ ~fate.lost => \A i \in 1 .. Len(served) : KeptWhole(served[i], i, asked[i])
    /\ ses.pc # "closed" => Len(served) = IF ses.pc = "send" THEN Current ELSE Len(said)

\* What session s has of request r, which is q.
HasRequest(s, r, q) ==
    /\ H!CutFrom(s.fed, H!HeadOf(r, q)) /\ q.ok
    /\ HeadTaken(s.fed) <= HeadSize(q) /\ (HeadTaken(s.fed) = HeadSize(q) <=> s.pc # "recv")
    /\ Len(s.body) <= Len(q.body) /\ \A k \in 1 .. Len(s.body) : s.body[k] = H!BodyOf(r, q)[k]
    /\ s.pc \in {"handle", "send"} => Len(s.body) = Len(q.body)
TakenFits ==
    /\ ses.pc \in {"recv", "parsed"} => ses.body = <<>>
    /\ ses.pc \in {"body", "handle", "send"} => ses.data = <<>>
    /\ ses.fed = <<>> => ses.pc \in {"recv", "closed"}
    /\ ~fate.lost /\ ses.pc # "closed" /\ ses.fed # <<>> => Current <= Len(asked) /\ HasRequest(ses, Current, asked[Current])

\* The stream of requests, from the current one on.
AtToken == HeadTaken(ses.fed) + Len(ses.body)
Coming(p) == Cat(Cat(Cat(p, ses.data), net), HeldBack)
BytesFit ==
    ~fate.lost /\ ses.pc # "closed" =>
       \E p \in Seq(Token) : Len(p) = AtToken /\ Stream(OnTheWire(asked), Coming(p), Current)

HttpInv == HttpTypeOK /\ ClientFits /\ GoesOn /\ ServedFits /\ TakenFits /\ BytesFit
HttpPartInv == which = "http" => HttpInv

-----------------------------------------------------------------------------
(* The tokens of a request. *)

LEMMA TokenIs ==
    ASSUME NEW r \in Nat, NEW t \in {"x", "n"}, NEW i \in Nat
    PROVE  LET k == [r |-> r, t |-> t, i |-> i]
           IN  k \in Token /\ k.r = r /\ k.t = t /\ k.i = i
BY DEF Token

LEMMA HeadFacts ==
    ASSUME NEW r \in Nat, NEW q \in Request
    PROVE  LET h == H!HeadOf(r, q)
           IN  /\ h \in Seq(Token) /\ Len(h) = HeadSize(q) /\ HeadSize(q) \in Nat \ {0} /\ DOMAIN h = 1 .. HeadSize(q)
               /\ \A i \in 1 .. HeadSize(q) : /\ h[i].r = r /\ h[i].i = i
                                              /\ h[i].t = IF i % 2 = 1 /\ i <= 2 * q.lines THEN "x" ELSE "n"
<1> DEFINE n == HeadSize(q)
           h == H!HeadOf(r, q)
           kind(i) == IF i % 2 = 1 /\ i <= 2 * q.lines THEN "x" ELSE "n"
<1>1. q.lines \in Nat /\ n = 2 * q.lines + 1 /\ n \in Nat \ {0}
  BY DEF Request, HeadSize
<1>2. h = [i \in 1 .. n |-> [r |-> r, t |-> kind(i), i |-> i]]
  BY DEF H!HeadOf, HeadSize
<1>3. \A i \in 1 .. n : kind(i) \in {"x", "n"}
  OBVIOUS
<1> HIDE DEF n, h, kind
<1>4. ASSUME NEW i \in 1 .. n
      PROVE  h[i] \in Token /\ h[i].r = r /\ h[i].i = i /\ h[i].t = kind(i)
  <2> DEFINE t == kind(i)
  <2>1. h[i] = [r |-> r, t |-> t, i |-> i] /\ t \in {"x", "n"} /\ i \in Nat
    BY <1>1, <1>2, <1>3
  <2> HIDE DEF t
  <2>2. h[i] \in Token /\ h[i].r = r /\ h[i].i = i /\ h[i].t = t
    BY ONLY <2>1, TokenIs, r \in Nat
  <2> QED
    BY <2>2 DEF t
<1>5. h \in [1 .. n -> Token]
  BY <1>2, <1>4
<1>6. h \in Seq(Token) /\ Len(h) = n
  BY <1>1, <1>5, LenProperties, SeqDef
<1> QED
  BY ONLY <1>1, <1>4, <1>5, <1>6 DEF n, h, kind

LEMMA BodyFacts ==
    ASSUME NEW r \in Nat, NEW q \in Request
    PROVE  LET b == H!BodyOf(r, q)
           IN  /\ b \in Seq(Token) /\ Len(b) = Len(q.body) /\ Len(q.body) \in Nat
               /\ DOMAIN b = 1 .. Len(q.body)
<1> DEFINE n == Len(q.body)
           b == H!BodyOf(r, q)
<1>1. q.body \in Seq({"x", "n"}) /\ n \in Nat /\ q.lines \in Nat
  BY DEF Request
<1>2. b = [i \in 1 .. n |-> [r |-> r, t |-> q.body[i], i |-> 2 * q.lines + 1 + i]]
  BY DEF H!BodyOf
<1>3. \A i \in 1 .. n : q.body[i] \in {"x", "n"}
  BY <1>1
<1> HIDE DEF n, b
<1>4. \A i \in 1 .. n : b[i] \in Token
  BY <1>1, <1>2, <1>3 DEF Token
<1>5. b \in [1 .. n -> Token]
  BY <1>2, <1>4
<1>6. b \in Seq(Token) /\ Len(b) = n
  BY <1>1, <1>5, LenProperties, SeqDef
<1> QED
  BY <1>1, <1>5, <1>6 DEF n, b

LEMMA TokensFacts ==
    ASSUME NEW r \in Nat, NEW q \in Request
    PROVE  LET u == HttpTokens(r, q)
           IN  /\ u \in Seq(Token) /\ Len(u) = HeadSize(q) + Len(q.body)
               /\ \A i \in 1 .. HeadSize(q) : u[i] = H!HeadOf(r, q)[i]
               /\ \A i \in 1 .. Len(q.body) : u[HeadSize(q) + i] = H!BodyOf(r, q)[i]
<1> DEFINE h == H!HeadOf(r, q)
           b == H!BodyOf(r, q)
<1>1. h \in Seq(Token) /\ Len(h) = HeadSize(q) /\ b \in Seq(Token) /\ Len(b) = Len(q.body)
  BY HeadFacts, BodyFacts
<1>2. HttpTokens(r, q) = h \o b
  BY DEF HttpTokens
<1> HIDE DEF h, b
<1> DEFINE u == h \o b
<1>3. /\ u \in Seq(Token) /\ Len(u) = Len(h) + Len(b)
      /\ \A i \in 1 .. Len(h) : u[i] = h[i]
      /\ \A i \in 1 .. Len(b) : u[Len(h) + i] = b[i]
  BY ONLY <1>1
<1> HIDE DEF u
<1> QED
  BY <1>1, <1>2, <1>3 DEF u, h, b

\* From the beginning of a line the empty line is the first line that ends at once.
LEMMA EmptyLine ==
    ASSUME NEW r \in Nat, NEW q \in Request, NEW a \in 0 .. (HeadSize(q) - 1),
           a = 0 \/ H!HeadOf(r, q)[a].t = "n",
           NEW k \in 1 .. (HeadSize(q) - a)
    PROVE  LET h == H!HeadOf(r, q)
           IN  h[a + k].t = "n" /\ (k = 1 \/ h[a + (k - 1)].t = "n") <=> a + k = HeadSize(q)
<1> DEFINE h == H!HeadOf(r, q)
           L == q.lines
<1>1. L \in Nat /\ HeadSize(q) = 2 * L + 1 /\ a \in Nat /\ k \in Nat /\ 1 <= k /\ a + k <= 2 * L + 1
  BY DEF Request, HeadSize
<1>2. \A i \in 1 .. (2 * L + 1) : h[i].t = "n" <=> ~(i % 2 = 1 /\ i <= 2 * L)
  BY <1>1, HeadFacts
<1>3. a = 0 \/ a % 2 = 0
  BY <1>1, <1>2
<1> HIDE DEF h, L
<1>4. CASE k = 1
  <2>1. (a + 1) % 2 = 1
    BY ONLY <1>1, <1>3
  <2>2. h[a + 1].t = "n" <=> ~(a + 1 <= 2 * L)
    BY ONLY <1>1, <1>2, <1>4, <2>1
  <2> QED
    BY <1>1, <1>4, <2>2 DEF h
<1>5. CASE k > 1
  <2>1. a + k \in 1 .. (2 * L + 1) /\ a + (k - 1) \in 1 .. (2 * L + 1)
    BY ONLY <1>1, <1>5
  <2>2. (a + k) % 2 = 1 \/ (a + (k - 1)) % 2 = 1
    BY ONLY <1>1
  <2>3. a + (k - 1) <= 2 * L
    BY ONLY <1>1
  <2>4. ~(a + k <= 2 * L) <=> a + k = 2 * L + 1
    BY ONLY <1>1
  <2>5. a + k = 2 * L + 1 => (a + k) % 2 = 1
    BY ONLY <1>1
  <2>6. a + k = 2 * L + 1 => (a + (k - 1)) % 2 = 0
    BY ONLY <1>1
  <2> QED
    BY ONLY <1>1, <1>2, <1>5, <2>1, <2>2, <2>3, <2>4, <2>5, <2>6 DEF h
<1> QED
  BY ONLY <1>1, <1>4, <1>5

-----------------------------------------------------------------------------
(* What the parser takes. *)

LEMMA LastLine ==
    ASSUME NEW data \in Seq(Token)
    PROVE  LET n == H!GetLastRN(data)
           IN  /\ n \in 0 .. Len(data) /\ (n > 0 => data[n].t = "n")
               /\ \A i \in (n + 1) .. Len(data) : data[i].t # "n"
<1> DEFINE N == Len(data)
           P(n) == /\ n > 0 => data[n].t = "n"
                   /\ \A i \in (n + 1) .. N : data[i].t # "n"
           S == {m \in 0 .. N : m = N \/ data[N - m].t = "n"}
<1>1. N \in Nat
  OBVIOUS
<1>2. S \subseteq Nat /\ N \in S
  BY <1>1
<1> HIDE DEF S
<1>3. PICK m \in S : \A k \in S : m <= k
  BY <1>2, SmallestOf
<1>4. m \in 0 .. N /\ (m = N \/ data[N - m].t = "n")
  BY <1>3 DEF S
<1> DEFINE n == N - m
<1>5. n \in 0 .. N /\ m = N - n
  BY <1>1, <1>4
<1>6. P(n)
  <2>1. n > 0 => data[n].t = "n"
    BY <1>1, <1>4
  <2>2. ASSUME NEW i \in (n + 1) .. N, data[i].t = "n"
        PROVE  FALSE
    <3> DEFINE k == N - i
    <3>1. k \in 0 .. N /\ N - k = i /\ k < m
      BY <1>1, <1>5
    <3>2. k \in S
      BY <2>2, <3>1 DEF S
    <3> QED
      BY <1>3, <1>4, <3>1, <3>2
  <2> QED
    BY <2>1, <2>2
<1> HIDE DEF P, n
<1>7. H!GetLastRN(data) = CHOOSE j \in 0 .. N : P(j)
  BY DEF H!GetLastRN, P
<1>8. (CHOOSE j \in 0 .. N : P(j)) \in 0 .. N /\ P(CHOOSE j \in 0 .. N : P(j))
  BY ONLY <1>5, <1>6, Zenon
<1>9. H!GetLastRN(data) \in 0 .. N /\ P(H!GetLastRN(data))
  BY ONLY <1>7, <1>8
<1> QED
  BY <1>9 DEF P

LEMMA ParserStops ==
    ASSUME NEW data, NEW n \in Nat
    PROVE  LET e == H!Execute(data, n)
               S == {i \in 1 .. n : H!IsEnd(data, i)}
           IN  (S = {} /\ e = n) \/ (e \in S /\ \A j \in S : e <= j)
<1> DEFINE S == {i \in 1 .. n : H!IsEnd(data, i)}
<1>1. S \subseteq Nat /\ H!Ends(data, n) = S
  BY DEF H!Ends
<1>2. H!Execute(data, n) = IF S = {} THEN n ELSE CHOOSE i \in S : \A j \in S : i <= j
  BY <1>1 DEF H!Execute
<1> HIDE DEF S
<1>3. CASE S = {}
  BY <1>2, <1>3 DEF S
<1>4. CASE S # {}
  <2>1. \E i \in S : \A j \in S : i <= j
    BY <1>1, <1>4, SmallestOf
  <2> DEFINE e == CHOOSE i \in S : \A j \in S : i <= j
  <2>2. e \in S /\ \A j \in S : e <= j
    BY ONLY <2>1, Zenon
  <2>3. H!Execute(data, n) = e
    BY <1>2, <1>4
  <2> QED
    BY <2>2, <2>3 DEF S
<1> QED
  BY <1>3, <1>4

\* The parser is given whole lines, and stops behind the empty line: data begins with a line of
\* the head of q, behind its token a.
LEMMA ParserTakes ==
    ASSUME NEW r \in Nat, NEW q \in Request, NEW a \in 0 .. (HeadSize(q) - 1),
           a = 0 \/ H!HeadOf(r, q)[a].t = "n",
           NEW data \in Seq(Token),
           \A k \in 1 .. Len(data) : a + k <= HeadSize(q) => data[k] = H!HeadOf(r, q)[a + k]
    PROVE  LET n == H!Execute(data, H!GetLastRN(data))
           IN  /\ n \in 0 .. Len(data) /\ a + n <= HeadSize(q)
               /\ n > 0 => data[n].t = "n"
               /\ n > 0 /\ H!IsEnd(data, n) <=> a + n = HeadSize(q)
<1> DEFINE h == H!HeadOf(r, q)
           N == Len(data)
           z == HeadSize(q)
           m == H!GetLastRN(data)
           S == {i \in 1 .. m : H!IsEnd(data, i)}
           n == H!Execute(data, m)
<1>1. z \in Nat /\ N \in Nat /\ a \in Nat /\ a < z
  BY HeadFacts
<1>2. m \in 0 .. N /\ (m > 0 => data[m].t = "n") /\ \A i \in (m + 1) .. N : data[i].t # "n"
  BY LastLine
<1>3. (S = {} /\ n = m) \/ (n \in S /\ \A j \in S : n <= j)
  BY <1>2, ParserStops
<1>4. \A k \in 1 .. N : a + k <= z => data[k] = h[a + k]
  OBVIOUS
<1>5. ASSUME NEW k \in 1 .. N, a + k <= z
      PROVE  H!IsEnd(data, k) <=> a + k = z
  <2>1. k \in 1 .. (z - a)
    BY <1>1, <1>5
  <2>2. h[a + k].t = "n" /\ (k = 1 \/ h[a + (k - 1)].t = "n") <=> a + k = z
    BY <2>1, EmptyLine
  <2>3. data[k] = h[a + k] /\ (k # 1 => data[k - 1] = h[a + (k - 1)])
    <3>1. k # 1 => k - 1 \in 1 .. N /\ a + (k - 1) <= z
      BY <1>1, <1>5
    <3> QED
      BY <1>4, <1>5, <3>1
  <2> QED
    BY <2>2, <2>3 DEF H!IsEnd
<1> HIDE DEF h, N, z, m, n
<1>6. CASE a + N < z
  <2>1. \A k \in 1 .. N : a + k <= z /\ a + k # z
    BY <1>1, <1>6
  <2>2. S = {}
    BY <1>1, <1>2, <1>5, <2>1
  <2>3. n = m
    BY <1>3, <2>2
  <2>4. n > 0 => n \in 1 .. N
    BY <1>1, <1>2, <2>3
  <2> QED
    BY <1>1, <1>2, <1>5, <1>6, <2>1, <2>3, <2>4 DEF h, N, z, m, n
<1>7. CASE a + N >= z
  <2> DEFINE e == z - a
  <2>1. e \in 1 .. N /\ a + e = z
    BY <1>1, <1>7
  <2> HIDE DEF e
  <2>2. H!IsEnd(data, e)
    BY <1>1, <1>5, <2>1
  <2>3. data[e].t = "n"
    BY <2>2 DEF H!IsEnd
  <2>4. e <= m
    BY <1>1, <1>2, <2>1, <2>3
  <2>5. e \in S
    BY <1>1, <1>2, <2>1, <2>2, <2>4
  <2>6. n \in S /\ n <= e
    BY <1>3, <2>5
  <2>7. n \in 1 .. m /\ H!IsEnd(data, n)
    BY <2>6
  <2>8. n \in 1 .. N /\ a + n <= z
    BY <1>1, <1>2, <2>1, <2>6, <2>7
  <2>9. a + n = z
    BY <1>5, <2>7, <2>8
  <2>10. data[n].t = "n"
    BY <2>7 DEF H!IsEnd
  <2> QED
    BY <1>1, <2>7, <2>8, <2>9, <2>10 DEF h, N, z, m, n
<1> QED
  BY <1>1, <1>6, <1>7

-----------------------------------------------------------------------------
(* The pieces the parser was given. *)

LEMMA PartOf ==
    ASSUME NEW C, NEW s \in Seq(C), NEW a \in Nat, NEW n \in Nat, a + n <= Len(s)
    PROVE  LET p == SubSeq(s, a + 1, a + n)
           IN  p \in Seq(C) /\ Len(p) = n /\ \A k \in 1 .. n : p[k] = s[a + k]
OBVIOUS

LEMMA PiecesEnd ==
    ASSUME NEW r \in Nat, NEW q \in Request, NEW fed \in Seq(Seq(Token)), fed # <<>>, H!CutFrom(fed, H!HeadOf(r, q))
    PROVE  /\ HeadTaken(fed) \in 1 .. HeadSize(q) /\ H!HeadOf(r, q)[HeadTaken(fed)].t = "n"
           /\ H!Number(fed) = r
<1> DEFINE h == H!HeadOf(r, q)
           N == Len(fed)
<1>1. h \in Seq(Token) /\ Len(h) = HeadSize(q) /\ HeadSize(q) \in Nat /\ N \in Nat /\ N >= 1
  BY HeadFacts
<1>2. ASSUME NEW j \in 1 .. N
      PROVE  /\ fed[j] \in Seq(Token) /\ fed[j] # <<>> /\ fed[j][Len(fed[j])] \in Token
             /\ fed[j][Len(fed[j])].t = "n" /\ H!End(fed, j) <= Len(h)
             /\ fed[j] = SubSeq(h, H!End(fed, j - 1) + 1, H!End(fed, j)) /\ H!End(fed, j) = fed[j][Len(fed[j])].i
  BY DEF H!CutFrom, H!End
<1>3. \A j \in 1 .. N : H!End(fed, j) \in Nat
  BY <1>2 DEF Token
<1>4. \A j \in 0 .. N : H!End(fed, j) \in Nat
  BY <1>3 DEF H!End
<1> HIDE DEF h
<1>5. ASSUME NEW j \in 1 .. N
      PROVE  /\ H!End(fed, j) > H!End(fed, j - 1) /\ fed[j][Len(fed[j])] = h[H!End(fed, j)]
             /\ fed[j][1] = h[H!End(fed, j - 1) + 1]
  <2> DEFINE a == H!End(fed, j - 1)
             b == H!End(fed, j)
             p == SubSeq(h, a + 1, b)
  <2>1. a \in Nat /\ b \in Nat /\ b <= Len(h)
    <3>1. j - 1 \in 0 .. N /\ j \in 0 .. N
      BY <1>1
    <3> QED
      BY <1>2, <1>4, <3>1
  <2>2. p # <<>> /\ fed[j] = p
    BY <1>2
  <2> HIDE DEF a, b
  <2>3. a < b
    BY <1>1, <2>1, <2>2
  <2> DEFINE n == b - a
  <2>4. n \in Nat /\ n >= 1 /\ b = a + n /\ a + n <= Len(h)
    BY <1>1, <2>1, <2>3
  <2> HIDE DEF n, p
  <2>5. p = SubSeq(h, a + 1, a + n)
    BY <2>4 DEF p
  <2>6. Len(p) = n /\ \A k \in 1 .. n : p[k] = h[a + k]
    BY ONLY <1>1, <2>1, <2>4, <2>5, PartOf
  <2> QED
    BY <2>2, <2>3, <2>4, <2>6 DEF a, b
<1>6. 1 \in 1 .. N /\ N \in 1 .. N
  BY <1>1
<1>7. HeadTaken(fed) \in 1 .. HeadSize(q) /\ h[HeadTaken(fed)].t = "n"
  <2>1. H!End(fed, N) > H!End(fed, N - 1) /\ H!End(fed, N) \in Nat /\ H!End(fed, N - 1) \in Nat /\ H!End(fed, N) <= Len(h)
    BY <1>1, <1>2, <1>4, <1>5, <1>6
  <2>2. h[H!End(fed, N)].t = "n"
    BY <1>2, <1>5, <1>6
  <2> QED
    BY <1>1, <2>1, <2>2 DEF HeadTaken
<1>8. fed[1][1].r = r
  <2>1. fed[1][1] = h[0 + 1]
    BY <1>5, <1>6 DEF H!End
  <2>2. h[1].r = r
    BY <1>1, <1>7, HeadFacts DEF h
  <2> QED
    BY <2>1, <2>2
<1> QED
  BY <1>7, <1>8 DEF H!Number, h

LEMMA PieceAdded ==
    ASSUME NEW r \in Nat, NEW q \in Request, NEW fed \in Seq(Seq(Token)), H!CutFrom(fed, H!HeadOf(r, q)),
           NEW data \in Seq(Token), NEW n \in 1 .. Len(data), HeadTaken(fed) \in Nat, HeadTaken(fed) + n <= HeadSize(q),
           \A k \in 1 .. n : data[k] = H!HeadOf(r, q)[HeadTaken(fed) + k],
           data[n].t = "n"
    PROVE  LET f == Append(fed, SubSeq(data, 1, n))
           IN  /\ f \in Seq(Seq(Token)) /\ H!CutFrom(f, H!HeadOf(r, q)) /\ HeadTaken(f) = HeadTaken(fed) + n
               /\ f # <<>>
<1> DEFINE h == H!HeadOf(r, q)
           N == Len(fed)
           a == HeadTaken(fed)
           p == SubSeq(data, 1, n)
           w == SubSeq(h, a + 1, a + n)
           f == Append(fed, p)
<1>1. h \in Seq(Token) /\ Len(h) = HeadSize(q) /\ HeadSize(q) \in Nat /\ N \in Nat /\ n \in Nat /\ n >= 1 /\ a \in Nat
      /\ a + n <= Len(h)
  BY HeadFacts
<1>2. p \in Seq(Token) /\ Len(p) = n /\ \A k \in 1 .. n : p[k] = data[k]
  <2>1. 0 \in Nat /\ n \in Nat /\ 0 + n <= Len(data) /\ 0 + 1 = 1 /\ 0 + n = n /\ \A k \in 1 .. n : 0 + k = k
    OBVIOUS
  <2>2. LET w0 == SubSeq(data, 0 + 1, 0 + n) IN w0 \in Seq(Token) /\ Len(w0) = n /\ \A k \in 1 .. n : w0[k] = data[0 + k]
    BY ONLY <2>1, PartOf, data \in Seq(Token)
  <2> QED
    BY <2>1, <2>2
<1>3. \A k \in 1 .. n : data[k] = h[a + k]
  OBVIOUS
<1>4. h[a + n].i = a + n
  BY <1>1, HeadFacts
<1>5. f \in Seq(Seq(Token)) /\ Len(f) = N + 1 /\ f[N + 1] = p /\ \A j \in 1 .. N : f[j] = fed[j]
  BY <1>2
<1>6. a = H!End(fed, N)
  BY DEF HeadTaken
<1>7. H!CutFrom(fed, h)
  OBVIOUS
<1> HIDE DEF h, a, p, f
<1>8. w \in Seq(Token) /\ Len(w) = n /\ \A k \in 1 .. n : w[k] = h[a + k]
  BY ONLY <1>1, PartOf
<1> HIDE DEF w
<1>9. p = w
  BY ONLY <1>2, <1>3, <1>8, SeqEqual
<1>10. p # <<>> /\ p[Len(p)] = data[n] /\ p[Len(p)].i = a + n
  BY <1>1, <1>2, <1>3, <1>4
<1>11. \A j \in 0 .. N : H!End(f, j) = H!End(fed, j)
  <2> TAKE j \in 0 .. N
  <2>1. j = 0 \/ j \in 1 .. N
    BY <1>1
  <2>2. j \in 1 .. N => f[j] = fed[j]
    BY <1>5
  <2> QED
    BY ONLY <2>1, <2>2 DEF H!End
<1>12. H!End(f, N + 1) = a + n
  BY <1>1, <1>5, <1>10 DEF H!End
<1>13. ASSUME NEW j \in 1 .. (N + 1)
       PROVE  /\ f[j] # <<>> /\ f[j][Len(f[j])].t = "n"
              /\ H!End(f, j) <= Len(h) /\ f[j] = SubSeq(h, H!End(f, j - 1) + 1, H!End(f, j))
  <2>1. CASE j \in 1 .. N
    <3>1. j - 1 \in 0 .. N /\ j \in 0 .. N
      BY <1>1, <2>1
    <3> QED
      BY <1>5, <1>7, <1>11, <2>1, <3>1 DEF H!CutFrom
  <2>2. CASE j = N + 1
    <3>1. j - 1 = N /\ N \in 0 .. N
      BY <1>1, <2>2
    <3>2. f[j] = w /\ H!End(f, j) = a + n /\ H!End(f, j - 1) = a
      BY <1>5, <1>6, <1>9, <1>11, <1>12, <2>2, <3>1
    <3> QED
      BY <1>1, <1>5, <1>10, <2>2, <3>2 DEF w
  <2>3. j \in 1 .. N \/ j = N + 1
    <3>1. N \in Nat /\ j \in 1 .. (N + 1)
      BY <1>1
    <3> QED
      BY ONLY <3>1
  <2> QED
    BY ONLY <2>1, <2>2, <2>3
<1>14. H!CutFrom(f, h)
  BY <1>5, <1>13 DEF H!CutFrom
<1>15. HeadTaken(f) = a + n /\ f # <<>>
  BY <1>1, <1>5, <1>12 DEF HeadTaken
<1> QED
  BY <1>5, <1>14, <1>15 DEF f, p, h, a

-----------------------------------------------------------------------------
(* The stream of requests. *)

LEMMA WireFacts ==
    ASSUME NEW qs \in Seq(Request)
    PROVE  /\ OnTheWire(qs) \in Seq(Seq(Token)) /\ Len(OnTheWire(qs)) = Len(qs) /\ Len(qs) \in Nat
           /\ \A r \in 1 .. Len(qs) : OnTheWire(qs)[r] = HttpTokens(r, qs[r]) /\ qs[r] \in Request
<1> DEFINE us == OnTheWire(qs)
           N == Len(qs)
<1>1. N \in Nat /\ us = [r \in 1 .. N |-> HttpTokens(r, qs[r])]
  BY DEF OnTheWire
<1>2. \A r \in 1 .. N : qs[r] \in Request /\ r \in Nat
  OBVIOUS
<1> HIDE DEF us, N
<1>3. \A r \in 1 .. N : HttpTokens(r, qs[r]) \in Seq(Token)
  BY <1>2, TokensFacts
<1>4. us \in [1 .. N -> Seq(Token)]
  BY <1>1, <1>3
<1>5. us \in Seq(Seq(Token)) /\ Len(us) = N
  BY <1>1, <1>4, LenProperties, SeqDef
<1> QED
  BY <1>1, <1>2, <1>5 DEF us, N

LEMMA WireGrows ==
    ASSUME NEW qs \in Seq(Request), NEW q \in Request
    PROVE  OnTheWire(Append(qs, q)) = Append(OnTheWire(qs), HttpTokens(Len(qs) + 1, q))
<1> DEFINE N == Len(qs)
           u == HttpTokens(N + 1, q)
           x == OnTheWire(Append(qs, q))
           us == OnTheWire(qs)
           y == Append(us, u)
<1>1. /\ Append(qs, q) \in Seq(Request) /\ Len(Append(qs, q)) = N + 1 /\ N \in Nat
      /\ \A r \in 1 .. N : Append(qs, q)[r] = qs[r]
      /\ Append(qs, q)[N + 1] = q
  OBVIOUS
<1>2. x \in Seq(Seq(Token)) /\ Len(x) = N + 1 /\ \A r \in 1 .. (N + 1) : x[r] = HttpTokens(r, Append(qs, q)[r])
  BY <1>1, WireFacts
<1>3. us \in Seq(Seq(Token)) /\ Len(us) = N /\ \A r \in 1 .. N : us[r] = HttpTokens(r, qs[r])
  BY WireFacts
<1>4. u \in Seq(Token)
  BY <1>1, TokensFacts
<1> HIDE DEF u, x, us
<1>5. y \in Seq(Seq(Token)) /\ Len(y) = N + 1 /\ (\A r \in 1 .. N : y[r] = us[r]) /\ y[N + 1] = u
  BY <1>1, <1>3, <1>4
<1> HIDE DEF y
<1>6. ASSUME NEW r \in 1 .. (N + 1)
      PROVE  x[r] = y[r]
  <2>1. CASE r \in 1 .. N
    BY <1>1, <1>2, <1>3, <1>5, <2>1
  <2>2. CASE r = N + 1
    BY <1>1, <1>2, <1>5, <2>2 DEF u
  <2>3. r \in 1 .. N \/ r = N + 1
    BY ONLY <1>1, r \in 1 .. (N + 1)
  <2> QED
    BY <2>1, <2>2, <2>3
<1>7. x = y
  BY ONLY <1>2, <1>5, <1>6, SeqEqual
<1> QED
  BY <1>7 DEF x, y, u, us

\* What stands in a stream behind p.
LEMMA StreamBehind ==
    ASSUME NEW C, NEW us \in Seq(Seq(C)), NEW n \in 1 .. (Len(us) + 1),
           NEW p \in Seq(C), NEW b \in Seq(C), NEW c \in Seq(C), b # <<>>,
           Stream(us, Cat(Cat(p, b), c), n)
    PROVE  /\ n <= Len(us) /\ us[n] \in Seq(C)
           /\ \A k \in 1 .. Len(b) : Len(p) + k <= Len(us[n]) => b[k] = us[n][Len(p) + k]
           /\ Len(us[n]) < Len(p) + Len(b) => n < Len(us)
<1> DEFINE q == (p \o b) \o c
<1>1. Len(p) \in Nat /\ Len(b) \in Nat \ {0} /\ Len(c) \in Nat
  OBVIOUS
<1>2. p \o b \in Seq(C) /\ Len(p \o b) = Len(p) + Len(b) /\ \A k \in 1 .. Len(b) : (p \o b)[Len(p) + k] = b[k]
  OBVIOUS
<1>3. /\ q \in Seq(C) /\ Len(q) = Len(p) + Len(b) + Len(c)
      /\ \A k \in 1 .. (Len(p) + Len(b)) : q[k] = (p \o b)[k]
  BY <1>2
<1>4. ASSUME NEW k \in 1 .. Len(b)
      PROVE  q[Len(p) + k] = b[k]
  <2>1. Len(p) + k \in 1 .. (Len(p) + Len(b))
    BY <1>1
  <2> QED
    BY <1>2, <1>3, <2>1
<1>5. Stream(us, q, n)
  BY DEF Cat
<1> HIDE DEF q
<1>6. q # <<>>
  BY <1>1, <1>3
<1>7. /\ n <= Len(us) /\ us[n] \in Seq(C)
      /\ \A k \in 1 .. Len(us[n]) : q[k] = us[n][k]
      /\ Len(us[n]) < Len(q) => n < Len(us)
  BY ONLY <1>3, <1>5, <1>6, StreamFirst, us \in Seq(Seq(C)), n \in 1 .. (Len(us) + 1)
<1>8. ASSUME NEW k \in 1 .. Len(b), Len(p) + k <= Len(us[n])
      PROVE  b[k] = us[n][Len(p) + k]
  <2>1. Len(p) + k \in 1 .. Len(us[n])
    BY <1>1, <1>7, <1>8
  <2> QED
    BY <1>4, <1>7, <2>1
<1>9. Len(us[n]) < Len(p) + Len(b) => n < Len(us)
  <2>1. Len(us[n]) \in Nat
    BY <1>7
  <2> QED
    BY <1>1, <1>3, <1>7, <2>1
<1> QED
  BY <1>7, <1>8, <1>9

\* Of a buffer d, how many tokens go to the parser, and the pieces it then has: the first ones
\* of request c of qs, behind its token a.
ToParser(d) == H!Execute(d, H!GetLastRN(d))
Given(fed, d) == IF ToParser(d) = 0 THEN fed ELSE Append(fed, SubSeq(d, 1, ToParser(d)))
FedTo(qs, c, a, d, n, f) ==
    /\ c <= Len(qs) /\ n \in 0 .. Len(d)
    /\ f \in Seq(Seq(Token)) /\ HeadTaken(f) = a + n
    /\ HeadTaken(f) <= HeadSize(qs[c])
    /\ HeadTaken(f) = HeadSize(qs[c]) <=> n > 0 /\ H!IsEnd(d, n)
    /\ f # <<>> => H!CutFrom(f, H!HeadOf(c, qs[c])) /\ H!Number(f) = c
    /\ n > 0 => f # <<>>

\* One read into the buffer, when data is what the buffer then holds.
LEMMA Feeds ==
    ASSUME NEW qs \in Seq(Request), NEW c \in 1 .. (Len(qs) + 1),
           NEW p \in Seq(Token), NEW data \in Seq(Token), NEW tail \in Seq(Token), data # <<>>,
           NEW fed \in Seq(Seq(Token)), Len(p) = HeadTaken(fed),
           Stream(OnTheWire(qs), Cat(Cat(p, data), tail), c),
           fed # <<>> => H!CutFrom(fed, H!HeadOf(c, qs[c])) /\ HeadTaken(fed) < HeadSize(qs[c])
    PROVE  FedTo(qs, c, Len(p), data, ToParser(data), Given(fed, data))
<1> DEFINE us == OnTheWire(qs)
           q == qs[c]
           a == HeadTaken(fed)
           h == H!HeadOf(c, q)
           n == ToParser(data)
           g == Append(fed, SubSeq(data, 1, n))
           f == Given(fed, data)
<1>1. us \in Seq(Seq(Token)) /\ Len(us) = Len(qs) /\ Len(qs) \in Nat
  BY WireFacts
<1>11. Stream(us, Cat(Cat(p, data), tail), c) /\ c \in 1 .. (Len(us) + 1)
  BY <1>1
<1> HIDE DEF us
<1>12. /\ c <= Len(us) /\ us[c] \in Seq(Token)
       /\ \A k \in 1 .. Len(data) : Len(p) + k <= Len(us[c]) => data[k] = us[c][Len(p) + k]
       /\ Len(us[c]) < Len(p) + Len(data) => c < Len(us)
  BY ONLY <1>1, <1>11, StreamBehind, p \in Seq(Token), data \in Seq(Token), tail \in Seq(Token), data # <<>>, Zenon
<1>2. /\ c <= Len(us) /\ us[c] \in Seq(Token)
      /\ \A k \in 1 .. Len(data) : Len(p) + k <= Len(us[c]) => data[k] = us[c][Len(p) + k]
  BY ONLY <1>12
<1>3. c \in Nat /\ c \in 1 .. Len(qs) /\ q \in Request /\ us[c] = HttpTokens(c, q)
  BY <1>1, <1>2, WireFacts DEF us
<1>4. /\ Len(us[c]) = HeadSize(q) + Len(q.body) /\ HeadSize(q) \in Nat \ {0} /\ Len(q.body) \in Nat
      /\ \A i \in 1 .. HeadSize(q) : us[c][i] = h[i]
  <2>1. HeadSize(q) \in Nat \ {0}
    BY <1>3, HeadFacts
  <2>2. Len(q.body) \in Nat
    BY <1>3, BodyFacts
  <2>3. Len(HttpTokens(c, q)) = HeadSize(q) + Len(q.body) /\ \A i \in 1 .. HeadSize(q) : HttpTokens(c, q)[i] = h[i]
    BY <1>3, TokensFacts
  <2> QED
    BY <1>3, <2>1, <2>2, <2>3
<1>5. Len(p) = a /\ a \in Nat /\ Len(data) \in Nat
  OBVIOUS
<1>6. a \in 0 .. (HeadSize(q) - 1) /\ (a = 0 \/ h[a].t = "n")
  <2>1. CASE fed = <<>>
    <3>1. a = 0
      BY <2>1 DEF HeadTaken, H!End
    <3> QED
      BY <1>4, <3>1
  <2>2. CASE fed # <<>>
    <3>1. a \in 1 .. HeadSize(q) /\ h[a].t = "n"
      BY <1>3, <2>2, PiecesEnd
    <3> QED
      BY <1>4, <2>2, <3>1
  <2> QED
    BY <2>1, <2>2
<1>13. f = IF n = 0 THEN fed ELSE g
  BY DEF Given
<1> DEFINE z == HeadSize(q)
<1> HIDE DEF a, n, f, g, h, z, q
<1>7. ASSUME NEW k \in 1 .. Len(data), a + k <= z
      PROVE  data[k] = h[a + k]
  <2>1. z \in Nat /\ Len(us[c]) = z + Len(q.body) /\ Len(q.body) \in Nat
    BY <1>4 DEF z
  <2> DEFINE l == Len(us[c])
             m == Len(q.body)
  <2> HIDE DEF l, m
  <2>4. z \in Nat /\ l = z + m /\ m \in Nat /\ k \in Nat \ {0} /\ a \in Nat
    BY <1>5, <2>1 DEF l, m
  <2>5. a + k \in 1 .. z /\ a + k <= l
    BY ONLY <1>7, <2>4
  <2>2. a + k \in 1 .. z /\ a + k <= Len(us[c])
    BY ONLY <2>5 DEF l
  <2>3. data[k] = us[c][a + k]
    BY <1>2, <1>5, <2>2
  <2> QED
    BY <1>4, <2>2, <2>3 DEF z
<1>8. /\ n \in 0 .. Len(data) /\ a + n <= HeadSize(q)
      /\ n > 0 => data[n].t = "n"
      /\ n > 0 /\ H!IsEnd(data, n) <=> a + n = HeadSize(q)
  BY <1>3, <1>6, <1>7, ParserTakes DEF n, z, h, ToParser
<1>9. CASE n = 0
  <2>1. f = fed /\ a + n = a
    BY <1>5, <1>9, <1>13
  <2>2. fed # <<>> => H!CutFrom(fed, h) /\ H!Number(fed) = c
    BY <1>3, PiecesEnd DEF h, q
  <2> QED
    BY <1>1, <1>2, <1>5, <1>8, <1>9, <2>1, <2>2 DEF f, n, a, h, q, FedTo
<1>10. CASE n # 0
  <2>1. n \in 1 .. Len(data) /\ f = g
    BY <1>5, <1>8, <1>10, <1>13
  <2>2. H!CutFrom(fed, h)
    <3>1. CASE fed # <<>>
      BY <3>1 DEF h, q
    <3>2. CASE fed = <<>>
      <4>1. \A j \in 1 .. Len(fed) : j \in {}
        BY <3>2
      <4> QED
        BY <4>1 DEF H!CutFrom
    <3> QED
      BY <3>1, <3>2
  <2>3. \A k \in 1 .. n : data[k] = h[a + k]
    <3> TAKE k \in 1 .. n
    <3>1. z \in Nat /\ a + n <= z
      BY <1>4, <1>8 DEF z
    <3>2. k \in 1 .. Len(data) /\ a + k <= z
      BY ONLY <1>5, <2>1, <3>1, k \in 1 .. n
    <3> QED
      BY <1>7, <3>2
  <2>4. g \in Seq(Seq(Token)) /\ H!CutFrom(g, h) /\ HeadTaken(g) = a + n /\ g # <<>>
    <3>1. data[n].t = "n" /\ HeadTaken(fed) \in Nat /\ HeadTaken(fed) + n <= HeadSize(q)
      BY <1>5, <1>8, <1>10 DEF a
    <3>2. \A k \in 1 .. n : data[k] = H!HeadOf(c, q)[HeadTaken(fed) + k]
      BY <2>3 DEF a, h
    <3>3. c \in Nat /\ q \in Request /\ n \in 1 .. Len(data) /\ H!CutFrom(fed, H!HeadOf(c, q))
      BY <1>3, <2>1, <2>2 DEF h
    <3> QED
      BY ONLY <3>1, <3>2, <3>3, PieceAdded, data \in Seq(Token), fed \in Seq(Seq(Token)) DEF a, g, h
  <2>5. H!Number(g) = c
    BY <1>3, <2>4, PiecesEnd DEF h
  <2>6. c <= Len(qs) /\ n \in 0 .. Len(data) /\ Len(p) + n = a + n
    BY <1>1, <1>2, <1>5, <1>8
  <2> QED
    BY <1>8, <1>10, <2>1, <2>4, <2>5, <2>6 DEF f, n, a, h, q, FedTo
<1> QED
  BY <1>9, <1>10

-----------------------------------------------------------------------------
(* The steps. *)

LEMMA HttpFrame ==
    ASSUME [Next]_vars
    PROVE  /\ which' = which
           /\ which = "http" => (~fate.lost /\ H!HttpNext) \/ UNCHANGED httpVars
BY DEF Next, vars, OnlyFox, OnlyWs, OnlyHttp, OnlyRock, OnlyXftp, OnlyTcp

Session == [pc : {"recv", "parsed", "body", "handle", "send", "closed"},
            data : Seq(Token), fed : Seq(Seq(Token)), body : Seq(Token)]
Fate == [lost : BOOLEAN, faulty : BOOLEAN]

LEMMA HttpInvInit == Init => HttpInv
<1> SUFFICES ASSUME H!HttpInit PROVE HttpInv
  BY DEF Init
<1>1. /\ _is_keepAlive \in BOOLEAN /\ net = <<>> /\ asked = <<>> /\ served = <<>> /\ said = <<>>
      /\ cli = [pc |-> "idle", piped |-> FALSE]
      /\ ses = [pc |-> "recv", data |-> <<>>, fed |-> <<>>, body |-> <<>>]
      /\ fate = [lost |-> FALSE, faulty |-> FALSE]
  BY DEF H!HttpInit, H!Recv
<1>2. HttpTypeOK
  BY <1>1 DEF HttpTypeOK
<1>3. Len(asked) = 0 /\ Len(said) = 0 /\ Len(served) = 0 /\ \A i \in 1 .. Len(served) : i \in {}
  BY <1>1
<1>4. ClientFits /\ GoesOn /\ ServedFits /\ TakenFits
  BY <1>1, <1>3 DEF ClientFits, GoesOn, ServedFits, TakenFits
<1>5. Stream(OnTheWire(asked), <<>>, 1)
  <2>1. OnTheWire(asked) \in Seq(Seq(Token)) /\ Len(OnTheWire(asked)) = 0
    BY <1>2, <1>3, WireFacts DEF HttpTypeOK
  <2>2. Stream(OnTheWire(asked), <<>>, Len(OnTheWire(asked)) + 1)
    BY <2>1, StreamEmpty
  <2> QED
    BY <2>1, <2>2
<1>6. BytesFit
  <2>1. <<>> \in Seq(Token) /\ Len(<<>>) = AtToken
    BY <1>1 DEF AtToken, HeadTaken, H!End
  <2>2. Coming(<<>>) = <<>>
    BY <1>1, CatNothing DEF Coming, HeldBack
  <2>3. Current = 1
    BY <1>3 DEF Current
  <2> QED
    BY <1>5, <2>1, <2>2, <2>3 DEF BytesFit
<1> QED
  BY <1>2, <1>4, <1>6 DEF HttpInv

\* A session that closes has only to have a reason.
LEMMA HttpCloses ==
    ASSUME HttpInv, H!Close, UNCHANGED <<_is_keepAlive, asked, cli, served, said>>, net' \in Seq(Token)
    PROVE  HttpInv'
<1>1. HttpTypeOK /\ ClientFits /\ GoesOn /\ ServedFits
  BY DEF HttpInv
<1>2. ses \in Session /\ fate \in Fate
  BY <1>1 DEF HttpTypeOK, Session, Fate
<1>3. ses' = [ses EXCEPT !.pc = "closed"] /\ fate' = [fate EXCEPT !.faulty = TRUE]
  BY DEF H!Close
<1>4. ses' \in Session /\ ses'.pc = "closed" /\ fate' \in Fate /\ fate'.faulty /\ fate'.lost = fate.lost
  BY <1>2, <1>3 DEF Session, Fate
<1>5. HttpTypeOK'
  BY <1>1, <1>4 DEF HttpTypeOK, Session, Fate
<1>6. ClientFits' /\ GoesOn' /\ ServedFits' /\ TakenFits' /\ BytesFit'
  BY <1>1, <1>4 DEF ClientFits, GoesOn, ServedFits, TakenFits, BytesFit
<1> QED
  BY <1>5, <1>6 DEF HttpInv

\* What holds while the session is at work.
LEMMA AtWork ==
    ASSUME HttpInv, ~fate.lost, ses.pc # "closed"
    PROVE  /\ ses \in Session /\ net \in Seq(Token) /\ HeldBack \in Seq(Token) /\ fate \in Fate
           /\ asked \in Seq(Request) /\ Current \in 1 .. (Len(asked) + 1) /\ Len(asked) \in Nat
           /\ OnTheWire(asked) \in Seq(Seq(Token)) /\ Len(OnTheWire(asked)) = Len(asked)
           /\ ses.fed # <<>> => /\ Current <= Len(asked) /\ asked[Current] \in Request /\ HasRequest(ses, Current, asked[Current])
                                /\ H!Number(ses.fed) = Current /\ H!Asked = asked[Current]
                                /\ OnTheWire(asked)[Current] = HttpTokens(Current, asked[Current])
                                /\ HeadTaken(ses.fed) \in 1 .. HeadSize(asked[Current])
           /\ HeadTaken(ses.fed) \in Nat
<1>1. HttpTypeOK /\ ClientFits /\ TakenFits
  BY DEF HttpInv
<1>2. /\ ses \in Session /\ net \in Seq(Token) /\ asked \in Seq(Request) /\ said \in Seq({"keep-alive", "close"})
      /\ fate \in Fate
  BY <1>1 DEF HttpTypeOK, Session, Fate
<1>3. Len(said) \in Nat /\ Len(asked) \in Nat /\ Len(said) <= Len(asked)
  BY <1>1, <1>2 DEF ClientFits
<1>4. Current \in 1 .. (Len(asked) + 1) /\ Current \in Nat
  BY <1>3 DEF Current
<1>5. OnTheWire(asked) \in Seq(Seq(Token)) /\ Len(OnTheWire(asked)) = Len(asked)
      /\ \A r \in 1 .. Len(asked) : OnTheWire(asked)[r] = HttpTokens(r, asked[r]) /\ asked[r] \in Request
  BY <1>2, WireFacts
<1>6. HeldBack \in Seq(Token)
  <2>1. CASE cli.pc = "body"
    <3>1. Len(asked) \in 1 .. Len(asked) /\ Len(asked) \in Nat
      BY <1>1, <1>2, <1>3, <2>1 DEF ClientFits
    <3> QED
      BY <1>5, <2>1, <3>1, BodyFacts DEF HeldBack
  <2>2. CASE cli.pc # "body"
    BY <2>2 DEF HeldBack
  <2> QED
    BY <2>1, <2>2
<1>7. ASSUME ses.fed # <<>>
      PROVE  /\ Current <= Len(asked) /\ asked[Current] \in Request /\ HasRequest(ses, Current, asked[Current])
             /\ H!Number(ses.fed) = Current /\ H!Asked = asked[Current]
             /\ OnTheWire(asked)[Current] = HttpTokens(Current, asked[Current])
             /\ HeadTaken(ses.fed) \in 1 .. HeadSize(asked[Current])
  <2>1. Current <= Len(asked) /\ HasRequest(ses, Current, asked[Current])
    BY <1>1, <1>7 DEF TakenFits
  <2>2. Current \in 1 .. Len(asked)
    BY <1>3, <1>4, <2>1
  <2>3. ses.fed \in Seq(Seq(Token))
    BY <1>2 DEF Session
  <2>4. H!CutFrom(ses.fed, H!HeadOf(Current, asked[Current]))
    BY <2>1 DEF HasRequest
  <2>5. H!Number(ses.fed) = Current /\ HeadTaken(ses.fed) \in 1 .. HeadSize(asked[Current])
    BY <1>4, <1>5, <1>7, <2>2, <2>3, <2>4, PiecesEnd
  <2> QED
    BY <1>5, <2>1, <2>2, <2>5 DEF H!Asked
<1>8. HeadTaken(ses.fed) \in Nat
  <2>1. CASE ses.fed = <<>>
    BY <2>1 DEF HeadTaken, H!End
  <2>2. CASE ses.fed # <<>>
    <3>1. HeadSize(asked[Current]) \in Nat
      BY <1>4, <1>7, <2>2, HeadFacts
    <3> QED
      BY <1>7, <2>2, <3>1
  <2> QED
    BY <2>1, <2>2
<1> QED
  BY <1>2, <1>3, <1>4, <1>5, <1>6, <1>7, <1>8

\* The buffer with the k tokens read.
Buffer(k) == ses.data \o SubSeq(net, 1, k)

LEMMA BufferFits ==
    ASSUME HttpInv, ~fate.lost, ses.pc = "recv", NEW k \in 1 .. Len(net)
    PROVE  LET d == Buffer(k)
               t == SubSeq(net, k + 1, Len(net))
               n == ToParser(d)
               f == Given(ses.fed, d)
           IN  /\ d \in Seq(Token) /\ t \in Seq(Token) /\ n \in 0 .. Len(d) /\ f \in Seq(Seq(Token))
               /\ Current <= Len(asked)
               /\ f # <<>> => H!CutFrom(f, H!HeadOf(Current, asked[Current])) /\ H!Number(f) = Current
               /\ HeadTaken(f) <= HeadSize(asked[Current])
               /\ HeadTaken(f) = HeadSize(asked[Current]) <=> n > 0 /\ H!IsEnd(d, n)
               /\ n > 0 => f # <<>>
               /\ \E p \in Seq(Token) :
                     /\ Len(p) = HeadTaken(f)
                     /\ Stream(OnTheWire(asked), Cat(Cat(Cat(p, SubSeq(d, n + 1, Len(d))), t), HeldBack), Current)
<1> DEFINE d == Buffer(k)
           t == SubSeq(net, k + 1, Len(net))
           n == ToParser(d)
           f == Given(ses.fed, d)
           c == Current
           us == OnTheWire(asked)
           H0 == HeldBack
<1>1. /\ ses \in Session /\ net \in Seq(Token) /\ H0 \in Seq(Token)
      /\ asked \in Seq(Request) /\ c \in 1 .. (Len(asked) + 1) /\ us \in Seq(Seq(Token)) /\ Len(us) = Len(asked)
      /\ ses.fed # <<>> => HasRequest(ses, c, asked[c])
      /\ HeadTaken(ses.fed) \in Nat
  BY AtWork
<1>2. ses.data \in Seq(Token) /\ ses.fed \in Seq(Seq(Token)) /\ ses.body = <<>>
  BY <1>1 DEF Session, HttpInv, TakenFits
<1>3. PICK p \in Seq(Token) : Len(p) = HeadTaken(ses.fed) /\ Stream(us, Cat(Cat(Cat(p, ses.data), net), H0), c)
  <2>1. AtToken = HeadTaken(ses.fed)
    BY <1>1, <1>2 DEF AtToken
  <2> QED
    BY <2>1 DEF HttpInv, BytesFit, Coming
<1> HIDE DEF us, c, H0
<1>4. /\ First(net, k) \in Seq(Token) /\ Len(First(net, k)) = k /\ t \in Seq(Token) /\ t = After(net, k)
      /\ Cat(Cat(p, Cat(ses.data, First(net, k))), t) = Cat(Cat(p, ses.data), net)
  <2>1. k \in 0 .. Len(net)
    BY <1>1
  <2>2. t = After(net, k)
    BY DEF After
  <2>3. /\ First(net, k) \in Seq(Token) /\ Len(First(net, k)) = k /\ After(net, k) \in Seq(Token)
    BY ONLY <1>1, <1>2, <2>1, Shift
  <2>4. Cat(Cat(p, Cat(ses.data, First(net, k))), After(net, k)) = Cat(Cat(p, ses.data), net)
    BY ONLY <1>1, <1>2, <2>1, ShiftIn, p \in Seq(Token)
  <2> QED
    BY ONLY <2>2, <2>3, <2>4
<1>5. d = Cat(ses.data, First(net, k)) /\ d \in Seq(Token) /\ d # <<>>
  <2>1. d = Cat(ses.data, First(net, k))
    BY DEF Buffer, Cat, First
  <2>2. d \in Seq(Token) /\ Len(d) = Len(ses.data) + k
    BY ONLY <1>2, <1>4, <2>1, CatSeq, CatLen
  <2> QED
    BY <1>2, <2>1, <2>2
<1> HIDE DEF d, t
<1>6. Stream(us, Cat(Cat(p, d), Cat(t, H0)), c)
  <2>1. Cat(Cat(Cat(p, d), t), H0) = Cat(Cat(p, d), Cat(t, H0))
    BY <1>1, <1>4, <1>5, CatSeq, CatAssociative
  <2> QED
    BY <1>3, <1>4, <1>5, <2>1
<1>7. Cat(t, H0) \in Seq(Token)
  BY <1>1, <1>4, CatSeq
<1>8. ses.fed # <<>> => H!CutFrom(ses.fed, H!HeadOf(c, asked[c])) /\ HeadTaken(ses.fed) < HeadSize(asked[c])
  <2> SUFFICES ASSUME ses.fed # <<>>
               PROVE  H!CutFrom(ses.fed, H!HeadOf(c, asked[c])) /\ HeadTaken(ses.fed) < HeadSize(asked[c])
    OBVIOUS
  <2>1. H!CutFrom(ses.fed, H!HeadOf(c, asked[c])) /\ HeadTaken(ses.fed) <= HeadSize(asked[c])
        /\ HeadTaken(ses.fed) # HeadSize(asked[c])
    BY <1>1 DEF HasRequest
  <2>2. HeadTaken(ses.fed) \in 1 .. HeadSize(asked[c]) /\ asked[c] \in Request /\ c \in Nat
    BY <1>1, AtWork DEF c
  <2>3. HeadSize(asked[c]) \in Nat
    BY <2>2, HeadFacts
  <2> QED
    BY <1>1, <2>1, <2>3
<1>9. FedTo(asked, c, Len(p), d, n, f)
  BY ONLY <1>1, <1>2, <1>3, <1>5, <1>6, <1>7, <1>8, Feeds, p \in Seq(Token) DEF us
<1>13. /\ c <= Len(asked) /\ n \in 0 .. Len(d)
       /\ f \in Seq(Seq(Token)) /\ HeadTaken(f) = Len(p) + n
       /\ HeadTaken(f) <= HeadSize(asked[c])
       /\ HeadTaken(f) = HeadSize(asked[c]) <=> n > 0 /\ H!IsEnd(d, n)
       /\ f # <<>> => H!CutFrom(f, H!HeadOf(c, asked[c])) /\ H!Number(f) = c
       /\ n > 0 => f # <<>>
  BY <1>9 DEF FedTo
<1> HIDE DEF n, f
<1>10. /\ First(d, n) \in Seq(Token) /\ Len(First(d, n)) = n /\ After(d, n) \in Seq(Token)
       /\ Cat(Cat(p, First(d, n)), After(d, n)) = Cat(p, d)
  BY ONLY <1>5, <1>13, Shift, p \in Seq(Token)
<1> DEFINE x == Cat(p, First(d, n))
<1>11. x \in Seq(Token) /\ Len(x) = HeadTaken(f)
  BY ONLY <1>13, <1>10, CatSeq, CatLen, p \in Seq(Token)
<1>12. Stream(us, Cat(Cat(Cat(x, SubSeq(d, n + 1, Len(d))), t), H0), c)
  <2>1. Cat(Cat(Cat(p, d), t), H0) = Cat(Cat(p, d), Cat(t, H0))
    BY <1>1, <1>4, <1>5, CatSeq, CatAssociative
  <2> QED
    BY <1>6, <1>10, <2>1 DEF After
<1> HIDE DEF x
<1> QED
  BY <1>4, <1>5, <1>13, <1>11, <1>12 DEF d, t, n, f, c, us, H0

LEMMA HttpReads ==
    ASSUME HttpInv, ~fate.lost, H!RecvHead
    PROVE  HttpInv'
<1>1. PICK k \in 1 .. Len(net) :
         /\ IF H!HasError(Given(ses.fed, Buffer(k))) THEN H!Close
            ELSE /\ ses' = [ses EXCEPT !.pc = IF ToParser(Buffer(k)) > 0 /\ H!IsEnd(Buffer(k), ToParser(Buffer(k))) THEN "parsed" ELSE "recv",
                                       !.data = SubSeq(Buffer(k), ToParser(Buffer(k)) + 1, Len(Buffer(k))), !.fed = Given(ses.fed, Buffer(k))]
                 /\ UNCHANGED fate
         /\ net' = SubSeq(net, k + 1, Len(net))
  <2>1. PICK k \in 1 .. Len(net) :
           /\ \E data \in {Buffer(k)} : \E n \in {ToParser(data)} :
              \E fed \in {IF n = 0 THEN ses.fed ELSE Append(ses.fed, SubSeq(data, 1, n))} :
                 IF H!HasError(fed) THEN H!Close
                 ELSE /\ ses' = [ses EXCEPT !.pc = IF n > 0 /\ H!IsEnd(data, n) THEN "parsed" ELSE "recv",
                                            !.data = SubSeq(data, n + 1, Len(data)), !.fed = fed]
                      /\ UNCHANGED fate
           /\ net' = SubSeq(net, k + 1, Len(net))
    BY Zenon DEF H!RecvHead, Buffer, ToParser
  <2>2. PICK data \in {Buffer(k)}, n \in {ToParser(Buffer(k))} :
           \E fed \in {IF n = 0 THEN ses.fed ELSE Append(ses.fed, SubSeq(data, 1, n))} :
              IF H!HasError(fed) THEN H!Close
              ELSE /\ ses' = [ses EXCEPT !.pc = IF n > 0 /\ H!IsEnd(data, n) THEN "parsed" ELSE "recv",
                                         !.data = SubSeq(data, n + 1, Len(data)), !.fed = fed]
                   /\ UNCHANGED fate
    BY ONLY <2>1, Zenon
  <2>3. data = Buffer(k) /\ n = ToParser(Buffer(k))
    OBVIOUS
  <2>4. IF H!HasError(Given(ses.fed, Buffer(k))) THEN H!Close
        ELSE /\ ses' = [ses EXCEPT !.pc = IF ToParser(Buffer(k)) > 0 /\ H!IsEnd(Buffer(k), ToParser(Buffer(k))) THEN "parsed" ELSE "recv",
                                   !.data = SubSeq(Buffer(k), ToParser(Buffer(k)) + 1, Len(Buffer(k))), !.fed = Given(ses.fed, Buffer(k))]
             /\ UNCHANGED fate
    BY ONLY <2>2, <2>3, Zenon DEF Given
  <2> QED
    BY ONLY <2>1, <2>4, k \in 1 .. Len(net), Zenon
<1>2. ses.pc = "recv" /\ UNCHANGED <<_is_keepAlive, asked, cli, served, said>>
  BY DEF H!RecvHead
<1> DEFINE d == Buffer(k)
           t == SubSeq(net, k + 1, Len(net))
           n == ToParser(d)
           f == Given(ses.fed, d)
           ends == IF n > 0 /\ H!IsEnd(d, n) THEN "parsed" ELSE "recv"
           y == SubSeq(d, n + 1, Len(d))
<1>3. /\ d \in Seq(Token) /\ t \in Seq(Token) /\ n \in 0 .. Len(d) /\ f \in Seq(Seq(Token))
      /\ Current <= Len(asked)
      /\ f # <<>> => H!CutFrom(f, H!HeadOf(Current, asked[Current])) /\ H!Number(f) = Current
      /\ HeadTaken(f) <= HeadSize(asked[Current])
      /\ HeadTaken(f) = HeadSize(asked[Current]) <=> n > 0 /\ H!IsEnd(d, n)
      /\ n > 0 => f # <<>>
      /\ \E p \in Seq(Token) :
            /\ Len(p) = HeadTaken(f)
            /\ Stream(OnTheWire(asked), Cat(Cat(Cat(p, y), t), HeldBack), Current)
  BY <1>2, BufferFits
<1>4. /\ IF H!HasError(f) THEN H!Close
         ELSE ses' = [ses EXCEPT !.pc = ends, !.data = y, !.fed = f] /\ UNCHANGED fate
      /\ net' = t
  BY <1>1
<1>5. y \in Seq(Token)
  BY ONLY <1>3, Shift DEF After
<1> HIDE DEF d, t, n, f, y
<1>6. CASE H!HasError(f)
  BY <1>2, <1>3, <1>4, <1>6, HttpCloses
<1>7. CASE ~H!HasError(f)
  <2>1. HttpTypeOK /\ ClientFits /\ GoesOn /\ ServedFits /\ TakenFits
    BY DEF HttpInv
  <2>2. /\ ses \in Session /\ ses.body = <<>> /\ fate' = fate /\ net' = t /\ ses' = [ses EXCEPT !.pc = ends, !.data = y, !.fed = f]
    BY <1>2, <1>4, <1>7, <2>1, AtWork DEF TakenFits
  <2>3. ends \in {"recv", "parsed"} /\ (ends = "parsed" <=> n > 0 /\ H!IsEnd(d, n))
    OBVIOUS
  <2> HIDE DEF ends
  <2>4. /\ ses' \in Session /\ ses'.pc = ends /\ ses'.data = y /\ ses'.fed = f /\ ses'.body = <<>>
    BY ONLY <1>3, <1>5, <2>2, <2>3 DEF Session
  <2>5. HttpTypeOK'
    BY <1>2, <1>3, <2>1, <2>2, <2>4 DEF HttpTypeOK, Session
  <2>6. Current' = Current /\ HeldBack' = HeldBack
    BY <1>2 DEF Current, HeldBack
  <2>7. ClientFits' /\ GoesOn' /\ ServedFits'
    BY <1>2, <2>1, <2>2, <2>3, <2>4, <2>6 DEF ClientFits, GoesOn, ServedFits
  <2>8. TakenFits'
    <3>1. f = <<>> => ends = "recv"
      BY <1>3, <2>3
    <3>2. ASSUME f # <<>>
          PROVE  HasRequest(ses', Current, asked[Current])
      <4>1. asked[Current].ok
        BY <1>3, <1>7, <3>2 DEF H!HasError
      <4>2. Len(<<>>) = 0 /\ \A j \in 1 .. 0 : j \in {}
        OBVIOUS
      <4>3. asked[Current].body \in Seq({"x", "n"})
        <5>1. asked \in Seq(Request) /\ Current \in 1 .. Len(asked)
          BY <1>2, <1>3, AtWork
        <5> QED
          <6>1. asked[Current] \in Request
            BY <5>1
          <6> QED
            BY ONLY <6>1 DEF Request
      <4>4. Len(ses'.body) <= Len(asked[Current].body) /\ \A j \in 1 .. Len(ses'.body) : j \in {}
        BY <2>4, <4>2, <4>3
      <4>5. HeadTaken(ses'.fed) = HeadSize(asked[Current]) <=> ses'.pc # "recv"
        BY <1>3, <2>3, <2>4
      <4> QED
        BY <1>3, <2>3, <2>4, <3>2, <4>1, <4>4, <4>5 DEF HasRequest
    <3> QED
      BY <1>2, <1>3, <2>3, <2>4, <2>6, <3>1, <3>2 DEF TakenFits
  <2>9. BytesFit'
    <3>1. AtToken' = HeadTaken(f)
      <4>1. HeadTaken(f) \in Nat
        <5>1. PICK p \in Seq(Token) : Len(p) = HeadTaken(f)
          BY <1>3
        <5> QED
          BY <5>1
      <4> QED
        BY <2>4, <4>1 DEF AtToken
    <3> QED
      BY <1>2, <1>3, <2>2, <2>4, <2>6, <3>1 DEF BytesFit, Coming
  <2> QED
    BY <2>5, <2>7, <2>8, <2>9 DEF HttpInv
<1> QED
  BY <1>6, <1>7

\* What the session has read up to here, and what stands behind it.
LEMMA Behind ==
    ASSUME HttpInv, ~fate.lost, ses.pc # "closed"
    PROVE  \E p \in Seq(Token) : Len(p) = AtToken /\ Stream(OnTheWire(asked), Cat(Cat(Cat(p, ses.data), net), HeldBack), Current)
BY DEF HttpInv, BytesFit, Coming

\* The tokens of a body that are there are those of the request.
LEMMA BodyBehind ==
    ASSUME NEW qs \in Seq(Request), NEW c \in 1 .. Len(qs), NEW b \in Seq(Token), NEW m \in Nat, b # <<>>,
           \A k \in 1 .. Len(b) : (HeadSize(qs[c]) + m) + k <= Len(HttpTokens(c, qs[c]))
              => b[k] = HttpTokens(c, qs[c])[(HeadSize(qs[c]) + m) + k]
    PROVE  \A k \in 1 .. Len(b) : m + k <= Len(qs[c].body) => b[k] = H!BodyOf(c, qs[c])[m + k]
<1> TAKE k \in 1 .. Len(b)
<1> DEFINE q == qs[c]
           z == HeadSize(q)
           l == Len(q.body)
<1>1. q \in Request /\ c \in Nat
  OBVIOUS
<1>2. z \in Nat /\ l \in Nat /\ k \in Nat \ {0}
  <2>1. z \in Nat
    BY <1>1, HeadFacts
  <2>2. l \in Nat
    BY <1>1, BodyFacts
  <2> QED
    BY <2>1, <2>2
<1>3. /\ Len(HttpTokens(c, q)) = z + l
      /\ \A i \in 1 .. l : HttpTokens(c, q)[z + i] = H!BodyOf(c, q)[i]
  BY <1>1, TokensFacts
<1>4. (z + m) + k <= z + l => b[k] = HttpTokens(c, q)[(z + m) + k]
  BY <1>3
<1> HIDE DEF q, z, l
<1>5. m + k <= l => (z + m) + k <= z + l /\ (z + m) + k = z + (m + k) /\ m + k \in 1 .. l
  BY ONLY <1>2, m \in Nat
<1>6. m + k <= l => b[k] = H!BodyOf(c, q)[m + k]
  BY ONLY <1>3, <1>4, <1>5
<1> QED
  BY <1>6 DEF l, q

LEMMA HttpBody ==
    ASSUME HttpInv, ~fate.lost, H!RecvBody
    PROVE  HttpInv'
<1>1. ses.pc = "parsed" /\ UNCHANGED <<_is_keepAlive, net, asked, cli, served, said>>
  BY DEF H!RecvBody
<1>2. HttpTypeOK /\ ClientFits /\ GoesOn /\ ServedFits /\ TakenFits
  BY DEF HttpInv
<1>3. ses.fed # <<>> /\ ses.body = <<>>
  BY <1>1, <1>2 DEF TakenFits
<1>4. CASE Len(H!Asked.body) > MaxBody
  <2>1. H!Close
    BY <1>4 DEF H!RecvBody
  <2>2. net' \in Seq(Token)
    BY <1>1, <1>2 DEF HttpTypeOK
  <2> QED
    BY <1>1, <2>1, <2>2, HttpCloses
<1>5. CASE ~(Len(H!Asked.body) > MaxBody)
  <2> DEFINE q == asked[Current]
             c == Current
             d == ses.data
             l == Len(q.body)
             N == Len(d)
             n == IF N > l THEN l ELSE N
             b == SubSeq(d, 1, n)
             to == IF n = l THEN "handle" ELSE "body"
             ahead == fate.lost \/ n < N
  <2>1. /\ ses \in Session /\ net \in Seq(Token) /\ HeldBack \in Seq(Token) /\ fate \in Fate
        /\ asked \in Seq(Request) /\ c \in 1 .. (Len(asked) + 1) /\ Len(asked) \in Nat
        /\ OnTheWire(asked) \in Seq(Seq(Token)) /\ Len(OnTheWire(asked)) = Len(asked)
        /\ c <= Len(asked) /\ q \in Request /\ HasRequest(ses, c, q) /\ H!Asked = q
        /\ OnTheWire(asked)[c] = HttpTokens(c, q)
    BY <1>1, <1>3, AtWork
  <2>2. d \in Seq(Token) /\ N \in Nat /\ l \in Nat /\ c \in 1 .. Len(asked) /\ c \in Nat /\ HeadSize(q) \in Nat
        /\ HeadTaken(ses.fed) = HeadSize(q)
    <3>1. d \in Seq(Token) /\ l \in Nat /\ HeadSize(q) \in Nat
      <4>1. d \in Seq(Token) /\ l \in Nat
        BY <2>1 DEF Session, Request
      <4>2. HeadSize(q) \in Nat
        BY <2>1, HeadFacts
      <4> QED
        BY <4>1, <4>2
    <3> QED
      BY <1>1, <2>1, <3>1 DEF HasRequest
  <2>3. /\ ses' = [ses EXCEPT !.pc = to, !.body = b, !.data = <<>>]
        /\ fate' = [fate EXCEPT !.lost = ahead]
    BY <1>5, <2>1 DEF H!RecvBody
  <2>4. n \in 0 .. N /\ n \in Nat /\ n <= l /\ to \in {"handle", "body"} /\ (to = "handle" <=> n = l) /\ (n < N => n = l)
    BY <2>2
  <2>5. b = First(d, n) /\ b \in Seq(Token) /\ Len(b) = n /\ \A k \in 1 .. n : b[k] = d[k]
    <3>1. b = First(d, n)
      BY DEF First
    <3>2. \A k \in 1 .. n : b[k] = d[k]
      BY <2>2, <2>4
    <3>3. First(d, n) \in Seq(Token) /\ Len(First(d, n)) = n
      <4>1. d \in Seq(Token) /\ n \in 0 .. Len(d)
        BY <2>2, <2>4
      <4> HIDE DEF d, n
      <4> QED
        BY ONLY <4>1, Shift
    <3> QED
      BY ONLY <3>1, <3>2, <3>3
  <2>6. PICK p \in Seq(Token) : Len(p) = AtToken /\ Stream(OnTheWire(asked), Cat(Cat(Cat(p, d), net), HeldBack), c)
    BY <1>1, Behind
  <2>7. Len(p) = HeadSize(q)
    BY <1>3, <2>2, <2>6 DEF AtToken
  <2> HIDE DEF q, c, d, l, N, n, b, to, ahead
  <2>8. /\ ses' \in Session /\ ses'.pc = to /\ ses'.fed = ses.fed /\ ses'.body = b /\ ses'.data = <<>>
        /\ fate' \in Fate /\ fate'.lost = ahead /\ fate'.faulty = fate.faulty
    <3>1. ses' \in Session /\ ses'.pc = to /\ ses'.fed = ses.fed /\ ses'.body = b /\ ses'.data = <<>>
      <4>1. ses \in Session /\ ses' = [ses EXCEPT !.pc = to, !.body = b, !.data = <<>>]
        BY <2>1, <2>3
      <4>2. to \in {"recv", "parsed", "body", "handle", "send", "closed"} /\ b \in Seq(Token) /\ <<>> \in Seq(Token)
        BY <2>4, <2>5
      <4>3. ses'.pc = to /\ ses'.fed = ses.fed /\ ses'.body = b /\ ses'.data = <<>>
        BY ONLY <4>1 DEF Session
      <4>4. ses' \in Session
        BY ONLY <4>1, <4>2 DEF Session
      <4> QED
        BY <4>3, <4>4
    <3>2. ahead \in BOOLEAN
      BY <2>1 DEF Fate, ahead
    <3>3. fate' \in Fate /\ fate'.lost = ahead /\ fate'.faulty = fate.faulty
      BY ONLY <2>1, <2>3, <3>2 DEF Fate
    <3> QED
      BY <3>1, <3>3
  <2>9. Cat(Cat(Cat(p, d), net), HeldBack) = Cat(Cat(p, d), Cat(net, HeldBack)) /\ Cat(net, HeldBack) \in Seq(Token)
    BY <2>1, <2>2, CatSeq, CatAssociative
  <2>10. d # <<>> =>
            /\ \A k \in 1 .. Len(d) : Len(p) + k <= Len(HttpTokens(c, q)) => d[k] = HttpTokens(c, q)[Len(p) + k]
            /\ Len(HttpTokens(c, q)) < Len(p) + Len(d) => c < Len(asked)
    <3> SUFFICES ASSUME d # <<>>
                 PROVE  /\ \A k \in 1 .. Len(d) : Len(p) + k <= Len(HttpTokens(c, q)) => d[k] = HttpTokens(c, q)[Len(p) + k]
                        /\ Len(HttpTokens(c, q)) < Len(p) + Len(d) => c < Len(asked)
      OBVIOUS
    <3> DEFINE us == OnTheWire(asked)
               e == Cat(net, HeldBack)
    <3>1. us \in Seq(Seq(Token)) /\ c \in 1 .. (Len(us) + 1) /\ e \in Seq(Token) /\ Stream(us, Cat(Cat(p, d), e), c)
          /\ us[c] = HttpTokens(c, q) /\ Len(us) = Len(asked)
      BY <2>1, <2>6, <2>9
    <3> HIDE DEF us, e
    <3>2. /\ c <= Len(us) /\ us[c] \in Seq(Token)
          /\ \A k \in 1 .. Len(d) : Len(p) + k <= Len(us[c]) => d[k] = us[c][Len(p) + k]
          /\ Len(us[c]) < Len(p) + Len(d) => c < Len(us)
      BY ONLY <2>2, <3>1, StreamBehind, p \in Seq(Token), d # <<>>, Zenon
    <3> QED
      BY <3>1, <3>2
  <2>11. Len(HttpTokens(c, q)) = HeadSize(q) + l
    BY <2>1, <2>2, TokensFacts DEF l
  <2>12. n < N => c < Len(asked)
    <3> SUFFICES ASSUME n < N PROVE c < Len(asked)
      OBVIOUS
    <3>1. d # <<>>
      BY <2>2, <2>4 DEF N
    <3>2. Len(HttpTokens(c, q)) < Len(p) + Len(d)
      BY <2>2, <2>4, <2>7, <2>11 DEF N
    <3> QED
      BY <2>10, <3>1, <3>2
  <2>13. \A k \in 1 .. n : b[k] = H!BodyOf(c, q)[k]
    <3> TAKE k \in 1 .. n
    <3>1. d # <<>> /\ k \in 1 .. N /\ 0 + k <= l /\ 0 + k = k
      BY <2>2, <2>4 DEF N
    <3>2. 0 \in Nat /\ HeadSize(q) + 0 = HeadSize(q)
      BY <2>2
    <3>3. \A j \in 1 .. Len(d) : (HeadSize(asked[c]) + 0) + j <= Len(HttpTokens(c, asked[c]))
             => d[j] = HttpTokens(c, asked[c])[(HeadSize(asked[c]) + 0) + j]
      BY <2>7, <2>10, <3>1, <3>2 DEF q, c
    <3>4. \A j \in 1 .. Len(d) : 0 + j <= Len(asked[c].body) => d[j] = H!BodyOf(c, asked[c])[0 + j]
      BY ONLY <2>1, <2>2, <3>1, <3>2, <3>3, BodyBehind
    <3>5. d[k] = H!BodyOf(c, q)[k]
      BY <3>1, <3>4 DEF q, c, l, N
    <3> QED
      BY <2>5, <3>5
  <2>14. HttpTypeOK'
    BY <1>1, <1>2, <2>8 DEF HttpTypeOK, Session, Fate
  <2>15. Current' = Current /\ HeldBack' = HeldBack
    BY <1>1 DEF Current, HeldBack
  <2>16. ClientFits'
    <3>1. ahead => cli.piped
      BY <1>2, <2>1, <2>12 DEF ClientFits, ahead, Current, c
    <3> QED
      BY <1>1, <1>2, <2>8, <3>1 DEF ClientFits
  <2>17. GoesOn' /\ ServedFits'
    BY <1>1, <1>2, <2>4, <2>8, <2>15 DEF GoesOn, ServedFits
  <2>18. TakenFits'
    <3>1. HasRequest(ses', c, q)
      <4>1. HeadTaken(ses'.fed) = HeadSize(q) /\ ses'.pc # "recv" /\ H!CutFrom(ses'.fed, H!HeadOf(c, q)) /\ q.ok
        BY <2>1, <2>2, <2>4, <2>8 DEF HasRequest
      <4>2. /\ Len(ses'.body) <= Len(q.body) /\ \A k \in 1 .. Len(ses'.body) : ses'.body[k] = H!BodyOf(c, q)[k]
            /\ ses'.pc \in {"handle", "send"} => Len(ses'.body) = Len(q.body)
        BY <2>4, <2>5, <2>8, <2>13 DEF l
      <4> QED
        BY <2>2, <4>1, <4>2 DEF HasRequest
    <3> QED
      BY <1>1, <1>3, <2>1, <2>4, <2>8, <2>15, <3>1 DEF TakenFits, q, c
  <2>19. BytesFit'
    <3> SUFFICES ASSUME ~ahead
                 PROVE  \E x \in Seq(Token) : Len(x) = AtToken' /\ Stream(OnTheWire(asked), Cat(Cat(Cat(x, <<>>), net), HeldBack), c)
      BY <1>1, <2>8, <2>15 DEF BytesFit, Coming, c
    <3>1. n = N
      BY <2>2, <2>4 DEF ahead
    <3>2. b = d
      BY ONLY <2>2, <2>5, <3>1, SeqEqual DEF N
    <3>3. Cat(p, d) \in Seq(Token) /\ Len(Cat(p, d)) = Len(p) + Len(d) /\ Cat(Cat(p, d), <<>>) = Cat(p, d)
      BY <2>2, CatSeq, CatLen, CatEmpty
    <3>4. AtToken' = Len(p) + Len(d)
      BY <2>2, <2>7, <2>8, <3>2 DEF AtToken
    <3> QED
      BY <2>6, <3>3, <3>4
  <2> QED
    BY <2>14, <2>16, <2>17, <2>18, <2>19 DEF HttpInv
<1> QED
  BY <1>4, <1>5

LEMMA HttpContinues ==
    ASSUME HttpInv, ~fate.lost, H!Continue
    PROVE  HttpInv'
<1> DEFINE N == Len(asked)
           b == H!BodyOf(N, asked[N])
<1>1. /\ ses.pc \in {"body", "handle"} /\ cli.pc = "body" /\ net' = net \o b
      /\ cli' = [cli EXCEPT !.pc = "answer"] /\ UNCHANGED <<_is_keepAlive, asked, ses, served, said, fate>>
  BY DEF H!Continue, H!Expecting
<1>2. HttpTypeOK /\ ClientFits /\ GoesOn /\ ServedFits /\ TakenFits
  BY DEF HttpInv
<1>3. HeldBack = b
  BY <1>1 DEF HeldBack
<1>4. b \in Seq(Token) /\ net \in Seq(Token) /\ ses.data \in Seq(Token)
  BY <1>1, <1>3, AtWork DEF Session
<1>5. /\ cli \in [pc : {"idle", "body", "answer"}, piped : BOOLEAN]
  BY <1>2 DEF HttpTypeOK
<1> HIDE DEF b
<1>6. net' = Cat(net, b) /\ net' \in Seq(Token)
  BY <1>1, <1>4, CatSeq DEF Cat
<1>7. cli' \in [pc : {"idle", "body", "answer"}, piped : BOOLEAN] /\ cli'.pc = "answer" /\ cli'.piped = cli.piped
  BY <1>1, <1>5
<1>8. HttpTypeOK'
  BY <1>1, <1>2, <1>6, <1>7 DEF HttpTypeOK
<1>9. ClientFits' /\ GoesOn' /\ ServedFits' /\ TakenFits'
  <2>1. Current' = Current
    BY <1>1 DEF Current
  <2> QED
    BY <1>1, <1>2, <1>7, <2>1 DEF ClientFits, GoesOn, ServedFits, TakenFits
<1>10. BytesFit'
  <2>1. PICK p \in Seq(Token) : Len(p) = AtToken /\ Stream(OnTheWire(asked), Cat(Cat(Cat(p, ses.data), net), b), Current)
    BY <1>1, <1>3, Behind
  <2>2. Cat(Cat(Cat(p, ses.data), net'), <<>>) = Cat(Cat(Cat(p, ses.data), net), b)
    <3> DEFINE a == Cat(p, ses.data)
    <3>1. a \in Seq(Token)
      BY <1>4, CatSeq
    <3> HIDE DEF a
    <3>2. Cat(a, net') \in Seq(Token)
      BY <1>6, <3>1, CatSeq
    <3>3. Cat(Cat(a, net'), <<>>) = Cat(a, net')
      BY <3>2, CatEmpty
    <3>4. Cat(a, net') = Cat(Cat(a, net), b)
      BY ONLY <1>4, <1>6, <3>1, CatAssociative
    <3> QED
      BY <3>3, <3>4 DEF a
  <2>3. HeldBack' = <<>> /\ AtToken' = AtToken /\ Current' = Current
    BY <1>1, <1>7 DEF HeldBack, AtToken, Current
  <2> QED
    BY <1>1, <2>1, <2>2, <2>3 DEF BytesFit, Coming
<1> QED
  BY <1>8, <1>9, <1>10 DEF HttpInv

LEMMA HttpReadsBody ==
    ASSUME HttpInv, ~fate.lost, H!ReadFixSize
    PROVE  HttpInv'
<1> DEFINE c == Current
           q == asked[c]
           l == Len(q.body)
           s == ses.body
<1>1. ses.pc = "body" /\ UNCHANGED <<_is_keepAlive, asked, cli, served, said, fate>>
  BY DEF H!ReadFixSize
<1>2. HttpTypeOK /\ ClientFits /\ GoesOn /\ ServedFits /\ TakenFits
  BY DEF HttpInv
<1>3. ses.fed # <<>> /\ ses.data = <<>>
  BY <1>1, <1>2 DEF TakenFits
<1>4. /\ ses \in Session /\ net \in Seq(Token) /\ HeldBack \in Seq(Token)
      /\ asked \in Seq(Request) /\ Len(asked) \in Nat
      /\ OnTheWire(asked) \in Seq(Seq(Token)) /\ Len(OnTheWire(asked)) = Len(asked)
      /\ c \in 1 .. Len(asked) /\ q \in Request /\ HasRequest(ses, c, q) /\ H!Asked = q
      /\ OnTheWire(asked)[c] = HttpTokens(c, q)
  BY <1>1, <1>3, AtWork
<1>5. PICK k \in 1 .. Len(net) :
         /\ Len(s) + k <= l
         /\ ses' = [ses EXCEPT !.body = s \o SubSeq(net, 1, k), !.pc = IF Len(s) + k = l THEN "handle" ELSE "body"]
         /\ net' = SubSeq(net, k + 1, Len(net))
  BY <1>4, Zenon DEF H!ReadFixSize
<1> DEFINE b == First(net, k)
           t == After(net, k)
           to == IF Len(s) + k = l THEN "handle" ELSE "body"
           y == Cat(s, b)
<1>6. HeadSize(q) \in Nat /\ l \in Nat /\ s \in Seq(Token) /\ Len(s) \in Nat /\ k \in Nat \ {0} /\ c \in Nat
      /\ HeadTaken(ses.fed) = HeadSize(q)
  <2>1. HeadSize(q) \in Nat
    BY <1>4, HeadFacts
  <2>2. l \in Nat /\ s \in Seq(Token)
    BY <1>4 DEF Session, Request
  <2> QED
    BY <1>1, <1>4, <2>1, <2>2 DEF HasRequest
<1>7. b \in Seq(Token) /\ Len(b) = k /\ t \in Seq(Token) /\ b # <<>>
  <2>1. k \in 0 .. Len(net)
    BY <1>4
  <2>2. First(net, k) \in Seq(Token) /\ Len(First(net, k)) = k /\ After(net, k) \in Seq(Token)
    BY ONLY <1>4, <2>1, Shift
  <2> QED
    BY <1>6, <2>2
<1>8. net' = t /\ ses' = [ses EXCEPT !.body = y, !.pc = to] /\ Len(s) + k <= l
  BY <1>5 DEF First, After, Cat
<1>9. to \in {"handle", "body"} /\ (to = "handle" <=> Len(s) + k = l)
  OBVIOUS
<1>10. y \in Seq(Token) /\ Len(y) = Len(s) + k
  BY ONLY <1>6, <1>7, CatSeq, CatLen
<1> HIDE DEF c, q, l, s, b, t, to, y
<1>11. ses' \in Session /\ ses'.pc = to /\ ses'.fed = ses.fed /\ ses'.body = y /\ ses'.data = <<>>
  <2>1. ses \in Session /\ ses' = [ses EXCEPT !.body = y, !.pc = to]
    BY <1>4, <1>8
  <2>2. to \in {"recv", "parsed", "body", "handle", "send", "closed"} /\ y \in Seq(Token)
    BY <1>9, <1>10
  <2>3. ses'.pc = to /\ ses'.fed = ses.fed /\ ses'.body = y /\ ses'.data = ses.data
    BY ONLY <2>1 DEF Session
  <2>4. ses' \in Session
    BY ONLY <2>1, <2>2 DEF Session
  <2> QED
    BY <1>3, <2>3, <2>4
<1>12. PICK p \in Seq(Token) : Len(p) = AtToken /\ Stream(OnTheWire(asked), Cat(Cat(Cat(p, <<>>), net), HeldBack), c)
  BY <1>1, <1>3, Behind DEF c
<1>13. Len(p) = HeadSize(q) + Len(s) /\ Cat(p, <<>>) = p
  BY <1>6, <1>12, CatEmpty DEF AtToken, s
<1>14. Cat(Cat(p, b), t) = Cat(p, net) /\ Cat(Cat(Cat(p, b), t), HeldBack) = Cat(Cat(p, b), Cat(t, HeldBack))
       /\ Cat(t, HeldBack) \in Seq(Token) /\ Cat(p, b) \in Seq(Token) /\ Len(Cat(p, b)) = Len(p) + k
  <2>1. k \in 0 .. Len(net)
    BY <1>4
  <2>2. Cat(Cat(p, b), t) = Cat(p, net)
    BY ONLY <1>4, <2>1, Shift, p \in Seq(Token) DEF b, t
  <2>3. Cat(p, b) \in Seq(Token) /\ Cat(t, HeldBack) \in Seq(Token) /\ Len(Cat(p, b)) = Len(p) + k
    BY ONLY <1>4, <1>7, CatSeq, CatLen, p \in Seq(Token)
  <2>4. Cat(Cat(Cat(p, b), t), HeldBack) = Cat(Cat(p, b), Cat(t, HeldBack))
    BY ONLY <1>4, <1>7, <2>3, CatAssociative
  <2> QED
    BY <2>2, <2>3, <2>4
<1>15. Stream(OnTheWire(asked), Cat(Cat(Cat(p, b), t), HeldBack), c)
  BY <1>12, <1>13, <1>14
<1>16. \A j \in 1 .. k : y[Len(s) + j] = H!BodyOf(c, q)[Len(s) + j]
  <2> DEFINE us == OnTheWire(asked)
             e == Cat(t, HeldBack)
  <2>1. us \in Seq(Seq(Token)) /\ c \in 1 .. (Len(us) + 1) /\ e \in Seq(Token) /\ Stream(us, Cat(Cat(p, b), e), c)
        /\ us[c] = HttpTokens(c, q) /\ c \in 1 .. Len(asked)
    BY <1>4, <1>14, <1>15
  <2> HIDE DEF us, e
  <2>2. /\ c <= Len(us) /\ us[c] \in Seq(Token)
        /\ \A j \in 1 .. Len(b) : Len(p) + j <= Len(us[c]) => b[j] = us[c][Len(p) + j]
        /\ Len(us[c]) < Len(p) + Len(b) => c < Len(us)
    BY ONLY <1>7, <2>1, StreamBehind, p \in Seq(Token), Zenon
  <2>3. \A j \in 1 .. Len(b) : (HeadSize(asked[c]) + Len(s)) + j <= Len(HttpTokens(c, asked[c]))
           => b[j] = HttpTokens(c, asked[c])[(HeadSize(asked[c]) + Len(s)) + j]
    BY <1>13, <2>1, <2>2 DEF q
  <2>4. \A j \in 1 .. Len(b) : Len(s) + j <= Len(asked[c].body) => b[j] = H!BodyOf(c, asked[c])[Len(s) + j]
    <3>1. asked \in Seq(Request) /\ c \in 1 .. Len(asked) /\ b \in Seq(Token) /\ Len(s) \in Nat /\ b # <<>>
      BY <1>4, <1>6, <1>7
    <3> QED
      BY ONLY <2>3, <3>1, BodyBehind, Zenon
  <2> TAKE j \in 1 .. k
  <2>5. j \in 1 .. Len(b) /\ Len(s) + j <= l
    <3>1. Len(s) + k <= l /\ Len(s) \in Nat /\ l \in Nat /\ k \in Nat /\ Len(b) = k
      BY <1>6, <1>7, <1>8
    <3> QED
      BY ONLY <3>1, j \in 1 .. k
  <2>6. b[j] = H!BodyOf(c, q)[Len(s) + j]
    BY <2>4, <2>5 DEF q, l
  <2>7. y[Len(s) + j] = b[j]
    <3> DEFINE w == s \o b
    <3>1. w[Len(s) + j] = b[j]
      BY ONLY <1>6, <1>7, <2>5
    <3> QED
      BY <3>1 DEF y, Cat
  <2> QED
    BY <2>6, <2>7
<1>17. \A j \in 1 .. Len(s) : y[j] = H!BodyOf(c, q)[j]
  <2> TAKE j \in 1 .. Len(s)
  <2>1. s[j] = H!BodyOf(c, q)[j]
    BY <1>4 DEF HasRequest, s
  <2> DEFINE w == s \o b
  <2>2. w[j] = s[j]
    BY ONLY <1>6, <1>7, j \in 1 .. Len(s)
  <2> QED
    BY <2>1, <2>2 DEF y, Cat
<1>18. \A j \in 1 .. Len(y) : y[j] = H!BodyOf(c, q)[j]
  <2> TAKE j \in 1 .. Len(y)
  <2>1. j \in 1 .. Len(s) \/ (j - Len(s) \in 1 .. k /\ Len(s) + (j - Len(s)) = j)
    BY ONLY <1>6, <1>10, j \in 1 .. Len(y)
  <2>2. CASE j \in 1 .. Len(s)
    BY <1>17, <2>2
  <2>3. CASE j - Len(s) \in 1 .. k /\ Len(s) + (j - Len(s)) = j
    <3> DEFINE i == j - Len(s)
    <3>1. i \in 1 .. k /\ j = Len(s) + i
      BY <2>3
    <3> HIDE DEF i
    <3> QED
      BY <1>16, <3>1
  <2> QED
    BY <2>1, <2>2, <2>3
<1>19. HttpTypeOK'
  BY <1>1, <1>2, <1>7, <1>8, <1>11 DEF HttpTypeOK, Session
<1>20. Current' = Current /\ HeldBack' = HeldBack
  BY <1>1 DEF Current, HeldBack
<1>21. ClientFits' /\ GoesOn' /\ ServedFits'
  BY <1>1, <1>2, <1>9, <1>11, <1>20 DEF ClientFits, GoesOn, ServedFits
<1>22. TakenFits'
  <2>1. HasRequest(ses', c, q)
    <3>1. HeadTaken(ses'.fed) = HeadSize(q) /\ ses'.pc # "recv" /\ H!CutFrom(ses'.fed, H!HeadOf(c, q)) /\ q.ok
      BY <1>4, <1>6, <1>9, <1>11 DEF HasRequest
    <3>2. /\ Len(ses'.body) <= Len(q.body) /\ \A j \in 1 .. Len(ses'.body) : ses'.body[j] = H!BodyOf(c, q)[j]
          /\ ses'.pc \in {"handle", "send"} => Len(ses'.body) = Len(q.body)
      BY <1>8, <1>9, <1>10, <1>11, <1>18 DEF l
    <3> QED
      BY <1>6, <3>1, <3>2 DEF HasRequest
  <2> QED
    BY <1>1, <1>3, <1>4, <1>9, <1>11, <1>20, <2>1 DEF TakenFits, q, c
<1>23. BytesFit'
  <2> DEFINE x == Cat(p, b)
  <2>1. x \in Seq(Token) /\ Cat(x, <<>>) = x
    BY <1>14, CatEmpty
  <2>2. Len(x) = AtToken'
    <3>1. AtToken' = HeadSize(q) + (Len(s) + k)
      BY <1>6, <1>10, <1>11 DEF AtToken
    <3>2. Len(x) = (HeadSize(q) + Len(s)) + k
      BY <1>13, <1>14
    <3> QED
      BY ONLY <1>6, <3>1, <3>2
  <2>3. Stream(OnTheWire(asked), Cat(Cat(Cat(x, <<>>), t), HeldBack), c)
    BY <1>15, <2>1
  <2> HIDE DEF x
  <2>4. \E z \in Seq(Token) : Len(z) = AtToken' /\ Stream(OnTheWire(asked), Cat(Cat(Cat(z, <<>>), t), HeldBack), c)
    BY <2>1, <2>2, <2>3
  <2> QED
    BY <1>1, <1>8, <1>11, <1>20, <2>4 DEF BytesFit, Coming, c
<1> QED
  BY <1>19, <1>21, <1>22, <1>23 DEF HttpInv

LEMMA HttpHandles ==
    ASSUME HttpInv, ~fate.lost, H!HandleRequest
    PROVE  HttpInv'
<1> DEFINE c == Current
           q == asked[c]
           g == [head |-> ses.fed, body |-> ses.body]
<1>1. /\ ses.pc = "handle" /\ served' = Append(served, g) /\ ses' = [ses EXCEPT !.pc = "send"]
      /\ UNCHANGED <<_is_keepAlive, net, asked, cli, said, fate>>
  BY DEF H!HandleRequest
<1>2. HttpTypeOK /\ ClientFits /\ GoesOn /\ ServedFits /\ TakenFits
  BY DEF HttpInv
<1>3. ses.fed # <<>> /\ ses.data = <<>>
  BY <1>1, <1>2 DEF TakenFits
<1>4. /\ ses \in Session /\ asked \in Seq(Request) /\ Len(asked) \in Nat
      /\ c \in 1 .. Len(asked) /\ q \in Request /\ HasRequest(ses, c, q)
  BY <1>1, <1>3, AtWork
<1>5. served \in Seq([head : Seq(Seq(Token)), body : Seq(Token)]) /\ Len(served) = Len(said) /\ said \in Seq({"keep-alive", "close"})
  BY <1>1, <1>2 DEF HttpTypeOK, ServedFits
<1>6. g \in [head : Seq(Seq(Token)), body : Seq(Token)] /\ g.head = ses.fed /\ g.body = ses.body
  BY <1>4 DEF Session
<1>7. KeptWhole(g, c, q)
  <2>1. ses.body = H!BodyOf(c, q)
    <3> DEFINE b == ses.body
               w == H!BodyOf(c, q)
    <3>1. w \in Seq(Token) /\ Len(w) = Len(q.body) /\ b \in Seq(Token)
      BY <1>4, BodyFacts DEF Session
    <3>2. Len(b) = Len(q.body) /\ \A k \in 1 .. Len(b) : b[k] = w[k]
      BY <1>1, <1>4 DEF HasRequest
    <3> HIDE DEF b, w
    <3>3. b = w
      BY ONLY <3>1, <3>2, SeqEqual
    <3> QED
      BY <3>3 DEF b, w
  <2> QED
    BY <1>1, <1>4, <1>6, <2>1 DEF HasRequest, KeptWhole
<1> HIDE DEF c, q, g
<1>8. /\ served' \in Seq([head : Seq(Seq(Token)), body : Seq(Token)]) /\ Len(served') = c /\ served'[c] = g
      /\ \A i \in 1 .. Len(served) : served'[i] = served[i]
  <2>1. c = Len(served) + 1
    BY <1>5 DEF c, Current
  <2> QED
    BY ONLY <1>1, <1>5, <1>6, <2>1
<1>9. ses' \in Session /\ ses'.pc = "send" /\ ses'.fed = ses.fed /\ ses'.body = ses.body /\ ses'.data = <<>>
  BY <1>1, <1>3, <1>4 DEF Session
<1>10. Current' = Current /\ HeldBack' = HeldBack /\ AtToken' = AtToken
  BY <1>1, <1>9 DEF Current, HeldBack, AtToken
<1>11. HttpTypeOK'
  BY <1>1, <1>2, <1>8, <1>9 DEF HttpTypeOK, Session
<1>12. ClientFits' /\ GoesOn'
  BY <1>1, <1>2, <1>9 DEF ClientFits, GoesOn
<1>13. ServedFits'
  <2>1. Len(served') <= Len(asked)
    BY <1>4, <1>8
  <2>2. \A i \in 1 .. Len(served') : KeptWhole(served'[i], i, asked[i])
    <3> TAKE i \in 1 .. Len(served')
    <3>1. i = c \/ i \in 1 .. Len(served)
      <4>1. c = Len(served) + 1 /\ Len(served) \in Nat
        BY <1>5 DEF c, Current
      <4> QED
        BY ONLY <1>8, <4>1, i \in 1 .. Len(served')
    <3>2. CASE i = c
      BY <1>7, <1>8, <3>2 DEF q
    <3>3. CASE i \in 1 .. Len(served)
      BY <1>2, <1>8, <3>3 DEF ServedFits
    <3> QED
      BY <3>1, <3>2, <3>3
  <2> QED
    BY <1>1, <1>8, <1>9, <1>10, <2>1, <2>2 DEF ServedFits, c
<1>14. TakenFits'
  <2>1. HasRequest(ses', c, q)
    BY <1>1, <1>4, <1>9 DEF HasRequest
  <2> QED
    BY <1>1, <1>3, <1>4, <1>9, <1>10, <2>1 DEF TakenFits, q, c
<1>15. BytesFit'
  BY <1>1, <1>3, <1>9, <1>10 DEF HttpInv, BytesFit, Coming
<1> QED
  BY <1>11, <1>12, <1>13, <1>14, <1>15 DEF HttpInv

LEMMA HttpAnswers ==
    ASSUME HttpInv, ~fate.lost, H!SendResponse
    PROVE  HttpInv'
<1> DEFINE c == Current
           q == asked[c]
           last == H!isClose(q) \/ ~_is_keepAlive
           a == H!Dump(last)
<1>1. ses.pc = "send" /\ UNCHANGED <<_is_keepAlive, net, asked, cli, served>>
  BY DEF H!SendResponse
<1>2. HttpTypeOK /\ ClientFits /\ GoesOn /\ ServedFits /\ TakenFits
  BY DEF HttpInv
<1>3. ses.fed # <<>> /\ ses.data = <<>>
  BY <1>1, <1>2 DEF TakenFits
<1>4. /\ ses \in Session /\ asked \in Seq(Request) /\ Len(asked) \in Nat /\ net \in Seq(Token) /\ HeldBack \in Seq(Token)
      /\ c \in 1 .. Len(asked) /\ q \in Request /\ HasRequest(ses, c, q) /\ H!Asked = q
      /\ OnTheWire(asked) \in Seq(Seq(Token)) /\ Len(OnTheWire(asked)) = Len(asked)
      /\ OnTheWire(asked)[c] = HttpTokens(c, q)
  BY <1>1, <1>3, AtWork
<1>5. CASE H!Close /\ UNCHANGED said
  BY <1>1, <1>4, <1>5, HttpCloses
<1>6. CASE /\ said' = Append(said, a) /\ UNCHANGED fate
           /\ ses' = IF last THEN [ses EXCEPT !.pc = "closed"] ELSE H!Recv
  <2>1. said \in Seq({"keep-alive", "close"}) /\ a \in {"keep-alive", "close"} /\ (last => a = "close") /\ (~last => a = "keep-alive" /\ _is_keepAlive)
    BY <1>2 DEF HttpTypeOK, H!Dump
  <2> HIDE DEF a, last, c, q
  <2>2. said' \in Seq({"keep-alive", "close"}) /\ Len(said') = c /\ said'[Len(said')] = a /\ said' # <<>> /\ c = Len(said) + 1
        /\ c \in Nat /\ Len(said) \in Nat
    BY <1>6, <2>1 DEF c, Current
  <2>3. ses' \in Session /\ (ses'.pc = "closed" \/ (ses'.pc = "recv" /\ ~last))
        /\ (last <=> ses'.pc = "closed")
    <3>1. CASE last
      BY <1>4, <1>6, <3>1 DEF Session
    <3>2. CASE ~last
      <4>1. ses' = [pc |-> "recv", data |-> <<>>, fed |-> <<>>, body |-> <<>>]
        BY <1>6, <3>2 DEF H!Recv
      <4> QED
        BY <3>2, <4>1 DEF Session
    <3> QED
      BY <3>1, <3>2
  <2>4. ~last => ses'.data = <<>> /\ ses'.fed = <<>> /\ ses'.body = <<>>
    BY <1>6 DEF H!Recv
  <2>5. HttpTypeOK'
    BY <1>1, <1>2, <1>6, <2>2, <2>3 DEF HttpTypeOK, Session
  <2>6. ClientFits'
    BY <1>1, <1>2, <1>4, <1>6, <2>2 DEF ClientFits
  <2>7. GoesOn'
    BY <1>1, <2>1, <2>2, <2>3 DEF GoesOn
  <2>8. ServedFits'
    <3>1. Len(served) = c
      BY <1>1, <1>2 DEF ServedFits, c
    <3> QED
      BY <1>1, <1>2, <1>6, <2>2, <2>3, <3>1 DEF ServedFits
  <2>9. TakenFits'
    BY <2>3, <2>4 DEF TakenFits
  <2>10. BytesFit'
    <3> SUFFICES ASSUME ~last
                 PROVE  \E x \in Seq(Token) : Len(x) = 0 /\ Stream(OnTheWire(asked), Cat(Cat(Cat(x, <<>>), net), HeldBack), c + 1)
      <4>1. Current' = c + 1 /\ HeldBack' = HeldBack
        BY <1>1, <2>2 DEF Current, HeldBack
      <4>2. ~last => AtToken' = 0
        BY <2>4 DEF AtToken, HeadTaken, H!End
      <4> QED
        BY <1>1, <2>3, <2>4, <4>1, <4>2 DEF BytesFit, Coming
    <3> DEFINE us == OnTheWire(asked)
               e == Cat(net, HeldBack)
    <3>1. PICK p \in Seq(Token) : Len(p) = AtToken /\ Stream(us, Cat(Cat(Cat(p, <<>>), net), HeldBack), c)
      BY <1>1, <1>3, Behind DEF c
    <3>2. e \in Seq(Token) /\ Cat(Cat(Cat(p, <<>>), net), HeldBack) = Cat(p, e)
      BY <1>4, CatSeq, CatEmpty, CatAssociative
    <3>3. Len(p) = Len(HttpTokens(c, q))
      <4>1. HeadTaken(ses.fed) = HeadSize(q) /\ Len(ses.body) = Len(q.body)
        BY <1>1, <1>4 DEF HasRequest
      <4>2. Len(HttpTokens(c, q)) = HeadSize(q) + Len(q.body)
        BY <1>4, <2>2, TokensFacts
      <4> QED
        BY <3>1, <4>1, <4>2 DEF AtToken
    <3>4. us \in Seq(Seq(Token)) /\ c \in 1 .. Len(us) /\ us[c] = HttpTokens(c, q) /\ Len(p) = Len(us[c])
      BY <1>4, <3>3
    <3> DEFINE w == p \o e
    <3>5. w \in Seq(Token) /\ Len(w) = Len(us[c]) + Len(e) /\ \A k \in 1 .. Len(e) : e[k] = w[Len(us[c]) + k]
      <4>1. w \in Seq(Token) /\ Len(w) = Len(p) + Len(e) /\ \A k \in 1 .. Len(e) : e[k] = w[Len(p) + k]
        BY ONLY <3>2, p \in Seq(Token)
      <4> QED
        BY <3>4, <4>1
    <3>6. Stream(us, w, c)
      BY <3>1, <3>2 DEF Cat
    <3> HIDE DEF us, e, w
    <3>7. Stream(us, e, c + 1)
      BY ONLY <3>2, <3>4, <3>5, <3>6, StreamRest
    <3>8. Cat(Cat(Cat(<<>>, <<>>), net), HeldBack) = e
      BY <1>4, CatNothing, CatEmpty DEF e
    <3> DEFINE z == <<>>
    <3>9. z \in Seq(Token) /\ Len(z) = 0
      OBVIOUS
    <3>10. Stream(us, Cat(Cat(Cat(z, <<>>), net), HeldBack), c + 1)
      BY <3>7, <3>8
    <3> HIDE DEF z
    <3> QED
      BY <3>9, <3>10 DEF us
  <2> QED
    BY <2>5, <2>6, <2>7, <2>8, <2>9, <2>10 DEF HttpInv
<1> QED
  BY <1>4, <1>5, <1>6 DEF H!SendResponse

LEMMA HttpClientAsks ==
    ASSUME HttpInv, ~fate.lost, NEW q \in Asks, H!ClientAsks(q)
    PROVE  HttpInv'
<1> DEFINE N == Len(asked)
           h == H!HeadOf(N + 1, q)
           b == H!BodyOf(N + 1, q)
           u == HttpTokens(N + 1, q)
           now == IF q.expect THEN <<>> ELSE b
           later == IF q.expect THEN b ELSE <<>>
           to == IF q.expect THEN "body" ELSE "answer"
           again == cli.piped \/ Len(said) < Len(asked)
<1>1. /\ cli.pc # "body" /\ asked' = Append(asked, q) /\ net' = (net \o h) \o now
      /\ cli' = [pc |-> to, piped |-> again]
      /\ UNCHANGED <<_is_keepAlive, ses, served, said, fate>>
  BY DEF H!ClientAsks
<1>2. HttpTypeOK /\ ClientFits /\ GoesOn /\ ServedFits /\ TakenFits /\ BytesFit
  BY DEF HttpInv
<1>3. /\ asked \in Seq(Request) /\ N \in Nat /\ net \in Seq(Token) /\ cli \in [pc : {"idle", "body", "answer"}, piped : BOOLEAN]
      /\ said \in Seq({"keep-alive", "close"}) /\ Len(said) \in Nat /\ ses \in Session
      /\ served \in Seq([head : Seq(Seq(Token)), body : Seq(Token)]) /\ Len(served) \in Nat
  BY <1>2 DEF HttpTypeOK, Session
<1>4. q \in Request
  BY RequestsAssumption DEF Request
<1>5. h \in Seq(Token) /\ b \in Seq(Token)
  <2>1. N + 1 \in Nat
    BY <1>3
  <2>2. h \in Seq(Token)
    BY <1>4, <2>1, HeadFacts
  <2> QED
    BY <1>4, <2>1, <2>2, BodyFacts
<1>6. u = Cat(h, b) /\ u \in Seq(Token)
  BY <1>5, CatSeq DEF HttpTokens, Cat
<1>7. now \in Seq(Token) /\ later \in Seq(Token) /\ Cat(now, later) = b
  <2>1. Cat(<<>>, b) = b /\ Cat(b, <<>>) = b /\ <<>> \in Seq(Token)
    BY <1>5, CatEmpty
  <2> QED
    BY <1>5, <2>1
<1>8. OnTheWire(asked') = Append(OnTheWire(asked), u)
  BY <1>1, <1>3, <1>4, WireGrows
<1>9. q.expect \in BOOLEAN /\ to \in {"body", "answer"} /\ (to = "body" <=> q.expect) /\ again \in BOOLEAN
  BY <1>3, <1>4 DEF Request
<1>10. /\ asked' \in Seq(Request) /\ Len(asked') = N + 1 /\ asked'[N + 1] = q
       /\ \A r \in 1 .. N : asked'[r] = asked[r]
  BY <1>1, <1>3, <1>4
<1>11. HeldBack' = later
  <2>1. cli'.pc = to
    BY <1>1
  <2> QED
    BY <1>9, <1>10, <2>1 DEF HeldBack
<1> HIDE DEF h, b, u, now, later, to, again
<1>12. net' = Cat(Cat(net, h), now) /\ net' \in Seq(Token)
  BY <1>1, <1>3, <1>5, <1>7, CatSeq DEF Cat
<1>13. cli' \in [pc : {"idle", "body", "answer"}, piped : BOOLEAN] /\ cli'.pc = to /\ cli'.piped = again
  BY <1>1, <1>9
<1>14. HttpTypeOK'
  BY <1>1, <1>2, <1>10, <1>12, <1>13 DEF HttpTypeOK
<1>15. ClientFits'
  <2>1. asked' # <<>> /\ Len(said) <= N
    BY <1>2, <1>3, <1>10 DEF ClientFits
  <2>2. N + 1 <= Len(said) + 1 \/ again
    BY <1>3 DEF again
  <2>3. fate.lost => again
    BY <1>2 DEF ClientFits, again
  <2> QED
    BY <1>1, <1>3, <1>10, <1>13, <2>1, <2>2, <2>3 DEF ClientFits
<1>16. GoesOn'
  BY <1>1, <1>2 DEF GoesOn
<1>17. Current' = Current
  BY <1>1 DEF Current
<1>18. ServedFits'
  <2>1. Len(served) <= N + 1 /\ \A i \in 1 .. Len(served) : i \in 1 .. N
    BY <1>2, <1>3 DEF ServedFits
  <2>2. \A i \in 1 .. Len(served) : asked'[i] = asked[i]
    BY <1>10, <2>1
  <2> QED
    BY <1>1, <1>2, <1>10, <1>17, <2>1, <2>2 DEF ServedFits
<1>19. TakenFits'
  <2>1. ASSUME ~fate.lost, ses.pc # "closed", ses.fed # <<>>
        PROVE  Current <= N + 1 /\ HasRequest(ses, Current, asked'[Current])
    <3>1. Current <= N /\ HasRequest(ses, Current, asked[Current])
      BY <1>2, <2>1 DEF TakenFits
    <3>2. Current \in 1 .. N
      BY <1>3, <3>1 DEF Current
    <3> QED
      BY <1>3, <1>10, <3>1, <3>2
  <2> QED
    BY <1>1, <1>2, <1>10, <1>17, <2>1 DEF TakenFits
<1>20. BytesFit'
  <2> SUFFICES ASSUME ses.pc # "closed"
               PROVE  \E x \in Seq(Token) : Len(x) = AtToken /\ Stream(OnTheWire(asked'), Cat(Cat(Cat(x, ses.data), net'), later), Current)
    <3>1. AtToken' = AtToken
      BY <1>1 DEF AtToken
    <3> QED
      BY <1>1, <1>11, <1>17, <3>1 DEF BytesFit, Coming
  <2>1. PICK p \in Seq(Token) : Len(p) = AtToken /\ Stream(OnTheWire(asked), Cat(Cat(Cat(p, ses.data), net), HeldBack), Current)
    BY Behind
  <2>2. HeldBack = <<>>
    BY <1>1 DEF HeldBack
  <2> DEFINE v == Cat(p, ses.data)
             w == Cat(v, net)
             us == OnTheWire(asked)
  <2>3. v \in Seq(Token)
    BY <1>3, CatSeq DEF Session
  <2> HIDE DEF v
  <2>4. w \in Seq(Token) /\ Cat(w, <<>>) = w
    BY <1>3, <2>3, CatSeq, CatEmpty
  <2>5. Stream(us, w, Current) /\ us \in Seq(Seq(Token)) /\ Current \in 1 .. (Len(us) + 1)
    BY <2>1, <2>2, <2>4, AtWork DEF v
  <2> HIDE DEF us, w
  <2>6. Stream(Append(us, u), w \o u, Current)
    BY ONLY <1>6, <2>4, <2>5, StreamGrows
  <2>7. Cat(Cat(v, net'), later) = Cat(w, u)
    <3>1. Cat(net, h) \in Seq(Token) /\ Cat(v, Cat(net, h)) \in Seq(Token) /\ Cat(v, net) \in Seq(Token)
      BY <1>3, <1>5, <2>3, CatSeq
    <3>2. Cat(v, net') = Cat(Cat(v, Cat(net, h)), now)
      BY ONLY <1>7, <1>12, <2>3, <3>1, CatAssociative
    <3>3. Cat(v, Cat(net, h)) = Cat(Cat(v, net), h)
      BY ONLY <1>3, <1>5, <2>3, CatAssociative
    <3>4. Cat(Cat(Cat(v, Cat(net, h)), now), later) = Cat(Cat(v, Cat(net, h)), Cat(now, later))
      BY ONLY <1>7, <3>1, CatAssociative
    <3>5. Cat(Cat(Cat(v, net), h), b) = Cat(Cat(v, net), Cat(h, b))
      BY ONLY <1>5, <3>1, CatAssociative
    <3> QED
      BY <1>6, <1>7, <3>2, <3>3, <3>4, <3>5 DEF w
  <2>8. Stream(OnTheWire(asked'), Cat(Cat(v, net'), later), Current)
    BY <1>8, <2>6, <2>7 DEF us, Cat
  <2> QED
    BY <2>1, <2>8 DEF v
<1> QED
  BY <1>14, <1>15, <1>16, <1>18, <1>19, <1>20 DEF HttpInv

LEMMA HttpInvNext == HttpPartInv /\ [Next]_vars => HttpPartInv'
<1> SUFFICES ASSUME HttpInv, (~fate.lost /\ H!HttpNext) \/ UNCHANGED httpVars
             PROVE  HttpInv'
  BY HttpFrame DEF HttpPartInv
<1>1. CASE UNCHANGED httpVars
  BY <1>1 DEF httpVars, HttpInv, HttpTypeOK, ClientFits, GoesOn, ServedFits, TakenFits, BytesFit, Coming, AtToken, HeldBack, Current
<1>2. CASE ~fate.lost /\ H!RecvFails
  <2>1. H!Close /\ UNCHANGED <<_is_keepAlive, net, asked, cli, served, said>> /\ net \in Seq(Token)
    BY <1>2 DEF H!RecvFails, HttpInv, HttpTypeOK
  <2> QED
    BY <2>1, HttpCloses
<1> QED
  BY <1>1, <1>2, HttpClientAsks, HttpReads, HttpBody, HttpContinues, HttpReadsBody, HttpHandles, HttpAnswers DEF H!HttpNext

LEMMA HttpKept == HttpPartInv => RequestsKept
<1> SUFFICES ASSUME HttpInv PROVE H!RequestsKept
  BY DEF HttpPartInv, RequestsKept
<1>1. HttpTypeOK /\ ClientFits /\ GoesOn /\ ServedFits
  BY DEF HttpInv
<1>2. ASSUME ~fate.lost, NEW i \in 1 .. Len(served)
      PROVE  /\ H!CutFrom(served[i].head, H!HeadOf(i, asked[i]))
             /\ H!End(served[i].head, Len(served[i].head)) = Len(H!HeadOf(i, asked[i]))
             /\ served[i].body = H!BodyOf(i, asked[i]) /\ asked[i].ok
  <2>1. KeptWhole(served[i], i, asked[i])
    BY <1>1, <1>2 DEF ServedFits
  <2>2. i \in Nat /\ i \in 1 .. Len(asked)
    BY <1>1 DEF ServedFits, HttpTypeOK
  <2>3. asked[i] \in Request
    BY <1>1, <2>2 DEF HttpTypeOK
  <2>4. Len(H!HeadOf(i, asked[i])) = HeadSize(asked[i])
    BY <2>2, <2>3, HeadFacts
  <2> QED
    BY <2>1, <2>4 DEF KeptWhole, HeadTaken
<1>3. ASSUME said # <<>>, ~fate.faulty, ses.pc \in {"recv", "closed"}
      PROVE  (ses.pc = "closed" <=> said[Len(said)] = "close") /\ (~_is_keepAlive => ses.pc = "closed")
  BY <1>1, <1>3 DEF GoesOn
<1> QED
  BY <1>1, <1>2, <1>3 DEF H!RequestsKept, ClientFits

\* The servlets get the requests that were sent, whole, in order and each with its body,
\* however the bytes arrive (HttpRequestParser::Execute(), HttpSession::RecvRequest() and
\* SendResponse()): for any requests, sizes of buffer and body, and any client.
THEOREM RequestsAreKept == Spec => []RequestsKept
<1>1. Init => HttpPartInv
  BY HttpInvInit DEF HttpPartInv
<1> QED
  BY <1>1, HttpInvNext, HttpKept, PTL DEF Spec
=============================================================================
