------------------------------ MODULE TcpServer ------------------------------
(***************************************************************************)
(* TcpServer (tcp_server.cpp): listening sockets, one accept loop each on  *)
(* the accept scheduler, and Stop(), whose work is done by a callback on   *)
(* that scheduler.  A connection is handed to the I/O scheduler, with TLS  *)
(* after a handshake that the accept loop waits for.                       *)
(***************************************************************************)
EXTENDS Integers, Sequences, FiniteSets

CONSTANTS Addrs,        \* the addresses of one Bind() call
          MaxBinds,     \* bound: calls of Bind()
          MaxStarts,    \* bound: calls of Start()
          MaxClients    \* bound: connections

VARIABLES _acceptWorker,    \* the accept scheduler's threads: "one" or "many"
          _listenSockets,   \* the sockets, numbered in the order they were made
          open,             \* the sockets that Close() has not closed
          _isStop,
          loop,             \* accept loops: <<start, socket>> -> where it is
          stops,            \* Stop() callbacks that are not over
          closing,          \* the callback under way: [at, left]
          backlog,          \* socket -> connections waiting
          done              \* history: [binds, starts, clients, had, dropped, early, torn]

tcpVars == <<_acceptWorker, _listenSockets, open, _isStop, loop, stops, closing, backlog, done>>

\* A server's sockets are numbered through: a bound for their number.
Socks == 1 .. (Cardinality(Addrs) * MaxBinds)
Loops == DOMAIN loop

\* The sockets' vector has no lock: what happens to it while a callback goes through it
\* is undefined (Torn), and nothing is said from there on.
Torn ==
    /\ closing.at # "none"
    /\ done.binds < MaxBinds \/ (_isStop /\ done.starts < MaxStarts) \/ (_acceptWorker = "many" /\ stops > 1)
    /\ done' = [done EXCEPT !.torn = TRUE]
    /\ UNCHANGED <<_acceptWorker, _listenSockets, open, _isStop, loop, stops, closing, backlog>>

\* Bind(): a socket for each address; one that fails drops them all, also those
\* that an earlier call made.  A loop keeps the socket it listens to.
Bind ==
    /\ done.binds < MaxBinds /\ closing.at = "none"
    /\ \E fails \in SUBSET Addrs :
          LET first == Cardinality(Addrs) * done.binds
              new == (first + 1) .. (first + Cardinality(Addrs))
          IN  /\ open' = open \cup new
              /\ IF fails # {}
                 THEN _listenSockets' = {} /\ done' = [done EXCEPT !.binds = @ + 1, !.dropped = @ \cup _listenSockets]
                 ELSE _listenSockets' = _listenSockets \cup new /\ done' = [done EXCEPT !.binds = @ + 1]
    /\ UNCHANGED <<_acceptWorker, _isStop, loop, stops, closing, backlog>>

\* A loop for every socket.
Begin ==
    /\ _isStop' = FALSE
    /\ loop' = [x \in Loops \cup ({done.starts + 1} \X _listenSockets) |-> IF x \in Loops THEN loop[x] ELSE "test"]
    /\ done' = [done EXCEPT !.starts = @ + 1, !.had = _listenSockets, !.early = stops]
    /\ UNCHANGED <<_acceptWorker, _listenSockets, open, stops, closing, backlog>>
\* A mutant of Start(): it does not look whether the server runs.
StartAgain == done.starts < MaxStarts /\ closing.at = "none" /\ Begin
Start == done.starts < MaxStarts /\ closing.at = "none" /\ _isStop /\ Begin

Stop ==
    /\ ~_isStop /\ _isStop' = TRUE /\ stops' = stops + 1
    /\ UNCHANGED <<_acceptWorker, _listenSockets, open, loop, closing, backlog, done>>

-----------------------------------------------------------------------------
(* The callback: for each socket CancelAll(), which wakes its loop, the same *)
(* again in close(), and close_f(), after which nothing wakes the loop.      *)
Turn(s) == s \in closing.left /\ \A t \in closing.left : s <= t

StopBegins ==
    /\ stops > 0 /\ closing.at = "none" /\ closing' = [at |-> "cancel", left |-> _listenSockets]
    /\ UNCHANGED <<_acceptWorker, _listenSockets, open, _isStop, loop, stops, backlog, done>>
CancelAll ==
    /\ closing.at \in {"cancel", "again"}
    /\ \E s \in closing.left :
          /\ Turn(s)
          /\ loop' = [x \in Loops |-> IF x[2] = s /\ loop[x] = "held" THEN "accept" ELSE loop[x]]
    /\ closing' = [closing EXCEPT !.at = IF @ = "cancel" THEN "again" ELSE "close"]
    /\ UNCHANGED <<_acceptWorker, _listenSockets, open, _isStop, stops, backlog, done>>
\* A mutant of Close(): the socket is forgotten and not closed.
CloseForgets ==
    /\ closing.at = "close"
    /\ \E s \in closing.left : Turn(s) /\ closing' = [at |-> "cancel", left |-> closing.left \ {s}]
    /\ UNCHANGED <<_acceptWorker, _listenSockets, open, _isStop, loop, stops, backlog, done>>
Close ==
    /\ closing.at = "close"
    /\ \E s \in closing.left :
          /\ Turn(s) /\ closing' = [at |-> "cancel", left |-> closing.left \ {s}]
          /\ open' = open \ {s} /\ backlog' = [backlog EXCEPT ![s] = 0]
    /\ UNCHANGED <<_acceptWorker, _listenSockets, _isStop, loop, stops, done>>
StopDone ==
    /\ closing.at = "cancel" /\ closing.left = {} /\ closing' = [closing EXCEPT !.at = "none"]
    /\ stops' = stops - 1 /\ _listenSockets' = {}
    /\ UNCHANGED <<_acceptWorker, open, _isStop, loop, backlog, done>>

-----------------------------------------------------------------------------
(* startAccept().  The callback holds the only thread of a scheduler that    *)
(* has no other.                                                             *)
MayRun == _acceptWorker = "many" \/ closing.at = "none"
Goes(x, to) == MayRun /\ loop' = [loop EXCEPT ![x] = to]

\* _isStop is tested before each accept().
AcceptTest(x) ==
    /\ loop[x] = "test" /\ Goes(x, IF _isStop THEN "ended" ELSE "accept")
    /\ UNCHANGED <<_acceptWorker, _listenSockets, open, _isStop, stops, closing, backlog, done>>
\* An accept() that fails, on a socket that is closed too, only goes round again, and so
\* does one whose connection goes to the I/O scheduler; without a connection the fiber
\* waits for one, and with TLS, which any server may have, for the handshake.
Accept(x) ==
    /\ loop[x] = "accept"
    /\ \/ x[2] \notin open /\ Goes(x, "test") /\ UNCHANGED backlog
       \/ x[2] \in open /\ backlog[x[2]] = 0 /\ Goes(x, "held") /\ UNCHANGED backlog
       \/ /\ x[2] \in open /\ backlog[x[2]] > 0 /\ backlog' = [backlog EXCEPT ![x[2]] = @ - 1]
          /\ Goes(x, "test") \/ Goes(x, "handshake")
    /\ UNCHANGED <<_acceptWorker, _listenSockets, open, _isStop, stops, closing, done>>
\* A connection wakes the loop; the fiber calls accept() again, without a test.
AcceptWakes(x) ==
    /\ loop[x] = "held" /\ x[2] \in open /\ backlog[x[2]] > 0 /\ Goes(x, "accept")
    /\ UNCHANGED <<_acceptWorker, _listenSockets, open, _isStop, stops, closing, backlog, done>>
\* SSL_accept() returns when the client answers or leaves: it has no timeout yet.
Handshake(x) ==
    /\ loop[x] = "handshake" /\ Goes(x, "test")
    /\ UNCHANGED <<_acceptWorker, _listenSockets, open, _isStop, stops, closing, backlog, done>>

ClientConnects ==
    /\ done.clients < MaxClients
    /\ \E s \in open : backlog' = [backlog EXCEPT ![s] = @ + 1]
    /\ done' = [done EXCEPT !.clients = @ + 1]
    /\ UNCHANGED <<_acceptWorker, _listenSockets, open, _isStop, loop, stops, closing>>

TcpInit ==
    /\ _acceptWorker \in {"one", "many"}
    /\ _listenSockets = {} /\ open = {} /\ _isStop = TRUE
    /\ loop = [x \in {} |-> "test"] /\ stops = 0 /\ closing = [at |-> "none", left |-> {}]
    /\ backlog = [s \in Socks |-> 0]
    /\ done = [binds |-> 0, starts |-> 0, clients |-> 0, had |-> {}, dropped |-> {}, early |-> 0, torn |-> FALSE]

Callback == StopBegins \/ CancelAll \/ Close \/ StopDone
TcpNext == /\ ~done.torn
           /\ \/ Bind \/ Start \/ Stop \/ Torn \/ Callback \/ ClientConnects
              \/ \E x \in Loops : AcceptTest(x) \/ Accept(x) \/ AcceptWakes(x) \/ Handshake(x)

\* Fairness: the accept scheduler runs what it is given: a stopped server's callback
\* (Callback), its loops' test and their accept() on a closed socket.  Nobody need
\* connect, or answer a handshake.
LoopTests == \E x \in Loops : loop[x] = "test" /\ _isStop /\ AcceptTest(x)
AcceptEnds == \E x \in Loops : x[2] \notin open /\ Accept(x)

-----------------------------------------------------------------------------
\* While the server runs, also again after a Stop(), each socket that it has and had when
\* it was started is open and has one accept loop, whatever callbacks of Stop() ran in
\* between; and it has all of those that no failing Bind() dropped, unless Start()
\* came before the callback of an earlier Stop(), which takes them from the running server.
ListenersSound ==
    ~_isStop /\ ~done.torn =>
       /\ stops = 0 => \A s \in _listenSockets \cap done.had :
                          s \in open /\ Cardinality({x \in Loops : x[2] = s /\ loop[x] # "ended"}) = 1
       /\ done.early = 0 => done.had \ done.dropped \subseteq _listenSockets

\* Stop() ends the accept loops, unless Start() follows.  Left over may be the loop that
\* waits for the handshake of a silent client; one whose socket a failing Bind()
\* dropped; and, where the accept scheduler has several threads, one that called accept()
\* again between the last CancelAll() and close_f().
LeftOver(x) == \/ loop[x] = "handshake"
               \/ x[2] \in done.dropped
               \/ _acceptWorker = "many" /\ loop[x] = "held" /\ x[2] \notin open
StopEnds == (_isStop /\ done.starts > 0) ~> ((\A x \in Loops : loop[x] = "ended" \/ LeftOver(x)) \/ ~_isStop \/ done.torn)
=============================================================================
