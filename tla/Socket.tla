-------------------------------- MODULE Socket --------------------------------
(***************************************************************************)
(* Socket objects (socket.cpp) and the descriptors of the process.  Fibers *)
(* on several threads share an object: one connects, reads or writes while *)
(* another closes it.  The kernel gives a closed descriptor's number to    *)
(* whoever opens the next one, here also to the rest of the program.       *)
(***************************************************************************)
EXTENDS Integers, FiniteSets, FiniteSetsExt

CONSTANTS Socks,        \* the Socket objects
          Secure,       \* the ones that are SSLSockets
          Udp,          \* the ones that CreateUDP() makes
          Fibers,       \* the fibers that share them
          NumFds,       \* bound: descriptors of the process
          MaxOpens      \* bound: descriptors ever opened

VARIABLES sock,         \* object -> [_sockfd, _isConnect, _localAddress, _peerAddress, ssl]
          kern,         \* descriptor -> [who, gen, est, lst], who = "free" when closed
          fib,          \* fiber -> [pc, s, fd]
          opened,       \* descriptors ever opened; each has its own local address
          seen          \* history: [foreign, late, stale]

sockVars == <<sock, kern, fib, opened, seen>>

Fds == 1 .. NumFds
Closed == [who |-> "free", gen |-> 0, est |-> FALSE, lst |-> FALSE]
NoSocket == [_sockfd |-> -1, _isConnect |-> FALSE, _localAddress |-> 0, _peerAddress |-> 0, ssl |-> -1]
AtRest == [pc |-> "idle", s |-> "none", fd |-> -1]

isValid(s) == sock[s]._sockfd # -1
Free == {f \in Fds : kern[f].who = "free"}
CanOpen == Free # {} /\ opened < MaxOpens
\* socket() and accept() give the lowest number that is free.
Open(who, est) == [kern EXCEPT ![Min(Free)] = [who |-> who, gen |-> opened + 1, est |-> est, lst |-> FALSE]]

\* The kernel's address of a descriptor, unless the object has one already.
GetLocalAddress(o, k) == IF o._localAddress # 0 \/ o._sockfd = -1 THEN o ELSE [o EXCEPT !._localAddress = k[o._sockfd].gen]
GetPeerAddress(o) == IF o._peerAddress # 0 THEN o ELSE [o EXCEPT !._peerAddress = 1]

\* What a system call on a number does to others: nothing when it is the object's own.
Touched(s, fd) == fd \in Fds /\ kern[fd].who \notin {s, "free"}

\* A call of an object begins while another fiber closes it, or a Close() while
\* another fiber is inside a call.
Late(s, pcs) == seen.late \/ \E v \in Fibers : fib[v].s = s /\ fib[v].pc \in pcs

Go(u, pc, s, fd) == fib' = [fib EXCEPT ![u] = [pc |-> pc, s |-> s, fd |-> fd]]

-----------------------------------------------------------------------------
(* newSocket(), or no descriptor is left. *)
NewSocket(s) ==
    \/ /\ CanOpen
       /\ kern' = Open(s, FALSE) /\ opened' = opened + 1
       /\ sock' = [sock EXCEPT ![s]._sockfd = Min(Free), ![s]._isConnect = s \in Udp]
    \/ /\ Free = {}
       /\ sock' = [sock EXCEPT ![s]._sockfd = -1, ![s]._isConnect = s \in Udp] /\ UNCHANGED <<kern, opened>>

\* CreateUDP(): at once, connected or not.
CreateUDP(u, s) ==
    /\ fib[u].pc = "idle" /\ s \in Udp /\ sock[s] = NoSocket
    /\ NewSocket(s) /\ UNCHANGED <<fib, seen>>

\* Bind() and Listen(): the descriptor is made when there is none; a failure leaves it.
BindListen(u, s) ==
    /\ fib[u].pc = "idle" /\ s \notin Udp
    /\ \/ ~isValid(s) /\ NewSocket(s)
       \/ /\ isValid(s) /\ kern[sock[s]._sockfd].who = s /\ ~kern[sock[s]._sockfd].est
          /\ sock' = [sock EXCEPT ![s] = GetLocalAddress(@, kern)]
          /\ kern' = [kern EXCEPT ![sock[s]._sockfd].lst = TRUE]
          /\ UNCHANGED opened
    /\ UNCHANGED <<fib, seen>>

\* Connect(): the peer is kept first, the descriptor made when there is none.
Connect(u, s) ==
    /\ fib[u].pc = "idle" /\ s \notin Udp
    /\ IF isValid(s)
       THEN /\ sock' = [sock EXCEPT ![s]._peerAddress = 1]
            /\ Go(u, "connecting", s, sock[s]._sockfd)
            /\ UNCHANGED <<kern, opened>>
       ELSE /\ CanOpen
            /\ kern' = Open(s, FALSE) /\ opened' = opened + 1
            /\ sock' = [sock EXCEPT ![s]._peerAddress = 1, ![s]._sockfd = Min(Free)]
            /\ Go(u, "connecting", s, Min(Free))
    /\ seen' = [seen EXCEPT !.stale = @ \cup IF sock[s]._localAddress = 0 THEN {} ELSE {s},
                            !.late = Late(s, {"closing", "forget"})]

\* A mutant of ReConnect(): the local address is kept.
ReConnectKept(u, s) ==
    /\ fib[u].pc = "idle" /\ s \notin Udp /\ sock[s]._peerAddress # 0 /\ ~isValid(s) /\ CanOpen
    /\ kern' = Open(s, FALSE) /\ opened' = opened + 1
    /\ sock' = [sock EXCEPT ![s]._sockfd = Min(Free)]
    /\ Go(u, "connecting", s, Min(Free))
    /\ seen' = [seen EXCEPT !.stale = @ \ {s}]

\* ReConnect(): the local address is forgotten first.
ReConnect(u, s) ==
    /\ fib[u].pc = "idle" /\ s \notin Udp /\ sock[s]._peerAddress # 0 /\ ~isValid(s) /\ CanOpen
    /\ kern' = Open(s, FALSE) /\ opened' = opened + 1
    /\ sock' = [sock EXCEPT ![s]._localAddress = 0, ![s]._sockfd = Min(Free)]
    /\ Go(u, "connecting", s, Min(Free))
    /\ seen' = [seen EXCEPT !.stale = @ \ {s}]

\* connect() answers; a descriptor that was closed meanwhile or has a connection
\* answers with an error, and Close() follows.
Connected(u) ==
    /\ fib[u].pc = "connecting"
    /\ LET s == fib[u].s fd == fib[u].fd
       IN  /\ kern[fd].who = s /\ ~kern[fd].est /\ ~kern[fd].lst
           /\ kern' = [kern EXCEPT ![fd].est = TRUE]
           /\ sock' = [sock EXCEPT ![s] = GetPeerAddress(GetLocalAddress([@ EXCEPT !._isConnect = TRUE], kern))]
           /\ Go(u, IF s \in Secure THEN "handshake" ELSE "idle", IF s \in Secure THEN s ELSE "none", -1)
    /\ UNCHANGED <<opened, seen>>
NotConnected(u) ==
    /\ fib[u].pc = "connecting"
    /\ Go(u, "close", fib[u].s, -1)
    /\ UNCHANGED <<sock, kern, opened, seen>>

\* SSL_set_fd() and SSL_connect(): when the handshake fails, false is returned and
\* the connection is left as it is.
Handshake(u) ==
    /\ fib[u].pc = "handshake"
    /\ sock' = [sock EXCEPT ![fib[u].s].ssl = sock[fib[u].s]._sockfd]
    /\ fib' = [fib EXCEPT ![u] = AtRest]
    /\ UNCHANGED <<kern, opened, seen>>

\* init() of an accepted descriptor; the SSL structure is made for it as well.
init(fd) == [_sockfd |-> fd, _isConnect |-> TRUE, _localAddress |-> opened + 1, _peerAddress |-> 1, ssl |-> -1]
initSSL(fd) == [init(fd) EXCEPT !.ssl = fd]

\* accept() on the descriptor of s gives one to the new object n.
Accepting(u, s, n) ==
    /\ fib[u].pc = "idle" /\ isValid(s) /\ n # s /\ sock[n] = NoSocket /\ n \notin Udp
    /\ \A v \in Fibers : fib[v].s # n
    /\ kern[sock[s]._sockfd].who = s /\ kern[sock[s]._sockfd].lst /\ CanOpen
    /\ opened' = opened + 1
    /\ UNCHANGED <<fib, seen>>
Accept(u, s, n) ==
    /\ Accepting(u, s, n) /\ s \notin Secure /\ n \notin Secure
    /\ kern' = Open(n, TRUE) /\ sock' = [sock EXCEPT ![n] = init(Min(Free))]
\* A handshake that fails drops the new object, which closes its descriptor.
AcceptSSL(u, s, n) ==
    /\ Accepting(u, s, n) /\ s \in Secure /\ n \in Secure
    /\ \/ kern' = Open(n, TRUE) /\ sock' = [sock EXCEPT ![n] = initSSL(Min(Free))]
       \/ UNCHANGED <<kern, sock>>

-----------------------------------------------------------------------------
\* Recv(), Send() and their variants: _isConnect is tested, then the number used; an
\* SSLSocket tests that it has an SSL structure, and uses the number in it.
Transfer(u, s) ==
    /\ fib[u].pc = "idle"
    /\ IF s \in Secure THEN sock[s].ssl # -1 ELSE sock[s]._isConnect
    /\ Go(u, "transfer", s, -1)
    /\ seen' = [seen EXCEPT !.late = Late(s, {"closing", "forget"})]
    /\ UNCHANGED <<sock, kern, opened>>
Transferred(u) ==
    /\ fib[u].pc = "transfer"
    /\ LET s == fib[u].s fd == IF s \in Secure THEN sock[s].ssl ELSE sock[s]._sockfd
       IN  seen' = IF ~Touched(s, fd) THEN seen
                   ELSE [seen EXCEPT !.foreign = @ \cup {IF s \in Secure /\ sock[s]._sockfd # fd THEN "ssl" ELSE "transfer"}]
    /\ fib' = [fib EXCEPT ![u] = AtRest]
    /\ UNCHANGED <<sock, kern, opened>>

\* CheckConnected(): what the kernel says.
CheckConnected(u, s) ==
    /\ fib[u].pc = "idle" /\ isValid(s) /\ s \notin Udp
    /\ sock' = [sock EXCEPT ![s]._isConnect = kern[sock[s]._sockfd].est]
    /\ UNCHANGED <<kern, fib, opened, seen>>

\* Close(): the number is read and tested, closed, and then taken out of the object.
Close(u, s) ==
    /\ fib[u].pc \in {"idle", "close"} /\ (fib[u].pc = "close" => s = fib[u].s)
    /\ sock' = [sock EXCEPT ![s]._isConnect = FALSE]
    /\ IF isValid(s) THEN Go(u, "closing", s, sock[s]._sockfd) ELSE fib' = [fib EXCEPT ![u] = AtRest]
    /\ seen' = [seen EXCEPT !.late = Late(s, {"connecting", "handshake", "transfer", "closing", "forget"})]
    /\ UNCHANGED <<kern, opened>>
CloseFd(u) ==
    /\ fib[u].pc = "closing"
    /\ kern' = [kern EXCEPT ![fib[u].fd] = Closed]
    /\ seen' = [seen EXCEPT !.foreign = @ \cup IF Touched(fib[u].s, fib[u].fd) THEN {"close"} ELSE {}]
    /\ Go(u, "forget", fib[u].s, -1)
    /\ UNCHANGED <<sock, opened>>
CloseForget(u) ==
    /\ fib[u].pc = "forget"
    /\ sock' = [sock EXCEPT ![fib[u].s]._sockfd = -1]
    /\ fib' = [fib EXCEPT ![u] = AtRest]
    /\ UNCHANGED <<kern, opened, seen>>

\* The rest of the program opens and closes files.
OtherOpens == CanOpen /\ kern' = Open("other", FALSE) /\ opened' = opened + 1 /\ UNCHANGED <<sock, fib, seen>>
OtherCloses == \E f \in Fds : kern[f].who = "other" /\ kern' = [kern EXCEPT ![f] = Closed] /\ UNCHANGED <<sock, fib, opened, seen>>

SockInit ==
    /\ sock = [s \in Socks |-> NoSocket]
    /\ kern = [f \in Fds |-> Closed]
    /\ fib = [u \in Fibers |-> AtRest]
    /\ opened = 0
    /\ seen = [foreign |-> {}, late |-> FALSE, stale |-> {}]

SockNext ==
    \/ \E u \in Fibers :
          \/ Connected(u) \/ NotConnected(u) \/ Handshake(u) \/ Transferred(u) \/ CloseFd(u) \/ CloseForget(u)
          \/ \E s \in Socks : \/ CreateUDP(u, s) \/ BindListen(u, s) \/ Connect(u, s) \/ ReConnect(u, s)
                              \/ Transfer(u, s) \/ CheckConnected(u, s) \/ Close(u, s)
                              \/ \E n \in Socks : Accept(u, s, n) \/ AcceptSSL(u, s, n)
    \/ OtherOpens \/ OtherCloses

-----------------------------------------------------------------------------
Resting(s) == \A u \in Fibers : fib[u].s # s

\* An object only reads, writes and closes descriptors that were opened for it,
\* and while nobody is inside one of its calls every descriptor opened for it is
\* the one it holds: none is lost, none is closed twice.  Two things break it: a
\* fiber that closes while another is inside a call of the same object (the number
\* is tested, closed and forgotten in three steps), and an SSLSocket used after
\* Close(), whose SSL structure keeps the number.  A connected socket's local address is
\* its descriptor's, unless it was closed and then connected with Connect() instead
\* of ReConnect().
SocketSound ==
    /\ seen.foreign \subseteq {"ssl"} \/ seen.late
    /\ ~seen.late => \A s \in Socks : Resting(s) => {f \in Fds : kern[f].who = s} = IF isValid(s) THEN {sock[s]._sockfd} ELSE {}
    /\ ~seen.late => \A s \in Socks \ seen.stale : Resting(s) /\ sock[s]._isConnect /\ isValid(s) /\ s \notin Udp =>
                        sock[s]._localAddress = kern[sock[s]._sockfd].gen
=============================================================================
