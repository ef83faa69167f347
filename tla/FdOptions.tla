----------------------------- MODULE FdOptions -----------------------------
(***************************************************************************)
(* The options of descriptors behind the hooked calls (hook.cpp,           *)
(* fdmanager.cpp): a managed socket is non-blocking in the kernel, and its *)
(* FdCtx keeps what the user believes of it.  A thread calls with hooks or *)
(* without; descriptor numbers are used again.                             *)
(***************************************************************************)
EXTENDS Integers

CONSTANTS Numbers,    \* descriptor numbers
          Times,      \* timeouts a user sets
          MaxOpened   \* bound: descriptors that are opened

VARIABLES _fds,       \* FdCtxMgr: the context of a number, or NoCtx
          krn,        \* the kernel: [file, nonblock, rcv] of a number
          user,       \* history: [nonblock, rcv] as the user set them since the opening
          odd,        \* history: the numbers with a named exception
          births      \* bound: descriptors opened

optVars == <<_fds, krn, user, odd, births>>

NoCtx == [managed |-> FALSE, sysNoBlock |-> FALSE, userNoBlock |-> FALSE, rcv |-> -1]
Shut == [file |-> "none", nonblock |-> FALSE, rcv |-> -1]
Unset == [nonblock |-> FALSE, rcv |-> -1]

-----------------------------------------------------------------------------
\* socket(2), accept(2) and open(2) take the lowest number.
Lowest(fd) == krn[fd].file = "none" /\ \A o \in Numbers : o < fd => krn[o].file # "none"

\* FdCtx::init(): a socket is made non-blocking.  Get() creates contexts for sockets alone.
NewCtx == [managed |-> TRUE, sysNoBlock |-> TRUE, userNoBlock |-> FALSE, rcv |-> -1]
\* FdCtxMgr::Get(fd, true): a context that is there is used as it is.
Managed(fd) ==
    /\ _fds' = [_fds EXCEPT ![fd] = IF @.managed THEN @ ELSE NewCtx]
    /\ krn' = [krn EXCEPT ![fd] = [Shut EXCEPT !.file = "socket", !.nonblock = ~_fds[fd].managed]]
Unmanaged(fd, file) ==
    /\ krn' = [krn EXCEPT ![fd] = [Shut EXCEPT !.file = file]]
    /\ UNCHANGED _fds

\* odd: the number still has the context of a descriptor closed without hooks.
Opened(fd) ==
    /\ Lowest(fd) /\ births < MaxOpened
    /\ births' = births + 1
    /\ user' = [user EXCEPT ![fd] = Unset]
    /\ odd' = IF _fds[fd].managed THEN odd \cup {fd} ELSE odd \ {fd}

\* socket() manages the descriptor when the thread is hooked.
Socket(fd, hooked) ==
    /\ Opened(fd)
    /\ IF hooked THEN Managed(fd) ELSE Unmanaged(fd, "socket")
\* accept() manages it in either case.
Accept(fd) == Opened(fd) /\ Managed(fd)
\* open() is not hooked.
OpenFile(fd) == Opened(fd) /\ Unmanaged(fd, "file")

\* close(): the context goes first, then the descriptor.
Close(fd, hooked) ==
    /\ krn[fd].file # "none"
    /\ krn' = [krn EXCEPT ![fd] = Shut]
    /\ _fds' = IF hooked THEN [_fds EXCEPT ![fd] = NoCtx] ELSE _fds
    /\ UNCHANGED <<user, odd, births>>

-----------------------------------------------------------------------------
\* A mutant of fcntl(): the flags go to the kernel as the user gave them.
SetFlPlain(fd, nonblock) ==
    /\ krn[fd].file # "none"
    /\ user' = [user EXCEPT ![fd].nonblock = nonblock]
    /\ krn' = [krn EXCEPT ![fd].nonblock = nonblock]
    /\ _fds' = IF _fds[fd].managed THEN [_fds EXCEPT ![fd].userNoBlock = nonblock] ELSE _fds
    /\ UNCHANGED <<odd, births>>
\* fcntl(F_SETFL), hooked or not.
SetFl(fd, nonblock) ==
    /\ krn[fd].file # "none"
    /\ user' = [user EXCEPT ![fd].nonblock = nonblock]
    /\ IF _fds[fd].managed
       THEN /\ _fds' = [_fds EXCEPT ![fd].userNoBlock = nonblock]
            /\ krn' = [krn EXCEPT ![fd].nonblock = _fds[fd].sysNoBlock]
       ELSE krn' = [krn EXCEPT ![fd].nonblock = nonblock] /\ UNCHANGED _fds
    /\ UNCHANGED <<odd, births>>
\* fcntl(F_GETFL)
GetFl(fd) == IF _fds[fd].managed THEN _fds[fd].userNoBlock ELSE krn[fd].nonblock

\* ioctl(FIONBIO): the kernel gets the user's value too.  odd: a managed socket blocks.
Ioctl(fd, nonblock) ==
    /\ krn[fd].file # "none"
    /\ user' = [user EXCEPT ![fd].nonblock = nonblock]
    /\ _fds' = IF _fds[fd].managed THEN [_fds EXCEPT ![fd].userNoBlock = nonblock] ELSE _fds
    /\ krn' = [krn EXCEPT ![fd].nonblock = nonblock]
    /\ odd' = IF _fds[fd].managed /\ ~nonblock THEN odd \cup {fd} ELSE odd
    /\ UNCHANGED births

\* setsockopt(SO_RCVTIMEO, SO_SNDTIMEO).  odd: set without hooks on a managed socket,
\* only the kernel knows of it.
SetSockOpt(fd, ms, hooked) ==
    /\ krn[fd].file = "socket"
    /\ user' = [user EXCEPT ![fd].rcv = ms]
    /\ IF hooked /\ _fds[fd].managed
       THEN _fds' = [_fds EXCEPT ![fd].rcv = ms] /\ UNCHANGED <<krn, odd>>
       ELSE /\ krn' = [krn EXCEPT ![fd].rcv = ms]
            /\ odd' = IF _fds[fd].managed THEN odd \cup {fd} ELSE odd
            /\ UNCHANGED _fds
    /\ UNCHANGED births

\* do_io(): the calls that wait in the fiber, and the timeout they wait with; the others
\* go to the kernel, which waits if the descriptor blocks.
InFiber(fd) == _fds[fd].managed /\ ~_fds[fd].userNoBlock
TimeOut(fd) == IF InFiber(fd) THEN _fds[fd].rcv ELSE krn[fd].rcv

-----------------------------------------------------------------------------
OptInit ==
    /\ _fds = [fd \in Numbers |-> NoCtx]
    /\ krn = [fd \in Numbers |-> Shut]
    /\ user = [fd \in Numbers |-> Unset]
    /\ odd = {} /\ births = 0

OptNext == \E fd \in Numbers :
    \/ \E b \in BOOLEAN : Socket(fd, b) \/ Close(fd, b) \/ SetFl(fd, b) \/ Ioctl(fd, b)
    \/ Accept(fd) \/ OpenFile(fd)
    \/ \E ms \in Times, b \in BOOLEAN : SetSockOpt(fd, ms, b)

-----------------------------------------------------------------------------
\* A hooked call waits if and only if the user left the descriptor blocking, for as long
\* as the user said, and a call on a managed socket never makes the thread wait in the
\* kernel; F_GETFL answers what the user set.  Except for a number whose last owner was
\* closed without hooks, a managed socket whose FIONBIO was cleared, and a timeout that
\* was set without hooks.
OptionsHonest == \A fd \in Numbers : krn[fd].file # "none" /\ fd \notin odd =>
    /\ GetFl(fd) = user[fd].nonblock
    /\ (InFiber(fd) \/ ~krn[fd].nonblock) = ~user[fd].nonblock
    /\ ~user[fd].nonblock => TimeOut(fd) = user[fd].rcv
    /\ _fds[fd].managed => krn[fd].nonblock
=============================================================================
