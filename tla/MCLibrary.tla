----------------------------- MODULE MCLibrary -----------------------------
(***************************************************************************)
(* The library the rest is built on, one part at a time: `which' names the *)
(* part that runs, and the others keep their initial states.  The socket   *)
(* is there twice: TLS sockets, and plain ones with a UDP socket.          *)
(***************************************************************************)
EXTENDS TimerWheel, Sequences, TLC

CONSTANTS Items, MaxSize, MaxItems, NodeSize,
          Alpha, ItemMap, Tokens, MaxTokens,
          LogNames, Docs, LineLevels, Daemon, BadFormats, NoDef, Writers, MaxReloads, MaxDiskFaults,
          Names, Contents, Legal, Values, Bad, Broken, Initial, Loaders, Listeners, MaxEdits, MaxSets,
          Fibers, NumFds, MaxOpens,
          Ids, Pollers, Periods, MAX_TIMEOUT, Hour, Recurring, MaxTime, MaxResets,
          Numbers, Times, MaxOpened

VARIABLES ba, kept, last,
          tokens,
          _loggers_map, defs, re, wr, disk, fate,
          vars_map, file, known, ld, told, hist,
          sock, kern, fib, opened, seen,
          tm, m_timers, m_tickled, m_previouseTime, now, mono, owed, pipe, poll, past,
          _fds, krn, user, odd, births,
          which

B == INSTANCE ByteBuffer
P == INSTANCE Formatter
L == INSTANCE Log WITH Levels <- LineLevels
C == INSTANCE Config
Tls == INSTANCE Socket WITH Socks <- {"s", "n"}, Secure <- {"s", "n"}, Udp <- {}
Tcp == INSTANCE Socket WITH Socks <- {"s", "n", "d"}, Secure <- {}, Udp <- {"d"}, MaxOpens <- MaxOpens - 1
Tm == INSTANCE Timers WITH MaxFaults <- 0
\* One thread, whose clock is set back or whose sleep is interrupted.
Clk == INSTANCE Timers WITH MaxFaults <- 1, MaxResets <- 0, Pollers <- {"p"}
O == INSTANCE FdOptions

\* The first delays of the two levels.
Distances == {2, 8}
\* Numbers and strings that end before, at and after the end of a node.
Written == {[kind |-> "fixed", val |-> <<1, 2>>], [kind |-> "uvar", val |-> <<200, 0, 0, 0>>],
            [kind |-> "var", val |-> <<0, 0, 0, 128>>], [kind |-> "s16", val |-> <<>>],
            [kind |-> "svar", val |-> <<65, 0>>], [kind |-> "s64", val |-> <<66>>]}
\* A text that holds an item's letter or a percent sign; items with and without a
\* format, one of them unknown.
Text(s) == [kind |-> "text", s |-> s, fmt |-> <<>>]
Item(s, fmt) == [kind |-> "item", s |-> s, fmt |-> fmt]
Phrases == {Text(<<" ">>), Text(<<"x", "}">>), Text(<<"%">>),
           Item(<<"m">>, <<>>), Item(<<"x">>, <<>>), Item(<<"d">>, <<"%", "m">>)}
\* A logger's YAML: every kind of sinker, two of one name, a file without a path,
\* a type that does not exist, a format that does not parse.
Sink(type, name, level, fmt, path) == [type |-> type, name |-> name, level |-> level, fmt |-> fmt, file |-> path]
Node(name, level, fmt, sinks) == [name |-> name, level |-> level, fmt |-> fmt, sinks |-> sinks]
Doc(root, a) == [n \in LogNames |-> IF n = "root" THEN root ELSE a]
Documents ==
    {Doc(NoDef, NoDef),
     Doc(Node("root", 1, "%m", <<Sink("StdoutLogAppender", "", 0, "%q", ""), Sink("FileLogAppender", "f", 2, "%l", "x"),
                                 Sink("FileLogAppender", "g", 0, "", "")>>), NoDef),
     Doc(Node("root", 2, "", <<Sink("FileLogAppender", "", 0, "", "x"), Sink("StdoutLogAppender", "", 0, "", ""),
                               Sink("StdoutLogSinker", "z", 0, "", "")>>), Node("a", 0, "%m", <<>>))}
\* Files that give the variable a value, two values, a list one element of which does
\* not convert; that give an illegal name one; and a file that does not parse.
Keys == {<<"a", "b">>}
Given(path, val) == [path |-> path, val |-> val]
Files == {Broken,
          <<Given(<<"a", "b">>, <<"1">>), Given(<<"a", "Q">>, <<"1">>)>>,
          <<Given(<<"a", "b">>, <<"1">>), Given(<<"a", "b">>, <<"2">>), Given(<<"a", "b">>, <<"1", Bad>>)>>}
Chosen == {<<"1">>, <<"2">>}

wheelVars == <<time, ob, handed, stopped>>
bufVars == <<ba, kept, last>>
logVars == <<_loggers_map, defs, re, wr, disk, fate>>
cfgVars == <<vars_map, file, known, ld, told, hist>>
sockVars == <<sock, kern, fib, opened, seen>>
timerVars == <<tm, m_timers, m_tickled, m_previouseTime, now, mono, owed, pipe, poll, past>>
optVars == <<_fds, krn, user, odd, births>>
libVars == <<wheelVars, bufVars, tokens, logVars, cfgVars, sockVars, timerVars, optVars, which>>

LibInit == /\ which \in {"wheel", "buffer", "pattern", "log", "config", "tls", "tcp", "timers", "clock", "options"}
           /\ Init /\ B!BufInit /\ P!FormatInit /\ L!LogInit
           /\ C!CfgInit /\ (which # "config" => file.holds = Broken)
           /\ IF which = "tls" THEN Tls!SockInit ELSE Tcp!SockInit
           /\ IF which = "clock" THEN Clk!TimersInit ELSE Tm!TimersInit
           /\ O!OptInit

\* What the socket does once two fibers met in a call of one object is undefined.
LibNext ==
    \/ which = "wheel" /\ Next /\ UNCHANGED <<bufVars, tokens, logVars, cfgVars, sockVars, timerVars, optVars, which>>
    \/ which = "buffer" /\ B!BufNext /\ UNCHANGED <<wheelVars, tokens, logVars, cfgVars, sockVars, timerVars, optVars, which>>
    \/ which = "pattern" /\ P!FormatNext /\ UNCHANGED <<wheelVars, bufVars, logVars, cfgVars, sockVars, timerVars, optVars, which>>
    \/ which = "log" /\ L!LogNext /\ UNCHANGED <<wheelVars, bufVars, tokens, cfgVars, sockVars, timerVars, optVars, which>>
    \/ which = "config" /\ C!CfgNext /\ UNCHANGED <<wheelVars, bufVars, tokens, logVars, sockVars, timerVars, optVars, which>>
    \/ which = "tls" /\ ~seen.late /\ Tls!SockNext /\ UNCHANGED <<wheelVars, bufVars, tokens, logVars, cfgVars, timerVars, optVars, which>>
    \/ which = "tcp" /\ ~seen.late /\ Tcp!SockNext /\ UNCHANGED <<wheelVars, bufVars, tokens, logVars, cfgVars, timerVars, optVars, which>>
    \/ which = "timers" /\ Tm!TimersNext /\ UNCHANGED <<wheelVars, bufVars, tokens, logVars, cfgVars, sockVars, optVars, which>>
    \/ which = "clock" /\ Clk!TimersNext /\ UNCHANGED <<wheelVars, bufVars, tokens, logVars, cfgVars, sockVars, optVars, which>>
    \/ which = "options" /\ O!OptNext /\ UNCHANGED <<wheelVars, bufVars, tokens, logVars, cfgVars, sockVars, timerVars, which>>

LibSpec == LibInit /\ [][LibNext]_libVars

\* The wheel hands timers out in the tick they expire in, and the ones it never hands
\* out wait in slot 0 of a level; the ordered timers come when they are due, and no
\* thread sleeps past them (timer.cpp, iomanager.cpp).
OnTime == /\ which = "wheel" => TypeOK /\ HandedOnTime /\ MissedOnlyInSlotZero
          /\ which = "timers" => Tm!HandedRight /\ Tm!NotSleptPast
          /\ which = "clock" => Clk!HandedRight /\ Clk!NotSleptPast
\* What was written to a ByteArray is what is read back, and its cursor is the node
\* of its position (bytearray.cpp).
BufferSound == which = "buffer" => B!ReadsBack /\ B!CursorSound
\* Loggers print to the sinkers of the configuration, in the formats written there
\* (log.cpp).
LogSound == (which = "log" => L!LogsAsConfigured) /\ (which = "pattern" => P!FormatterReads)
\* Listeners know the value of their variable, and variables have the value of the
\* file that was loaded last (config.h, config.cpp).
ConfigSettles == which = "config" => C!ConfigSettles
\* Sockets own their descriptors, and a descriptor waits the way its user set it
\* (socket.cpp, hook.cpp, fdmanager.cpp).
SocketSound == /\ which = "tls" => Tls!SocketSound
               /\ which = "tcp" => Tcp!SocketSound
               /\ which = "options" => O!OptionsHonest
=============================================================================
