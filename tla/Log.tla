--------------------------------- MODULE Log ---------------------------------
(***************************************************************************)
(* Loggers and their sinkers (log.cpp): threads write lines while the      *)
(* listener of the configuration variable "logs" rebuilds the loggers, one *)
(* locked call after another, and files come and go on the disk.           *)
(***************************************************************************)
EXTENDS Integers, Sequences, FiniteSets, SequencesExt

CONSTANTS LogNames,      \* the names of loggers
          Docs,          \* the configurations somebody may load: [LogNames -> YAML node or NoDef]
          Levels,        \* the levels of lines
          Daemon,        \* Env has "d": no output to the terminal
          BadFormats,    \* the patterns that do not parse
          NoDef,
          Writers,       \* the threads that log
          MaxReloads, MaxDiskFaults   \* bounds

VARIABLES _loggers_map,  \* name -> [limit, fmt, sinks] or NoDef
          defs,          \* the value of g_logs_defines: name -> LoggerDefine or NoDef
          re,            \* the listener: [pc, new, todo, name, left]
          wr,            \* a thread that logs: [pc, name, level]
          disk,          \* whether the log file can be opened, and its fault count
          fate           \* the last line: the sinkers that wrote it and those it was for;
                         \* history: the names that were configured

logVars == <<_loggers_map, defs, re, wr, disk, fate>>

UNKNOW == 0
DEBUG == 1
Default == "%d..%n"

\* lexicalCast<std::string, LoggerDefine>: sinkers of an unknown type and files without
\* a path are dropped, a logger without a name throws (NoDef).
FromYaml(n) ==
    [name |-> n.name, level |-> n.level, fmt |-> n.fmt,
     sinks |-> LET good(a) == a.type = "StdoutLogAppender" \/ (a.type = "FileLogAppender" /\ a.file # "")
                   kept == SelectSeq(n.sinks, good)
               IN  [k \in DOMAIN kept |-> [type |-> IF kept[k].type = "FileLogAppender" THEN "file" ELSE "stdout",
                                           name |-> kept[k].name, level |-> kept[k].level, fmt |-> kept[k].fmt, file |-> kept[k].file]]]

\* lexicalCast<LoggerDefine, std::string>: other type names than FromYaml knows.
ToYaml(d) ==
    [name |-> d.name, level |-> d.level, fmt |-> d.fmt,
     sinks |-> [k \in DOMAIN d.sinks |-> [type |-> IF d.sinks[k].type = "file" THEN "FileLogSinker" ELSE "StdoutLogSinker",
                                          name |-> d.sinks[k].name, level |-> d.sinks[k].level, fmt |-> d.sinks[k].fmt, file |-> d.sinks[k].file]]]

-----------------------------------------------------------------------------
\* FileLogsinker::reopen.
Reopened(s) == [s EXCEPT !.stream = IF disk.usable THEN "good" ELSE "closed", !.recent = TRUE]

NewSinker(a) ==
    LET s == [type |-> a.type, level |-> a.level, fmt |-> IF a.fmt \in BadFormats THEN "" ELSE a.fmt, stream |-> "good", recent |-> TRUE]
    IN  IF a.type = "file" THEN Reopened(s) ELSE s

\* Logger::AddSinkers: a sinker without a formatter gets the logger's, and a second
\* sinker of the same name is not put in.
AddSinkers(l, name, s) ==
    IF name \in DOMAIN l.sinks THEN l
    ELSE [l EXCEPT !.sinks = [n \in DOMAIN @ \cup {name} |->
              IF n \in DOMAIN l.sinks THEN @[n] ELSE [s EXCEPT !.fmt = IF @ = "" THEN l.fmt ELSE @]]]

NoSinks == [n \in {} |-> n]
NewLogger == [limit |-> DEBUG, fmt |-> Default, sinks |-> NoSinks]

\* LoggerManager::GetAndSetLogger: a new logger writes to the terminal.
GetAndSetLogger(m, n) ==
    IF m[n] # NoDef THEN m
    ELSE [m EXCEPT ![n] = AddSinkers(NewLogger, "stdout", NewSinker([type |-> "stdout", level |-> DEBUG, fmt |-> "", file |-> ""]))]

SetLevelLimit(l, level) == [l EXCEPT !.limit = level]
\* Logger::SetFormatter: of the logger and of every sinker it has.
SetFormatter(l, f) == [l EXCEPT !.fmt = f, !.sinks = [n \in DOMAIN @ |-> [@[n] EXCEPT !.fmt = f]]]
\* A mutant of ClearSinkers: the old sinkers stay.
KeepSinkers(l) == l
ClearSinkers(l) == [l EXCEPT !.sinks = NoSinks]

-----------------------------------------------------------------------------
(* The listener of "logs". *)
Idle == [pc |-> "idle", new |-> defs, todo |-> {}, name |-> NoDef, left |-> <<>>]

\* SetValue() of a new configuration; a logger without a name makes FromString() fail.
Reload == \E doc \in Docs :
    LET new == [n \in LogNames |-> IF doc[n] = NoDef THEN NoDef ELSE FromYaml(doc[n])]
    IN  /\ re.pc = "idle" /\ re.left = <<>> /\ disk.reloads < MaxReloads
        /\ \A n \in LogNames : doc[n] # NoDef => doc[n].name # NoDef
        /\ new # defs
        /\ re' = [pc |-> "next", new |-> new, name |-> NoDef, left |-> <<>>,
                  todo |-> {n \in LogNames : new[n] # defs[n]}]
        /\ disk' = [disk EXCEPT !.reloads = @ + 1]
        /\ UNCHANGED <<_loggers_map, defs, wr, fate>>

\* The changed loggers in turn; then _val is assigned.
NextLogger ==
    /\ re.pc = "next"
    /\ \/ \E n \in re.todo :
             /\ re' = [re EXCEPT !.pc = "level", !.name = n, !.todo = @ \ {n}]
             /\ _loggers_map' = GetAndSetLogger(_loggers_map, n)
             /\ UNCHANGED <<defs, fate>>
       \/ /\ re.todo = {}
          /\ defs' = re.new /\ re' = [Idle EXCEPT !.new = re.new]
          /\ fate' = [fate EXCEPT !.known = @ \cup {n \in LogNames : re.new[n] # NoDef}]
          /\ UNCHANGED _loggers_map
    /\ UNCHANGED <<wr, disk>>

Change(pc, l) == /\ _loggers_map' = [_loggers_map EXCEPT ![re.name] = l]
                 /\ re' = [re EXCEPT !.pc = pc]
                 /\ UNCHANGED <<defs, wr, disk, fate>>

\* A removed logger keeps no limit and no sinkers.
ApplyLevel == re.pc = "level" /\
    LET d == re.new[re.name] l == _loggers_map[re.name]
    IN  IF d = NoDef THEN Change("clear", SetLevelLimit(l, UNKNOW)) ELSE Change("format", SetLevelLimit(l, d.level))

\* SetFormatter(const char* ) takes the sinkers' locks and not the logger's, which only
\* AddSinkers and ClearSinkers of this thread would need.
ApplyFormat == re.pc = "format" /\
    LET d == re.new[re.name] l == _loggers_map[re.name]
    IN  Change("clear", IF d.fmt = "" THEN l ELSE SetFormatter(l, d.fmt))

ApplyClear ==
    /\ re.pc = "clear"
    /\ _loggers_map' = [_loggers_map EXCEPT ![re.name] = ClearSinkers(@)]
    /\ re' = [re EXCEPT !.pc = IF re.new[re.name] = NoDef THEN "next" ELSE "sinks",
                        !.left = IF re.new[re.name] = NoDef THEN <<>> ELSE re.new[re.name].sinks]
    /\ UNCHANGED <<defs, wr, disk, fate>>

ApplySink ==
    /\ re.pc = "sinks"
    /\ \/ /\ re.left = <<>>
          /\ re' = [re EXCEPT !.pc = "next"] /\ UNCHANGED _loggers_map
       \/ /\ re.left # <<>>
          /\ re' = [re EXCEPT !.left = Tail(@)]
          /\ LET a == Head(re.left)
             IN  _loggers_map' = IF a.type = "stdout" /\ Daemon THEN _loggers_map
                                 ELSE [_loggers_map EXCEPT ![re.name] = AddSinkers(@, a.name, NewSinker(a))]
    /\ UNCHANGED <<defs, wr, disk, fate>>

-----------------------------------------------------------------------------
\* XTEN_LOG_LEVEL: the limit is read without the lock before the line is made.
LogMacro(t) == \E n \in LogNames, level \in Levels :
    /\ wr[t].pc = "idle" /\ _loggers_map[n] # NoDef
    /\ level >= _loggers_map[n].limit
    /\ wr' = [wr EXCEPT ![t] = [pc |-> "made", name |-> n, level |-> level]]
    /\ UNCHANGED <<_loggers_map, defs, re, disk, fate>>

\* FileLogsinker::log: an old stream is opened again; when that fails, the lines of
\* the next seconds go to the closed stream.
SinkLogged(s, level) ==
    IF level >= s.level /\ s.type = "file" /\ ~s.recent THEN Reopened(s) ELSE s

\* The sinkers of a configured logger that can be (the terminal of a daemon cannot),
\* and the first of a name among them.
Possible(d) == SelectSeq(d.sinks, LAMBDA s : s.type = "file" \/ ~Daemon)
FirstNamed(sinks, n) == sinks[CHOOSE k \in DOMAIN sinks : sinks[k].name = n /\ \A j \in 1 .. k - 1 : sinks[j].name # n]
\* Which sinkers a line is for under definition d; a logger that was never configured
\* writes to the terminal, one that was taken out of the configuration nowhere.
Wanted(n, d, level) ==
    IF d # NoDef THEN {s \in {a.name : a \in Range(Possible(d))} : level >= FirstNamed(Possible(d), s).level}
    ELSE IF n \in fate.known THEN {} ELSE {"stdout"}

\* The listener is at logger n; and the definition n has come to so far.
Rebuilding(n) == re.name = n /\ re.pc \notin {"idle", "next"}
InForce(n) == IF re.pc = "idle" \/ n \in re.todo THEN defs[n] ELSE re.new[n]

\* Logger::log, under the logger's lock; no logger has a root logger.  A file is
\* excused that was opened in the last three seconds and is gone, or cannot be opened.
LogLine(t) ==
    /\ wr[t].pc = "made"
    /\ wr' = [wr EXCEPT ![t].pc = "idle"]
    /\ LET n == wr[t].name
           l == _loggers_map[n]
           after == [k \in DOMAIN l.sinks |-> SinkLogged(l.sinks[k], wr[t].level)]
           taking == {k \in DOMAIN after : wr[t].level >= after[k].level}
       IN  IF wr[t].level >= l.limit
           THEN /\ _loggers_map' = [_loggers_map EXCEPT ![n].sinks = after]
                /\ fate' = [fate EXCEPT !.rebuilding = Rebuilding(n),
                            !.old = Wanted(n, defs[n], wr[t].level),
                            !.want = Wanted(n, InForce(n), wr[t].level),
                            !.excused = {k \in taking : after[k].stream # "good" /\ (l.sinks[k].recent \/ ~disk.usable)},
                            !.out = {k \in taking : after[k].stream = "good"}]
           ELSE UNCHANGED <<_loggers_map, fate>>
    /\ UNCHANGED <<defs, re, disk>>

-----------------------------------------------------------------------------
(* The disk: the directory goes away and comes back, and time passes. *)
FileSinks(change(_)) ==
    _loggers_map' = [n \in LogNames |-> IF _loggers_map[n] = NoDef THEN NoDef
                        ELSE [_loggers_map[n] EXCEPT !.sinks = [k \in DOMAIN @ |-> IF @[k].type = "file" THEN change(@[k]) ELSE @[k]]]]
LoseFile == /\ disk.faults < MaxDiskFaults /\ disk.usable
            /\ disk' = [disk EXCEPT !.usable = FALSE, !.faults = @ + 1]
            /\ FileSinks(LAMBDA s : [s EXCEPT !.stream = IF @ = "good" THEN "gone" ELSE @])
            /\ UNCHANGED <<defs, re, wr, fate>>
RestoreFile == ~disk.usable /\ disk' = [disk EXCEPT !.usable = TRUE] /\ UNCHANGED <<_loggers_map, defs, re, wr, fate>>
\* More than three seconds.
Age == FileSinks(LAMBDA s : [s EXCEPT !.recent = FALSE]) /\ UNCHANGED <<defs, re, wr, disk, fate>>

LogInit ==
    /\ _loggers_map = GetAndSetLogger([n \in LogNames |-> NoDef], "root")
    /\ defs = [n \in LogNames |-> NoDef]
    /\ re = Idle
    /\ wr = [t \in Writers |-> [pc |-> "idle", name |-> NoDef, level |-> 0]]
    /\ disk = [usable |-> TRUE, faults |-> 0, reloads |-> 0]
    /\ fate = [rebuilding |-> FALSE, old |-> {}, want |-> {}, excused |-> {}, out |-> {}, known |-> {}]

LogNext == \/ Reload \/ NextLogger \/ ApplyLevel \/ ApplyFormat \/ ApplyClear \/ ApplySink
           \/ \E t \in Writers : LogMacro(t) \/ LogLine(t)
           \/ LoseFile \/ RestoreFile \/ Age

-----------------------------------------------------------------------------
\* When the listener has run, every logger is as configured: its limit, the
\* first sinker of each name and no other, each with its own valid formatter or
\* else the logger's; one that was taken out of the configuration has no limit
\* and no sinkers.  A line goes to exactly the sinkers its logger is to have for
\* its level: those configured, the terminal if it was never configured, none if
\* it was taken out; and while other loggers are being rebuilt, those of the
\* configuration it has come to.  Excepted are a file that cannot be opened or
\* was opened less than three seconds ago and is gone since, and the lines of
\* the logger that is being rebuilt, which reach sinkers of the old
\* configuration or of the new and never of both.  What ToString() writes of a
\* configuration is read back without its sinkers.
LogsAsConfigured ==
    /\ re.pc = "idle" => \A n \in LogNames : defs[n] # NoDef =>
          LET l == _loggers_map[n] d == defs[n]
          IN  /\ l.limit = d.level /\ (d.fmt # "" => l.fmt = d.fmt)
              /\ DOMAIN l.sinks = {a.name : a \in Range(Possible(d))}
              /\ \A k \in DOMAIN l.sinks :
                    LET a == FirstNamed(Possible(d), k)
                    IN  /\ l.sinks[k].type = a.type /\ l.sinks[k].level = a.level
                        /\ l.sinks[k].fmt = IF a.fmt = "" \/ a.fmt \in BadFormats THEN l.fmt ELSE a.fmt
              /\ FromYaml(ToYaml(d)) = [d EXCEPT !.sinks = <<>>]
    /\ re.pc = "idle" => \A n \in fate.known : defs[n] = NoDef =>
          _loggers_map[n].limit = UNKNOW /\ _loggers_map[n].sinks = NoSinks
    /\ ~fate.rebuilding => fate.out \subseteq fate.want /\ fate.want \ fate.out \subseteq fate.excused
    /\ fate.rebuilding => fate.out \subseteq fate.old \/ fate.out \subseteq fate.want
=============================================================================
