-------------------------------- MODULE Config --------------------------------
(***************************************************************************)
(* Configuration variables (config.h, config.cpp): threads load the files  *)
(* of the configuration directory or set a variable themselves, listeners  *)
(* come and go, and somebody edits the file.  The listeners are called     *)
(* under the read lock, before the value is assigned.                      *)
(***************************************************************************)
EXTENDS Integers, Sequences, FiniteSets, SequencesExt

CONSTANTS Names,        \* names of variables: <<"a", "b">> is a.b
          Contents,     \* what a file may hold: sequences of [path, val], or Broken
          Legal,        \* the path components of legal characters
          Values, Bad,  \* values, and text that does not convert to one
          Broken,       \* a file that is not YAML
          Initial,      \* the value a variable is registered with
          Loaders,      \* threads
          Listeners,
          MaxEdits, MaxSets   \* bounds

VARIABLES vars_map,     \* name -> [val, cbs], cbs = {} and val = Bad before LookUp()
          file,         \* the file: [holds, mtime]
          known,        \* GetFileModifyTimes() of it
          ld,           \* a thread: [pc, nodes, name, val, todo]
          told,         \* listener -> [name, val]: what it read, or was last told
          hist          \* history and bounds

cfgVars == <<vars_map, file, known, ld, told, hist>>

Rest == [pc |-> "idle", nodes |-> <<>>, name |-> <<>>, val |-> Bad, todo |-> {}]
Registered(n) == vars_map[n].val # Bad

\* ListAllMembers: the node of every path, but not below a name with an illegal character.
ListAllMembers(doc) == SelectSeq(doc, LAMBDA n : \A k \in DOMAIN n.path : n.path[k] \in Legal)
Key(n) == n.path

\* ConfigVarBase::FromString: the casts of config.h convert a container element by
\* element, and one element that does not convert makes the whole throw.
FromString(text) == IF \E k \in DOMAIN text : text[k] = Bad THEN Bad ELSE text

\* Threads that read the variable under its lock.
Reading(n) == {t \in Loaders : ld[t].pc = "tell" /\ ld[t].name = n}
Setting(n) == {t \in Loaders : ld[t].pc \in {"tell", "assign"} /\ ld[t].name = n}
\* Listeners that have read the variable and not yet registered.
Coming(n) == {l \in Listeners : told[l].name = n /\ l \notin vars_map[n].cbs}

\* A mutant of SetValue: listeners are called with the arguments exchanged.
SetValueSwapped(t, n, v) == ld' = [ld EXCEPT ![t] = [@ EXCEPT !.pc = "tell", !.name = n, !.val = vars_map[n].val, !.todo = vars_map[n].cbs]]

\* ConfigVar::SetValue of another value: the read lock is taken.
SetValue(t, n, v) == ld' = [ld EXCEPT ![t] = [@ EXCEPT !.pc = "tell", !.name = n, !.val = v, !.todo = vars_map[n].cbs]]

\* Config::LookUp(name, val, desc): the first call registers the variable.
LookUp(n) ==
    /\ ~Registered(n)
    /\ vars_map' = [vars_map EXCEPT ![n] = [val |-> Initial, cbs |-> {}]]
    /\ UNCHANGED <<file, known, ld, told, hist>>

\* Config::LoadFromConFDir: a file whose time is known is skipped unless forced; the
\* time is kept before the file is read, and a file that does not parse is reported only.
LoadFromConFDir(t) == \E force \in BOOLEAN :
    /\ ld[t].pc = "idle"
    /\ force \/ known # file.mtime
    /\ known' = file.mtime
    /\ hist' = [hist EXCEPT !.seen = file.holds, !.regs = {n \in Names : Registered(n)},
                            !.mixed = \E o \in Loaders : ld[o].pc # "idle"]
    /\ ld' = IF file.holds = Broken THEN ld
             ELSE [ld EXCEPT ![t] = [@ EXCEPT !.pc = "node", !.nodes = ListAllMembers(file.holds)]]
    /\ UNCHANGED <<vars_map, file, told>>

\* Config::LoadFromYaml, one node: an unknown name, text that does not convert and the
\* value the variable has are passed over.
LoadNode(t) ==
    /\ ld[t].pc = "node" /\ ld[t].nodes # <<>>
    /\ LET n == Key(Head(ld[t].nodes)) v == FromString(Head(ld[t].nodes).val)
           rest == [ld EXCEPT ![t].nodes = Tail(@)]
       IN  IF n \notin Names \/ v = Bad THEN ld' = rest
           ELSE IF ~Registered(n) \/ vars_map[n].val = v THEN ld' = rest
           ELSE SetValue(t, n, v)
    /\ UNCHANGED <<vars_map, file, known, told, hist>>
LoadEnd(t) == ld[t].pc = "node" /\ ld[t].nodes = <<>> /\ ld' = [ld EXCEPT ![t] = Rest] /\ UNCHANGED <<vars_map, file, known, told, hist>>

\* The program sets a variable itself.
UserSet(t) == \E n \in Names, v \in Values :
    /\ ld[t].pc = "idle" /\ Registered(n) /\ vars_map[n].val # v /\ hist.sets < MaxSets
    /\ SetValue(t, n, v)
    /\ hist' = [hist EXCEPT !.sets = @ + 1]
    /\ UNCHANGED <<vars_map, file, known, told>>

\* A listener is called under the read lock.
Tell(t) == \E l \in ld[t].todo :
    /\ ld[t].pc = "tell"
    /\ told' = [told EXCEPT ![l] = [name |-> ld[t].name, val |-> ld[t].val]]
    /\ ld' = [ld EXCEPT ![t].todo = @ \ {l}]
    /\ hist' = [hist EXCEPT !.raced = @ \cup IF Setting(ld[t].name) = {t} THEN {} ELSE {ld[t].name},
                            !.missed = @ \ {l}]
    /\ UNCHANGED <<vars_map, file, known>>
Told(t) == ld[t].pc = "tell" /\ ld[t].todo = {} /\ ld' = [ld EXCEPT ![t].pc = "assign"] /\ UNCHANGED <<vars_map, file, known, told, hist>>

\* The write lock waits for the readers.
Assign(t) ==
    /\ ld[t].pc = "assign" /\ Reading(ld[t].name) = {}
    /\ vars_map' = [vars_map EXCEPT ![ld[t].name].val = ld[t].val]
    /\ hist' = [hist EXCEPT !.raced = @ \cup IF Setting(ld[t].name) = {t} THEN {} ELSE {ld[t].name},
                            !.missed = @ \cup Coming(ld[t].name)]
    /\ ld' = [ld EXCEPT ![t] = IF @.nodes = <<>> THEN Rest ELSE [@ EXCEPT !.pc = "node", !.nodes = Tail(@), !.name = <<>>, !.val = Bad]]
    /\ UNCHANGED <<file, known, told>>

\* A listener reads the value first and registers in a second call; AddListener,
\* DelListener and ClearListener wait for the readers.
Forget(from) == told' = [l \in Listeners |-> IF l \in from THEN [name |-> <<>>, val |-> Bad] ELSE told[l]]
GetValue(l) == \E n \in Names :
    /\ Registered(n) /\ \A m \in Names : l \notin vars_map[m].cbs
    /\ told' = [told EXCEPT ![l] = [name |-> n, val |-> vars_map[n].val]]
    /\ hist' = [hist EXCEPT !.missed = @ \ {l}]
    /\ UNCHANGED <<vars_map, file, known, ld>>
AddListener(l) == \E n \in Names :
    /\ l \in Coming(n) /\ Reading(n) = {}
    /\ vars_map' = [vars_map EXCEPT ![n].cbs = @ \cup {l}]
    /\ hist' = [hist EXCEPT !.missed = @ \cup IF Setting(n) = {} THEN {} ELSE {l}]
    /\ UNCHANGED <<file, known, ld, told>>
DelListener(l) == \E n \in Names :
    /\ l \in vars_map[n].cbs /\ Reading(n) = {}
    /\ vars_map' = [vars_map EXCEPT ![n].cbs = @ \ {l}]
    /\ Forget({l}) /\ UNCHANGED <<file, known, ld, hist>>
ClearListener(n) ==
    /\ vars_map[n].cbs # {} /\ Reading(n) = {}
    /\ vars_map' = [vars_map EXCEPT ![n].cbs = {}]
    /\ Forget(vars_map[n].cbs) /\ UNCHANGED <<file, known, ld, hist>>

\* Somebody edits the file, perhaps in the second of the last edit.
Edit == \E c \in Contents, tick \in {0, 1} :
    /\ c # file.holds /\ hist.edits < MaxEdits
    /\ file' = [holds |-> c, mtime |-> file.mtime + tick]
    /\ hist' = [hist EXCEPT !.edits = @ + 1]
    /\ UNCHANGED <<vars_map, known, ld, told>>

CfgInit ==
    /\ vars_map = [n \in Names |-> [val |-> Bad, cbs |-> {}]]
    /\ \E c \in Contents : file = [holds |-> c, mtime |-> 1]
    /\ known = 0
    /\ ld = [t \in Loaders |-> Rest]
    /\ told = [l \in Listeners |-> [name |-> <<>>, val |-> Bad]]
    /\ hist = [edits |-> 0, sets |-> 0, raced |-> {}, missed |-> {}, seen |-> Broken, regs |-> {}, mixed |-> FALSE]

CfgNext == \/ \E n \in Names : LookUp(n) \/ ClearListener(n)
           \/ \E t \in Loaders : LoadFromConFDir(t) \/ LoadNode(t) \/ LoadEnd(t) \/ UserSet(t) \/ Tell(t) \/ Told(t) \/ Assign(t)
           \/ \E l \in Listeners : GetValue(l) \/ AddListener(l) \/ DelListener(l)
           \/ Edit

-----------------------------------------------------------------------------
\* The value a document gives a variable: the last node that converts.
Given(doc, n) ==
    LET for == SelectSeq(ListAllMembers(doc), LAMBDA k : Key(k) = n /\ FromString(k.val) # Bad)
    IN  IF for = <<>> THEN Bad ELSE Last(for).val

\* Between changes every listener of a variable knows the value the variable
\* has, whoever set it, since it read it or was told last; unless the variable
\* was set between the listener's reading and its registration, or it registered
\* between the calls and the assignment of a SetValue(), and it has not been told since;
\* and unless two threads were in SetValue() of it at once: both tell the
\* listeners under the read lock and assign in any order.  And after a load, with nothing set by
\* the program, the variables registered before it have the values of the file it
\* read, if no other load was under way: that one may go on with what it read
\* before.  A variable registered later waits for a forced load.
ConfigSettles ==
    /\ \A n \in Names \ hist.raced : Setting(n) = {} =>
          \A l \in vars_map[n].cbs \ hist.missed : told[l] = [name |-> n, val |-> vars_map[n].val]
    /\ (\A t \in Loaders : ld[t].pc = "idle") /\ hist.seen # Broken /\ hist.sets = 0 /\ ~hist.mixed =>
          \A n \in hist.regs \ hist.raced : Given(hist.seen, n) # Bad => vars_map[n].val = Given(hist.seen, n)
=============================================================================
