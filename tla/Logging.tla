------------------------------- MODULE Logging -------------------------------
(***************************************************************************)
(* plog's Logger, its singleton and macros, with the appenders a record is *)
(* handed to (src/src/plog/include/plog/: Logger.h, Init.h, Log.h, Util.h, *)
(* Appenders/DynamicAppender.h, Appenders/ColorConsoleAppender.h): the     *)
(* main thread initialises the log, possibly more than once, starts        *)
(* threads that log, joins them and exits, which destroys the logger and   *)
(* then the appenders.                                                     *)
(*                                                                         *)
(* The logger has an appender of its own and a DynamicAppender, to and     *)
(* from which the main thread adds and removes others ("sinks") while the  *)
(* threads log.  An appender's write is three steps, under its own lock;   *)
(* the terminal it writes to may be that of other appenders as well, with  *)
(* locks of their own.                                                     *)
(***************************************************************************)
EXTENDS Naturals, Sequences, SequencesExt

CONSTANTS
  Threads,       \* threads that log
  Sinks,         \* appenders added to the DynamicAppender
  Attached,      \* the appender given to plog::init
  Dynamic,       \* the DynamicAppender
  Outputs,       \* terminals and files
  Output,        \* what every appender writes to
  Coloured,      \* ColorConsoleAppenders with m_isatty, which set colours
  Levels,        \* severities used by the program
  Free,          \* nobody holds a mutex
  MaxRecords,    \* bound: log statements executed
  MaxAppenders   \* bound: length of Logger::m_appenders

Severities == 0..6      \* none, fatal, error, warning, info, debug, verbose
Appenders == Sinks \cup {Attached}

ASSUME LoggingAssumption ==
  /\ Attached \notin Sinks /\ Dynamic \notin Appenders
  /\ Output \in [Appenders -> Outputs] /\ Coloured \subseteq Appenders
  /\ Levels \subseteq Severities
  /\ Free \notin Threads
  /\ MaxRecords \in Nat /\ MaxAppenders \in Nat

Colours == [text : {"plain", "white", "red", "yellow", "cyan"}, back : {"plain", "red"}]
Plain == [text |-> "plain", back |-> "plain"]

(* ColorConsoleAppender::setColor on a terminal of colour c: the default   *)
(* case, for an info record, leaves it as it is.                           *)
setColor(severity, c) ==
  CASE severity = 1 -> [text |-> "white", back |-> "red"]
    [] severity = 2 -> [c EXCEPT !.text = "red"]
    [] severity = 3 -> [c EXCEPT !.text = "yellow"]
    [] severity \in {5, 6} -> [c EXCEPT !.text = "cyan"]
    [] OTHER -> c

VARIABLES
  instance,      \* Singleton::m_instance is not null
  maxSeverity,   \* Logger::m_maxSeverity
  appenders,     \* Logger::m_appenders
  dynamic,       \* DynamicAppender::m_appenders
  life,          \* of every appender: "new", "alive" or "deleted"
  mutex,         \* who holds the m_mutex of every appender
  colour,        \* the colour every output prints in
  printed,       \* what every appender has written
  pc,            \* control state of every thread
  record,        \* the record every thread logs
  todo,          \* what is left of the loop over Logger::m_appenders
  dynTodo,       \* what is left of the loop over DynamicAppender::m_appenders
  current,       \* the appender every thread writes to
  main,          \* control state of the main thread
  logged,        \* number of log statements executed
  passed         \* history: the records that passed checkSeverity, each with
                 \* the list of appenders it is handed to

logger == <<instance, maxSeverity, appenders>>
sinks == <<dynamic, life>>
streams == <<colour, printed>>
control == <<pc, record, todo, dynTodo, current>>
history == <<logged, passed>>
vars == <<logger, sinks, mutex, streams, control, main, history>>

States == {"new", "idle", "check", "loop", "dynamic", "text", "reset", "ended"}
Record == [id : 0..MaxRecords, severity : Severities]
Passed == [rec : Record, list : Seq({Attached, Dynamic})]

(* What an appender has written: a record, the turn of the loop over       *)
(* Logger::m_appenders (how many were left after this one), and the colour *)
(* its output was in.                                                      *)
Entry == [rec : Record, turn : Nat, in : Colours]

Init ==
  /\ instance = FALSE /\ maxSeverity = 0 /\ appenders = <<>>
  /\ dynamic = {}
  /\ life = [a \in Appenders \cup {Dynamic} |-> IF a \in Sinks THEN "new" ELSE "alive"]
  /\ mutex = [a \in Appenders \cup {Dynamic} |-> Free]
  /\ colour = [o \in Outputs |-> Plain]
  /\ printed = [a \in Appenders |-> <<>>]
  /\ pc = [t \in Threads |-> "new"]
  /\ record = [t \in Threads |-> [id |-> 0, severity |-> 0]]
  /\ todo = [t \in Threads |-> <<>>]
  /\ dynTodo = [t \in Threads |-> {}]
  /\ current = [t \in Threads |-> Attached]
  /\ main = "running"
  /\ logged = 0
  /\ passed = {}

-----------------------------------------------------------------------------
(* A log statement: PLOG_(instanceId, severity).                           *)

Goto(t, from, to) == pc[t] = from /\ pc' = [pc EXCEPT ![t] = to]
Lock(t, a) == mutex[a] = Free /\ mutex' = [mutex EXCEPT ![a] = t]
Unlock(a) == mutex' = [mutex EXCEPT ![a] = Free]

checkSeverity(severity) == severity <= maxSeverity

(* if (!plog::get() ...                                                    *)
LogTest(t, severity) ==
  /\ logged < MaxRecords
  /\ logged' = logged + 1
  /\ record' = [record EXCEPT ![t] = [id |-> logged + 1, severity |-> severity]]
  /\ Goto(t, "idle", IF instance THEN "check" ELSE "idle")
  /\ UNCHANGED <<logger, sinks, mutex, streams, todo, dynTodo, current, main, passed>>

(* ... || !plog::get()->checkSeverity(severity)) {;} else get() += ...     *)
LogCheck(t) ==
  \/ /\ checkSeverity(record[t].severity)
     /\ Goto(t, "check", "loop")
     /\ passed' = passed \cup {[rec |-> record[t], list |-> appenders]}
     /\ todo' = [todo EXCEPT ![t] = appenders]
     /\ UNCHANGED <<logger, sinks, mutex, streams, record, dynTodo, current, main, logged>>
  \/ /\ ~checkSeverity(record[t].severity)
     /\ Goto(t, "check", "idle")
     /\ UNCHANGED <<logger, sinks, mutex, streams, record, todo, dynTodo, current, main, history>>

(* The loop of operator+= ends.                                            *)
LogReturn(t) ==
  /\ todo[t] = <<>>
  /\ Goto(t, "loop", "idle")
  /\ UNCHANGED <<logger, sinks, mutex, streams, record, todo, dynTodo, current, main, history>>

(* Fault: the lock is not waited for.                                      *)
DynamicWriteUnlocked(t) ==
  /\ todo[t] # <<>> /\ Head(todo[t]) = Dynamic
  /\ Goto(t, "loop", "dynamic")
  /\ todo' = [todo EXCEPT ![t] = Tail(@)]
  /\ dynTodo' = [dynTodo EXCEPT ![t] = dynamic]
  /\ UNCHANGED <<logger, sinks, mutex, streams, record, current, main, history>>

(* DynamicAppender::write: the lock is held for the whole loop, whose      *)
(* order is that of the addresses of the appenders, any order here.        *)
DynamicWrite(t) ==
  /\ todo[t] # <<>> /\ Head(todo[t]) = Dynamic
  /\ Goto(t, "loop", "dynamic")
  /\ Lock(t, Dynamic)
  /\ todo' = [todo EXCEPT ![t] = Tail(@)]
  /\ dynTodo' = [dynTodo EXCEPT ![t] = dynamic]
  /\ UNCHANGED <<logger, sinks, streams, record, current, main, history>>

DynamicReturn(t) ==
  /\ dynTodo[t] = {}
  /\ Goto(t, "dynamic", "loop")
  /\ Unlock(Dynamic)
  /\ UNCHANGED <<logger, sinks, streams, record, todo, dynTodo, current, main, history>>

(* An appender's write, under its own lock: setColor, the text, and        *)
(* resetColor; an appender that is no ColorConsoleAppender has the text    *)
(* only.                                                                   *)
BeginWrite(t, a) ==
  /\ Lock(t, a)
  /\ colour' = IF a \in Coloured
               THEN [colour EXCEPT ![Output[a]] = setColor(record[t].severity, @)] ELSE colour
  /\ current' = [current EXCEPT ![t] = a]
  /\ UNCHANGED <<logger, sinks, printed, record, main, history>>

(* Fault: the iterator is not advanced before the next turn.               *)
LoopWriteAgain(t) ==
  /\ todo[t] # <<>> /\ Head(todo[t]) # Dynamic
  /\ Goto(t, "loop", "text")
  /\ BeginWrite(t, Head(todo[t]))
  /\ UNCHANGED <<todo, dynTodo>>

LoopWrite(t) ==
  /\ todo[t] # <<>> /\ Head(todo[t]) # Dynamic
  /\ Goto(t, "loop", "text")
  /\ BeginWrite(t, Head(todo[t]))
  /\ todo' = [todo EXCEPT ![t] = Tail(@)]
  /\ UNCHANGED dynTodo

DynamicLoopWrite(t) ==
  \E s \in dynTodo[t] :
    /\ Goto(t, "dynamic", "text")
    /\ BeginWrite(t, s)
    /\ dynTodo' = [dynTodo EXCEPT ![t] = @ \ {s}]
    /\ UNCHANGED todo

WriteText(t) ==
  /\ Goto(t, "text", "reset")
  /\ LET entry == [rec |-> record[t], turn |-> Len(todo[t]), in |-> colour[Output[current[t]]]]
     IN  printed' = [printed EXCEPT ![current[t]] = Append(@, entry)]
  /\ UNCHANGED <<logger, sinks, mutex, colour, record, todo, dynTodo, current, main, history>>

(* Fault: the lock is not released.                                        *)
EndWriteLocked(t) ==
  /\ Goto(t, "reset", IF current[t] \in Sinks THEN "dynamic" ELSE "loop")
  /\ colour' = IF current[t] \in Coloured THEN [colour EXCEPT ![Output[current[t]]] = Plain] ELSE colour
  /\ UNCHANGED <<logger, sinks, mutex, printed, record, todo, dynTodo, current, main, history>>

EndWrite(t) ==
  /\ Goto(t, "reset", IF current[t] \in Sinks THEN "dynamic" ELSE "loop")
  /\ colour' = IF current[t] \in Coloured THEN [colour EXCEPT ![Output[current[t]]] = Plain] ELSE colour
  /\ Unlock(current[t])
  /\ UNCHANGED <<logger, sinks, printed, record, todo, dynTodo, current, main, history>>

(* The thread's function returns.                                          *)
End(t) ==
  /\ Goto(t, "idle", "ended")
  /\ UNCHANGED <<logger, sinks, mutex, streams, record, todo, dynTodo, current, main, history>>

-----------------------------------------------------------------------------
(* The main thread.                                                        *)

InStatement(t) == pc[t] \in States \ {"new", "idle", "ended"}

(* The client's part: the logger takes no lock for its list, which is      *)
(* changed only while no thread is in a log statement.                     *)
Quiet == \A t \in Threads : ~InStatement(t)

(* Fault: the Singleton's constructor does not set m_instance.             *)
InitLogUnregistered(severity) ==
  /\ main = "running" /\ Quiet /\ Len(appenders) < MaxAppenders
  /\ maxSeverity' = IF instance THEN maxSeverity ELSE severity
  /\ appenders' = Append(appenders, Attached)
  /\ UNCHANGED <<instance, sinks, mutex, streams, control, main, history>>

(* plog::init: the first call constructs the static logger with its        *)
(* severity, and every call adds the appender.                             *)
InitLog(severity) ==
  /\ main = "running" /\ Quiet /\ Len(appenders) < MaxAppenders
  /\ instance' = TRUE
  /\ maxSeverity' = IF instance THEN maxSeverity ELSE severity
  /\ appenders' = Append(appenders, Attached)
  /\ UNCHANGED <<sinks, mutex, streams, control, main, history>>

(* get()->addAppender, as often as it is called.                           *)
AddAppender(a) ==
  /\ main = "running" /\ Quiet /\ Len(appenders) < MaxAppenders
  /\ instance
  /\ appenders' = Append(appenders, a)
  /\ UNCHANGED <<instance, maxSeverity, sinks, mutex, streams, control, main, history>>

StartThread(t) ==
  /\ main = "running"
  /\ Goto(t, "new", "idle")
  /\ UNCHANGED <<logger, sinks, mutex, streams, record, todo, dynTodo, current, main, history>>

(* get()->setMaxSeverity.                                                  *)
SetMaxSeverity(severity) ==
  /\ main = "running" /\ instance
  /\ maxSeverity' = severity
  /\ UNCHANGED <<instance, appenders, sinks, mutex, streams, control, main, history>>

(* A sink is constructed and DynamicAppender::addAppender called.          *)
DynamicAddAppender(s) ==
  /\ main = "running" /\ life[s] = "new"
  /\ mutex[Dynamic] = Free
  /\ life' = [life EXCEPT ![s] = "alive"]
  /\ dynamic' = dynamic \cup {s}
  /\ UNCHANGED <<logger, mutex, streams, control, main, history>>

(* Fault: the lock is not taken.                                           *)
DynamicRemoveAppenderUnlocked(s) ==
  /\ main = "running" /\ s \in dynamic
  /\ dynamic' = dynamic \ {s}
  /\ UNCHANGED <<logger, life, mutex, streams, control, main, history>>

DynamicRemoveAppender(s) ==
  /\ main = "running" /\ s \in dynamic
  /\ mutex[Dynamic] = Free
  /\ dynamic' = dynamic \ {s}
  /\ UNCHANGED <<logger, life, mutex, streams, control, main, history>>

(* A sink that has been removed is deleted.                                *)
Delete(s) ==
  /\ main = "running" /\ life[s] = "alive" /\ s \notin dynamic
  /\ life' = [life EXCEPT ![s] = "deleted"]
  /\ UNCHANGED <<logger, dynamic, mutex, streams, control, main, history>>

(* Once all threads are joined main returns, and static objects are        *)
(* destroyed in the reverse order of their construction: the logger ...    *)
DestroyLogger ==
  /\ main = "running" /\ main' = "exit"
  /\ \A t \in Threads : pc[t] \in {"new", "ended"}
  /\ instance' = FALSE /\ appenders' = <<>>
  /\ UNCHANGED <<maxSeverity, sinks, mutex, streams, control, history>>

(* ... and then the appenders.                                             *)
DestroyAppenders ==
  /\ main = "exit" /\ main' = "gone"
  /\ life' = [a \in DOMAIN life |-> "deleted"]
  /\ UNCHANGED <<logger, dynamic, mutex, streams, control, history>>

LogStep(t) ==
  \/ LogCheck(t) \/ LogReturn(t)
  \/ DynamicWrite(t) \/ DynamicLoopWrite(t) \/ DynamicReturn(t)
  \/ LoopWrite(t) \/ WriteText(t) \/ EndWrite(t)

Gone == main = "gone" /\ UNCHANGED vars

Next ==
  \/ \E t \in Threads : LogStep(t) \/ End(t) \/ StartThread(t)
  \/ \E t \in Threads, v \in Levels : LogTest(t, v)
  \/ \E v \in Levels : InitLog(v) \/ SetMaxSeverity(v)
  \/ \E s \in Sinks : DynamicAddAppender(s) \/ DynamicRemoveAppender(s) \/ Delete(s)
  \/ \E a \in {Attached, Dynamic} : AddAppender(a)
  \/ DestroyLogger \/ DestroyAppenders
  \/ Gone

Spec == Init /\ [][Next]_vars

(* A thread in a log statement keeps running.                              *)
FairSpec == Spec /\ \A t \in Threads : WF_vars(LogStep(t))

-----------------------------------------------------------------------------
(* Correctness.                                                            *)

(* Every variable has its type, and without a logger there is no list.     *)
TypeOK ==
  /\ instance \in BOOLEAN
  /\ maxSeverity \in Severities
  /\ appenders \in Seq({Attached, Dynamic}) /\ Len(appenders) <= MaxAppenders
  /\ ~instance => appenders = <<>>
  /\ dynamic \subseteq Sinks
  /\ life \in [Appenders \cup {Dynamic} -> {"new", "alive", "deleted"}]
  /\ mutex \in [Appenders \cup {Dynamic} -> Threads \cup {Free}]
  /\ colour \in [Outputs -> Colours]
  /\ printed \in [Appenders -> Seq(Entry)]
  /\ pc \in [Threads -> States]
  /\ record \in [Threads -> Record]
  /\ todo \in [Threads -> Seq({Attached, Dynamic})]
  /\ dynTodo \in [Threads -> SUBSET Sinks]
  /\ current \in [Threads -> Appenders]
  /\ main \in {"running", "exit", "gone"}
  /\ logged \in 0..MaxRecords
  /\ passed \subseteq Passed

(* A thread in a log statement has a logger, and an appender that is being *)
(* written to, or that will be, exists: removeAppender returns only when   *)
(* nobody uses the appender, so that it can be deleted, and main joins     *)
(* before static objects go (DynamicAppender::removeAppender, Logger.h:56, *)
(* main.cpp:92-108).                                                       *)
NoUseOfDestroyed ==
  \A t \in Threads :
    /\ InStatement(t) => instance
    /\ pc[t] \in {"text", "reset"} => life[current[t]] = "alive"
    /\ \A s \in dynTodo[t] : life[s] = "alive"
    /\ pc[t] = "dynamic" => life[Dynamic] = "alive"

Ids(a) == [k \in DOMAIN printed[a] |-> printed[a][k].rec.id]

(* Whatever threads log at the same time, the sinks of the DynamicAppender *)
(* have the same records in the same order, from when the later one was    *)
(* added (DynamicAppender::write, under one lock).                         *)
SameHistory ==
  mutex[Dynamic] = Free =>
    \A r, s \in dynamic : IsSuffix(Ids(r), Ids(s)) \/ IsSuffix(Ids(s), Ids(r))

Written(a, r, n) == \E k \in DOMAIN printed[a] : printed[a][k].rec = r /\ printed[a][k].turn = n

(* A record that passed the severity filter is written by the appender     *)
(* given to init once for every time that init or addAppender put it in    *)
(* the list, no more and no less, as soon as its log statement has ended;  *)
(* a sink writes it at most once for every time the DynamicAppender is in  *)
(* the list; and one that did not pass is written nowhere, even if the     *)
(* severity or the list is changed meanwhile (Logger.h:24-60, Log.h:35-50, *)
(* Init.h:7-11).                                                           *)
PrintedOnce ==
  \A a \in Appenders :
    /\ \A j, k \in DOMAIN printed[a] :
         printed[a][j].rec = printed[a][k].rec /\ printed[a][j].turn = printed[a][k].turn => j = k
    /\ \A k \in DOMAIN printed[a] : \E p \in passed : \E i \in DOMAIN p.list :
         /\ printed[a][k].rec = p.rec /\ printed[a][k].turn = Len(p.list) - i
         /\ p.list[i] = IF a \in Sinks THEN Dynamic ELSE a
    /\ a = Attached => \A p \in passed : \A i \in DOMAIN p.list :
         p.list[i] = a => \/ Written(a, p.rec, Len(p.list) - i)
                         \/ \E t \in Threads : InStatement(t) /\ record[t] = p.rec

Users(o) == {a \in Appenders : Output[a] = o}

(* An output is one appender's, under its own lock, or only sinks write to *)
(* it, under the DynamicAppender's.                                        *)
Serialised(o) == Users(o) \subseteq Sinks \/ \A a, b \in Users(o) : a = b

(* On a terminal that is one appender's, or that of sinks only, every      *)
(* record is printed in the colour of its severity, a plain                *)
(* ConsoleAppender's in none, and the terminal is plain between the        *)
(* writes: ColorConsoleAppender::write relies on finding it plain, because *)
(* an info record sets nothing (ColorConsoleAppender.h:33-41, 85), and no  *)
(* lock is the terminal's own (ConsoleAppender.h:71).  The condition is    *)
(* needed: an appender of the logger's list and any other one on the same  *)
(* terminal print in each other's colours.                                 *)
OwnColour ==
  \A a \in Appenders : Serialised(Output[a]) =>
    /\ \A k \in DOMAIN printed[a] :
         printed[a][k].in = IF a \in Coloured THEN setColor(printed[a][k].rec.severity, Plain)
                            ELSE Plain
    /\ (\A b \in Users(Output[a]) : mutex[b] = Free) => colour[Output[a]] = Plain

(* Every log statement ends.                                               *)
LogCallsReturn ==
  \A t \in Threads : InStatement(t) ~> pc[t] = "idle"
=============================================================================
