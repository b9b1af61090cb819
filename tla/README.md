# A TLA+ model of cxx_thread

`cxx_thread` is a small C++ library and its test program. A class `ThreadBase` owns
a worker thread and a queue of signal messages; other threads send it messages and
may wait until the message has been processed. `Human` derives from it and is what
the tests (`src/src/main.cpp`) exercise. All threads log through a vendored copy of
plog.

This directory holds TLA+ specifications of these parts, TLC configurations that
check them on small instances, and proofs that TLAPS checks for all instances. Paths
below are relative to the repository; `ThreadBase.cpp` is `src/src/ThreadBase.cpp`,
and plog's headers are in `src/src/plog/include/plog/`.

## 1. The system

| component | state | operations | interacts with |
|---|---|---|---|
| `ThreadBase` (ThreadBase.h/.cpp) | `_thread`, `_signalMsgQueue`, `_syncProcessed`, guarded by `_mutex`; one condition variable `_cv` | `CreateThread`, `SendSlotFuncAsyncRunMsg`, `SendSlotFuncSyncRunMsg`, `~ThreadBase`; the worker's `Process` | callers on any thread; `UserCustomFunction` of the derived class, on the worker |
| `Human` (Human.h/.cpp) | `_sentence`, `_question`, `_countSayWantToSleep`, `_timerThread`, `_destroyTimer`, none of them guarded | ten `Send...Signal` functions (two of which involve another `Human`), four getters, `CreateTimer`, `DestroyTimer`, the slots, `TimedTask`, `~Human` | the main thread, its worker, its timer thread |
| two objects whose slots send to each other | that of both | a slot's sends | each worker is a caller of the other object |
| `RollingFileAppender` (plog) | the log files, `m_fileSize`, `m_firstWrite`, the settings, `m_mutex` | `write` with `rollLogFiles` and `openLogFile`, `setFileName`, `setMaxFiles`, `setMaxFileSize` | the file system, which may fail; every thread that logs |
| `Logger`, `Singleton`, macros, `DynamicAppender`, console appenders (plog) | `m_instance`, `m_maxSeverity`, the lists of appenders, each appender's mutex, the terminal's colour | log statements, `init`, `addAppender`, `removeAppender`, `setMaxSeverity`, destruction at exit | every thread that logs; the main thread that sets up and tears down |
| `Record`, formatters, converters, dumps, names (plog) | a record's stream | what is streamed to a record, the four formatters, line endings, file names, `processFuncName`, severities | the log's readers |

What is hard in each, and so what the properties are about:

* `ThreadBase`: one condition variable serves the worker and every synchronous
  caller, and `notify_one` wakes any one of them, after the lock is released; one
  flag serves all synchronous calls; the destroy message goes through the queue.
  Correct means: messages are handled once, in order; a synchronous send returns
  after its slot, and does return; no wakeup is lost; the destructor drains the
  queue and ends.
* `Human`: nothing but the protocol of synchronous sends protects the members.
  Correct means: a getter never overlaps a slot; what a call did is visible when it
  has returned; the timer counts and sends consistently and is quiet once destroyed;
  nothing runs on a destroyed object.
* Two objects: nested synchronous sends must not wait for each other.
* `RollingFileAppender`: a roll is several calls of the file system, any of which
  may fail or be the last before the program dies. Correct means: what is kept is in
  order and without gaps, old records go only when they must, the size that decides
  about the next roll is the true one.
* `Logger` and appenders: removal against use, exit against use, several appenders
  fed by several threads. Correct means: nobody uses what is destroyed, appenders
  agree on the history, colours do not leak.
* Records and conversions: boundary cases of strings. Correct means: nothing that is
  streamed to a log statement is lost on its way to the file, a log can be read
  back, files of one log do not collide.

`PROJECT.json` lists these hazards one by one at their lines, with the properties
that cover each, or the reason why none does.

## 2. The modules

| module | models | uses |
|---|---|---|
| `ThreadBase` | one `ThreadBase` object with its callers, owner and worker | |
| `Mailbox` | what such an object promises: an abstract specification | |
| `ThreadBaseRefinement` | the refinement mapping from `ThreadBase` to `Mailbox` | `ThreadBase`, `INSTANCE Mailbox` |
| `ThreadBaseProofs` | theorems about `ThreadBase`, that it implements `Mailbox`, and their proofs | the above, `TLAPS` |
| `Human` | `Human` objects and the main thread of the tests, on mailboxes | |
| `HumanThread` | one `Human` on the `ThreadBase` it derives from, and that it implements `Human` | `INSTANCE ThreadBase`, `INSTANCE Human` |
| `HumanProofs` | theorems about `Human` and their proofs | `Human`, `TLAPS` |
| `HumanThreadProofs` | that `HumanThread` implements `Human`, and what follows | `HumanThread`, `INSTANCE ThreadBaseProofs`, `INSTANCE HumanProofs` |
| `Peers` | two objects whose slots send to each other | two instances of `ThreadBase` |
| `PeersProofs` | theorems about `Peers` | `Peers`, two instances of `ThreadBaseProofs` |
| `RollingFileAppender` | the rolling log and the file system under it | |
| `RollingFileAppenderProofs` | its types, the size it counts and what its files keep | `RollingFileAppender`, `TLAPS` |
| `Logging` | logger, singleton, dynamic and console appenders, start and exit | |
| `LoggingProofs` | theorems about `Logging` and their proofs | `Logging`, `TLAPS` |
| `Records` | what becomes of the values streamed to a record; dumps | |
| `Formats` | formatters, converters and names, with reference definitions | `Records` |
| `FormatsProofs` | induction; theorems about names and CSV logs | `Formats`, `TLAPS` |
| `RecordsProofs` | theorems about dumps and messages | `FormatsProofs` |
| `MC...` | instances for TLC (symmetry sets) | the module named |

Definitions keep the names of the code where TLA+ allows it. A definition whose
comment begins with "Fault" is not part of any specification: it is an action or
operator changed the way a plausible bug would change it, and shows that some
property notices.

### ThreadBase

Every access to the queue and to `_syncProcessed` is made with `_mutex` held, so a
critical section is one action. What the code does outside the lock is a step of its
own: the `notify_one` of a sender (`SendNotify`, ThreadBase.cpp:72) and the run of a
slot (`UserCustomFunction`, between `WorkerTake` and `SetSyncProcessed`). A thread
in `_cv.wait` has control state "waiting"; `NotifyOne` moves any one waiter to
"check", where it takes the lock and evaluates its predicate. There may be spurious
wakeups. `CreateThread` may fail when `CreateCanFail`. Messages carry a number in
place of their payload, given when they enter the queue.

The owner, the thread that constructs and destroys the object, is kept apart from
the callers. It destroys the object only when no caller is inside a call: to call a
member function of an object being destroyed is the caller's error, and the code
does nothing about it.

`Mailbox` forgets queue, flag, condition variable and control states: messages are
numbered, handled in that order, `PostAndWait` returns after its message, `Close`
ends when everything is handled. The mapping is in `ThreadBaseRefinement`: a caller
is waiting from the end of `SendMsg`'s critical section to the return of
`SendSlotFuncSyncRunMsg`.

### Human

The program is the one `main.cpp` describes: one main thread that calls the public
functions in any order and destroys the objects, a worker for each object, a timer
thread for each object whose timer runs. The inherited queue is represented by what
`Mailbox` promises (`ThreadBase` provides it for one synchronous caller, which is
what the main thread is; this is the theorem `ImplementsMailbox`). The beginning and
the end of a slot are separate steps, and so are those of a getter, of the
assignment in `SendAskAQuestionSignal` (Human.cpp:81) and of the increment in
`TimedTask`, so that a data race is a state in which two of them overlap; a string
written by two threads at once becomes `Torn`. `~Human` and `~ThreadBase` are
separate steps: in between the object has no `UserCustomFunction` any more. `Timed`
is the set of objects whose timers are used.

### HumanThread

`Human` has a mailbox where the code has an inherited queue. `HumanThread` is the
check that this hides nothing: one `Human` whose sends are `SendMsg`, `_cv.wait` and
`notify_one` of an instance of `ThreadBase`, whose slots are run by its worker, and
whose callers are the main thread (synchronous) and the timer thread (asynchronous).
`payload` is what the messages carry. Its property `ImplementsHuman` is module
`Human`'s specification under a refinement mapping (`QueueView`, `SlotView`), with
`Human`'s liveness: each step of the code is a step that `Human` allows, or leaves
what `Human` describes as it is. It is a check of `ThreadBase` too: a flag that
`SendMsg` does not reset lets a call return before its slot, which `Human` does not
allow. `HumanThreadAssumption` says which threads are different (the main thread may be
the owner in the code; here its two roles have a control state each), and
`NothingAssumption` that `Nothing` is no word and no message.

### Peers

Two complete instances of `ThreadBase`. The worker of each is a caller of the other
object, and acts as one only while its own slot runs; a slot ends when its sends
have returned. A's slots send to B synchronously, B's slots to A asynchronously: the
other way would be a second synchronous direction, and deadlocks (section 4). Each
object has at most one synchronous caller. `PeersAssumption` says that the main thread,
the owner and the workers are different threads, `NullAssumption` that the null pointer
is not a message.

### RollingFileAppender

Files are numbered sequences of records, for every log name. A record and a header
each count one unit of size, and so does what a short write leaves of one (`Part`),
so sizes are lengths. Each call of the file system is a step and may fail (`Fault`,
at most `MaxFaults` times); a death of the program (`Crash`) may come between any
two and leaves the files as they are. A user may call `rollLogFiles` too. The header
is never empty, since the byte order mark precedes it. `setMaxFiles`
and `setMaxFileSize` take no lock and interfere anywhere; `rollLogFiles` reads
`m_maxFiles` twice (`RollUnlink`, `RollLoop`). A restart continues with the same
name, which is what an appender with a fixed name does; `main.cpp` puts the time
into the name, and its restart is `Init`.

### Logging

The main thread runs as in `main.cpp:92-109`: it initialises the log, starts threads
that log, joins them, and returns, upon which the static logger and then the
appenders are destroyed. It may initialise the log again, which adds the appender
once more and leaves the severity (Init.h:7-11, RollingFileInitializer.h:15), and call
`addAppender` as often as it likes: an appender is in the logger's list any number of
times, and a record is written once for each. An entry of `printed` therefore has a
`turn`, the place in the list it was written for, and `passed` has the list each record
was given. `plog::get()` is called three times in a log statement; its test and use are
separate steps (`LogTest`, `LogCheck`). Meanwhile the main thread adds appenders to the
`DynamicAppender`, removes and deletes them, and changes the severity.

A write of an appender is three steps under its lock: colour, text, reset. The colour is
that of what it writes to (`Output`): several console appenders may share a terminal, as
those on `std::cout` do, while the lock is the appender's own (ConsoleAppender.h:36, 71).
So `OwnColour` has a condition, `Serialised`: the terminal is one appender's, or all who
write to it are sinks of the `DynamicAppender`, whose lock is held for its whole loop
(section 4).

Two things are the client's part, and guards of the model. The list grows without a
lock (Logger.h:27), so `InitLog` and `AddAppender` need `Quiet`: no thread is in a log
statement. And `DestroyLogger` needs the threads joined. No property says anything
about a program that does otherwise.

### Records and Formats

Strings are sequences of symbols: those the code looks for, and one for each word
that it does not look into. A stream is what has been written to it and whether
numbers are written in hexadecimal; a value is a string, a character, a number, a
null pointer, a pair, a container or a dump, and there is an operator for each
overload of `operator<<`. A record goes through one of the four formatters and the
converter, for Linux or for Windows. Each operator is the code's algorithm; beside it
is a reference of another kind: readers of text files, of CSV and of dumps, the
names and formats of a log's files, and the parts a signature was put together from.
The state is a string that grows, so that TLC visits all strings up to a length. What
is computed symbol by symbol or value by value (`Numeral`, `Split`, `ReadFrom`,
`Streamed`) is a recursive function, what is computed of each symbol by itself a
concatenation (`FlattenSeq`). The two spaces between the groups of a dump are one
symbol, `groupSeparator`, as they are one string in the code (HexDump.h:15).

## 3. What the runs show

| run | module | bounds | shows |
|---|---|---|---|
| `threadbase_safety` | ThreadBase | 3 callers, one of them synchronous, 6 messages, spurious wakeups, creation may fail | type invariant, `SyncReturnsAfterSlot`, `NoLostWorkerWakeup`, `NoLostCallerWakeup`, `FIFO`, `NothingLeftBehind` |
| `threadbase_live` | ThreadBaseRefinement | 2 callers, one synchronous, 6 messages, no spurious wakeup to help | every call returns, every message is handled, the destructor ends, no deadlock; the object implements `Mailbox` with its liveness |
| `threadbase_twosync_early` | ThreadBase | 2 synchronous callers | **violated**: a synchronous send returns before its slot has run |
| `threadbase_nothread_hang` | ThreadBase | 1 caller, creation fails | **violated**: a synchronous send never returns |
| `human_thread` | HumanThread | 1 object with a timer, 2 words, 3 calls, 2 ticks | a `Human` on `ThreadBase` implements `Human`, its calls return and its timer ticks |
| `human_chat` | Human | 2 objects, one with a timer, 3 calls, 1 tick | races, visibility, abort, timer and liveness properties of objects that talk while a timer runs |
| `human_sleep` | Human | 1 object with a timer, 4 ticks | **violated**: the last tick may not have been said when `DestroyTimer` returns |
| `human_abort` | Human | the same | **violated**: a message of the last tick is handled on a destroyed object |
| `peers_oneway` | Peers | synchronous one way, 5 and 4 messages | nested sends nest and return, signals are handled, both destructors return |
| `rolling_history` | RollingFileAppender | 2 threads, 6 records, 2 faults or calls from outside, 1 death | order, no gaps, old records dropped only when full, true size, one header |
| `logging_exit` | Logging | 2 threads, 2 removable appenders sharing a terminal, a third in the list up to twice, 2 records, 2 severities | nothing destroyed is used, appenders agree, a record is written exactly as often as its appender is listed, own colour, every log statement ends |
| `formats_strings` | Formats, Records | 11 symbols, length 4, files up to number 11 | a CSV log is read back, a line has all that was streamed, dumps are grouped, rolled files have names of their own and of the same kind, the function's name is found |

Why the bounds are enough. In `ThreadBase` what matters is who sleeps when a
notification is made: two asynchronous senders, a synchronous one and the worker
give every mixture of waiters and late notifications, and six messages let each of
them send twice. For safety the bound is not needed at all (section 5). Two
synchronous callers suffice to show what goes wrong with more than one. In `Human`
three calls allow every pair of calls with a destruction, or create, destroy and
create again for a timer; four ticks are what the test of the timer requires. Six
records of a limit of two units fill and roll more files than are kept, with a death
and two failures anywhere. In `Logging` two records are what it takes for two
appenders to disagree on an order, and for one to find the terminal in the other's
colour: the severities are fatal, which sets both colours, and info, which sets none,
one of the two sinks on the shared terminal sets colours and the other does not, and the
appender of the list, which does, has a terminal of its own. The lists are those of one
or two places: the appender of `init`, once or twice, or that and the `DynamicAppender`. In `Formats` four symbols allow a symbol looked
for at the beginning, at the end, doubled, and next to another, the limit of a
message (32000 in the code) is 2, and 11 is a number of two digits. None of these
bounds is needed for the theorems of section 5.

Deadlock is checked except in `threadbase_nothread_hang`, whose question is whether
a caller hangs. The ends of a program are
stuttering steps (`Terminated`, `Stopped`, `Gone`, `Done`); the log may be quiet
(`Quiet`).

Fairness. `ThreadBase!Fairness` is weak fairness of the worker, of each caller
inside a call and of `join`: threads that can run do run, slots end, and a mutex
that is released is eventually taken. No fairness makes a caller send, the owner
destroy the object, or `_cv` wake up for no reason. `Human!FairSpec` adds the timer
threads, whose sleeps end; the main thread is fair within a call and not obliged to
make another. `HumanThread!FairSpec` is the same of its three threads. `Logging!FairSpec` is weak fairness of each thread inside a log
statement; since the number of records is bounded a lock cannot be taken over and
over in a thread's way, so starvation at a mutex, which the platform's scheduler
decides, is not what it shows.

## 4. Disagreements between the code and what is said of it

1. *Two threads may not send synchronously to one object* (ThreadBase.cpp:57).
   `ThreadBase.h:121` says that the calling thread waits until the message is
   processed. There is one `_syncProcessed`: the completion of another thread's
   message satisfies the wait too (`threadbase_twosync_early`). By the same cause a
   caller can be reset and left asleep for ever: with two synchronous callers
   `SyncCallReturns` fails under `FairSpec`. With one synchronous caller, any number
   of asynchronous ones, everything holds.
2. *After a failed `CreateThread` a synchronous send never returns*
   (ThreadBase.cpp:61; `threadbase_nothread_hang`): `SendMsg` drops the message,
   `Human`'s constructor ignores the failure.
3. *The timer test reads too early* (Human.cpp:285, main.cpp:70-71; `human_sleep`):
   `WantToSleep` is sent asynchronously and `DestroyTimer` joins the timer thread
   only, so its slot may still have to run, or be writing the string that
   `GetSentence` copies.
4. *A message left by the last tick runs on a destroyed object* (Human.cpp:10;
   `human_abort`): the worker is stopped by `~ThreadBase`, after `~Human`.
5. *Two objects that send to each other synchronously deadlock* (ThreadBase.cpp:57),
   although `src/README.md:11` says that thread A can send to thread B and B to A:
   with `BSlotSendsSync` in place of `BSlotSends` in `Peers`, each worker waits for
   the other for ever. One of the directions must be asynchronous, and then
   everything holds (`peers_oneway`).

Properties of `Human` that hold are restricted accordingly: `NoDataRace`,
`CallsVisible` and `NoAbort` speak of objects whose timer is not used.

One more was met that no sentence of the repository contradicts, so that it has no run
of its own: *console appenders that share a terminal print in each other's colours*.
`ColorConsoleAppender::write` sets the colour, prints and resets under a lock of the
appender's own (ColorConsoleAppender.h:36-40, ConsoleAppender.h:71), and an info record
sets none (line 85). With all appenders of `MCLogging` on one output, and `OwnColour`
without its condition, TLC finds a record that a sink prints in the colour which another
thread has just set through the logger's own appender; if all appenders are coloured, an
info record that the logger's own appender prints in the colours a sink has set. With the
condition, which holds of sinks that share a terminal as well, the property is checked by
`logging_exit` and proved (`ColoursKept`). No lock of the code is the terminal's.

## 5. What is proved

`ThreadBase`, for every set of callers, every set of signals and every bound, from
`ThreadBaseAssumption` alone (callers, worker and owner are different threads, the
null pointer is not a message, signals are natural numbers):

* `TypeCorrect`: `Spec => []TypeOK`. Not inductive as it stands: that the worker
  holds a caller's message while a slot runs has to be known (`TypeInv`).
* `QueueCorrect` and `QueueDrained`: `Spec => []FIFO` and `Spec => []NothingLeftBehind`
  (a worker exits after the last message, and there is no message without a worker).
  `ControlInv` relates control states to the object's life: there is a worker exactly
  between creation and join, at most one destroy message, at the end of the queue,
  and only while the owner joins. `FIFO` is handled in two
  forms, for a running slot and for none (`FIFOIdle`, `FIFORunning`), so that each
  action meets one of them.
* `SyncSendCorrect`: under `SingleSyncCaller` (creation does not fail and there is
  at most one synchronous caller) `SyncReturnsAfterSlot`, `NoLostCallerWakeup` and
  `NoLostWorkerWakeup` hold for ever. The condition is needed: the runs of section 4
  show the failures without it. The invariant is `SyncInv`: where the awaited
  message is (`AwaitedInv`), that the flag is up only when it is done (`FlagInv`),
  that whoever sleeps is owed a notification (`SleepInv`), and what is known of a
  call that has returned (`ReturnInv`). `WorkerIsWoken` and `CallerIsWoken` state the
  two about notifications by themselves.
* `ImplementsMailbox`: under the same condition `Spec => MailboxSpec`: the initial
  states map to initial states and every step maps to a step of the mailbox or a
  stutter (`RefInit`, `RefStep`), using `SyncInv` and `FIFO`.

`Human` (`HumanProofs`), for any number of objects, with and without timers, every set
of words and every bound, from `HumanAssumption` alone (timers belong to objects, and
`Nothing` is no word, object or message):

* `TypeCorrect`: `Spec => []TypeOK`, `TicksCounted`: `Spec => []CountMatchesMessages`
  and `TimerQuiet`: `Spec => QuietWithoutTimer`, all from `TypeInv`, which adds what the
  main thread's call says of its operands (`MainInv`) and that a timer between its
  test and its tick is below the bound and a timer thread is never without its thread
  object (`CountInv`).
* `RaceFree`: `Spec => []NoDataRace`, and `NeverAborts`: `Spec => []NoAbort`. Neither says
  anything of queues, but both hold because of what is in them. `ProtocolInv` says it:
  a message that is waited for is that of the main thread's present call, or the one
  that call passes on (`Awaited`); any other is the tick of an object with a timer, or
  the destroy message, which is the last of its queue (`Expected`, in `QueueInv` and
  `SlotInv`); an object is half destroyed only while the main thread is in its
  destructor (`LifeInv`), and each call is where it can be (`FrameInv`). So when the
  main thread reads or writes a member, or destroys an object, nothing can be running
  or queued there but a timer's messages (`AtBegin`).
* `CallsLeaveTheirMark`: `Spec => []CallsVisible`. On top of `ProtocolInv`, `VisibleInv`
  follows one call through its states: once its message is finished the words are on
  the object, they stay there while the other object is told and once it has been
  told they are on both, and what `SendAskAQuestionSignal` wrote to `_sentence` on
  the calling thread is not overwritten but by a timer's slot.

`HumanThread` (`HumanThreadProofs`), for every set of words and every number of calls
and ticks, from its two assumptions:

* `RunsAsHuman`: `Spec => H!Spec`, that is, the safety part of `ImplementsHuman`. The
  queue, flag and callers take steps of a `ThreadBase` (`StepOfBase`), so that `SyncInv`
  of `ThreadBaseProofs` holds here, through an instance of that module. `Inv` adds what
  the threads of a `Human` know: the payload of every message that is left
  (`PayloadInv`), that the main thread is inside a send only when its call waits, and
  back from one before the call's end only with something to pass on (`MainInv`), and
  which destructor may be running (`LifeInv`). The refinement has a lemma for each
  thing a step can do to the view of the queue (`PostView`, `CloseView`, `TakeView`,
  `JoinView`, `EndView`, `Unseen`) and one for each action (`Ref...`). `Finished` is where
  `SyncInv` is needed: the flag that lets the main thread go is up only when its
  message is neither queued nor in its slot.
* `KeepsPromisesOfHuman`: so `CallsVisible`, `CountMatchesMessages` and
  `QuietWithoutTimer` hold of a `Human` with its real queue.

`Peers` (`PeersProofs`), for every set of signals and every bound, whichever of the main
thread and A's slots send synchronously, from its two assumptions:

* `BothAreThreadBases`: `Spec` implies the specification of `ThreadBase` for each of the
  objects: a worker that is a caller of the other object is a caller like any other.
  `BothKeepTheirPromises` says of both what `ThreadBaseProofs` proves of one.
* `NestedSendsNest`: `Spec => []NestedSendsDone`. `NestedInv` says that A's worker is in
  a send to B only within a slot of A (`WithinSlot`), and that its latest send, if any,
  is the latest message in B's queue (`LatestInv`); that a slot which has ended leaves
  no message of its own unhandled follows with `SyncSendCorrect` and `QueueCorrect` of B.

* `NobodyWaitsInACircle`: `Spec => []NoCircle` (`PeersProofs`), the absence of deadlock in
  the form TLAPS can prove it. Whoever waits, waits for a worker that is awake, and a worker
  awake in a send of its slot waits for one that is: the main thread for A's, A's for
  B's, and B's for nobody, since its sends are asynchronous. That a worker is awake
  while it is waited for is `WaitsAreServed` in `ThreadBaseProofs`, from `SyncInv`. With
  `BSlotSendsSync` (section 4) the first conjunct fails.

`RollingFileAppender`, for every set of threads and names, every limit and every number of
faults, deaths and calls from outside, from `RollingAssumption`:

* `TypeCorrect`: `Spec => []TypeOK` and `SizeIsKnown`: `Spec => []SizeKnown`
  (`RollingFileAppenderProofs`). `TypeInv` adds that only the holder of the mutex is inside
  `write` (`LockInv`), that an open file exists and has the size that is counted
  (`OpenInv`), and that the loop of renames stays among the numbers (`RenameInv`).
* `HeadersFirst`: `Spec => []HeaderOnce`, and `RecordsInOrder`: `Spec => []Chronological`
  (`RollingFileAppenderProofs`). `HeaderInv` says when an open file is still without its
  header; `RecordInv` that the record being written is the newest one and in no file
  yet. A rename moves a whole file, so the proofs follow where each file came from
  (`Carried`), for every step of every thread at once.
* `HistoryWithoutGaps`: `Spec => []NoGaps`. What is kept is the latest part of what
  was logged, as long as no call of the file system has failed and nobody has changed
  the settings or rolled by hand, whether or not the program has died. `NumberInv`
  says which numbers files have, and that the next rename finds its target free: it
  moves a file and replaces none.
* `OnlyFullFilesDropped`: `Spec => []DroppedWhenFull`, under the same conditions and
  if the program has not died. That a record is gone only when as many full files are
  kept as there may be is not inductive: in the middle of a roll one number is free
  (`Gap`), and moves. `FullInv` speaks of the other numbers (`Slots`): full files fill
  them from below, and all of them if a record is gone.

`Logging`, for every set of threads, sinks and terminals and every number of records, from
`LoggingAssumption`:

* `TypeCorrect`: `Spec => []TypeOK`, with what the control states of the threads and of
  the main thread know of the logger (`ControlInv`), of the locks (`LockInv`), of what a
  thread has before it in the loop over the sinks (`LoopInv`) and of what lives
  (`LifeInv`), together `TypeInv`.
* `DestroyedUnused`: `Spec => []NoUseOfDestroyed`, from `TypeInv`: an appender is removed
  under the lock that its writers hold, and the logger is destroyed when the
  threads are joined.
* `LocksAreNested`: `Spec => []HoldersGoOn` (`LoggingProofs`): nobody waits for a lock with
  another in hand, since the lock of the dynamic appender guards those of its sinks. So
  the locks cannot be waited for in a circle. From `LockInv`.
* `ColoursKept`: `Spec => []OwnColour`, for every assignment of appenders to terminals. A
  terminal that is one appender's, or shared by sinks only, has a colour other than the
  plain one only while somebody writes to it, and then that of the record being written
  (`ColourInv`). There is one writer at a time (`OneWriter`, `NoWriter`): the lock of the
  only appender, or that of the `DynamicAppender`, excludes the others.
* `WrittenOnce`: `Spec => []PrintedOnce`, for every list. `ListInv` says that what a thread
  has left of its loop is the end of the list, which does not change meanwhile, and which
  place it is at; `FreshInv`, that what has been written of its record was written in
  turns that are over, so that the present one is not repeated; and `DoneInv`, that what
  the appender of the logger has not written of a record that passed is still before the
  thread that logs it (`Due`). Records have numbers of their own (`IdInv`).
* `SinksAgree`: `Spec => []SameHistory`. While a record is on its way through the sinks
  their histories differ. `HistoryInv` compares what they will have been when the
  holder of the dynamic appender's lock has finished (`Final`): that is settled when
  the lock is taken.

`Formats` and `Records`, for every set of symbols, every limit of a message and every
string, from `FormatsAssumption` (bounds and limit are natural numbers):

* `TypeCorrect`: the text is a string of the symbols; and
  `FuncNamesFound`: `Spec => []FuncNameFound`, `NamesRolled`: `Spec => []RolledNames`,
  `LogReadable`: `Spec => []CsvReadable` (`FormatsProofs`), `DumpsGrouped`:
  `Spec => []DumpGrouped` and `MessagesComplete`: `Spec => []MessageComplete`
  (`RecordsProofs`). The state machine says only that any string may come; the
  theorems are about what the operators compute, and the invariant that is needed is
  the type of the text.
* Induction. The library's induction theorems take an operator as parameter, which the
  provers do not instantiate. `Induction` and `StringInduction` are theorems about
  sets instead: a set that has 0, and with n also n + 1, includes `Nat`; a set that
  has the empty string, and with a string also the string with one symbol more,
  includes all strings. They follow from `Least`, that a set of numbers is empty or has
  a least element, and this from the library's theorem that the subset ordering of
  finite sets is well-founded: of the intervals `0..n` with n in the set, one includes
  no other. For each recursive function there are lemmas that say that a function
  with the recursion exists (up to n, by induction), that the operator is its value
  (`NumeralIs`, `ReadIs`, `SplitIs`, `StreamedIs`, `FlattenIs`), and what one symbol more
  does (`ReadAppended`, `SplitAppended`, `FlattenAppended`...).
* `NamesRolled` rests on `NumeralsDiffer` (different numbers have different numerals,
  by their last digits), on what `strrchr` finds (`LastFound`, `LastUnique`,
  `LastBetween`) and on numerals having neither dot nor slash.
* `LogReadable` is said of a reader in any state between two rows. `ReadConcat` reads
  a file piece by piece; a plain field, a separator, the quoted message and the newline
  each take the reader from one known state to the next (`ReadPlain`,
  `ReadNextField`, `ReadQuoted`, `ReadRow`). `ReadQuoted` is an induction over the
  message: a symbol more extends the last of the parts the loop over `std::getline`
  goes through or, if it is a quote, begins another (`SplitLast`). That the reader of text files gives back what the converter was given
  (`UnixReads`, `WindowsReads`) is an induction over the file. `LogRead` puts
  the header and two records together.
* `DumpsGrouped` needs what a reader of the dump has in hand after each symbol of it
  (`Reached`: the groups that are complete, the bytes of the group that is not, the
  digits of the byte that is not) and how the bytes written so far are divided
  (`Grouping`); `DumpSplit` is the induction that keeps the two together, and `ByteRead`
  that two digits are one byte.
* `MessagesComplete` is four statements (`FirstStatement` to `LastStatement`), each
  streamed value by value (`StreamedAppended`, `OutIs`), so that what a dump leaves in the
  stream, `std::hex`, is carried along. The code writes a separator after every element
  of a container but the last, the reference before every element but the first:
  `SeparatorsMove` says that this is the same. `LineFound` is what the three formatters
  do with the message.

TLC has checked on small instances what these theorems state; the runs name the same
definitions. The invariants for `Logging` and for the history of the rolling files were
checked by TLC on the instances of the runs before they were proved. Every invariant
that a passing run checks is the subject of a theorem.

Only model-checked:

* All liveness: `SyncCallReturns` and its like, `MailboxFairSpec`, `CallsReturn`,
  `TimerTicks`, and the liveness of `ImplementsHuman`. Liveness under fairness and
  `ENABLED` are beyond TLAPS with these provers.

No module uses a `RECURSIVE` operator, so none is closed to proofs.

## 6. What is not modelled

* Allocation failure (`std::bad_alloc` is caught in `Human` and the null pointer is
  sent on), and exceptions in slots (the worker catches and prints them).
* A message object sent twice, and a synchronous send from a slot to its own object:
  nothing in the repository does either.
* `_destroyTimer` as undefined behaviour: it is read once per second around calls the
  compiler cannot see through, so a read sees the old or the new value, and both are
  in the model.
* A failing `lseek` on an open file.
* What a client may not do and the code does not prevent: changing the logger's list
  while somebody logs, or exiting while threads do (Logger.h:27, Log.h:42); calling an
  object that is being destroyed (ThreadBase.cpp:104). Also `rollLogFiles` called by hand,
  which takes no lock (RollingFileAppender.h:85): `RollLogFiles` waits for the mutex, that
  is, it stands for a client that excludes other uses of the appender meanwhile.
* `plog::init` without an appender, more than one logger, and what the program itself
  prints to the terminal of a console appender.
* Platform code of plog: event log, Android, debugger output, the Windows console,
  UTF-8 encoding. None of it is compiled on the platform of the tests.
* Wide characters and Qt types in `Record`, and the templates that choose among its
  overloads; characters beyond ASCII in `AscDump`, where `std::isprint` is undefined;
  layout of numbers, dates and padding.
* The 160 lines of macros in `Log.h` that are one statement (Log.h:50) for each
  severity and spelling.

## 7. What is left

All modules of section 2 are written and the theorems of section 5 proved. Next would be
`HumanThread` for any number of objects, each with its `ThreadBase`.
