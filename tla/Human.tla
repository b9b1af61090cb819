-------------------------------- MODULE Human --------------------------------
(***************************************************************************)
(* Human objects (src/src/Human.h, src/src/Human.cpp) and the program that *)
(* uses them the way the tests of src/src/main.cpp do: one main thread     *)
(* calls the public functions and destroys the objects, every object has   *)
(* its worker thread, and an object with a timer has a timer thread.       *)
(*                                                                         *)
(* The inherited ThreadBase is represented by what module Mailbox says and *)
(* ThreadBaseProofs proves of it for one synchronous caller: messages are  *)
(* handled in order, and a synchronous send returns after its slot.  The   *)
(* beginning and the end of a slot are separate steps, as are those of an  *)
(* access to a member by another thread, so that overlaps are visible.     *)
(***************************************************************************)
EXTENDS Naturals, Sequences, FiniteSets

CONSTANTS
  Humans,      \* the objects
  Timed,       \* those whose timer functions are called
  Words,       \* what there is to say, ask, answer, plan and do
  Nothing,     \* no word, no message
  MaxCalls,    \* bound: calls of public functions in a behaviour
  MaxTicks     \* bound: ticks of one timer

SentenceSignals == {"SayHello", "SayGoodBye", "WillDo", "PlanToDo", "WantToSleep"}
ContentSignals  == {"AskAQuestion", "GetAQuestion"}
AnswerSignals   == {"AnswerAQuestion", "GetAAnswer"}
Signals == SentenceSignals \cup ContentSignals \cup AnswerSignals

Message == [signal : Signals \cup {"DestroyThread"}, arg : Words \cup {Nothing},
            wait : BOOLEAN]

ASSUME HumanAssumption ==
  /\ Timed \subseteq Humans
  /\ Nothing \notin Words \cup Humans \cup Message
  /\ MaxCalls \in Nat /\ MaxTicks \in Nat

(* A sentence is what was said and by which signal, or to whom; Torn is a  *)
(* string object that two threads have written at once.                    *)
Torn == <<"torn">>
Sentences ==
  {<<>>, Torn} \cup (SentenceSignals \X (Words \cup {Nothing})) \cup (Humans \X Words)

VARIABLES
  queue,         \* per object: _signalMsgQueue
  slot,          \* per object: the message whose slot is running
  sentence,      \* per object: _sentence
  question,      \* per object: _question
  count,         \* per object: _countSayWantToSleep
  timerThread,   \* per object: _timerThread is not null
  destroyTimer,  \* per object: _destroyTimer
  timer,         \* per object: control state of TimedTask
  life,          \* per object: "alive", "base" once ~Human is done, "gone"
  main,          \* the main thread's latest call and where it is in it
  calls,         \* number of calls so far
  posted,        \* history, per object: WantToSleep messages sent
  fate           \* "running", or how the program died

object == <<queue, slot, sentence, question, count, life>>
timers == <<timerThread, destroyTimer, timer, posted>>
vars == <<object, timers, main, calls, fate>>

TimerStates == {"none", "test", "sleep", "count", "send", "exited"}
MainStates == {"idle", "writing", "waiting", "waitingOther", "reading",
               "joiningTimer", "destroying", "joiningWorker"}
Getters == {"GetSentence", "GetQuestionFromOtherPeople", "GetAnswerFromOtherPeople",
            "GetCountSayWantToSleep"}
Calls == Signals \cup Getters \cup {"CreateTimer", "DestroyTimer", "Destroy"}

(* The main thread is at "at" in a call of "call" on "human".              *)
Frame(at, call, human, other, arg) ==
  [at |-> at, call |-> call, human |-> human, other |-> other, arg |-> arg]

Init ==
  /\ queue = [h \in Humans |-> <<>>]
  /\ slot = [h \in Humans |-> Nothing]
  /\ sentence = [h \in Humans |-> <<>>]
  /\ question = [h \in Humans |-> [content |-> Nothing, answer |-> Nothing]]
  /\ count = [h \in Humans |-> 0]
  /\ timerThread = [h \in Humans |-> FALSE]
  /\ destroyTimer = [h \in Humans |-> FALSE]
  /\ timer = [h \in Humans |-> "none"]
  /\ life = [h \in Humans |-> "alive"]
  /\ main = Frame("idle", "CreateTimer", Nothing, Nothing, Nothing)
  /\ calls = 0
  /\ posted = [h \in Humans |-> 0]
  /\ fate = "running"

-----------------------------------------------------------------------------
(* The member functions that send signals.                                 *)

(* The main thread enters a public function of h.                          *)
Begin(h) ==
  /\ fate = "running" /\ main.at = "idle" /\ life[h] = "alive"
  /\ calls < MaxCalls
  /\ calls' = calls + 1
  /\ UNCHANGED fate

Post(h, signal, arg, wait) ==
  queue' = [queue EXCEPT ![h] =
              Append(@, [signal |-> signal, arg |-> arg, wait |-> wait])]

(* Fault: the signal is sent asynchronously.                               *)
SendAsync(call, h, arg) ==
  /\ Begin(h)
  /\ main' = Frame("idle", call, h, h, arg)
  /\ Post(h, call, arg, FALSE)
  /\ UNCHANGED <<slot, sentence, question, count, life, timers>>

(* make_shared<SignalMsg>, then SendSlotFuncSyncRunMsg up to its wait.     *)
Send(call, h, arg) ==
  /\ Begin(h)
  /\ main' = Frame("waiting", call, h, h, arg)
  /\ Post(h, call, arg, TRUE)
  /\ UNCHANGED <<slot, sentence, question, count, life, timers>>

SendSayHelloSignal(h)        == Send("SayHello", h, Nothing)
SendSayGoodByeSignal(h)      == Send("SayGoodBye", h, Nothing)
SendWillDoSignal(h, doWhat)  == Send("WillDo", h, doWhat)
SendPlanToDoSignal(h, plan)  == Send("PlanToDo", h, plan)
SendGetAQuestionSignal(h, q) == Send("GetAQuestion", h, q)
SendGetAAnswerSignal(h, a)   == Send("GetAAnswer", h, a)

(* The two calls that involve another object write _sentence on the        *)
(* calling thread first ...                                                *)
SendAskAQuestionSignal(h, respondent, q) ==
  /\ Begin(h) /\ life[respondent] = "alive"
  /\ main' = Frame("writing", "AskAQuestion", h, respondent, q)
  /\ UNCHANGED <<object, timers>>

SendAnswerAQuestionSignal(h, questioner, a) ==
  /\ Begin(h) /\ life[questioner] = "alive"
  /\ main' = Frame("writing", "AnswerAQuestion", h, questioner, a)
  /\ UNCHANGED <<object, timers>>

Writing(h) == slot[h] # Nothing /\ slot[h].signal \in SentenceSignals

(* ... then send to their own object and wait ...                          *)
WriteSentence ==
  /\ fate = "running" /\ main.at = "writing"
  /\ \E s \in {<<main.other, main.arg>>} \cup (IF Writing(main.human) THEN {Torn} ELSE {}) :
       sentence' = [sentence EXCEPT ![main.human] = s]
  /\ Post(main.human, main.call, main.arg, TRUE)
  /\ main' = [main EXCEPT !.at = "waiting"]
  /\ UNCHANGED <<slot, question, count, life, timers, calls, fate>>

(* The main thread's synchronous message is queued for h or in its slot.   *)
Unfinished(h) ==
  \/ \E i \in DOMAIN queue[h] : queue[h][i].wait
  \/ slot[h] # Nothing /\ slot[h].wait

Passed == [AskAQuestion |-> "GetAQuestion", AnswerAQuestion |-> "GetAAnswer"]

(* ... and, when that returns, pass the words on to the other object.      *)
PassOn ==
  /\ Post(main.other, Passed[main.call], main.arg, TRUE)
  /\ main' = [main EXCEPT !.at = "waitingOther"]
  /\ UNCHANGED <<slot, sentence, question, count, life, timers, calls, fate>>

Return ==
  /\ main' = [main EXCEPT !.at = "idle"]
  /\ UNCHANGED <<object, timers, calls, fate>>

(* Fault: the other object is sent its message while the first is pending. *)
SyncReturnEarly ==
  /\ fate = "running" /\ main.at = "waiting"
  /\ \/ main.call \notin DOMAIN Passed /\ ~Unfinished(main.human) /\ Return
     \/ main.call \in DOMAIN Passed /\ PassOn

SyncReturn ==
  /\ fate = "running" /\ main.at = "waiting" /\ ~Unfinished(main.human)
  /\ \/ main.call \notin DOMAIN Passed /\ Return
     \/ main.call \in DOMAIN Passed /\ PassOn

OtherReturn ==
  fate = "running" /\ main.at = "waitingOther" /\ ~Unfinished(main.other) /\ Return

-----------------------------------------------------------------------------
(* The getters: a copy of a member, made on the calling thread.            *)

Get(h, getter) ==
  /\ Begin(h)
  /\ main' = Frame("reading", getter, h, h, Nothing)
  /\ UNCHANGED <<object, timers>>

GetReturn == fate = "running" /\ main.at = "reading" /\ Return

-----------------------------------------------------------------------------
(* The timer.                                                              *)

StartThread(h) ==
  /\ timerThread' = [timerThread EXCEPT ![h] = TRUE]
  /\ timer' = [timer EXCEPT ![h] = "test"]

(* Faults: a new timer starts to count anew; the flag of the previous      *)
(* timer is still up.                                                      *)
CreateTimerResetsCount(h) ==
  /\ h \in Timed /\ Begin(h)
  /\ ~timerThread[h] /\ StartThread(h)
  /\ destroyTimer' = [destroyTimer EXCEPT ![h] = FALSE]
  /\ count' = [count EXCEPT ![h] = 0]
  /\ main' = Frame("idle", "CreateTimer", h, h, Nothing)
  /\ UNCHANGED <<posted, queue, slot, sentence, question, life>>

CreateTimerStaleFlag(h) ==
  /\ h \in Timed /\ Begin(h)
  /\ ~timerThread[h] /\ StartThread(h)
  /\ main' = Frame("idle", "CreateTimer", h, h, Nothing)
  /\ UNCHANGED <<destroyTimer, posted, object>>

(* Creates the timer thread unless there is one; creation may fail.        *)
CreateTimer(h) ==
  /\ h \in Timed /\ Begin(h)
  /\ \/ timerThread[h] /\ UNCHANGED <<timerThread, timer, destroyTimer>>
     \/ /\ ~timerThread[h]
        /\ destroyTimer' = [destroyTimer EXCEPT ![h] = FALSE]
        /\ StartThread(h) \/ UNCHANGED <<timerThread, timer>>
  /\ main' = Frame("idle", "CreateTimer", h, h, Nothing)
  /\ UNCHANGED <<posted, object>>

(* Fault: the flag is never raised.                                        *)
DestroyTimerNoFlag(h) ==
  /\ h \in Timed /\ Begin(h)
  /\ main' = Frame(IF timerThread[h] THEN "joiningTimer" ELSE "idle", "DestroyTimer",
                   h, h, Nothing)
  /\ UNCHANGED <<timers, object>>

DestroyTimer(h) ==
  /\ h \in Timed /\ Begin(h)
  /\ \/ /\ ~timerThread[h]
        /\ main' = Frame("idle", "DestroyTimer", h, h, Nothing)
        /\ UNCHANGED destroyTimer
     \/ /\ timerThread[h]
        /\ main' = Frame("joiningTimer", "DestroyTimer", h, h, Nothing)
        /\ destroyTimer' = [destroyTimer EXCEPT ![h] = TRUE]
  /\ UNCHANGED <<timerThread, timer, posted, object>>

(* Fault: the thread object is dropped without waiting for the thread.     *)
JoinTimerDetach ==
  /\ fate = "running" /\ main.at = "joiningTimer"
  /\ timerThread' = [timerThread EXCEPT ![main.human] = FALSE]
  /\ main' = [main EXCEPT !.at = "idle"]
  /\ UNCHANGED <<timer, destroyTimer, posted, object, calls, fate>>

(* _timerThread->join() returns and _timerThread becomes null.             *)
JoinTimer ==
  /\ fate = "running" /\ main.at = "joiningTimer" /\ timer[main.human] = "exited"
  /\ timerThread' = [timerThread EXCEPT ![main.human] = FALSE]
  /\ timer' = [timer EXCEPT ![main.human] = "none"]
  /\ main' = [main EXCEPT !.at = "idle"]
  /\ UNCHANGED <<destroyTimer, posted, object, calls, fate>>

(* The timer thread goes from one control state to another.                *)
TimerGoto(h, from, to) ==
  /\ fate = "running" /\ timer[h] = from
  /\ timer' = [timer EXCEPT ![h] = to]
  /\ UNCHANGED <<timerThread, destroyTimer, slot, sentence, question, life, main, calls, fate>>

(* TimedTask: while (!_destroyTimer) { sleep; count; send }.               *)
TimerTest(h) ==
  /\ \/ destroyTimer[h] /\ TimerGoto(h, "test", "exited")
     \/ ~destroyTimer[h] /\ count[h] < MaxTicks /\ TimerGoto(h, "test", "sleep")
  /\ UNCHANGED <<count, queue, posted>>

(* The increment of _countSayWantToSleep begins, and ends.                 *)
TimerWake(h) == TimerGoto(h, "sleep", "count") /\ UNCHANGED <<count, queue, posted>>

TimerTick(h) ==
  /\ TimerGoto(h, "count", "send")
  /\ count' = [count EXCEPT ![h] = @ + 1]
  /\ UNCHANGED <<queue, posted>>

(* Fault: a tick that finds the flag raised does not send its message.     *)
TimerSendChecked(h) ==
  /\ TimerGoto(h, "send", "test")
  /\ \/ destroyTimer[h] /\ UNCHANGED <<queue, posted>>
     \/ /\ ~destroyTimer[h]
        /\ Post(h, "WantToSleep", Nothing, FALSE)
        /\ posted' = [posted EXCEPT ![h] = @ + 1]
  /\ UNCHANGED count

TimerSend(h) ==
  /\ TimerGoto(h, "send", "test")
  /\ Post(h, "WantToSleep", Nothing, FALSE)
  /\ posted' = [posted EXCEPT ![h] = @ + 1]
  /\ UNCHANGED count

-----------------------------------------------------------------------------
(* The destructors.                                                        *)

(* ~Human and the destruction of its members.  A std::thread that has not  *)
(* been joined takes the program with it.                                  *)
DestroyHuman(h) ==
  /\ fate = "running" /\ main.at = "idle" /\ life[h] = "alive"
  /\ main' = Frame("destroying", "Destroy", h, h, Nothing)
  /\ \/ timerThread[h] /\ fate' = "terminate" /\ UNCHANGED life
     \/ ~timerThread[h] /\ life' = [life EXCEPT ![h] = "base"] /\ UNCHANGED fate
  /\ UNCHANGED <<queue, slot, sentence, question, count, timers, calls>>

(* ~ThreadBase: the destroy message, then join.                            *)
DestroyBase ==
  /\ fate = "running" /\ main.at = "destroying"
  /\ Post(main.human, "DestroyThread", Nothing, FALSE)
  /\ main' = [main EXCEPT !.at = "joiningWorker"]
  /\ UNCHANGED <<slot, sentence, question, count, life, timers, calls, fate>>

-----------------------------------------------------------------------------
(* The worker of h.                                                        *)

(* Process takes a message.  Once ~Human is done UserCustomFunction is a   *)
(* pure virtual function, or works on destroyed members; either is         *)
(* undefined.  The destroy message lets the main thread's join return.     *)
SlotBegin(h) ==
  /\ fate = "running" /\ slot[h] = Nothing /\ queue[h] # <<>>
  /\ queue' = [queue EXCEPT ![h] = Tail(@)]
  /\ LET m == Head(queue[h])
     IN  \/ /\ m.signal = "DestroyThread"
            /\ life' = [life EXCEPT ![h] = "gone"]
            /\ main' = [main EXCEPT !.at = "idle"]
            /\ UNCHANGED <<slot, fate>>
         \/ /\ m.signal # "DestroyThread" /\ life[h] = "alive"
            /\ slot' = [slot EXCEPT ![h] = m]
            /\ UNCHANGED <<life, main, fate>>
         \/ /\ m.signal # "DestroyThread" /\ life[h] = "base"
            /\ fate' = "undefined"
            /\ UNCHANGED <<slot, life, main>>
  /\ UNCHANGED <<sentence, question, count, timers, calls>>

(* A slot assigns _sentence, _question.content or _question.answer,        *)
(* depending on the set its signal is in.                                  *)
Assign(h, m, says, asks, answers) ==
  /\ \/ /\ m.signal \in says
        /\ \E s \in {<<m.signal, m.arg>>} \cup
                    (IF main.at = "writing" /\ main.human = h THEN {Torn} ELSE {}) :
             sentence' = [sentence EXCEPT ![h] = s]
     \/ m.signal \notin says /\ UNCHANGED sentence
  /\ question' = [question EXCEPT ![h] =
       [content |-> IF m.signal \in asks THEN m.arg ELSE @.content,
        answer  |-> IF m.signal \in answers THEN m.arg ELSE @.answer]]

(* Fault: a question received is filed as an answer.                       *)
SlotEffectSwapped(h, m) ==
  Assign(h, m, SentenceSignals, {"AskAQuestion"}, AnswerSignals \cup {"GetAQuestion"})

SlotEffect(h, m) == Assign(h, m, SentenceSignals, ContentSignals, AnswerSignals)

(* UserCustomFunction returns.  If ~Human has run under it, it has been    *)
(* working on destroyed members.                                           *)
SlotEnd(h) ==
  /\ fate = "running" /\ slot[h] # Nothing
  /\ slot' = [slot EXCEPT ![h] = Nothing]
  /\ \/ /\ life[h] = "alive"
        /\ SlotEffect(h, slot[h])
        /\ UNCHANGED fate
     \/ /\ life[h] = "base"
        /\ fate' = "undefined"
        /\ UNCHANGED <<sentence, question>>
  /\ UNCHANGED <<queue, count, life, timers, main, calls>>

-----------------------------------------------------------------------------
MainStep == WriteSentence \/ SyncReturn \/ OtherReturn \/ GetReturn \/ JoinTimer \/ DestroyBase
TimerStep(h) == TimerTest(h) \/ TimerWake(h) \/ TimerTick(h) \/ TimerSend(h)
WorkerStep(h) == SlotBegin(h) \/ SlotEnd(h)

Call(h) ==
  \/ SendSayHelloSignal(h) \/ SendSayGoodByeSignal(h)
  \/ \E w \in Words : SendWillDoSignal(h, w) \/ SendPlanToDoSignal(h, w)
  \/ \E w \in Words : SendGetAQuestionSignal(h, w) \/ SendGetAAnswerSignal(h, w)
  \/ \E o \in Humans, w \in Words :
       SendAskAQuestionSignal(h, o, w) \/ SendAnswerAQuestionSignal(h, o, w)
  \/ \E getter \in Getters : Get(h, getter)
  \/ CreateTimer(h) \/ DestroyTimer(h) \/ DestroyHuman(h)

(* The program ends, of its own accord or not.                             *)
Stopped == (main.at = "idle" \/ fate # "running") /\ UNCHANGED vars

Next ==
  \/ \E h \in Humans : Call(h) \/ TimerStep(h) \/ WorkerStep(h)
  \/ MainStep
  \/ Stopped

Spec == Init /\ [][Next]_vars

(* Every thread keeps running, sleeps end and slots end.  Nothing obliges  *)
(* the main thread to make another call.                                   *)
FairSpec ==
  /\ Spec
  /\ WF_vars(MainStep)
  /\ \A h \in Humans : WF_vars(TimerStep(h)) /\ WF_vars(WorkerStep(h))

-----------------------------------------------------------------------------
(* Correctness.                                                            *)

(* Every variable has its type.                                            *)
TypeOK ==
  /\ queue \in [Humans -> Seq(Message)]
  /\ slot \in [Humans -> Message \cup {Nothing}]
  /\ sentence \in [Humans -> Sentences]
  /\ question \in [Humans -> [content : Words \cup {Nothing}, answer : Words \cup {Nothing}]]
  /\ count \in [Humans -> 0..MaxTicks]
  /\ timerThread \in [Humans -> BOOLEAN]
  /\ destroyTimer \in [Humans -> BOOLEAN]
  /\ timer \in [Humans -> TimerStates]
  /\ life \in [Humans -> {"alive", "base", "gone"}]
  /\ main \in [at : MainStates, call : Calls, human : Humans \cup {Nothing},
               other : Humans \cup {Nothing}, arg : Words \cup {Nothing}]
  /\ calls \in 0..MaxCalls
  /\ posted \in [Humans -> 0..MaxTicks]
  /\ fate \in {"running", "terminate", "undefined"}

(* The members of main.human that the main thread is accessing, and those  *)
(* of h that another thread is writing.                                    *)
Access == [GetSentence |-> "_sentence", AskAQuestion |-> "_sentence",
           AnswerAQuestion |-> "_sentence", GetQuestionFromOtherPeople |-> "_question.content",
           GetAnswerFromOtherPeople |-> "_question.answer",
           GetCountSayWantToSleep |-> "_countSayWantToSleep"]

MainAccess == IF main.at \in {"reading", "writing"} THEN {Access[main.call]} ELSE {}

SlotWrites(signal) ==
  CASE signal \in SentenceSignals -> "_sentence"
    [] signal \in ContentSignals -> "_question.content"
    [] signal \in AnswerSignals -> "_question.answer"

WrittenByOthers(h) ==
  (IF slot[h] # Nothing THEN {SlotWrites(slot[h].signal)} ELSE {})
    \cup (IF timer[h] = "count" THEN {"_countSayWantToSleep"} ELSE {})

(* No member is read or written by the main thread while the worker or the *)
(* timer thread writes it: nothing but the protocol of synchronous sends   *)
(* protects the members that GetSentence and its like copy and that        *)
(* SendAskAQuestionSignal assigns (Human.cpp:16-22, 81, 113).  It is so of *)
(* objects whose timer is not used, whatever the timers of others do.      *)
NoDataRace ==
  \A h \in Humans \ Timed : main.human = h => MainAccess \cap WrittenByOthers(h) = {}

(* When a call has returned, its effect is there to be read, as the tests  *)
(* expect (main.cpp:17, 20, 30, 41 and 52-57): the questions and answers   *)
(* on both objects, and the sentence, unless a timer talks over it.        *)
CallsVisible ==
  fate = "running" /\ main.at = "idle" =>
    /\ main.call \in ContentSignals
         => question[main.human].content = main.arg /\ question[main.other].content = main.arg
    /\ main.call \in AnswerSignals
         => question[main.human].answer = main.arg /\ question[main.other].answer = main.arg
    /\ main.call \in SentenceSignals /\ main.human \notin Timed
         => sentence[main.human] = <<main.call, main.arg>>
    /\ main.call \in DOMAIN Passed /\ main.human \notin Timed
         => sentence[main.human] = <<main.other, main.arg>>

(* No message is handled by, and no slot is running on, an object whose    *)
(* derived part is destroyed, and no thread object is destroyed unjoined   *)
(* (Human.cpp:10, ThreadBase.cpp:5-23), if its timer is not used.          *)
NoAbort == fate # "running" => main.human \in Timed

(* The same for an object whose timer DestroyTimer has stopped before the  *)
(* destructor: "Test that the timer works correctly" (main.cpp:60) ends in *)
(* the destruction of such an object.                                      *)
NoAbortAfterDestroyTimer == fate # "undefined"

(* What that test expects of the sentence when DestroyTimer has returned   *)
(* and the count is greater than 3 (main.cpp:69-71).                       *)
SleepVisible ==
  main.at = "idle" /\ main.call = "DestroyTimer" /\ count[main.human] > 3 =>
    /\ sentence[main.human] = <<"WantToSleep", Nothing>>
    /\ ~Writing(main.human)

(* Every tick counted has its message, the last one before DestroyTimer    *)
(* returns included, and a timer's thread is gone when it has (TimedTask). *)
CountMatchesMessages ==
  \A h \in Humans :
    /\ count[h] = posted[h] + (IF timer[h] = "send" THEN 1 ELSE 0)
    /\ ~timerThread[h] => timer[h] = "none"

(* Between DestroyTimer's return and the next CreateTimer nothing ticks    *)
(* and nothing is sent in the timer's name.                                *)
QuietWithoutTimer ==
  [][\A h \in Humans : ~timerThread[h] => count'[h] = count[h] /\ posted'[h] = posted[h]]_vars

(* Every call of the main thread returns, DestroyTimer and the destructor  *)
(* included, unless the program dies.                                      *)
CallsReturn == (main.at # "idle") ~> (main.at = "idle" \/ fate # "running")

(* A timer that is created ticks, a second one too, unless it is destroyed *)
(* first.                                                                  *)
TimerTicks ==
  \A h \in Timed, n \in 0..(MaxTicks - 1) :
    (timerThread[h] /\ main.at = "idle" /\ count[h] = n)
      ~> (count[h] > n \/ main.at = "joiningTimer" \/ fate # "running")
=============================================================================
