----------------------------- MODULE HumanThread -----------------------------
(***************************************************************************)
(* A Human on the ThreadBase it derives from.  Module Human represents the *)
(* inherited queue by what a mailbox promises; here one Human uses the     *)
(* queue, the flag, the lock and the condition variable of an instance of  *)
(* ThreadBase, with the main thread and the timer thread as its callers,   *)
(* and the property is that the program still does what Human says.        *)
(***************************************************************************)
EXTENDS Integers, Sequences

CONSTANTS
  Self,          \* the object
  Main, Timer, Owner, Worker,   \* threads; Owner is the main thread in its constructor and destructor
  Words, Nothing,
  MaxCalls,      \* bound: calls of public functions in a behaviour
  MaxTicks       \* bound: ticks of the timer

ASSUME HumanThreadAssumption ==
  /\ MaxCalls \in Nat /\ MaxTicks \in Nat
  /\ Main # Timer /\ Owner # Worker
  /\ {Owner, Worker} \cap {Main, Timer} = {}

VARIABLES
  thread, signalMsgQueue, syncProcessed, signalMsg, pc, lastMsg, sent, handled,
  payload,       \* what the messages carry, in the order they enter the queue
  sentence, question, count, timerThread, destroyTimer, timer, life, main, calls,
  posted, fate   \* as in Human, of the one object

base == <<thread, signalMsgQueue, syncProcessed, signalMsg, pc, lastMsg, sent, handled>>
human == <<sentence, question, count, timerThread, destroyTimer, timer, life, main, calls,
           posted, fate>>
vars == <<base, payload, human>>

(* enum Signal, from 0.                                                    *)
Signal == <<"SayHello", "SayGoodBye", "WillDo", "PlanToDo", "AskAQuestion", "GetAQuestion",
            "AnswerAQuestion", "GetAAnswer", "WantToSleep">>
Number(name) == CHOOSE n \in 0..8 : Signal[n + 1] = name

T == INSTANCE ThreadBase WITH
       Callers <- {Main, Timer}, SyncCallers <- {Main}, Signals <- 0..8, NullMsg <- Nothing,
       MaxSends <- 2 * MaxCalls + MaxTicks, CreateCanFail <- FALSE, SpuriousWakeups <- FALSE

-----------------------------------------------------------------------------
(* What Human sees of the object.                                          *)

Of(value) == [h \in {Self} |-> value]

View(m) ==
  IF m = T!DestroyMsg THEN [signal |-> "DestroyThread", arg |-> Nothing, wait |-> FALSE]
  ELSE [signal |-> Signal[m.signal + 1], arg |-> payload[m.id], wait |-> m.wait]

(* In Human the destroy message is taken when join returns.                *)
QueueView ==
  [i \in DOMAIN signalMsgQueue |-> View(signalMsgQueue[i])]
    \o (IF pc[Worker] = "exited" /\ pc[Owner] = "joining" THEN <<View(T!DestroyMsg)>> ELSE <<>>)

SlotView == IF pc[Worker] = "running" /\ fate # "undefined" THEN View(signalMsg) ELSE Nothing

H == INSTANCE Human WITH
       Humans <- {Self}, Timed <- {Self}, queue <- Of(QueueView), slot <- Of(SlotView),
       sentence <- Of(sentence), question <- Of(question), count <- Of(count),
       timerThread <- Of(timerThread), destroyTimer <- Of(destroyTimer), timer <- Of(timer),
       life <- Of(life), posted <- Of(posted)

(* The null pointer, no word and no message can be told from what is one.  *)
ASSUME NothingAssumption ==
  Nothing \notin T!Message \cup {T!DestroyMsg} \cup H!Message \cup Words \cup {Self}

Frame(at, call, arg) == H!Frame(at, call, Self, Self, arg)

Init ==
  /\ T!Init
  /\ payload = <<>>
  /\ sentence = <<>>
  /\ question = [content |-> Nothing, answer |-> Nothing]
  /\ count = 0 /\ posted = 0
  /\ timerThread = FALSE /\ destroyTimer = FALSE /\ timer = "none"
  /\ life = "alive"
  /\ main = H!Frame("idle", "CreateTimer", Nothing, Nothing, Nothing)
  /\ calls = 0
  /\ fate = "running"

-----------------------------------------------------------------------------
(* The main thread.                                                        *)

(* The constructor.                                                        *)
Construct == T!CreateThread /\ UNCHANGED <<payload, human>>

(* The main thread is in no function of the object, and enters one.        *)
Free == fate = "running" /\ pc[Owner] = "alive" /\ main.at = "idle"
Begin == Free /\ calls < MaxCalls /\ calls' = calls + 1

Post(c, signal, arg, wait) ==
  /\ T!CanCall(c)
  /\ T!SendMsg(c, Number(signal), wait)
  /\ payload' = Append(payload, arg)

Send(call, arg) ==
  /\ Begin
  /\ main' = Frame("waiting", call, arg)
  /\ Post(Main, call, arg, TRUE)
  /\ UNCHANGED <<sentence, question, count, timerThread, destroyTimer, timer, life, posted, fate>>

(* A call that does no more than begin, for now.                           *)
Enter(at, call, arg) ==
  /\ Begin
  /\ main' = Frame(at, call, arg)
  /\ UNCHANGED <<base, payload, sentence, question, count, timerThread, destroyTimer, timer,
                 life, posted, fate>>

Writing == SlotView # Nothing /\ SlotView.signal \in H!SentenceSignals

WriteSentence ==
  /\ fate = "running" /\ main.at = "writing"
  /\ \E s \in {<<Self, main.arg>>} \cup (IF Writing THEN {H!Torn} ELSE {}) : sentence' = s
  /\ Post(Main, main.call, main.arg, TRUE)
  /\ main' = [main EXCEPT !.at = "waiting"]
  /\ UNCHANGED <<question, count, timerThread, destroyTimer, timer, life, calls, posted, fate>>

(* The main thread inside SendSlotFuncSyncRunMsg: its notification, its    *)
(* wait, and its return, to the caller or to a second send.                *)
MainInSend ==
  /\ fate = "running"
  /\ \/ (T!SendNotify(Main) \/ T!SyncBlock(Main)) /\ UNCHANGED main
     \/ /\ T!SyncReturn(Main)
        /\ \/ main.at = "waiting" /\ main.call \in DOMAIN H!Passed /\ UNCHANGED main
           \/ /\ main.at = "waitingOther" \/ main.call \notin DOMAIN H!Passed
              /\ main' = [main EXCEPT !.at = "idle"]
  /\ UNCHANGED <<payload, sentence, question, count, timerThread, destroyTimer, timer, life,
                 calls, posted, fate>>

(* The object asks or answers itself, there being no other one.            *)
PassOn ==
  /\ fate = "running" /\ main.at = "waiting" /\ pc[Main] = "idle"
  /\ Post(Main, H!Passed[main.call], main.arg, TRUE)
  /\ main' = [main EXCEPT !.at = "waitingOther"]
  /\ UNCHANGED <<sentence, question, count, timerThread, destroyTimer, timer, life, calls,
                 posted, fate>>

GetReturn ==
  /\ fate = "running" /\ main.at = "reading"
  /\ main' = [main EXCEPT !.at = "idle"]
  /\ UNCHANGED <<base, payload, sentence, question, count, timerThread, destroyTimer, timer,
                 life, calls, posted, fate>>

CreateTimer ==
  /\ Begin
  /\ main' = Frame("idle", "CreateTimer", Nothing)
  /\ \/ timerThread /\ UNCHANGED <<timerThread, timer, destroyTimer>>
     \/ /\ ~timerThread /\ destroyTimer' = FALSE
        /\ \/ timerThread' = TRUE /\ timer' = "test"
           \/ UNCHANGED <<timerThread, timer>>
  /\ UNCHANGED <<base, payload, sentence, question, count, life, posted, fate>>

DestroyTimer ==
  /\ Begin
  /\ main' = Frame(IF timerThread THEN "joiningTimer" ELSE "idle", "DestroyTimer", Nothing)
  /\ destroyTimer' = IF timerThread THEN TRUE ELSE destroyTimer
  /\ UNCHANGED <<base, payload, sentence, question, count, timerThread, timer, life, posted, fate>>

JoinTimer ==
  /\ fate = "running" /\ main.at = "joiningTimer" /\ timer = "exited"
  /\ timerThread' = FALSE /\ timer' = "none"
  /\ main' = [main EXCEPT !.at = "idle"]
  /\ UNCHANGED <<base, payload, sentence, question, count, destroyTimer, life, calls, posted, fate>>

(* ~Human, then the two halves of ~ThreadBase.                             *)
DestroyHuman ==
  /\ Free
  /\ main' = Frame("destroying", "Destroy", Nothing)
  /\ \/ timerThread /\ fate' = "terminate" /\ UNCHANGED life
     \/ ~timerThread /\ life' = "base" /\ UNCHANGED fate
  /\ UNCHANGED <<base, payload, sentence, question, count, timerThread, destroyTimer, timer,
                 calls, posted>>

DestroyBase ==
  /\ fate = "running" /\ main.at = "destroying"
  /\ T!Destroy
  /\ main' = [main EXCEPT !.at = "joiningWorker"]
  /\ UNCHANGED <<payload, sentence, question, count, timerThread, destroyTimer, timer, life,
                 calls, posted, fate>>

Join ==
  /\ fate = "running" /\ T!Join
  /\ life' = "gone" /\ main' = [main EXCEPT !.at = "idle"]
  /\ UNCHANGED <<payload, sentence, question, count, timerThread, destroyTimer, timer, calls,
                 posted, fate>>

-----------------------------------------------------------------------------
(* The timer thread: TimedTask, which ends its send before the next test.  *)

TimerGoto(from, to) ==
  /\ fate = "running" /\ timer = from /\ pc[Timer] = "idle"
  /\ timer' = to
  /\ UNCHANGED <<sentence, question, timerThread, destroyTimer, life, main, calls, fate>>

TimerStep ==
  \/ /\ \/ TimerGoto("test", "exited") /\ destroyTimer
        \/ TimerGoto("test", "sleep") /\ ~destroyTimer /\ count < MaxTicks
        \/ TimerGoto("sleep", "count")
     /\ UNCHANGED <<base, payload, count, posted>>
  \/ TimerGoto("count", "send") /\ count' = count + 1 /\ UNCHANGED <<base, payload, posted>>
  \/ /\ TimerGoto("send", "test")
     /\ Post(Timer, "WantToSleep", Nothing, FALSE)
     /\ posted' = posted + 1 /\ UNCHANGED count
  \/ fate = "running" /\ T!SendNotify(Timer) /\ UNCHANGED <<payload, human>>

-----------------------------------------------------------------------------
(* The worker.                                                             *)

(* Process between two slots.                                              *)
Process ==
  /\ fate = "running"
  /\ \/ (T!WorkerBlock \/ T!SetSyncProcessed) /\ UNCHANGED fate
     \/ /\ T!WorkerTake
        /\ fate' = IF life = "base" /\ pc'[Worker] = "running" THEN "undefined" ELSE fate
  /\ UNCHANGED <<payload, sentence, question, count, timerThread, destroyTimer, timer, life,
                 main, calls, posted>>

(* The end of a slot, which has made its assignment.                       *)
UserCustomFunction ==
  /\ fate = "running" /\ T!UserCustomFunction
  /\ LET m == View(signalMsg)
     IN  \/ /\ life = "alive" /\ UNCHANGED fate
            /\ \/ /\ m.signal \in H!SentenceSignals
                  /\ \E s \in {<<m.signal, m.arg>>} \cup
                              (IF main.at = "writing" THEN {H!Torn} ELSE {}) : sentence' = s
               \/ m.signal \notin H!SentenceSignals /\ UNCHANGED sentence
            /\ question' = [content |-> IF m.signal \in H!ContentSignals THEN m.arg ELSE question.content,
                            answer |-> IF m.signal \in H!AnswerSignals THEN m.arg ELSE question.answer]
         \/ life = "base" /\ fate' = "undefined" /\ UNCHANGED <<sentence, question>>
  /\ UNCHANGED <<payload, count, timerThread, destroyTimer, timer, life, main, calls, posted>>

-----------------------------------------------------------------------------
Call ==
  \/ \E call \in {"SayHello", "SayGoodBye"} : Send(call, Nothing)
  \/ \E call \in {"WillDo", "PlanToDo", "GetAQuestion", "GetAAnswer"}, w \in Words : Send(call, w)
  \/ \E call \in DOMAIN H!Passed, w \in Words : Enter("writing", call, w)
  \/ \E getter \in H!Getters : Enter("reading", getter, Nothing)
  \/ CreateTimer \/ DestroyTimer \/ DestroyHuman

MainStep == WriteSentence \/ MainInSend \/ PassOn \/ GetReturn \/ JoinTimer \/ DestroyBase \/ Join
WorkerStep == Process \/ UserCustomFunction

Stopped == (main.at = "idle" \/ fate # "running") /\ UNCHANGED vars

Next == Construct \/ Call \/ MainStep \/ TimerStep \/ WorkerStep \/ Stopped

(* As in Human: every thread keeps running, sleeps end and slots end.      *)
Spec == Init /\ [][Next]_vars
FairSpec == Spec /\ WF_vars(MainStep) /\ WF_vars(TimerStep) /\ WF_vars(WorkerStep)

-----------------------------------------------------------------------------
(* Every step of a Human that runs on its ThreadBase is one that module    *)
(* Human allows or leaves what it describes as it is, its calls return and *)
(* its timer ticks (Human.cpp, ThreadBase.cpp).  So the mailbox that Human *)
(* has in place of the inherited queue hides no behaviour: not the caller  *)
(* that reads the flag of an earlier call, nor the notification that finds *)
(* the timer's message in front.                                           *)
ImplementsHuman == H!Spec /\ H!CallsReturn /\ H!TimerTicks
=============================================================================
