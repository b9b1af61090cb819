----------------------------- MODULE HumanProofs -----------------------------
(***************************************************************************)
(* Theorems about module Human, for every set of objects and words and for *)
(* every bound.                                                            *)
(***************************************************************************)
EXTENDS Human, SequenceTheorems, TLAPS

-----------------------------------------------------------------------------
(* What is known of the main thread's call, and of a timer's counters.     *)

MainInv ==
  /\ main.at # "idle" => main.human \in Humans /\ main.other \in Humans
  /\ main.at = "writing" => main.call \in DOMAIN Passed /\ main.arg \in Words

CountInv ==
  \A h \in Humans :
    /\ count[h] = posted[h] + (IF timer[h] = "send" THEN 1 ELSE 0)
    /\ timer[h] \in {"sleep", "count"} => count[h] < MaxTicks
    /\ ~timerThread[h] => timer[h] = "none"

TypeInv == TypeOK /\ MainInv /\ CountInv

LEMMA PassedCalls ==
  /\ DOMAIN Passed = {"AskAQuestion", "AnswerAQuestion"}
  /\ \A call \in DOMAIN Passed : Passed[call] \in Signals
  BY DEF Passed, Signals, ContentSignals, AnswerSignals

LEMMA PostType ==
  ASSUME queue \in [Humans -> Seq(Message)],
         NEW h \in Humans, NEW signal \in Signals \cup {"DestroyThread"},
         NEW arg \in Words \cup {Nothing}, NEW wait \in BOOLEAN,
         Post(h, signal, arg, wait)
  PROVE  queue' \in [Humans -> Seq(Message)]
  <1> DEFINE m == [signal |-> signal, arg |-> arg, wait |-> wait]
  <1>1. m \in Message
    BY DEF Message
  <1>2. Append(queue[h], m) \in Seq(Message)
    BY <1>1
  <1> QED
    BY <1>2 DEF Post

LEMMA TypeInit == Init => TypeInv
  <1> SUFFICES ASSUME Init PROVE TypeInv
    OBVIOUS
  <1>1. TypeOK
    BY HumanAssumption
    DEF Init, TypeOK, Sentences, TimerStates, MainStates, Calls, Frame
  <1>2. MainInv
    BY DEF Init, MainInv, Frame
  <1>3. CountInv
    BY DEF Init, CountInv
  <1> QED
    BY <1>1, <1>2, <1>3 DEF TypeInv

(* A call of the main thread begins: its frame.                            *)
LEMMA FrameType ==
  ASSUME NEW at \in MainStates, NEW call \in Calls, NEW h \in Humans, NEW o \in Humans,
         NEW arg \in Words \cup {Nothing},
         at = "writing" => call \in DOMAIN Passed /\ arg \in Words,
         main' = Frame(at, call, h, o, arg)
  PROVE  /\ main' \in [at : MainStates, call : Calls, human : Humans \cup {Nothing},
                       other : Humans \cup {Nothing}, arg : Words \cup {Nothing}]
         /\ MainInv'
  BY DEF Frame, MainInv

LEMMA TypeSend ==
  ASSUME TypeInv, NEW call \in Signals, NEW h \in Humans, NEW arg \in Words \cup {Nothing},
         Send(call, h, arg)
  PROVE  TypeInv'
  <1>1. /\ Begin(h) /\ Post(h, call, arg, TRUE)
        /\ main' = Frame("waiting", call, h, h, arg)
        /\ UNCHANGED <<slot, sentence, question, count, life, timers>>
    BY DEF Send
  <1>2. queue' \in [Humans -> Seq(Message)]
    BY <1>1, PostType DEF TypeInv, TypeOK
  <1>3. main' \in [at : MainStates, call : Calls, human : Humans \cup {Nothing},
                   other : Humans \cup {Nothing}, arg : Words \cup {Nothing}] /\ MainInv'
    BY <1>1, FrameType DEF MainStates, Calls
  <1>4. calls' \in 0..MaxCalls
    BY <1>1, HumanAssumption DEF Begin, TypeInv, TypeOK
  <1>5. CountInv'
    BY <1>1 DEF CountInv, TypeInv, timers
  <1> QED
    BY <1>1, <1>2, <1>3, <1>4, <1>5 DEF TypeInv, TypeOK, timers, Begin

(* A call begins that does no more for now.                                *)
LEMMA TypeEnter ==
  ASSUME TypeInv, NEW at \in MainStates, NEW call \in Calls, NEW h \in Humans, NEW o \in Humans,
         NEW arg \in Words \cup {Nothing},
         at = "writing" => call \in DOMAIN Passed /\ arg \in Words,
         Begin(h), main' = Frame(at, call, h, o, arg), UNCHANGED <<object, timers>>
  PROVE  TypeInv'
  <1>1. main' \in [at : MainStates, call : Calls, human : Humans \cup {Nothing},
                   other : Humans \cup {Nothing}, arg : Words \cup {Nothing}] /\ MainInv'
    BY FrameType
  <1>2. calls' \in 0..MaxCalls
    BY HumanAssumption DEF Begin, TypeInv, TypeOK
  <1>3. CountInv'
    BY DEF CountInv, TypeInv, timers, object
  <1> QED
    BY <1>1, <1>2, <1>3 DEF TypeInv, TypeOK, timers, object, Begin

LEMMA TypeReturn ==
  ASSUME TypeInv, NEW at \in {"idle", "waiting", "waitingOther", "joiningWorker"},
         main' = [main EXCEPT !.at = at], main.at # "idle"
  PROVE  /\ main' \in [at : MainStates, call : Calls, human : Humans \cup {Nothing},
                       other : Humans \cup {Nothing}, arg : Words \cup {Nothing}]
         /\ MainInv'
  BY DEF TypeInv, TypeOK, MainInv, MainStates

LEMMA TypeWriteSentence == TypeInv /\ WriteSentence => TypeInv'
  <1> SUFFICES ASSUME TypeInv, WriteSentence PROVE TypeInv'
    OBVIOUS
  <1>1. /\ main.human \in Humans /\ main.other \in Humans /\ main.arg \in Words
        /\ main.call \in Signals
    BY PassedCalls DEF TypeInv, MainInv, WriteSentence, Signals, ContentSignals, AnswerSignals
  <1>2. queue' \in [Humans -> Seq(Message)]
    BY <1>1, PostType DEF WriteSentence, TypeInv, TypeOK
  <1>3. sentence' \in [Humans -> Sentences]
    <2>1. PICK s \in {<<main.other, main.arg>>, Torn} :
            sentence' = [sentence EXCEPT ![main.human] = s]
      BY DEF WriteSentence
    <2>2. s \in Sentences
      BY <1>1 DEF Sentences
    <2> QED
      BY <2>1, <2>2 DEF TypeInv, TypeOK
  <1>4. main' \in [at : MainStates, call : Calls, human : Humans \cup {Nothing},
                   other : Humans \cup {Nothing}, arg : Words \cup {Nothing}] /\ MainInv'
    BY TypeReturn DEF WriteSentence
  <1>5. CountInv'
    BY DEF CountInv, TypeInv, timers, WriteSentence
  <1> QED
    BY <1>2, <1>3, <1>4, <1>5 DEF TypeInv, TypeOK, timers, WriteSentence

LEMMA TypeReturns ==
  TypeInv /\ (SyncReturn \/ OtherReturn \/ GetReturn \/ DestroyBase) => TypeInv'
  <1> SUFFICES ASSUME TypeInv, SyncReturn \/ OtherReturn \/ GetReturn \/ DestroyBase
               PROVE  TypeInv'
    OBVIOUS
  <1>1. CASE Return /\ main.at # "idle"
    <2>1. main' \in [at : MainStates, call : Calls, human : Humans \cup {Nothing},
                     other : Humans \cup {Nothing}, arg : Words \cup {Nothing}] /\ MainInv'
      BY <1>1, TypeReturn DEF Return
    <2>2. CountInv'
      BY <1>1 DEF CountInv, TypeInv, timers, object, Return
    <2> QED
      BY <1>1, <2>1, <2>2 DEF TypeInv, TypeOK, timers, object, Return
  <1>2. CASE main.at = "waiting" /\ main.call \in DOMAIN Passed /\ PassOn
    <2>1. main.human \in Humans /\ main.other \in Humans
      BY <1>2 DEF TypeInv, MainInv
    <2>2. queue' \in [Humans -> Seq(Message)]
      BY <1>2, <2>1, PostType, PassedCalls DEF PassOn, TypeInv, TypeOK
    <2>3. main' \in [at : MainStates, call : Calls, human : Humans \cup {Nothing},
                     other : Humans \cup {Nothing}, arg : Words \cup {Nothing}] /\ MainInv'
      BY <1>2, TypeReturn DEF PassOn
    <2>4. CountInv'
      BY <1>2 DEF CountInv, TypeInv, timers, PassOn
    <2> QED
      BY <1>2, <2>2, <2>3, <2>4 DEF TypeInv, TypeOK, timers, PassOn
  <1>3. CASE DestroyBase
    <2>1. main.human \in Humans
      BY <1>3 DEF TypeInv, MainInv, DestroyBase
    <2>2. queue' \in [Humans -> Seq(Message)]
      BY <1>3, <2>1, PostType DEF DestroyBase, TypeInv, TypeOK
    <2>3. main' \in [at : MainStates, call : Calls, human : Humans \cup {Nothing},
                     other : Humans \cup {Nothing}, arg : Words \cup {Nothing}] /\ MainInv'
      BY <1>3, TypeReturn DEF DestroyBase
    <2>4. CountInv'
      BY <1>3 DEF CountInv, TypeInv, timers, DestroyBase
    <2> QED
      BY <1>3, <2>2, <2>3, <2>4 DEF TypeInv, TypeOK, timers, DestroyBase
  <1> QED
    BY <1>1, <1>2, <1>3 DEF SyncReturn, OtherReturn, GetReturn

LEMMA TypeCreateTimer ==
  ASSUME TypeInv, NEW h \in Humans, CreateTimer(h)
  PROVE  TypeInv'
  <1>1. main' \in [at : MainStates, call : Calls, human : Humans \cup {Nothing},
                   other : Humans \cup {Nothing}, arg : Words \cup {Nothing}] /\ MainInv'
    BY FrameType DEF CreateTimer, MainStates, Calls
  <1>2. calls' \in 0..MaxCalls
    BY HumanAssumption DEF CreateTimer, Begin, TypeInv, TypeOK
  <1>3. /\ timerThread' \in [Humans -> BOOLEAN] /\ destroyTimer' \in [Humans -> BOOLEAN]
        /\ timer' \in [Humans -> TimerStates]
    BY DEF CreateTimer, StartThread, TypeInv, TypeOK, TimerStates
  <1>4. CountInv'
    <2>1. count' = count /\ posted' = posted
      BY DEF CreateTimer, object
    <2>2. \/ timer' = timer /\ timerThread' = timerThread
          \/ /\ ~timerThread[h]
             /\ timerThread' = [timerThread EXCEPT ![h] = TRUE]
             /\ timer' = [timer EXCEPT ![h] = "test"]
      BY DEF CreateTimer, StartThread
    <2> QED
      BY <2>1, <2>2 DEF CountInv, TypeInv, TypeOK
  <1> QED
    BY <1>1, <1>2, <1>3, <1>4 DEF TypeInv, TypeOK, object, CreateTimer, Begin

LEMMA TypeDestroyTimer ==
  ASSUME TypeInv, NEW h \in Humans, DestroyTimer(h)
  PROVE  TypeInv'
  <1>1. main' \in [at : MainStates, call : Calls, human : Humans \cup {Nothing},
                   other : Humans \cup {Nothing}, arg : Words \cup {Nothing}] /\ MainInv'
    BY FrameType DEF DestroyTimer, MainStates, Calls
  <1>2. calls' \in 0..MaxCalls
    BY HumanAssumption DEF DestroyTimer, Begin, TypeInv, TypeOK
  <1>3. destroyTimer' \in [Humans -> BOOLEAN]
    BY DEF DestroyTimer, TypeInv, TypeOK
  <1>4. CountInv'
    BY DEF CountInv, TypeInv, object, DestroyTimer
  <1> QED
    BY <1>1, <1>2, <1>3, <1>4 DEF TypeInv, TypeOK, object, DestroyTimer, Begin

LEMMA TypeJoinTimer == TypeInv /\ JoinTimer => TypeInv'
  <1> SUFFICES ASSUME TypeInv, JoinTimer PROVE TypeInv'
    OBVIOUS
  <1>1. main.human \in Humans
    BY DEF TypeInv, MainInv, JoinTimer
  <1>2. main' \in [at : MainStates, call : Calls, human : Humans \cup {Nothing},
                   other : Humans \cup {Nothing}, arg : Words \cup {Nothing}] /\ MainInv'
    BY TypeReturn DEF JoinTimer
  <1>3. timerThread' \in [Humans -> BOOLEAN] /\ timer' \in [Humans -> TimerStates]
    BY <1>1 DEF JoinTimer, TypeInv, TypeOK, TimerStates
  <1>4. CountInv'
    BY <1>1 DEF CountInv, TypeInv, TypeOK, object, JoinTimer
  <1> QED
    BY <1>2, <1>3, <1>4 DEF TypeInv, TypeOK, object, JoinTimer

LEMMA TypeTimerStep ==
  ASSUME TypeInv, NEW h \in Humans, TimerStep(h)
  PROVE  TypeInv'
  <1>1. PICK from \in TimerStates \ {"none"}, to \in TimerStates : TimerGoto(h, from, to)
    BY DEF TimerStep, TimerTest, TimerWake, TimerTick, TimerSend, TimerStates
  <1>2. timer' \in [Humans -> TimerStates]
    BY <1>1 DEF TimerGoto, TypeInv, TypeOK
  <1>3. queue' \in [Humans -> Seq(Message)]
    <2>1. CASE TimerSend(h)
      BY <2>1, PostType DEF TimerSend, TypeInv, TypeOK, Signals, SentenceSignals
    <2> QED
      BY <2>1 DEF TimerStep, TimerTest, TimerWake, TimerTick, TypeInv, TypeOK
  <1>4. count[h] \in 0..MaxTicks /\ posted[h] \in 0..MaxTicks
    BY DEF TypeInv, TypeOK
  <1>5. count' \in [Humans -> 0..MaxTicks] /\ posted' \in [Humans -> 0..MaxTicks]
    <2>1. CASE TimerTick(h)
      <3>1. count[h] + 1 \in 0..MaxTicks
        BY <2>1, <1>4, HumanAssumption DEF TimerTick, TimerGoto, TypeInv, CountInv
      <3> QED
        BY <2>1, <3>1 DEF TimerTick, TypeInv, TypeOK
    <2>2. CASE TimerSend(h)
      <3>1. posted[h] + 1 \in 0..MaxTicks
        BY <2>2, <1>4, HumanAssumption DEF TimerSend, TimerGoto, TypeInv, CountInv
      <3> QED
        BY <2>2, <3>1 DEF TimerSend, TypeInv, TypeOK
    <2> QED
      BY <2>1, <2>2 DEF TimerStep, TimerTest, TimerWake, TypeInv, TypeOK
  <1>6. CountInv'
    <2> SUFFICES ASSUME NEW g \in Humans
                 PROVE  /\ count'[g] = posted'[g] + (IF timer'[g] = "send" THEN 1 ELSE 0)
                        /\ timer'[g] \in {"sleep", "count"} => count'[g] < MaxTicks
                        /\ ~timerThread'[g] => timer'[g] = "none"
      BY DEF CountInv
    <2>1. /\ count[g] = posted[g] + (IF timer[g] = "send" THEN 1 ELSE 0)
          /\ timer[g] \in {"sleep", "count"} => count[g] < MaxTicks
          /\ ~timerThread[g] => timer[g] = "none"
          /\ count[g] \in 0..MaxTicks /\ posted[g] \in 0..MaxTicks
      BY DEF CountInv, TypeInv, TypeOK
    <2>2. CASE TimerTest(h)
      BY <2>1, <2>2 DEF TimerTest, TimerGoto, TypeInv, TypeOK
    <2>3. CASE TimerWake(h)
      BY <2>1, <2>3 DEF TimerWake, TimerGoto, TypeInv, TypeOK
    <2>4. CASE TimerTick(h)
      BY <2>1, <2>4 DEF TimerTick, TimerGoto, TypeInv, TypeOK
    <2>5. CASE TimerSend(h)
      BY <2>1, <2>5 DEF TimerSend, TimerGoto, TypeInv, TypeOK
    <2> QED
      BY <2>2, <2>3, <2>4, <2>5 DEF TimerStep
  <1>7. MainInv'
    BY <1>1 DEF TimerGoto, TypeInv, MainInv
  <1> QED
    BY <1>1, <1>2, <1>3, <1>5, <1>6, <1>7 DEF TypeInv, TypeOK, TimerGoto

LEMMA TypeDestroyHuman ==
  ASSUME TypeInv, NEW h \in Humans, DestroyHuman(h)
  PROVE  TypeInv'
  <1>1. main' \in [at : MainStates, call : Calls, human : Humans \cup {Nothing},
                   other : Humans \cup {Nothing}, arg : Words \cup {Nothing}] /\ MainInv'
    BY FrameType DEF DestroyHuman, MainStates, Calls
  <1>2. CountInv'
    BY DEF CountInv, TypeInv, timers, DestroyHuman
  <1>3. /\ life' \in [Humans -> {"alive", "base", "gone"}]
        /\ fate' \in {"running", "terminate", "undefined"}
    BY DEF DestroyHuman, TypeInv, TypeOK
  <1> QED
    BY <1>1, <1>2, <1>3 DEF TypeInv, TypeOK, timers, DestroyHuman

(* A message is taken from the queue.                                      *)
LEMMA TakeType ==
  ASSUME TypeOK, NEW h \in Humans, queue[h] # <<>>,
         queue' = [queue EXCEPT ![h] = Tail(@)]
  PROVE  Head(queue[h]) \in Message /\ queue' \in [Humans -> Seq(Message)]
  <1>1. queue[h] \in Seq(Message)
    BY DEF TypeOK
  <1>2. Head(queue[h]) \in Message /\ Tail(queue[h]) \in Seq(Message)
    BY <1>1
  <1> QED
    BY <1>2 DEF TypeOK

LEMMA TypeSlotBegin ==
  ASSUME TypeInv, NEW h \in Humans, SlotBegin(h)
  PROVE  TypeInv'
  <1> DEFINE m == Head(queue[h])
  <1>1. m \in Message /\ queue' \in [Humans -> Seq(Message)]
    BY TakeType DEF TypeInv, SlotBegin
  <1>2. \/ /\ life' = [life EXCEPT ![h] = "gone"]
           /\ main' = [main EXCEPT !.at = "idle"]
           /\ UNCHANGED <<slot, fate>>
        \/ slot' = [slot EXCEPT ![h] = m] /\ UNCHANGED <<life, main, fate>>
        \/ fate' = "undefined" /\ UNCHANGED <<slot, life, main>>
    BY DEF SlotBegin
  <1>3. slot' \in [Humans -> Message \cup {Nothing}]
    BY <1>1, <1>2 DEF TypeInv, TypeOK
  <1>4. /\ life' \in [Humans -> {"alive", "base", "gone"}]
        /\ fate' \in {"running", "terminate", "undefined"}
    BY <1>2 DEF TypeInv, TypeOK
  <1>5. /\ main' \in [at : MainStates, call : Calls, human : Humans \cup {Nothing},
                       other : Humans \cup {Nothing}, arg : Words \cup {Nothing}]
        /\ MainInv'
    BY <1>2 DEF TypeInv, TypeOK, MainInv, MainStates
  <1>6. CountInv'
    BY DEF CountInv, TypeInv, timers, SlotBegin
  <1> QED
    BY <1>1, <1>3, <1>4, <1>5, <1>6 DEF TypeInv, TypeOK, timers, SlotBegin

LEMMA TypeSlotEnd ==
  ASSUME TypeInv, NEW h \in Humans, SlotEnd(h)
  PROVE  TypeInv'
  <1> DEFINE m == slot[h]
  <1>1. m \in Message
    BY DEF SlotEnd, TypeInv, TypeOK
  <1>2. slot' \in [Humans -> Message \cup {Nothing}]
    BY DEF SlotEnd, TypeInv, TypeOK
  <1>3. /\ sentence' \in [Humans -> Sentences]
        /\ question' \in [Humans -> [content : Words \cup {Nothing}, answer : Words \cup {Nothing}]]
    <2>1. CASE SlotEffect(h, m)
      <3>1. sentence' \in [Humans -> Sentences]
        <4>1. CASE m.signal \in SentenceSignals
          <5>1. PICK s \in {<<m.signal, m.arg>>, Torn} : sentence' = [sentence EXCEPT ![h] = s]
            BY <2>1, <4>1 DEF SlotEffect, Assign
          <5>2. s \in Sentences
            BY <1>1, <4>1 DEF Sentences, Message
          <5> QED
            BY <5>1, <5>2 DEF TypeInv, TypeOK
        <4> QED
          BY <2>1, <4>1 DEF SlotEffect, Assign, TypeInv, TypeOK
      <3>2. m.arg \in Words \cup {Nothing}
        BY <1>1 DEF Message
      <3>3. question' = [question EXCEPT ![h] =
               [content |-> IF m.signal \in ContentSignals THEN m.arg ELSE @.content,
                answer  |-> IF m.signal \in AnswerSignals THEN m.arg ELSE @.answer]]
        BY <2>1 DEF SlotEffect, Assign
      <3>4. question' \in [Humans -> [content : Words \cup {Nothing}, answer : Words \cup {Nothing}]]
        BY <3>2, <3>3 DEF TypeInv, TypeOK
      <3> QED
        BY <3>1, <3>4
    <2> QED
      BY <2>1 DEF SlotEnd, TypeInv, TypeOK
  <1>4. fate' \in {"running", "terminate", "undefined"}
    BY DEF SlotEnd, TypeInv, TypeOK
  <1>5. MainInv' /\ CountInv'
    BY DEF MainInv, CountInv, TypeInv, timers, SlotEnd
  <1> QED
    BY <1>2, <1>3, <1>4, <1>5 DEF TypeInv, TypeOK, timers, SlotEnd

(* The calls that send and wait, and those that do no more than begin.     *)
SendCall(h) ==
  \E call \in Signals \ DOMAIN Passed, arg \in Words \cup {Nothing} : Send(call, h, arg)

EnterCall(h) ==
  \E at \in {"writing", "reading"}, call \in Calls, o \in Humans, arg \in Words \cup {Nothing} :
    /\ at = "writing" => call \in DOMAIN Passed /\ arg \in Words
    /\ at = "reading" => o = h /\ call \in Getters
    /\ Begin(h) /\ main' = Frame(at, call, h, o, arg) /\ UNCHANGED <<object, timers>>

LEMMA CallKinds ==
  ASSUME NEW h \in Humans, Call(h)
  PROVE  \/ SendCall(h) \/ EnterCall(h) \/ CreateTimer(h) \/ DestroyTimer(h) \/ DestroyHuman(h)
  <1>1. CASE SendSayHelloSignal(h) \/ SendSayGoodByeSignal(h)
    BY <1>1, PassedCalls DEF SendSayHelloSignal, SendSayGoodByeSignal, SendCall, Signals,
                             SentenceSignals
  <1>2. CASE \E w \in Words : SendWillDoSignal(h, w) \/ SendPlanToDoSignal(h, w)
    BY <1>2, PassedCalls DEF SendWillDoSignal, SendPlanToDoSignal, SendCall, Signals,
                             SentenceSignals
  <1>3. CASE \E w \in Words : SendGetAQuestionSignal(h, w) \/ SendGetAAnswerSignal(h, w)
    BY <1>3, PassedCalls DEF SendGetAQuestionSignal, SendGetAAnswerSignal, SendCall, Signals,
                             ContentSignals, AnswerSignals
  <1>4. CASE \E o \in Humans, w \in Words :
               SendAskAQuestionSignal(h, o, w) \/ SendAnswerAQuestionSignal(h, o, w)
    <2>1. PICK o \in Humans, w \in Words :
            SendAskAQuestionSignal(h, o, w) \/ SendAnswerAQuestionSignal(h, o, w)
      BY <1>4
    <2>2. PICK call \in DOMAIN Passed :
            /\ Begin(h) /\ main' = Frame("writing", call, h, o, w)
            /\ UNCHANGED <<object, timers>>
      BY <2>1, PassedCalls DEF SendAskAQuestionSignal, SendAnswerAQuestionSignal
    <2>3. call \in Calls
      BY PassedCalls DEF Calls, Signals, ContentSignals, AnswerSignals
    <2> QED
      BY <2>2, <2>3 DEF EnterCall
  <1>5. CASE \E getter \in Getters : Get(h, getter)
    BY <1>5 DEF Get, EnterCall, Calls
  <1> QED
    BY <1>1, <1>2, <1>3, <1>4, <1>5 DEF Call

LEMMA TypeStep == TypeInv /\ [Next]_vars => TypeInv'
  <1> SUFFICES ASSUME TypeInv, [Next]_vars PROVE TypeInv'
    OBVIOUS
  <1>1. ASSUME NEW h \in Humans, Call(h) PROVE TypeInv'
    <2>1. CASE SendCall(h)
      BY <2>1, TypeSend DEF SendCall
    <2>2. CASE EnterCall(h)
      BY <2>2, TypeEnter DEF EnterCall, MainStates
    <2> QED
      BY <1>1, <2>1, <2>2, CallKinds, TypeCreateTimer, TypeDestroyTimer, TypeDestroyHuman
  <1>2. ASSUME NEW h \in Humans, TimerStep(h) \/ WorkerStep(h) PROVE TypeInv'
    BY <1>2, TypeTimerStep, TypeSlotBegin, TypeSlotEnd DEF WorkerStep
  <1>3. CASE MainStep
    BY <1>3, TypeWriteSentence, TypeReturns, TypeJoinTimer DEF MainStep
  <1>4. CASE UNCHANGED vars
    BY <1>4 DEF vars, object, timers, TypeInv, TypeOK, MainInv, CountInv
  <1> QED
    BY <1>1, <1>2, <1>3, <1>4 DEF Next, Stopped

LEMMA TypeInvariant == Spec => []TypeInv
  BY TypeInit, TypeStep, PTL DEF Spec

(* Every variable of a Human program has its type in every state.          *)
THEOREM TypeCorrect == Spec => []TypeOK
  <1>1. TypeInv => TypeOK
    BY DEF TypeInv
  <1> QED
    BY <1>1, TypeInvariant, PTL

(* Every tick a timer counts has its WantToSleep message, the last one     *)
(* before DestroyTimer returns included, and no timer thread is left when  *)
(* the object has none (Human.cpp:156-169, 277-290).                       *)
THEOREM TicksCounted == Spec => []CountMatchesMessages
  <1>1. TypeInv => CountMatchesMessages
    BY DEF TypeInv, CountInv, CountMatchesMessages
  <1> QED
    BY <1>1, TypeInvariant, PTL

(* Between DestroyTimer's return and the next CreateTimer nothing ticks    *)
(* and nothing is sent in the timer's name (Human.cpp:156-169, 277-290).   *)
THEOREM TimerQuiet == Spec => QuietWithoutTimer
  <1> DEFINE Quiet == \A h \in Humans :
                        ~timerThread[h] => count'[h] = count[h] /\ posted'[h] = posted[h]
  <1>1. ASSUME TypeInv, [Next]_vars PROVE Quiet
    <2>1. ASSUME NEW g \in Humans, TimerStep(g) PROVE Quiet
      <3>1. timerThread[g]
        BY <1>1, <2>1 DEF TypeInv, CountInv, TimerStep, TimerTest, TimerWake, TimerTick,
                          TimerSend, TimerGoto
      <3>2. /\ count' = count \/ count' = [count EXCEPT ![g] = @ + 1]
            /\ posted' = posted \/ posted' = [posted EXCEPT ![g] = @ + 1]
        BY <2>1 DEF TimerStep, TimerTest, TimerWake, TimerTick, TimerSend
      <3> QED
        BY <1>1, <3>1, <3>2 DEF TypeInv, TypeOK
    <2>2. ASSUME NEW g \in Humans, Call(g) PROVE Quiet
      <3>1. SendCall(g) \/ EnterCall(g) \/ CreateTimer(g) \/ DestroyTimer(g) \/ DestroyHuman(g)
        BY <2>2, CallKinds
      <3> QED
        BY <3>1 DEF SendCall, Send, EnterCall, CreateTimer, DestroyTimer, DestroyHuman,
                    object, timers
    <2>3. ASSUME NEW g \in Humans, WorkerStep(g) PROVE Quiet
      BY <2>3 DEF WorkerStep, SlotBegin, SlotEnd, timers
    <2>4. CASE MainStep
      BY <2>4 DEF MainStep, WriteSentence, SyncReturn, OtherReturn, GetReturn, JoinTimer,
                  DestroyBase, Return, PassOn, object, timers
    <2>5. CASE UNCHANGED vars
      BY <2>5 DEF vars, object, timers
    <2> QED
      BY <1>1, <2>1, <2>2, <2>3, <2>4, <2>5 DEF Next, Stopped
  <1>2. TypeInv /\ [Next]_vars => [Quiet]_vars
    BY <1>1
  <1> QED
    BY <1>2, TypeInvariant, PTL DEF Spec, QuietWithoutTimer

-----------------------------------------------------------------------------
(* The main thread's call determines what messages there are, and what has *)
(* become of the objects.                                                  *)

(* What the main thread can be doing in which call.                        *)
FrameInv ==
  /\ main.at = "waiting" =>
       /\ main.call \in Signals
       /\ main.call \notin DOMAIN Passed => main.other = main.human
  /\ main.at = "waitingOther" => main.call \in DOMAIN Passed
  /\ main.at = "reading" => main.call \in Getters
  /\ main.at = "joiningTimer" => main.call = "DestroyTimer"
  /\ main.at \in {"destroying", "joiningWorker"} => main.call = "Destroy"

LifeInv ==
  /\ \A h \in Humans :
       /\ life[h] = "base" => main.human = h /\ main.at \in {"destroying", "joiningWorker"}
       /\ life[h] # "alive" \/ h \notin Timed => ~timerThread[h]
  /\ fate = "running" /\ main.at \in {"destroying", "joiningWorker"} => life[main.human] = "base"

(* A message that is waited for is that of the main thread's call; another *)
(* one is a timer's, or the destroy message, which is the last.            *)
Awaited(h, m) ==
  \/ main.at = "waiting" /\ main.human = h /\ m.signal = main.call /\ m.arg = main.arg
  \/ /\ main.at = "waitingOther" /\ main.other = h
     /\ m.signal = Passed[main.call] /\ m.arg = main.arg

Destroys(h, m) ==
  m.signal = "DestroyThread" /\ main.at = "joiningWorker" /\ main.human = h

Expected(h, m) ==
  /\ m.wait => Awaited(h, m)
  /\ ~m.wait => Destroys(h, m) \/ (m.signal = "WantToSleep" /\ h \in Timed)

QueueInv ==
  \A h \in Humans : \A i \in DOMAIN queue[h] :
    /\ Expected(h, queue[h][i])
    /\ queue[h][i].signal = "DestroyThread" => i = Len(queue[h])

SlotInv ==
  \A h \in Humans :
    slot[h] # Nothing => Expected(h, slot[h]) /\ slot[h].signal # "DestroyThread"

ProtocolInv == TypeInv /\ FrameInv /\ LifeInv /\ QueueInv /\ SlotInv

LEMMA ProtocolInit == Init => ProtocolInv
  BY TypeInit DEF Init, ProtocolInv, FrameInv, LifeInv, QueueInv, SlotInv, Frame

LEMMA PostContents ==
  ASSUME TypeOK, NEW h \in Humans, NEW signal, NEW arg, NEW wait, Post(h, signal, arg, wait),
         NEW g \in Humans, NEW i \in DOMAIN queue'[g]
  PROVE  \/ i \in DOMAIN queue[g] /\ queue'[g][i] = queue[g][i] /\ (g # h => queue'[g] = queue[g])
         \/ /\ g = h /\ i = Len(queue'[g])
            /\ queue'[g][i] = [signal |-> signal, arg |-> arg, wait |-> wait]
  <1>1. queue[g] \in Seq(Message) /\ queue[h] \in Seq(Message)
    BY DEF TypeOK
  <1>2. CASE g = h
    <2> DEFINE m == [signal |-> signal, arg |-> arg, wait |-> wait]
    <2>1. queue'[g] = Append(queue[g], m)
      BY <1>2 DEF Post, TypeOK
    <2> HIDE DEF m
    <2>2. /\ Len(queue'[g]) = Len(queue[g]) + 1 /\ DOMAIN queue'[g] = 1..(Len(queue[g]) + 1)
          /\ DOMAIN queue[g] = 1..Len(queue[g])
          /\ i \in DOMAIN queue[g] => queue'[g][i] = queue[g][i]
          /\ i = Len(queue[g]) + 1 => queue'[g][i] = m
      BY <1>1, <2>1
    <2>3. Len(queue[g]) \in Nat
      BY <1>1
    <2> QED
      BY <1>2, <2>2, <2>3 DEF m
  <1>3. CASE g # h
    BY <1>3 DEF Post, TypeOK
  <1> QED
    BY <1>2, <1>3

LEMMA PostKeeps ==
  ASSUME TypeOK, NEW h \in Humans, NEW signal, NEW arg, NEW wait, Post(h, signal, arg, wait),
         NEW g \in Humans, NEW i \in DOMAIN queue[g]
  PROVE  i \in DOMAIN queue'[g] /\ queue'[g][i] = queue[g][i]
  <1>1. queue[g] \in Seq(Message)
    BY DEF TypeOK
  <1>2. CASE g = h
    <2> DEFINE m == [signal |-> signal, arg |-> arg, wait |-> wait]
    <2>1. queue'[g] = Append(queue[g], m)
      BY <1>2 DEF Post, TypeOK
    <2> HIDE DEF m
    <2> QED
      BY <1>1, <2>1
  <1>3. CASE g # h
    BY <1>3 DEF Post, TypeOK
  <1> QED
    BY <1>2, <1>3

LEMMA TakeContents ==
  ASSUME TypeOK, NEW h \in Humans, queue[h] # <<>>,
         queue' = [queue EXCEPT ![h] = Tail(@)]
  PROVE  /\ \A i \in DOMAIN queue'[h] : i + 1 \in DOMAIN queue[h] /\ queue'[h][i] = queue[h][i + 1]
         /\ \A i \in DOMAIN queue[h] : i # 1 =>
              i - 1 \in DOMAIN queue'[h] /\ queue'[h][i - 1] = queue[h][i]
         /\ Len(queue[h]) = Len(queue'[h]) + 1 /\ Len(queue[h]) \in Nat
         /\ DOMAIN queue'[h] = 1..Len(queue'[h]) /\ DOMAIN queue[h] = 1..Len(queue[h])
         /\ Head(queue[h]) = queue[h][1] /\ 1 \in DOMAIN queue[h]
         /\ \A g \in Humans \ {h} : queue'[g] = queue[g]
  <1>1. queue[h] \in Seq(Message)
    BY DEF TypeOK
  <1>2. queue'[h] = Tail(queue[h])
    BY DEF TypeOK
  <1>3. \A g \in Humans \ {h} : queue'[g] = queue[g]
    BY DEF TypeOK
  <1>4. /\ Len(queue[h]) \in Nat /\ Len(queue[h]) # 0
        /\ DOMAIN queue[h] = 1..Len(queue[h])
        /\ Head(queue[h]) = queue[h][1]
    BY <1>1
  <1>5. /\ Len(queue'[h]) = Len(queue[h]) - 1
        /\ DOMAIN queue'[h] = 1..Len(queue'[h])
        /\ \A i \in 1..(Len(queue[h]) - 1) : queue'[h][i] = queue[h][i + 1]
    <2>1. /\ Tail(queue[h]) \in Seq(Message) /\ Len(Tail(queue[h])) = Len(queue[h]) - 1
          /\ \A i \in 1..Len(Tail(queue[h])) : Tail(queue[h])[i] = queue[h][i + 1]
      BY <1>1, HeadTailProperties, Zenon
    <2>2. DOMAIN Tail(queue[h]) = 1..Len(Tail(queue[h]))
      BY <2>1, LenProperties, Zenon
    <2> QED
      BY <1>2, <2>1, <2>2, Zenon
  <1> DEFINE n == Len(queue[h])
  <1>6. n \in Nat /\ n # 0 /\ DOMAIN queue[h] = 1..n /\ DOMAIN queue'[h] = 1..(n - 1)
        /\ Len(queue'[h]) = n - 1 /\ \A i \in 1..(n - 1) : queue'[h][i] = queue[h][i + 1]
    BY <1>4, <1>5
  <1> HIDE DEF n
  <1>7. \A i \in DOMAIN queue'[h] : i + 1 \in DOMAIN queue[h] /\ queue'[h][i] = queue[h][i + 1]
    BY <1>6
  <1>8. ASSUME NEW i \in DOMAIN queue[h], i # 1
        PROVE  i - 1 \in DOMAIN queue'[h] /\ queue'[h][i - 1] = queue[h][i]
    <2>1. i - 1 \in 1..(n - 1) /\ (i - 1) + 1 = i
      BY <1>6, <1>8
    <2> QED
      BY <1>6, <2>1
  <1>9. Len(queue[h]) = Len(queue'[h]) + 1 /\ 1 \in DOMAIN queue[h]
    BY <1>6 DEF n
  <1> QED
    BY <1>3, <1>4, <1>5, <1>7, <1>8, <1>9

(* Nothing is waited for while the main thread is in no synchronous send,  *)
(* or has seen the end of it.                                              *)
NoWaits == \A h \in Humans : ~Unfinished(h)

LEMMA NothingAwaited ==
  ASSUME QueueInv, SlotInv,
         \/ main.at \notin {"waiting", "waitingOther"}
         \/ main.at = "waiting" /\ ~Unfinished(main.human)
         \/ main.at = "waitingOther" /\ ~Unfinished(main.other)
  PROVE  NoWaits
  <1> SUFFICES ASSUME NEW h \in Humans, Unfinished(h) PROVE FALSE
    BY DEF NoWaits
  <1>1. PICK m : m.wait /\ Expected(h, m)
    BY DEF Unfinished, QueueInv, SlotInv
  <1> QED
    BY <1>1 DEF Expected, Awaited

(* So every message then is a timer's.                                     *)
TimerMessage(h, m) == ~m.wait /\ m.signal = "WantToSleep" /\ h \in Timed

OnlyTimerMessages ==
  \A h \in Humans :
    /\ \A i \in DOMAIN queue[h] : TimerMessage(h, queue[h][i])
    /\ slot[h] # Nothing => TimerMessage(h, slot[h])

LEMMA OnlyTimers ==
  ASSUME QueueInv, SlotInv, NoWaits, main.at # "joiningWorker"
  PROVE  OnlyTimerMessages
  <1> SUFFICES ASSUME NEW h \in Humans, NEW m, Expected(h, m), ~m.wait PROVE TimerMessage(h, m)
    BY DEF OnlyTimerMessages, QueueInv, SlotInv, NoWaits, Unfinished
  <1> QED
    BY DEF Expected, Destroys, TimerMessage

LEMMA TimersKept ==
  ASSUME OnlyTimerMessages, UNCHANGED <<queue, slot>>
  PROVE  QueueInv' /\ SlotInv'
  BY DEF OnlyTimerMessages, QueueInv, SlotInv, Expected, TimerMessage

LEMMA MessagePosted ==
  ASSUME TypeOK, OnlyTimerMessages, UNCHANGED slot,
         NEW h \in Humans, NEW signal, NEW arg, NEW wait, Post(h, signal, arg, wait),
         Expected(h, [signal |-> signal, arg |-> arg, wait |-> wait])'
  PROVE  QueueInv' /\ SlotInv'
  <1> DEFINE m == [signal |-> signal, arg |-> arg, wait |-> wait]
  <1>1. ASSUME NEW g \in Humans, NEW i \in DOMAIN queue'[g]
        PROVE  /\ Expected(g, queue[g][i])'
               /\ queue'[g][i].signal = "DestroyThread" => i = Len(queue'[g])
    <2>1. CASE i \in DOMAIN queue[g] /\ queue'[g][i] = queue[g][i]
      BY <2>1 DEF OnlyTimerMessages, TimerMessage, Expected
    <2>2. CASE g = h /\ i = Len(queue'[g]) /\ queue'[g][i] = m
      BY <2>2
    <2> HIDE DEF m
    <2> QED
      BY <1>1, <2>1, <2>2, PostContents DEF m
  <1>2. QueueInv'
    BY <1>1 DEF QueueInv
  <1>3. SlotInv'
    BY DEF OnlyTimerMessages, SlotInv, TimerMessage, Expected
  <1> QED
    BY <1>2, <1>3

(* A call begins: nothing is waited for.                                   *)
LEMMA AtBegin ==
  ASSUME ProtocolInv, main.at \notin {"waiting", "waitingOther", "joiningWorker"}
  PROVE  OnlyTimerMessages
  BY NothingAwaited, OnlyTimers DEF ProtocolInv

LEMMA ProtocolSend ==
  ASSUME ProtocolInv, NEW h \in Humans, SendCall(h)
  PROVE  FrameInv' /\ LifeInv' /\ QueueInv' /\ SlotInv'
  <1>1. PICK call \in Signals, arg \in Words \cup {Nothing} : Send(call, h, arg)
    BY DEF SendCall
  <1>2. /\ main.at = "idle" /\ life[h] = "alive" /\ main' = Frame("waiting", call, h, h, arg)
        /\ Post(h, call, arg, TRUE)
        /\ UNCHANGED <<slot, life, timerThread>>
    BY <1>1 DEF Send, Begin, timers
  <1>3. FrameInv' /\ LifeInv'
    BY <1>2 DEF ProtocolInv, FrameInv, LifeInv, Frame
  <1>4. Expected(h, [signal |-> call, arg |-> arg, wait |-> TRUE])'
    BY <1>2 DEF Expected, Awaited, Frame
  <1> QED
    BY <1>2, <1>3, <1>4, AtBegin, MessagePosted DEF ProtocolInv, TypeInv

LEMMA ProtocolBegin ==
  ASSUME ProtocolInv, NEW h \in Humans,
         EnterCall(h) \/ CreateTimer(h) \/ DestroyTimer(h) \/ DestroyHuman(h)
  PROVE  FrameInv' /\ LifeInv' /\ QueueInv' /\ SlotInv'
  <1>1. main.at = "idle" /\ life[h] = "alive" /\ UNCHANGED <<queue, slot>>
    BY DEF EnterCall, CreateTimer, DestroyTimer, DestroyHuman, Begin, object
  <1>2. QueueInv' /\ SlotInv'
    BY <1>1, AtBegin, TimersKept
  <1>3. FrameInv' /\ LifeInv'
    <2>1. CASE EnterCall(h)
      BY <1>1, <2>1 DEF EnterCall, ProtocolInv, FrameInv, LifeInv, Frame, object, timers
    <2>2. CASE CreateTimer(h)
      <3>1. /\ h \in Timed /\ main' = Frame("idle", "CreateTimer", h, h, Nothing) /\ life' = life
            /\ timerThread' = timerThread \/ timerThread' = [timerThread EXCEPT ![h] = TRUE]
        BY <2>2 DEF CreateTimer, StartThread, object
      <3>2. timerThread \in [Humans -> BOOLEAN]
        BY DEF ProtocolInv, TypeInv, TypeOK
      <3>3. FrameInv'
        BY <3>1 DEF FrameInv, Frame
      <3>4. LifeInv'
        BY <1>1, <3>1, <3>2 DEF LifeInv, Frame, ProtocolInv
      <3> QED
        BY <3>3, <3>4
    <2>3. CASE DestroyTimer(h)
      BY <1>1, <2>3 DEF DestroyTimer, ProtocolInv, FrameInv, LifeInv, Frame, object
    <2>4. CASE DestroyHuman(h)
      BY <1>1, <2>4 DEF DestroyHuman, ProtocolInv, TypeInv, TypeOK, FrameInv, LifeInv, Frame,
                        timers
    <2> QED
      BY <2>1, <2>2, <2>3, <2>4
  <1> QED
    BY <1>2, <1>3

LEMMA ProtocolWrite ==
  ASSUME ProtocolInv, WriteSentence
  PROVE  FrameInv' /\ LifeInv' /\ QueueInv' /\ SlotInv'
  <1>1. /\ main.at = "writing" /\ main.human \in Humans /\ main.call \in DOMAIN Passed
        /\ main' = [main EXCEPT !.at = "waiting"]
        /\ Post(main.human, main.call, main.arg, TRUE)
        /\ UNCHANGED <<slot, life, timerThread>>
    BY DEF WriteSentence, ProtocolInv, TypeInv, MainInv, timers
  <1>2. main' \in [at : MainStates, call : Calls, human : Humans \cup {Nothing},
                   other : Humans \cup {Nothing}, arg : Words \cup {Nothing}]
        /\ main'.at = "waiting" /\ main'.human = main.human /\ main'.call = main.call
        /\ main'.arg = main.arg
    BY <1>1 DEF ProtocolInv, TypeInv, TypeOK, MainStates
  <1>3. FrameInv'
    BY <1>1, <1>2, PassedCalls DEF FrameInv, Signals, ContentSignals, AnswerSignals
  <1>4. LifeInv'
    BY <1>1, <1>2 DEF LifeInv, ProtocolInv
  <1>5. PICK h, call, arg : h = main.human /\ call = main.call /\ arg = main.arg
    OBVIOUS
  <1>6. Expected(h, [signal |-> call, arg |-> arg, wait |-> TRUE])'
    BY <1>2, <1>5 DEF Expected, Awaited
  <1>7. TypeOK /\ OnlyTimerMessages
    BY <1>1, AtBegin DEF ProtocolInv, TypeInv
  <1>8. QueueInv' /\ SlotInv'
    BY <1>1, <1>5, <1>6, <1>7, MessagePosted
  <1> QED
    BY <1>3, <1>4, <1>8

LEMMA ProtocolReturn ==
  ASSUME ProtocolInv, main.at \in {"waiting", "waitingOther", "reading", "joiningTimer"}, NoWaits,
         main' = [main EXCEPT !.at = "idle"], UNCHANGED <<queue, slot, life, fate>>,
         timerThread' = timerThread \/ timerThread' = [timerThread EXCEPT ![main.human] = FALSE]
  PROVE  FrameInv' /\ LifeInv' /\ QueueInv' /\ SlotInv'
  <1>1. main'.at = "idle" /\ main'.human = main.human
    BY DEF ProtocolInv, TypeInv, TypeOK
  <1>2. FrameInv' /\ LifeInv'
    BY <1>1 DEF ProtocolInv, TypeInv, TypeOK, FrameInv, LifeInv
  <1> QED
    BY <1>2, OnlyTimers, TimersKept DEF ProtocolInv

LEMMA ProtocolPassOn ==
  ASSUME ProtocolInv, main.at = "waiting", NoWaits, main.call \in DOMAIN Passed, PassOn
  PROVE  FrameInv' /\ LifeInv' /\ QueueInv' /\ SlotInv'
  <1>1. /\ main'.at = "waitingOther" /\ main'.human = main.human /\ main'.other = main.other
        /\ main'.call = main.call /\ main'.arg = main.arg /\ main.other \in Humans
        /\ UNCHANGED <<life, timerThread, slot, fate>>
    BY DEF PassOn, ProtocolInv, TypeInv, TypeOK, MainInv, timers
  <1>2. FrameInv' /\ LifeInv'
    BY <1>1 DEF ProtocolInv, FrameInv, LifeInv
  <1>3. PICK h, signal, arg : h = main.other /\ signal = Passed[main.call] /\ arg = main.arg
    OBVIOUS
  <1>4. Expected(h, [signal |-> signal, arg |-> arg, wait |-> TRUE])'
    BY <1>1, <1>3 DEF Expected, Awaited
  <1>5. TypeOK /\ OnlyTimerMessages
    BY OnlyTimers DEF ProtocolInv, TypeInv
  <1>6. Post(h, signal, arg, TRUE) /\ UNCHANGED slot /\ h \in Humans
    BY <1>1, <1>3 DEF PassOn
  <1>7. QueueInv' /\ SlotInv'
    BY <1>4, <1>5, <1>6, MessagePosted
  <1> QED
    BY <1>2, <1>7

LEMMA ProtocolDestroyBase ==
  ASSUME ProtocolInv, DestroyBase
  PROVE  FrameInv' /\ LifeInv' /\ QueueInv' /\ SlotInv'
  <1>1. /\ main.at = "destroying" /\ main'.at = "joiningWorker" /\ main'.human = main.human
        /\ main'.call = main.call /\ main.human \in Humans
        /\ UNCHANGED <<life, timerThread, slot, fate>>
    BY DEF DestroyBase, ProtocolInv, TypeInv, TypeOK, MainInv, timers
  <1>2. FrameInv' /\ LifeInv'
    BY <1>1 DEF ProtocolInv, FrameInv, LifeInv
  <1>3. PICK h, signal, arg : h = main.human /\ signal = "DestroyThread" /\ arg = Nothing
    OBVIOUS
  <1>4. Expected(h, [signal |-> signal, arg |-> arg, wait |-> FALSE])'
    BY <1>1, <1>3 DEF Expected, Destroys
  <1>5. TypeOK /\ OnlyTimerMessages
    BY <1>1, AtBegin DEF ProtocolInv, TypeInv
  <1>6. Post(h, signal, arg, FALSE) /\ UNCHANGED slot /\ h \in Humans
    BY <1>1, <1>3 DEF DestroyBase
  <1>7. QueueInv' /\ SlotInv'
    BY <1>4, <1>5, <1>6, MessagePosted
  <1> QED
    BY <1>2, <1>7

LEMMA ProtocolMainStep ==
  ASSUME ProtocolInv, MainStep
  PROVE  FrameInv' /\ LifeInv' /\ QueueInv' /\ SlotInv'
  <1>1. CASE WriteSentence
    BY <1>1, ProtocolWrite
  <1>2. CASE SyncReturn
    <2>1. main.at = "waiting" /\ NoWaits
      BY <1>2, NothingAwaited DEF SyncReturn, ProtocolInv
    <2>2. CASE Return
      BY <2>1, <2>2, ProtocolReturn DEF Return, object, timers
    <2>3. CASE main.call \in DOMAIN Passed /\ PassOn
      BY <2>1, <2>3, ProtocolPassOn
    <2> QED
      BY <1>2, <2>2, <2>3 DEF SyncReturn
  <1>3. CASE OtherReturn
    <2>1. main.at = "waitingOther" /\ NoWaits /\ Return
      BY <1>3, NothingAwaited DEF OtherReturn, ProtocolInv
    <2> QED
      BY <2>1, ProtocolReturn DEF Return, object, timers
  <1>4. CASE GetReturn
    <2>1. main.at = "reading" /\ NoWaits /\ Return
      BY <1>4, NothingAwaited DEF GetReturn, ProtocolInv
    <2> QED
      BY <2>1, ProtocolReturn DEF Return, object, timers
  <1>5. CASE JoinTimer
    <2>1. main.at = "joiningTimer" /\ NoWaits
      BY <1>5, NothingAwaited DEF JoinTimer, ProtocolInv
    <2> QED
      BY <1>5, <2>1, ProtocolReturn DEF JoinTimer, object
  <1>6. CASE DestroyBase
    BY <1>6, ProtocolDestroyBase
  <1> QED
    BY <1>1, <1>2, <1>3, <1>4, <1>5, <1>6 DEF MainStep

LEMMA AwaitedSignals ==
  ASSUME FrameInv, NEW h, NEW m, Awaited(h, m)
  PROVE  m.signal \in Signals /\ m.signal # "DestroyThread"
  <1>1. m.signal \in Signals
    BY PassedCalls DEF FrameInv, Awaited
  <1> QED
    BY <1>1 DEF Signals, SentenceSignals, ContentSignals, AnswerSignals

LEMMA ProtocolTimerStep ==
  ASSUME ProtocolInv, NEW h \in Humans, TimerStep(h)
  PROVE  FrameInv' /\ LifeInv' /\ QueueInv' /\ SlotInv'
  <1>1. UNCHANGED <<timerThread, slot, life, main, fate>> /\ timer[h] # "none" /\ fate = "running"
    BY DEF TimerStep, TimerTest, TimerWake, TimerTick, TimerSend, TimerGoto
  <1>2. FrameInv' /\ LifeInv' /\ SlotInv'
    BY <1>1 DEF ProtocolInv, FrameInv, LifeInv, SlotInv, Expected, Awaited, Destroys
  <1>3. QueueInv'
    <2>1. CASE queue' = queue
      BY <1>1, <2>1 DEF ProtocolInv, QueueInv, Expected, Awaited, Destroys
    <2>2. CASE Post(h, "WantToSleep", Nothing, FALSE)
      <3>1. h \in Timed /\ life[h] = "alive"
        BY <1>1 DEF ProtocolInv, TypeInv, CountInv, LifeInv
      <3>2. ASSUME NEW g \in Humans, NEW i \in DOMAIN queue'[g]
            PROVE  /\ Expected(g, queue[g][i])'
                   /\ queue'[g][i].signal = "DestroyThread" => i = Len(queue'[g])
        <4>1. CASE /\ i \in DOMAIN queue[g] /\ queue'[g][i] = queue[g][i]
                   /\ g # h => queue'[g] = queue[g]
          <5>1. /\ Expected(g, queue[g][i])
                /\ queue[g][i].signal = "DestroyThread" => i = Len(queue[g])
            BY <4>1 DEF ProtocolInv, QueueInv
          <5>2. Expected(g, queue[g][i])'
            BY <1>1, <4>1, <5>1 DEF Expected, Awaited, Destroys
          <5>3. g = h => queue[g][i].signal # "DestroyThread"
            <6> SUFFICES ASSUME g = h, queue[h][i].signal = "DestroyThread" PROVE FALSE
              OBVIOUS
            <6>1. ~queue[h][i].wait
              BY <5>1, AwaitedSignals DEF Expected, ProtocolInv
            <6>2. main.at = "joiningWorker" /\ main.human = h
              BY <5>1, <6>1 DEF Expected, Destroys
            <6> QED
              BY <1>1, <3>1, <6>2 DEF ProtocolInv, LifeInv
          <5> QED
            BY <4>1, <5>1, <5>2, <5>3
        <4>2. CASE /\ g = h /\ i = Len(queue'[g])
                   /\ queue'[g][i] = [signal |-> "WantToSleep", arg |-> Nothing, wait |-> FALSE]
          BY <3>1, <4>2 DEF Expected
        <4>3. TypeOK
          BY DEF ProtocolInv, TypeInv
        <4>4. PICK signal, arg, wait : signal = "WantToSleep" /\ arg = Nothing /\ wait = FALSE
          OBVIOUS
        <4>5. Post(h, signal, arg, wait)
          BY <2>2, <4>4
        <4>6. \/ i \in DOMAIN queue[g] /\ queue'[g][i] = queue[g][i] /\ (g # h => queue'[g] = queue[g])
              \/ /\ g = h /\ i = Len(queue'[g])
                 /\ queue'[g][i] = [signal |-> signal, arg |-> arg, wait |-> wait]
          BY <3>2, <4>3, <4>5, PostContents
        <4> QED
          BY <4>1, <4>2, <4>4, <4>6
      <3> QED
        BY <3>2 DEF QueueInv
    <2> QED
      BY <2>1, <2>2 DEF TimerStep, TimerTest, TimerWake, TimerTick, TimerSend
  <1> QED
    BY <1>2, <1>3

(* A message is taken while the main thread's call stays the same.         *)
LEMMA QueueTaken ==
  ASSUME ProtocolInv, NEW h \in Humans, queue[h] # <<>>,
         queue' = [queue EXCEPT ![h] = Tail(@)], main' = main
  PROVE  QueueInv'
  <1>1. ASSUME NEW g \in Humans, NEW i \in DOMAIN queue'[g]
        PROVE  /\ Expected(g, queue[g][i])'
               /\ queue'[g][i].signal = "DestroyThread" => i = Len(queue'[g])
    <2>1. PICK j \in DOMAIN queue[g] :
            /\ queue'[g][i] = queue[g][j]
            /\ j = Len(queue[g]) => i = Len(queue'[g])
      <3>1. CASE g = h
        <4>1. TypeOK
          BY DEF ProtocolInv, TypeInv
        <4>2. /\ i + 1 \in DOMAIN queue[h] /\ queue'[h][i] = queue[h][i + 1]
              /\ Len(queue[h]) = Len(queue'[h]) + 1 /\ Len(queue[h]) \in Nat
              /\ DOMAIN queue'[h] = 1..Len(queue'[h]) /\ DOMAIN queue[h] = 1..Len(queue[h])
          BY <1>1, <3>1, <4>1, TakeContents
        <4>3. (i + 1 = Len(queue[h])) => (i = Len(queue'[h]))
          BY <1>1, <3>1, <4>2
        <4> QED
          BY <3>1, <4>2, <4>3
      <3>2. CASE g # h
        BY <1>1, <3>2, TakeContents DEF ProtocolInv, TypeInv
      <3> QED
        BY <3>1, <3>2
    <2>2. Expected(g, queue[g][j]) /\ (queue[g][j].signal = "DestroyThread" => j = Len(queue[g]))
      BY <2>1 DEF ProtocolInv, QueueInv
    <2>3. ASSUME NEW m, Expected(g, m) PROVE Expected(g, m)'
      BY <2>3 DEF Expected, Awaited, Destroys
    <2> QED
      BY <2>1, <2>2, <2>3
  <1> QED
    BY <1>1 DEF QueueInv

LEMMA ProtocolSlotBegin ==
  ASSUME ProtocolInv, NEW h \in Humans, SlotBegin(h)
  PROVE  FrameInv' /\ LifeInv' /\ QueueInv' /\ SlotInv'
  <1>1. /\ TypeOK /\ fate = "running" /\ slot[h] = Nothing /\ queue[h] # <<>>
        /\ queue' = [queue EXCEPT ![h] = Tail(@)] /\ timerThread' = timerThread
    BY DEF SlotBegin, ProtocolInv, TypeInv, timers
  <1>2. PICK m : m = Head(queue[h])
    OBVIOUS
  <1>3. /\ 1 \in DOMAIN queue[h] /\ m = queue[h][1]
        /\ Len(queue[h]) = Len(queue'[h]) + 1 /\ Len(queue[h]) \in Nat
        /\ DOMAIN queue'[h] = 1..Len(queue'[h])
        /\ \A g \in Humans \ {h} : queue'[g] = queue[g]
    BY <1>1, <1>2, TakeContents
  <1>4. Expected(h, m) /\ (m.signal = "DestroyThread" => Len(queue[h]) = 1)
    BY <1>3 DEF ProtocolInv, QueueInv
  <1>5. CASE m.signal = "DestroyThread"
    <2>1. main.at = "joiningWorker" /\ main.human = h
      BY <1>4, <1>5, AwaitedSignals DEF Expected, Destroys, ProtocolInv
    <2>2. /\ life' = [life EXCEPT ![h] = "gone"]
          /\ main' = [main EXCEPT !.at = "idle"] /\ UNCHANGED <<slot, fate>>
      BY <1>2, <1>5 DEF SlotBegin
    <2>3. main'.at = "idle" /\ life'[h] = "gone" /\ \A g \in Humans \ {h} : life'[g] = life[g]
      BY <2>2 DEF ProtocolInv, TypeInv, TypeOK
    <2>4. FrameInv' /\ LifeInv'
      BY <1>1, <2>1, <2>3 DEF ProtocolInv, FrameInv, LifeInv
    <2>5. ASSUME NEW g \in Humans, NEW n, Expected(g, n), g # h PROVE Expected(g, n)'
      BY <2>1, <2>5 DEF Expected, Awaited, Destroys
    <2>6. QueueInv'
      <3>1. DOMAIN queue'[h] = {}
        BY <1>3, <1>4, <1>5
      <3> QED
        BY <1>3, <2>5, <3>1 DEF ProtocolInv, QueueInv
    <2>7. SlotInv'
      BY <1>1, <2>2, <2>5 DEF ProtocolInv, SlotInv
    <2> QED
      BY <2>4, <2>6, <2>7
  <1>6. CASE m.signal # "DestroyThread"
    <2>1. /\ UNCHANGED <<life, main>>
          /\ fate' = "undefined" \/ fate' = fate
          /\ slot' = slot \/ slot' = [slot EXCEPT ![h] = m]
      BY <1>2, <1>6 DEF SlotBegin
    <2>2. FrameInv' /\ LifeInv'
      BY <1>1, <2>1 DEF ProtocolInv, FrameInv, LifeInv
    <2>3. QueueInv'
      BY <1>1, <2>1, QueueTaken
    <2>4. ASSUME NEW g, NEW n, Expected(g, n) PROVE Expected(g, n)'
      BY <2>1, <2>4 DEF Expected, Awaited, Destroys
    <2>5. SlotInv'
      BY <1>1, <1>4, <1>6, <2>1, <2>4 DEF ProtocolInv, SlotInv, TypeOK
    <2> QED
      BY <2>2, <2>3, <2>5
  <1> QED
    BY <1>5, <1>6

LEMMA ProtocolSlotEnd ==
  ASSUME ProtocolInv, NEW h \in Humans, SlotEnd(h)
  PROVE  FrameInv' /\ LifeInv' /\ QueueInv' /\ SlotInv'
  <1>1. /\ UNCHANGED <<queue, life, main, timerThread>>
        /\ fate' = "undefined" \/ fate' = fate
        /\ slot' = [slot EXCEPT ![h] = Nothing] /\ slot \in [Humans -> Message \cup {Nothing}]
    BY DEF SlotEnd, timers, ProtocolInv, TypeInv, TypeOK
  <1>2. FrameInv' /\ LifeInv'
    BY <1>1 DEF ProtocolInv, FrameInv, LifeInv
  <1>3. ASSUME NEW g, NEW n, Expected(g, n) PROVE Expected(g, n)'
    BY <1>1, <1>3 DEF Expected, Awaited, Destroys
  <1>4. QueueInv' /\ SlotInv'
    BY <1>1, <1>3 DEF ProtocolInv, QueueInv, SlotInv
  <1> QED
    BY <1>2, <1>4

LEMMA ProtocolStep == ProtocolInv /\ [Next]_vars => ProtocolInv'
  <1> SUFFICES ASSUME ProtocolInv, [Next]_vars PROVE ProtocolInv'
    OBVIOUS
  <1>1. TypeInv'
    BY TypeStep DEF ProtocolInv
  <1>2. FrameInv' /\ LifeInv' /\ QueueInv' /\ SlotInv'
    <2>1. ASSUME NEW h \in Humans, Call(h) \/ TimerStep(h) \/ WorkerStep(h)
          PROVE  FrameInv' /\ LifeInv' /\ QueueInv' /\ SlotInv'
      BY <2>1, CallKinds, ProtocolSend, ProtocolBegin, ProtocolTimerStep, ProtocolSlotBegin,
         ProtocolSlotEnd DEF WorkerStep
    <2>2. CASE MainStep
      BY <2>2, ProtocolMainStep
    <2>3. CASE UNCHANGED vars
      BY <2>3 DEF vars, object, timers, ProtocolInv, FrameInv, LifeInv, QueueInv, SlotInv,
                  Expected, Awaited, Destroys
    <2> QED
      BY <2>1, <2>2, <2>3 DEF Next, Stopped
  <1> QED
    BY <1>1, <1>2 DEF ProtocolInv

LEMMA ProtocolInvariant == Spec => []ProtocolInv
  BY ProtocolInit, ProtocolStep, PTL DEF Spec

(* No member of an object without a timer is accessed by the main thread   *)
(* while another thread writes it: what its worker runs is only what the   *)
(* main thread waits for (Human.cpp:16-22, 81, 113).                       *)
THEOREM RaceFree == Spec => []NoDataRace
  <1>1. ProtocolInv => NoDataRace
    <2> SUFFICES ASSUME ProtocolInv, NEW h \in Humans \ Timed, main.at \in {"reading", "writing"}
                 PROVE  WrittenByOthers(h) = {}
      BY DEF NoDataRace, MainAccess
    <2>1. slot[h] = Nothing
      BY AtBegin DEF OnlyTimerMessages, TimerMessage
    <2>2. timer[h] = "none"
      BY DEF ProtocolInv, TypeInv, CountInv, LifeInv
    <2> QED
      BY <2>1, <2>2 DEF WrittenByOthers
  <1> QED
    BY <1>1, ProtocolInvariant, PTL

(* No slot runs on destroyed members and no thread object is destroyed     *)
(* unjoined in a program that uses no timer of the object it destroys:     *)
(* every message of such an object has been waited for before              *)
(* (Human.cpp:10, ThreadBase.cpp:5-23).                                    *)
THEOREM NeverAborts == Spec => []NoAbort
  <1>1. Init => NoAbort
    BY DEF Init, NoAbort
  <1>2. ASSUME ProtocolInv, NoAbort, [Next]_vars, fate' # "running"
        PROVE  main'.human \in Timed
    <2>1. ASSUME NEW h \in Humans, Call(h) PROVE main'.human \in Timed
      <3>1. CASE DestroyHuman(h)
        <4>1. timerThread[h] /\ main'.human = h
          BY <1>2, <3>1 DEF DestroyHuman, Frame
        <4> QED
          BY <1>2, <4>1 DEF ProtocolInv, LifeInv
      <3>2. CASE ~DestroyHuman(h)
        <4>1. SendCall(h) \/ EnterCall(h) \/ CreateTimer(h) \/ DestroyTimer(h)
          BY <2>1, <3>2, CallKinds
        <4>2. Begin(h)
          BY <4>1 DEF SendCall, Send, EnterCall, CreateTimer, DestroyTimer
        <4> QED
          BY <1>2, <4>2 DEF Begin
      <3> QED
        BY <3>1, <3>2
    <2>2. ASSUME NEW h \in Humans, NEW m, life[h] = "base", Expected(h, m),
                 m.signal # "DestroyThread"
          PROVE  main.human \in Timed
      <3>1. main.human = h /\ main.at \in {"destroying", "joiningWorker"}
        BY <1>2, <2>2 DEF ProtocolInv, LifeInv
      <3> QED
        BY <2>2, <3>1 DEF Expected, Awaited, Destroys
    <2>3. ASSUME NEW h \in Humans, SlotBegin(h) PROVE main'.human \in Timed
      <3>1. PICK m : m = Head(queue[h])
        OBVIOUS
      <3>2. m.signal # "DestroyThread" /\ life[h] = "base" /\ main' = main
        BY <1>2, <2>3, <3>1 DEF SlotBegin
      <3>3. m = queue[h][1] /\ 1 \in DOMAIN queue[h]
        BY <1>2, <2>3, <3>1, TakeContents DEF SlotBegin, ProtocolInv, TypeInv
      <3> QED
        BY <1>2, <2>2, <3>2, <3>3 DEF ProtocolInv, QueueInv
    <2>4. ASSUME NEW h \in Humans, SlotEnd(h) PROVE main'.human \in Timed
      <3>1. slot[h] # Nothing /\ life[h] = "base" /\ main' = main
        BY <1>2, <2>4 DEF SlotEnd
      <3> QED
        BY <1>2, <2>2, <3>1 DEF ProtocolInv, SlotInv
    <2>5. ASSUME NEW h \in Humans, TimerStep(h) PROVE FALSE
      BY <1>2, <2>5 DEF TimerStep, TimerTest, TimerWake, TimerTick, TimerSend, TimerGoto
    <2>6. CASE MainStep
      BY <1>2, <2>6 DEF MainStep, WriteSentence, SyncReturn, OtherReturn, GetReturn, JoinTimer,
                        DestroyBase, Return, PassOn
    <2>7. CASE UNCHANGED vars
      BY <1>2, <2>7 DEF vars, NoAbort
    <2> QED
      BY <1>2, <2>1, <2>3, <2>4, <2>5, <2>6, <2>7 DEF Next, Stopped, WorkerStep
  <1>3. ProtocolInv /\ NoAbort /\ [Next]_vars => NoAbort'
    BY <1>2 DEF NoAbort
  <1> QED
    BY <1>1, <1>3, ProtocolInvariant, PTL DEF Spec

-----------------------------------------------------------------------------
(* What a call leaves behind can be read when it has returned.             *)

Heard(h) ==
  /\ main.call \in ContentSignals => question[h].content = main.arg
  /\ main.call \in AnswerSignals => question[h].answer = main.arg

Uttered(h) ==
  main.call \in SentenceSignals /\ h \notin Timed => sentence[h] = <<main.call, main.arg>>

Told(h, o) ==
  main.call \in DOMAIN Passed /\ h \notin Timed => sentence[h] = <<o, main.arg>>

(* The call that the main thread makes or has made on h, concerning o.     *)
Visible(h, o) ==
  /\ main.at = "waiting" /\ ~Unfinished(h) => Heard(h) /\ Uttered(h)
  /\ main.at \in {"waiting", "waitingOther", "idle"} => Told(h, o)
  /\ main.at = "waitingOther" => Heard(h) /\ (~Unfinished(o) => Heard(o))
  /\ main.at = "idle" => Heard(h) /\ Heard(o) /\ Uttered(h)

VisibleInv ==
  fate = "running" =>
    /\ main.call \in Signals => main.human \in Humans /\ main.other \in Humans
    /\ \A h, o \in Humans : main.human = h /\ main.other = o => Visible(h, o)

LEMMA SignalKinds ==
  /\ \A call \in DOMAIN Passed :
       /\ call \in ContentSignals <=> Passed[call] \in ContentSignals
       /\ call \in AnswerSignals <=> Passed[call] \in AnswerSignals
       /\ call \notin SentenceSignals /\ Passed[call] \notin SentenceSignals
       /\ call \in Signals
  /\ "WantToSleep" \notin ContentSignals \cup AnswerSignals
  /\ Signals \cap (Getters \cup {"CreateTimer", "DestroyTimer", "Destroy"}) = {}
  BY DEF Passed, Signals, SentenceSignals, ContentSignals, AnswerSignals, Getters

LEMMA AwaitedPosted ==
  ASSUME TypeOK, NEW h \in Humans, NEW signal, NEW arg, Post(h, signal, arg, TRUE)
  PROVE  Unfinished(h)'
  <1> DEFINE m == [signal |-> signal, arg |-> arg, wait |-> TRUE]
  <1>1. queue[h] \in Seq(Message) /\ queue'[h] = Append(queue[h], m)
    BY DEF TypeOK, Post
  <1>2. m.wait
    OBVIOUS
  <1> HIDE DEF m
  <1>3. Len(queue[h]) + 1 \in DOMAIN queue'[h] /\ queue'[h][Len(queue[h]) + 1] = m
    BY <1>1
  <1> QED
    BY <1>2, <1>3 DEF Unfinished

(* The words of a call that sends no signal are nobody's.                  *)
LEMMA VisibleQuiet ==
  ASSUME main'.call \notin Signals
  PROVE  VisibleInv'
  BY SignalKinds DEF VisibleInv, Visible, Heard, Uttered, Told, Signals

LEMMA VisibleKept ==
  ASSUME VisibleInv, fate' = fate, UNCHANGED <<main, sentence, question>>,
         \A h \in Humans : Unfinished(h) => Unfinished(h)'
  PROVE  VisibleInv'
  <1> SUFFICES ASSUME fate = "running", NEW h \in Humans, NEW o \in Humans,
                      main.human = h, main.other = o
               PROVE  Visible(h, o)'
    BY DEF VisibleInv
  <1>1. Visible(h, o)
    BY DEF VisibleInv
  <1>2. (Heard(h) => Heard(h)') /\ (Heard(o) => Heard(o)')
    BY DEF Heard
  <1>3. (Uttered(h) => Uttered(h)') /\ (Told(h, o) => Told(h, o)')
    BY DEF Uttered, Told
  <1> QED
    BY <1>1, <1>2, <1>3 DEF Visible

LEMMA VisibleSend ==
  ASSUME ProtocolInv, NEW h \in Humans, SendCall(h)
  PROVE  VisibleInv'
  <1>1. PICK call \in Signals \ DOMAIN Passed, arg \in Words \cup {Nothing} :
            Send(call, h, arg)
    BY DEF SendCall
  <1>2. main' = Frame("waiting", call, h, h, arg) /\ Post(h, call, arg, TRUE)
    BY <1>1 DEF Send
  <1>3. Unfinished(h)'
    BY <1>2, AwaitedPosted DEF ProtocolInv, TypeInv
  <1> QED
    BY <1>2, <1>3 DEF VisibleInv, Visible, Told, Frame

LEMMA VisibleBegin ==
  ASSUME VisibleInv, NEW h \in Humans,
         EnterCall(h) \/ CreateTimer(h) \/ DestroyTimer(h) \/ DestroyHuman(h)
  PROVE  VisibleInv'
  <1>1. CASE EnterCall(h)
    <2>1. /\ main'.at \in {"writing", "reading"} /\ main'.human \in Humans
          /\ main'.other \in Humans
      BY <1>1 DEF EnterCall, Frame
    <2> QED
      BY <2>1 DEF VisibleInv, Visible
  <1>2. CASE CreateTimer(h) \/ DestroyTimer(h) \/ DestroyHuman(h)
    <2>1. main'.call \in {"CreateTimer", "DestroyTimer", "Destroy"}
      BY <1>2 DEF CreateTimer, DestroyTimer, DestroyHuman, Frame
    <2>2. main'.call \notin Signals
      BY <2>1, SignalKinds
    <2> QED
      BY <2>2, VisibleQuiet
  <1> QED
    BY <1>1, <1>2

LEMMA VisibleWrite ==
  ASSUME ProtocolInv, VisibleInv, WriteSentence
  PROVE  VisibleInv'
  <1>1. /\ fate = "running" /\ main.at = "writing" /\ main.human \in Humans
        /\ main.other \in Humans /\ main.call \in DOMAIN Passed
        /\ main'.at = "waiting" /\ main'.human = main.human /\ main'.other = main.other
        /\ main'.call = main.call /\ main'.arg = main.arg
    BY DEF WriteSentence, ProtocolInv, TypeInv, TypeOK, MainInv
  <1> SUFFICES ASSUME NEW h \in Humans, NEW o \in Humans, main'.human = h, main'.other = o
               PROVE  Visible(h, o)'
    BY <1>1 DEF VisibleInv
  <1>2. Unfinished(h)'
    <2>1. PICK call, arg : call = main.call /\ arg = main.arg
      OBVIOUS
    <2>2. TypeOK /\ Post(h, call, arg, TRUE)
      BY <1>1, <2>1 DEF WriteSentence, ProtocolInv, TypeInv
    <2> QED
      BY <2>2, AwaitedPosted
  <1>3. Told(h, o)'
    <2>1. h \notin Timed => ~Writing(h)
      BY <1>1, AtBegin DEF OnlyTimerMessages, TimerMessage, Writing
    <2>2. h \notin Timed => sentence' = [sentence EXCEPT ![h] = <<o, main.arg>>]
      BY <1>1, <2>1 DEF WriteSentence
    <2>3. sentence \in [Humans -> Sentences]
      BY DEF ProtocolInv, TypeInv, TypeOK
    <2>4. h \notin Timed => sentence'[h] = <<o, main.arg>>
      BY <2>2, <2>3
    <2> QED
      BY <1>1, <2>4 DEF Told
  <1> QED
    BY <1>1, <1>2, <1>3 DEF Visible

LEMMA VisibleSyncReturn ==
  ASSUME ProtocolInv, VisibleInv, SyncReturn
  PROVE  VisibleInv'
  <1>1. /\ fate = "running" /\ fate' = fate /\ main.at = "waiting" /\ ~Unfinished(main.human)
        /\ main.human \in Humans /\ main.other \in Humans /\ main.call \in Signals
        /\ main.call \notin DOMAIN Passed => main.other = main.human
        /\ main'.human = main.human /\ main'.other = main.other
        /\ main'.call = main.call /\ main'.arg = main.arg
        /\ sentence' = sentence /\ question' = question
    BY DEF SyncReturn, Return, PassOn, ProtocolInv, TypeInv, TypeOK, MainInv, FrameInv, object
  <1> SUFFICES ASSUME NEW h \in Humans, NEW o \in Humans, main.human = h, main.other = o
               PROVE  Visible(h, o)'
    BY <1>1 DEF VisibleInv
  <1>2. Visible(h, o) /\ ~Unfinished(h)
    BY <1>1 DEF VisibleInv
  <1>3. Heard(h) /\ Uttered(h) /\ Told(h, o)
    BY <1>1, <1>2 DEF Visible
  <1>4. Heard(h)' /\ Uttered(h)' /\ Told(h, o)'
    BY <1>1, <1>3 DEF Heard, Uttered, Told
  <1>5. CASE main.call \notin DOMAIN Passed /\ Return
    <2>1. main'.at = "idle" /\ o = h
      BY <1>1, <1>5 DEF Return, ProtocolInv, TypeInv, TypeOK
    <2> QED
      BY <1>4, <2>1 DEF Visible
  <1>6. CASE PassOn
    <2>1. main'.at = "waitingOther"
      BY <1>6 DEF PassOn, ProtocolInv, TypeInv, TypeOK
    <2>2. PICK signal, arg : signal = Passed[main.call] /\ arg = main.arg
      OBVIOUS
    <2>3. TypeOK /\ Post(o, signal, arg, TRUE)
      BY <1>6, <2>2 DEF PassOn, ProtocolInv, TypeInv
    <2>4. Unfinished(o)'
      BY <2>3, AwaitedPosted
    <2> QED
      BY <1>4, <2>1, <2>4 DEF Visible
  <1> QED
    BY <1>5, <1>6 DEF SyncReturn

LEMMA VisibleOtherReturn ==
  ASSUME ProtocolInv, VisibleInv, OtherReturn
  PROVE  VisibleInv'
  <1>1. /\ fate = "running" /\ main.at = "waitingOther" /\ ~Unfinished(main.other)
        /\ main.human \in Humans /\ main.other \in Humans /\ main.call \in DOMAIN Passed
        /\ main'.at = "idle" /\ main'.human = main.human /\ main'.other = main.other
        /\ main'.call = main.call /\ main'.arg = main.arg
        /\ sentence' = sentence /\ question' = question
    BY DEF OtherReturn, Return, ProtocolInv, TypeInv, TypeOK, MainInv, FrameInv, object
  <1> SUFFICES ASSUME NEW h \in Humans, NEW o \in Humans, main.human = h, main.other = o
               PROVE  Visible(h, o)'
    BY <1>1 DEF VisibleInv
  <1>2. Visible(h, o) /\ ~Unfinished(o)
    BY <1>1 DEF VisibleInv
  <1>3. Heard(h) /\ Heard(o) /\ Told(h, o) /\ main.call \notin SentenceSignals
    BY <1>1, <1>2, SignalKinds DEF Visible
  <1>4. Heard(h)' /\ Heard(o)' /\ Told(h, o)' /\ Uttered(h)'
    BY <1>1, <1>3 DEF Heard, Uttered, Told
  <1> QED
    BY <1>1, <1>4 DEF Visible

LEMMA VisibleMainStep ==
  ASSUME ProtocolInv, VisibleInv, MainStep
  PROVE  VisibleInv'
  <1>1. CASE GetReturn \/ JoinTimer
    <2>1. main'.call \in Getters \cup {"DestroyTimer"}
      BY <1>1 DEF GetReturn, Return, JoinTimer, ProtocolInv, TypeInv, TypeOK, FrameInv
    <2> QED
      BY <2>1, SignalKinds, VisibleQuiet
  <1>2. CASE DestroyBase
    <2>1. main'.call = "Destroy"
      BY <1>2 DEF DestroyBase, ProtocolInv, TypeInv, TypeOK, FrameInv
    <2> QED
      BY <2>1, SignalKinds, VisibleQuiet
  <1> QED
    BY <1>1, <1>2, VisibleWrite, VisibleSyncReturn, VisibleOtherReturn DEF MainStep

LEMMA VisibleTimerStep ==
  ASSUME ProtocolInv, VisibleInv, NEW h \in Humans, TimerStep(h)
  PROVE  VisibleInv'
  <1>1. UNCHANGED <<slot, sentence, question, main, fate>>
    BY DEF TimerStep, TimerTest, TimerWake, TimerTick, TimerSend, TimerGoto
  <1>2. ASSUME NEW g \in Humans, NEW i \in DOMAIN queue[g]
        PROVE  i \in DOMAIN queue'[g] /\ queue'[g][i] = queue[g][i]
    <2>1. CASE Post(h, "WantToSleep", Nothing, FALSE)
      <3>1. PICK signal, arg, wait : signal = "WantToSleep" /\ arg = Nothing /\ wait = FALSE
        OBVIOUS
      <3>2. TypeOK /\ Post(h, signal, arg, wait)
        BY <2>1, <3>1 DEF ProtocolInv, TypeInv
      <3> QED
        BY <3>2, PostKeeps
    <2>2. CASE queue' = queue
      BY <2>2
    <2> QED
      BY <2>1, <2>2 DEF TimerStep, TimerTest, TimerWake, TimerTick, TimerSend
  <1>3. \A g \in Humans : Unfinished(g) => Unfinished(g)'
    BY <1>1, <1>2 DEF Unfinished
  <1> QED
    BY <1>1, <1>3, VisibleKept

LEMMA VisibleSlotBegin ==
  ASSUME ProtocolInv, VisibleInv, NEW h \in Humans, SlotBegin(h)
  PROVE  VisibleInv'
  <1> SUFFICES ASSUME fate' = "running" PROVE VisibleInv'
    BY DEF VisibleInv
  <1>1. PICK m : m = Head(queue[h])
    OBVIOUS
  <1>2. /\ fate = "running" /\ slot[h] = Nothing /\ queue[h] # <<>>
        /\ queue' = [queue EXCEPT ![h] = Tail(@)] /\ TypeOK
        /\ UNCHANGED <<sentence, question>>
    BY DEF SlotBegin, ProtocolInv, TypeInv
  <1>3. m = queue[h][1] /\ 1 \in DOMAIN queue[h]
    BY <1>1, <1>2, TakeContents
  <1>4. CASE m.signal = "DestroyThread"
    <2>1. Expected(h, m)
      BY <1>3 DEF ProtocolInv, QueueInv
    <2>2. main.at = "joiningWorker" /\ main' = [main EXCEPT !.at = "idle"]
      BY <1>1, <1>4, <2>1, AwaitedSignals DEF SlotBegin, Expected, Destroys, ProtocolInv
    <2>3. main'.call = "Destroy"
      BY <1>2, <2>2 DEF TypeOK, ProtocolInv, FrameInv
    <2> QED
      BY <2>3, SignalKinds, VisibleQuiet
  <1>5. CASE m.signal # "DestroyThread"
    <2>1. main' = main /\ slot' = [slot EXCEPT ![h] = m]
      BY <1>1, <1>5 DEF SlotBegin
    <2>2. m \in Message /\ m # Nothing
      BY <1>2, <1>3, HumanAssumption DEF TypeOK
    <2>3. slot'[h] = m /\ \A g \in Humans \ {h} : slot'[g] = slot[g]
      BY <1>2, <2>1 DEF TypeOK
    <2>4. Unfinished(h) => Unfinished(h)'
      <3>1. ASSUME NEW i \in DOMAIN queue[h], queue[h][i].wait PROVE Unfinished(h)'
        <4>1. CASE i = 1
          BY <1>3, <2>2, <2>3, <3>1, <4>1 DEF Unfinished
        <4>2. CASE i # 1
          <5>1. i - 1 \in DOMAIN queue'[h] /\ queue'[h][i - 1] = queue[h][i]
            BY <1>2, <4>2, TakeContents
          <5> QED
            BY <3>1, <5>1 DEF Unfinished
        <4> QED
          BY <4>1, <4>2
      <3> QED
        BY <1>2, <3>1 DEF Unfinished
    <2>5. ASSUME NEW g \in Humans, g # h, Unfinished(g) PROVE Unfinished(g)'
      <3>1. queue'[g] = queue[g] /\ slot'[g] = slot[g]
        BY <1>2, <2>3, <2>5, TakeContents
      <3> QED
        BY <2>5, <3>1 DEF Unfinished
    <2> QED
      BY <1>2, <2>1, <2>4, <2>5, VisibleKept
  <1> QED
    BY <1>4, <1>5

(* A timer's slot leaves what the main thread looks at as it was; the slot *)
(* of the message that it waits for does what it is to see.                *)
LEMMA VisibleSlotEnd ==
  ASSUME ProtocolInv, VisibleInv, NEW g \in Humans, SlotEnd(g)
  PROVE  VisibleInv'
  <1> SUFFICES ASSUME fate' = "running" PROVE VisibleInv'
    BY DEF VisibleInv
  <1>1. PICK m : m = slot[g]
    OBVIOUS
  <1>2. /\ fate = "running" /\ m # Nothing /\ slot' = [slot EXCEPT ![g] = Nothing]
        /\ SlotEffect(g, m) /\ UNCHANGED <<queue, main>> /\ TypeOK
    BY <1>1 DEF SlotEnd, ProtocolInv, TypeInv
  <1>3. Expected(g, m) /\ m.signal # "DestroyThread"
    BY <1>1, <1>2 DEF ProtocolInv, SlotInv
  <1>4. /\ m.signal \in ContentSignals => question'[g].content = m.arg
        /\ m.signal \notin ContentSignals => question'[g].content = question[g].content
        /\ m.signal \in AnswerSignals => question'[g].answer = m.arg
        /\ m.signal \notin AnswerSignals => question'[g].answer = question[g].answer
        /\ \A h \in Humans \ {g} : question'[h] = question[h] /\ sentence'[h] = sentence[h]
        /\ m.signal \notin SentenceSignals => sentence' = sentence
        /\ m.signal \in SentenceSignals /\ main.at # "writing" => sentence'[g] = <<m.signal, m.arg>>
    <2>1. question' = [question EXCEPT ![g] =
             [content |-> IF m.signal \in ContentSignals THEN m.arg ELSE @.content,
              answer  |-> IF m.signal \in AnswerSignals THEN m.arg ELSE @.answer]]
      BY <1>2 DEF SlotEffect, Assign
    <2>2. \/ m.signal \notin SentenceSignals /\ sentence' = sentence
          \/ m.signal \in SentenceSignals /\ \E s : /\ sentence' = [sentence EXCEPT ![g] = s]
                                                    /\ main.at # "writing" => s = <<m.signal, m.arg>>
      BY <1>2 DEF SlotEffect, Assign
    <2> QED
      BY <1>2, <2>1, <2>2 DEF TypeOK
  <1> SUFFICES ASSUME NEW h \in Humans, NEW o \in Humans, main.human = h, main.other = o
               PROVE  Visible(h, o)'
    BY <1>2, <1>3 DEF VisibleInv
  <1>5. Visible(h, o)
    BY <1>2 DEF VisibleInv
  <1>6. CASE m.wait
    <2>1. CASE main.at = "waiting" /\ h = g /\ m.signal = main.call /\ m.arg = main.arg
      <3>1. Heard(h)' /\ Uttered(h)'
        BY <1>2, <1>4, <2>1 DEF Heard, Uttered
      <3>2. Told(h, o)'
        BY <1>2, <1>4, <1>5, <2>1, SignalKinds DEF Told, Visible
      <3> QED
        BY <1>2, <2>1, <3>1, <3>2 DEF Visible
    <2>2. CASE main.at = "waitingOther" /\ o = g /\ m.signal = Passed[main.call] /\ m.arg = main.arg
      <3>1. main.call \in DOMAIN Passed
        BY <2>2 DEF ProtocolInv, FrameInv
      <3>2. Heard(o)'
        BY <1>2, <1>4, <2>2, <3>1, SignalKinds DEF Heard
      <3>3. Heard(h)'
        <4>1. CASE h = o
          BY <3>2, <4>1
        <4>2. CASE h # o
          BY <1>2, <1>4, <1>5, <2>2, <4>2 DEF Heard, Visible
        <4> QED
          BY <4>1, <4>2
      <3>4. Told(h, o)'
        BY <1>2, <1>4, <1>5, <2>2, <3>1, SignalKinds DEF Told, Visible
      <3> QED
        BY <1>2, <2>2, <3>2, <3>3, <3>4 DEF Visible
    <2> QED
      BY <1>3, <1>6, <2>1, <2>2 DEF Expected, Awaited
  <1>7. CASE ~m.wait
    <2>1. m.signal = "WantToSleep" /\ g \in Timed
      BY <1>3, <1>7 DEF Expected, Destroys
    <2>2. \A i \in Humans : /\ question'[i].content = question[i].content
                            /\ question'[i].answer = question[i].answer
                            /\ i \notin Timed => sentence'[i] = sentence[i]
      BY <1>4, <2>1, SignalKinds
    <2>3. ASSUME NEW i \in Humans, Unfinished(i) PROVE Unfinished(i)'
      <3>1. \/ \E j \in DOMAIN queue'[i] : queue'[i][j].wait
            \/ i # g /\ slot[i] # Nothing /\ slot[i].wait
        BY <1>1, <1>2, <1>7, <2>3 DEF Unfinished
      <3>2. i # g => slot'[i] = slot[i]
        BY <1>2 DEF TypeOK
      <3> QED
        BY <3>1, <3>2 DEF Unfinished
    <2>4. (Heard(h) => Heard(h)') /\ (Heard(o) => Heard(o)')
      BY <1>2, <2>2 DEF Heard
    <2>5. (Uttered(h) => Uttered(h)') /\ (Told(h, o) => Told(h, o)')
      BY <1>2, <2>2 DEF Uttered, Told
    <2>6. (Unfinished(h) => Unfinished(h)') /\ (Unfinished(o) => Unfinished(o)')
      BY <2>3
    <2> QED
      BY <1>2, <1>5, <2>4, <2>5, <2>6 DEF Visible
  <1> QED
    BY <1>6, <1>7

LEMMA VisibleInit == Init => VisibleInv
  BY SignalKinds DEF Init, VisibleInv, Visible, Heard, Uttered, Told, Frame, Signals

LEMMA VisibleStep == ProtocolInv /\ VisibleInv /\ [Next]_vars => VisibleInv'
  <1> SUFFICES ASSUME ProtocolInv, VisibleInv, [Next]_vars PROVE VisibleInv'
    OBVIOUS
  <1>1. ASSUME NEW h \in Humans, Call(h) \/ TimerStep(h) \/ WorkerStep(h) PROVE VisibleInv'
    BY <1>1, CallKinds, VisibleSend, VisibleBegin, VisibleTimerStep, VisibleSlotBegin,
       VisibleSlotEnd DEF WorkerStep
  <1>2. CASE UNCHANGED vars
    <2>1. UNCHANGED <<queue, slot, sentence, question, main, fate>>
      BY <1>2 DEF vars, object
    <2>2. \A h \in Humans : Unfinished(h) => Unfinished(h)'
      BY <2>1 DEF Unfinished
    <2> QED
      BY <2>1, <2>2, VisibleKept
  <1> QED
    BY <1>1, <1>2, VisibleMainStep DEF Next, Stopped

(* When a call has returned, its effect is there to be read: the slot has  *)
(* run on the worker before the send returned, on both objects where two   *)
(* are concerned, and nobody but a timer has talked over it                *)
(* (Human.cpp:28-142, ThreadBase.cpp:54-58).                               *)
THEOREM CallsLeaveTheirMark == Spec => []CallsVisible
  <1>1. VisibleInv => CallsVisible
    <2> SUFFICES ASSUME VisibleInv, fate = "running", main.at = "idle", main.call \in Signals
                 PROVE  CallsVisible
      BY SignalKinds DEF CallsVisible, Signals
    <2>1. PICK h \in Humans, o \in Humans : main.human = h /\ main.other = o
      BY DEF VisibleInv
    <2>2. Heard(h) /\ Heard(o) /\ Uttered(h) /\ Told(h, o)
      BY <2>1 DEF VisibleInv, Visible
    <2> QED
      BY <2>1, <2>2 DEF Heard, Uttered, Told, CallsVisible
  <1> QED
    BY <1>1, VisibleInit, VisibleStep, ProtocolInvariant, PTL DEF Spec
=============================================================================
