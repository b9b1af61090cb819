-------------------------- MODULE HumanThreadProofs --------------------------
(***************************************************************************)
(* A Human on its ThreadBase implements Human, whatever the words, the     *)
(* number of calls and of ticks.  Its callers and its worker are those of  *)
(* a ThreadBase, so what ThreadBaseProofs proves holds of its queue; the   *)
(* rest is what the threads of a Human know of their own calls.            *)
(***************************************************************************)
EXTENDS HumanThread, SequenceTheorems, TLAPS

P == INSTANCE ThreadBaseProofs WITH
       Callers <- {Main, Timer}, SyncCallers <- {Main}, Signals <- 0..8, NullMsg <- Nothing,
       MaxSends <- 2 * MaxCalls + MaxTicks, CreateCanFail <- FALSE, SpuriousWakeups <- FALSE

(* The assumptions about a ThreadBase hold, and it has one synchronous     *)
(* caller, the main thread.                                                *)
LEMMA Assumptions == P!ThreadBaseAssumption /\ P!SingleSyncCaller
<1>1. 2 * MaxCalls + MaxTicks \in Nat
  BY HumanThreadAssumption
<1>2. Nothing \notin P!Message \cup {P!DestroyMsg}
  BY NothingAssumption
  DEF P!Message, P!DestroyMsg, P!DestroyThread_Signal, T!Message, T!DestroyMsg,
      T!DestroyThread_Signal
<1>3. Worker \notin {Main, Timer} /\ Owner \notin {Main, Timer} /\ Worker # Owner
  BY HumanThreadAssumption
<1>4. P!ThreadBaseAssumption
  <2>1. 0..8 \subseteq Nat /\ {Main} \subseteq {Main, Timer}
    OBVIOUS
  <2>2. QED
    BY <1>1, <1>2, <1>3, <2>1 DEF P!ThreadBaseAssumption
<1>5. P!SingleSyncCaller
  BY DEF P!SingleSyncCaller
<1>6. QED
  BY <1>4, <1>5

-----------------------------------------------------------------------------
(* Signals by name and by number.                                          *)

LEMMA SignalOfNumber == \A n \in 0..8 : Signal[n + 1] \in H!Signals
BY DEF Signal, H!Signals, H!SentenceSignals, H!ContentSignals, H!AnswerSignals

LEMMA NumberOfSignal ==
  \A name \in H!Signals : Number(name) \in 0..8 /\ Signal[Number(name) + 1] = name
<1> SUFFICES ASSUME NEW name \in H!Signals
             PROVE  Number(name) \in 0..8 /\ Signal[Number(name) + 1] = name
  OBVIOUS
<1>1. \E n \in 0..8 : Signal[n + 1] = name
  <2>1. /\ Signal[0 + 1] = "SayHello" /\ Signal[1 + 1] = "SayGoodBye"
        /\ Signal[2 + 1] = "WillDo" /\ Signal[3 + 1] = "PlanToDo"
        /\ Signal[4 + 1] = "AskAQuestion" /\ Signal[5 + 1] = "GetAQuestion"
        /\ Signal[6 + 1] = "AnswerAQuestion" /\ Signal[7 + 1] = "GetAAnswer"
        /\ Signal[8 + 1] = "WantToSleep"
    BY DEF Signal
  <2>2. name \in {"SayHello", "SayGoodBye", "WillDo", "PlanToDo", "WantToSleep", "AskAQuestion",
                  "GetAQuestion", "AnswerAQuestion", "GetAAnswer"}
    BY DEF H!Signals, H!SentenceSignals, H!ContentSignals, H!AnswerSignals
  <2>3. \A n \in {0, 1, 2, 3, 4, 5, 6, 7, 8} : n \in 0..8
    OBVIOUS
  <2>4. QED
    BY <2>1, <2>2, <2>3
<1>2. QED
  BY <1>1 DEF Number

LEMMA PassedSignals ==
  /\ DOMAIN H!Passed = {"AskAQuestion", "AnswerAQuestion"}
  /\ \A call \in DOMAIN H!Passed : call \in H!Signals /\ H!Passed[call] \in H!Signals
BY DEF H!Passed, H!Signals, H!ContentSignals, H!AnswerSignals

-----------------------------------------------------------------------------
(* What the threads of a Human know.                                       *)

(* The payload of every message that is left is known.                     *)
PayloadInv ==
  /\ payload \in Seq(Words \cup {Nothing}) /\ Len(payload) = sent
  /\ \A i \in DOMAIN signalMsgQueue : signalMsgQueue[i].id <= sent
  /\ P!InFlight => signalMsg.id <= sent

(* The main thread is in a send of its ThreadBase only while it is in a    *)
(* call of the Human that waits, and has returned from it before that only *)
(* if the call has something to pass on.                                   *)
MainInv ==
  /\ main = H!Frame(main.at, main.call, main.human, main.other, main.arg)
  /\ main.arg \in Words \cup {Nothing}
  /\ main.at # "idle" => main.human = Self /\ main.other = Self
  /\ main.at = "writing" => main.call \in DOMAIN H!Passed
  /\ pc[Main] # "idle" => /\ main.at \in {"waiting", "waitingOther"}
                          /\ lastMsg[Main] # Nothing /\ lastMsg[Main].wait
  /\ main.at = "waiting" /\ pc[Main] = "idle" => main.call \in DOMAIN H!Passed

(* ~Human comes before ~ThreadBase, and nothing after them.                *)
LifeInv ==
  /\ life \in {"alive", "base", "gone"}
  /\ life = "gone" => pc[Owner] = "destroyed"
  /\ life = "base" => main.at \in {"destroying", "joiningWorker"}

Inv == P!SyncInv /\ PayloadInv /\ MainInv /\ LifeInv

-----------------------------------------------------------------------------
(* The ThreadBase of a Human.                                              *)

LEMMA PostIsSend ==
  ASSUME NEW c \in {Main, Timer}, NEW name \in H!Signals, NEW arg, NEW wait \in BOOLEAN,
         Post(c, name, arg, wait)
  PROVE  /\ Number(name) \in 0..8
         /\ P!CanCall(c) /\ P!SendMsg(c, Number(name), wait)
<1>1. Number(name) \in 0..8
  BY NumberOfSignal
<1>2. QED
  BY <1>1 DEF Post, T!CanCall, T!SendMsg, T!NewMsg, P!CanCall, P!SendMsg, P!NewMsg

(* What a step does to the queue is a step of a ThreadBase.                *)
LEMMA StepOfBase == MainInv /\ [Next]_vars => [P!Next]_(P!vars)
<1> SUFFICES ASSUME MainInv, [Next]_vars PROVE [P!Next]_(P!vars)
  OBVIOUS
<1> USE DEF P!Next, P!vars, base, T!NotifyOne, P!NotifyOne, T!Waiting, P!Waiting, T!Threads,
            P!Threads, T!Goto, P!Goto, T!DestroyMsg, P!DestroyMsg, T!DestroyThread_Signal,
            P!DestroyThread_Signal
<1>1. CASE UNCHANGED base
  BY <1>1
<1>2. CASE T!CreateThread
  BY <1>2 DEF T!CreateThread, P!CreateThread
<1>3. CASE T!Destroy
  BY <1>3 DEF T!Destroy, P!Destroy
<1>4. CASE T!Join
  BY <1>4 DEF T!Join, P!Join
<1>5. ASSUME NEW name \in H!Signals, NEW arg, Post(Main, name, arg, TRUE)
      PROVE  P!Next
  <2>1. P!SendSlotFuncSyncRunMsg(Main)
    BY <1>5, PostIsSend DEF P!SendSlotFuncSyncRunMsg
  <2>2. QED
    BY <2>1
<1>6. CASE Post(Timer, "WantToSleep", Nothing, FALSE)
  <2>1. "WantToSleep" \in H!Signals
    BY DEF H!Signals, H!SentenceSignals
  <2>2. P!SendSlotFuncAsyncRunMsg(Timer)
    BY <1>6, <2>1, PostIsSend DEF P!SendSlotFuncAsyncRunMsg
  <2>3. QED
    BY <2>2
<1>7. CASE T!SendNotify(Main) \/ T!SyncReturn(Main) \/ T!SyncBlock(Main) \/ T!SendNotify(Timer)
  <2>1. P!CallerStep(Main) \/ P!CallerStep(Timer)
    BY <1>7 DEF P!CallerStep, T!SendNotify, T!SyncReturn, T!SyncBlock, P!SendNotify, P!SyncReturn,
                P!SyncBlock
  <2>2. QED
    BY <2>1
<1>8. CASE T!WorkerBlock \/ T!WorkerTake \/ T!SetSyncProcessed \/ T!UserCustomFunction
  <2>1. P!WorkerStep
    BY <1>8 DEF T!WorkerBlock, T!WorkerTake, T!SetSyncProcessed, T!UserCustomFunction,
                P!WorkerStep, P!WorkerBlock, P!WorkerTake, P!SetSyncProcessed,
                P!UserCustomFunction
  <2>2. QED
    BY <2>1
<1> HIDE DEF P!Next, P!vars, base
<1>9. CASE Call
  <2>1. \A call \in {"SayHello", "SayGoodBye", "WillDo", "PlanToDo", "GetAQuestion", "GetAAnswer"} :
          call \in H!Signals
    BY DEF H!Signals, H!SentenceSignals, H!ContentSignals, H!AnswerSignals
  <2>2. ASSUME NEW call \in H!Signals, NEW arg, Send(call, arg) PROVE P!Next
    BY <1>5, <2>2 DEF Send
  <2>3. ASSUME NEW at, NEW call, NEW arg, Enter(at, call, arg) PROVE UNCHANGED base
    BY <2>3 DEF Enter
  <2>4. CreateTimer \/ DestroyTimer \/ DestroyHuman => UNCHANGED base
    BY DEF CreateTimer, DestroyTimer, DestroyHuman
  <2>5. P!Next \/ UNCHANGED base
    BY <1>9, <2>1, <2>2, <2>3, <2>4 DEF Call
  <2>6. QED
    BY <1>1, <2>5
<1>10. CASE MainStep
  <2>1. CASE WriteSentence
    <3>1. main.call \in H!Signals
      BY <2>1, PassedSignals DEF WriteSentence, MainInv
    <3>2. QED
      BY <1>5, <2>1, <3>1 DEF WriteSentence
  <2>2. CASE PassOn
    <3>1. main.call \in DOMAIN H!Passed
      BY <2>2 DEF PassOn, MainInv
    <3>2. H!Passed[main.call] \in H!Signals
      BY <3>1, PassedSignals
    <3>3. QED
      BY <1>5, <2>2, <3>2 DEF PassOn
  <2>3. CASE MainInSend
    BY <1>7, <2>3 DEF MainInSend
  <2>4. CASE GetReturn \/ JoinTimer
    BY <1>1, <2>4 DEF GetReturn, JoinTimer
  <2>5. CASE DestroyBase \/ Join
    BY <1>3, <1>4, <2>5 DEF DestroyBase, Join
  <2>6. QED
    BY <1>10, <2>1, <2>2, <2>3, <2>4, <2>5 DEF MainStep
<1>11. CASE TimerStep
  BY <1>1, <1>6, <1>7, <1>11 DEF TimerStep
<1>12. CASE WorkerStep
  BY <1>8, <1>12 DEF WorkerStep, Process, UserCustomFunction
<1>13. CASE Construct
  BY <1>2, <1>13 DEF Construct
<1>14. CASE Stopped \/ UNCHANGED vars
  BY <1>1, <1>14 DEF Stopped, vars
<1>15. QED
  BY <1>9, <1>10, <1>11, <1>12, <1>13, <1>14 DEF Next

-----------------------------------------------------------------------------
(* What the steps of the ThreadBase do.                                    *)

LEMMA Types ==
  ASSUME Inv
  PROVE  /\ pc \in [P!Threads -> P!States] /\ {Main, Timer, Worker, Owner} = P!Threads
         /\ pc[Worker] \in P!WorkerStates /\ pc[Owner] \in P!OwnerStates
         /\ pc[Main] \in P!CallerStates /\ pc[Timer] \in P!CallerStates
         /\ lastMsg \in [{Main, Timer} -> P!Message \cup {Nothing}]
         /\ signalMsgQueue \in Seq(P!Message \cup {P!DestroyMsg})
         /\ sent \in Nat /\ Len(signalMsgQueue) \in Nat
         /\ P!InFlight => signalMsg \in P!Message
BY DEF Inv, P!SyncInv, P!TypeInv, P!TypeOK, P!Threads, P!States

(* Every thread but t is where it was, or woken.                           *)
Woken(t) ==
  \A u \in P!Threads \ {t} : pc'[u] = pc[u] \/ (pc[u] = "waiting" /\ pc'[u] = "check")

LEMMA Notified ==
  ASSUME Inv, NEW t \in P!Threads, NEW to \in P!States, pc[t] # "waiting", T!NotifyOne(t, to)
  PROVE  pc'[t] = to /\ Woken(t)
<1>1. P!NotifyOne(t, to)
  BY DEF T!NotifyOne, P!NotifyOne, T!Waiting, P!Waiting, T!Threads, P!Threads
<1>2. QED
  BY <1>1, Types, Assumptions, P!NotifyEffect DEF Woken

LEMMA Moved ==
  ASSUME Inv, NEW t \in P!Threads, NEW from, NEW to, T!Goto(t, from, to)
  PROVE  pc[t] = from /\ pc'[t] = to /\ Woken(t)
BY Types DEF T!Goto, Woken

LEMMA PostEffect ==
  ASSUME Inv, NEW c \in {Main, Timer}, NEW name \in H!Signals, NEW arg \in Words \cup {Nothing},
         NEW wait \in BOOLEAN, Post(c, name, arg, wait)
  PROVE  LET m == P!NewMsg(c, Number(name), wait)
         IN  /\ m \in P!Message /\ m.id = sent + 1 /\ m.wait = wait /\ m.signal = Number(name)
             /\ pc[Owner] = "alive" /\ pc[c] = "idle"
             /\ pc' = [pc EXCEPT ![c] = "notify"]
             /\ signalMsgQueue' = Append(signalMsgQueue, m) /\ signalMsg' = signalMsg
             /\ sent' = sent + 1 /\ lastMsg' = [lastMsg EXCEPT ![c] = m]
             /\ payload' = Append(payload, arg)
<1> DEFINE m == P!NewMsg(c, Number(name), wait)
<1>1. Number(name) \in 0..8 /\ P!CanCall(c) /\ P!SendMsg(c, Number(name), wait)
  BY PostIsSend
<1>2. P!TypeInv /\ (pc[Owner] = "alive" => thread)
  BY DEF Inv, P!SyncInv
<1>3. /\ m \in P!Message /\ m.wait = wait /\ m.id = sent + 1
      /\ lastMsg' = [lastMsg EXCEPT ![c] = m] /\ pc[Owner] = "alive" /\ pc[c] = "idle"
      /\ signalMsg' = signalMsg
      /\ thread => /\ pc' = [pc EXCEPT ![c] = "notify"]
                   /\ signalMsgQueue' = Append(signalMsgQueue, m)
                   /\ sent' = sent + 1
  BY <1>1, <1>2, Assumptions, P!SendMsgEffect
<1>4. m.signal = Number(name)
  BY DEF P!NewMsg
<1>5. payload' = Append(payload, arg)
  BY DEF Post
<1>6. QED
  BY <1>2, <1>3, <1>4, <1>5

LEMMA SendNotifyEffect ==
  ASSUME Inv, NEW c \in {Main, Timer}, T!SendNotify(c)
  PROVE  /\ pc[c] = "notify" /\ pc'[c] = IF lastMsg[c].wait THEN "check" ELSE "idle"
         /\ Woken(c)
         /\ UNCHANGED <<signalMsgQueue, signalMsg, lastMsg, sent>>
<1>1. (IF lastMsg[c].wait THEN "check" ELSE "idle") \in P!States /\ c \in P!Threads
  BY Types DEF P!States, P!CallerStates
<1>2. QED
  BY <1>1, Notified DEF T!SendNotify

LEMMA SyncEffect ==
  ASSUME Inv
  PROVE  /\ T!SyncReturn(Main) => /\ syncProcessed /\ pc[Main] = "check" /\ pc'[Main] = "idle"
                                  /\ Woken(Main)
                                  /\ UNCHANGED <<signalMsgQueue, signalMsg, lastMsg, sent>>
         /\ T!SyncBlock(Main) => /\ pc[Main] = "check" /\ pc'[Main] = "waiting"
                                 /\ Woken(Main)
                                 /\ UNCHANGED <<signalMsgQueue, signalMsg, lastMsg, sent>>
BY Types, Moved DEF T!SyncReturn, T!SyncBlock

LEMMA ProcessEffect ==
  ASSUME Inv
  PROVE  /\ T!WorkerBlock => /\ pc[Worker] = "check" /\ pc'[Worker] = "waiting" /\ Woken(Worker)
                             /\ UNCHANGED <<signalMsgQueue, signalMsg, lastMsg, sent>>
         /\ T!SetSyncProcessed => /\ pc[Worker] = "signal" /\ pc'[Worker] = "check"
                                  /\ Woken(Worker)
                                  /\ UNCHANGED <<signalMsgQueue, signalMsg, lastMsg, sent>>
         /\ T!UserCustomFunction =>
              /\ pc[Worker] = "running" /\ pc'[Worker] \in {"signal", "check"} /\ Woken(Worker)
              /\ UNCHANGED <<signalMsgQueue, signalMsg, lastMsg, sent>>
<1>1. T!WorkerBlock => /\ pc[Worker] = "check" /\ pc'[Worker] = "waiting" /\ Woken(Worker)
                       /\ UNCHANGED <<signalMsgQueue, signalMsg, lastMsg, sent>>
  BY Types, Moved DEF T!WorkerBlock
<1>2. T!SetSyncProcessed => /\ pc[Worker] = "signal" /\ pc'[Worker] = "check"
                            /\ Woken(Worker)
                            /\ UNCHANGED <<signalMsgQueue, signalMsg, lastMsg, sent>>
  <2>1. "check" \in P!States /\ Worker \in P!Threads
    BY Types DEF P!States, P!CallerStates
  <2>2. QED
    BY <2>1, Notified DEF T!SetSyncProcessed
<1>3. T!UserCustomFunction =>
              /\ pc[Worker] = "running" /\ pc'[Worker] \in {"signal", "check"} /\ Woken(Worker)
              /\ UNCHANGED <<signalMsgQueue, signalMsg, lastMsg, sent>>
  BY Types, Moved DEF T!UserCustomFunction
<1>4. QED
  BY <1>1, <1>2, <1>3

LEMMA TakeEffect ==
  ASSUME Inv, T!WorkerTake
  PROVE  /\ signalMsgQueue # <<>>
         /\ signalMsg' = Head(signalMsgQueue) /\ signalMsgQueue' = Tail(signalMsgQueue)
         /\ UNCHANGED <<lastMsg, sent>>
         /\ pc[Worker] = "check" /\ Woken(Worker)
         /\ \/ signalMsg' = P!DestroyMsg /\ pc'[Worker] = "exited"
               /\ pc[Owner] = "joining" /\ Len(signalMsgQueue) = 1
            \/ signalMsg' \in P!Message /\ pc'[Worker] = "running"
<1>1. /\ signalMsgQueue # <<>>
      /\ signalMsg' = Head(signalMsgQueue) /\ signalMsgQueue' = Tail(signalMsgQueue)
      /\ UNCHANGED <<lastMsg, sent>>
  BY DEF T!WorkerTake
<1>2. signalMsg' \in P!Message \cup {P!DestroyMsg} /\ signalMsg' = signalMsgQueue[1]
      /\ 1 \in 1..Len(signalMsgQueue)
  BY <1>1, Types
<1>3. \/ /\ signalMsg'.signal = -1 /\ T!Goto(Worker, "check", "exited")
      \/ /\ signalMsg'.signal # -1 /\ T!Goto(Worker, "check", "running")
  BY DEF T!WorkerTake, T!DestroyThread_Signal
<1>4. /\ pc[Worker] = "check" /\ Woken(Worker)
      /\ \/ signalMsg'.signal = -1 /\ pc'[Worker] = "exited"
         \/ signalMsg'.signal # -1 /\ pc'[Worker] = "running"
  BY <1>3, Types, Moved
<1>5. \A m \in P!Message : m.signal # -1
  BY Assumptions, P!MessageFacts DEF P!DestroyThread_Signal
<1>6. P!DestroyMsg.signal = -1
  BY DEF P!DestroyMsg, P!DestroyThread_Signal
<1>7. signalMsg' = P!DestroyMsg => pc[Owner] = "joining" /\ Len(signalMsgQueue) = 1
  BY <1>2 DEF Inv, P!SyncInv, P!ControlInv
<1>8. QED
  BY <1>1, <1>2, <1>4, <1>5, <1>6, <1>7

LEMMA OwnerEffect ==
  ASSUME Inv
  PROVE  /\ T!CreateThread =>
              /\ pc[Owner] = "constructing" /\ pc'[Owner] = "alive"
              /\ pc[Worker] = "absent" /\ pc'[Worker] = "check"
              /\ pc'[Main] = pc[Main] /\ pc'[Timer] = pc[Timer]
              /\ UNCHANGED <<signalMsgQueue, signalMsg, lastMsg, sent>>
         /\ T!Destroy =>
              /\ pc[Owner] = "alive" /\ pc'[Owner] = "joining" /\ Woken(Owner)
              /\ signalMsgQueue' = Append(signalMsgQueue, P!DestroyMsg)
              /\ UNCHANGED <<signalMsg, lastMsg, sent>>
         /\ T!Join =>
              /\ pc[Owner] = "joining" /\ pc'[Owner] = "destroyed" /\ pc[Worker] = "exited"
              /\ Woken(Owner)
              /\ UNCHANGED <<signalMsgQueue, signalMsg, lastMsg, sent>>
<1>1. T!CreateThread =>
              /\ pc[Owner] = "constructing" /\ pc'[Owner] = "alive"
              /\ pc[Worker] = "absent" /\ pc'[Worker] = "check"
              /\ pc'[Main] = pc[Main] /\ pc'[Timer] = pc[Timer]
              /\ UNCHANGED <<signalMsgQueue, signalMsg, lastMsg, sent>>
  <2>1. pc[Owner] = "constructing" => pc[Worker] = "absent"
    BY DEF Inv, P!SyncInv, P!ControlInv
  <2>2. QED
    BY <2>1, Types, HumanThreadAssumption DEF T!CreateThread
<1>2. T!Destroy =>
              /\ pc[Owner] = "alive" /\ pc'[Owner] = "joining" /\ Woken(Owner)
              /\ signalMsgQueue' = Append(signalMsgQueue, P!DestroyMsg)
              /\ UNCHANGED <<signalMsg, lastMsg, sent>>
  <2>1. pc[Owner] = "alive" => thread
    BY DEF Inv, P!SyncInv
  <2>2. T!DestroyMsg = P!DestroyMsg
    BY DEF T!DestroyMsg, P!DestroyMsg, T!DestroyThread_Signal, P!DestroyThread_Signal
  <2>3. "joining" \in P!States /\ Owner \in P!Threads
    BY Types DEF P!States, P!OwnerStates
  <2>4. QED
    BY <2>1, <2>2, <2>3, Notified DEF T!Destroy
<1>3. T!Join =>
              /\ pc[Owner] = "joining" /\ pc'[Owner] = "destroyed" /\ pc[Worker] = "exited"
              /\ Woken(Owner)
              /\ UNCHANGED <<signalMsgQueue, signalMsg, lastMsg, sent>>
  BY Types, Moved DEF T!Join
<1>4. QED
  BY <1>1, <1>2, <1>3

-----------------------------------------------------------------------------
(* The invariant.                                                          *)

LEMMA InvInit == Init => Inv
<1> SUFFICES ASSUME Init PROVE Inv
  OBVIOUS
<1>1. P!Init
  BY DEF Init, T!Init, P!Init, T!Threads, P!Threads
<1>2. P!SyncInv
  BY <1>1, Assumptions, P!SyncInvInit
<1>3. pc[Main] = "idle" /\ pc[Worker] = "absent" /\ signalMsgQueue = <<>> /\ sent = 0
  BY <1>1, HumanThreadAssumption DEF P!Init, P!Threads
<1>4. PayloadInv
  <2>1. payload = <<>>
    BY DEF Init
  <2>2. QED
    BY <1>3, <2>1 DEF PayloadInv, P!InFlight
<1>5. MainInv
  BY <1>3 DEF Init, MainInv, H!Frame
<1>6. LifeInv
  BY DEF Init, LifeInv
<1>7. QED
  BY <1>2, <1>4, <1>5, <1>6 DEF Inv

LEMMA PayloadKept ==
  ASSUME PayloadInv, UNCHANGED <<payload, signalMsgQueue, signalMsg, sent>>,
         P!InFlight' => P!InFlight
  PROVE  PayloadInv'
BY DEF PayloadInv

LEMMA PayloadPosted ==
  ASSUME Inv, NEW c \in {Main, Timer}, NEW name \in H!Signals, NEW arg \in Words \cup {Nothing},
         NEW wait \in BOOLEAN, Post(c, name, arg, wait)
  PROVE  PayloadInv'
<1> DEFINE m == P!NewMsg(c, Number(name), wait)
<1>1. /\ m \in P!Message /\ m.id = sent + 1 /\ pc' = [pc EXCEPT ![c] = "notify"]
      /\ signalMsgQueue' = Append(signalMsgQueue, m) /\ signalMsg' = signalMsg
      /\ sent' = sent + 1 /\ payload' = Append(payload, arg)
  BY PostEffect
<1>2. PayloadInv
  BY DEF Inv
<1>3. payload' \in Seq(Words \cup {Nothing}) /\ Len(payload') = sent'
  BY <1>1, <1>2 DEF PayloadInv
<1>4. sent \in Nat /\ signalMsgQueue \in Seq(P!Message \cup {P!DestroyMsg})
  BY Types
<1>5. ASSUME NEW i \in DOMAIN signalMsgQueue' PROVE signalMsgQueue'[i].id <= sent'
  <2> HIDE DEF m
  <2>1. CASE i \in DOMAIN signalMsgQueue
    <3>1. signalMsgQueue[i].id <= sent /\ signalMsgQueue'[i] = signalMsgQueue[i]
      BY <1>1, <1>2, <1>4, <2>1 DEF PayloadInv
    <3>2. signalMsgQueue[i] \in P!Message \cup {P!DestroyMsg}
      BY <1>4, <2>1
    <3>3. signalMsgQueue[i].id \in Int
      BY <3>2, HumanThreadAssumption DEF P!Message, P!DestroyMsg
    <3>4. QED
      BY <1>1, <1>4, <3>1, <3>3
  <2>2. CASE i \notin DOMAIN signalMsgQueue
    <3>1. signalMsgQueue'[i] = m
      BY <1>1, <1>4, <2>2
    <3>2. QED
      BY <1>1, <1>4, <3>1
  <2>3. QED
    BY <2>1, <2>2
<1>6. P!InFlight' => signalMsg'.id <= sent'
  <2>1. pc'[Worker] = pc[Worker]
    BY <1>1, Types, HumanThreadAssumption
  <2>2. P!InFlight' => P!InFlight /\ signalMsg.id <= sent /\ signalMsg \in P!Message
    BY <1>2, <2>1, Types DEF PayloadInv, P!InFlight
  <2>3. P!InFlight' => signalMsg.id \in Int
    BY <2>2 DEF P!Message
  <2>4. QED
    BY <1>1, <1>4, <2>2, <2>3
<1>7. QED
  BY <1>3, <1>5, <1>6 DEF PayloadInv

LEMMA PayloadTaken ==
  ASSUME Inv, T!WorkerTake, UNCHANGED payload
  PROVE  PayloadInv'
<1>1. /\ signalMsgQueue # <<>> /\ signalMsgQueue' = Tail(signalMsgQueue)
      /\ signalMsg' = Head(signalMsgQueue) /\ sent' = sent
  BY TakeEffect
<1>2. signalMsgQueue \in Seq(P!Message \cup {P!DestroyMsg})
  BY Types
<1>3. \A i \in DOMAIN signalMsgQueue : signalMsgQueue[i].id <= sent
  BY DEF Inv, PayloadInv
<1>4. signalMsg' = signalMsgQueue[1] /\ 1 \in DOMAIN signalMsgQueue
  BY <1>1, <1>2
<1>5. \A i \in DOMAIN signalMsgQueue' :
        signalMsgQueue'[i] = signalMsgQueue[i + 1] /\ i + 1 \in DOMAIN signalMsgQueue
  BY <1>1, <1>2
<1>6. QED
  BY <1>1, <1>3, <1>4, <1>5 DEF Inv, PayloadInv

LEMMA PayloadClosed ==
  ASSUME Inv, T!Destroy, UNCHANGED payload
  PROVE  PayloadInv'
<1>1. /\ signalMsgQueue' = Append(signalMsgQueue, P!DestroyMsg) /\ Woken(Owner)
      /\ UNCHANGED <<signalMsg, sent>>
  BY OwnerEffect
<1>2. signalMsgQueue \in Seq(P!Message \cup {P!DestroyMsg}) /\ sent \in Nat
  BY Types
<1>3. P!DestroyMsg.id = 0
  BY DEF P!DestroyMsg
<1>4. \A i \in DOMAIN signalMsgQueue : signalMsgQueue[i].id <= sent
  BY DEF Inv, PayloadInv
<1>5. ASSUME NEW i \in DOMAIN signalMsgQueue' PROVE signalMsgQueue'[i].id <= sent
  <2>1. CASE i \in DOMAIN signalMsgQueue
    BY <1>1, <1>2, <1>4, <2>1
  <2>2. CASE i \notin DOMAIN signalMsgQueue
    <3>1. signalMsgQueue'[i] = P!DestroyMsg
      BY <1>1, <1>2, <2>2
    <3>2. QED
      BY <1>2, <1>3, <3>1
  <2>3. QED
    BY <2>1, <2>2
<1>6. P!InFlight' => P!InFlight
  BY <1>1, Types, HumanThreadAssumption DEF Woken, P!InFlight
<1>7. QED
  BY <1>1, <1>5, <1>6 DEF Inv, PayloadInv

(* The main thread is in its call as long as other threads move.           *)
LEMMA MainKept ==
  ASSUME MainInv, UNCHANGED main, lastMsg'[Main] = lastMsg[Main],
         pc'[Main] = "idle" <=> pc[Main] = "idle"
  PROVE  MainInv'
BY DEF MainInv

LEMMA LifeKept ==
  ASSUME LifeInv, UNCHANGED life, pc[Owner] = "destroyed" => pc'[Owner] = "destroyed",
         main' = main \/ life # "base" \/ main'.at = "joiningWorker"
  PROVE  LifeInv'
BY DEF LifeInv

LEMMA MainAsleep ==
  ASSUME Inv, NEW t \in P!Threads, t # Main, Woken(t)
  PROVE  pc'[Main] = "idle" <=> pc[Main] = "idle"
BY Types DEF Woken

LEMMA MainPosted ==
  ASSUME Inv, NEW name \in H!Signals, NEW arg \in Words \cup {Nothing},
         Post(Main, name, arg, TRUE)
  PROVE  /\ pc'[Main] = "notify" /\ pc'[Owner] = pc[Owner]
         /\ lastMsg'[Main] # Nothing /\ lastMsg'[Main].wait
<1> DEFINE m == P!NewMsg(Main, Number(name), TRUE)
<1>1. /\ m \in P!Message /\ m.wait
      /\ pc' = [pc EXCEPT ![Main] = "notify"] /\ lastMsg' = [lastMsg EXCEPT ![Main] = m]
  BY PostEffect
<1>2. m # Nothing
  BY <1>1, Assumptions, P!MessageFacts
<1> HIDE DEF m
<1>3. QED
  BY <1>1, <1>2, Types, HumanThreadAssumption

(* The main thread goes to another place in the call it is in.             *)
LEMMA MainGoes ==
  ASSUME MainInv, NEW at, main' = [main EXCEPT !.at = at]
  PROVE  /\ main'.at = at /\ main'.call = main.call /\ main'.arg = main.arg
         /\ main'.human = main.human /\ main'.other = main.other
         /\ main' = H!Frame(main'.at, main'.call, main'.human, main'.other, main'.arg)
BY DEF MainInv, H!Frame

LEMMA MainEnters ==
  ASSUME NEW at, NEW call, NEW arg, main' = Frame(at, call, arg)
  PROVE  /\ main'.at = at /\ main'.call = call /\ main'.arg = arg
         /\ main'.human = Self /\ main'.other = Self
         /\ main' = H!Frame(main'.at, main'.call, main'.human, main'.other, main'.arg)
BY DEF Frame, H!Frame

LEMMA BaseStep == Inv /\ [Next]_vars => P!SyncInv'
<1> SUFFICES ASSUME Inv, [Next]_vars PROVE P!SyncInv'
  OBVIOUS
<1>1. [P!Next]_(P!vars)
  BY StepOfBase DEF Inv
<1>2. P!SyncInv /\ P!TypeInv /\ P!ControlInv
  BY DEF Inv, P!SyncInv
<1>3. P!TypeInv'
  BY <1>1, <1>2, Assumptions, P!TypeInvStep
<1>4. P!ControlInv'
  BY <1>1, <1>2, <1>3, Assumptions, P!ControlInvStep
<1>5. QED
  BY <1>1, <1>2, <1>3, <1>4, Assumptions, P!SyncInvStep

Local == PayloadInv /\ MainInv /\ LifeInv

LEMMA CallLocal == Inv /\ Call => Local'
<1> SUFFICES ASSUME Inv, Call PROVE Local'
  OBVIOUS
<1>i. PayloadInv /\ MainInv /\ LifeInv
  BY DEF Inv
<1>1. ASSUME NEW call \in H!Signals, NEW arg \in Words \cup {Nothing}, Send(call, arg)
      PROVE  Local'
  <2>1. Post(Main, call, arg, TRUE) /\ main' = Frame("waiting", call, arg) /\ main.at = "idle"
        /\ UNCHANGED life
    BY <1>1 DEF Send, Begin, Free
  <2>2. /\ pc'[Main] = "notify" /\ pc'[Owner] = pc[Owner]
        /\ lastMsg'[Main] # Nothing /\ lastMsg'[Main].wait
    BY <2>1, MainPosted
  <2>3. PayloadInv'
    BY <2>1, PayloadPosted
  <2>4. MainInv'
    BY <2>1, <2>2, MainEnters DEF MainInv
  <2>5. LifeInv'
    BY <1>i, <2>1, <2>2, LifeKept DEF LifeInv
  <2>6. QED
    BY <2>3, <2>4, <2>5 DEF Local
<1>2. ASSUME UNCHANGED <<base, payload>>, Free,
             NEW at, NEW call, NEW arg \in Words \cup {Nothing}, main' = Frame(at, call, arg),
             at = "writing" => call \in DOMAIN H!Passed, at # "waiting",
             life' = life \/ (life' = "base" /\ at = "destroying")
      PROVE  Local'
  <2>1. PayloadInv'
    BY <1>i, <1>2, PayloadKept DEF base, P!InFlight
  <2>2. pc' = pc /\ pc[Main] = "idle" /\ main.at = "idle" /\ lastMsg' = lastMsg
    BY <1>i, <1>2 DEF base, Free, MainInv
  <2>3. MainInv'
    BY <1>2, <2>2, MainEnters DEF MainInv
  <2>4. LifeInv'
    BY <1>i, <1>2, <2>2, MainEnters DEF LifeInv
  <2>5. QED
    BY <2>1, <2>3, <2>4 DEF Local
<1>3. \A call \in {"SayHello", "SayGoodBye", "WillDo", "PlanToDo", "GetAQuestion", "GetAAnswer"} :
        call \in H!Signals
  BY DEF H!Signals, H!SentenceSignals, H!ContentSignals, H!AnswerSignals
<1>4. ASSUME NEW call \in {"SayHello", "SayGoodBye"}, Send(call, Nothing) PROVE Local'
  BY <1>1, <1>3, <1>4
<1>5. ASSUME NEW call \in {"WillDo", "PlanToDo", "GetAQuestion", "GetAAnswer"}, NEW w \in Words,
             Send(call, w)
      PROVE  Local'
  BY <1>1, <1>3, <1>5
<1>6. ASSUME NEW call \in DOMAIN H!Passed, NEW w \in Words, Enter("writing", call, w)
      PROVE  Local'
  BY <1>2, <1>6 DEF Enter, Begin
<1>7. ASSUME NEW getter \in H!Getters, Enter("reading", getter, Nothing) PROVE Local'
  BY <1>2, <1>7 DEF Enter, Begin
<1>8. CASE CreateTimer
  BY <1>2, <1>8 DEF CreateTimer, Begin
<1>9. CASE DestroyTimer
  BY <1>2, <1>9 DEF DestroyTimer, Begin
<1>10. CASE DestroyHuman
  BY <1>2, <1>10 DEF DestroyHuman
<1>11. QED
  BY <1>4, <1>5, <1>6, <1>7, <1>8, <1>9, <1>10 DEF Call

LEMMA MainLocal == Inv /\ MainStep => Local'
<1> SUFFICES ASSUME Inv, MainStep PROVE Local'
  OBVIOUS
<1>i. PayloadInv /\ MainInv /\ LifeInv
  BY DEF Inv
<1>1. CASE WriteSentence
  <2>1. /\ Post(Main, main.call, main.arg, TRUE) /\ main' = [main EXCEPT !.at = "waiting"]
        /\ main.at = "writing" /\ UNCHANGED life
    BY <1>1 DEF WriteSentence
  <2>2. main.call \in H!Signals /\ main.arg \in Words \cup {Nothing}
    BY <1>i, <2>1, PassedSignals DEF MainInv
  <2>3. /\ pc'[Main] = "notify" /\ pc'[Owner] = pc[Owner]
        /\ lastMsg'[Main] # Nothing /\ lastMsg'[Main].wait
    BY <2>1, <2>2, MainPosted
  <2>4. PayloadInv'
    BY <2>1, <2>2, PayloadPosted
  <2>5. MainInv'
    BY <1>i, <2>1, <2>3, MainGoes DEF MainInv
  <2>6. LifeInv'
    BY <1>i, <2>1, <2>3, LifeKept DEF LifeInv
  <2>7. QED
    BY <2>4, <2>5, <2>6 DEF Local
<1>2. CASE PassOn
  <2>1. /\ Post(Main, H!Passed[main.call], main.arg, TRUE)
        /\ main' = [main EXCEPT !.at = "waitingOther"]
        /\ main.at = "waiting" /\ pc[Main] = "idle" /\ UNCHANGED life
    BY <1>2 DEF PassOn
  <2>2. H!Passed[main.call] \in H!Signals /\ main.arg \in Words \cup {Nothing}
    BY <1>i, <2>1, PassedSignals DEF MainInv
  <2>3. /\ pc'[Main] = "notify" /\ pc'[Owner] = pc[Owner]
        /\ lastMsg'[Main] # Nothing /\ lastMsg'[Main].wait
    BY <2>1, <2>2, MainPosted
  <2>4. PayloadInv'
    BY <2>1, <2>2, PayloadPosted
  <2>5. MainInv'
    BY <1>i, <2>1, <2>3, MainGoes DEF MainInv
  <2>6. LifeInv'
    BY <1>i, <2>1, <2>3, LifeKept DEF LifeInv
  <2>7. QED
    BY <2>4, <2>5, <2>6 DEF Local
<1>3. CASE MainInSend
  <2>1. UNCHANGED <<payload, life>>
    BY <1>3 DEF MainInSend
  <2>2. ASSUME Woken(Main), UNCHANGED <<signalMsgQueue, signalMsg, sent, lastMsg>>
        PROVE  PayloadInv' /\ pc'[Owner] = pc[Owner]
    <3>1. P!InFlight' => P!InFlight
      BY <2>2, Types, HumanThreadAssumption DEF Woken, P!InFlight
    <3>2. pc'[Owner] = pc[Owner]
      BY <2>2, Types, HumanThreadAssumption DEF Woken, P!OwnerStates
    <3>3. QED
      BY <1>i, <2>1, <2>2, <3>1, <3>2, PayloadKept
  <2>3. CASE T!SendNotify(Main) /\ UNCHANGED main
    <3>1. /\ pc[Main] = "notify" /\ pc'[Main] = "check" /\ Woken(Main)
          /\ UNCHANGED <<signalMsgQueue, signalMsg, sent, lastMsg>>
      BY <1>i, <2>3, SendNotifyEffect DEF MainInv
    <3>2. QED
      BY <1>i, <2>1, <2>2, <2>3, <3>1, MainKept, LifeKept DEF Local
  <2>4. CASE T!SyncBlock(Main) /\ UNCHANGED main
    <3>1. /\ pc[Main] = "check" /\ pc'[Main] = "waiting" /\ Woken(Main)
          /\ UNCHANGED <<signalMsgQueue, signalMsg, sent, lastMsg>>
      BY <2>4, SyncEffect
    <3>2. QED
      BY <1>i, <2>1, <2>2, <2>4, <3>1, MainKept, LifeKept DEF Local
  <2>5. CASE T!SyncReturn(Main)
    <3>1. /\ pc[Main] = "check" /\ pc'[Main] = "idle" /\ Woken(Main)
          /\ UNCHANGED <<signalMsgQueue, signalMsg, sent, lastMsg>>
      BY <2>5, SyncEffect
    <3>2. main.at \in {"waiting", "waitingOther"}
      BY <1>i, <3>1 DEF MainInv
    <3>3. \/ main.at = "waiting" /\ main.call \in DOMAIN H!Passed /\ UNCHANGED main
          \/ main' = [main EXCEPT !.at = "idle"]
      BY <1>3, <2>5, <3>1 DEF MainInSend, T!SendNotify, T!SyncBlock, T!SyncReturn
    <3>4. MainInv'
      BY <1>i, <3>1, <3>3, MainGoes DEF MainInv
    <3>5. QED
      BY <1>i, <2>1, <2>2, <3>1, <3>2, <3>4, LifeKept DEF Local, LifeInv
  <2>6. QED
    BY <1>3, <2>3, <2>4, <2>5 DEF MainInSend
<1>4. CASE GetReturn \/ JoinTimer
  <2>1. /\ main.at \in {"reading", "joiningTimer"} /\ main' = [main EXCEPT !.at = "idle"]
        /\ UNCHANGED <<base, payload, life>>
    BY <1>4 DEF GetReturn, JoinTimer
  <2>2. PayloadInv'
    BY <1>i, <2>1, PayloadKept DEF base, P!InFlight
  <2>3. MainInv'
    BY <1>i, <2>1, MainGoes DEF MainInv, base
  <2>4. LifeInv'
    BY <1>i, <2>1, LifeKept DEF LifeInv, base
  <2>5. QED
    BY <2>2, <2>3, <2>4 DEF Local
<1>5. CASE DestroyBase
  <2>1. /\ T!Destroy /\ main.at = "destroying" /\ main' = [main EXCEPT !.at = "joiningWorker"]
        /\ UNCHANGED <<payload, life>>
    BY <1>5 DEF DestroyBase
  <2>2. /\ pc[Owner] = "alive" /\ pc'[Owner] = "joining" /\ Woken(Owner)
        /\ lastMsg' = lastMsg
    BY <2>1, OwnerEffect
  <2>3. pc[Main] = "idle" /\ pc'[Main] = "idle"
    BY <1>i, <2>1, <2>2, MainAsleep, Types, HumanThreadAssumption DEF MainInv
  <2>4. MainInv'
    BY <1>i, <2>1, <2>2, <2>3, MainGoes DEF MainInv
  <2>5. LifeInv'
    BY <1>i, <2>1, <2>2, MainGoes, LifeKept
  <2>6. QED
    BY <2>1, <2>4, <2>5, PayloadClosed DEF Local
<1>6. CASE Join
  <2>1. T!Join /\ main' = [main EXCEPT !.at = "idle"] /\ life' = "gone" /\ UNCHANGED payload
    BY <1>6 DEF Join
  <2>2. /\ pc[Owner] = "joining" /\ pc'[Owner] = "destroyed" /\ Woken(Owner)
        /\ UNCHANGED <<signalMsgQueue, signalMsg, lastMsg, sent>>
    BY <2>1, OwnerEffect
  <2>3. pc[Main] = "idle" /\ pc'[Main] = "idle"
    <3>1. pc[Main] = "idle"
      BY <2>2 DEF Inv, P!SyncInv, P!ControlInv
    <3>2. QED
      BY <2>2, <3>1, MainAsleep, Types, HumanThreadAssumption
  <2>4. MainInv'
    BY <1>i, <2>1, <2>3, MainGoes DEF MainInv
  <2>5. LifeInv'
    BY <2>1, <2>2 DEF LifeInv
  <2>6. PayloadInv'
    <3>1. P!InFlight' => P!InFlight
      BY <2>2, Types, HumanThreadAssumption DEF Woken, P!InFlight
    <3>2. QED
      BY <1>i, <2>1, <2>2, <3>1, PayloadKept
  <2>7. QED
    BY <2>4, <2>5, <2>6 DEF Local
<1>7. QED
  BY <1>1, <1>2, <1>3, <1>4, <1>5, <1>6 DEF MainStep

LEMMA TimerLocal == Inv /\ TimerStep => Local'
<1> SUFFICES ASSUME Inv, TimerStep PROVE Local'
  OBVIOUS
<1>i. PayloadInv /\ MainInv /\ LifeInv
  BY DEF Inv
<1>1. UNCHANGED <<main, life>>
  BY DEF TimerStep, TimerGoto, human
<1>2. CASE UNCHANGED <<base, payload>>
  BY <1>i, <1>1, <1>2, PayloadKept, MainKept, LifeKept DEF base, P!InFlight, Local
<1>3. CASE Post(Timer, "WantToSleep", Nothing, FALSE)
  <2>1. "WantToSleep" \in H!Signals
    BY DEF H!Signals, H!SentenceSignals
  <2>2. PayloadInv'
    BY <1>3, <2>1, PayloadPosted
  <2>3. /\ pc' = [pc EXCEPT ![Timer] = "notify"]
        /\ lastMsg' = [lastMsg EXCEPT ![Timer] = P!NewMsg(Timer, Number("WantToSleep"), FALSE)]
    BY <1>3, <2>1, PostEffect
  <2>4. lastMsg'[Main] = lastMsg[Main] /\ pc'[Main] = pc[Main] /\ pc'[Owner] = pc[Owner]
    BY <2>3, Types, HumanThreadAssumption
  <2>5. QED
    BY <1>i, <1>1, <2>2, <2>4, MainKept, LifeKept DEF Local
<1>4. CASE T!SendNotify(Timer) /\ UNCHANGED payload
  <2>1. Woken(Timer) /\ UNCHANGED <<signalMsgQueue, signalMsg, lastMsg, sent>>
    BY <1>4, SendNotifyEffect
  <2>2. pc'[Main] = "idle" <=> pc[Main] = "idle"
    BY <2>1, MainAsleep, Types, HumanThreadAssumption
  <2>3. (P!InFlight' => P!InFlight) /\ pc'[Owner] = pc[Owner]
    BY <2>1, Types, HumanThreadAssumption DEF Woken, P!InFlight, P!OwnerStates
  <2>4. QED
    BY <1>i, <1>1, <1>4, <2>1, <2>2, <2>3, PayloadKept, MainKept, LifeKept DEF Local
<1>5. QED
  BY <1>2, <1>3, <1>4 DEF TimerStep

LEMMA WorkerLocal == Inv /\ WorkerStep => Local'
<1> SUFFICES ASSUME Inv, WorkerStep PROVE Local'
  OBVIOUS
<1>i. PayloadInv /\ MainInv /\ LifeInv
  BY DEF Inv
<1>1. UNCHANGED <<main, life, payload>>
  BY DEF WorkerStep, Process, UserCustomFunction
<1>2. \/ T!WorkerTake
      \/ T!WorkerBlock \/ T!SetSyncProcessed \/ T!UserCustomFunction
  BY DEF WorkerStep, Process, UserCustomFunction
<1>3. Woken(Worker) /\ lastMsg' = lastMsg
  BY <1>2, TakeEffect, ProcessEffect
<1>4. MainInv' /\ LifeInv'
  <2>1. pc'[Main] = "idle" <=> pc[Main] = "idle"
    BY <1>3, MainAsleep, Types, HumanThreadAssumption
  <2>2. pc'[Owner] = pc[Owner]
    BY <1>3, Types, HumanThreadAssumption DEF Woken, P!OwnerStates
  <2>3. QED
    BY <1>i, <1>1, <1>3, <2>1, <2>2, MainKept, LifeKept
<1>5. PayloadInv'
  <2>1. CASE T!WorkerTake
    BY <1>1, <2>1, PayloadTaken
  <2>2. CASE T!WorkerBlock \/ T!SetSyncProcessed \/ T!UserCustomFunction
    <3>1. /\ UNCHANGED <<signalMsgQueue, signalMsg, sent>>
          /\ P!InFlight' => P!InFlight
      BY <2>2, ProcessEffect DEF P!InFlight
    <3>2. QED
      BY <1>i, <1>1, <3>1, PayloadKept
  <2>3. QED
    BY <1>2, <2>1, <2>2
<1>6. QED
  BY <1>4, <1>5 DEF Local

LEMMA InvStep == Inv /\ [Next]_vars => Inv'
<1> SUFFICES ASSUME Inv, [Next]_vars PROVE Inv'
  OBVIOUS
<1>i. PayloadInv /\ MainInv /\ LifeInv
  BY DEF Inv
<1>1. ASSUME Construct PROVE Local'
  <2>1. T!CreateThread /\ UNCHANGED <<payload, main, life>>
    BY <1>1 DEF Construct, human
  <2>2. /\ pc[Owner] = "constructing" /\ pc'[Worker] = "check" /\ pc'[Main] = pc[Main]
        /\ UNCHANGED <<signalMsgQueue, signalMsg, lastMsg, sent>>
    BY <2>1, OwnerEffect
  <2>3. QED
    BY <1>i, <2>1, <2>2, PayloadKept, MainKept, LifeKept DEF Local, P!InFlight
<1>2. ASSUME Stopped \/ UNCHANGED vars PROVE Local'
  <2>1. UNCHANGED <<base, payload, main, life>>
    BY <1>2 DEF Stopped, vars, human
  <2>2. QED
    BY <1>i, <2>1, PayloadKept, MainKept, LifeKept DEF Local, P!InFlight, base
<1>3. Local'
  BY <1>1, <1>2, CallLocal, MainLocal, TimerLocal, WorkerLocal DEF Next
<1>4. QED
  BY <1>3, BaseStep DEF Inv, Local

LEMMA Invariant == Spec => []Inv
BY InvInit, InvStep, PTL DEF Spec

-----------------------------------------------------------------------------
(* What Human sees of the queue q when the messages carry p.               *)

Letter(signal, arg, wait) == [signal |-> signal, arg |-> arg, wait |-> wait]
LastLetter == Letter("DestroyThread", Nothing, FALSE)

ViewIn(m, p) ==
  IF m = P!DestroyMsg THEN LastLetter ELSE Letter(Signal[m.signal + 1], p[m.id], m.wait)

Letters(q, p) == [i \in DOMAIN q |-> ViewIn(q[i], p)]

Closed == pc[Worker] = "exited" /\ pc[Owner] = "joining"

LEMMA Seen ==
  /\ QueueView = Letters(signalMsgQueue, payload) \o (IF Closed THEN <<LastLetter>> ELSE <<>>)
  /\ QueueView' = Letters(signalMsgQueue', payload')
                    \o (IF Closed' THEN <<LastLetter>> ELSE <<>>)
  /\ SlotView = IF pc[Worker] = "running" /\ fate # "undefined" THEN ViewIn(signalMsg, payload)
                ELSE Nothing
  /\ SlotView' = IF pc'[Worker] = "running" /\ fate' # "undefined"
                 THEN ViewIn(signalMsg', payload') ELSE Nothing
<1>1. T!DestroyMsg = P!DestroyMsg
  BY DEF T!DestroyMsg, P!DestroyMsg, T!DestroyThread_Signal, P!DestroyThread_Signal
<1>2. (\A m : View(m) = ViewIn(m, payload)) /\ (\A m : View(m)' = ViewIn(m, payload'))
  BY <1>1 DEF View, ViewIn, Letter, LastLetter
<1>3. View(T!DestroyMsg) = LastLetter /\ View(T!DestroyMsg)' = LastLetter
  BY DEF View, Letter, LastLetter
<1>4. QueueView = Letters(signalMsgQueue, payload) \o (IF Closed THEN <<LastLetter>> ELSE <<>>)
  BY <1>2, <1>3 DEF QueueView, Letters, Closed
<1>5. QueueView' = Letters(signalMsgQueue', payload')
                     \o (IF Closed' THEN <<LastLetter>> ELSE <<>>)
  <2>1. QueueView' = [i \in DOMAIN signalMsgQueue' |-> View(signalMsgQueue[i])']
                       \o (IF Closed' THEN <<LastLetter>> ELSE <<>>)
    BY <1>3 DEF QueueView, Closed
  <2>2. \A i \in DOMAIN signalMsgQueue' :
          View(signalMsgQueue[i])' = ViewIn(signalMsgQueue'[i], payload')
    BY <1>1 DEF View, ViewIn, Letter, LastLetter
  <2>3. QED
    BY <2>1, <2>2 DEF Letters
<1>6. SlotView = IF pc[Worker] = "running" /\ fate # "undefined" THEN ViewIn(signalMsg, payload)
                 ELSE Nothing
  BY <1>2 DEF SlotView
<1>7. SlotView' = IF pc'[Worker] = "running" /\ fate' # "undefined"
                  THEN ViewIn(signalMsg', payload') ELSE Nothing
  BY <1>1 DEF SlotView, View, ViewIn, Letter, LastLetter
<1>8. QED
  BY <1>4, <1>5, <1>6, <1>7

LEMMA LastLetterType ==
  /\ LastLetter \in H!Message /\ ~LastLetter.wait /\ LastLetter.signal = "DestroyThread"
BY DEF LastLetter, Letter, H!Message

(* A message keeps its contents when more is sent.                         *)
LEMMA ViewType ==
  ASSUME NEW p \in Seq(Words \cup {Nothing}), NEW m \in P!Message \cup {P!DestroyMsg},
         m.id <= Len(p)
  PROVE  /\ ViewIn(m, p) \in H!Message /\ ViewIn(m, p).wait = m.wait
         /\ m \in P!Message => ViewIn(m, p).signal \in H!Signals
         /\ \A arg : ViewIn(m, Append(p, arg)) = ViewIn(m, p)
<1>1. CASE m = P!DestroyMsg
  <2>1. m.wait = FALSE /\ m \notin P!Message
    BY <1>1, Assumptions, P!MessageFacts DEF P!DestroyMsg
  <2>2. LastLetter.wait = FALSE /\ LastLetter \in H!Message
    BY DEF LastLetter, Letter, H!Message
  <2>3. QED
    BY <1>1, <2>1, <2>2 DEF ViewIn
<1>2. CASE m \in P!Message
  <2>1. m # P!DestroyMsg
    BY <1>2, Assumptions, P!MessageFacts
  <2>2. m.id \in 1..Len(p) /\ m.wait \in BOOLEAN /\ m.signal \in 0..8
    BY <1>2, HumanThreadAssumption DEF P!Message
  <2>3. Signal[m.signal + 1] \in H!Signals /\ p[m.id] \in Words \cup {Nothing}
    BY <2>2, SignalOfNumber
  <2>4. \A arg : Append(p, arg)[m.id] = p[m.id]
    BY <2>2
  <2>5. QED
    BY <2>1, <2>2, <2>3, <2>4 DEF ViewIn, Letter, H!Message
<1>3. QED
  BY <1>1, <1>2

Known(q, p) ==
  /\ p \in Seq(Words \cup {Nothing})
  /\ q \in Seq(P!Message \cup {P!DestroyMsg})
  /\ \A i \in DOMAIN q : q[i].id <= Len(p)

LEMMA LettersType ==
  ASSUME NEW q, NEW p, Known(q, p)
  PROVE  /\ Letters(q, p) \in Seq(H!Message) /\ Len(Letters(q, p)) = Len(q)
         /\ DOMAIN Letters(q, p) = 1..Len(q) /\ DOMAIN q = 1..Len(q)
         /\ \A i \in 1..Len(q) : Letters(q, p)[i] = ViewIn(q[i], p)
                                  /\ Letters(q, p)[i].wait = q[i].wait
<1>1. \A i \in DOMAIN q : ViewIn(q[i], p) \in H!Message /\ ViewIn(q[i], p).wait = q[i].wait
  BY ViewType DEF Known
<1>2. QED
  BY <1>1 DEF Known, Letters

LEMMA LettersAppend ==
  ASSUME NEW q, NEW p, Known(q, p), NEW m \in P!Message \cup {P!DestroyMsg}, NEW p2,
         p2 = p \/ \E arg \in Words \cup {Nothing} : p2 = Append(p, arg), m.id <= Len(p2)
  PROVE  /\ Letters(Append(q, m), p2) = Append(Letters(q, p), ViewIn(m, p2))
         /\ Known(Append(q, m), p2)
<1>1. q \in Seq(P!Message \cup {P!DestroyMsg}) /\ Len(q) \in Nat
      /\ p \in Seq(Words \cup {Nothing}) /\ \A i \in DOMAIN q : q[i].id <= Len(p)
  BY DEF Known
<1>2. /\ Append(q, m) \in Seq(P!Message \cup {P!DestroyMsg}) /\ Len(Append(q, m)) = Len(q) + 1
      /\ \A i \in 1..Len(q) : Append(q, m)[i] = q[i]
      /\ Append(q, m)[Len(q) + 1] = m
  BY <1>1, AppendProperties
<1>3. p2 \in Seq(Words \cup {Nothing}) /\ Len(p) \in Nat /\ Len(p2) \in Nat /\ Len(p) <= Len(p2)
  BY <1>1
<1>4. ASSUME NEW i \in 1..Len(q)
      PROVE  ViewIn(q[i], p2) = ViewIn(q[i], p) /\ q[i].id <= Len(p2)
  <2>1. q[i] \in P!Message \cup {P!DestroyMsg} /\ q[i].id <= Len(p)
    BY <1>1
  <2>2. ViewIn(q[i], p2) = ViewIn(q[i], p)
    <3>1. \A arg : ViewIn(q[i], Append(p, arg)) = ViewIn(q[i], p)
      BY <1>1, <2>1, ViewType
    <3>2. QED
      BY <3>1
  <2>3. q[i].id \in Int
    BY <2>1, HumanThreadAssumption DEF P!Message, P!DestroyMsg
  <2>4. QED
    BY <1>3, <2>1, <2>2, <2>3
<1>5. Known(Append(q, m), p2)
  <2>1. ASSUME NEW i \in DOMAIN Append(q, m) PROVE Append(q, m)[i].id <= Len(p2)
    <3>1. i \in 1..Len(q) \/ i = Len(q) + 1
      BY <1>1, <1>2
    <3>2. QED
      BY <1>2, <1>4, <3>1
  <2>2. QED
    BY <1>2, <1>3, <2>1 DEF Known
<1>6. /\ Letters(Append(q, m), p2) \in Seq(H!Message)
      /\ Len(Letters(Append(q, m), p2)) = Len(q) + 1
      /\ \A i \in 1..(Len(q) + 1) : Letters(Append(q, m), p2)[i] = ViewIn(Append(q, m)[i], p2)
  <2> DEFINE longer == Append(q, m)
  <2> HIDE DEF longer
  <2>1. Known(longer, p2)
    BY <1>5 DEF longer
  <2>2. /\ Letters(longer, p2) \in Seq(H!Message) /\ Len(Letters(longer, p2)) = Len(longer)
        /\ \A i \in 1..Len(longer) : Letters(longer, p2)[i] = ViewIn(longer[i], p2)
    BY <2>1, LettersType
  <2>3. Len(longer) = Len(q) + 1
    BY <1>2 DEF longer
  <2>4. QED
    BY <2>2, <2>3 DEF longer
<1>7. /\ Letters(q, p) \in Seq(H!Message) /\ Len(Letters(q, p)) = Len(q)
      /\ \A i \in 1..Len(q) : Letters(q, p)[i] = ViewIn(q[i], p)
  BY <1>1, LettersType
<1>8. ViewIn(m, p2) \in H!Message
  BY <1>3, ViewType
<1>9. /\ Append(Letters(q, p), ViewIn(m, p2)) \in Seq(H!Message)
      /\ Len(Append(Letters(q, p), ViewIn(m, p2))) = Len(q) + 1
      /\ \A i \in 1..Len(q) : Append(Letters(q, p), ViewIn(m, p2))[i] = Letters(q, p)[i]
      /\ Append(Letters(q, p), ViewIn(m, p2))[Len(q) + 1] = ViewIn(m, p2)
  BY <1>7, <1>8, AppendProperties
<1>10. ASSUME NEW i \in 1..(Len(q) + 1)
       PROVE  Letters(Append(q, m), p2)[i] = Append(Letters(q, p), ViewIn(m, p2))[i]
  <2>1. i \in 1..Len(q) \/ i = Len(q) + 1
    BY <1>1
  <2>2. QED
    BY <1>2, <1>4, <1>6, <1>7, <1>9, <2>1
<1>11. Letters(Append(q, m), p2) = Append(Letters(q, p), ViewIn(m, p2))
  BY <1>6, <1>9, <1>10, SeqEqual
<1>12. QED
  BY <1>5, <1>11

LEMMA LettersTail ==
  ASSUME NEW q, NEW p, Known(q, p), q # <<>>
  PROVE  /\ Letters(q, p) # <<>> /\ Head(Letters(q, p)) = ViewIn(Head(q), p)
         /\ Letters(Tail(q), p) = Tail(Letters(q, p))
<1>1. /\ Letters(q, p) \in Seq(H!Message) /\ Len(Letters(q, p)) = Len(q)
      /\ DOMAIN q = 1..Len(q)
      /\ \A i \in 1..Len(q) : Letters(q, p)[i] = ViewIn(q[i], p)
  BY LettersType
<1>2. /\ q \in Seq(P!Message \cup {P!DestroyMsg}) /\ Len(q) \in Nat /\ Len(q) > 0
      /\ p \in Seq(Words \cup {Nothing}) /\ \A i \in DOMAIN q : q[i].id <= Len(p)
  BY DEF Known
<1>3. Letters(q, p) # <<>>
  BY <1>1, <1>2
<1>4. Head(Letters(q, p)) = ViewIn(Head(q), p)
  <2>1. 1 \in DOMAIN q /\ Head(q) = q[1]
    BY <1>2
  <2>2. QED
    BY <1>1, <1>2, <2>1
<1>5. /\ Tail(q) \in Seq(P!Message \cup {P!DestroyMsg}) /\ Len(Tail(q)) = Len(q) - 1
      /\ \A i \in 1..Len(Tail(q)) : Tail(q)[i] = q[i + 1]
  BY <1>2, HeadTailProperties
<1>6. /\ Tail(Letters(q, p)) \in Seq(H!Message) /\ Len(Tail(Letters(q, p))) = Len(q) - 1
      /\ \A i \in 1..Len(Tail(Letters(q, p))) : Tail(Letters(q, p))[i] = Letters(q, p)[i + 1]
  BY <1>1, <1>3, HeadTailProperties
<1>7. \A i \in 1..(Len(q) - 1) : i + 1 \in DOMAIN q
  BY <1>2
<1>8. Known(Tail(q), p)
  BY <1>2, <1>5, <1>7 DEF Known
<1>9. /\ Letters(Tail(q), p) \in Seq(H!Message) /\ Len(Letters(Tail(q), p)) = Len(q) - 1
      /\ \A i \in 1..(Len(q) - 1) : Letters(Tail(q), p)[i] = ViewIn(q[i + 1], p)
  <2>1. /\ Letters(Tail(q), p) \in Seq(H!Message) /\ Len(Letters(Tail(q), p)) = Len(Tail(q))
        /\ \A i \in 1..Len(Tail(q)) : Letters(Tail(q), p)[i] = ViewIn(Tail(q)[i], p)
    BY <1>8, LettersType
  <2>2. QED
    BY <1>5, <2>1
<1>10. \A i \in 1..(Len(q) - 1) : Letters(Tail(q), p)[i] = Tail(Letters(q, p))[i]
  BY <1>1, <1>6, <1>7, <1>9
<1>11. Letters(Tail(q), p) = Tail(Letters(q, p))
  BY <1>6, <1>9, <1>10, SeqEqual
<1>12. QED
  BY <1>3, <1>4, <1>11

LEMMA QueueKnown ==
  ASSUME Inv
  PROVE  /\ Known(signalMsgQueue, payload) /\ Len(payload) = sent
         /\ Closed => signalMsgQueue = <<>>
         /\ ~Closed => QueueView = Letters(signalMsgQueue, payload)
         /\ Closed => QueueView = <<LastLetter>>
<1>1. Known(signalMsgQueue, payload) /\ Len(payload) = sent
  BY Types DEF Inv, PayloadInv, Known
<1>2. Closed => signalMsgQueue = <<>>
  BY DEF Inv, P!SyncInv, P!ControlInv, Closed
<1>3. Letters(signalMsgQueue, payload) \in Seq(H!Message)
      /\ Len(Letters(signalMsgQueue, payload)) = Len(signalMsgQueue)
  BY <1>1, LettersType
<1>4. ~Closed => QueueView = Letters(signalMsgQueue, payload)
  <2>1. ~Closed => QueueView = Letters(signalMsgQueue, payload) \o <<>>
    BY Seen
  <2>2. Letters(signalMsgQueue, payload) \o <<>> = Letters(signalMsgQueue, payload)
    BY <1>3, ConcatEmptySeq
  <2>3. QED
    BY <2>1, <2>2
<1>5. Closed => QueueView = <<LastLetter>>
  <2>1. Closed => Letters(signalMsgQueue, payload) = <<>>
    BY <1>2, <1>3, EmptySeq
  <2>2. \A d : <<>> \o <<d>> = <<d>>
    OBVIOUS
  <2>3. QED
    BY <2>1, <2>2, Seen
<1>6. QED
  BY <1>1, <1>2, <1>4, <1>5

-----------------------------------------------------------------------------
(* What Human sees of a step.                                              *)

LEMMA Unseen ==
  ASSUME UNCHANGED <<signalMsgQueue, payload>>, Closed' <=> Closed,
         pc'[Worker] = "running" <=> pc[Worker] = "running",
         pc[Worker] = "running" => signalMsg' = signalMsg,
         fate' = fate \/ {fate, fate'} \subseteq {"running", "terminate"}
  PROVE  QueueView' = QueueView /\ SlotView' = SlotView
<1>1. QueueView' = QueueView
  BY Seen
<1>2. fate' # "undefined" <=> fate # "undefined"
  OBVIOUS
<1>3. SlotView' = SlotView
  BY <1>2, Seen
<1>4. QED
  BY <1>1, <1>3

(* The queue of an object that is not closed.                              *)
LEMMA OpenView ==
  ASSUME Known(signalMsgQueue', payload'), ~Closed'
  PROVE  QueueView' = Letters(signalMsgQueue', payload')
<1>1. Letters(signalMsgQueue', payload') \in Seq(H!Message)
  BY LettersType
<1>2. QueueView' = Letters(signalMsgQueue', payload') \o <<>>
  BY Seen
<1>3. QED
  BY <1>1, <1>2, ConcatEmptySeq

LEMMA SlotKnown ==
  ASSUME Inv, pc[Worker] = "running"
  PROVE  /\ signalMsg \in P!Message /\ signalMsg.id <= Len(payload)
         /\ ViewIn(signalMsg, payload) \in H!Message /\ ViewIn(signalMsg, payload) # Nothing
         /\ ViewIn(signalMsg, payload).wait = signalMsg.wait
         /\ \A arg : ViewIn(signalMsg, Append(payload, arg)) = ViewIn(signalMsg, payload)
<1>1. signalMsg \in P!Message /\ signalMsg.id <= Len(payload)
      /\ payload \in Seq(Words \cup {Nothing})
  BY Types DEF P!InFlight, Inv, PayloadInv
<1>2. QED
  BY <1>1, ViewType, NothingAssumption

LEMMA PostView ==
  ASSUME Inv, NEW c \in {Main, Timer}, NEW name \in H!Signals, NEW arg \in Words \cup {Nothing},
         NEW wait \in BOOLEAN, Post(c, name, arg, wait), UNCHANGED fate
  PROVE  QueueView' = Append(QueueView, Letter(name, arg, wait)) /\ SlotView' = SlotView
<1> DEFINE m == P!NewMsg(c, Number(name), wait)
<1>1. /\ m \in P!Message /\ m.id = sent + 1 /\ m.wait = wait /\ m.signal = Number(name)
      /\ pc[Owner] = "alive" /\ pc' = [pc EXCEPT ![c] = "notify"]
      /\ signalMsgQueue' = Append(signalMsgQueue, m) /\ signalMsg' = signalMsg
      /\ payload' = Append(payload, arg)
  BY PostEffect
<1> HIDE DEF m
<1>2. pc'[Worker] = pc[Worker] /\ pc'[Owner] = pc[Owner] /\ ~Closed /\ ~Closed'
  BY <1>1, Types, HumanThreadAssumption DEF Closed
<1>3. /\ Known(signalMsgQueue, payload) /\ Len(payload) = sent /\ sent \in Nat
      /\ payload \in Seq(Words \cup {Nothing})
      /\ QueueView = Letters(signalMsgQueue, payload)
  BY <1>2, QueueKnown, Types DEF Known
<1>4. Len(payload') = sent + 1 /\ payload'[sent + 1] = arg
  BY <1>1, <1>3
<1>5. m.id <= Len(payload')
  BY <1>1, <1>3, <1>4
<1>6. ViewIn(m, payload') = Letter(name, arg, wait)
  <2>1. m # P!DestroyMsg /\ Signal[Number(name) + 1] = name
    BY <1>1, Assumptions, P!MessageFacts, NumberOfSignal
  <2>2. QED
    BY <1>1, <1>4, <2>1 DEF ViewIn
<1>7. /\ Known(signalMsgQueue', payload')
      /\ Letters(signalMsgQueue', payload')
           = Append(Letters(signalMsgQueue, payload), ViewIn(m, payload'))
  <2>1. m \in P!Message \cup {P!DestroyMsg} /\ arg \in Words \cup {Nothing}
    BY <1>1
  <2>2. /\ Letters(Append(signalMsgQueue, m), payload')
             = Append(Letters(signalMsgQueue, payload), ViewIn(m, payload'))
        /\ Known(Append(signalMsgQueue, m), payload')
    <3>1. Known(signalMsgQueue, payload) /\ m.id <= Len(payload')
      BY <1>1, <1>3, <1>5
    <3>2. \E w \in Words \cup {Nothing} : payload' = Append(payload, w)
      BY <1>1, <2>1
    <3>3. QED
      BY <2>1, <3>1, <3>2, LettersAppend
  <2>3. QED
    BY <1>1, <2>2
<1>8. QueueView' = Append(QueueView, Letter(name, arg, wait))
  BY <1>2, <1>3, <1>6, <1>7, OpenView
<1>9. SlotView' = SlotView
  BY <1>1, <1>2, SlotKnown, Seen
<1>10. QED
  BY <1>8, <1>9

LEMMA CloseView ==
  ASSUME Inv, T!Destroy, UNCHANGED <<payload, fate>>
  PROVE  QueueView' = Append(QueueView, LastLetter) /\ SlotView' = SlotView
<1>1. /\ pc[Owner] = "alive" /\ pc'[Owner] = "joining" /\ Woken(Owner)
      /\ signalMsgQueue' = Append(signalMsgQueue, P!DestroyMsg)
      /\ signalMsg' = signalMsg
  BY OwnerEffect
<1>2. pc[Worker] # "exited"
  BY <1>1 DEF Inv, P!SyncInv, P!ControlInv
<1>3. pc'[Worker] # "exited" /\ (pc'[Worker] = "running" <=> pc[Worker] = "running")
  BY <1>1, <1>2, Types, HumanThreadAssumption DEF Woken
<1>4. Known(signalMsgQueue, payload) /\ QueueView = Letters(signalMsgQueue, payload)
      /\ Len(payload) \in Nat
  BY <1>1, QueueKnown, Types DEF Closed
<1>5. P!DestroyMsg.id <= Len(payload) /\ ViewIn(P!DestroyMsg, payload) = LastLetter
  BY <1>4 DEF P!DestroyMsg, ViewIn
<1>6. /\ Known(signalMsgQueue', payload')
      /\ Letters(signalMsgQueue', payload') = Append(Letters(signalMsgQueue, payload), LastLetter)
  BY <1>1, <1>4, <1>5, LettersAppend
<1>7. QueueView' = Append(QueueView, LastLetter)
  BY <1>3, <1>4, <1>6, OpenView DEF Closed
<1>8. SlotView' = SlotView
  BY <1>1, <1>3, Seen
<1>9. QED
  BY <1>7, <1>8

LEMMA TakeView ==
  ASSUME Inv, T!WorkerTake, UNCHANGED payload
  PROVE  /\ SlotView = Nothing
         /\ \/ pc'[Worker] # "running" /\ QueueView' = QueueView /\ SlotView' = Nothing
            \/ /\ pc'[Worker] = "running" /\ QueueView # <<>> /\ QueueView' = Tail(QueueView)
               /\ Head(QueueView).signal # "DestroyThread"
               /\ SlotView' = IF fate' # "undefined" THEN Head(QueueView) ELSE Nothing
<1>1. /\ signalMsgQueue # <<>>
      /\ signalMsg' = Head(signalMsgQueue) /\ signalMsgQueue' = Tail(signalMsgQueue)
      /\ pc[Worker] = "check" /\ Woken(Worker)
      /\ \/ signalMsg' = P!DestroyMsg /\ pc'[Worker] = "exited"
            /\ pc[Owner] = "joining" /\ Len(signalMsgQueue) = 1
         \/ signalMsg' \in P!Message /\ pc'[Worker] = "running"
  BY TakeEffect
<1>2. SlotView = Nothing
  BY <1>1, Seen
<1>3. Known(signalMsgQueue, payload) /\ QueueView = Letters(signalMsgQueue, payload)
  BY <1>1, QueueKnown DEF Closed
<1>4. /\ QueueView # <<>> /\ Head(QueueView) = ViewIn(signalMsg', payload)
      /\ Letters(signalMsgQueue', payload') = Tail(QueueView)
  BY <1>1, <1>3, LettersTail
<1>5. pc'[Owner] = pc[Owner]
  BY <1>1, Types, HumanThreadAssumption DEF Woken, P!OwnerStates
<1>6. CASE signalMsg' = P!DestroyMsg /\ pc'[Worker] = "exited"
  <2>1. Closed' /\ Len(signalMsgQueue) = 1
    BY <1>1, <1>5, <1>6, Assumptions, P!MessageFacts DEF Closed
  <2>2. Len(QueueView) = 1 /\ QueueView \in Seq(H!Message) /\ QueueView[1] = LastLetter
    <3>1. Len(QueueView) = 1 /\ QueueView \in Seq(H!Message)
      BY <1>3, <2>1, LettersType
    <3>2. QueueView[1] = Head(QueueView)
      BY <1>4, <3>1
    <3>3. QED
      BY <1>4, <1>6, <3>1, <3>2 DEF ViewIn
  <2>3. QueueView = <<LastLetter>>
    <3>1. <<LastLetter>> \in Seq({LastLetter}) /\ Len(<<LastLetter>>) = 1
          /\ <<LastLetter>>[1] = LastLetter
      OBVIOUS
    <3>2. <<LastLetter>> \in Seq(H!Message)
      BY LastLetterType
    <3>3. QED
      BY <2>2, <3>1, <3>2, SeqEqual
  <2>4. signalMsgQueue' = <<>>
    <3>1. signalMsgQueue \in Seq(P!Message \cup {P!DestroyMsg})
      BY Types
    <3>2. QED
      BY <1>1, <2>1, <3>1, HeadTailProperties, EmptySeq
  <2>5. Letters(signalMsgQueue', payload') = <<>>
    BY <2>4 DEF Letters
  <2>6. QueueView' = <<>> \o <<LastLetter>>
    BY <2>1, <2>5, Seen
  <2>7. \A d : <<>> \o <<d>> = <<d>>
    OBVIOUS
  <2>8. SlotView' = Nothing
    BY <1>6, Seen
  <2>9. QED
    BY <1>2, <1>6, <2>3, <2>6, <2>7, <2>8
<1>7. CASE signalMsg' \in P!Message /\ pc'[Worker] = "running"
  <2>1. Letters(signalMsgQueue', payload') \in Seq(H!Message)
    <3>1. Letters(signalMsgQueue, payload) \in Seq(H!Message)
      BY <1>3, LettersType
    <3>2. QED
      BY <1>3, <1>4, <3>1, HeadTailProperties
  <2>2. QueueView' = Tail(QueueView)
    <3>1. QueueView' = Letters(signalMsgQueue', payload') \o <<>>
      BY <1>7, Seen DEF Closed
    <3>2. QED
      BY <1>4, <2>1, <3>1, ConcatEmptySeq
  <2>3. ViewIn(signalMsg', payload).signal # "DestroyThread"
    <3>1. signalMsg' # P!DestroyMsg /\ signalMsg'.signal \in 0..8
      BY <1>7, Assumptions, P!MessageFacts DEF P!Message
    <3>2. "DestroyThread" \notin H!Signals
      BY DEF H!Signals, H!SentenceSignals, H!ContentSignals, H!AnswerSignals
    <3>3. QED
      BY <3>1, <3>2, SignalOfNumber DEF ViewIn, Letter
  <2>4. SlotView' = IF fate' # "undefined" THEN ViewIn(signalMsg', payload) ELSE Nothing
    BY <1>7, Seen
  <2>5. QED
    BY <1>2, <1>4, <1>7, <2>2, <2>3, <2>4
<1>8. QED
  BY <1>1, <1>6, <1>7

LEMMA JoinView ==
  ASSUME Inv, T!Join, UNCHANGED payload
  PROVE  /\ QueueView = <<LastLetter>> /\ QueueView' = <<>>
         /\ SlotView = Nothing /\ SlotView' = Nothing
<1>1. /\ pc[Owner] = "joining" /\ pc'[Owner] = "destroyed" /\ pc[Worker] = "exited"
      /\ Woken(Owner) /\ signalMsgQueue' = signalMsgQueue
  BY OwnerEffect
<1>2. pc'[Worker] = "exited"
  BY <1>1, Types, HumanThreadAssumption DEF Woken
<1>3. QueueView = <<LastLetter>> /\ signalMsgQueue = <<>>
  BY <1>1, QueueKnown DEF Closed
<1>4. Letters(signalMsgQueue', payload') = <<>>
  BY <1>1, <1>3 DEF Letters
<1>5. QueueView' = <<>>
  <2>1. QueueView' = <<>> \o <<>>
    BY <1>1, <1>4, Seen DEF Closed
  <2>2. QED
    BY <2>1
<1>6. SlotView = Nothing /\ SlotView' = Nothing
  BY <1>1, <1>2, Seen
<1>7. QED
  BY <1>3, <1>5, <1>6

LEMMA EndView ==
  ASSUME Inv, T!UserCustomFunction, UNCHANGED payload, fate = "running"
  PROVE  /\ QueueView' = QueueView /\ SlotView' = Nothing
         /\ SlotView = ViewIn(signalMsg, payload) /\ SlotView # Nothing
<1>1. /\ pc[Worker] = "running" /\ pc'[Worker] \in {"signal", "check"} /\ Woken(Worker)
      /\ UNCHANGED <<signalMsgQueue, signalMsg, lastMsg, sent>>
  BY ProcessEffect
<1>2. ~Closed /\ ~Closed'
  BY <1>1 DEF Closed
<1>3. QueueView' = QueueView
  BY <1>1, <1>2, Seen
<1>4. QED
  BY <1>1, <1>3, SlotKnown, Seen

(* The main thread is told that its message is finished only when it is.   *)
LEMMA Finished ==
  ASSUME Inv, pc[Main] = "idle" \/ (pc[Main] = "check" /\ syncProcessed)
  PROVE  ~H!Unfinished(Self)
<1>1. P!AwaitedInv /\ P!FlagInv
  BY DEF Inv, P!SyncInv
<1>2. ASSUME NEW m, P!AwaitedIn(m, pc, lastMsg),
             P!OutIn(m, signalMsgQueue, pc[Worker], signalMsg)
      PROVE  FALSE
  <2>1. /\ m.from \in {Main, Timer} /\ pc[m.from] # "idle" /\ lastMsg[m.from] = m
        /\ m # Nothing /\ m.wait
    BY <1>2 DEF P!AwaitedIn
  <2>2. m.from = Main
    BY <1>1, <2>1 DEF P!AwaitedInv
  <2>3. P!InSyncCall(Main) /\ syncProcessed /\ lastMsg[Main] = m
    BY <2>1, <2>2 DEF P!InSyncCall
  <2>4. QED
    BY <1>1, <1>2, <2>3 DEF P!FlagInv
<1>3. signalMsgQueue \in Seq(P!Message \cup {P!DestroyMsg})
  BY Types
<1>4. \A i \in 1..Len(signalMsgQueue) : ~signalMsgQueue[i].wait
  <2> SUFFICES ASSUME NEW i \in 1..Len(signalMsgQueue), signalMsgQueue[i].wait PROVE FALSE
    OBVIOUS
  <2>1. P!AwaitedIn(signalMsgQueue[i], pc, lastMsg)
    BY <1>1 DEF P!AwaitedInv
  <2>2. P!OutIn(signalMsgQueue[i], signalMsgQueue, pc[Worker], signalMsg)
    BY <1>3 DEF P!OutIn
  <2>3. QED
    BY <1>2, <2>1, <2>2
<1>5. pc[Worker] = "running" => ~signalMsg.wait
  <2> SUFFICES ASSUME pc[Worker] = "running", signalMsg.wait PROVE FALSE
    OBVIOUS
  <2>1. P!AwaitedIn(signalMsg, pc, lastMsg)
    BY <1>1 DEF P!AwaitedInv, P!InFlight
  <2>2. P!OutIn(signalMsg, signalMsgQueue, pc[Worker], signalMsg)
    BY DEF P!OutIn
  <2>3. QED
    BY <1>2, <2>1, <2>2
<1>6. \A i \in DOMAIN QueueView : ~QueueView[i].wait
  <2>1. CASE Closed
    <3>1. QueueView = <<LastLetter>> /\ ~LastLetter.wait
      BY <2>1, QueueKnown, LastLetterType
    <3>2. \A d : DOMAIN <<d>> = {1} /\ <<d>>[1] = d
      OBVIOUS
    <3>3. QED
      BY <3>1, <3>2
  <2>2. CASE ~Closed
    BY <1>4, <2>2, QueueKnown, LettersType
  <2>3. QED
    BY <2>1, <2>2
<1>7. SlotView # Nothing => ~SlotView.wait
  BY <1>5, SlotKnown, Seen
<1>8. Of(QueueView)[Self] = QueueView /\ Of(SlotView)[Self] = SlotView
  BY DEF Of
<1>9. QED
  BY <1>6, <1>7, <1>8 DEF H!Unfinished

-----------------------------------------------------------------------------
(* Every step of a Human on its ThreadBase is one of Human, or none.       *)

LEMMA OfSelf ==
  \A v, w : Of(v)[Self] = v /\ [Of(v) EXCEPT ![Self] = w] = Of(w)
BY DEF Of

LEMMA RefInit == Init => H!Init
<1> SUFFICES ASSUME Init PROVE H!Init
  OBVIOUS
<1>1. signalMsgQueue = <<>> /\ pc[Worker] = "absent"
  BY HumanThreadAssumption DEF Init, T!Init, T!Threads
<1>2. Letters(signalMsgQueue, payload) = <<>>
  BY <1>1 DEF Letters
<1>3. QueueView = <<>> /\ SlotView = Nothing
  <2>1. QueueView = <<>> \o <<>>
    BY <1>1, <1>2, Seen DEF Closed
  <2>2. QED
    BY <1>1, <2>1, Seen
<1>4. QED
  BY <1>3 DEF Init, H!Init, Of

(* An object of which a function can be called is not yet in its           *)
(* destructors.                                                            *)
LEMMA Usable ==
  ASSUME Inv, pc[Owner] = "alive", main.at \notin {"destroying", "joiningWorker"}
  PROVE  life = "alive"
BY DEF Inv, LifeInv

LEMMA RefSend ==
  ASSUME Inv, NEW call \in H!Signals, NEW arg \in Words \cup {Nothing}, Send(call, arg)
  PROVE  H!Send(call, Self, arg)
<1>1. QueueView' = Append(QueueView, Letter(call, arg, TRUE)) /\ SlotView' = SlotView
  BY PostView DEF Send
<1>2. H!Begin(Self)
  BY Usable, OfSelf DEF Send, Begin, Free, H!Begin
<1>3. H!Post(Self, call, arg, TRUE)
  BY <1>1 DEF H!Post, Letter, Of
<1>4. UNCHANGED <<Of(SlotView), Of(sentence), Of(question), Of(count), Of(life), H!timers>>
  BY <1>1 DEF Send, Of, H!timers
<1>5. QED
  BY <1>2, <1>3, <1>4 DEF H!Send, Send, Frame

(* A step that leaves the ThreadBase alone.                                *)
LEMMA Still ==
  ASSUME UNCHANGED <<base, payload>>,
         fate' = fate \/ {fate, fate'} \subseteq {"running", "terminate"}
  PROVE  QueueView' = QueueView /\ SlotView' = SlotView
<1>1. UNCHANGED <<signalMsgQueue, pc, signalMsg>>
  BY DEF base
<1>2. QED
  BY <1>1, Unseen DEF Closed

LEMMA RefEnter ==
  ASSUME Inv, NEW at, NEW call, NEW arg, Enter(at, call, arg)
  PROVE  /\ H!Begin(Self) /\ Of(life)[Self] = "alive"
         /\ main' = H!Frame(at, call, Self, Self, arg)
         /\ UNCHANGED <<H!object, H!timers>>
<1>1. QueueView' = QueueView /\ SlotView' = SlotView
  BY Still DEF Enter
<1>2. H!Begin(Self) /\ Of(life)[Self] = "alive"
  BY Usable, OfSelf DEF Enter, Begin, Free, H!Begin
<1>3. UNCHANGED <<H!object, H!timers>>
  BY <1>1 DEF Enter, Of, H!object, H!timers
<1>4. QED
  BY <1>2, <1>3 DEF Enter, Frame

LEMMA RefTimerCalls ==
  ASSUME Inv, CreateTimer \/ DestroyTimer \/ DestroyHuman
  PROVE  H!CreateTimer(Self) \/ H!DestroyTimer(Self) \/ H!DestroyHuman(Self)
<1>1. CASE CreateTimer
  <2>1. QueueView' = QueueView /\ SlotView' = SlotView
    BY <1>1, Still DEF CreateTimer
  <2>2. H!Begin(Self)
    BY <1>1, Usable, OfSelf DEF CreateTimer, Begin, Free, H!Begin
  <2>3. UNCHANGED <<Of(posted), H!object>>
    BY <1>1, <2>1 DEF CreateTimer, Of, H!object
  <2>4. \/ Of(timerThread)[Self] /\ UNCHANGED <<Of(timerThread), Of(timer), Of(destroyTimer)>>
        \/ /\ ~Of(timerThread)[Self]
           /\ Of(destroyTimer)' = [Of(destroyTimer) EXCEPT ![Self] = FALSE]
           /\ H!StartThread(Self) \/ UNCHANGED <<Of(timerThread), Of(timer)>>
    BY <1>1 DEF CreateTimer, Of, H!StartThread
  <2>5. H!CreateTimer(Self)
    BY <1>1, <2>2, <2>3, <2>4 DEF H!CreateTimer, CreateTimer, Frame
  <2>6. QED
    BY <2>5
<1>2. CASE DestroyTimer
  <2>1. QueueView' = QueueView /\ SlotView' = SlotView
    BY <1>2, Still DEF DestroyTimer
  <2>2. H!Begin(Self)
    BY <1>2, Usable, OfSelf DEF DestroyTimer, Begin, Free, H!Begin
  <2>3. UNCHANGED <<Of(timerThread), Of(timer), Of(posted), H!object>>
    BY <1>2, <2>1 DEF DestroyTimer, Of, H!object
  <2>4. CASE timerThread
    BY <1>2, <2>2, <2>3, <2>4 DEF DestroyTimer, Of, H!DestroyTimer, Frame
  <2>5. CASE ~timerThread
    <3>1. destroyTimer' = destroyTimer
      BY <1>2, <2>5 DEF DestroyTimer
    <3>2. QED
      BY <1>2, <2>2, <2>3, <2>5, <3>1 DEF DestroyTimer, Of, H!DestroyTimer, Frame
  <2>6. QED
    BY <2>4, <2>5
<1>3. CASE DestroyHuman
  <2>1. QueueView' = QueueView /\ SlotView' = SlotView
    BY <1>3, Still DEF DestroyHuman, Free
  <2>2. fate = "running" /\ main.at = "idle" /\ Of(life)[Self] = "alive"
    BY <1>3, Usable, OfSelf DEF DestroyHuman, Free
  <2>3. UNCHANGED <<Of(QueueView), Of(SlotView), Of(sentence), Of(question), Of(count),
                    H!timers, calls>>
    BY <1>3, <2>1 DEF DestroyHuman, Of, H!timers
  <2>4. \/ Of(timerThread)[Self] /\ fate' = "terminate" /\ UNCHANGED Of(life)
        \/ /\ ~Of(timerThread)[Self] /\ UNCHANGED fate
           /\ Of(life)' = [Of(life) EXCEPT ![Self] = "base"]
    BY <1>3 DEF DestroyHuman, Of
  <2>5. H!DestroyHuman(Self)
    BY <1>3, <2>2, <2>3, <2>4 DEF DestroyHuman, H!DestroyHuman, Frame
  <2>6. QED
    BY <2>5
<1>4. QED
  BY <1>1, <1>2, <1>3

LEMMA RefCall == Inv /\ Call => H!Call(Self)
<1> SUFFICES ASSUME Inv, Call PROVE H!Call(Self)
  OBVIOUS
<1>1. ASSUME NEW call \in {"SayHello", "SayGoodBye"}, Send(call, Nothing)
      PROVE  H!Call(Self)
  <2>1. call \in H!Signals /\ Nothing \in Words \cup {Nothing}
    BY DEF H!Signals, H!SentenceSignals
  <2>2. H!Send(call, Self, Nothing)
    BY <1>1, <2>1, RefSend
  <2>3. QED
    BY <2>2 DEF H!Call, H!SendSayHelloSignal, H!SendSayGoodByeSignal
<1>2. ASSUME NEW call \in {"WillDo", "PlanToDo", "GetAQuestion", "GetAAnswer"}, NEW w \in Words,
             Send(call, w)
      PROVE  H!Call(Self)
  <2>1. call \in H!Signals /\ w \in Words \cup {Nothing}
    BY DEF H!Signals, H!SentenceSignals, H!ContentSignals, H!AnswerSignals
  <2>2. H!Send(call, Self, w)
    BY <1>2, <2>1, RefSend
  <2>3. QED
    BY <2>2 DEF H!Call, H!SendWillDoSignal, H!SendPlanToDoSignal, H!SendGetAQuestionSignal,
                H!SendGetAAnswerSignal
<1>3. ASSUME NEW call \in DOMAIN H!Passed, NEW w \in Words, Enter("writing", call, w)
      PROVE  H!Call(Self)
  <2>1. call = "AskAQuestion" \/ call = "AnswerAQuestion"
    BY PassedSignals
  <2>2. H!SendAskAQuestionSignal(Self, Self, w) \/ H!SendAnswerAQuestionSignal(Self, Self, w)
    BY <1>3, <2>1, RefEnter DEF H!SendAskAQuestionSignal, H!SendAnswerAQuestionSignal
  <2>3. QED
    BY <2>2 DEF H!Call
<1>4. ASSUME NEW getter \in H!Getters, Enter("reading", getter, Nothing)
      PROVE  H!Call(Self)
  <2>1. H!Get(Self, getter)
    BY <1>4, RefEnter DEF H!Get
  <2>2. QED
    BY <2>1 DEF H!Call
<1>5. ASSUME CreateTimer \/ DestroyTimer \/ DestroyHuman PROVE H!Call(Self)
  BY <1>5, RefTimerCalls DEF H!Call
<1>6. QED
  BY <1>1, <1>2, <1>3, <1>4, <1>5 DEF Call

(* In a call, the main thread is in one on the object.                     *)
LEMMA InCall ==
  ASSUME Inv, main.at # "idle"
  PROVE  main.human = Self /\ main.other = Self /\ main.arg \in Words \cup {Nothing}
BY DEF Inv, MainInv

LEMMA RefWrite == Inv /\ WriteSentence => H!WriteSentence
<1> SUFFICES ASSUME Inv, WriteSentence PROVE H!WriteSentence
  OBVIOUS
<1>1. main.human = Self /\ main.other = Self /\ main.arg \in Words \cup {Nothing}
  BY InCall DEF WriteSentence
<1>2. main.call \in H!Signals
  BY PassedSignals DEF Inv, MainInv, WriteSentence
<1>3. QueueView' = Append(QueueView, Letter(main.call, main.arg, TRUE)) /\ SlotView' = SlotView
  BY <1>1, <1>2, PostView DEF WriteSentence
<1>4. H!Post(main.human, main.call, main.arg, TRUE)
  BY <1>1, <1>3 DEF H!Post, Letter, Of
<1>5. Writing <=> H!Writing(main.human)
  BY <1>1, OfSelf DEF Writing, H!Writing
<1>6. \E s \in {<<main.other, main.arg>>}
                 \cup (IF H!Writing(main.human) THEN {H!Torn} ELSE {}) :
        Of(sentence)' = [Of(sentence) EXCEPT ![main.human] = s]
  <2>1. PICK s \in {<<Self, main.arg>>} \cup (IF Writing THEN {H!Torn} ELSE {}) : sentence' = s
    BY DEF WriteSentence
  <2>2. Of(sentence)' = [Of(sentence) EXCEPT ![main.human] = s]
    BY <1>1, <2>1 DEF Of
  <2>3. QED
    BY <1>1, <1>5, <2>1, <2>2
<1>7. UNCHANGED <<Of(SlotView), Of(question), Of(count), Of(life), H!timers>>
  BY <1>3 DEF WriteSentence, Of, H!timers
<1>8. QED
  BY <1>4, <1>6, <1>7 DEF WriteSentence, H!WriteSentence

(* The messages of the main thread are as they were when it is notified,   *)
(* sleeps or returns.                                                      *)
LEMMA CallerUnseen ==
  ASSUME Inv, NEW c \in {Main, Timer}, Woken(c), UNCHANGED fate, UNCHANGED payload,
         UNCHANGED <<signalMsgQueue, signalMsg>>
  PROVE  QueueView' = QueueView /\ SlotView' = SlotView
<1>1. /\ pc'[Owner] = pc[Owner]
      /\ pc'[Worker] = pc[Worker] \/ (pc[Worker] = "waiting" /\ pc'[Worker] = "check")
  BY Types, HumanThreadAssumption DEF Woken, P!OwnerStates
<1>2. QED
  BY <1>1, Unseen DEF Closed

LEMMA RefInSend ==
  Inv /\ MainInSend => H!SyncReturn \/ H!OtherReturn \/ UNCHANGED H!vars
<1> SUFFICES ASSUME Inv, MainInSend
             PROVE  H!SyncReturn \/ H!OtherReturn \/ UNCHANGED H!vars
  OBVIOUS
<1>1. Woken(Main) /\ UNCHANGED <<signalMsgQueue, signalMsg>>
  BY SendNotifyEffect, SyncEffect DEF MainInSend
<1>2. QueueView' = QueueView /\ SlotView' = SlotView
  BY <1>1, CallerUnseen DEF MainInSend
<1>3. UNCHANGED <<H!object, H!timers, calls, fate>> /\ fate = "running"
  BY <1>2 DEF MainInSend, Of, H!object, H!timers
<1>4. CASE UNCHANGED main
  BY <1>3, <1>4 DEF H!vars
<1>5. CASE /\ T!SyncReturn(Main)
           /\ main.at = "waitingOther" \/ main.call \notin DOMAIN H!Passed
           /\ main' = [main EXCEPT !.at = "idle"]
  <2>1. pc[Main] = "check" /\ syncProcessed
    BY <1>5, SyncEffect
  <2>2. main.at \in {"waiting", "waitingOther"} /\ ~H!Unfinished(Self)
    BY <2>1, Finished DEF Inv, MainInv
  <2>3. main.human = Self /\ main.other = Self
    BY <2>2, InCall
  <2>4. H!Return
    BY <1>3, <1>5 DEF H!Return
  <2>5. QED
    BY <1>3, <1>5, <2>2, <2>3, <2>4 DEF H!SyncReturn, H!OtherReturn
<1>6. QED
  BY <1>4, <1>5 DEF MainInSend

LEMMA RefPassOn == Inv /\ PassOn => H!SyncReturn
<1> SUFFICES ASSUME Inv, PassOn PROVE H!SyncReturn
  OBVIOUS
<1>1. /\ main.human = Self /\ main.other = Self /\ main.arg \in Words \cup {Nothing}
      /\ main.call \in DOMAIN H!Passed /\ ~H!Unfinished(Self)
  BY InCall, Finished DEF PassOn, Inv, MainInv
<1>2. H!Passed[main.call] \in H!Signals
  BY <1>1, PassedSignals
<1>3. QueueView' = Append(QueueView, Letter(H!Passed[main.call], main.arg, TRUE))
      /\ SlotView' = SlotView
  BY <1>1, <1>2, PostView DEF PassOn
<1>4. H!Post(main.other, H!Passed[main.call], main.arg, TRUE)
  BY <1>1, <1>3 DEF H!Post, Letter, Of
<1>5. UNCHANGED <<Of(SlotView), Of(sentence), Of(question), Of(count), Of(life), H!timers>>
  BY <1>3 DEF PassOn, Of, H!timers
<1>6. H!PassOn
  BY <1>4, <1>5 DEF PassOn, H!PassOn
<1>7. QED
  BY <1>1, <1>6 DEF PassOn, H!SyncReturn

LEMMA RefReturns ==
  Inv /\ (GetReturn \/ JoinTimer \/ DestroyBase)
    => H!GetReturn \/ H!JoinTimer \/ H!DestroyBase
<1> SUFFICES ASSUME Inv, GetReturn \/ JoinTimer \/ DestroyBase
             PROVE  H!GetReturn \/ H!JoinTimer \/ H!DestroyBase
  OBVIOUS
<1>1. main.human = Self
  BY InCall DEF GetReturn, JoinTimer, DestroyBase
<1>2. CASE GetReturn
  <2>1. QueueView' = QueueView /\ SlotView' = SlotView
    BY <1>2, Still DEF GetReturn
  <2>2. H!GetReturn
    BY <1>2, <2>1 DEF GetReturn, Of, H!GetReturn, H!Return, H!object, H!timers
  <2>3. QED
    BY <2>2
<1>3. CASE JoinTimer
  <2>1. QueueView' = QueueView /\ SlotView' = SlotView
    BY <1>3, Still DEF JoinTimer
  <2>2. /\ Of(timerThread)' = [Of(timerThread) EXCEPT ![main.human] = FALSE]
        /\ Of(timer)[main.human] = "exited"
        /\ Of(timer)' = [Of(timer) EXCEPT ![main.human] = "none"]
        /\ UNCHANGED <<Of(destroyTimer), Of(posted), H!object>>
    BY <1>1, <1>3, <2>1 DEF JoinTimer, Of, H!object
  <2>3. H!JoinTimer
    BY <1>3, <2>2 DEF JoinTimer, H!JoinTimer
  <2>4. QED
    BY <2>3
<1>4. CASE DestroyBase
  <2>1. QueueView' = Append(QueueView, LastLetter) /\ SlotView' = SlotView
    BY <1>4, CloseView DEF DestroyBase
  <2>2. H!Post(main.human, "DestroyThread", Nothing, FALSE)
    BY <1>1, <2>1 DEF H!Post, LastLetter, Letter, Of
  <2>3. UNCHANGED <<Of(SlotView), Of(sentence), Of(question), Of(count), Of(life), H!timers>>
    BY <1>4, <2>1 DEF DestroyBase, Of, H!timers
  <2>4. H!DestroyBase
    BY <1>4, <2>2, <2>3 DEF DestroyBase, H!DestroyBase
  <2>5. QED
    BY <2>4
<1>5. QED
  BY <1>2, <1>3, <1>4

LEMMA RefJoin == Inv /\ Join => H!SlotBegin(Self)
<1> SUFFICES ASSUME Inv, Join PROVE H!SlotBegin(Self)
  OBVIOUS
<1>1. /\ QueueView = <<LastLetter>> /\ QueueView' = <<>>
      /\ SlotView = Nothing /\ SlotView' = Nothing
  BY JoinView DEF Join
<1>2. \A d : <<d>> # <<>> /\ Head(<<d>>) = d /\ Tail(<<d>>) = <<>>
  OBVIOUS
<1>3. QueueView # <<>> /\ Head(QueueView).signal = "DestroyThread"
      /\ QueueView' = Tail(QueueView)
  BY <1>1, <1>2, LastLetterType
<1>4. /\ Of(SlotView)[Self] = Nothing /\ Of(QueueView)[Self] # <<>>
      /\ Of(QueueView)' = [Of(QueueView) EXCEPT ![Self] = Tail(@)]
      /\ Head(Of(QueueView)[Self]).signal = "DestroyThread"
      /\ Of(life)' = [Of(life) EXCEPT ![Self] = "gone"]
  BY <1>1, <1>3 DEF Of, Join
<1>5. UNCHANGED <<Of(SlotView), Of(sentence), Of(question), Of(count), H!timers>>
  BY <1>1 DEF Join, Of, H!timers
<1>6. QED
  BY <1>4, <1>5 DEF Join, H!SlotBegin

LEMMA RefTimer == Inv /\ TimerStep => H!TimerStep(Self) \/ UNCHANGED H!vars
<1> SUFFICES ASSUME Inv, TimerStep PROVE H!TimerStep(Self) \/ UNCHANGED H!vars
  OBVIOUS
<1>1. ASSUME NEW from, NEW to, TimerGoto(from, to), SlotView' = SlotView
      PROVE  H!TimerGoto(Self, from, to)
  BY <1>1 DEF TimerGoto, Of, H!TimerGoto
<1>2. CASE UNCHANGED <<base, payload, count, posted>>
           /\ \/ TimerGoto("test", "exited") /\ destroyTimer
              \/ TimerGoto("test", "sleep") /\ ~destroyTimer /\ count < MaxTicks
              \/ TimerGoto("sleep", "count")
  <2>1. QueueView' = QueueView /\ SlotView' = SlotView
    BY <1>2, Still DEF TimerGoto
  <2>2. UNCHANGED <<Of(count), Of(QueueView), Of(posted)>>
    BY <1>2, <2>1 DEF Of
  <2>3. CASE TimerGoto("test", "exited") /\ destroyTimer
    BY <1>1, <2>1, <2>2, <2>3, OfSelf DEF H!TimerStep, H!TimerTest
  <2>4. CASE TimerGoto("test", "sleep") /\ ~destroyTimer /\ count < MaxTicks
    BY <1>1, <2>1, <2>2, <2>4, OfSelf DEF H!TimerStep, H!TimerTest
  <2>5. CASE TimerGoto("sleep", "count")
    BY <1>1, <2>1, <2>2, <2>5 DEF H!TimerStep, H!TimerWake
  <2>6. QED
    BY <1>2, <2>3, <2>4, <2>5
<1>3. CASE TimerGoto("count", "send") /\ count' = count + 1 /\ UNCHANGED <<base, payload, posted>>
  <2>1. QueueView' = QueueView /\ SlotView' = SlotView
    BY <1>3, Still DEF TimerGoto
  <2>2. H!TimerTick(Self)
    BY <1>1, <1>3, <2>1 DEF Of, H!TimerTick
  <2>3. QED
    BY <2>2 DEF H!TimerStep
<1>4. CASE /\ TimerGoto("send", "test")
           /\ Post(Timer, "WantToSleep", Nothing, FALSE)
           /\ posted' = posted + 1 /\ UNCHANGED count
  <2>1. "WantToSleep" \in H!Signals
    BY DEF H!Signals, H!SentenceSignals
  <2>2. QueueView' = Append(QueueView, Letter("WantToSleep", Nothing, FALSE))
        /\ SlotView' = SlotView
    BY <1>4, <2>1, PostView DEF TimerGoto
  <2>3. H!Post(Self, "WantToSleep", Nothing, FALSE)
    BY <2>2 DEF H!Post, Letter, Of
  <2>4. H!TimerSend(Self)
    BY <1>1, <1>4, <2>2, <2>3 DEF Of, H!TimerSend
  <2>5. QED
    BY <2>4 DEF H!TimerStep
<1>5. CASE fate = "running" /\ T!SendNotify(Timer) /\ UNCHANGED <<payload, human>>
  <2>1. Woken(Timer) /\ UNCHANGED <<signalMsgQueue, signalMsg>>
    BY <1>5, SendNotifyEffect
  <2>2. QueueView' = QueueView /\ SlotView' = SlotView
    BY <1>5, <2>1, CallerUnseen DEF human
  <2>3. QED
    BY <1>5, <2>2 DEF human, Of, H!vars, H!object, H!timers
<1>6. QED
  BY <1>2, <1>3, <1>4, <1>5 DEF TimerStep

LEMMA RefProcess == Inv /\ Process => H!SlotBegin(Self) \/ UNCHANGED H!vars
<1> SUFFICES ASSUME Inv, Process PROVE H!SlotBegin(Self) \/ UNCHANGED H!vars
  OBVIOUS
<1>1. /\ UNCHANGED <<Of(sentence), Of(question), Of(count), Of(life), H!timers, main, calls>>
      /\ UNCHANGED <<payload, life>> /\ fate = "running"
  BY DEF Process, Of, H!timers
<1>2. CASE (T!WorkerBlock \/ T!SetSyncProcessed) /\ UNCHANGED fate
  <2>1. /\ pc[Worker] \in {"check", "signal"} /\ pc'[Worker] \in {"waiting", "check"}
        /\ UNCHANGED <<signalMsgQueue, signalMsg>>
    BY <1>2, ProcessEffect
  <2>2. QueueView' = QueueView /\ SlotView' = SlotView
    BY <1>1, <1>2, <2>1, Unseen DEF Closed
  <2>3. QED
    BY <1>1, <1>2, <2>2 DEF Of, H!vars, H!object
<1>3. CASE T!WorkerTake
           /\ fate' = IF life = "base" /\ pc'[Worker] = "running" THEN "undefined" ELSE fate
  <2>1. /\ SlotView = Nothing
        /\ \/ pc'[Worker] # "running" /\ QueueView' = QueueView /\ SlotView' = Nothing
           \/ /\ pc'[Worker] = "running" /\ QueueView # <<>> /\ QueueView' = Tail(QueueView)
              /\ Head(QueueView).signal # "DestroyThread"
              /\ SlotView' = IF fate' # "undefined" THEN Head(QueueView) ELSE Nothing
    BY <1>1, <1>3, TakeView
  <2>2. CASE pc'[Worker] # "running" /\ QueueView' = QueueView /\ SlotView' = Nothing
    BY <1>1, <1>3, <2>1, <2>2 DEF Of, H!vars, H!object
  <2>3. CASE /\ pc'[Worker] = "running" /\ QueueView # <<>> /\ QueueView' = Tail(QueueView)
             /\ Head(QueueView).signal # "DestroyThread"
             /\ SlotView' = IF fate' # "undefined" THEN Head(QueueView) ELSE Nothing
    <3>1. /\ Of(SlotView)[Self] = Nothing /\ Of(QueueView)[Self] # <<>>
          /\ Of(QueueView)' = [Of(QueueView) EXCEPT ![Self] = Tail(@)]
          /\ Head(Of(QueueView)[Self]).signal # "DestroyThread"
      BY <2>1, <2>3 DEF Of
    <3>2. CASE life = "alive"
      <4>1. fate' = fate /\ SlotView' = Head(QueueView)
        BY <1>1, <1>3, <2>3, <3>2
      <4>2. /\ Of(life)[Self] = "alive" /\ UNCHANGED Of(life)
            /\ Of(SlotView)' = [Of(SlotView) EXCEPT ![Self] = Head(Of(QueueView)[Self])]
        BY <1>1, <3>2, <4>1 DEF Of
      <4>3. H!SlotBegin(Self)
        BY <1>1, <3>1, <4>1, <4>2 DEF H!SlotBegin
      <4>4. QED
        BY <4>3
    <3>3. CASE life = "base"
      <4>1. fate' = "undefined" /\ SlotView' = SlotView
        BY <1>3, <2>1, <2>3, <3>3
      <4>2. Of(life)[Self] = "base" /\ UNCHANGED <<Of(life), Of(SlotView)>>
        BY <1>1, <3>3, <4>1 DEF Of
      <4>3. H!SlotBegin(Self)
        BY <1>1, <3>1, <4>1, <4>2 DEF H!SlotBegin
      <4>4. QED
        BY <4>3
    <3>4. life # "gone"
      <4>1. pc[Worker] = "check"
        BY <1>3, TakeEffect
      <4>2. QED
        BY <4>1 DEF Inv, LifeInv, P!SyncInv, P!ControlInv
    <3>5. QED
      BY <3>2, <3>3, <3>4 DEF Inv, LifeInv
  <2>4. QED
    BY <2>1, <2>2, <2>3
<1>4. QED
  BY <1>2, <1>3 DEF Process

LEMMA RefSlotEnd == Inv /\ UserCustomFunction => H!SlotEnd(Self)
<1> SUFFICES ASSUME Inv, UserCustomFunction PROVE H!SlotEnd(Self)
  OBVIOUS
<1>1. /\ QueueView' = QueueView /\ SlotView' = Nothing
      /\ SlotView = ViewIn(signalMsg, payload) /\ SlotView # Nothing
  BY EndView DEF UserCustomFunction
<1>2. View(signalMsg) = SlotView
  <2>1. pc[Worker] = "running"
    BY ProcessEffect DEF UserCustomFunction
  <2>2. QED
    BY <2>1 DEF SlotView, UserCustomFunction
<1>3. /\ UNCHANGED <<Of(QueueView), Of(count), Of(life), H!timers, main, calls>>
      /\ fate = "running" /\ Of(SlotView)[Self] # Nothing
      /\ Of(SlotView)' = [Of(SlotView) EXCEPT ![Self] = Nothing]
  BY <1>1 DEF UserCustomFunction, Of, H!timers
<1>4. CASE life = "base" /\ fate' = "undefined" /\ UNCHANGED <<sentence, question>>
  <2>1. Of(life)[Self] = "base" /\ UNCHANGED <<Of(sentence), Of(question)>>
    BY <1>4 DEF Of
  <2>2. QED
    BY <1>3, <1>4, <2>1 DEF H!SlotEnd
<1>5. CASE life = "alive"
  <2> DEFINE m == SlotView
  <2>1. /\ UNCHANGED fate
        /\ \/ /\ m.signal \in H!SentenceSignals
              /\ \E s \in {<<m.signal, m.arg>>} \cup
                          (IF main.at = "writing" THEN {H!Torn} ELSE {}) : sentence' = s
           \/ m.signal \notin H!SentenceSignals /\ UNCHANGED sentence
        /\ question' = [content |-> IF m.signal \in H!ContentSignals THEN m.arg
                                    ELSE question.content,
                        answer |-> IF m.signal \in H!AnswerSignals THEN m.arg
                                   ELSE question.answer]
    BY <1>2, <1>5 DEF UserCustomFunction
  <2>2. main.at = "writing" => main.human = Self
    BY InCall
  <2> HIDE DEF m
  <2>3. \/ /\ m.signal \in H!SentenceSignals
           /\ \E s \in {<<m.signal, m.arg>>} \cup
                       (IF main.at = "writing" /\ main.human = Self THEN {H!Torn} ELSE {}) :
                Of(sentence)' = [Of(sentence) EXCEPT ![Self] = s]
        \/ m.signal \notin H!SentenceSignals /\ UNCHANGED Of(sentence)
    BY <2>1, <2>2 DEF Of
  <2>4. Of(question)' = [Of(question) EXCEPT ![Self] =
          [content |-> IF m.signal \in H!ContentSignals THEN m.arg ELSE @.content,
           answer  |-> IF m.signal \in H!AnswerSignals THEN m.arg ELSE @.answer]]
    BY <2>1 DEF Of
  <2>5. H!SlotEffect(Self, m)
    BY <2>3, <2>4 DEF H!SlotEffect, H!Assign
  <2>6. m = Of(SlotView)[Self] /\ Of(life)[Self] = "alive"
    BY <1>5, OfSelf DEF m
  <2>7. QED
    BY <1>3, <2>1, <2>5, <2>6 DEF H!SlotEnd
<1>6. QED
  BY <1>4, <1>5 DEF UserCustomFunction

LEMMA RefNext == Inv /\ [Next]_vars => [H!Next]_(H!vars)
<1> SUFFICES ASSUME Inv, [Next]_vars PROVE H!Next \/ UNCHANGED H!vars
  OBVIOUS
<1>1. CASE Construct
  <2>1. /\ pc[Owner] = "constructing" /\ pc'[Owner] = "alive" /\ pc[Worker] = "absent"
        /\ pc'[Worker] = "check"
        /\ UNCHANGED <<signalMsgQueue, signalMsg, payload, human>>
    BY <1>1, OwnerEffect DEF Construct, Inv, P!SyncInv, P!ControlInv
  <2>2. QueueView' = QueueView /\ SlotView' = SlotView
    BY <2>1, Unseen DEF Closed, human
  <2>3. QED
    BY <2>1, <2>2 DEF human, Of, H!vars, H!object, H!timers
<1>2. CASE Call
  BY <1>2, RefCall DEF H!Next
<1>3. CASE MainStep
  BY <1>3, RefWrite, RefInSend, RefPassOn, RefReturns, RefJoin
  DEF MainStep, H!Next, H!MainStep, H!WorkerStep
<1>4. CASE TimerStep
  BY <1>4, RefTimer DEF H!Next
<1>5. CASE WorkerStep
  BY <1>5, RefProcess, RefSlotEnd DEF WorkerStep, H!Next, H!WorkerStep
<1>6. CASE Stopped \/ UNCHANGED vars
  <2>1. UNCHANGED <<base, payload, human>>
    BY <1>6 DEF Stopped, vars
  <2>2. QueueView' = QueueView /\ SlotView' = SlotView
    BY <2>1, Still DEF human
  <2>3. QED
    BY <2>1, <2>2 DEF human, Of, H!vars, H!object, H!timers
<1>7. QED
  BY <1>1, <1>2, <1>3, <1>4, <1>5, <1>6 DEF Next

(* A Human that runs on the ThreadBase it derives from does, step for      *)
(* step, what module Human says of it: the sends of the main thread        *)
(* return when their slots have run, the messages of the main thread, the  *)
(* timer and the destructors are taken in the order they were sent, and    *)
(* neither the flag left set by an earlier call nor a notification that    *)
(* wakes the wrong thread shows (Human.cpp, ThreadBase.cpp:11-79).         *)
THEOREM RunsAsHuman == Spec => H!Spec
<1>1. [](Inv) /\ [][Next]_vars => [][H!Next]_(H!vars)
  BY RefNext, PTL
<1>2. QED
  BY <1>1, RefInit, Invariant, PTL DEF Spec, H!Spec

(* What HumanProofs proves of Human.                                       *)
HP == INSTANCE HumanProofs WITH
        Humans <- {Self}, Timed <- {Self}, queue <- Of(QueueView), slot <- Of(SlotView),
        sentence <- Of(sentence), question <- Of(question), count <- Of(count),
        timerThread <- Of(timerThread), destroyTimer <- Of(destroyTimer), timer <- Of(timer),
        life <- Of(life), posted <- Of(posted)

LEMMA SameHuman == (H!Init <=> HP!Init) /\ (H!Next <=> HP!Next) /\ H!vars = HP!vars
<1>1. H!Init <=> HP!Init
  BY DEF H!Init, HP!Init, H!Frame, HP!Frame
<1>2. H!vars = HP!vars
  BY DEF H!vars, HP!vars, H!object, HP!object, H!timers, HP!timers
<1> USE DEF H!object, HP!object, H!timers, HP!timers, H!Frame, HP!Frame, H!Begin, HP!Begin,
            H!Post, HP!Post, H!SentenceSignals, HP!SentenceSignals,
            H!ContentSignals, HP!ContentSignals, H!AnswerSignals, HP!AnswerSignals
<1>3. H!Call(Self) <=> HP!Call(Self)
  BY DEF H!Call, HP!Call, H!Send, HP!Send, H!SendSayHelloSignal, HP!SendSayHelloSignal,
         H!SendSayGoodByeSignal, HP!SendSayGoodByeSignal, H!SendWillDoSignal,
         HP!SendWillDoSignal, H!SendPlanToDoSignal, HP!SendPlanToDoSignal,
         H!SendGetAQuestionSignal, HP!SendGetAQuestionSignal, H!SendGetAAnswerSignal,
         HP!SendGetAAnswerSignal, H!SendAskAQuestionSignal, HP!SendAskAQuestionSignal,
         H!SendAnswerAQuestionSignal, HP!SendAnswerAQuestionSignal, H!Get, HP!Get, H!Getters,
         HP!Getters, H!CreateTimer, HP!CreateTimer, H!StartThread, HP!StartThread,
         H!DestroyTimer, HP!DestroyTimer, H!DestroyHuman, HP!DestroyHuman
<1>4. H!TimerStep(Self) <=> HP!TimerStep(Self)
  BY DEF H!TimerStep, HP!TimerStep, H!TimerTest, HP!TimerTest, H!TimerWake, HP!TimerWake,
         H!TimerTick, HP!TimerTick, H!TimerSend, HP!TimerSend, H!TimerGoto, HP!TimerGoto
<1>5. H!WorkerStep(Self) <=> HP!WorkerStep(Self)
  BY DEF H!WorkerStep, HP!WorkerStep, H!SlotBegin, HP!SlotBegin, H!SlotEnd, HP!SlotEnd,
         H!SlotEffect, HP!SlotEffect, H!Assign, HP!Assign, H!Torn, HP!Torn
<1>6. H!MainStep <=> HP!MainStep
  BY DEF H!MainStep, HP!MainStep, H!WriteSentence, HP!WriteSentence, H!SyncReturn,
         HP!SyncReturn, H!OtherReturn, HP!OtherReturn, H!GetReturn, HP!GetReturn, H!JoinTimer,
         HP!JoinTimer, H!DestroyBase, HP!DestroyBase, H!Writing, HP!Writing, H!Torn, HP!Torn,
         H!Unfinished, HP!Unfinished, H!Passed, HP!Passed, H!PassOn, HP!PassOn, H!Return,
         HP!Return
<1>7. H!Stopped <=> HP!Stopped
  BY <1>2 DEF H!Stopped, HP!Stopped, H!vars, HP!vars
<1>8. H!Next <=> HP!Next
  BY <1>3, <1>4, <1>5, <1>6, <1>7 DEF H!Next, HP!Next
<1>9. QED
  BY <1>1, <1>2, <1>8

LEMMA HumanAssumptions == HP!HumanAssumption
<1>1. H!Message = HP!Message
  BY DEF H!Message, HP!Message, H!Signals, HP!Signals, H!SentenceSignals, HP!SentenceSignals,
         H!ContentSignals, HP!ContentSignals, H!AnswerSignals, HP!AnswerSignals
<1>2. QED
  BY <1>1, HumanThreadAssumption, NothingAssumption DEF HP!HumanAssumption

(* What is proved of Human holds of a Human on its ThreadBase: a call that *)
(* has returned has left its question or answer to be read, every tick of  *)
(* its timer has its message, and nothing ticks or is sent in the timer's  *)
(* name between DestroyTimer's return and the next CreateTimer             *)
(* (Human.cpp:48-169, 277-290, main.cpp:41-71).                            *)
THEOREM KeepsPromisesOfHuman ==
  Spec => []HP!CallsVisible /\ []HP!CountMatchesMessages /\ HP!QuietWithoutTimer
<1>1. Spec => HP!Spec
  <2>1. H!Spec => HP!Spec
    <3>1. [H!Next]_(H!vars) => [HP!Next]_(HP!vars)
      BY SameHuman DEF H!vars, HP!vars, H!object, HP!object, H!timers, HP!timers
    <3>2. QED
      BY <3>1, SameHuman, PTL DEF H!Spec, HP!Spec
  <2>2. QED
    BY <2>1, RunsAsHuman
<1>2. HP!Spec => []HP!CallsVisible /\ []HP!CountMatchesMessages /\ HP!QuietWithoutTimer
  BY HumanAssumptions, HP!CallsLeaveTheirMark, HP!TicksCounted, HP!TimerQuiet
<1>3. QED
  BY <1>1, <1>2

=============================================================================
