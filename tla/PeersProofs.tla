----------------------------- MODULE PeersProofs -----------------------------
(***************************************************************************)
(* Theorems about Peers, whatever the signals and the number of messages.  *)
(* What ThreadBaseProofs proves of a ThreadBase holds of each object, once *)
(* each is shown to behave as one: its callers are the main thread and the *)
(* worker of the other object.                                             *)
(***************************************************************************)
EXTENDS Peers, TLAPS

PA == INSTANCE ThreadBaseProofs WITH
        Callers <- {Main, WorkerB},
        SyncCallers <- IF MainSyncs THEN {Main} ELSE {},
        Worker <- WorkerA, MaxSends <- MaxSendsA, CreateCanFail <- FALSE, SpuriousWakeups <- FALSE,
        thread <- aThread, signalMsgQueue <- aQueue, syncProcessed <- aSyncProcessed,
        signalMsg <- aMsg, pc <- aPc, lastMsg <- aLastMsg, sent <- aSent, handled <- aHandled

PB == INSTANCE ThreadBaseProofs WITH
        Callers <- {WorkerA},
        SyncCallers <- IF ASyncs THEN {WorkerA} ELSE {},
        Worker <- WorkerB, MaxSends <- MaxSendsB, CreateCanFail <- FALSE, SpuriousWakeups <- FALSE,
        thread <- bThread, signalMsgQueue <- bQueue, syncProcessed <- bSyncProcessed,
        signalMsg <- bMsg, pc <- bPc, lastMsg <- bLastMsg, sent <- bSent, handled <- bHandled

(* The assumptions about a ThreadBase hold of both.                        *)
LEMMA Assumptions == PA!ThreadBaseAssumption /\ PB!ThreadBaseAssumption
<1>1. PA!ThreadBaseAssumption
  BY PeersAssumption, NullAssumption
  DEF PA!Message, PA!DestroyMsg, PA!DestroyThread_Signal, A!Message, A!DestroyMsg,
      A!DestroyThread_Signal
<1>2. PB!ThreadBaseAssumption
  BY PeersAssumption, NullAssumption
  DEF PB!Message, PB!DestroyMsg, PB!DestroyThread_Signal, B!Message, B!DestroyMsg,
      B!DestroyThread_Signal
<1>3. QED
  BY <1>1, <1>2

(* Each has one synchronous caller at most.                                *)
LEMMA SingleSyncCallers == PA!SingleSyncCaller /\ PB!SingleSyncCaller
BY DEF PA!SingleSyncCaller, PB!SingleSyncCaller

LEMMA Inits == Init => PA!Init /\ PB!Init
BY DEF Init, A!Init, B!Init, PA!Init, PB!Init, A!Threads, B!Threads, PA!Threads, PB!Threads

(* Every step is a step of each object or leaves it as it is.              *)
LEMMA StepOfA == [Next]_vars => [PA!Next]_(PA!vars)
<1> SUFFICES ASSUME [Next]_vars PROVE [PA!Next]_(PA!vars)
  OBVIOUS
<1> USE DEF PA!Next, PA!vars, a, A!NotifyOne, PA!NotifyOne, A!Waiting, PA!Waiting, A!Threads,
            PA!Threads, A!Goto, PA!Goto, A!DestroyMsg, PA!DestroyMsg, A!DestroyThread_Signal,
            PA!DestroyThread_Signal
<1>1. CASE UNCHANGED a
  BY <1>1
<1>2. CASE A!CreateThread
  BY <1>2 DEF A!CreateThread, PA!CreateThread
<1>3. CASE A!Destroy
  BY <1>3 DEF A!Destroy, PA!Destroy
<1>4. CASE A!Join
  BY <1>4 DEF A!Join, PA!Join
<1>5. ASSUME NEW c \in {Main, WorkerB}, A!SendSlotFuncAsyncRunMsg(c)
      PROVE  PA!Next
  <2>1. PA!SendSlotFuncAsyncRunMsg(c)
    BY <1>5 DEF A!SendSlotFuncAsyncRunMsg, A!CanCall, A!SendMsg, A!NewMsg,
                PA!SendSlotFuncAsyncRunMsg, PA!CanCall, PA!SendMsg, PA!NewMsg
  <2>2. QED
    BY <2>1
<1>6. ASSUME MainSyncs, A!SendSlotFuncSyncRunMsg(Main)
      PROVE  PA!Next
  <2>1. PA!SendSlotFuncSyncRunMsg(Main)
    BY <1>6 DEF A!SendSlotFuncSyncRunMsg, A!CanCall, A!SendMsg, A!NewMsg,
                PA!SendSlotFuncSyncRunMsg, PA!CanCall, PA!SendMsg, PA!NewMsg
  <2>2. QED
    BY <1>6, <2>1
<1>7. ASSUME NEW c \in {Main, WorkerB}, A!CallerStep(c)
      PROVE  PA!Next
  <2>1. PA!CallerStep(c)
    BY <1>7 DEF A!CallerStep, A!SendNotify, A!SyncReturn, A!SyncBlock,
                PA!CallerStep, PA!SendNotify, PA!SyncReturn, PA!SyncBlock
  <2>2. QED
    BY <2>1
<1>8. CASE A!WorkerBlock \/ A!WorkerTake \/ A!SetSyncProcessed \/ A!UserCustomFunction
  <2>1. PA!WorkerStep
    BY <1>8 DEF A!WorkerBlock, A!WorkerTake, A!SetSyncProcessed, A!UserCustomFunction,
                PA!WorkerStep, PA!WorkerBlock, PA!WorkerTake, PA!SetSyncProcessed,
                PA!UserCustomFunction
  <2>2. QED
    BY <2>1
<1> HIDE DEF PA!Next, PA!vars, a
<1>9. QED
  BY <1>1, <1>2, <1>3, <1>4, <1>5, <1>6, <1>7, <1>8
  DEF Next, OwnerA, OwnerB, JoinA, JoinB, MainSends, MainStep, ASlotSends, BSlotSends, AStep, BStep,
      AProcess, ASlotCall, ASlotEnds, BProcess, BSlotCall, BSlotEnds, Terminated, vars

LEMMA StepOfB == [Next]_vars => [PB!Next]_(PB!vars)
<1> SUFFICES ASSUME [Next]_vars PROVE [PB!Next]_(PB!vars)
  OBVIOUS
<1> USE DEF PB!Next, PB!vars, b, B!NotifyOne, PB!NotifyOne, B!Waiting, PB!Waiting, B!Threads,
            PB!Threads, B!Goto, PB!Goto, B!DestroyMsg, PB!DestroyMsg, B!DestroyThread_Signal,
            PB!DestroyThread_Signal
<1>1. CASE UNCHANGED b
  BY <1>1
<1>2. CASE B!CreateThread
  BY <1>2 DEF B!CreateThread, PB!CreateThread
<1>3. CASE B!Destroy
  BY <1>3 DEF B!Destroy, PB!Destroy
<1>4. CASE B!Join
  BY <1>4 DEF B!Join, PB!Join
<1>5. CASE B!SendSlotFuncAsyncRunMsg(WorkerA)
  <2>1. PB!SendSlotFuncAsyncRunMsg(WorkerA)
    BY <1>5 DEF B!SendSlotFuncAsyncRunMsg, B!CanCall, B!SendMsg, B!NewMsg,
                PB!SendSlotFuncAsyncRunMsg, PB!CanCall, PB!SendMsg, PB!NewMsg
  <2>2. QED
    BY <2>1
<1>6. ASSUME ASyncs, B!SendSlotFuncSyncRunMsg(WorkerA)
      PROVE  PB!Next
  <2>1. PB!SendSlotFuncSyncRunMsg(WorkerA)
    BY <1>6 DEF B!SendSlotFuncSyncRunMsg, B!CanCall, B!SendMsg, B!NewMsg,
                PB!SendSlotFuncSyncRunMsg, PB!CanCall, PB!SendMsg, PB!NewMsg
  <2>2. QED
    BY <1>6, <2>1
<1>7. CASE B!CallerStep(WorkerA)
  <2>1. PB!CallerStep(WorkerA)
    BY <1>7 DEF B!CallerStep, B!SendNotify, B!SyncReturn, B!SyncBlock,
                PB!CallerStep, PB!SendNotify, PB!SyncReturn, PB!SyncBlock
  <2>2. QED
    BY <2>1
<1>8. CASE B!WorkerBlock \/ B!WorkerTake \/ B!SetSyncProcessed \/ B!UserCustomFunction
  <2>1. PB!WorkerStep
    BY <1>8 DEF B!WorkerBlock, B!WorkerTake, B!SetSyncProcessed, B!UserCustomFunction,
                PB!WorkerStep, PB!WorkerBlock, PB!WorkerTake, PB!SetSyncProcessed,
                PB!UserCustomFunction
  <2>2. QED
    BY <2>1
<1> HIDE DEF PB!Next, PB!vars, b
<1>9. QED
  BY <1>1, <1>2, <1>3, <1>4, <1>5, <1>6, <1>7, <1>8
  DEF Next, OwnerA, OwnerB, JoinA, JoinB, MainSends, MainStep, ASlotSends, BSlotSends, AStep, BStep,
      AProcess, ASlotCall, ASlotEnds, BProcess, BSlotCall, BSlotEnds, Terminated, vars

(* Two objects that send to each other are two ThreadBase objects: the     *)
(* worker that calls the other object from a slot is a caller like any     *)
(* other.  So everything ThreadBaseProofs proves holds of both.            *)
THEOREM BothAreThreadBases == Spec => PA!Spec /\ PB!Spec
BY Inits, StepOfA, StepOfB, PTL DEF Spec, PA!Spec, PB!Spec

(* Whatever the slots send to each other, the queue of each keeps its      *)
(* order, and the synchronous sends, nested or not, return after their     *)
(* slot (ThreadBase.cpp).                                                  *)
THEOREM BothKeepTheirPromises ==
  Spec => /\ []PA!FIFO /\ []PA!SyncReturnsAfterSlot /\ []PA!NothingLeftBehind
          /\ []PB!FIFO /\ []PB!SyncReturnsAfterSlot /\ []PB!NothingLeftBehind
BY BothAreThreadBases, Assumptions, SingleSyncCallers, PA!QueueCorrect, PB!QueueCorrect,
   PA!QueueDrained, PB!QueueDrained, PA!SyncSendCorrect, PB!SyncSendCorrect, PTL

-----------------------------------------------------------------------------
(* Nested sends.                                                           *)

(* If the slots of A send synchronously, the last message in B's queue is  *)
(* the last one A sent ...                                                 *)
LatestInv ==
  /\ bLastMsg[WorkerA] = NullMsg => bSent = 0
  /\ bLastMsg[WorkerA] # NullMsg => bLastMsg[WorkerA].wait /\ bLastMsg[WorkerA].id = bSent

(* ... and A is in a send to B only while one of its slots runs.           *)
WithinSlot == aPc[WorkerA] # "running" => bPc[WorkerA] = "idle"

NestedInv ==
  /\ PA!TypeInv /\ PA!ControlInv
  /\ PB!SyncInv /\ PB!FIFO
  /\ ASyncs => LatestInv /\ WithinSlot

LEMMA NestedInit == Init => NestedInv
<1> SUFFICES ASSUME Init PROVE NestedInv
  OBVIOUS
<1>1. PA!TypeInv /\ PA!ControlInv /\ PB!SyncInv /\ PB!FIFO
  BY Inits, Assumptions, PA!TypeInvInit, PA!FIFOInit, PB!SyncInvInit, PB!FIFOInit
<1>2. bLastMsg[WorkerA] = NullMsg /\ bSent = 0 /\ bPc[WorkerA] = "idle"
  BY PeersAssumption DEF Init, B!Init, B!Threads
<1>3. QED
  BY <1>1, <1>2 DEF NestedInv, LatestInv, WithinSlot

LEMMA ObjectsStep ==
  NestedInv /\ [Next]_vars => PA!TypeInv' /\ PA!ControlInv' /\ PB!SyncInv' /\ PB!FIFO'
<1> SUFFICES ASSUME NestedInv, [Next]_vars
             PROVE  PA!TypeInv' /\ PA!ControlInv' /\ PB!SyncInv' /\ PB!FIFO'
  OBVIOUS
<1>1. [PA!Next]_(PA!vars) /\ [PB!Next]_(PB!vars)
  BY StepOfA, StepOfB
<1>2. PA!TypeInv /\ PA!ControlInv /\ PB!SyncInv /\ PB!FIFO
  BY DEF NestedInv
<1>3. PB!TypeInv /\ PB!ControlInv
  BY <1>2 DEF PB!SyncInv
<1>4. PA!TypeInv' /\ PB!TypeInv'
  BY <1>1, <1>2, <1>3, Assumptions, PA!TypeInvStep, PB!TypeInvStep
<1>5. PA!ControlInv' /\ PB!ControlInv'
  BY <1>1, <1>2, <1>3, <1>4, Assumptions, PA!ControlInvStep, PB!ControlInvStep
<1>6. PB!FIFO'
  BY <1>1, <1>2, <1>3, <1>4, Assumptions, PB!FIFOStep
<1>7. PB!SyncInv'
  BY <1>1, <1>2, <1>4, <1>5, Assumptions, SingleSyncCallers, PB!SyncInvStep
<1>8. QED
  BY <1>4, <1>5, <1>6, <1>7

(* Only the end of the slot takes the worker of A out of it.               *)
LEMMA SlotGoesOn ==
  ASSUME NestedInv, [Next]_vars, UNCHANGED b, ~ASlotEnds, aPc[WorkerA] = "running"
  PROVE  aPc'[WorkerA] = "running"
<1>1. aPc \in [PA!Threads -> PA!States] /\ WorkerA \in PA!Threads
  BY DEF NestedInv, PA!TypeInv, PA!TypeOK, PA!States, PA!Threads
<1>2. CASE UNCHANGED a
  BY <1>2 DEF a
<1>3. ASSUME NEW t, t # WorkerA, NEW to, A!NotifyOne(t, to)
      PROVE  aPc'[WorkerA] = "running"
  <2>1. \A u \in A!Waiting : u # WorkerA
    BY DEF A!Waiting
  <2>2. QED
    BY <1>1, <1>3, <2>1 DEF A!NotifyOne
<1>4. CASE OwnerA \/ JoinA
  <2>1. aPc[Owner] # "constructing"
    BY DEF NestedInv, PA!ControlInv
  <2>2. QED
    BY <1>1, <1>3, <1>4, <2>1, PeersAssumption
    DEF OwnerA, JoinA, A!CreateThread, A!Destroy, A!Join, A!Goto
<1>5. ASSUME NEW c \in {Main, WorkerB}, A!CallerStep(c)
      PROVE  aPc'[WorkerA] = "running"
  BY <1>1, <1>3, <1>5, PeersAssumption
  DEF A!CallerStep, A!SendNotify, A!SyncReturn, A!SyncBlock, A!Goto
<1>6. ASSUME NEW c \in {Main, WorkerB},
             A!SendSlotFuncAsyncRunMsg(c) \/ A!SendSlotFuncSyncRunMsg(c)
      PROVE  aPc'[WorkerA] = "running"
  BY <1>1, <1>6, PeersAssumption
  DEF A!SendSlotFuncAsyncRunMsg, A!SendSlotFuncSyncRunMsg, A!SendMsg
<1>7. CASE AProcess
  BY <1>7 DEF AProcess, A!WorkerBlock, A!WorkerTake, A!SetSyncProcessed, A!Goto
<1>8. CASE MainSends \/ BSlotSends
  BY <1>6, <1>8 DEF MainSends, BSlotSends
<1>9. CASE MainStep \/ BSlotCall
  BY <1>5, <1>9 DEF MainStep, BSlotCall
<1>10. CASE OwnerB \/ JoinB \/ ASlotSends \/ BProcess \/ ASlotCall \/ BSlotEnds
  BY <1>2, <1>10 DEF OwnerB, JoinB, ASlotSends, BProcess, ASlotCall, BSlotEnds
<1>11. CASE Terminated \/ UNCHANGED vars
  BY <1>2, <1>11 DEF Terminated, vars
<1>12. QED
  BY <1>4, <1>7, <1>8, <1>9, <1>10, <1>11 DEF Next, AStep, BStep

(* The worker of A is in a send to B from the call of a slot to its return.*)
LEMMA CallGoesOn ==
  ASSUME NestedInv, [Next]_vars, UNCHANGED a, ~ASlotSends
  PROVE  /\ bPc[WorkerA] = "idle" => bPc'[WorkerA] = "idle"
         /\ bLastMsg' = bLastMsg /\ bSent' = bSent
<1>1. bPc \in [PB!Threads -> PB!States] /\ WorkerA \in PB!Threads
  BY DEF NestedInv, PB!SyncInv, PB!TypeInv, PB!TypeOK, PB!States, PB!Threads
<1>2. CASE UNCHANGED b
  BY <1>2 DEF b
<1>3. ASSUME NEW t, t # WorkerA, NEW to, B!NotifyOne(t, to), bPc[WorkerA] = "idle"
      PROVE  bPc'[WorkerA] = "idle"
  <2>1. \A u \in B!Waiting : u # WorkerA
    BY <1>3 DEF B!Waiting
  <2>2. QED
    BY <1>1, <1>3, <2>1 DEF B!NotifyOne
<1>4. CASE OwnerB \/ JoinB
  BY <1>1, <1>3, <1>4, PeersAssumption
  DEF OwnerB, JoinB, B!CreateThread, B!Destroy, B!Join, B!Goto
<1>5. CASE ASlotCall
  BY <1>5 DEF ASlotCall, B!CallerStep, B!SendNotify, B!SyncReturn, B!SyncBlock, B!Goto
<1>6. CASE BProcess \/ BSlotEnds
  BY <1>1, <1>3, <1>6, PeersAssumption
  DEF BProcess, BSlotEnds, B!WorkerBlock, B!WorkerTake, B!SetSyncProcessed, B!UserCustomFunction,
      B!Goto
<1>7. CASE OwnerA \/ JoinA \/ MainSends \/ MainStep \/ BSlotSends \/ AProcess \/ ASlotEnds
             \/ BSlotCall
  BY <1>2, <1>7 DEF OwnerA, JoinA, MainSends, MainStep, BSlotSends, AProcess, ASlotEnds, BSlotCall
<1>8. CASE Terminated \/ UNCHANGED vars
  BY <1>2, <1>8 DEF Terminated, vars
<1>9. QED
  BY <1>4, <1>5, <1>6, <1>7, <1>8 DEF Next, AStep, BStep

LEMMA NestedStep == NestedInv /\ [Next]_vars => NestedInv'
<1> SUFFICES ASSUME NestedInv, [Next]_vars PROVE NestedInv'
  OBVIOUS
<1>1. PA!TypeInv' /\ PA!ControlInv' /\ PB!SyncInv' /\ PB!FIFO'
  BY ObjectsStep
<1>2. ASSUME ASyncs PROVE LatestInv' /\ WithinSlot'
  <2>0. LatestInv /\ WithinSlot
    BY <1>2 DEF NestedInv
  <2>1. CASE ASlotSends
    <3>1. PICK sig \in Signals : B!CanCall(WorkerA) /\ B!SendMsg(WorkerA, sig, TRUE)
      BY <1>2, <2>1 DEF ASlotSends, B!SendSlotFuncSyncRunMsg
    <3>2. bThread /\ bLastMsg \in [{WorkerA} -> PB!Message \cup {NullMsg}]
      BY <3>1 DEF B!CanCall, NestedInv, PB!SyncInv, PB!TypeInv, PB!TypeOK
    <3>3. /\ bSent' = bSent + 1
          /\ bLastMsg' = [bLastMsg EXCEPT ![WorkerA] = B!NewMsg(WorkerA, sig, TRUE)]
      BY <3>1, <3>2 DEF B!SendMsg
    <3>4. bLastMsg'[WorkerA].wait /\ bLastMsg'[WorkerA].id = bSent'
      BY <3>2, <3>3 DEF B!NewMsg
    <3>5. bLastMsg'[WorkerA] # NullMsg
      <4>1. PB!CanCall(WorkerA) /\ PB!SendMsg(WorkerA, sig, TRUE)
        BY <3>1 DEF B!CanCall, B!SendMsg, B!NewMsg, PB!CanCall, PB!SendMsg, PB!NewMsg
      <4>2. bLastMsg'[WorkerA] \in PB!Message
        BY <3>2, <4>1, Assumptions, PB!SendMsgEffect DEF NestedInv, PB!SyncInv
      <4>3. QED
        BY <4>2, Assumptions DEF PB!ThreadBaseAssumption
    <3>6. aPc'[WorkerA] = "running"
      BY <2>1 DEF ASlotSends, a
    <3>7. QED
      BY <3>4, <3>5, <3>6 DEF LatestInv, WithinSlot
  <2>2. CASE UNCHANGED b
    <3>1. LatestInv' /\ bPc' = bPc
      BY <2>0, <2>2 DEF LatestInv, b
    <3>2. ASlotEnds => bPc[WorkerA] = "idle"
      BY DEF ASlotEnds
    <3>3. QED
      BY <2>0, <2>2, <3>1, <3>2, SlotGoesOn DEF WithinSlot
  <2>3. CASE UNCHANGED a /\ ~ASlotSends
    <3>1. /\ bPc[WorkerA] = "idle" => bPc'[WorkerA] = "idle"
          /\ bLastMsg' = bLastMsg /\ bSent' = bSent /\ aPc' = aPc
      BY <2>3, CallGoesOn DEF a
    <3>2. QED
      BY <2>0, <3>1 DEF LatestInv, WithinSlot
  <2>4. UNCHANGED a \/ UNCHANGED b
    BY DEF Next, OwnerA, OwnerB, JoinA, JoinB, MainSends, MainStep, ASlotSends, BSlotSends, AStep,
           BStep, AProcess, ASlotCall, ASlotEnds, BProcess, BSlotCall, BSlotEnds, Terminated, vars
  <2>5. QED
    BY <2>1, <2>2, <2>3, <2>4
<1>3. QED
  BY <1>1, <1>2 DEF NestedInv

(* Between two slots of A everything A has sent to B is handled.           *)
LEMMA NestedDone == NestedInv => NestedSendsDone
<1> SUFFICES ASSUME NestedInv, ASyncs, aPc[WorkerA] # "running"
             PROVE  Len(bHandled) = bSent
  BY DEF NestedSendsDone
<1>1. bPc[WorkerA] = "idle" /\ LatestInv
  BY DEF NestedInv, WithinSlot
<1>2. /\ bHandled \in Seq(1..MaxSendsB) /\ bSent \in 0..MaxSendsB
      /\ bQueue \in Seq(PB!Message \cup {PB!DestroyMsg})
  BY DEF NestedInv, PB!SyncInv, PB!TypeInv, PB!TypeOK
<1>3. Len(bHandled) \in Nat /\ bSent \in Nat /\ Len(bQueue) \in Nat
      /\ DOMAIN bHandled = 1..Len(bHandled)
  BY <1>2, PeersAssumption
<1>4. Len(bHandled) <= bSent
  <2>1. bPc[Owner] = "joining" /\ bPc[WorkerB] # "exited" => Len(bQueue) > 0
    BY <1>2, <1>3 DEF NestedInv, PB!SyncInv, PB!ControlInv
  <2>2. QED
    BY <1>3, <2>1 DEF NestedInv, PB!FIFO
<1>5. Len(bHandled) >= bSent
  <2>1. CASE bLastMsg[WorkerA] = NullMsg
    BY <1>1, <1>3, <2>1 DEF LatestInv
  <2>2. CASE bLastMsg[WorkerA] # NullMsg
    <3>1. bLastMsg[WorkerA].wait /\ bLastMsg[WorkerA].id = bSent
      BY <1>1, <2>2 DEF LatestInv
    <3>2. \E i \in 1..Len(bHandled) : bHandled[i] = bSent
      BY <1>1, <1>3, <2>2, <3>1 DEF NestedInv, PB!SyncInv, PB!ReturnInv, PB!DoneIn
    <3>3. \A i \in 1..Len(bHandled) : bHandled[i] = i
      BY DEF NestedInv, PB!FIFO
    <3>4. QED
      BY <1>3, <3>2, <3>3
  <2>3. QED
    BY <2>1, <2>2
<1>6. Len(bHandled) \in Nat /\ bSent \in Nat
  BY <1>3
<1>7. QED
  BY <1>4, <1>5, <1>6

(* A slot of A whose sends are synchronous is over only when the slots of  *)
(* B that it started are: a slot that calls SendSlotFuncSyncRunMsg of      *)
(* another object nests in it (ThreadBase.cpp), since the object it calls  *)
(* has handled the last message of a queue it keeps in order.              *)
THEOREM NestedSendsNest == Spec => []NestedSendsDone
BY NestedInit, NestedStep, NestedDone, PTL DEF Spec

-----------------------------------------------------------------------------
(* Waiting for each other.                                                 *)

(* A worker that is not asleep, neither over its queue nor in a send of    *)
(* its slot that waits for somebody who is.                                *)
BOnItsWay == PB!Awake /\ aPc[WorkerB] \in {"idle", "notify"}
AOnItsWay == PA!Awake /\ (bPc[WorkerA] = "waiting" => BOnItsWay)

(* Whoever waits, waits for a worker that is on its way: the main thread   *)
(* for A's, A's for B's, and a destructor for the worker it joins.  Nobody *)
(* waits for A's in turn.  A message is left only to such a worker, or to  *)
(* one whose notification is about to be made.                             *)
NoCircle ==
  /\ aPc[WorkerB] # "waiting"
  /\ bPc[WorkerA] = "waiting" => BOnItsWay
  /\ aPc[Main] = "waiting" => AOnItsWay
  /\ aQueue # <<>> => AOnItsWay \/ "notify" \in {aPc[Main], aPc[WorkerB]}
  /\ bQueue # <<>> => BOnItsWay \/ bPc[WorkerA] = "notify"
  /\ aPc[Owner] = "joining" => AOnItsWay \/ aPc[WorkerA] = "exited"
  /\ bPc[Owner] = "joining" => BOnItsWay \/ bPc[WorkerB] = "exited"

(* Two objects whose slots send to each other, in one direction only       *)
(* synchronously, never wait for each other in a circle, whatever the      *)
(* other threads do and however far their notifications are behind         *)
(* (ThreadBase.cpp:54-79).                                                 *)
THEOREM NobodyWaitsInACircle == Spec => []NoCircle
<1>1. ASSUME PA!SyncInv, PB!SyncInv PROVE NoCircle
  <2>1. aPc[WorkerB] \in {"idle", "notify"}
    <3>1. WorkerB \in {Main, WorkerB} \ (IF MainSyncs THEN {Main} ELSE {})
      BY PeersAssumption
    <3>2. QED
      BY <1>1, <3>1, Assumptions, PA!WaitsAreServed
  <2>2. /\ aPc[Main] = "waiting" => PA!Awake
        /\ aQueue # <<>> => PA!Awake \/ \E c \in {Main, WorkerB} : aPc[c] = "notify"
        /\ aPc[Owner] = "joining" => PA!Awake \/ aPc[WorkerA] = "exited"
    BY <1>1, Assumptions, PA!WaitsAreServed
  <2>3. /\ bPc[WorkerA] = "waiting" => PB!Awake
        /\ bQueue # <<>> => PB!Awake \/ \E c \in {WorkerA} : bPc[c] = "notify"
        /\ bPc[Owner] = "joining" => PB!Awake \/ bPc[WorkerB] = "exited"
    BY <1>1, Assumptions, PB!WaitsAreServed
  <2>4. QED
    BY <2>1, <2>2, <2>3 DEF NoCircle, AOnItsWay, BOnItsWay
<1>2. Spec => []PA!SyncInv /\ []PB!SyncInv
  BY BothAreThreadBases, Assumptions, SingleSyncCallers, PA!SyncInvariant, PB!SyncInvariant
<1>3. QED
  BY <1>1, <1>2, PTL

=============================================================================
