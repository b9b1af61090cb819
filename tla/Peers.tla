-------------------------------- MODULE Peers --------------------------------
(***************************************************************************)
(* Two ThreadBase objects, A and B, whose slots send signals to each other *)
(* ("Thread objects can interact normally", README.md:11).  Each is a full *)
(* instance of ThreadBase; the worker of each is a caller of the other,    *)
(* from within its slots only, and a slot ends only when the sends it has  *)
(* made have returned.                                                     *)
(***************************************************************************)
EXTENDS Integers, Sequences

CONSTANTS
  Main,          \* the thread that sends to A
  Owner,         \* the thread that constructs and destroys the objects
  WorkerA, WorkerB,
  MainSyncs,     \* whether Main sends synchronously
  ASyncs,        \* whether the slots of A send to B synchronously
  Signals, NullMsg,
  MaxSendsA,     \* bound: messages put in A's queue
  MaxSendsB      \* bound: messages put in B's queue

ASSUME PeersAssumption ==
  /\ MainSyncs \in BOOLEAN /\ ASyncs \in BOOLEAN
  /\ MaxSendsA \in Nat /\ MaxSendsB \in Nat
  /\ Signals \subseteq Nat
  /\ Owner \notin {Main, WorkerA, WorkerB}
  /\ Main # WorkerA /\ Main # WorkerB /\ WorkerA # WorkerB

VARIABLES
  aThread, aQueue, aSyncProcessed, aMsg, aPc, aLastMsg, aSent, aHandled,
  bThread, bQueue, bSyncProcessed, bMsg, bPc, bLastMsg, bSent, bHandled

a == <<aThread, aQueue, aSyncProcessed, aMsg, aPc, aLastMsg, aSent, aHandled>>
b == <<bThread, bQueue, bSyncProcessed, bMsg, bPc, bLastMsg, bSent, bHandled>>
vars == <<a, b>>

A == INSTANCE ThreadBase WITH
       Callers <- {Main, WorkerB},
       SyncCallers <- IF MainSyncs THEN {Main} ELSE {},
       Worker <- WorkerA, MaxSends <- MaxSendsA, CreateCanFail <- FALSE, SpuriousWakeups <- FALSE,
       thread <- aThread, signalMsgQueue <- aQueue, syncProcessed <- aSyncProcessed,
       signalMsg <- aMsg, pc <- aPc, lastMsg <- aLastMsg, sent <- aSent, handled <- aHandled

B == INSTANCE ThreadBase WITH
       Callers <- {WorkerA},
       SyncCallers <- IF ASyncs THEN {WorkerA} ELSE {},
       Worker <- WorkerB, MaxSends <- MaxSendsB, CreateCanFail <- FALSE, SpuriousWakeups <- FALSE,
       thread <- bThread, signalMsgQueue <- bQueue, syncProcessed <- bSyncProcessed,
       signalMsg <- bMsg, pc <- bPc, lastMsg <- bLastMsg, sent <- bSent, handled <- bHandled

ASSUME NullAssumption ==
  NullMsg \notin A!Message \cup B!Message \cup {A!DestroyMsg, B!DestroyMsg}

Init == A!Init /\ B!Init

-----------------------------------------------------------------------------
(* What the owner and the calling thread do.                               *)

OwnerA == (A!CreateThread \/ A!Destroy) /\ UNCHANGED b
OwnerB == (B!CreateThread \/ B!Destroy) /\ UNCHANGED a
JoinA == A!Join /\ UNCHANGED b
JoinB == B!Join /\ UNCHANGED a

MainSends ==
  /\ IF MainSyncs THEN A!SendSlotFuncSyncRunMsg(Main) ELSE A!SendSlotFuncAsyncRunMsg(Main)
  /\ UNCHANGED b

MainStep == A!CallerStep(Main) /\ UNCHANGED b

-----------------------------------------------------------------------------
(* What the slots do: nothing, or send to the other object.                *)

ASlotSends ==
  /\ aPc[WorkerA] = "running"
  /\ IF ASyncs THEN B!SendSlotFuncSyncRunMsg(WorkerA) ELSE B!SendSlotFuncAsyncRunMsg(WorkerA)
  /\ UNCHANGED a

(* Fault: the slots of B answer synchronously.                             *)
BSlotSendsSync ==
  /\ bPc[WorkerB] = "running"
  /\ A!SendSlotFuncSyncRunMsg(WorkerB)
  /\ UNCHANGED b

BSlotSends ==
  /\ bPc[WorkerB] = "running"
  /\ A!SendSlotFuncAsyncRunMsg(WorkerB)
  /\ UNCHANGED b

(* The workers: the steps of Process, and of the sends of a slot.          *)
AProcess == (A!WorkerBlock \/ A!WorkerTake \/ A!SetSyncProcessed) /\ UNCHANGED b
BProcess == (B!WorkerBlock \/ B!WorkerTake \/ B!SetSyncProcessed) /\ UNCHANGED a
ASlotCall == B!CallerStep(WorkerA) /\ UNCHANGED a
BSlotCall == A!CallerStep(WorkerB) /\ UNCHANGED b

(* Fault: a slot ends although its send has not returned.                  *)
ASlotEndsEarly == A!UserCustomFunction /\ UNCHANGED b

ASlotEnds == bPc[WorkerA] = "idle" /\ A!UserCustomFunction /\ UNCHANGED b
BSlotEnds == aPc[WorkerB] = "idle" /\ B!UserCustomFunction /\ UNCHANGED a

AStep == AProcess \/ ASlotCall \/ ASlotEnds
BStep == BProcess \/ BSlotCall \/ BSlotEnds

Terminated == aPc[Owner] = "destroyed" /\ bPc[Owner] = "destroyed" /\ UNCHANGED vars

Next ==
  \/ OwnerA \/ OwnerB \/ JoinA \/ JoinB
  \/ MainSends \/ MainStep
  \/ ASlotSends \/ BSlotSends
  \/ AStep \/ BStep
  \/ Terminated

Spec == Init /\ [][Next]_vars

(* As in ThreadBase.  A slot is not obliged to send, and ends.             *)
FairSpec ==
  /\ Spec
  /\ WF_vars(MainStep) /\ WF_vars(JoinA) /\ WF_vars(JoinB)
  /\ WF_vars(AProcess) /\ WF_vars(ASlotCall) /\ WF_vars(ASlotEnds)
  /\ WF_vars(BProcess) /\ WF_vars(BSlotCall) /\ WF_vars(BSlotEnds)

-----------------------------------------------------------------------------
(* Correctness.                                                            *)

(* A slot of A whose sends are synchronous is over only when the slots of  *)
(* B that it started are: nested synchronous sends nest.                   *)
NestedSendsDone ==
  ASyncs /\ aPc[WorkerA] # "running" => Len(bHandled) = bSent

(* "Thread A can send signals to Thread B and Thread B can send signals to *)
(* Thread A" (README.md:11): every send returns ...                        *)
PeerCallsReturn == A!SyncCallReturns /\ B!SyncCallReturns

(* ... every signal is handled, and each object can be destroyed while the *)
(* other still runs.                                                       *)
PeersServed ==
  /\ A!EveryMessageHandled /\ B!EveryMessageHandled
  /\ A!DestructorReturns /\ B!DestructorReturns
=============================================================================
