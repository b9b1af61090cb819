------------------------------ MODULE ThreadBase ------------------------------
(***************************************************************************)
(* One ThreadBase object (src/src/ThreadBase.h, src/src/ThreadBase.cpp):   *)
(* a worker thread that takes SignalMsg objects from a queue and hands     *)
(* each to UserCustomFunction, callers that send messages with or without  *)
(* waiting, and the owner that constructs and destroys the object.         *)
(*                                                                         *)
(* Every access to _signalMsgQueue and _syncProcessed is made with _mutex  *)
(* held, so one critical section is one action.  What happens outside the  *)
(* lock is an action of its own: notify_one of a sender, and the run of    *)
(* UserCustomFunction.  The one condition variable _cv is shared by the    *)
(* worker and by every synchronous caller: a thread blocked in _cv.wait    *)
(* has control state "waiting", and notify_one moves any one of them to    *)
(* "check", where it takes the lock again and evaluates its predicate.     *)
(***************************************************************************)
EXTENDS Integers, Sequences

CONSTANTS
  Callers,          \* threads that call the public send functions
  SyncCallers,      \* those that call SendSlotFuncSyncRunMsg (they may also send asynchronously)
  Worker,           \* the thread created by CreateThread
  Owner,            \* the thread that constructs and destroys the object
  Signals,          \* signal values the derived class sends
  NullMsg,          \* the null shared_ptr
  MaxSends,         \* bound: messages put in the queue during a behaviour
  CreateCanFail,    \* whether std::thread's constructor may throw
  SpuriousWakeups   \* whether _cv.wait may return without a notification

DestroyThread_Signal == -1

Threads == Callers \cup {Worker, Owner}

(* A SignalMsg.  "id" numbers messages in the order they enter the queue   *)
(* and stands for _msg, the payload.                                       *)
Message ==
  [signal : Signals, wait : BOOLEAN, from : Callers, id : 1..MaxSends]

DestroyMsg ==
  [signal |-> DestroyThread_Signal, wait |-> FALSE, from |-> Owner, id |-> 0]

ASSUME ThreadBaseAssumption ==
  /\ SyncCallers \subseteq Callers
  /\ Worker \notin Callers
  /\ Owner \notin Callers
  /\ Worker # Owner
  /\ Signals \subseteq Nat
  /\ NullMsg \notin Message \cup {DestroyMsg}
  /\ MaxSends \in Nat
  /\ CreateCanFail \in BOOLEAN
  /\ SpuriousWakeups \in BOOLEAN

VARIABLES
  thread,           \* _thread is not null
  signalMsgQueue,   \* _signalMsgQueue
  syncProcessed,    \* _syncProcessed
  signalMsg,        \* the local variable of Process
  pc,               \* control state of every thread
  lastMsg,          \* argument of each caller's latest send
  sent,             \* history: number of messages put in the queue
  handled           \* history: ids given to UserCustomFunction, in order

vars == <<thread, signalMsgQueue, syncProcessed, signalMsg, pc, lastMsg,
          sent, handled>>

CallerStates == {"idle", "notify", "check", "waiting"}
WorkerStates == {"absent", "check", "waiting", "running", "signal", "exited"}
OwnerStates  == {"constructing", "alive", "joining", "destroyed"}

Init ==
  /\ thread = FALSE
  /\ signalMsgQueue = <<>>
  /\ syncProcessed = FALSE
  /\ signalMsg = NullMsg
  /\ pc = [t \in Threads |-> CASE t = Worker -> "absent"
                               [] t = Owner  -> "constructing"
                               [] OTHER      -> "idle"]
  /\ lastMsg = [c \in Callers |-> NullMsg]
  /\ sent = 0
  /\ handled = <<>>

-----------------------------------------------------------------------------
(* The condition variable.                                                 *)

Waiting == {t \in Threads : pc[t] = "waiting"}

Goto(t, from, to) == pc[t] = from /\ pc' = [pc EXCEPT ![t] = to]

(* t calls notify_one and goes on to state "to"; any one waiter wakes up.  *)
NotifyOne(t, to) ==
  \/ /\ Waiting = {}
     /\ pc' = [pc EXCEPT ![t] = to]
  \/ \E u \in Waiting : pc' = [pc EXCEPT ![t] = to, ![u] = "check"]

SpuriousWakeup(t) ==
  /\ SpuriousWakeups
  /\ Goto(t, "waiting", "check")
  /\ UNCHANGED <<thread, signalMsgQueue, syncProcessed, signalMsg, lastMsg,
                 sent, handled>>

-----------------------------------------------------------------------------
(* The owner.                                                              *)

CreateThread ==
  /\ pc[Owner] = "constructing"
  /\ \/ /\ thread' = TRUE
        /\ pc' = [pc EXCEPT ![Owner] = "alive", ![Worker] = "check"]
     \/ /\ CreateCanFail
        /\ pc' = [pc EXCEPT ![Owner] = "alive"]
        /\ UNCHANGED thread
  /\ UNCHANGED <<signalMsgQueue, syncProcessed, signalMsg, lastMsg, sent,
                 handled>>

(* Faults: the destroy message jumps the queue; nobody is notified of it.  *)
DestroyAtFront ==
  /\ pc[Owner] = "alive"
  /\ \A c \in Callers : pc[c] = "idle"
  /\ thread
  /\ signalMsgQueue' = <<DestroyMsg>> \o signalMsgQueue
  /\ NotifyOne(Owner, "joining")
  /\ UNCHANGED <<thread, syncProcessed, signalMsg, lastMsg, sent, handled>>

DestroySilently ==
  /\ \A c \in Callers : pc[c] = "idle"
  /\ thread
  /\ signalMsgQueue' = Append(signalMsgQueue, DestroyMsg)
  /\ Goto(Owner, "alive", "joining")
  /\ UNCHANGED <<thread, syncProcessed, signalMsg, lastMsg, sent, handled>>

(* The first half of ~ThreadBase.  The object's lifetime ends only once no *)
(* thread is inside one of its member functions.                           *)
Destroy ==
  /\ pc[Owner] = "alive"
  /\ \A c \in Callers : pc[c] = "idle"
  /\ \/ /\ ~thread
        /\ pc' = [pc EXCEPT ![Owner] = "destroyed"]
        /\ UNCHANGED signalMsgQueue
     \/ /\ thread
        /\ signalMsgQueue' = Append(signalMsgQueue, DestroyMsg)
        /\ NotifyOne(Owner, "joining")
  /\ UNCHANGED <<thread, syncProcessed, signalMsg, lastMsg, sent, handled>>

(* The second half of ~ThreadBase: join returns when Process has returned. *)
Join ==
  /\ pc[Worker] = "exited"
  /\ Goto(Owner, "joining", "destroyed")
  /\ thread' = FALSE
  /\ UNCHANGED <<signalMsgQueue, syncProcessed, signalMsg, lastMsg, sent,
                 handled>>

-----------------------------------------------------------------------------
(* The callers.                                                            *)

(* make_shared<SignalMsg>(sig, ...) followed by SetWait(wait).             *)
NewMsg(c, sig, wait) ==
  [signal |-> sig, wait |-> wait, from |-> c, id |-> sent + 1]

(* Variants of SendMsg with one fault each, for the sensitivity checks:    *)
(* _syncProcessed is not reset; the message is put at the front of the     *)
(* queue; the queue is given the moved-from, hence null, pointer.          *)
SendMsgFaulty(c, m, queue, flag) ==
  /\ thread
  /\ lastMsg' = [lastMsg EXCEPT ![c] = m]
  /\ signalMsgQueue' = queue
  /\ syncProcessed' = flag
  /\ sent' = sent + 1
  /\ pc' = [pc EXCEPT ![c] = "notify"]
  /\ UNCHANGED <<thread, signalMsg, handled>>

SendMsgNoReset(c, sig, wait) ==
  LET m == NewMsg(c, sig, wait)
  IN  SendMsgFaulty(c, m, Append(signalMsgQueue, m), syncProcessed)

SendMsgAtFront(c, sig, wait) ==
  LET m == NewMsg(c, sig, wait)
  IN  SendMsgFaulty(c, m, <<m>> \o signalMsgQueue, syncProcessed /\ ~wait)

SendMsgMovedFrom(c, sig, wait) ==
  SendMsgFaulty(c, NewMsg(c, sig, wait), Append(signalMsgQueue, NullMsg), syncProcessed /\ ~wait)

(* SendMsg up to the end of its critical section.  Without a thread it     *)
(* returns at once, and only the predicate wait of a synchronous send is   *)
(* left to do.                                                             *)
SendMsg(c, sig, wait) ==
  LET m == NewMsg(c, sig, wait)
  IN  /\ lastMsg' = [lastMsg EXCEPT ![c] = m]
      /\ \/ /\ ~thread
            /\ pc' = [pc EXCEPT ![c] = IF wait THEN "check" ELSE "idle"]
            /\ UNCHANGED <<signalMsgQueue, syncProcessed, sent>>
         \/ /\ thread
            /\ signalMsgQueue' = Append(signalMsgQueue, m)
            /\ syncProcessed' = (syncProcessed /\ ~wait)
            /\ sent' = sent + 1
            /\ pc' = [pc EXCEPT ![c] = "notify"]
      /\ UNCHANGED <<thread, signalMsg, handled>>

CanCall(c) ==
  /\ pc[Owner] = "alive"
  /\ pc[c] = "idle"
  /\ sent < MaxSends

SendSlotFuncAsyncRunMsg(c) ==
  CanCall(c) /\ \E sig \in Signals : SendMsg(c, sig, FALSE)

SendSlotFuncSyncRunMsg(c) ==
  CanCall(c) /\ \E sig \in Signals : SendMsg(c, sig, TRUE)

(* Fault: notify_one only for synchronous messages.                        *)
SendNotifySyncOnly(c) ==
  /\ pc[c] = "notify"
  /\ \/ lastMsg[c].wait /\ NotifyOne(c, "check")
     \/ ~lastMsg[c].wait /\ Goto(c, "notify", "idle")
  /\ UNCHANGED <<thread, signalMsgQueue, syncProcessed, signalMsg, lastMsg,
                 sent, handled>>

(* SendMsg's notify_one, made after the lock is released.                  *)
SendNotify(c) ==
  /\ pc[c] = "notify"
  /\ NotifyOne(c, IF lastMsg[c].wait THEN "check" ELSE "idle")
  /\ UNCHANGED <<thread, signalMsgQueue, syncProcessed, signalMsg, lastMsg,
                 sent, handled>>

(* _cv.wait(lock, [this] { return _syncProcessed; })                       *)
SyncReturn(c) ==
  /\ syncProcessed
  /\ Goto(c, "check", "idle")
  /\ UNCHANGED <<thread, signalMsgQueue, syncProcessed, signalMsg, lastMsg,
                 sent, handled>>

SyncBlock(c) ==
  /\ ~syncProcessed
  /\ Goto(c, "check", "waiting")
  /\ UNCHANGED <<thread, signalMsgQueue, syncProcessed, signalMsg, lastMsg,
                 sent, handled>>

-----------------------------------------------------------------------------
(* The worker: Process.                                                    *)

WorkerBlock ==
  /\ signalMsgQueue = <<>>
  /\ Goto(Worker, "check", "waiting")
  /\ UNCHANGED <<thread, signalMsgQueue, syncProcessed, signalMsg, lastMsg,
                 sent, handled>>

(* Takes the front of the queue; the destroy signal ends the loop.         *)
WorkerTake ==
  /\ signalMsgQueue # <<>>
  /\ signalMsg' = Head(signalMsgQueue)
  /\ signalMsgQueue' = Tail(signalMsgQueue)
  /\ \/ /\ signalMsg'.signal = DestroyThread_Signal
        /\ Goto(Worker, "check", "exited")
     \/ /\ signalMsg'.signal # DestroyThread_Signal
        /\ Goto(Worker, "check", "running")
  /\ UNCHANGED <<thread, syncProcessed, lastMsg, sent, handled>>

(* Fault: Process stays in its loop over a message it has not handled.     *)
UserCustomFunctionSkipped ==
  /\ Goto(Worker, "running", IF signalMsg.wait THEN "signal" ELSE "check")
  /\ UNCHANGED <<thread, signalMsgQueue, syncProcessed, signalMsg, lastMsg,
                 sent, handled>>

(* UserCustomFunction returns, or throws and is caught by catch (...): the *)
(* loop goes on in the same way.                                           *)
UserCustomFunction ==
  /\ Goto(Worker, "running", IF signalMsg.wait THEN "signal" ELSE "check")
  /\ handled' = Append(handled, signalMsg.id)
  /\ UNCHANGED <<thread, signalMsgQueue, syncProcessed, signalMsg, lastMsg,
                 sent>>

(* Fault: the flag is set without a notification.                          *)
SetSyncProcessedSilently ==
  /\ Goto(Worker, "signal", "check")
  /\ syncProcessed' = TRUE
  /\ UNCHANGED <<thread, signalMsgQueue, signalMsg, lastMsg, sent, handled>>

SetSyncProcessed ==
  /\ pc[Worker] = "signal"
  /\ syncProcessed' = TRUE
  /\ NotifyOne(Worker, "check")
  /\ UNCHANGED <<thread, signalMsgQueue, signalMsg, lastMsg, sent, handled>>

-----------------------------------------------------------------------------
WorkerStep == WorkerBlock \/ WorkerTake \/ UserCustomFunction \/ SetSyncProcessed

(* The steps of a call that has begun.                                     *)
CallerStep(c) == SendNotify(c) \/ SyncReturn(c) \/ SyncBlock(c)

(* The object is gone: the one way this system stops.                      *)
Terminated == pc[Owner] = "destroyed" /\ UNCHANGED vars

Next ==
  \/ CreateThread
  \/ Destroy
  \/ Join
  \/ \E c \in Callers : SendSlotFuncAsyncRunMsg(c)
  \/ \E c \in SyncCallers : SendSlotFuncSyncRunMsg(c)
  \/ \E c \in Callers : CallerStep(c)
  \/ WorkerStep
  \/ \E t \in Threads : SpuriousWakeup(t)
  \/ Terminated

Spec == Init /\ [][Next]_vars

(* Every thread that can run keeps running, every critical section and     *)
(* every slot ends, and a mutex that is released is eventually acquired.   *)
(* Nothing obliges a caller to send, the owner to destroy the object, or   *)
(* the condition variable to wake a thread that nobody notified.           *)
Fairness ==
  /\ WF_vars(WorkerStep)
  /\ \A c \in Callers : WF_vars(CallerStep(c))
  /\ WF_vars(Join)

FairSpec == Spec /\ Fairness

-----------------------------------------------------------------------------
(* Correctness.                                                            *)

(* Every variable has its type, and every thread is in one of its own      *)
(* control states.                                                         *)
TypeOK ==
  /\ thread \in BOOLEAN
  /\ signalMsgQueue \in Seq(Message \cup {DestroyMsg})
  /\ syncProcessed \in BOOLEAN
  /\ signalMsg \in Message \cup {DestroyMsg, NullMsg}
  /\ pc \in [Threads -> CallerStates \cup WorkerStates \cup OwnerStates]
  /\ \A c \in Callers : pc[c] \in CallerStates
  /\ pc[Worker] \in WorkerStates
  /\ pc[Owner] \in OwnerStates
  /\ lastMsg \in [Callers -> Message \cup {NullMsg}]
  /\ sent \in 0..MaxSends
  /\ handled \in Seq(1..MaxSends)

(* The message whose slot is running, or whose waiter is still to be told. *)
InFlight == pc[Worker] \in {"running", "signal"}

(* c is inside SendSlotFuncSyncRunMsg.                                     *)
InSyncCall(c) ==
  pc[c] # "idle" /\ lastMsg[c] # NullMsg /\ lastMsg[c].wait

Handled(m) == \E i \in DOMAIN handled : handled[i] = m.id

(* m is in the queue, or taken from it and not yet finished with.          *)
Outstanding(m) ==
  \/ \E i \in DOMAIN signalMsgQueue : signalMsgQueue[i] = m
  \/ InFlight /\ signalMsg = m

(* "If true, the calling thread will wait until the message is processed"  *)
(* (ThreadBase.h:121): when SendSlotFuncSyncRunMsg has returned, the slot  *)
(* of the message it sent has run.                                         *)
SyncReturnsAfterSlot ==
  \A c \in Callers :
    pc[c] = "idle" /\ lastMsg[c] # NullMsg /\ lastMsg[c].wait
      => Handled(lastMsg[c])

(* No wakeup meant for the worker is lost to another waiter of _cv: when   *)
(* the worker sleeps over a queue that is not empty, some sender has its   *)
(* notify_one still to make.                                               *)
NoLostWorkerWakeup ==
  pc[Worker] = "waiting" /\ signalMsgQueue # <<>>
    => \E c \in Callers : pc[c] = "notify"

(* If there is a worker, a synchronous caller sleeps only while it still   *)
(* owes it a notification: its message is queued or in the worker's hands. *)
NoLostCallerWakeup ==
  \A c \in Callers : thread /\ pc[c] = "waiting" => Outstanding(lastMsg[c])

(* Messages are handled once each, in the order they entered the queue:    *)
(* the ids handled, the one in flight and those queued are 1, 2, ..., sent *)
(* and the destroy message, if any, is behind all of them.                 *)
FIFO ==
  LET k == Len(handled)
      f == IF pc[Worker] = "running" THEN 1 ELSE 0
      closing == pc[Owner] = "joining" /\ pc[Worker] # "exited"
  IN  /\ \A i \in 1..k : handled[i] = i
      /\ f = 1 => signalMsg.id = k + 1
      /\ \A i \in 1..(sent - k - f) : signalMsgQueue[i].id = k + f + i
      /\ k + f + Len(signalMsgQueue) = sent + (IF closing THEN 1 ELSE 0)

(* ~ThreadBase does not discard messages: the worker leaves its loop only  *)
(* after every message that entered the queue has been handled.            *)
DrainedBeforeExit ==
  pc[Worker] = "exited" => signalMsgQueue = <<>> /\ Len(handled) = sent

(* A message is queued only for a worker that will take it: a send on an   *)
(* object without a thread queues nothing, and join leaves nothing behind. *)
NoOrphanedMessages == ~thread => signalMsgQueue = <<>>

(* Both: no message is left behind, whether the object's thread has ended  *)
(* or was never created (~ThreadBase, SendMsg).                            *)
NothingLeftBehind == DrainedBeforeExit /\ NoOrphanedMessages

(* A synchronous send returns.                                             *)
SyncCallReturns ==
  \A c \in SyncCallers : InSyncCall(c) ~> pc[c] = "idle"

(* Every message that enters the queue is eventually handled.              *)
EveryMessageHandled ==
  \A n \in 1..MaxSends : (sent >= n) ~> (Len(handled) >= n)

(* ~ThreadBase, once started, comes to an end.                             *)
DestructorReturns == (pc[Owner] = "joining") ~> (pc[Owner] = "destroyed")
=============================================================================
