-------------------------- MODULE ThreadBaseProofs --------------------------
(* Theorems about ThreadBase, for every set of callers and every bound; at *)
(* the end, with one caller that sends synchronously, that it implements   *)
(* Mailbox.                                                                *)
EXTENDS ThreadBaseRefinement, TLAPS

States == CallerStates \cup WorkerStates \cup OwnerStates

(* What a notify_one by t, on its way to state "to", does to the control   *)
(* states: t moves, every waiter may move to "check", at least one does if *)
(* there is any, and nothing else changes.                                 *)
LEMMA NotifyEffect ==
  ASSUME NEW t \in Threads, NEW to \in States,
         pc \in [Threads -> States], pc[t] # "waiting", NotifyOne(t, to)
  PROVE  /\ pc' \in [Threads -> States]
         /\ pc'[t] = to
         /\ \A u \in Threads \ {t} :
              pc'[u] = pc[u] \/ (pc[u] = "waiting" /\ pc'[u] = "check")
         /\ \A u \in Threads :
              pc[u] = "waiting" /\ pc'[u] = "waiting"
                => \E v \in Threads : v # u /\ pc[v] = "waiting" /\ pc'[v] = "check"
BY DEF NotifyOne, Waiting, States, CallerStates

(* While a slot runs the worker holds a message of a caller, never the     *)
(* destroy message: what TypeOK needs to be inductive.                     *)
TypeInv ==
  /\ TypeOK
  /\ InFlight => signalMsg \in Message

LEMMA TypeInvInit == Init => TypeInv
<1> SUFFICES ASSUME Init PROVE TypeInv
  OBVIOUS
<1> USE ThreadBaseAssumption DEF Init
<1>1. signalMsgQueue \in Seq(Message \cup {DestroyMsg}) /\ handled \in Seq(1..MaxSends)
  OBVIOUS
<1>2. pc \in [Threads -> States] /\ pc[Worker] = "absent" /\ pc[Owner] = "constructing"
  BY DEF Threads, States, CallerStates, WorkerStates, OwnerStates
<1>3. \A c \in Callers : pc[c] = "idle"
  BY DEF Threads
<1>4. lastMsg \in [Callers -> Message \cup {NullMsg}] /\ signalMsg = NullMsg
  OBVIOUS
<1>5. sent \in 0..MaxSends
  OBVIOUS
<1>6. thread \in BOOLEAN /\ syncProcessed \in BOOLEAN
  BY Zenon
<1> HIDE DEF Init
<1>7. QED
  BY <1>1, <1>2, <1>3, <1>4, <1>5, <1>6 DEF TypeInv, TypeOK, InFlight, States, CallerStates,
     WorkerStates, OwnerStates

LEMMA TypeInvStep == TypeInv /\ [Next]_vars => TypeInv'
<1> USE ThreadBaseAssumption DEF TypeInv, TypeOK, InFlight, States, Threads,
        CallerStates, WorkerStates, OwnerStates
<1> SUFFICES ASSUME TypeInv, [Next]_vars
             PROVE  TypeInv'
  OBVIOUS
<1>1. CASE CreateThread
  BY <1>1 DEF CreateThread
<1>2. CASE Destroy
  <2>1. signalMsgQueue' \in Seq(Message \cup {DestroyMsg})
    BY <1>2 DEF Destroy
  <2>2. CASE ~thread
    BY <1>2, <2>1, <2>2 DEF Destroy
  <2>3. CASE thread
    <3>1. NotifyOne(Owner, "joining") /\ pc[Owner] = "alive"
      BY <1>2, <2>3 DEF Destroy
    <3>2. QED
      BY <1>2, <2>1, <3>1, NotifyEffect DEF Destroy
  <2>4. QED
    BY <2>2, <2>3
<1>3. CASE Join
  BY <1>3 DEF Join, Goto
<1>4. ASSUME NEW c \in Callers, NEW sig \in Signals, NEW w \in BOOLEAN,
             CanCall(c), SendMsg(c, sig, w)
      PROVE  TypeInv'
  <2>1. NewMsg(c, sig, w) \in Message /\ sent + 1 \in 0..MaxSends
    BY <1>4 DEF CanCall, Message, NewMsg
  <2>2. lastMsg' \in [Callers -> Message \cup {NullMsg}]
    BY <1>4, <2>1 DEF SendMsg
  <2>3. signalMsgQueue' \in Seq(Message \cup {DestroyMsg})
    <3>1. \/ signalMsgQueue' = signalMsgQueue
          \/ signalMsgQueue' = Append(signalMsgQueue, NewMsg(c, sig, w))
      BY <1>4 DEF SendMsg
    <3>2. signalMsgQueue \in Seq(Message \cup {DestroyMsg})
      OBVIOUS
    <3> HIDE DEF TypeInv, TypeOK
    <3>3. QED
      BY <2>1, <3>1, <3>2
  <2>4. sent' \in 0..MaxSends
    <3>1. sent' = sent \/ sent' = sent + 1
      BY <1>4 DEF SendMsg
    <3>2. QED
      BY <2>1, <3>1
  <2>5. syncProcessed' \in BOOLEAN
    <3>1. syncProcessed' = syncProcessed \/ syncProcessed' = (syncProcessed /\ ~w)
      BY <1>4, Zenon DEF SendMsg
    <3>2. syncProcessed \in BOOLEAN
      OBVIOUS
    <3> HIDE DEF TypeInv, TypeOK
    <3>3. QED
      BY <3>1, <3>2, Zenon
  <2>6. pc' \in [Threads -> States] /\ pc'[c] \in CallerStates
        /\ \A t \in Threads \ {c} : pc'[t] = pc[t]
    BY <1>4 DEF SendMsg
  <2>7. QED
    BY <1>4, <2>2, <2>3, <2>4, <2>5, <2>6 DEF SendMsg
<1>5. ASSUME NEW c \in Callers, SendNotify(c)
      PROVE  TypeInv'
  <2>1. NotifyOne(c, IF lastMsg[c].wait THEN "check" ELSE "idle")
        /\ pc[c] = "notify"
    BY <1>5 DEF SendNotify
  <2>2. QED
    BY <1>5, <2>1, NotifyEffect DEF SendNotify
<1>6. ASSUME NEW c \in Callers, SyncReturn(c) \/ SyncBlock(c)
      PROVE  TypeInv'
  BY <1>6 DEF SyncReturn, SyncBlock, Goto
<1>7. CASE WorkerBlock
  BY <1>7 DEF WorkerBlock, Goto
<1>8. CASE WorkerTake
  <2>1. Head(signalMsgQueue) \in Message \cup {DestroyMsg}
        /\ Tail(signalMsgQueue) \in Seq(Message \cup {DestroyMsg})
    BY <1>8 DEF WorkerTake
  <2>2. signalMsg' # DestroyMsg => signalMsg' \in Message
    BY <1>8, <2>1 DEF WorkerTake
  <2>3. signalMsg' = DestroyMsg => pc'[Worker] = "exited"
    BY <1>8 DEF WorkerTake, Goto, DestroyMsg
  <2>4. signalMsg' \in Message \cup {DestroyMsg} /\ signalMsgQueue' \in Seq(Message \cup {DestroyMsg})
    BY <1>8, <2>1 DEF WorkerTake
  <2>5. pc' \in [Threads -> States] /\ pc'[Worker] \in WorkerStates
        /\ \A t \in Threads \ {Worker} : pc'[t] = pc[t]
    BY <1>8 DEF WorkerTake, Goto
  <2>6. QED
    BY <1>8, <2>2, <2>3, <2>4, <2>5 DEF WorkerTake
<1>9. CASE UserCustomFunction
  <2>1. signalMsg \in Message
    BY <1>9 DEF UserCustomFunction, Goto
  <2>2. handled' \in Seq(1..MaxSends)
    BY <1>9, <2>1 DEF UserCustomFunction, Message
  <2>3. QED
    BY <1>9, <2>1, <2>2 DEF UserCustomFunction, Goto
<1>10. CASE SetSyncProcessed
  <2>1. NotifyOne(Worker, "check") /\ pc[Worker] = "signal"
    BY <1>10 DEF SetSyncProcessed
  <2>2. QED
    BY <1>10, <2>1, NotifyEffect DEF SetSyncProcessed
<1>11. ASSUME NEW t \in Threads, SpuriousWakeup(t)
       PROVE  TypeInv'
  BY <1>11 DEF SpuriousWakeup, Goto
<1>12. CASE UNCHANGED vars
  BY <1>12 DEF vars
<1>13. QED
  BY <1>1, <1>2, <1>3, <1>4, <1>5, <1>6, <1>7, <1>8, <1>9, <1>10, <1>11, <1>12
     DEF Next, SendSlotFuncAsyncRunMsg, SendSlotFuncSyncRunMsg, CallerStep,
         WorkerStep, Terminated

(* Every variable keeps its type and every thread stays within its own     *)
(* control states, whatever the callers, the owner and the condition       *)
(* variable do.                                                            *)
THEOREM TypeCorrect == Spec => []TypeOK
<1>1. TypeInv => TypeOK
  BY DEF TypeInv
<1>2. QED
  BY <1>1, TypeInvInit, TypeInvStep, PTL DEF Spec

-----------------------------------------------------------------------------
(* How the control states of the owner and the worker, the queue and       *)
(* _thread belong together: what the queue properties need to be           *)
(* inductive.  The destroy message is the last one of the queue from       *)
(* ~ThreadBase's emplace until the worker takes it, and at no other time.  *)
ControlInv ==
  /\ pc[Owner] = "constructing" => pc[Worker] = "absent"
  /\ pc[Worker] = "absent" => signalMsgQueue = <<>> /\ sent = 0 /\ handled = <<>>
                              /\ pc[Owner] # "joining"
  /\ thread <=> pc[Worker] # "absent" /\ pc[Owner] \in {"alive", "joining"}
  /\ pc[Owner] # "alive" => \A c \in Callers : pc[c] = "idle"
  /\ pc[Owner] = "destroyed" => pc[Worker] \in {"absent", "exited"}
  /\ pc[Worker] = "exited" => signalMsgQueue = <<>> /\ pc[Owner] # "alive"
  /\ pc[Owner] = "joining" /\ pc[Worker] # "exited"
       => signalMsgQueue # <<>> /\ signalMsgQueue[Len(signalMsgQueue)] = DestroyMsg
  /\ \A i \in 1..Len(signalMsgQueue) :
       signalMsgQueue[i] = DestroyMsg => pc[Owner] = "joining" /\ i = Len(signalMsgQueue)

QueueInv == TypeInv /\ ControlInv /\ FIFO

(* Messages of callers can be told from the destroy message and from null. *)
LEMMA MessageFacts ==
  /\ \A m \in Message : /\ m # DestroyMsg /\ m # NullMsg
                        /\ m.signal # DestroyThread_Signal
                        /\ m.wait \in BOOLEAN /\ m.from \in Callers
                        /\ m.id \in 1..MaxSends
  /\ DestroyMsg # NullMsg
  /\ DestroyMsg.signal = DestroyThread_Signal
  /\ ~DestroyMsg.wait
BY ThreadBaseAssumption DEF Message, DestroyMsg, DestroyThread_Signal

(* What SendMsg does to the variables it may change, in its two cases.     *)
LEMMA SendMsgEffect ==
  ASSUME TypeInv, NEW c \in Callers, NEW sig \in Signals, NEW w \in BOOLEAN,
         CanCall(c), SendMsg(c, sig, w)
  PROVE  /\ NewMsg(c, sig, w) \in Message
         /\ NewMsg(c, sig, w).wait = w
         /\ NewMsg(c, sig, w).from = c
         /\ NewMsg(c, sig, w).id = sent + 1
         /\ lastMsg' = [lastMsg EXCEPT ![c] = NewMsg(c, sig, w)]
         /\ pc[Owner] = "alive" /\ pc[c] = "idle"
         /\ thread' = thread /\ signalMsg' = signalMsg /\ handled' = handled
         /\ ~thread => /\ pc' = [pc EXCEPT ![c] = IF w THEN "check" ELSE "idle"]
                       /\ signalMsgQueue' = signalMsgQueue
                       /\ syncProcessed' = syncProcessed
                       /\ sent' = sent
         /\ thread => /\ pc' = [pc EXCEPT ![c] = "notify"]
                      /\ signalMsgQueue' = Append(signalMsgQueue, NewMsg(c, sig, w))
                      /\ sent' = sent + 1
<1>1. NewMsg(c, sig, w) \in Message
  BY ThreadBaseAssumption DEF CanCall, Message, NewMsg, TypeInv, TypeOK
<1>2. /\ NewMsg(c, sig, w).wait = w
      /\ NewMsg(c, sig, w).from = c
      /\ NewMsg(c, sig, w).id = sent + 1
  BY DEF NewMsg
<1>3. QED
  BY <1>1, <1>2, Zenon DEF SendMsg, CanCall

LEMMA ControlInvStep == TypeInv /\ TypeInv' /\ ControlInv /\ [Next]_vars => ControlInv'
<1> SUFFICES ASSUME TypeInv, TypeInv', ControlInv, [Next]_vars
             PROVE  ControlInv'
  OBVIOUS
<1> USE ThreadBaseAssumption DEF States, Threads, CallerStates, WorkerStates, OwnerStates
<1>t. /\ pc \in [Threads -> States] /\ pc[Worker] \in WorkerStates /\ pc[Owner] \in OwnerStates
      /\ pc' \in [Threads -> States] /\ pc'[Worker] \in WorkerStates /\ pc'[Owner] \in OwnerStates
      /\ signalMsgQueue \in Seq(Message \cup {DestroyMsg})
      /\ \A c \in Callers : pc[c] \in CallerStates
  BY DEF TypeInv, TypeOK
<1>1. CASE CreateThread
  BY <1>1, <1>t DEF CreateThread, ControlInv
<1>2. CASE Destroy
  <2>1. CASE ~thread
    BY <1>2, <1>t, <2>1 DEF Destroy, ControlInv
  <2>2. CASE thread
    <3>1. /\ NotifyOne(Owner, "joining") /\ pc[Owner] = "alive"
          /\ signalMsgQueue' = Append(signalMsgQueue, DestroyMsg)
          /\ \A c \in Callers : pc[c] = "idle"
          /\ thread' = thread /\ sent' = sent /\ handled' = handled
      BY <1>2, <2>2 DEF Destroy
    <3>2. /\ pc'[Owner] = "joining"
          /\ \A u \in Threads \ {Owner} : pc'[u] = pc[u] \/ (pc[u] = "waiting" /\ pc'[u] = "check")
      BY <3>1, <1>t, NotifyEffect
    <3>3. QED
      BY <2>2, <3>1, <3>2, <1>t DEF ControlInv
  <2>3. QED
    BY <2>1, <2>2
<1>3. CASE Join
  BY <1>3, <1>t DEF Join, Goto, ControlInv
<1>4. ASSUME NEW c \in Callers, NEW sig \in Signals, NEW w \in BOOLEAN,
             CanCall(c), SendMsg(c, sig, w)
      PROVE  ControlInv'
  <2>1. NewMsg(c, sig, w) # DestroyMsg
    BY <1>4, SendMsgEffect, MessageFacts
  <2>2. CASE ~thread
    BY <1>4, <1>t, <2>2, SendMsgEffect DEF ControlInv
  <2>3. CASE thread
    <3>1. /\ pc[Owner] = "alive" /\ thread' = thread
          /\ thread => /\ pc' = [pc EXCEPT ![c] = "notify"]
                       /\ signalMsgQueue' = Append(signalMsgQueue, NewMsg(c, sig, w))
      BY <1>4, SendMsgEffect
    <3>2. QED
      BY <2>1, <2>3, <3>1, <1>t DEF ControlInv
  <2>4. QED
    BY <2>2, <2>3
<1>5. ASSUME NEW c \in Callers, SendNotify(c)
      PROVE  ControlInv'
  <2>1. /\ NotifyOne(c, IF lastMsg[c].wait THEN "check" ELSE "idle")
        /\ pc[c] = "notify"
        /\ UNCHANGED <<thread, signalMsgQueue, sent, handled>>
    BY <1>5 DEF SendNotify
  <2>2. \A u \in Threads \ {c} : pc'[u] = pc[u] \/ (pc[u] = "waiting" /\ pc'[u] = "check")
    BY <2>1, <1>t, NotifyEffect
  <2>3. QED
    BY <2>1, <2>2, <1>t DEF ControlInv
<1>6. ASSUME NEW c \in Callers, SyncReturn(c) \/ SyncBlock(c)
      PROVE  ControlInv'
  BY <1>6, <1>t DEF SyncReturn, SyncBlock, Goto, ControlInv
<1>7. CASE WorkerBlock
  BY <1>7, <1>t DEF WorkerBlock, Goto, ControlInv
<1>8. CASE WorkerTake
  <2>1. /\ signalMsgQueue # <<>> /\ pc[Worker] = "check"
        /\ signalMsgQueue' = Tail(signalMsgQueue)
        /\ UNCHANGED <<thread, sent, handled>>
        /\ \A t \in Threads \ {Worker} : pc'[t] = pc[t]
    BY <1>8, <1>t DEF WorkerTake, Goto
  <2>2. /\ Head(signalMsgQueue) = signalMsgQueue[1]
        /\ signalMsgQueue[1] \in Message \cup {DestroyMsg}
        /\ Len(signalMsgQueue) \in Nat \ {0}
    BY <1>t, <2>1
  <2>q. \A i \in 1..Len(signalMsgQueue) :
          signalMsgQueue[i] = DestroyMsg => pc[Owner] = "joining" /\ i = Len(signalMsgQueue)
    BY DEF ControlInv
  <2>3. CASE signalMsgQueue[1] = DestroyMsg
    <3>1. pc'[Worker] = "exited"
      BY <1>8, <1>t, <2>2, <2>3, MessageFacts DEF WorkerTake, Goto
    <3>2. Len(signalMsgQueue) = 1 /\ pc[Owner] = "joining"
      <4>1. 1 \in 1..Len(signalMsgQueue)
        BY <2>2
      <4>2. QED
        BY <2>3, <2>q, <4>1
    <3>3. signalMsgQueue' = <<>>
      BY <1>t, <2>1, <3>2
    <3>4. QED
      BY <1>t, <2>1, <3>1, <3>2, <3>3 DEF ControlInv
  <2>4. CASE signalMsgQueue[1] # DestroyMsg
    <3>1. pc'[Worker] = "running"
      BY <1>8, <1>t, <2>2, <2>4, MessageFacts DEF WorkerTake, Goto
    <3>2. /\ Len(signalMsgQueue') = Len(signalMsgQueue) - 1
          /\ \A i \in 1..Len(signalMsgQueue') : signalMsgQueue'[i] = signalMsgQueue[i+1]
      BY <1>t, <2>1
    <3>3. pc[Owner] = "joining" => /\ signalMsgQueue[Len(signalMsgQueue)] = DestroyMsg
                                   /\ Len(signalMsgQueue) > 1
      BY <2>1, <2>2, <2>4 DEF ControlInv
    <3>o. pc'[Owner] = pc[Owner]
      BY <2>1
    <3>4. \A i \in 1..Len(signalMsgQueue') : signalMsgQueue'[i] = DestroyMsg
             => pc'[Owner] = "joining" /\ i = Len(signalMsgQueue')
      BY <2>2, <2>q, <3>2, <3>o
    <3>5. pc'[Owner] = "joining"
             => signalMsgQueue' # <<>> /\ signalMsgQueue'[Len(signalMsgQueue')] = DestroyMsg
      <4>1. SUFFICES ASSUME pc[Owner] = "joining"
                     PROVE  signalMsgQueue' # <<>> /\ signalMsgQueue'[Len(signalMsgQueue')] = DestroyMsg
        BY <3>o
      <4>2. Len(signalMsgQueue') \in 1..Len(signalMsgQueue')
        BY <2>2, <3>2, <3>3, <4>1
      <4>3. signalMsgQueue'[Len(signalMsgQueue')] = signalMsgQueue[Len(signalMsgQueue)]
        BY <2>2, <3>2, <4>2
      <4>4. QED
        BY <3>3, <4>1, <4>2, <4>3
    <3>6. QED
      BY <1>t, <2>1, <3>1, <3>4, <3>5 DEF ControlInv
  <2>5. QED
    BY <2>3, <2>4
<1>9. CASE UserCustomFunction
  BY <1>9, <1>t DEF UserCustomFunction, Goto, ControlInv
<1>10. CASE SetSyncProcessed
  <2>1. /\ NotifyOne(Worker, "check") /\ pc[Worker] = "signal"
        /\ UNCHANGED <<thread, signalMsgQueue, sent, handled>>
    BY <1>10 DEF SetSyncProcessed
  <2>2. /\ pc'[Worker] = "check"
        /\ \A u \in Threads \ {Worker} : pc'[u] = pc[u] \/ (pc[u] = "waiting" /\ pc'[u] = "check")
    BY <2>1, <1>t, NotifyEffect
  <2>3. QED
    BY <2>1, <2>2, <1>t DEF ControlInv
<1>11. ASSUME NEW t \in Threads, SpuriousWakeup(t)
       PROVE  ControlInv'
  BY <1>11, <1>t DEF SpuriousWakeup, Goto, ControlInv
<1>12. CASE UNCHANGED vars
  BY <1>12 DEF vars, ControlInv
<1>13. QED
  BY <1>1, <1>2, <1>3, <1>4, <1>5, <1>6, <1>7, <1>8, <1>9, <1>10, <1>11, <1>12
     DEF Next, SendSlotFuncAsyncRunMsg, SendSlotFuncSyncRunMsg, CallerStep,
         WorkerStep, Terminated

(* A queue whose first n messages are numbered from b + 1 keeps them so    *)
(* when a message is appended, one more if the new one carries the next    *)
(* number, and one less, from b + 2, when its front is removed.            *)
Numbered(q, n, b) == \A i \in 1..n : q[i].id = b + i

LEMMA AppendNumbered ==
  ASSUME NEW S, NEW q \in Seq(S), NEW m \in S, NEW b \in Nat, NEW n \in Nat,
         n <= Len(q), Numbered(q, n, b)
  PROVE  /\ Numbered(Append(q, m), n, b)
         /\ n = Len(q) /\ m.id = b + n + 1 => Numbered(Append(q, m), n + 1, b)
<1>1. ASSUME NEW i \in 1..n PROVE Append(q, m)[i].id = b + i
  <2>1. i \in 1..Len(q)
    BY <1>1
  <2>2. QED
    BY <2>1 DEF Numbered
<1>2. ASSUME n = Len(q), m.id = b + n + 1, NEW i \in 1..(n + 1)
      PROVE  Append(q, m)[i].id = b + i
  <2>1. CASE i \in 1..n
    BY <1>1, <2>1
  <2>2. CASE i = n + 1
    BY <1>2, <2>2
  <2>3. QED
    BY <2>1, <2>2
<1>3. QED
  BY <1>1, <1>2 DEF Numbered

(* The same when the whole queue is numbered.                              *)
LEMMA AppendNext ==
  ASSUME NEW S, NEW q \in Seq(S), NEW m \in S, NEW b \in Nat,
         Numbered(q, Len(q), b), m.id = b + Len(q) + 1
  PROVE  Numbered(Append(q, m), Len(q) + 1, b)
<1>1. Len(q) \in Nat /\ Len(q) <= Len(q)
  OBVIOUS
<1>2. QED
  BY <1>1, AppendNumbered

LEMMA TailNumbered ==
  ASSUME NEW S, NEW q \in Seq(S), NEW b \in Nat, NEW n \in Nat,
         0 < n, n <= Len(q), Numbered(q, n, b)
  PROVE  Head(q).id = b + 1 /\ Numbered(Tail(q), n - 1, b + 1)
<1>1. Head(q) = q[1] /\ 1 \in 1..n
  OBVIOUS
<1>2. ASSUME NEW i \in 1..(n - 1) PROVE Tail(q)[i].id = b + 1 + i
  <2>1. Tail(q)[i] = q[i + 1] /\ i + 1 \in 1..n
    OBVIOUS
  <2>2. q[i + 1].id = b + (i + 1)
    BY <2>1 DEF Numbered
  <2>3. QED
    BY <2>1, <2>2
<1>3. QED
  BY <1>1, <1>2 DEF Numbered

(* FIFO speaks of the control states only through "running" and closing.   *)
Closing == pc[Owner] = "joining" /\ pc[Worker] # "exited"

LEMMA FIFOFrame ==
  ASSUME FIFO, UNCHANGED <<signalMsgQueue, signalMsg, sent, handled>>,
         pc'[Worker] = "running" <=> pc[Worker] = "running",
         Closing' <=> Closing
  PROVE  FIFO'
BY DEF FIFO, Closing

(* FIFO, with its local definitions expanded, when no slot is running and  *)
(* when one is.                                                            *)
FIFOIdle ==
  /\ \A i \in 1..Len(handled) : handled[i] = i
  /\ Numbered(signalMsgQueue, sent - Len(handled), Len(handled))
  /\ Len(handled) + Len(signalMsgQueue) = sent + (IF Closing THEN 1 ELSE 0)

FIFORunning ==
  /\ \A i \in 1..Len(handled) : handled[i] = i
  /\ signalMsg.id = Len(handled) + 1
  /\ Numbered(signalMsgQueue, sent - Len(handled) - 1, Len(handled) + 1)
  /\ Len(handled) + 1 + Len(signalMsgQueue) = sent + (IF Closing THEN 1 ELSE 0)

LEMMA FIFOForms ==
  ASSUME sent \in Nat, Len(handled) \in Nat
  PROVE  /\ pc[Worker] # "running" => (FIFO <=> FIFOIdle)
         /\ pc[Worker] = "running" => (FIFO <=> FIFORunning)
<1>1. ASSUME pc[Worker] # "running" PROVE FIFO <=> FIFOIdle
  BY <1>1 DEF FIFO, FIFOIdle, Closing, Numbered
<1>2. ASSUME pc[Worker] = "running" PROVE FIFO <=> FIFORunning
  BY <1>2 DEF FIFO, FIFORunning, Closing, Numbered
<1>3. QED
  BY <1>1, <1>2

LEMMA FIFOInit == Init => ControlInv /\ FIFO
<1> SUFFICES ASSUME Init PROVE ControlInv /\ FIFO
  OBVIOUS
<1>1. /\ pc[Owner] = "constructing" /\ pc[Worker] = "absent" /\ ~thread
      /\ signalMsgQueue = <<>> /\ handled = <<>> /\ sent = 0
      /\ \A c \in Callers : pc[c] = "idle"
  BY ThreadBaseAssumption DEF Init, Threads
<1>2. QED
  BY <1>1 DEF ControlInv, FIFO

LEMMA FIFOStep ==
  TypeInv /\ TypeInv' /\ ControlInv /\ FIFO /\ [Next]_vars => FIFO'
<1> SUFFICES ASSUME TypeInv, TypeInv', ControlInv, FIFO, [Next]_vars
             PROVE  FIFO'
  OBVIOUS
<1> USE ThreadBaseAssumption DEF States, Threads, CallerStates, WorkerStates, OwnerStates
<1>t. /\ pc \in [Threads -> States] /\ pc[Worker] \in WorkerStates /\ pc[Owner] \in OwnerStates
      /\ signalMsgQueue \in Seq(Message \cup {DestroyMsg})
      /\ \A c \in Callers : pc[c] \in CallerStates
      /\ handled \in Seq(1..MaxSends) /\ Len(handled) \in Nat
      /\ sent \in Nat /\ Len(signalMsgQueue) \in Nat
      /\ sent' \in Nat /\ Len(handled') \in Nat /\ Len(signalMsgQueue') \in Nat
  BY DEF TypeInv, TypeOK
<1>n. /\ sent \in Nat /\ Len(handled) \in Nat /\ Len(signalMsgQueue) \in Nat
      /\ Len(signalMsgQueue') \in Nat
  BY <1>t
<1>i. pc[Worker] # "running" => FIFOIdle
  BY <1>t, FIFOForms
<1>r. pc[Worker] = "running" => FIFORunning
  BY <1>t, FIFOForms
<1>j. pc'[Worker] # "running" /\ FIFOIdle' => FIFO'
  BY <1>t DEF FIFO, FIFOIdle, Closing, Numbered
<1>s. pc'[Worker] = "running" /\ FIFORunning' => FIFO'
  BY <1>t DEF FIFO, FIFORunning, Closing, Numbered
<1>1. CASE CreateThread
  BY <1>1, <1>t, FIFOFrame DEF CreateThread, Closing, ControlInv
<1>2. CASE Destroy
  <2>1. CASE ~thread
    BY <1>2, <1>t, <2>1, FIFOFrame DEF Destroy, ControlInv, Closing
  <2>2. CASE thread
    <3>1. /\ NotifyOne(Owner, "joining") /\ pc[Owner] = "alive"
          /\ signalMsgQueue' = Append(signalMsgQueue, DestroyMsg)
          /\ UNCHANGED <<signalMsg, sent, handled>>
      BY <1>2, <2>2 DEF Destroy
    <3>2. /\ pc'[Owner] = "joining"
          /\ pc'[Worker] = pc[Worker] \/ (pc[Worker] = "waiting" /\ pc'[Worker] = "check")
      BY <3>1, <1>t, NotifyEffect
    <3>3. pc[Worker] # "exited"
      BY <3>1 DEF ControlInv
    <3>4. ~Closing /\ Closing'
      BY <3>1, <3>2, <3>3 DEF Closing
    <3>5. Len(signalMsgQueue') = Len(signalMsgQueue) + 1
      BY <3>1, <1>t
    <3>6. CASE pc[Worker] = "running"
      <4>1. Len(handled) + 1 + Len(signalMsgQueue) = sent
        BY <3>4, <3>6, <1>r, <1>t DEF FIFORunning
      <4>2. Numbered(signalMsgQueue', sent - Len(handled) - 1, Len(handled) + 1)
        BY <3>1, <3>6, <4>1, <1>r, <1>t, AppendNumbered DEF FIFORunning
      <4>3. Len(handled) + 1 + Len(signalMsgQueue') = sent + 1
        BY <3>5, <4>1, <1>n
      <4>4. FIFORunning'
        BY <3>1, <3>4, <3>6, <4>2, <4>3, <1>r DEF FIFORunning
      <4>5. QED
        BY <4>4, <3>2, <3>6, <1>s
    <3>7. CASE pc[Worker] # "running"
      <4>1. Len(handled) + Len(signalMsgQueue) = sent
        BY <3>4, <3>7, <1>i, <1>t DEF FIFOIdle
      <4>2. Numbered(signalMsgQueue', sent - Len(handled), Len(handled))
        BY <3>1, <3>7, <4>1, <1>i, <1>t, AppendNumbered DEF FIFOIdle
      <4>3. Len(handled) + Len(signalMsgQueue') = sent + 1
        BY <3>5, <4>1, <1>n
      <4>4. FIFOIdle'
        BY <3>1, <3>4, <3>7, <4>2, <4>3, <1>i DEF FIFOIdle
      <4>5. QED
        BY <4>4, <3>2, <3>7, <1>j
    <3>8. QED
      BY <3>6, <3>7
  <2>3. QED
    BY <2>1, <2>2
<1>3. CASE Join
  BY <1>3, <1>t, FIFOFrame DEF Join, Goto, Closing
<1>4. ASSUME NEW c \in Callers, NEW sig \in Signals, NEW w \in BOOLEAN,
             CanCall(c), SendMsg(c, sig, w)
      PROVE  FIFO'
  <2>1. /\ pc[Owner] = "alive" /\ signalMsg' = signalMsg /\ handled' = handled
        /\ pc'[Owner] = pc[Owner] /\ pc'[Worker] = pc[Worker]
    BY <1>4, <1>t, SendMsgEffect
  <2>2. CASE ~thread
    BY <1>4, <1>t, <2>1, <2>2, SendMsgEffect, FIFOFrame DEF Closing
  <2>3. CASE thread
    <3> DEFINE m == NewMsg(c, sig, w)
    <3>1. m \in Message /\ m.id = sent + 1
      BY <1>4, SendMsgEffect
    <3>2. sent' = sent + 1 /\ signalMsgQueue' = Append(signalMsgQueue, m)
      BY <1>4, <2>3, Zenon DEF SendMsg
    <3>3. ~Closing /\ ~Closing'
      BY <2>1 DEF Closing
    <3> HIDE DEF m
    <3>4. Len(signalMsgQueue') = Len(signalMsgQueue) + 1
      BY <3>1, <3>2, <1>t
    <3>5. CASE pc[Worker] = "running"
      <4>1. Len(handled) + 1 + Len(signalMsgQueue) = sent
        BY <3>3, <3>5, <1>r, <1>t DEF FIFORunning
      <4>2. Numbered(signalMsgQueue', Len(signalMsgQueue) + 1, Len(handled) + 1)
        <5>1. Numbered(signalMsgQueue, Len(signalMsgQueue), Len(handled) + 1)
          <6>1. sent - Len(handled) - 1 = Len(signalMsgQueue)
            BY <4>1, <1>t
          <6>2. QED
            BY <3>5, <6>1, <1>r DEF FIFORunning
        <5>2. m.id = Len(handled) + 1 + Len(signalMsgQueue) + 1
          BY <3>1, <4>1
        <5>3. /\ signalMsgQueue \in Seq(Message \cup {DestroyMsg})
              /\ m \in Message \cup {DestroyMsg} /\ Len(handled) + 1 \in Nat
          BY <3>1, <1>t
        <5>4. Numbered(Append(signalMsgQueue, m), Len(signalMsgQueue) + 1, Len(handled) + 1)
          BY <5>1, <5>2, <5>3, AppendNext
        <5>5. QED
          BY <3>2, <5>4
      <4>3. Len(signalMsgQueue) + 1 = sent' - Len(handled) - 1
            /\ Len(handled) + 1 + Len(signalMsgQueue') = sent'
        BY <3>2, <3>4, <4>1, <1>n
      <4>4. FIFORunning'
        BY <2>1, <3>3, <3>5, <4>2, <4>3, <1>r, <1>t DEF FIFORunning
      <4>5. QED
        BY <4>4, <2>1, <3>5, <1>s
    <3>6. CASE pc[Worker] # "running"
      <4>1. Len(handled) + Len(signalMsgQueue) = sent
        BY <3>3, <3>6, <1>i, <1>t DEF FIFOIdle
      <4>2. Numbered(signalMsgQueue', Len(signalMsgQueue) + 1, Len(handled))
        <5>1. Numbered(signalMsgQueue, Len(signalMsgQueue), Len(handled))
          <6>1. sent - Len(handled) = Len(signalMsgQueue)
            BY <4>1, <1>t
          <6>2. QED
            BY <3>6, <6>1, <1>i DEF FIFOIdle
        <5>2. m.id = Len(handled) + Len(signalMsgQueue) + 1
          BY <3>1, <4>1
        <5>3. /\ signalMsgQueue \in Seq(Message \cup {DestroyMsg})
              /\ m \in Message \cup {DestroyMsg} /\ Len(handled) \in Nat
          BY <3>1, <1>t
        <5>4. Numbered(Append(signalMsgQueue, m), Len(signalMsgQueue) + 1, Len(handled))
          BY <5>1, <5>2, <5>3, AppendNext
        <5>5. QED
          BY <3>2, <5>4
      <4>3. Len(signalMsgQueue) + 1 = sent' - Len(handled)
            /\ Len(handled) + Len(signalMsgQueue') = sent'
        BY <3>2, <3>4, <4>1, <1>n
      <4>4. FIFOIdle'
        BY <2>1, <3>3, <3>6, <4>2, <4>3, <1>i, <1>t DEF FIFOIdle
      <4>5. QED
        BY <4>4, <2>1, <3>6, <1>j
    <3>7. QED
      BY <3>5, <3>6
  <2>4. QED
    BY <2>2, <2>3
<1>5. ASSUME NEW c \in Callers, SendNotify(c)
      PROVE  FIFO'
  <2>1. /\ NotifyOne(c, IF lastMsg[c].wait THEN "check" ELSE "idle")
        /\ pc[c] = "notify"
        /\ UNCHANGED <<signalMsgQueue, signalMsg, sent, handled>>
    BY <1>5 DEF SendNotify
  <2>2. \A u \in Threads \ {c} : pc'[u] = pc[u] \/ (pc[u] = "waiting" /\ pc'[u] = "check")
    BY <2>1, <1>t, NotifyEffect
  <2>3. QED
    BY <2>1, <2>2, <1>t, FIFOFrame DEF Closing
<1>6. ASSUME NEW c \in Callers, SyncReturn(c) \/ SyncBlock(c)
      PROVE  FIFO'
  BY <1>6, <1>t, FIFOFrame DEF SyncReturn, SyncBlock, Goto, Closing
<1>7. CASE WorkerBlock
  BY <1>7, <1>t, FIFOFrame DEF WorkerBlock, Goto, Closing
<1>8. CASE WorkerTake
  <2>1. /\ signalMsgQueue # <<>> /\ pc[Worker] = "check"
        /\ signalMsgQueue' = Tail(signalMsgQueue)
        /\ signalMsg' = Head(signalMsgQueue)
        /\ UNCHANGED <<thread, sent, handled>>
        /\ pc'[Owner] = pc[Owner]
    BY <1>8, <1>t DEF WorkerTake, Goto
  <2>2. /\ Head(signalMsgQueue) = signalMsgQueue[1]
        /\ signalMsgQueue[1] \in Message \cup {DestroyMsg}
        /\ Len(signalMsgQueue) \in Nat \ {0}
        /\ Len(signalMsgQueue') = Len(signalMsgQueue) - 1
        /\ \A i \in 1..Len(signalMsgQueue') : signalMsgQueue'[i] = signalMsgQueue[i+1]
    BY <1>t, <2>1
  <2>3. CASE signalMsgQueue[1] = DestroyMsg
    <3>1. pc'[Worker] = "exited"
      BY <1>8, <1>t, <2>2, <2>3, MessageFacts DEF WorkerTake, Goto
    <3>2. Len(signalMsgQueue) = 1 /\ pc[Owner] = "joining"
      <4>1. 1 \in 1..Len(signalMsgQueue)
        BY <2>2
      <4>2. QED
        BY <2>3, <4>1 DEF ControlInv
    <3>3. QED
      BY <1>t, <2>1, <2>2, <3>1, <3>2 DEF FIFO
  <2>4. CASE signalMsgQueue[1] # DestroyMsg
    <3>1. pc'[Worker] = "running"
      BY <1>8, <1>t, <2>2, <2>4, MessageFacts DEF WorkerTake, Goto
    <3>2. pc[Owner] = "joining" => Len(signalMsgQueue) > 1
      <4>1. pc[Owner] = "joining" => signalMsgQueue[Len(signalMsgQueue)] = DestroyMsg
        BY <2>1 DEF ControlInv
      <4>2. QED
        BY <2>2, <2>4, <4>1
    <3>3. Closing' <=> Closing
      BY <2>1, <3>1 DEF Closing
    <3>4. FIFOIdle
      BY <2>1, <1>i
    <3>5. sent - Len(handled) \in Nat \ {0} /\ sent - Len(handled) <= Len(signalMsgQueue)
      BY <2>1, <2>2, <3>2, <3>4, <1>t DEF FIFOIdle, Closing
    <3>6. /\ signalMsg'.id = Len(handled) + 1
          /\ Numbered(signalMsgQueue', sent - Len(handled) - 1, Len(handled) + 1)
      BY <2>1, <3>4, <3>5, <1>t, TailNumbered DEF FIFOIdle
    <3>7. \A b \in {0, 1} : Len(handled) + Len(signalMsgQueue) = sent + b
                            => Len(handled) + 1 + Len(signalMsgQueue') = sent + b
      <4>1. Len(signalMsgQueue') = Len(signalMsgQueue) - 1
        BY <2>2
      <4>2. QED
        BY <4>1, <1>n
    <3>8. FIFORunning'
      BY <2>1, <3>3, <3>4, <3>6, <3>7 DEF FIFOIdle, FIFORunning
    <3>9. QED
      BY <3>1, <3>8, <1>s
  <2>5. QED
    BY <2>3, <2>4
<1>9. CASE UserCustomFunction
  <2>1. /\ pc[Worker] = "running" /\ pc'[Worker] \in {"signal", "check"}
        /\ pc'[Owner] = pc[Owner]
        /\ handled' = Append(handled, signalMsg.id)
        /\ UNCHANGED <<signalMsgQueue, signalMsg, sent>>
    BY <1>9, <1>t DEF UserCustomFunction, Goto
  <2>2. FIFORunning
    BY <2>1, <1>r
  <2>3. /\ Len(handled') = Len(handled) + 1
        /\ \A i \in 1..Len(handled) : handled'[i] = handled[i]
        /\ handled'[Len(handled) + 1] = signalMsg.id
    BY <2>1, <1>t
  <2>4. \A i \in 1..Len(handled') : handled'[i] = i
    <3>1. TAKE i \in 1..Len(handled')
    <3>2. CASE i = Len(handled) + 1
      BY <2>2, <2>3, <3>2 DEF FIFORunning
    <3>3. CASE i # Len(handled) + 1
      <4>1. i \in 1..Len(handled)
        BY <2>3, <3>3, <1>t
      <4>2. QED
        BY <2>2, <2>3, <4>1 DEF FIFORunning
    <3>4. QED
      BY <3>2, <3>3
  <2>5. Closing' <=> Closing
    BY <2>1 DEF Closing
  <2>6. FIFOIdle'
    BY <2>1, <2>2, <2>3, <2>4, <2>5, <1>t DEF FIFOIdle, FIFORunning
  <2>7. QED
    BY <2>1, <2>6, <1>j
<1>10. CASE SetSyncProcessed
  <2>1. /\ NotifyOne(Worker, "check") /\ pc[Worker] = "signal"
        /\ UNCHANGED <<signalMsgQueue, signalMsg, sent, handled>>
    BY <1>10 DEF SetSyncProcessed
  <2>2. /\ pc'[Worker] = "check"
        /\ \A u \in Threads \ {Worker} : pc'[u] = pc[u] \/ (pc[u] = "waiting" /\ pc'[u] = "check")
    BY <2>1, <1>t, NotifyEffect
  <2>3. QED
    BY <2>1, <2>2, <1>t, FIFOFrame DEF Closing
<1>11. ASSUME NEW t \in Threads, SpuriousWakeup(t)
       PROVE  FIFO'
  BY <1>11, <1>t, FIFOFrame DEF SpuriousWakeup, Goto, Closing
<1>12. CASE UNCHANGED vars
  BY <1>12, FIFOFrame DEF vars, Closing
<1>13. QED
  BY <1>1, <1>2, <1>3, <1>4, <1>5, <1>6, <1>7, <1>8, <1>9, <1>10, <1>11, <1>12
     DEF Next, SendSlotFuncAsyncRunMsg, SendSlotFuncSyncRunMsg, CallerStep,
         WorkerStep, Terminated

(* Whatever the number of callers of either kind, whether or not the       *)
(* thread could be created and whoever the notifications reach: messages   *)
(* are handled once each in the order they were queued, the worker leaves  *)
(* its loop with nothing unhandled, and no message is queued for a worker  *)
(* that does not exist.                                                    *)
THEOREM QueueCorrect ==
  Spec => []FIFO /\ []DrainedBeforeExit /\ []NoOrphanedMessages
<1>1. Init => QueueInv
  BY TypeInvInit, FIFOInit DEF QueueInv
<1>2. QueueInv /\ [Next]_vars => QueueInv'
  BY TypeInvStep, ControlInvStep, FIFOStep DEF QueueInv
<1>3. QueueInv => FIFO
  BY DEF QueueInv
<1>4. QueueInv => DrainedBeforeExit
  <2>1. ASSUME QueueInv, pc[Worker] = "exited"
        PROVE  signalMsgQueue = <<>> /\ Len(handled) = sent
    <3>1. signalMsgQueue = <<>> /\ Len(handled) \in Nat /\ sent \in Nat
      BY <2>1, ThreadBaseAssumption DEF QueueInv, ControlInv, TypeInv, TypeOK
    <3>2. QED
      BY <2>1, <3>1 DEF QueueInv, FIFO
  <2>2. QED
    BY <2>1 DEF DrainedBeforeExit
<1>5. QueueInv => NoOrphanedMessages
  BY DEF QueueInv, ControlInv, NoOrphanedMessages, TypeInv, TypeOK, OwnerStates, WorkerStates
<1>6. QED
  BY <1>1, <1>2, <1>3, <1>4, <1>5, PTL DEF Spec

(* For every set of callers, whether or not a thread could be created, the *)
(* worker leaves its loop over an empty queue with every message handled,  *)
(* and nothing is queued for an object without a worker.                   *)
THEOREM QueueDrained == Spec => []NothingLeftBehind
<1>1. DrainedBeforeExit /\ NoOrphanedMessages => NothingLeftBehind
  BY DEF NothingLeftBehind
<1>2. QED
  BY <1>1, QueueCorrect, PTL

(* The usage under which a synchronous send works.                         *)
SingleSyncCaller == ~CreateCanFail /\ \A c, d \in SyncCallers : c = d

(* The predicates of ThreadBase about a message m, as functions of the     *)
(* state they look at: m is the message of a synchronous call its sender   *)
(* is still inside; the worker is not done with m; the slot of m has run.  *)
AwaitedIn(m, p, l) ==
  m.from \in Callers /\ p[m.from] # "idle" /\ l[m.from] = m /\ m # NullMsg /\ m.wait

OutIn(m, q, w, s) ==
  (\E i \in DOMAIN q : q[i] = m) \/ (w \in {"running", "signal"} /\ s = m)

DoneIn(m, h) == \E i \in DOMAIN h : h[i] = m.id

(* The synchronous messages of the system: at most one at a time is queued *)
(* or in the worker's hands, and it is the one its caller is waiting for.  *)
AwaitedInv ==
  /\ \A c \in Callers : pc[c] # "idle" => lastMsg[c] # NullMsg
  /\ \A c \in Callers : lastMsg[c] # NullMsg /\ lastMsg[c].wait => c \in SyncCallers
  /\ \A c \in Callers : pc[c] \in {"check", "waiting"} => InSyncCall(c)
  /\ \A i \in 1..Len(signalMsgQueue) :
       signalMsgQueue[i].wait => AwaitedIn(signalMsgQueue[i], pc, lastMsg)
  /\ InFlight /\ signalMsg.wait => AwaitedIn(signalMsg, pc, lastMsg)
  /\ InFlight /\ signalMsg.wait => \A i \in 1..Len(signalMsgQueue) : ~signalMsgQueue[i].wait
  /\ \A i, j \in 1..Len(signalMsgQueue) :
       signalMsgQueue[i].wait /\ signalMsgQueue[j].wait => i = j
  /\ pc[Worker] = "signal" => signalMsg.wait /\ DoneIn(signalMsg, handled)

(* What _syncProcessed means to a caller inside a synchronous send: it is  *)
(* set exactly when the worker is done with the caller's message.          *)
FlagInv ==
  \A c \in Callers : InSyncCall(c) =>
    /\ syncProcessed <=> ~OutIn(lastMsg[c], signalMsgQueue, pc[Worker], signalMsg)
    /\ syncProcessed => DoneIn(lastMsg[c], handled)

(* Who can be asleep: a caller only before its flag is set, and never      *)
(* together with the worker, so that a notification cannot go astray.      *)
SleepInv ==
  \A c \in Callers :
    /\ pc[c] = "waiting" => ~syncProcessed
    /\ pc[c] \in {"check", "waiting"} /\ pc[Worker] = "waiting" => syncProcessed

(* SyncReturnsAfterSlot in these terms.                                    *)
ReturnInv ==
  \A c \in Callers :
    pc[c] = "idle" /\ lastMsg[c] # NullMsg /\ lastMsg[c].wait => DoneIn(lastMsg[c], handled)

SyncInv ==
  /\ TypeInv /\ ControlInv
  /\ pc[Owner] = "alive" => thread
  /\ AwaitedInv /\ FlagInv /\ SleepInv
  /\ ReturnInv
  /\ NoLostWorkerWakeup

(* A step that changes neither messages nor the flag, in which no          *)
(* synchronous call begins or ends and no slot begins or ends.             *)
Quiet ==
  /\ UNCHANGED <<signalMsgQueue, signalMsg, lastMsg, handled, syncProcessed>>
  /\ \A c \in Callers : InSyncCall(c)' <=> InSyncCall(c)
  /\ \A c \in Callers : pc'[c] # "idle" => pc[c] # "idle"
  /\ \A c \in Callers : pc'[c] \in {"check", "waiting"} => InSyncCall(c)
  /\ InFlight' <=> InFlight
  /\ pc'[Worker] = "signal" => pc[Worker] = "signal"

LEMMA QuietStep ==
  AwaitedInv /\ FlagInv /\ ReturnInv /\ Quiet => AwaitedInv' /\ FlagInv' /\ ReturnInv'
<1> SUFFICES ASSUME AwaitedInv, FlagInv, ReturnInv, Quiet
             PROVE  AwaitedInv' /\ FlagInv' /\ ReturnInv'
  OBVIOUS
<1>1. /\ \A m : AwaitedIn(m, pc', lastMsg') <=> AwaitedIn(m, pc, lastMsg)
      /\ \A m : OutIn(m, signalMsgQueue, pc'[Worker], signalMsg)
               <=> OutIn(m, signalMsgQueue, pc[Worker], signalMsg)
  <2>1. ASSUME NEW m PROVE AwaitedIn(m, pc', lastMsg') <=> AwaitedIn(m, pc, lastMsg)
    <3>1. m.from \in Callers => (InSyncCall(m.from)' <=> InSyncCall(m.from))
      BY DEF Quiet
    <3>2. QED
      BY <3>1 DEF Quiet, AwaitedIn, InSyncCall
  <2>2. QED
    BY <2>1 DEF Quiet, OutIn, InFlight
<1>2. AwaitedInv'
  BY <1>1 DEF Quiet, AwaitedInv
<1>3. FlagInv'
  BY <1>1 DEF Quiet, FlagInv
<1>4. ReturnInv'
  BY <1>1 DEF Quiet, ReturnInv, InSyncCall
<1>5. QED
  BY <1>2, <1>3, <1>4

LEMMA SyncInvStep ==
  SingleSyncCaller /\ SyncInv /\ TypeInv' /\ ControlInv' /\ [Next]_vars => SyncInv'
<1> SUFFICES ASSUME SingleSyncCaller, SyncInv, TypeInv', ControlInv', [Next]_vars
             PROVE  SyncInv'
  OBVIOUS
<1> USE ThreadBaseAssumption DEF States, Threads, CallerStates, WorkerStates, OwnerStates
<1> DEFINE Alive == pc[Owner] = "alive" => thread
<1>inv. TypeInv /\ ControlInv /\ Alive /\ AwaitedInv /\ FlagInv /\ SleepInv
        /\ ReturnInv /\ NoLostWorkerWakeup
  BY DEF SyncInv
<1>goal. Alive' /\ AwaitedInv' /\ FlagInv' /\ SleepInv' /\ ReturnInv'
         /\ NoLostWorkerWakeup' => SyncInv'
  BY DEF SyncInv
<1>t. /\ pc \in [Threads -> States] /\ pc[Worker] \in WorkerStates /\ pc[Owner] \in OwnerStates
      /\ \A c \in Callers : pc[c] \in CallerStates
      /\ lastMsg \in [Callers -> Message \cup {NullMsg}]
  BY <1>inv DEF TypeInv, TypeOK
<1>q. /\ signalMsgQueue \in Seq(Message \cup {DestroyMsg})
      /\ Len(signalMsgQueue) \in Nat
  BY <1>inv DEF TypeInv, TypeOK
(* There is one synchronous caller at most.                                *)
<1>one. \A c, d \in Callers :
          InSyncCall(c) /\ d \in SyncCallers => c = d
  BY <1>inv DEF InSyncCall, AwaitedInv, SingleSyncCaller
<1>1. CASE CreateThread
  <2>1. /\ pc[Owner] = "constructing" /\ pc[Worker] = "absent"
        /\ thread' /\ pc' = [pc EXCEPT ![Owner] = "alive", ![Worker] = "check"]
        /\ UNCHANGED <<signalMsgQueue, signalMsg, lastMsg, handled, syncProcessed>>
    BY <1>1, <1>inv, Zenon DEF CreateThread, SingleSyncCaller, ControlInv
  <2>2. \A c \in Callers : pc'[c] = pc[c] /\ pc[c] = "idle"
    BY <2>1, <1>inv, <1>t DEF ControlInv
  <2>3. Quiet
    BY <2>1, <2>2, <1>t DEF Quiet, InFlight, InSyncCall
  <2>4. SleepInv' /\ NoLostWorkerWakeup'
    BY <2>1, <2>2, <1>t DEF SleepInv, NoLostWorkerWakeup
  <2>5. QED
    BY <1>goal, <1>inv, <2>1, <2>3, <2>4, QuietStep
<1>2. CASE Destroy
  <2>1. CASE ~thread
    BY <1>2, <1>inv, <2>1 DEF Destroy
  <2>2. CASE thread
    <3>1. /\ NotifyOne(Owner, "joining") /\ pc[Owner] = "alive"
          /\ signalMsgQueue' = Append(signalMsgQueue, DestroyMsg)
          /\ \A c \in Callers : pc[c] = "idle"
          /\ UNCHANGED <<signalMsg, lastMsg, handled, syncProcessed>>
      BY <1>2, <2>2 DEF Destroy
    <3>2. /\ \A c \in Callers : pc'[c] = "idle"
          /\ pc'[Owner] = "joining"
          /\ pc'[Worker] = pc[Worker] \/ (pc[Worker] = "waiting" /\ pc'[Worker] = "check")
          /\ pc[Worker] = "waiting" /\ pc'[Worker] = "waiting"
               => \E v \in Threads : v # Worker /\ pc[v] = "waiting"
      BY <3>1, <1>t, NotifyEffect
    <3>3. \A i \in 1..Len(signalMsgQueue) : ~signalMsgQueue[i].wait
      BY <3>1, <1>inv DEF AwaitedInv, AwaitedIn, InSyncCall
    <3>4. \A i \in 1..Len(signalMsgQueue') : ~signalMsgQueue'[i].wait
      BY <3>1, <3>3, <1>q, MessageFacts
    <3>5. InFlight' => ~signalMsg'.wait /\ pc'[Worker] # "signal"
      BY <3>1, <3>2, <1>inv DEF AwaitedInv, AwaitedIn, InSyncCall, InFlight
    <3>6. AwaitedInv'
      BY <3>1, <3>2, <3>4, <3>5, <1>inv DEF AwaitedInv, InFlight
    <3>7. FlagInv' /\ SleepInv' /\ ReturnInv'
      BY <3>1, <3>2, <1>inv DEF FlagInv, SleepInv, ReturnInv, InSyncCall, DoneIn
    <3>8. NoLostWorkerWakeup'
      BY <3>1, <3>2 DEF NoLostWorkerWakeup
    <3>9. QED
      BY <1>goal, <3>2, <3>6, <3>7, <3>8
  <2>3. QED
    BY <2>1, <2>2
<1>3. CASE Join
  <2>1. /\ \A c \in Callers : pc'[c] = pc[c] /\ pc[c] = "idle"
        /\ pc'[Worker] = "exited" /\ pc'[Owner] = "destroyed" /\ pc[Worker] = "exited"
        /\ UNCHANGED <<signalMsgQueue, signalMsg, lastMsg, handled, syncProcessed>>
    BY <1>3, <1>t, <1>inv DEF Join, Goto, ControlInv
  <2>2. Quiet
    BY <2>1, <1>t DEF Quiet, InFlight, InSyncCall
  <2>3. SleepInv' /\ NoLostWorkerWakeup'
    BY <2>1 DEF SleepInv, NoLostWorkerWakeup
  <2>4. QED
    BY <1>goal, <1>inv, <2>1, <2>2, <2>3, QuietStep
<1>5. ASSUME NEW c \in Callers, SendNotify(c)
      PROVE  SyncInv'
  <2>1. /\ NotifyOne(c, IF lastMsg[c].wait THEN "check" ELSE "idle")
        /\ pc[c] = "notify" /\ lastMsg[c] \in Message
        /\ thread' = thread
        /\ UNCHANGED <<signalMsgQueue, signalMsg, lastMsg, handled, syncProcessed>>
    BY <1>5, <1>inv, <1>t DEF SendNotify, AwaitedInv
  <2>2. /\ \A u \in Threads \ {c} : pc'[u] = pc[u] \/ (pc[u] = "waiting" /\ pc'[u] = "check")
        /\ pc'[c] = IF lastMsg[c].wait THEN "check" ELSE "idle"
    BY <2>1, <1>t, NotifyEffect
  <2>3. /\ pc'[Owner] = pc[Owner]
        /\ \A d \in Callers \ {c} : pc'[d] = pc[d] \/ (pc[d] = "waiting" /\ pc'[d] = "check")
    BY <2>2, <1>t
  (* The worker is the only waiter if it is one.                           *)
  <2>4. pc[Worker] = "waiting" => pc'[Worker] = "check"
    <3>1. ASSUME pc[Worker] = "waiting", pc'[Worker] # "check" PROVE FALSE
      <4>1. pc'[Worker] = "waiting"
        BY <2>2, <3>1
      <4>2. PICK v \in Threads : v # Worker /\ pc[v] = "waiting"
        BY <2>1, <3>1, <4>1, <1>t, NotifyEffect
      <4>3. v \in Callers
        BY <4>2, <1>t
      <4>4. QED
        BY <3>1, <4>2, <4>3, <1>inv DEF SleepInv
    <3>2. QED
      BY <3>1
  <2>5. Quiet
    <3>1. \A d \in Callers \ {c} : InSyncCall(d)' <=> InSyncCall(d)
      BY <2>1, <2>3 DEF InSyncCall
    <3>2. InSyncCall(c)' <=> InSyncCall(c)
      BY <2>1, <2>2, MessageFacts DEF InSyncCall
    <3>3. \A d \in Callers : pc'[d] \in {"check", "waiting"} => InSyncCall(d)
      BY <2>1, <2>2, <2>3, <1>inv, MessageFacts DEF InSyncCall, AwaitedInv
    <3>4. (InFlight' <=> InFlight) /\ (pc'[Worker] = "signal" => pc[Worker] = "signal")
      BY <2>1, <2>2 DEF InFlight
    <3>5. QED
      BY <2>1, <2>3, <3>1, <3>2, <3>3, <3>4 DEF Quiet
  <2>6. SleepInv' /\ NoLostWorkerWakeup'
    BY <2>1, <2>2, <2>3, <2>4, <1>inv DEF SleepInv, NoLostWorkerWakeup
  <2>7. QED
    BY <1>goal, <1>inv, <2>1, <2>3, <2>5, <2>6, QuietStep
<1>6. ASSUME NEW c \in Callers, SyncBlock(c)
      PROVE  SyncInv'
  <2>1. /\ ~syncProcessed /\ pc[c] = "check" /\ pc' = [pc EXCEPT ![c] = "waiting"]
        /\ thread' = thread
        /\ UNCHANGED <<signalMsgQueue, signalMsg, lastMsg, handled, syncProcessed>>
    BY <1>6, Zenon DEF SyncBlock, Goto
  <2>2. /\ pc'[Owner] = pc[Owner] /\ pc'[Worker] = pc[Worker]
        /\ pc'[c] = "waiting"
        /\ \A d \in Callers \ {c} : pc'[d] = pc[d]
    BY <2>1, <1>t
  <2>3. Quiet
    BY <2>1, <2>2, <1>inv DEF Quiet, InFlight, InSyncCall, AwaitedInv
  <2>4. SleepInv' /\ NoLostWorkerWakeup'
    BY <2>1, <2>2, <1>inv DEF SleepInv, NoLostWorkerWakeup
  <2>5. QED
    BY <1>goal, <1>inv, <2>1, <2>2, <2>3, <2>4, QuietStep
<1>7. CASE WorkerBlock
  <2>1. /\ signalMsgQueue = <<>> /\ pc[Worker] = "check"
        /\ pc' = [pc EXCEPT ![Worker] = "waiting"]
        /\ thread' = thread
        /\ UNCHANGED <<signalMsgQueue, signalMsg, lastMsg, handled, syncProcessed>>
    BY <1>7 DEF WorkerBlock, Goto
  <2>2. /\ pc'[Owner] = pc[Owner] /\ pc'[Worker] = "waiting"
        /\ \A d \in Callers : pc'[d] = pc[d]
    BY <2>1, <1>t
  <2>3. Quiet
    BY <2>1, <2>2, <1>inv DEF Quiet, InFlight, InSyncCall, AwaitedInv
  <2>4. \A d \in Callers : InSyncCall(d) => syncProcessed
    BY <2>1, <1>inv DEF FlagInv, OutIn, InFlight
  <2>5. SleepInv' /\ NoLostWorkerWakeup'
    BY <2>1, <2>2, <2>4, <1>inv DEF SleepInv, NoLostWorkerWakeup, AwaitedInv
  <2>6. QED
    BY <1>goal, <1>inv, <2>1, <2>2, <2>3, <2>5, QuietStep
<1>8. ASSUME NEW t \in Threads, SpuriousWakeup(t)
      PROVE  SyncInv'
  <2>1. /\ pc[t] = "waiting" /\ pc' = [pc EXCEPT ![t] = "check"]
        /\ thread' = thread
        /\ UNCHANGED <<signalMsgQueue, signalMsg, lastMsg, handled, syncProcessed>>
    BY <1>8 DEF SpuriousWakeup, Goto
  <2>2. /\ pc'[Owner] = pc[Owner]
        /\ pc'[Worker] = pc[Worker] \/ (pc[Worker] = "waiting" /\ pc'[Worker] = "check")
        /\ \A d \in Callers : pc'[d] = pc[d] \/ (pc[d] = "waiting" /\ pc'[d] = "check")
    BY <2>1, <1>t
  <2>3. Quiet
    BY <2>1, <2>2, <1>inv DEF Quiet, InFlight, InSyncCall, AwaitedInv
  <2>4. SleepInv' /\ NoLostWorkerWakeup'
    BY <2>1, <2>2, <1>inv DEF SleepInv, NoLostWorkerWakeup
  <2>5. QED
    BY <1>goal, <1>inv, <2>1, <2>2, <2>3, <2>4, QuietStep
<1>9. CASE UNCHANGED vars
  <2>1. Quiet
    BY <1>9, <1>inv DEF vars, Quiet, InFlight, InSyncCall, AwaitedInv
  <2>2. SleepInv' /\ NoLostWorkerWakeup' /\ Alive'
    BY <1>9, <1>inv DEF vars, SleepInv, NoLostWorkerWakeup
  <2>3. QED
    BY <1>goal, <1>inv, <2>1, <2>2, QuietStep
<1>10. ASSUME NEW c \in Callers, SyncReturn(c)
       PROVE  SyncInv'
  <2>1. /\ syncProcessed /\ pc[c] = "check" /\ pc' = [pc EXCEPT ![c] = "idle"]
        /\ thread' = thread
        /\ UNCHANGED <<signalMsgQueue, signalMsg, lastMsg, handled, syncProcessed>>
    BY <1>10, Zenon DEF SyncReturn, Goto
  <2>2. /\ pc'[Owner] = pc[Owner] /\ pc'[Worker] = pc[Worker]
        /\ pc'[c] = "idle"
        /\ \A d \in Callers \ {c} : pc'[d] = pc[d]
    BY <2>1, <1>t
  <2>3. InSyncCall(c) /\ ~OutIn(lastMsg[c], signalMsgQueue, pc[Worker], signalMsg) /\ DoneIn(lastMsg[c], handled)
    BY <2>1, <1>inv DEF AwaitedInv, FlagInv
  <2>4. \A d \in Callers \ {c} : InSyncCall(d)' <=> InSyncCall(d)
    BY <2>1, <2>2 DEF InSyncCall
  <2>5. \A i \in 1..Len(signalMsgQueue) : signalMsgQueue[i] # lastMsg[c]
    BY <2>3, <1>q DEF OutIn
  <2>6. InFlight => signalMsg # lastMsg[c]
    BY <2>3 DEF OutIn, InFlight
  <2>7. \A m : AwaitedIn(m, pc, lastMsg) /\ m # lastMsg[c] => AwaitedIn(m, pc', lastMsg')
    BY <2>1, <2>4 DEF AwaitedIn
  <2>8. AwaitedInv'
    <3>1. \A i \in 1..Len(signalMsgQueue) : signalMsgQueue[i].wait => AwaitedIn(signalMsgQueue'[i], pc', lastMsg')
      BY <2>1, <2>5, <2>7, <1>inv DEF AwaitedInv
    <3>2. InFlight /\ signalMsg.wait => AwaitedIn(signalMsg', pc', lastMsg')
      BY <2>1, <2>6, <2>7, <1>inv DEF AwaitedInv
    <3>3. InFlight' <=> InFlight
      BY <2>2 DEF InFlight
    <3>4. \A d \in Callers : pc'[d] \in {"check", "waiting"} => InSyncCall(d)'
      BY <2>2, <2>4, <1>inv DEF AwaitedInv
    <3>5. QED
      BY <2>1, <2>2, <3>1, <3>2, <3>3, <3>4, <1>inv DEF AwaitedInv, DoneIn
  <2>9. FlagInv'
    <3>1. \A m : (DoneIn(m, handled') <=> DoneIn(m, handled)) /\ (OutIn(m, signalMsgQueue', pc'[Worker], signalMsg') <=> OutIn(m, signalMsgQueue, pc[Worker], signalMsg))
      BY <2>1, <2>2 DEF DoneIn, OutIn, InFlight
    <3>2. ~InSyncCall(c)'
      BY <2>2 DEF InSyncCall
    <3>3. QED
      BY <2>1, <2>4, <3>1, <3>2, <1>inv DEF FlagInv
  <2>10. ReturnInv'
    BY <2>1, <2>2, <2>3, <1>inv DEF ReturnInv, DoneIn
  <2>11. SleepInv' /\ NoLostWorkerWakeup'
    BY <2>1, <2>2, <1>inv DEF SleepInv, NoLostWorkerWakeup
  <2>12. QED
    BY <1>goal, <1>inv, <2>1, <2>2, <2>8, <2>9, <2>10, <2>11
<1>11. ASSUME NEW c \in Callers, NEW sig \in Signals, NEW w \in BOOLEAN,
              w => c \in SyncCallers, CanCall(c), SendMsg(c, sig, w)
       PROVE  SyncInv'
  <2> DEFINE m == NewMsg(c, sig, w)
  <2>1. /\ m \in Message /\ m # NullMsg /\ m.wait = w /\ m.from = c
        /\ pc[Owner] = "alive" /\ pc[c] = "idle"
        /\ lastMsg' = [lastMsg EXCEPT ![c] = m]
    <3>1. m \in Message /\ m.wait = w /\ m.from = c
      BY <1>11, <1>inv, SendMsgEffect
    <3>2. pc[Owner] = "alive" /\ pc[c] = "idle" /\ lastMsg' = [lastMsg EXCEPT ![c] = m]
      BY <1>11, Zenon DEF CanCall, SendMsg
    <3>3. QED
      BY <3>1, <3>2, MessageFacts
  <2>2. thread
    BY <2>1, <1>inv
  <2>3. /\ pc' = [pc EXCEPT ![c] = "notify"]
        /\ signalMsgQueue' = Append(signalMsgQueue, m)
        /\ syncProcessed' = (syncProcessed /\ ~w)
        /\ signalMsg' = signalMsg /\ handled' = handled /\ thread' = thread
    BY <1>11, <2>2, Zenon DEF SendMsg
  <2> HIDE DEF m
  <2>4. /\ pc'[Owner] = pc[Owner] /\ pc'[Worker] = pc[Worker] /\ pc'[c] = "notify"
        /\ \A d \in Callers \ {c} : pc'[d] = pc[d] /\ lastMsg'[d] = lastMsg[d]
        /\ lastMsg'[c] = m
    BY <2>1, <2>3, <1>t
  <2>5. /\ Len(signalMsgQueue') = Len(signalMsgQueue) + 1
        /\ signalMsgQueue'[Len(signalMsgQueue) + 1] = m
        /\ \A i \in 1..Len(signalMsgQueue) : signalMsgQueue'[i] = signalMsgQueue[i]
    BY <2>1, <2>3, <1>q
  <2>6. ~InSyncCall(c) /\ (InSyncCall(c)' <=> w)
    BY <2>1, <2>4 DEF InSyncCall
  <2>7. \A d \in Callers \ {c} : InSyncCall(d)' <=> InSyncCall(d)
    BY <2>4 DEF InSyncCall
  (* A synchronous caller that is about to send is alone.                  *)
  <2>8. w => \A d \in Callers : ~InSyncCall(d)
    BY <2>6, <1>one, <1>11
  <2>9. \A x : AwaitedIn(x, pc, lastMsg) => AwaitedIn(x, pc', lastMsg')
    BY <2>4, <2>6 DEF AwaitedIn, InSyncCall
  <2>10. w => AwaitedIn(m, pc', lastMsg')
    BY <2>1, <2>4, <2>6 DEF AwaitedIn
  <2>11. w => /\ \A i \in 1..Len(signalMsgQueue) : ~signalMsgQueue[i].wait
              /\ ~(InFlight /\ signalMsg.wait)
    BY <2>8, <1>inv DEF AwaitedInv, AwaitedIn, InSyncCall
  <2>12. InFlight' <=> InFlight
    BY <2>4 DEF InFlight
  <2>13. \A i \in 1..Len(signalMsgQueue') :
           i \in 1..Len(signalMsgQueue) \/ i = Len(signalMsgQueue) + 1
    BY <2>5, <1>q
  <2>14. AwaitedInv'
    <3>1. /\ \A d \in Callers : pc'[d] # "idle" => lastMsg'[d] # NullMsg
          /\ \A d \in Callers : lastMsg'[d] # NullMsg /\ lastMsg'[d].wait => d \in SyncCallers
      BY <2>1, <2>4, <1>11, <1>inv DEF AwaitedInv
    <3>2. \A d \in Callers : pc'[d] \in {"check", "waiting"} => InSyncCall(d)'
      BY <2>4, <2>7, <1>inv DEF AwaitedInv
    <3>3. ASSUME NEW i \in 1..Len(signalMsgQueue'), signalMsgQueue'[i].wait
          PROVE  AwaitedIn(signalMsgQueue'[i], pc', lastMsg')
      <4>1. CASE i \in 1..Len(signalMsgQueue)
        <5>1. AwaitedIn(signalMsgQueue[i], pc, lastMsg)
          BY <2>5, <3>3, <4>1, <1>inv DEF AwaitedInv
        <5>2. AwaitedIn(signalMsgQueue'[i], pc', lastMsg') <=> AwaitedIn(signalMsgQueue'[i], pc', lastMsg')
          BY <2>5, <4>1 DEF AwaitedIn
        <5>3. \A x : x = signalMsgQueue[i] => AwaitedIn(x, pc', lastMsg')
          BY <2>9, <5>1
        <5>4. QED
          BY <2>5, <4>1, <5>3
      <4>2. CASE i = Len(signalMsgQueue) + 1
        BY <2>1, <2>5, <2>10, <3>3, <4>2
      <4>3. QED
        BY <2>13, <4>1, <4>2
    <3>4. InFlight' /\ signalMsg'.wait
            => AwaitedIn(signalMsg', pc', lastMsg') /\ \A i \in 1..Len(signalMsgQueue') : ~signalMsgQueue'[i].wait
      BY <2>1, <2>3, <2>5, <2>9, <2>11, <2>12, <2>13, <1>inv DEF AwaitedInv
    <3>5. \A i, j \in 1..Len(signalMsgQueue') :
            signalMsgQueue'[i].wait /\ signalMsgQueue'[j].wait => i = j
      BY <2>1, <2>5, <2>11, <2>13, <1>inv DEF AwaitedInv
    <3>6. pc'[Worker] = "signal" => signalMsg'.wait /\ DoneIn(signalMsg', handled')
      BY <2>3, <2>4, <1>inv DEF AwaitedInv, DoneIn
    <3>7. QED
      BY <3>1, <3>2, <3>3, <3>4, <3>5, <3>6 DEF AwaitedInv
  <2>15. FlagInv'
    <3>1. CASE w
      <4>1. ~syncProcessed'
        BY <2>3, <3>1
      <4>2. OutIn(m, signalMsgQueue', pc'[Worker], signalMsg')
        <5>1. Len(signalMsgQueue) + 1 \in DOMAIN signalMsgQueue'
          BY <2>1, <2>3, <2>5, <1>q
        <5>2. QED
          BY <2>5, <5>1 DEF OutIn
      <4>3. \A d \in Callers : InSyncCall(d)' => lastMsg'[d] = m
        BY <2>4, <2>7, <2>8, <3>1
      <4>4. \A d \in Callers : InSyncCall(d)' => OutIn(lastMsg'[d], signalMsgQueue', pc'[Worker], signalMsg')
        BY <4>2, <4>3
      <4>5. QED
        BY <4>1, <4>4 DEF FlagInv
    <3>2. CASE ~w
      <4>1. syncProcessed' <=> syncProcessed
        BY <2>3, <3>2, Zenon
      <4>2. \A x : x # m => (OutIn(x, signalMsgQueue', pc'[Worker], signalMsg') <=> OutIn(x, signalMsgQueue, pc[Worker], signalMsg))
        BY <2>1, <2>3, <2>5, <2>12, <2>13, <1>q DEF OutIn
      <4>3. ASSUME NEW d \in Callers, InSyncCall(d)'
            PROVE  d # c /\ InSyncCall(d) /\ lastMsg'[d] = lastMsg[d] /\ lastMsg[d] # m
        BY <2>1, <2>4, <2>6, <2>7, <3>2, <4>3 DEF InSyncCall
      <4>4. \A x : DoneIn(x, handled') <=> DoneIn(x, handled)
        BY <2>3 DEF DoneIn
      <4>5. QED
        BY <4>1, <4>2, <4>3, <4>4, <1>inv DEF FlagInv
    <3>3. QED
      BY <3>1, <3>2
  <2>16. ReturnInv'
    BY <2>3, <2>4, <1>inv DEF ReturnInv, DoneIn
  <2>17. SleepInv'
    <3>1. \A d \in Callers : pc[d] \in {"check", "waiting"} => ~w
      BY <2>8, <1>inv DEF AwaitedInv
    <3>2. (syncProcessed' => syncProcessed) /\ (~w /\ syncProcessed => syncProcessed')
      BY <2>3, Zenon
    <3>3. QED
      BY <2>4, <3>1, <3>2, <1>inv DEF SleepInv
  <2>18. NoLostWorkerWakeup'
    BY <2>4 DEF NoLostWorkerWakeup
  <2>19. QED
    BY <1>goal, <1>inv, <2>2, <2>3, <2>14, <2>15, <2>16, <2>17, <2>18
<1>12. CASE WorkerTake
  <2>1. /\ signalMsgQueue # <<>> /\ pc[Worker] = "check"
        /\ signalMsgQueue' = Tail(signalMsgQueue)
        /\ signalMsg' = Head(signalMsgQueue)
        /\ UNCHANGED <<thread, lastMsg, handled, syncProcessed>>
        /\ pc'[Owner] = pc[Owner]
        /\ \A d \in Callers : pc'[d] = pc[d]
        /\ pc'[Worker] \in {"exited", "running"}
        /\ pc'[Worker] = "exited" => signalMsg'.signal = DestroyThread_Signal
    BY <1>12, <1>t DEF WorkerTake, Goto
  <2>2. /\ Len(signalMsgQueue) \in Nat \ {0}
        /\ signalMsg' = signalMsgQueue[1] /\ 1 \in 1..Len(signalMsgQueue)
        /\ signalMsgQueue[1] \in Message \cup {DestroyMsg}
        /\ Len(signalMsgQueue') = Len(signalMsgQueue) - 1
        /\ \A i \in 1..Len(signalMsgQueue') :
             signalMsgQueue'[i] = signalMsgQueue[i+1] /\ i + 1 \in 1..Len(signalMsgQueue) /\ i + 1 # 1
        /\ DOMAIN signalMsgQueue = 1..Len(signalMsgQueue)
        /\ DOMAIN signalMsgQueue' = 1..Len(signalMsgQueue')
    BY <2>1, <1>q
  <2>3. /\ \A d \in Callers : InSyncCall(d)' <=> InSyncCall(d)
        /\ \A x : AwaitedIn(x, pc, lastMsg) => AwaitedIn(x, pc', lastMsg')
        /\ \A x : DoneIn(x, handled') <=> DoneIn(x, handled)
    BY <2>1 DEF InSyncCall, AwaitedIn, DoneIn
  <2>4. SleepInv' /\ NoLostWorkerWakeup' /\ ReturnInv'
    BY <2>1, <1>inv DEF SleepInv, NoLostWorkerWakeup, ReturnInv, DoneIn
  <2>5. AwaitedInv'
    <3>1. \A i \in 1..Len(signalMsgQueue') :
            signalMsgQueue'[i].wait => AwaitedIn(signalMsgQueue'[i], pc', lastMsg')
      <4>1. TAKE i \in 1..Len(signalMsgQueue')
      <4>2. signalMsgQueue[i+1].wait => AwaitedIn(signalMsgQueue[i+1], pc, lastMsg)
        BY <2>2, <1>inv DEF AwaitedInv
      <4>3. \A x : x = signalMsgQueue[i+1] /\ AwaitedIn(x, pc, lastMsg) => AwaitedIn(x, pc', lastMsg')
        BY <2>3
      <4>4. QED
        BY <2>2, <4>2, <4>3
    <3>2. InFlight' /\ signalMsg'.wait => AwaitedIn(signalMsg', pc', lastMsg')
      <4>1. signalMsgQueue[1].wait => AwaitedIn(signalMsgQueue[1], pc, lastMsg)
        BY <2>2, <1>inv DEF AwaitedInv
      <4>2. \A x : x = signalMsgQueue[1] /\ AwaitedIn(x, pc, lastMsg) => AwaitedIn(x, pc', lastMsg')
        BY <2>3
      <4>3. QED
        BY <2>2, <4>1, <4>2
    <3>3. signalMsg'.wait => \A i \in 1..Len(signalMsgQueue') : ~signalMsgQueue'[i].wait
      BY <2>2, <1>inv DEF AwaitedInv
    <3>4. \A i, j \in 1..Len(signalMsgQueue') :
            signalMsgQueue'[i].wait /\ signalMsgQueue'[j].wait => i = j
      <4>1. TAKE i, j \in 1..Len(signalMsgQueue')
      <4>2. signalMsgQueue[i+1].wait /\ signalMsgQueue[j+1].wait => i + 1 = j + 1
        BY <2>2, <1>inv DEF AwaitedInv
      <4>3. QED
        BY <2>2, <4>2
    <3>5. QED
      BY <2>1, <2>3, <3>1, <3>2, <3>3, <3>4, <1>inv DEF AwaitedInv
  <2>6. FlagInv'
    <3>1. CASE pc'[Worker] = "exited"
      <4>1. signalMsgQueue[1] = DestroyMsg
        BY <2>1, <2>2, <3>1, MessageFacts
      <4>2. pc[Owner] = "joining"
        BY <2>2, <4>1, <1>inv DEF ControlInv
      <4>3. \A d \in Callers : pc'[d] = "idle"
        BY <2>1, <4>2, <1>inv DEF ControlInv
      <4>4. QED
        BY <4>3 DEF FlagInv, InSyncCall
    <3>2. CASE pc'[Worker] = "running"
      <4>1. \A x : OutIn(x, signalMsgQueue', pc'[Worker], signalMsg') <=> OutIn(x, signalMsgQueue, pc[Worker], signalMsg)
        <5>1. ASSUME NEW x, OutIn(x, signalMsgQueue, pc[Worker], signalMsg) PROVE OutIn(x, signalMsgQueue', pc'[Worker], signalMsg')
          <6>1. PICK i \in DOMAIN signalMsgQueue : signalMsgQueue[i] = x
            BY <2>1, <5>1 DEF OutIn, InFlight
          <6>2. CASE i = 1
            BY <2>2, <3>2, <6>1, <6>2 DEF OutIn, InFlight
          <6>3. CASE i # 1
            <7>1. i - 1 \in DOMAIN signalMsgQueue' /\ (i - 1) + 1 = i
              BY <2>2, <6>1, <6>3
            <7>2. signalMsgQueue'[i - 1] = x
              BY <2>2, <6>1, <7>1
            <7>3. QED
              BY <7>1, <7>2 DEF OutIn
          <6>4. QED
            BY <6>2, <6>3
        <5>2. ASSUME NEW x, OutIn(x, signalMsgQueue', pc'[Worker], signalMsg') PROVE OutIn(x, signalMsgQueue, pc[Worker], signalMsg)
          <6>1. CASE signalMsg' = x
            BY <2>2, <6>1 DEF OutIn
          <6>2. CASE \E i \in DOMAIN signalMsgQueue' : signalMsgQueue'[i] = x
            BY <2>2, <6>2 DEF OutIn
          <6>3. QED
            BY <5>2, <6>1, <6>2 DEF OutIn
        <5>3. QED
          BY <5>1, <5>2
      <4>2. QED
        BY <2>1, <2>3, <4>1, <1>inv DEF FlagInv
    <3>3. QED
      BY <2>1, <3>1, <3>2
  <2>7. QED
    BY <1>goal, <1>inv, <2>1, <2>4, <2>5, <2>6
<1>13. CASE UserCustomFunction
  <2>1. /\ pc[Worker] = "running"
        /\ pc'[Worker] = IF signalMsg.wait THEN "signal" ELSE "check"
        /\ handled' = Append(handled, signalMsg.id)
        /\ UNCHANGED <<thread, signalMsgQueue, signalMsg, lastMsg, syncProcessed>>
        /\ pc'[Owner] = pc[Owner]
        /\ \A d \in Callers : pc'[d] = pc[d]
    BY <1>13, <1>t DEF UserCustomFunction, Goto
  <2>2. /\ handled \in Seq(1..MaxSends) /\ signalMsg \in Message
    BY <2>1, <1>inv DEF TypeInv, TypeOK, InFlight
  <2>3. /\ \A x : DoneIn(x, handled) => DoneIn(x, handled')
        /\ DoneIn(signalMsg', handled')
    <3>1. /\ DOMAIN handled = 1..Len(handled) /\ DOMAIN handled' = 1..(Len(handled) + 1)
          /\ Len(handled) \in Nat
          /\ \A i \in 1..Len(handled) : handled'[i] = handled[i]
          /\ handled'[Len(handled) + 1] = signalMsg.id
      BY <2>1, <2>2, MessageFacts
    <3>2. \A x : DoneIn(x, handled) => DoneIn(x, handled')
      BY <3>1 DEF DoneIn
    <3>3. DoneIn(signalMsg', handled')
      <4>1. Len(handled) + 1 \in DOMAIN handled'
        BY <3>1
      <4>2. QED
        BY <2>1, <3>1, <4>1 DEF DoneIn
    <3>4. QED
      BY <3>2, <3>3
  <2>4. /\ \A d \in Callers : InSyncCall(d)' <=> InSyncCall(d)
        /\ \A x : AwaitedIn(x, pc', lastMsg') <=> AwaitedIn(x, pc, lastMsg)
    BY <2>1 DEF InSyncCall, AwaitedIn
  <2>5. SleepInv' /\ NoLostWorkerWakeup'
    BY <2>1, <1>inv DEF SleepInv, NoLostWorkerWakeup
  <2>6. ReturnInv'
    BY <2>1, <2>3, <1>inv DEF ReturnInv
  <2>7. InFlight /\ (InFlight' <=> signalMsg.wait)
    BY <2>1, <2>2, MessageFacts DEF InFlight
  <2>8. AwaitedInv'
    BY <2>1, <2>3, <2>4, <2>7, <1>inv DEF AwaitedInv
  <2>9. FlagInv'
    <3>1. \A x : x.wait => (OutIn(x, signalMsgQueue', pc'[Worker], signalMsg') <=> OutIn(x, signalMsgQueue, pc[Worker], signalMsg))
      BY <2>1, <2>7 DEF OutIn
    <3>2. \A d \in Callers : InSyncCall(d) => lastMsg[d].wait
      BY DEF InSyncCall
    <3>3. QED
      BY <2>1, <2>3, <2>4, <3>1, <3>2, <1>inv DEF FlagInv
  <2>10. QED
    BY <1>goal, <1>inv, <2>1, <2>5, <2>6, <2>8, <2>9
<1>14. CASE SetSyncProcessed
  <2>1. /\ NotifyOne(Worker, "check") /\ pc[Worker] = "signal" /\ syncProcessed'
        /\ UNCHANGED <<thread, signalMsgQueue, signalMsg, lastMsg, handled>>
    BY <1>14, Zenon DEF SetSyncProcessed
  <2>2. /\ pc'[Worker] = "check"
        /\ \A u \in Threads \ {Worker} : pc'[u] = pc[u] \/ (pc[u] = "waiting" /\ pc'[u] = "check")
        /\ \A u \in Threads : pc[u] = "waiting" /\ pc'[u] = "waiting"
             => \E v \in Threads : v # u /\ pc[v] = "waiting"
    BY <2>1, <1>t, NotifyEffect
  <2>3. /\ pc'[Owner] = pc[Owner]
        /\ \A d \in Callers : pc'[d] = pc[d] \/ (pc[d] = "waiting" /\ pc'[d] = "check")
    BY <2>2, <1>t
  <2>4. /\ \A d \in Callers : InSyncCall(d)' <=> InSyncCall(d)
        /\ \A x : AwaitedIn(x, pc', lastMsg') <=> AwaitedIn(x, pc, lastMsg)
        /\ \A x : DoneIn(x, handled') <=> DoneIn(x, handled)
    BY <2>1, <2>3 DEF InSyncCall, AwaitedIn, DoneIn
  <2>5. /\ signalMsg.wait /\ DoneIn(signalMsg, handled) /\ AwaitedIn(signalMsg, pc, lastMsg)
        /\ \A i \in 1..Len(signalMsgQueue) : ~signalMsgQueue[i].wait
    BY <2>1, <1>inv DEF AwaitedInv, InFlight
  (* The caller inside a synchronous send is the one this message is from. *)
  <2>6. \A d \in Callers : InSyncCall(d) => lastMsg[d] = signalMsg
    <3>1. signalMsg.from \in SyncCallers
      BY <2>5, <1>inv DEF AwaitedIn, InSyncCall, AwaitedInv
    <3>2. QED
      BY <2>5, <3>1, <1>one DEF AwaitedIn
  <2>7. ~InFlight' /\ pc'[Worker] # "signal"
    BY <2>2 DEF InFlight
  <2>8. AwaitedInv'
    BY <2>1, <2>3, <2>4, <2>5, <2>7, <1>inv DEF AwaitedInv
  <2>9. FlagInv'
    <3>1. ~OutIn(signalMsg, signalMsgQueue', pc'[Worker], signalMsg')
      BY <2>1, <2>2, <2>5, <1>q DEF OutIn
    <3>2. \A d \in Callers : InSyncCall(d)'
            => lastMsg'[d] = signalMsg /\ DoneIn(signalMsg', handled') /\ ~OutIn(signalMsg, signalMsgQueue', pc'[Worker], signalMsg')
      BY <2>1, <2>4, <2>5, <2>6, <3>1
    <3>3. QED
      BY <2>1, <3>2 DEF FlagInv
  <2>10. SleepInv'
    <3>1. ASSUME NEW d \in Callers, pc'[d] = "waiting" PROVE FALSE
      <4>1. pc[d] = "waiting"
        BY <2>3, <3>1
      <4>2. PICK v \in Threads : v # d /\ pc[v] = "waiting"
        BY <2>2, <3>1, <4>1
      <4>3. v \in Callers
        BY <2>1, <4>2, <1>t
      <4>4. InSyncCall(d) /\ InSyncCall(v)
        BY <4>1, <4>2, <4>3, <1>inv DEF AwaitedInv
      <4>5. v \in SyncCallers
        BY <4>3, <4>4, <1>inv DEF AwaitedInv, InSyncCall
      <4>6. QED
        BY <4>2, <4>3, <4>4, <4>5, <1>one
    <3>2. QED
      BY <2>1, <2>2, <3>1 DEF SleepInv
  <2>11. NoLostWorkerWakeup' /\ ReturnInv'
    BY <2>1, <2>2, <2>3, <2>4, <1>inv DEF NoLostWorkerWakeup, ReturnInv
  <2>12. QED
    BY <1>goal, <1>inv, <2>1, <2>3, <2>8, <2>9, <2>10, <2>11
<1>15. QED
  <2>1. ASSUME NEW c \in Callers, SendSlotFuncAsyncRunMsg(c) PROVE SyncInv'
    BY <2>1, <1>11 DEF SendSlotFuncAsyncRunMsg
  <2>2. ASSUME NEW c \in SyncCallers, SendSlotFuncSyncRunMsg(c) PROVE SyncInv'
    BY <2>2, <1>11 DEF SendSlotFuncSyncRunMsg
  <2>3. QED
    BY <1>1, <1>2, <1>3, <1>5, <1>6, <1>7, <1>8, <1>9, <1>10, <1>12, <1>13, <1>14, <2>1, <2>2
       DEF Next, CallerStep, WorkerStep, Terminated

LEMMA SyncInvInit == Init => SyncInv
<1> SUFFICES ASSUME Init PROVE SyncInv
  OBVIOUS
<1>2. /\ pc[Owner] = "constructing" /\ pc[Worker] = "absent"
      /\ signalMsgQueue = <<>>
      /\ \A c \in Callers : pc[c] = "idle" /\ lastMsg[c] = NullMsg
  BY ThreadBaseAssumption DEF Init, Threads
<1>3. TypeInv /\ ControlInv
  BY TypeInvInit, FIFOInit
<1>4. QED
  BY <1>2, <1>3 DEF SyncInv, AwaitedInv, FlagInv, SleepInv, ReturnInv,
     NoLostWorkerWakeup, InSyncCall, InFlight

LEMMA SyncInvariant == SingleSyncCaller /\ Spec => []SyncInv
<1>1. SingleSyncCaller /\ SyncInv /\ [Next]_vars => SyncInv'
  BY TypeInvStep, ControlInvStep, SyncInvStep DEF SyncInv
<1>2. CASE SingleSyncCaller
  BY SyncInvInit, <1>1, <1>2, PTL DEF Spec
<1>3. QED
  BY <1>2

(* With one synchronous caller at most and a thread that could be created, *)
(* however many asynchronous senders interfere and whatever the spurious   *)
(* wakeups: SendSlotFuncSyncRunMsg returns only after its slot has run, a  *)
(* caller sleeps only while its notification is still to come, and the     *)
(* worker does not sleep over a message nobody will notify it of.  The     *)
(* runs show that with two synchronous callers this fails.                 *)
THEOREM SyncSendCorrect ==
  SingleSyncCaller /\ Spec =>
    []SyncReturnsAfterSlot /\ []NoLostCallerWakeup /\ []NoLostWorkerWakeup
<1>1. SyncInv => SyncReturnsAfterSlot /\ NoLostWorkerWakeup
  BY DEF SyncInv, ReturnInv, SyncReturnsAfterSlot, DoneIn, Handled
<1>2. SyncInv => NoLostCallerWakeup
  BY DEF SyncInv, AwaitedInv, FlagInv, SleepInv, NoLostCallerWakeup, OutIn,
     Outstanding, InFlight
<1>3. QED
  BY SyncInvariant, <1>1, <1>2, PTL

(* The parts of SyncSendCorrect by themselves: under the same condition no *)
(* notification meant for the worker is lost to a caller ...               *)
THEOREM WorkerIsWoken == SingleSyncCaller /\ Spec => []NoLostWorkerWakeup
BY SyncSendCorrect

(* ... and none meant for a caller to the worker or to another sender.     *)
THEOREM CallerIsWoken == SingleSyncCaller /\ Spec => []NoLostCallerWakeup
BY SyncSendCorrect

(* Who waits is served: the worker is awake while a caller sleeps, awake   *)
(* or about to be woken while its queue is not empty, and not asleep while *)
(* the destructor waits for it; and only a synchronous caller sleeps.      *)
Awake == pc[Worker] \in {"check", "running", "signal"}

LEMMA WaitsAreServed ==
  ASSUME SyncInv
  PROVE  /\ \A c \in Callers \ SyncCallers : pc[c] \in {"idle", "notify"}
         /\ \A c \in Callers : pc[c] = "waiting" => Awake
         /\ signalMsgQueue # <<>> => Awake \/ \E c \in Callers : pc[c] = "notify"
         /\ pc[Owner] = "joining" => Awake \/ pc[Worker] = "exited"
<1>1. /\ pc[Worker] \in WorkerStates /\ \A c \in Callers : pc[c] \in CallerStates
      /\ signalMsgQueue \in Seq(Message \cup {DestroyMsg})
  BY DEF SyncInv, TypeInv, TypeOK
<1>2. ASSUME NEW c \in Callers, pc[c] \in {"check", "waiting"} PROVE c \in SyncCallers
  BY <1>2 DEF SyncInv, AwaitedInv, InSyncCall
<1>3. pc[Worker] \in {"absent", "exited"} => signalMsgQueue = <<>>
  BY DEF SyncInv, ControlInv
<1>4. ASSUME NEW c \in Callers, pc[c] = "waiting" PROVE Awake
  <2>1. InSyncCall(c) /\ ~syncProcessed /\ pc[Worker] # "waiting"
    BY <1>4 DEF SyncInv, AwaitedInv, SleepInv
  <2>2. OutIn(lastMsg[c], signalMsgQueue, pc[Worker], signalMsg)
    BY <2>1 DEF SyncInv, FlagInv
  <2>3. signalMsgQueue # <<>> \/ pc[Worker] \in {"running", "signal"}
    BY <2>2 DEF OutIn
  <2>4. QED
    BY <1>1, <1>3, <2>1, <2>3 DEF Awake, WorkerStates
<1>5. signalMsgQueue # <<>> => Awake \/ \E c \in Callers : pc[c] = "notify"
  BY <1>1, <1>3 DEF SyncInv, NoLostWorkerWakeup, Awake, WorkerStates
<1>6. pc[Owner] = "joining" => Awake \/ pc[Worker] = "exited"
  <2>1. pc[Owner] = "joining" /\ pc[Worker] # "exited" => signalMsgQueue # <<>>
    BY DEF SyncInv, ControlInv
  <2>2. pc[Owner] = "joining" => \A c \in Callers : pc[c] = "idle"
    BY DEF SyncInv, ControlInv
  <2>3. QED
    BY <1>5, <2>1, <2>2
<1>7. QED
  BY <1>1, <1>2, <1>4, <1>5, <1>6 DEF CallerStates

-----------------------------------------------------------------------------
(* ThreadBase implements Mailbox.                                          *)

RefInv == SyncInv /\ FIFO

LEMMA RefInit == Init => Promise!Init
<1> SUFFICES ASSUME Init PROVE Promise!Init
  OBVIOUS
<1>1. /\ pc[Owner] = "constructing" /\ sent = 0 /\ handled = <<>>
      /\ \A c \in Callers : pc[c] = "idle"
  BY ThreadBaseAssumption DEF Init, Threads
<1>2. QED
  BY <1>1 DEF Promise!Init, Phase, Awaiting, InSyncCall

(* A step that moves neither the owner nor a message, and in which no call *)
(* begins or ends, is invisible.                                           *)
LEMMA Invisible ==
  ASSUME pc'[Owner] = pc[Owner], UNCHANGED <<sent, handled, lastMsg>>,
         \A c \in Callers : InSyncCall(c)' <=> InSyncCall(c)
  PROVE  UNCHANGED Promise!vars
<1>1. Phase' = Phase
  BY DEF Phase
<1>2. Awaiting' = Awaiting
  BY DEF Awaiting
<1>3. QED
  BY <1>1, <1>2 DEF Promise!vars

LEMMA RefStep ==
  SingleSyncCaller /\ RefInv /\ RefInv' /\ [Next]_vars => [Promise!Next]_(Promise!vars)
<1> SUFFICES ASSUME SingleSyncCaller, RefInv, RefInv', [Next]_vars
             PROVE  [Promise!Next]_(Promise!vars)
  OBVIOUS
<1> USE ThreadBaseAssumption DEF States, Threads, CallerStates, WorkerStates, OwnerStates
<1>inv. TypeInv /\ ControlInv /\ AwaitedInv /\ FlagInv /\ FIFO
        /\ (pc[Owner] = "alive" => thread)
  BY DEF RefInv, SyncInv
<1>t. /\ pc \in [Threads -> States] /\ pc[Worker] \in WorkerStates /\ pc[Owner] \in OwnerStates
      /\ \A c \in Callers : pc[c] \in CallerStates
      /\ lastMsg \in [Callers -> Message \cup {NullMsg}]
      /\ signalMsgQueue \in Seq(Message \cup {DestroyMsg})
      /\ handled \in Seq(1..MaxSends)
  BY <1>inv DEF TypeInv, TypeOK
<1>n. sent \in Nat /\ Len(handled) \in Nat /\ Len(signalMsgQueue) \in Nat
  BY <1>inv DEF TypeInv, TypeOK
<1>idle. ASSUME NEW c \in Callers, pc[c] = "idle" PROVE Awaiting[c] = 0
  BY <1>idle DEF Awaiting, InSyncCall
<1>1. CASE CreateThread
  <2>1. /\ pc[Owner] = "constructing" /\ pc'[Owner] = "alive"
        /\ \A c \in Callers : pc'[c] = pc[c]
        /\ UNCHANGED <<sent, handled, lastMsg>>
    BY <1>1, <1>t DEF CreateThread
  <2>2. Phase = "new" /\ Phase' = "open" /\ Awaiting' = Awaiting
    BY <2>1 DEF Phase, Awaiting, InSyncCall
  <2>3. QED
    BY <2>1, <2>2 DEF Promise!Next, Promise!Open
<1>2. CASE Destroy
  <2>1. /\ NotifyOne(Owner, "joining") /\ pc[Owner] = "alive"
        /\ \A c \in Callers : pc[c] = "idle"
        /\ UNCHANGED <<sent, handled, lastMsg>>
    BY <1>2, <1>inv DEF Destroy
  <2>2. pc'[Owner] = "joining" /\ \A c \in Callers : pc'[c] = "idle"
    BY <2>1, <1>t, NotifyEffect
  <2>3. Phase = "open" /\ Phase' = "closing" /\ Awaiting' = Awaiting
    BY <2>1, <2>2 DEF Phase, Awaiting, InSyncCall
  <2>4. QED
    BY <2>1, <2>3, <1>idle DEF Promise!Next, Promise!Close
<1>3. CASE Join
  <2>1. /\ pc[Worker] = "exited" /\ pc[Owner] = "joining" /\ pc'[Owner] = "destroyed"
        /\ \A c \in Callers : pc'[c] = pc[c]
        /\ UNCHANGED <<sent, handled, lastMsg>>
    BY <1>3, <1>t DEF Join, Goto
  <2>2. Phase = "closing" /\ Phase' = "closed" /\ Awaiting' = Awaiting
    BY <2>1 DEF Phase, Awaiting, InSyncCall
  <2>3. Len(handled) = sent
    <3>1. signalMsgQueue = <<>>
      BY <2>1, <1>inv DEF ControlInv
    <3>2. QED
      BY <2>1, <3>1, <1>inv, <1>n DEF FIFO
  <2>4. QED
    BY <2>1, <2>2, <2>3 DEF Promise!Next, Promise!Closed
<1>4. ASSUME NEW c \in Callers, NEW sig \in Signals, NEW w \in BOOLEAN,
             CanCall(c), SendMsg(c, sig, w)
      PROVE  Promise!Next
  <2> DEFINE m == NewMsg(c, sig, w)
  <2>1. m \in Message /\ m.wait = w /\ m.id = sent + 1 /\ m # NullMsg
    BY <1>4, <1>inv, SendMsgEffect, MessageFacts
  <2>2. pc[Owner] = "alive" /\ pc[c] = "idle" /\ lastMsg' = [lastMsg EXCEPT ![c] = m]
    BY <1>4, Zenon DEF CanCall, SendMsg
  <2>3. thread
    BY <2>2, <1>inv
  <2>4. pc' = [pc EXCEPT ![c] = "notify"] /\ sent' = sent + 1 /\ handled' = handled
    BY <1>4, <2>3, Zenon DEF SendMsg
  <2> HIDE DEF m
  <2>5. Phase = "open" /\ Phase' = Phase
    BY <2>2, <2>4, <1>t DEF Phase
  <2>6. /\ InSyncCall(c)' <=> w
        /\ lastMsg'[c] = m
        /\ \A d \in Callers \ {c} : (InSyncCall(d)' <=> InSyncCall(d)) /\ lastMsg'[d] = lastMsg[d]
    BY <2>1, <2>2, <2>4, <1>t DEF InSyncCall
  <2>7. CASE w
    <3>1. Awaiting' = [Awaiting EXCEPT ![c] = sent + 1]
      BY <2>1, <2>6, <2>7 DEF Awaiting
    <3>2. Promise!PostAndWait(c)
      BY <2>2, <2>4, <2>5, <3>1, <1>idle DEF Promise!PostAndWait
    <3>3. QED
      BY <3>2 DEF Promise!Next
  <2>8. CASE ~w
    <3>1. Awaiting' = Awaiting
      BY <2>2, <2>6, <2>8 DEF Awaiting, InSyncCall
    <3>2. Promise!Post(c)
      BY <2>2, <2>4, <2>5, <3>1, <1>idle DEF Promise!Post
    <3>3. QED
      BY <3>2 DEF Promise!Next
  <2>9. QED
    BY <2>7, <2>8
<1>5. ASSUME NEW c \in Callers, SendNotify(c)
      PROVE  UNCHANGED Promise!vars
  <2>1. /\ NotifyOne(c, IF lastMsg[c].wait THEN "check" ELSE "idle")
        /\ pc[c] = "notify" /\ lastMsg[c] \in Message
        /\ UNCHANGED <<sent, handled, lastMsg>>
    BY <1>5, <1>inv, <1>t DEF SendNotify, AwaitedInv
  <2>2. /\ \A u \in Threads \ {c} : pc'[u] = pc[u] \/ (pc[u] = "waiting" /\ pc'[u] = "check")
        /\ pc'[c] = IF lastMsg[c].wait THEN "check" ELSE "idle"
    BY <2>1, <1>t, NotifyEffect
  <2>3. pc'[Owner] = pc[Owner]
    BY <2>2, <1>t
  <2>4. \A d \in Callers : InSyncCall(d)' <=> InSyncCall(d)
    BY <2>1, <2>2, MessageFacts DEF InSyncCall
  <2>5. QED
    BY <2>1, <2>3, <2>4, Invisible
<1>6. ASSUME NEW c \in Callers, SyncReturn(c)
      PROVE  Promise!Next
  <2>1. /\ syncProcessed /\ pc[c] = "check" /\ pc' = [pc EXCEPT ![c] = "idle"]
        /\ UNCHANGED <<sent, handled, lastMsg>>
    BY <1>6, Zenon DEF SyncReturn, Goto
  <2>2. InSyncCall(c) /\ DoneIn(lastMsg[c], handled)
    BY <2>1, <1>inv DEF AwaitedInv, FlagInv
  <2>3. lastMsg[c] \in Message
    BY <2>2, <1>t DEF InSyncCall
  <2>4. Phase' = Phase
    BY <2>1, <1>t DEF Phase
  <2>5. Awaiting[c] = lastMsg[c].id /\ Awaiting[c] # 0
    BY <2>2, <2>3, MessageFacts DEF Awaiting
  <2>6. lastMsg[c].id <= Len(handled)
    <3>1. PICK i \in 1..Len(handled) : handled[i] = lastMsg[c].id
      BY <2>2, <1>t DEF DoneIn
    <3>2. handled[i] = i
      BY <1>inv DEF FIFO
    <3>3. QED
      BY <3>1, <3>2, <1>n
  <2>7. Awaiting' = [Awaiting EXCEPT ![c] = 0]
    <3>1. ~InSyncCall(c)' /\ \A d \in Callers \ {c} : InSyncCall(d)' <=> InSyncCall(d)
      BY <2>1, <1>t DEF InSyncCall
    <3>2. QED
      BY <2>1, <3>1 DEF Awaiting
  <2>8. Promise!Return(c)
    BY <2>1, <2>4, <2>5, <2>6, <2>7 DEF Promise!Return
  <2>9. QED
    BY <2>8 DEF Promise!Next
<1>7. ASSUME NEW c \in Callers, SyncBlock(c)
      PROVE  UNCHANGED Promise!vars
  <2>1. /\ pc'[Owner] = pc[Owner] /\ UNCHANGED <<sent, handled, lastMsg>>
        /\ \A d \in Callers : pc'[d] = pc[d] \/ (pc[d] = "check" /\ pc'[d] = "waiting")
    BY <1>7, <1>t DEF SyncBlock, Goto
  <2>2. QED
    BY <2>1, Invisible DEF InSyncCall
<1>8. CASE WorkerBlock \/ WorkerTake
  <2>1. /\ pc'[Owner] = pc[Owner] /\ UNCHANGED <<sent, handled, lastMsg>>
        /\ \A d \in Callers : pc'[d] = pc[d]
    BY <1>8, <1>t DEF WorkerBlock, WorkerTake, Goto
  <2>2. UNCHANGED Promise!vars
    BY <2>1, Invisible DEF InSyncCall
  <2>3. QED
    BY <2>2
<1>9. CASE UserCustomFunction
  <2>1. /\ pc[Worker] = "running" /\ pc'[Owner] = pc[Owner]
        /\ \A d \in Callers : pc'[d] = pc[d]
        /\ handled' = Append(handled, signalMsg.id) /\ UNCHANGED <<sent, lastMsg>>
    BY <1>9, <1>t DEF UserCustomFunction, Goto
  <2>2. FIFORunning
    BY <2>1, <1>inv, <1>n, FIFOForms
  <2>3. Closing => Len(signalMsgQueue) > 0
    BY <1>inv, <1>t DEF ControlInv, Closing
  <2>4. Len(handled) < sent
    BY <2>2, <2>3, <1>n DEF FIFORunning
  <2>5. Phase' = Phase /\ Awaiting' = Awaiting
    BY <2>1 DEF Phase, Awaiting, InSyncCall
  <2>6. handled' = Append(handled, Len(handled) + 1)
    BY <2>1, <2>2 DEF FIFORunning
  <2>7. QED
    BY <2>1, <2>4, <2>5, <2>6 DEF Promise!Next, Promise!Handle
<1>10. CASE SetSyncProcessed
  <2>1. /\ NotifyOne(Worker, "check") /\ pc[Worker] = "signal"
        /\ UNCHANGED <<sent, handled, lastMsg>>
    BY <1>10 DEF SetSyncProcessed
  <2>2. \A u \in Threads \ {Worker} : pc'[u] = pc[u] \/ (pc[u] = "waiting" /\ pc'[u] = "check")
    BY <2>1, <1>t, NotifyEffect
  <2>3. pc'[Owner] = pc[Owner] /\ \A d \in Callers : InSyncCall(d)' <=> InSyncCall(d)
    BY <2>1, <2>2, <1>t DEF InSyncCall
  <2>4. UNCHANGED Promise!vars
    BY <2>1, <2>3, Invisible
  <2>5. QED
    BY <2>4
<1>11. ASSUME NEW t \in Threads, SpuriousWakeup(t)
       PROVE  UNCHANGED Promise!vars
  <2>1. /\ pc'[Owner] = pc[Owner] /\ UNCHANGED <<sent, handled, lastMsg>>
        /\ \A d \in Callers : pc'[d] = pc[d] \/ (pc[d] = "waiting" /\ pc'[d] = "check")
    BY <1>11, <1>t DEF SpuriousWakeup, Goto
  <2>2. QED
    BY <2>1, Invisible DEF InSyncCall
<1>12. CASE UNCHANGED vars
  <2>1. UNCHANGED Promise!vars
    BY <1>12, Invisible DEF vars, InSyncCall
  <2>2. QED
    BY <2>1
<1>13. QED
  BY <1>1, <1>2, <1>3, <1>4, <1>5, <1>6, <1>7, <1>8, <1>9, <1>10, <1>11, <1>12
     DEF Next, SendSlotFuncAsyncRunMsg, SendSlotFuncSyncRunMsg, CallerStep,
         WorkerStep, Terminated

(* With one synchronous caller at most and a thread that could be created, *)
(* everything a user can observe of a ThreadBase object - which messages   *)
(* have been accepted and handled, which calls have returned, whether the  *)
(* destructor has - is what the mailbox allows.                            *)
THEOREM ImplementsMailbox == SingleSyncCaller /\ Spec => MailboxSpec
<1>1. Init => RefInv
  BY SyncInvInit, FIFOInit DEF RefInv
<1>2. SingleSyncCaller /\ RefInv /\ [Next]_vars => RefInv'
  BY TypeInvStep, ControlInvStep, SyncInvStep, FIFOStep DEF RefInv, SyncInv
<1>3. CASE SingleSyncCaller
  BY <1>1, <1>2, <1>3, RefInit, RefStep, PTL DEF Spec, MailboxSpec, Promise!Spec
<1>4. QED
  BY <1>3
=============================================================================
