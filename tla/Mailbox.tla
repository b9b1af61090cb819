------------------------------- MODULE Mailbox -------------------------------
(***************************************************************************)
(* What a ThreadBase object promises to its users, without the queue, the  *)
(* flag, the condition variable or any thread's control state: messages    *)
(* are numbered in the order they are posted and handled once each in that *)
(* order, a caller that posts and waits gets control back only after its   *)
(* message has been handled, and closing the mailbox ends once everything  *)
(* posted has been handled.                                                *)
(***************************************************************************)
EXTENDS Naturals, Sequences

CONSTANT Callers

VARIABLES
  phase,      \* "new", "open", "closing" or "closed"
  posted,     \* number of messages posted
  handled,    \* messages handled, in order
  awaiting    \* per caller: the message it waits for, 0 if none

vars == <<phase, posted, handled, awaiting>>

Init ==
  /\ phase = "new"
  /\ posted = 0
  /\ handled = <<>>
  /\ awaiting = [c \in Callers |-> 0]

Open ==
  /\ phase = "new"
  /\ phase' = "open"
  /\ UNCHANGED <<posted, handled, awaiting>>

Post(c) ==
  /\ phase = "open"
  /\ awaiting[c] = 0
  /\ posted' = posted + 1
  /\ UNCHANGED <<phase, handled, awaiting>>

PostAndWait(c) ==
  /\ phase = "open"
  /\ awaiting[c] = 0
  /\ posted' = posted + 1
  /\ awaiting' = [awaiting EXCEPT ![c] = posted + 1]
  /\ UNCHANGED <<phase, handled>>

Handle ==
  /\ Len(handled) < posted
  /\ handled' = Append(handled, Len(handled) + 1)
  /\ UNCHANGED <<phase, posted, awaiting>>

(* The only way out of PostAndWait.                                        *)
Return(c) ==
  /\ awaiting[c] # 0
  /\ awaiting[c] <= Len(handled)
  /\ awaiting' = [awaiting EXCEPT ![c] = 0]
  /\ UNCHANGED <<phase, posted, handled>>

Close ==
  /\ phase = "open"
  /\ \A c \in Callers : awaiting[c] = 0
  /\ phase' = "closing"
  /\ UNCHANGED <<posted, handled, awaiting>>

Closed ==
  /\ phase = "closing"
  /\ Len(handled) = posted
  /\ phase' = "closed"
  /\ UNCHANGED <<posted, handled, awaiting>>

Next ==
  \/ Open
  \/ \E c \in Callers : Post(c) \/ PostAndWait(c) \/ Return(c)
  \/ Handle
  \/ Close
  \/ Closed

Spec == Init /\ [][Next]_vars

FairSpec ==
  /\ Spec
  /\ WF_vars(Handle)
  /\ \A c \in Callers : WF_vars(Return(c))
  /\ WF_vars(Closed)
=============================================================================
