------------------------ MODULE ThreadBaseRefinement ------------------------
(* ThreadBase as an implementation of Mailbox.                             *)
EXTENDS ThreadBase

(* The mailbox is open from the constructor to the destructor.             *)
Phase ==
  CASE pc[Owner] = "constructing" -> "new"
    [] pc[Owner] = "alive"        -> "open"
    [] pc[Owner] = "joining"      -> "closing"
    [] pc[Owner] = "destroyed"    -> "closed"

(* A caller waits from the end of SendMsg's critical section to the return *)
(* of SendSlotFuncSyncRunMsg.                                              *)
Awaiting == [c \in Callers |-> IF InSyncCall(c) THEN lastMsg[c].id ELSE 0]

Promise == INSTANCE Mailbox WITH phase <- Phase, posted <- sent, awaiting <- Awaiting

(* A ThreadBase object keeps Mailbox's safety promise: every step is a     *)
(* mailbox step or leaves the mailbox as it is.  In particular the steps   *)
(* of the condition variable and of _syncProcessed are invisible, and      *)
(* SendSlotFuncSyncRunMsg returns only where PostAndWait may.              *)
MailboxSpec == Promise!Spec

(* It keeps the liveness promise too: posted messages are handled, waiting *)
(* callers return and ~ThreadBase ends.                                    *)
MailboxFairSpec == Promise!FairSpec
=============================================================================
