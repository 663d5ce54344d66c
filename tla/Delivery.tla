------------------------------ MODULE Delivery ------------------------------
(***************************************************************************)
(* What the outbound queue promises for a message, whatever pushes,        *)
(* retries, acknowledgements, timers and flushes it takes: the message is  *)
(* queued until it is settled (acknowledged, sent, dead-lettered or        *)
(* purged), it is settled once, and a restart brings back what the disk    *)
(* holds, so that only a message that never reached the disk can be lost   *)
(* and only one whose settlement never reached it can come back.           *)
(***************************************************************************)
CONSTANT Message

VARIABLES
  running,   \* FALSE between the last save and the next load of the queue
  queued,    \* the messages to be delivered
  settled,   \* the messages the process knows to be settled
  disk       \* the queue as it was last persisted

deliveryVars == <<running, queued, settled, disk>>

DInit ==
  /\ running = TRUE
  /\ queued = {}
  /\ settled = {}
  /\ disk = {}

(* A new message, accepted in any phase of the service.                    *)
Accept(m) ==
  /\ m \notin queued \cup settled \cup disk
  /\ queued' = queued \cup {m}
  /\ UNCHANGED <<running, settled, disk>>

Settle(m) ==
  /\ m \in queued
  /\ queued' = queued \ {m}
  /\ settled' = settled \cup {m}
  /\ UNCHANGED <<running, disk>>

(* An administrator drops m, also from the disk.                           *)
Forget(m) ==
  /\ running
  /\ m \in queued \cup disk
  /\ queued' = queued \ {m}
  /\ settled' = settled \cup {m}
  /\ disk' = disk \ {m}
  /\ UNCHANGED running

Save ==
  /\ running
  /\ disk' = queued
  /\ UNCHANGED <<running, queued, settled>>

(* An orderly stop persists the queue; what changes later is not saved.    *)
Close ==
  /\ running
  /\ running' = FALSE
  /\ disk' = queued
  /\ UNCHANGED <<queued, settled>>

(* The process dies with its memory: nobody knows any more that a message  *)
(* still on the disk had been settled.                                     *)
Die ==
  /\ running' = FALSE
  /\ queued' = {}
  /\ settled' = settled \ disk
  /\ UNCHANGED disk

(* The disk is believed: a settlement made after the stop is forgotten.    *)
Reopen ==
  /\ ~running
  /\ running' = TRUE
  /\ queued' = disk
  /\ settled' = settled \ disk
  /\ UNCHANGED disk

DNext ==
  \/ \E m \in Message : Accept(m) \/ Settle(m) \/ Forget(m)
  \/ Save \/ Close \/ Die \/ Reopen

DSpec == DInit /\ [][DNext]_deliveryVars

-----------------------------------------------------------------------------
(* A settled message is not queued, and while the queue runs the disk      *)
(* holds only messages that are still queued or were settled since it was  *)
(* written.                                                                *)
DTypeOK ==
  /\ running \in BOOLEAN
  /\ queued \subseteq Message
  /\ settled \subseteq Message
  /\ disk \subseteq Message

Exclusive == queued \cap settled = {}
Durable == running => disk \subseteq queued \cup settled

(* What was settled stays settled unless the disk never heard of it, and   *)
(* what is on the disk leaves it only as it is settled or later.           *)
NothingUndone ==
  [][/\ settled \ settled' \subseteq disk
     /\ disk \ disk' \subseteq settled']_deliveryVars
=============================================================================
