--------------------------- MODULE DeliveryProofs ---------------------------
(* What Delivery promises, for any set of messages.                        *)
EXTENDS Delivery, TLAPS

DInv == DTypeOK /\ Exclusive /\ Durable

LEMMA DeliveryInductive == DSpec => []DInv
<1>1. DInit => DInv
  BY DEF DInit, DInv, DTypeOK, Exclusive, Durable
<1>2. DInv /\ [DNext]_deliveryVars => DInv'
  <2> SUFFICES ASSUME DInv, [DNext]_deliveryVars PROVE DInv'
    OBVIOUS
  <2> USE DEF DInv, DTypeOK, Exclusive, Durable
  <2>1. ASSUME NEW m \in Message, Accept(m) PROVE DInv'
    BY <2>1 DEF Accept
  <2>2. ASSUME NEW m \in Message, Settle(m) PROVE DInv'
    BY <2>2 DEF Settle
  <2>8. ASSUME NEW m \in Message, Forget(m) PROVE DInv'
    BY <2>8 DEF Forget
  <2>3. CASE Save
    BY <2>3 DEF Save
  <2>4. CASE Close
    BY <2>4 DEF Close
  <2>5. CASE Die
    BY <2>5 DEF Die
  <2>6. CASE Reopen
    BY <2>6 DEF Reopen
  <2>7. CASE UNCHANGED deliveryVars
    BY <2>7 DEF deliveryVars
  <2> QED
    BY <2>1, <2>2, <2>3, <2>4, <2>5, <2>6, <2>7, <2>8 DEF DNext
<1> QED
  BY <1>1, <1>2, PTL DEF DSpec

(* A message is never both queued and settled, and while the queue runs    *)
(* the disk holds no message the process knows nothing of.                 *)
THEOREM DeliveredOnce == DSpec => [](Exclusive /\ Durable)
<1>1. DInv => Exclusive /\ Durable
  BY DEF DInv
<1> QED
  BY <1>1, DeliveryInductive, PTL

(* Settlements survive all steps but a crash or a reopen before they were  *)
(* saved, and only settled messages leave the disk.                        *)
THEOREM NothingIsUndone == DSpec => NothingUndone
<1>1. DInv /\ [DNext]_deliveryVars =>
        [/\ settled \ settled' \subseteq disk
         /\ disk \ disk' \subseteq settled']_deliveryVars
  BY DEF DInv, DTypeOK, Exclusive, Durable, DNext, deliveryVars, Accept, Settle,
         Forget, Save, Close, Die, Reopen
<1> QED
  BY <1>1, DeliveryInductive, PTL DEF DSpec, NothingUndone
=============================================================================
