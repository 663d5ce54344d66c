----------------------------- MODULE MCHistory -----------------------------
(* Small instances of History: one conversation with more messages than a  *)
(* save keeps of it, and two conversations.                                *)
EXTENDS History

CONSTANTS k1, k2

TwoMessages == 1..2
FourMessages == 1..4
TwoShards == 1..2
OneKey == [m \in Msg |-> k1]
MCKeyOf == [m \in Msg |-> IF m = 2 THEN k2 ELSE k1]
=============================================================================
