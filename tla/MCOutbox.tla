------------------------------ MODULE MCOutbox ------------------------------
(* Small instances of Outbox.  The sessions live on account a1, which      *)
(* wants ACKs; a2, which wants none, is where a wrong route may put an     *)
(* entry.                                                                  *)
EXTENDS Outbox

CONSTANTS a1, a2

OneMessage == {1}
TwoMessages == {1, 2}
NoMedia == {}
SecondIsMedia == {2}
MCHome == [m \in Msg |-> a1]
=============================================================================
