---------------------------- MODULE MCTransport ----------------------------
(* Small instances of FileTransfer: two clients of one account and one of  *)
(* another.  A behaviour spends its bounds on routing, on a file sent or   *)
(* on a file received.                                                     *)
EXTENDS FileTransfer

CONSTANTS c1, c2, c3, a1, a2

MCAccountOf == [c \in Client |-> IF c = c3 THEN a2 ELSE a1]
MCLeased == {c1, c3}

NoBounds == [connects |-> 0, ages |-> 0, pushes |-> 0, sends |-> 0, stops |-> 0,
             recvs |-> 0, saves |-> 0, clients |-> {c1, c2}, flags |-> {"plain"}]
Routing == [NoBounds EXCEPT !.connects = 3, !.pushes = 2, !.flags = {"plain", "ready"}]
Rerouting == [NoBounds EXCEPT !.connects = 2, !.pushes = 3,
                              !.flags = {"plain", "inboundOnly"}]
Sweeping == [NoBounds EXCEPT !.connects = 2, !.ages = 2, !.pushes = 2,
                             !.flags = {"preferred"}]
Sending == [NoBounds EXCEPT !.connects = 2, !.sends = 1,
                            !.flags = {"plain", "inboundOnly"}]
Reconnecting == [NoBounds EXCEPT !.connects = 3, !.sends = 1, !.stops = 1,
                                 !.clients = {c1}]
Receiving == [NoBounds EXCEPT !.connects = 3, !.ages = 2, !.recvs = 1, !.saves = 2,
                              !.clients = {c1, c3}]
AllBounds == {Routing, Rerouting, Sweeping, Sending, Reconnecting, Receiving}
=============================================================================
