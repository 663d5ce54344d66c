------------------------------- MODULE Routes -------------------------------
(***************************************************************************)
(* Which connections a queued message is pushed to: the choice among the   *)
(* connections of its account that have not been tried yet, the record of  *)
(* the tried ones on the entry, the wait for the ACK, the degradation of   *)
(* the connection that did not answer and the next try.  A media message   *)
(* awaits its file transfer between the choice and the push.               *)
(*                                                                         *)
(* One entry is followed; its retries, delays and the queue it is in are   *)
(* those of Outbox.tla.  The account asks for ACKs.                        *)
(***************************************************************************)
EXTENDS Connections

CONSTANTS NoEntry, NoSocket

VARIABLE
  entry     \* the queued message, or NoEntry

(* pc: "queued", "transfer" (awaits transferMediaToBncrClient) or "pushed" *)
(* (awaits the ACK).  to: the sockets it goes or last went to; owner: the  *)
(* push owner of then; last: lastPushConnId; tried: routeAttemptConnIds.   *)
(* History: seen, the sockets it was sent to in this round of tries, and   *)
(* heard, the clients that ever got it.                                    *)
Entry == [account : Account, media : BOOLEAN, pc : {"queued", "transfer", "pushed"},
          to : SUBSET ConnId, owner : ConnId \cup {NoSocket}, last : ConnId \cup {NoSocket},
          tried : SUBSET ConnId, seen : SUBSET ConnId, heard : SUBSET Client]

RouteTypeOK == entry = NoEntry \/ entry \in Entry

Clients(ids) == {id[1] : id \in ids}

-----------------------------------------------------------------------------
(* The choice.  x is the transient state asked.                            *)

OwnerSocket(x, a) ==
  IF PushOwner(x, a) = NoClient THEN NoSocket ELSE IdOf(x, PushOwner(x, a))

Untried(ids, e) == IF ids \ e.tried # {} THEN ids \ e.tried ELSE ids

RecentSockets(x, e) == Untried({IdOf(x, c) : c \in RecentInbound(x, e.account)}, e)

(* isRevalidatedAttemptedConn: a tried socket that is known to receive (no *)
(* code sets the stamps of its other two reasons).                         *)
Revalidated(x, a) == {IdOf(x, c) : c \in {d \in Eligible(x, a) : x.conn[d].cap > 0}}

(* A text goes to the owner if that is as untried as any, else to all      *)
(* untried ones, else to those recently heard of.                          *)
TextRoute(x, e) ==
  LET preferred == Untried(PushConnIds(x, e.account), e) IN
  IF OwnerSocket(x, e.account) \in preferred THEN {OwnerSocket(x, e.account)}
  ELSE IF preferred # {} THEN preferred
  ELSE RecentSockets(x, e)

MediaRoute(x, e) ==
  LET all == PushConnIds(x, e.account)
      filtered == (all \ e.tried) \cup (all \cap Revalidated(x, e.account)) IN
  IF OwnerSocket(x, e.account) \notin e.tried \cup {NoSocket} THEN {OwnerSocket(x, e.account)}
  ELSE IF filtered # {} THEN filtered
  ELSE IF all # {} THEN all
  ELSE RecentSockets(x, e)

Route(x, e) == IF e.media THEN MediaRoute(x, e) ELSE TextRoute(x, e)

(* The socket the push is recorded for: of a text the owner if it was      *)
(* addressed, of a media message the owner anyway, or else the only one.   *)
Recorded(e) ==
  IF e.owner # NoSocket /\ (e.media \/ e.owner \in e.to) THEN e.owner
  ELSE IF Cardinality(e.to) = 1 THEN CHOOSE id \in e.to : TRUE
  ELSE NoSocket

(* Mutant of Pushed: every socket the message was offered to is recorded. *)
PushedAll(x, e) ==
  [e EXCEPT !.pc = "pushed", !.last = Recorded(e), !.tried = @ \cup PushConnIds(x, e.account),
            !.seen = @ \cup e.to, !.heard = @ \cup Clients(e.to)]

Pushed(x, e) ==
  [e EXCEPT !.pc = "pushed", !.last = Recorded(e),
            !.tried = @ \cup ({Recorded(e)} \ {NoSocket}),
            !.seen = @ \cup e.to, !.heard = @ \cup Clients(e.to)]

Chosen(x, e) == [e EXCEPT !.to = Route(x, e), !.owner = OwnerSocket(x, e.account)]

-----------------------------------------------------------------------------
Enqueue(a, media) ==
  /\ entry = NoEntry /\ left.pushes > 0
  /\ entry' = [account |-> a, media |-> media, pc |-> "queued", to |-> {}, owner |-> NoSocket,
               last |-> NoSocket, tried |-> {}, seen |-> {}, heard |-> {}]
  /\ UNCHANGED <<connVars, left>>

MayPush ==
  /\ entry # NoEntry /\ entry.pc = "queued"
  /\ Route(net, entry) # {}
  /\ Spend("pushes")

PushText ==
  /\ MayPush /\ ~entry.media
  /\ entry' = Pushed(net, Chosen(net, entry))
  /\ net' = MarkActivity(Promote(net, entry.account), entry.account)
  /\ UNCHANGED <<epoch, sockets>>

BeginMedia ==
  /\ MayPush /\ entry.media
  /\ entry' = [Chosen(net, entry) EXCEPT !.pc = "transfer"]
  /\ net' = Promote(net, entry.account)
  /\ UNCHANGED <<epoch, sockets>>

(* The transfer fails, perhaps once too often, or the message follows it   *)
(* to the sockets chosen.                                                  *)
MediaTransferred ==
  /\ entry # NoEntry /\ entry.pc = "transfer"
  /\ \/ entry' \in {[entry EXCEPT !.pc = "queued"], NoEntry} /\ net' = net
     \/ entry' = Pushed(net, entry) /\ net' = MarkActivity(net, entry.account)
  /\ UNCHANGED <<epoch, sockets, left>>

(* computeRetryRerouteDecision: once none is left untried, all are again.  *)
Rerouted(x, e) ==
  LET tried == e.tried \cup ({e.last} \ {NoSocket})
      over == PushConnIds(x, e.account) \subseteq tried IN
  [e EXCEPT !.pc = "queued", !.tried = IF over THEN {} ELSE tried,
            !.seen = IF over THEN {} ELSE @]

(* No ACK in time: the socket loses its capability, the message is tried   *)
(* again or its retries are spent.                                         *)
PushTimesOut ==
  /\ entry # NoEntry /\ entry.pc = "pushed"
  /\ net' = IF entry.last # NoSocket THEN Degrade(net, entry.last) ELSE net
  /\ entry' \in {Rerouted(net', entry), NoEntry}
  /\ UNCHANGED <<epoch, sockets, left>>

(* markOutboundCapability after an ACK: the socket can receive.            *)
Capable(x, c, n) ==
  IF x.conn[c] # NoConn /\ x.conn[c].id = n THEN [x EXCEPT !.conn[c].cap = 2] ELSE x

(* A stale ACK counts only from the socket the push is recorded for.  What *)
(* an answer settles during a transfer, the end of the transfer queues     *)
(* again.                                                                  *)
MessageAck(c, n, outcome) ==
  /\ entry # NoEntry /\ c \in entry.heard
  /\ Stale(c, n) => entry.last = <<c, n>>
  /\ LET x == IF Stale(c, n) THEN net ELSE MarkSeen(net, c, n) IN
       net' = IF outcome = "ok" THEN Capable(x, c, n) ELSE x
  /\ entry' = IF outcome = "retry" \/ entry.pc = "transfer" THEN entry ELSE NoEntry
  /\ UNCHANGED <<epoch, sockets, left>>

RouteNext ==
  \/ \E a \in Account, media \in BOOLEAN : Enqueue(a, media)
  \/ PushText \/ BeginMedia \/ MediaTransferred \/ PushTimesOut
  \/ \E c \in Client : \E n \in Sockets(c), outcome \in {"ok", "retry", "fatal"} :
       MessageAck(c, n, outcome)

-----------------------------------------------------------------------------
(* Properties.                                                             *)

(* A round of tries passes over nobody: when the tries are forgotten, the  *)
(* message was sent in this round to every connection it could be pushed   *)
(* to then, through any changes of owner and connections that come and go  *)
(* (queue-selectors, outbox-transitions, retry-policy).                    *)
RoundsReachAll ==
  [][(PushTimesOut /\ entry' # NoEntry /\ entry'.seen = {}) =>
       PushConnIds(net', entry.account) \subseteq entry.seen]_<<net, entry>>

(* An ACK timeout costs a capability only to a socket the message was sent *)
(* to in this round, never to the one that replaced it, and only while     *)
(* another live connection of the account remains                          *)
(* (degradeOutboundCapability).                                            *)
DegradeSparesOthers ==
  [][PushTimesOut =>
       \A c \in Client :
         (net.conn[c] # NoConn /\ net'.conn[c] # NoConn /\ net'.conn[c].cap < net.conn[c].cap)
         => /\ IdOf(net, c) \in entry.seen
            /\ \E d \in Client \ {c} :
                 AccountOf[d] = AccountOf[c] /\ d \in Live(net, AccountOf[d])
    ]_<<net, entry>>
=============================================================================
