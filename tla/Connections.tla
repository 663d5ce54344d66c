---------------------------- MODULE Connections ----------------------------
(***************************************************************************)
(* The live connections of the bridge: which clients were seen and when,   *)
(* what they can receive, which one is active for each account, the one    *)
(* lease of the process, the choice of a connection for a push and the     *)
(* loss of a capability.  Routes.tla has the pushes.                       *)
(*                                                                         *)
(* A client is one key of `connections`: an account and a client id.  Its  *)
(* n-th websocket is the connection id <<c, n>>.  Time is abstracted to    *)
(* what the code compares: the age of a connection against the TTL and     *)
(* twice the TTL, a capability that lapses, the window of recent activity. *)
(***************************************************************************)
EXTENDS Naturals, FiniteSets, Sequences

CONSTANTS
  Account, Client,
  AccountOf,   \* AccountOf[c]: the account of c
  Leased,      \* the clients that send their lease with each event
  MaxEarly,    \* MAX_EARLY_FILE_ACKS
  Bounds,      \* records of bounds (numbers of events, the clients that
               \* take part, the flags they send); a behaviour draws one
  NoConn, NoClient

ASSUME ConnectionsAssumption ==
  /\ AccountOf \in [Client -> Account]
  /\ Leased \subseteq Client
  /\ MaxEarly \in Nat
  /\ NoClient \notin Client
  /\ \A b \in Bounds : "clients" \in DOMAIN b /\ b.clients \subseteq Client

VARIABLES
  net,      \* the transient state that gcTransientState sweeps
  epoch,    \* connectionEpoch, and with it primaryLeaseId
  sockets,  \* sockets[c][n]: the epoch that the n-th connect of c was given
  left      \* what is left of the bounds of this behaviour

connVars == <<net, epoch, sockets>>

(* Capability: 0 none, 1 outboundReadyUntil, 2 preferredForOutboundUntil   *)
(* (which is never set without the former and ends before it).  Age: 0 up  *)
(* to the TTL, 1 up to twice the TTL, 2 beyond.                            *)
Connection == [id : Nat \ {0}, age : 0..2, cap : 0..2, inboundOnly : BOOLEAN]
ConnId == Client \X (Nat \ {0})

(* later: the pairs <<c, d>> of connections with c seen later than d.      *)
(* A cached file ACK; after: the keys cached before it and still there.    *)
EarlyAck == [key : Nat, ok : BOOLEAN, old : BOOLEAN, after : SUBSET Nat]

ASSUME NoConnAssumption == NoConn \notin Connection

ConnTypeOK ==
  /\ DOMAIN net = {"conn", "active", "later", "reach", "early"}
  /\ net.conn \in [Client -> Connection \cup {NoConn}]
  /\ net.active \in [Account -> Client \cup {NoClient}]
  /\ net.later \subseteq Client \X Client
  /\ net.reach \in [Account -> BOOLEAN]
  /\ net.early \subseteq EarlyAck
  /\ epoch \in Nat
  /\ sockets \in [Client -> Seq(Nat)]

ConnInit ==
  /\ net = [conn |-> [c \in Client |-> NoConn],
            active |-> [a \in Account |-> NoClient],
            later |-> {},
            reach |-> [a \in Account |-> FALSE],
            early |-> {}]
  /\ epoch = 0
  /\ sockets = [c \in Client |-> <<>>]
  /\ left \in Bounds

Spend(what) ==
  /\ left[what] > 0
  /\ left' = [left EXCEPT ![what] = @ - 1]

-----------------------------------------------------------------------------
(* What the connections answer.  x is the transient state asked.           *)

Of(x, a) == {c \in Client : AccountOf[c] = a /\ x.conn[c] # NoConn}
IdOf(x, c) == <<c, x.conn[c].id>>

Live(x, a) == {c \in Of(x, a) : x.conn[c].age = 0}

RecentInbound(x, a) ==
  IF x.reach[a] THEN {c \in Of(x, a) : x.conn[c].age <= 1} ELSE {}

RecentlyReachable(x, id) ==
  LET a == AccountOf[id[1]] IN
    \/ \E c \in RecentInbound(x, a) : IdOf(x, c) = id
    \/ \E c \in Of(x, a) : x.active[a] = c /\ IdOf(x, c) = id

Eligible(x, a) == {c \in Live(x, a) : ~x.conn[c].inboundOnly}

(* Mutant of Alternative: the connection itself counts. *)
AnyLive(x, id) == Live(x, AccountOf[id[1]]) # {}

Alternative(x, id) == \E c \in Live(x, AccountOf[id[1]]) : IdOf(x, c) # id

SeenLater(x, c, d) == <<c, d>> \in x.later

Preferable(x, c, d) ==
  \/ x.conn[c].cap > x.conn[d].cap
  \/ x.conn[c].cap = x.conn[d].cap /\ SeenLater(x, c, d)

Best(x, S) == CHOOSE c \in S : \A d \in S \ {c} : Preferable(x, c, d)

(* Mutant of PushOwner: the active connection is taken as it is. *)
ActiveOwner(x, a) ==
  IF x.active[a] \in Live(x, a) THEN x.active[a]
  ELSE IF Eligible(x, a) # {} THEN Best(x, Eligible(x, a))
  ELSE NoClient

PushOwner(x, a) ==
  IF \E c \in Eligible(x, a) : x.active[a] = c /\ x.conn[c].cap > 0
  THEN x.active[a]
  ELSE IF Eligible(x, a) # {} THEN Best(x, Eligible(x, a))
  ELSE NoClient

(* resolveOutboxPushOwner makes the connection it answers the active one.  *)
Promote(x, a) ==
  IF PushOwner(x, a) = NoClient THEN x
  ELSE [x EXCEPT !.active[a] = PushOwner(x, a)]

PushConnIds(x, a) ==
  {IdOf(x, c) : c \in IF Eligible(x, a) # {} THEN Eligible(x, a) ELSE Live(x, a)}

TransferConnIds(x, a) ==
  IF PushConnIds(x, a) # {} THEN PushConnIds(x, a)
  ELSE {IdOf(x, c) : c \in RecentInbound(x, a)}

-----------------------------------------------------------------------------
(* What events make of the connections.                                    *)

Connected(x) == {c \in Client : x.conn[c] # NoConn}

Swept(x) == {c \in Client : x.conn[c] # NoConn /\ x.conn[c].age = 2}

StillCached(acks) ==
  {[e EXCEPT !.after = @ \cap {d.key : d \in acks}] : e \in acks}

(* Mutant of Gc: the active key of a swept connection stays. *)
GcKeepsActive(x) ==
  [x EXCEPT !.conn = [c \in Client |-> IF c \in Swept(x) THEN NoConn ELSE @[c]],
            !.later = {p \in @ : p[1] \notin Swept(x) /\ p[2] \notin Swept(x)},
            !.early = StillCached({e \in @ : ~e.old})]

Gc(x) ==
  [x EXCEPT !.conn = [c \in Client |-> IF c \in Swept(x) THEN NoConn ELSE @[c]],
            !.active = [a \in Account |->
                          IF @[a] \in Swept(x) THEN NoClient ELSE @[a]],
            !.later = {p \in @ : p[1] \notin Swept(x) /\ p[2] \notin Swept(x)},
            !.early = StillCached({e \in @ : ~e.old})]

SeenConnection(previous, n) ==
  IF previous = NoConn
  THEN [id |-> n, age |-> 0, cap |-> 0, inboundOnly |-> FALSE]
  ELSE [previous EXCEPT !.id = n, !.age = 0]

PromoteSeen(x, a, c) ==
  IF \/ x.active[a] = NoClient
     \/ x.conn[x.active[a]] = NoConn
     \/ x.conn[x.active[a]].age > 0
  THEN [x EXCEPT !.active[a] = c] ELSE x

MarkSeen(x, c, n) ==
  LET y == Gc(x)
      z == [y EXCEPT !.conn[c] = SeenConnection(y.conn[c], n),
                     !.later = {p \in @ : p[1] # c /\ p[2] # c}
                               \cup {<<c, d>> : d \in Connected(y) \ {c}}]
  IN PromoteSeen(z, AccountOf[c], c)

MarkActivity(x, a) == [x EXCEPT !.reach[a] = TRUE]

(* refreshAcceptedFileTransferLiveState *)
Refresh(x, c, n) == MarkActivity(MarkSeen(x, c, n), AccountOf[c])

Flags == {"plain", "ready", "preferred", "inboundOnly"}

WithCapability(k, flag) ==
  CASE flag = "inboundOnly" -> [k EXCEPT !.inboundOnly = TRUE, !.cap = 0]
    [] flag = "preferred" -> [k EXCEPT !.inboundOnly = FALSE, !.cap = 2]
    [] flag = "ready" -> [k EXCEPT !.inboundOnly = FALSE,
                                   !.cap = IF @ = 2 THEN 2 ELSE 1]
    [] OTHER -> [k EXCEPT !.inboundOnly = FALSE]

RefreshLive(x, c, n, flag) ==
  LET y == Refresh(x, c, n)
  IN [y EXCEPT !.conn[c] = WithCapability(y.conn[c], flag)]

(* Mutant of CapabilityConnection: the client is matched, not the socket. *)
AnySocketOf(x, id) == {c \in Of(x, AccountOf[id[1]]) : c = id[1]}

CapabilityConnection(x, id) ==
  {c \in Of(x, AccountOf[id[1]]) : IdOf(x, c) = id}

Degrade(x, id) ==
  IF Alternative(x, id)
  THEN [x EXCEPT !.conn = [c \in Client |->
          IF c \in CapabilityConnection(x, id) THEN [@[c] EXCEPT !.cap = 0]
          ELSE @[c]]]
  ELSE x

(* An event carries the lease of its socket; one without is never stale.   *)
Stale(c, n) == c \in Leased /\ sockets[c][n] # epoch

Sockets(c) == DOMAIN sockets[c]

-----------------------------------------------------------------------------
(* Connects, heartbeats; time.                                             *)

Connect(c, flag) ==
  /\ Spend("connects")
  /\ net' = RefreshLive(net, c, Len(sockets[c]) + 1, flag)
  /\ epoch' = epoch + 1
  /\ sockets' = [sockets EXCEPT ![c] = Append(@, epoch + 1)]

(* A heartbeat, of the current socket or late from one it replaced.        *)
Activity(c, n, flag) ==
  /\ ~Stale(c, n)
  /\ net' = RefreshLive(net, c, n, flag)
  /\ UNCHANGED <<epoch, sockets, left>>

CapabilityLapses(c) ==
  /\ net.conn[c] # NoConn
  /\ net.conn[c].cap > 0
  /\ net' = [net EXCEPT !.conn[c].cap = @ - 1]
  /\ UNCHANGED <<epoch, sockets, left>>

ReachLapses(a) ==
  /\ net.reach[a]
  /\ \A c \in Of(net, a) : net.conn[c].cap = 0
  /\ net' = [net EXCEPT !.reach[a] = FALSE]
  /\ UNCHANGED <<epoch, sockets, left>>

(* A TTL passes for c; whoever was seen before c is at least as old.       *)
Ages(c) ==
  /\ net.conn[c] # NoConn
  /\ net.conn[c].age < 2
  /\ \A d \in Client : SeenLater(net, c, d) => net.conn[d].age > net.conn[c].age
  /\ Spend("ages")
  /\ net' = [net EXCEPT !.conn[c].age = @ + 1, !.conn[c].cap = 0]
  /\ UNCHANGED <<epoch, sockets>>

(* FILE_TRANSFER_ACK_TTL_MS passes for the cached file ACKs.               *)
AcksAge ==
  /\ \E e \in net.early : ~e.old
  /\ net' = [net EXCEPT !.early = {[e EXCEPT !.old = TRUE] : e \in @}]
  /\ UNCHANGED <<epoch, sockets, left>>

ConnNext ==
  \/ \E c \in left.clients, flag \in left.flags :
       \/ Connect(c, flag)
       \/ \E n \in Sockets(c) : Activity(c, n, flag)
  \/ \E c \in Client : CapabilityLapses(c) \/ Ages(c)
  \/ \E a \in Account : ReachLapses(a)
  \/ AcksAge

-----------------------------------------------------------------------------
(* The active key of an account names a connection that exists, of that    *)
(* account, whatever connects, ages and is swept (markSeen,                *)
(* gcTransientState, resolveOutboxPushOwner).                              *)
ActiveConnected ==
  \A a \in Account : net.active[a] # NoClient => net.active[a] \in Of(net, a)
=============================================================================
