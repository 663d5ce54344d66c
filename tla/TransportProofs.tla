-------------------------- MODULE TransportProofs --------------------------
(* What holds of connections, routes and file transfers for any clients,   *)
(* accounts, numbers of chunks and bounds.                                 *)
EXTENDS FileTransfer, FiniteSetTheorems, WellFoundedInduction, TLAPS

-----------------------------------------------------------------------------
(* Connections.                                                            *)

NetShape(x) ==
  /\ DOMAIN x = {"conn", "active", "later", "reach", "early"}
  /\ x.conn \in [Client -> Connection \cup {NoConn}]

(* The clients that take part in a behaviour are clients.                  *)
ClientsLeft == "clients" \in DOMAIN left /\ left.clients \subseteq Client

ConnInv ==
  /\ NetShape(net)
  /\ epoch \in Nat
  /\ sockets \in [Client -> Seq(Nat)]

LEMMA SeenConnectionType ==
  ASSUME NEW previous \in Connection \cup {NoConn}, NEW n \in Nat \ {0}
  PROVE  SeenConnection(previous, n) \in Connection
<1>1. 0 \in 0..2
  OBVIOUS
<1>2. CASE previous = NoConn
  BY <1>1, <1>2 DEF SeenConnection, Connection
<1>3. CASE previous # NoConn
  <2>1. previous \in Connection
    BY <1>3
  <2> QED
    BY <1>1, <1>3, <2>1 DEF SeenConnection, Connection
<1> QED
  BY <1>2, <1>3

LEMMA WithCapabilityType ==
  ASSUME NEW k \in Connection, NEW flag
  PROVE  WithCapability(k, flag) \in Connection
<1>1. /\ 0 \in 0..2 /\ 1 \in 0..2 /\ 2 \in 0..2
      /\ TRUE \in BOOLEAN /\ FALSE \in BOOLEAN
  OBVIOUS
<1>2. CASE flag = "inboundOnly"
  BY <1>1, <1>2 DEF WithCapability, Connection
<1>3. CASE flag = "preferred"
  BY <1>1, <1>3 DEF WithCapability, Connection
<1>4. CASE flag = "ready"
  BY <1>1, <1>4 DEF WithCapability, Connection
<1>5. CASE flag \notin {"inboundOnly", "preferred", "ready"}
  BY <1>1, <1>5 DEF WithCapability, Connection
<1> QED
  BY <1>2, <1>3, <1>4, <1>5

LEMMA GcShape ==
  ASSUME NEW x, NetShape(x)
  PROVE  NetShape(Gc(x))
BY DEF NetShape, Gc

LEMMA MarkSeenShape ==
  ASSUME NEW x, NetShape(x), NEW c \in Client, NEW n \in Nat \ {0}
  PROVE  NetShape(MarkSeen(x, c, n)) /\ MarkSeen(x, c, n).conn[c] \in Connection
<1> DEFINE y == Gc(x)
           seen == SeenConnection(y.conn[c], n)
           z == [y EXCEPT !.conn[c] = seen,
                          !.later = {p \in @ : p[1] # c /\ p[2] # c}
                                     \cup {<<c, d>> : d \in Connected(y) \ {c}}]
<1>1. NetShape(y)
  BY GcShape
<1>2. seen \in Connection
  BY <1>1, SeenConnectionType DEF NetShape
<1>3. NetShape(z) /\ z.conn[c] = seen
  BY <1>1, <1>2 DEF NetShape
<1>4. MarkSeen(x, c, n) = PromoteSeen(z, AccountOf[c], c)
  BY DEF MarkSeen
<1> HIDE DEF z
<1> QED
  BY <1>2, <1>3, <1>4 DEF PromoteSeen, NetShape

LEMMA RefreshLiveShape ==
  ASSUME NEW x, NetShape(x), NEW c \in Client, NEW n \in Nat \ {0}, NEW flag
  PROVE  NetShape(Refresh(x, c, n)) /\ NetShape(RefreshLive(x, c, n, flag))
<1>1. NetShape(Refresh(x, c, n)) /\ Refresh(x, c, n).conn[c] \in Connection
  BY MarkSeenShape DEF Refresh, MarkActivity, NetShape
<1>2. WithCapability(Refresh(x, c, n).conn[c], flag) \in Connection
  BY <1>1, WithCapabilityType
<1> QED
  BY <1>1, <1>2 DEF RefreshLive, NetShape

LEMMA PromoteShape ==
  ASSUME NEW x, NetShape(x), NEW a
  PROVE  /\ NetShape(Promote(x, a)) /\ Promote(x, a).conn = x.conn
         /\ NetShape(MarkActivity(x, a)) /\ MarkActivity(x, a).conn = x.conn
BY DEF NetShape, Promote, MarkActivity

LEMMA CapableShape ==
  ASSUME NEW x, NetShape(x), NEW c \in Client, NEW n, NEW id
  PROVE  NetShape(Capable(x, c, n)) /\ NetShape(Degrade(x, id))
BY DEF NetShape, Capable, Degrade, Connection, CapabilityConnection, Of

LEMMA SocketNumber ==
  ASSUME ConnInv, NEW c \in Client, NEW n \in Sockets(c)
  PROVE  n \in Nat \ {0}
BY DEF ConnInv, Sockets

LEMMA EarlyShape ==
  ASSUME NEW x, NetShape(x), NEW key, NEW ok
  PROVE  NetShape(WithoutEarly(x, key)) /\ NetShape(Remember(x, key, ok))
BY DEF NetShape, WithoutEarly, Remember

(* The events of connections keep the shape of what they change.           *)
LEMMA ConnNextKeepsConn == ConnInv /\ ClientsLeft /\ ConnNext => ConnInv'
<1> SUFFICES ASSUME ConnInv, ClientsLeft, ConnNext PROVE ConnInv'
  OBVIOUS
<1> USE DEF ConnInv
<1>1. ASSUME NEW c \in Client, NEW flag, Connect(c, flag) PROVE ConnInv'
  <2>1. Len(sockets[c]) + 1 \in Nat \ {0}
    OBVIOUS
  <2>2. NetShape(net')
    BY <1>1, <2>1, RefreshLiveShape DEF Connect
  <2> QED
    BY <1>1, <2>2 DEF Connect
<1>2. ASSUME NEW c \in Client, NEW n \in Sockets(c), NEW flag, Activity(c, n, flag)
      PROVE ConnInv'
  BY <1>2, SocketNumber, RefreshLiveShape DEF Activity
<1>3. ASSUME NEW c \in Client, CapabilityLapses(c) PROVE ConnInv'
  <2>1. net.conn[c] \in Connection
    BY <1>3 DEF CapabilityLapses, NetShape
  <2> DEFINE k == net.conn[c]
  <2>2. k.cap - 1 \in 0..2
    BY <1>3, <2>1 DEF CapabilityLapses, Connection
  <2>3. [k EXCEPT !.cap = k.cap - 1] \in Connection
    BY <2>1, <2>2 DEF Connection
  <2> QED
    BY <1>3, <2>3 DEF CapabilityLapses, NetShape
<1>4. ASSUME NEW c \in Client, Ages(c) PROVE ConnInv'
  <2>1. net.conn[c] \in Connection
    BY <1>4 DEF Ages, NetShape
  <2> DEFINE k == net.conn[c]
  <2>2. k.age + 1 \in 0..2 /\ 0 \in 0..2
    BY <1>4, <2>1 DEF Ages, Connection
  <2>3. [k EXCEPT !.age = k.age + 1, !.cap = 0] \in Connection
    BY <2>1, <2>2 DEF Connection
  <2> QED
    BY <1>4, <2>3 DEF Ages, NetShape
<1>5. ASSUME NEW a \in Account, ReachLapses(a) PROVE ConnInv'
  BY <1>5 DEF ReachLapses, NetShape
<1>6. CASE AcksAge
  <2>1. PICK acks : net' = [net EXCEPT !.early = acks]
    BY <1>6 DEF AcksAge
  <2> QED
    BY <1>6, <2>1 DEF AcksAge, NetShape
<1> QED
  BY <1>1, <1>2, <1>3, <1>4, <1>5, <1>6 DEF ConnNext, ClientsLeft

LEMMA RouteNextKeepsConn == ConnInv /\ RouteNext => ConnInv'
<1> SUFFICES ASSUME ConnInv, RouteNext PROVE ConnInv'
  OBVIOUS
<1> USE DEF ConnInv
<1>1. ASSUME NEW a \in Account, NEW media \in BOOLEAN, Enqueue(a, media) PROVE ConnInv'
  BY <1>1 DEF Enqueue, connVars
<1>2. CASE PushText
  <2>1. NetShape(Promote(net, entry.account))
    BY PromoteShape
  <2>2. NetShape(net')
    BY <1>2, <2>1, PromoteShape DEF PushText
  <2> QED
    BY <1>2, <2>2 DEF PushText
<1>3. CASE BeginMedia
  BY <1>3, PromoteShape DEF BeginMedia
<1>4. CASE MediaTransferred
  BY <1>4, PromoteShape DEF MediaTransferred
<1>5. CASE PushTimesOut
  <2>1. Client # {} => NetShape(Degrade(net, entry.last))
    BY CapableShape
  <2>2. Client = {} => NetShape(Degrade(net, entry.last))
    BY DEF NetShape, Degrade
  <2> QED
    BY <1>5, <2>1, <2>2 DEF PushTimesOut
<1>6. ASSUME NEW c \in Client, NEW n \in Sockets(c), NEW outcome, MessageAck(c, n, outcome)
      PROVE ConnInv'
  <2>1. NetShape(MarkSeen(net, c, n))
    BY SocketNumber, MarkSeenShape
  <2>2. /\ NetShape(Capable(net, c, n))
        /\ NetShape(Capable(MarkSeen(net, c, n), c, n))
    BY <2>1, CapableShape
  <2> QED
    BY <1>6, <2>1, <2>2 DEF MessageAck
<1> QED
  BY <1>1, <1>2, <1>3, <1>4, <1>5, <1>6 DEF RouteNext

(* The steps of file transfers.                                            *)
TransferStep ==
  \/ \E a \in Account : BeginSend(a)
  \/ AckTimesOut \/ SleepEnds \/ Abort \/ WaitersCleared
  \/ \E c \in Client : \E n \in Sockets(c) :
       \/ \E key \in Chunk \cup {InitStage, CompleteStage}, ok, path \in BOOLEAN :
            FileAck(c, n, key, ok, path)
       \/ \E valid \in BOOLEAN : FileInit(c, n, valid)
       \/ \E i \in Chunk, content \in {"good", "bad", "invalid"} :
            FileChunk(c, n, i, content)
       \/ FileComplete(c, n)
       \/ FileAbort(c, n)
  \/ \E ok \in BOOLEAN : SaveEnds(ok)

LEMMA NextCases ==
  Next <=> \/ ConnNext /\ UNCHANGED <<entry, send, recv, saving>>
           \/ RouteNext /\ UNCHANGED <<send, recv, saving>>
           \/ TransferStep
BY DEF Next, TransferStep

LEMMA TransferStepKeepsConn == ConnInv /\ TransferStep => ConnInv'
<1> SUFFICES ASSUME ConnInv, TransferStep PROVE ConnInv'
  OBVIOUS
<1> USE DEF ConnInv
<1>1. ASSUME NEW a \in Account, BeginSend(a) PROVE ConnInv'
  BY <1>1, PromoteShape DEF BeginSend
<1>2. CASE AckTimesOut \/ Abort
  BY <1>2 DEF AckTimesOut, Abort, connVars
<1>3. CASE SleepEnds
  BY <1>3, EarlyShape DEF SleepEnds
<1>4. CASE WaitersCleared
  BY <1>4 DEF WaitersCleared, NetShape
<1>5. ASSUME NEW c \in Client, NEW n \in Sockets(c), NEW key, NEW ok, NEW path,
             FileAck(c, n, key, ok, path)
      PROVE ConnInv'
  <2>1. NetShape(Refresh(net, c, n))
    BY SocketNumber, RefreshLiveShape
  <2>2. /\ NetShape(Remember(net, key, ok))
        /\ NetShape(Remember(Refresh(net, c, n), key, ok))
    BY <2>1, EarlyShape
  <2> QED
    BY <1>5, <2>1, <2>2 DEF FileAck
<1>6. ASSUME NEW c \in Client, NEW n \in Sockets(c), NEW valid, FileInit(c, n, valid)
      PROVE ConnInv'
  BY <1>6, SocketNumber, RefreshLiveShape DEF FileInit
<1>7. ASSUME NEW c \in Client, NEW n \in Sockets(c),
             FromOwnerOrFresh(c, n), UNCHANGED <<epoch, sockets>>
      PROVE ConnInv'
  BY <1>7, SocketNumber, RefreshLiveShape DEF FromOwnerOrFresh
<1>8. ASSUME NEW c \in Client, NEW n \in Sockets(c),
             \/ \E i \in Chunk, content \in {"good", "bad", "invalid"} :
                  FileChunk(c, n, i, content)
             \/ FileComplete(c, n) \/ FileAbort(c, n)
      PROVE ConnInv'
  BY <1>7, <1>8 DEF FileChunk, FileComplete, FileAbort
<1>9. ASSUME NEW ok, SaveEnds(ok) PROVE ConnInv'
  BY <1>9 DEF SaveEnds, connVars
<1> QED
  BY <1>1, <1>2, <1>3, <1>4, <1>5, <1>6, <1>8, <1>9 DEF TransferStep

LEMMA NextSpends ==
  Next => \/ left' = left
          \/ \E what : what # "clients" /\ Spend(what)
<1>1. ConnNext => left' = left \/ Spend("connects") \/ Spend("ages")
  BY DEF ConnNext, Connect, Activity, CapabilityLapses, Ages, ReachLapses, AcksAge
<1>2. RouteNext => left' = left \/ Spend("pushes")
  BY DEF RouteNext, Enqueue, PushText, BeginMedia, MayPush, MediaTransferred,
         PushTimesOut, MessageAck
<1>3. TransferStep => \/ left' = left \/ Spend("sends") \/ Spend("stops")
                      \/ Spend("recvs") \/ Spend("saves")
  <2>1. \A a \in Account : BeginSend(a) => Spend("sends")
    BY DEF BeginSend
  <2>2. /\ AckTimesOut \/ SleepEnds \/ Abort => left' = left
        /\ WaitersCleared => Spend("stops")
    BY DEF AckTimesOut, SleepEnds, Abort, WaitersCleared
  <2>3. ASSUME NEW c, NEW n
        PROVE  /\ \A key, ok, path : FileAck(c, n, key, ok, path) => left' = left
               /\ \A valid : FileInit(c, n, valid) => left' = left \/ Spend("recvs")
               /\ \A i, content : FileChunk(c, n, i, content) => left' = left
               /\ FileComplete(c, n) => left' = left \/ Spend("saves")
               /\ FileAbort(c, n) => left' = left
    BY DEF FileAck, FileInit, FileChunk, FileComplete, FileAbort
  <2>4. \A ok : SaveEnds(ok) => left' = left
    BY DEF SaveEnds
  <2> QED
    BY <2>1, <2>2, <2>3, <2>4 DEF TransferStep
<1> QED
  BY <1>1, <1>2, <1>3, NextCases

LEMMA ConnInductive == Spec => [](ConnInv /\ ClientsLeft)
<1>1. Init => ConnInv /\ ClientsLeft
  BY ConnectionsAssumption DEF Init, ConnInit, ConnInv, ClientsLeft, NetShape
<1>2. ConnInv /\ ClientsLeft /\ [Next]_vars => (ConnInv /\ ClientsLeft)'
  <2>1. ConnInv /\ UNCHANGED vars => ConnInv'
    BY DEF ConnInv, vars, connVars
  <2>2. ClientsLeft /\ [Next]_vars => ClientsLeft'
    <3>1. ASSUME ClientsLeft, NEW what, what # "clients", Spend(what) PROVE ClientsLeft'
      BY <3>1 DEF ClientsLeft, Spend
    <3>2. ClientsLeft /\ left' = left => ClientsLeft'
      BY DEF ClientsLeft
    <3> QED
      BY <3>1, <3>2, NextSpends DEF vars
  <2> QED
    BY <2>1, <2>2, ConnNextKeepsConn, RouteNextKeepsConn, TransferStepKeepsConn, NextCases
<1> QED
  BY <1>1, <1>2, PTL DEF Spec

-----------------------------------------------------------------------------
(* Routes.                                                                 *)

EntryFields ==
  {"account", "media", "pc", "to", "owner", "last", "tried", "seen", "heard"}

(* Only sockets that were sent to count as tried, also while a transfer is *)
(* under way: its owner is new and addressed, or was tried before.         *)
RouteInv ==
  entry # NoEntry =>
    /\ DOMAIN entry = EntryFields
    /\ entry.tried \subseteq entry.seen
    /\ entry.pc = "pushed" =>
         /\ entry.seen # {}
         /\ entry.last \in entry.seen \cup {NoSocket}
    /\ entry.pc = "transfer" =>
         /\ entry.media /\ entry.to # {}
         /\ entry.owner \in entry.seen \cup entry.to \cup {NoSocket}

LEMMA RecordedAddressed ==
  ASSUME NEW e, e.to # {},
         e.media => e.owner \in e.seen \cup e.to \cup {NoSocket}
  PROVE  Recorded(e) \in e.seen \cup e.to \cup {NoSocket}
<1>1. (CHOOSE id \in e.to : TRUE) \in e.to
  OBVIOUS
<1> QED
  BY <1>1 DEF Recorded

LEMMA PushedKeepsRoute ==
  ASSUME NEW x, NEW e, DOMAIN e = EntryFields, e.tried \subseteq e.seen, e.to # {},
         e.media => e.owner \in e.seen \cup e.to \cup {NoSocket},
         entry' = Pushed(x, e)
  PROVE  RouteInv'
<1>1. Recorded(e) \in e.seen \cup e.to \cup {NoSocket}
  BY RecordedAddressed
<1>2. /\ DOMAIN entry' = EntryFields /\ entry'.pc = "pushed"
      /\ entry'.last = Recorded(e)
      /\ entry'.tried = e.tried \cup ({Recorded(e)} \ {NoSocket})
      /\ entry'.seen = e.seen \cup e.to
  BY DEF Pushed, EntryFields
<1> QED
  BY <1>1, <1>2 DEF RouteInv

LEMMA RouteNextKeepsRoute == RouteInv /\ RouteNext => RouteInv'
<1> SUFFICES ASSUME RouteInv, RouteNext PROVE RouteInv'
  OBVIOUS
<1>1. ASSUME NEW a \in Account, NEW media \in BOOLEAN, Enqueue(a, media)
      PROVE RouteInv'
  BY <1>1 DEF Enqueue, RouteInv, EntryFields
<1> DEFINE e == Chosen(net, entry)
<1>2. ASSUME MayPush
      PROVE /\ DOMAIN e = EntryFields /\ e.media = entry.media
            /\ e.tried = entry.tried /\ e.seen = entry.seen
            /\ e.to = Route(net, entry) /\ e.to # {}
            /\ e.owner = OwnerSocket(net, entry.account)
            /\ entry.tried \subseteq entry.seen
  BY <1>2 DEF MayPush, Chosen, RouteInv, EntryFields
<1>3. CASE PushText
  <2>1. MayPush /\ ~e.media /\ entry' = Pushed(net, e)
    BY <1>2, <1>3 DEF PushText
  <2> HIDE DEF e
  <2> QED
    BY <1>2, <2>1, PushedKeepsRoute
<1>4. CASE BeginMedia
  <2>1. MayPush /\ entry.media /\ entry' = [e EXCEPT !.pc = "transfer"]
    BY <1>4 DEF BeginMedia
  <2>2. e.owner \in entry.tried \cup e.to \cup {NoSocket}
    BY <1>2, <2>1 DEF Route, MediaRoute
  <2> HIDE DEF e
  <2> QED
    BY <1>2, <2>1, <2>2 DEF RouteInv, EntryFields
<1>5. CASE MediaTransferred
  <2>1. CASE entry' \in {[entry EXCEPT !.pc = "queued"], NoEntry}
    BY <1>5, <2>1 DEF MediaTransferred, RouteInv, EntryFields
  <2>2. CASE entry' = Pushed(net, entry)
    BY <1>5, <2>2, PushedKeepsRoute DEF MediaTransferred, RouteInv
  <2> QED
    BY <1>5, <2>1, <2>2 DEF MediaTransferred
<1>6. CASE PushTimesOut
  <2>1. CASE entry' = Rerouted(net', entry)
    <3> DEFINE tried == entry.tried \cup ({entry.last} \ {NoSocket})
    <3>1. /\ DOMAIN entry' = EntryFields /\ entry'.pc = "queued"
          /\ \/ entry'.tried = {} /\ entry'.seen = {}
             \/ entry'.tried = tried /\ entry'.seen = entry.seen
      BY <1>6, <2>1 DEF PushTimesOut, Rerouted, RouteInv, EntryFields
    <3>2. tried \subseteq entry.seen
      BY <1>6 DEF PushTimesOut, RouteInv
    <3> QED
      BY <3>1, <3>2 DEF RouteInv
  <2>2. CASE entry' = NoEntry
    BY <2>2 DEF RouteInv
  <2> QED
    BY <1>6, <2>1, <2>2 DEF PushTimesOut
<1>7. ASSUME NEW c \in Client, NEW n \in Sockets(c), NEW outcome, MessageAck(c, n, outcome)
      PROVE RouteInv'
  BY <1>7 DEF MessageAck, RouteInv
<1> QED
  BY <1>1, <1>3, <1>4, <1>5, <1>6, <1>7 DEF RouteNext

LEMMA TransferStepSparesEntry == TransferStep => entry' = entry
<1>1. \A a \in Account : BeginSend(a) => entry' = entry
  BY DEF BeginSend
<1>2. AckTimesOut \/ SleepEnds \/ Abort \/ WaitersCleared => entry' = entry
  BY DEF AckTimesOut, SleepEnds, Abort, WaitersCleared
<1>3. ASSUME NEW c, NEW n
      PROVE  /\ \A key, ok, path : FileAck(c, n, key, ok, path) => entry' = entry
             /\ \A valid : FileInit(c, n, valid) => entry' = entry
             /\ \A i, content : FileChunk(c, n, i, content) => entry' = entry
             /\ FileComplete(c, n) \/ FileAbort(c, n) => entry' = entry
  BY DEF FileAck, FileInit, FileChunk, FileComplete, FileAbort
<1>4. \A ok : SaveEnds(ok) => entry' = entry
  BY DEF SaveEnds
<1> QED
  BY <1>1, <1>2, <1>3, <1>4 DEF TransferStep

LEMMA RouteInductive == Spec => []RouteInv
<1>1. Init => RouteInv
  BY DEF Init, RouteInv
<1>2. RouteInv /\ [Next]_vars => RouteInv'
  <2>1. RouteInv /\ entry' = entry => RouteInv'
    BY DEF RouteInv
  <2> QED
    BY <2>1, RouteNextKeepsRoute, TransferStepSparesEntry, NextCases DEF vars
<1> QED
  BY <1>1, <1>2, PTL DEF Spec

(* The tries of a message are forgotten only after it was sent to every    *)
(* connection it could be pushed to (queue-selectors, retry-policy).       *)
THEOREM NoConnectionPassedOver == Spec => RoundsReachAll
<1>1. RouteInv /\ PushTimesOut /\ entry' # NoEntry /\ entry'.seen = {}
        => PushConnIds(net', entry.account) \subseteq entry.seen
  <2> SUFFICES ASSUME RouteInv, PushTimesOut, entry' # NoEntry, entry'.seen = {}
               PROVE  PushConnIds(net', entry.account) \subseteq entry.seen
    OBVIOUS
  <2> DEFINE tried == entry.tried \cup ({entry.last} \ {NoSocket})
  <2>1. tried \subseteq entry.seen /\ entry.seen # {}
    BY DEF PushTimesOut, RouteInv
  <2>2. \/ entry'.seen = entry.seen
        \/ PushConnIds(net', entry.account) \subseteq tried
    BY DEF PushTimesOut, Rerouted, RouteInv, EntryFields
  <2> QED
    BY <2>1, <2>2
<1> QED
  BY <1>1, RouteInductive, PTL DEF RoundsReachAll

(* An ACK timeout degrades only the socket that did not answer, and only   *)
(* while another live connection remains (degradeOutboundCapability).      *)
THEOREM DegradeIsAimed == Spec => DegradeSparesOthers
<1>1. ASSUME ConnInv, RouteInv, PushTimesOut, NEW c \in Client,
             net.conn[c] # NoConn, net'.conn[c] # NoConn,
             net'.conn[c].cap < net.conn[c].cap
      PROVE  /\ IdOf(net, c) \in entry.seen
             /\ \E d \in Client \ {c} :
                  AccountOf[d] = AccountOf[c] /\ d \in Live(net, AccountOf[d])
  <2>1. net.conn[c].cap \in 0..2
    BY <1>1 DEF ConnInv, NetShape, Connection
  <2>2. net'.conn[c] # net.conn[c]
    BY <1>1, <2>1
  <2>3. /\ entry.last # NoSocket /\ Alternative(net, entry.last)
        /\ c \in CapabilityConnection(net, entry.last)
    BY <1>1, <2>2 DEF PushTimesOut, Degrade, ConnInv, NetShape
  <2>4. /\ IdOf(net, c) = entry.last /\ entry.last[1] = c
    BY <2>3 DEF CapabilityConnection, IdOf
  <2>5. entry.last \in entry.seen
    BY <1>1, <2>3 DEF PushTimesOut, RouteInv
  <2>6. PICK d \in Live(net, AccountOf[c]) : IdOf(net, d) # entry.last
    BY <2>3, <2>4 DEF Alternative
  <2>7. d \in Client \ {c} /\ AccountOf[d] = AccountOf[c]
    BY <2>4, <2>6 DEF Live, Of
  <2> QED
    BY <2>4, <2>5, <2>6, <2>7
<1>2. ConnInv /\ RouteInv =>
        (PushTimesOut =>
           \A c \in Client :
             (net.conn[c] # NoConn /\ net'.conn[c] # NoConn
              /\ net'.conn[c].cap < net.conn[c].cap)
             => /\ IdOf(net, c) \in entry.seen
                /\ \E d \in Client \ {c} :
                     AccountOf[d] = AccountOf[c] /\ d \in Live(net, AccountOf[d]))
  BY <1>1
<1> QED
  BY <1>2, ConnInductive, RouteInductive, PTL DEF DegradeSparesOthers

-----------------------------------------------------------------------------
(* File transfers.                                                         *)

SendFields ==
  {"account", "owner", "to", "status", "path", "acked", "refused", "pc", "idx", "attempt"}

(* Clients have answered only chunks that were sent, and the transfer is   *)
(* under way as long as its orchestrator is.                               *)
SendOK(s) ==
  /\ DOMAIN s = SendFields
  /\ s.idx \in 0..Chunks
  /\ s.pc \in {"chunk", "sleep", "complete", "sent", "failed"}
  /\ s.acked \cup s.refused \subseteq 1..s.idx
  /\ s.pc = "chunk" => s.idx \notin s.acked \cup s.refused
  /\ s.pc \in {"chunk", "sleep", "complete"} => s.status \notin Terminal
  /\ s.pc \in {"chunk", "sleep"} => s.idx \in Chunk

SendInv == send # NoTransfer => SendOK(send)

LEMMA ReachOK ==
  ASSUME NEW s, NEW i \in 1..(Chunks + 1), DOMAIN s = SendFields, s.idx \in 0..Chunks,
         s.idx < i, s.acked \cup s.refused \subseteq 1..s.idx, s.status \notin Terminal
  PROVE  SendOK(Reach(s, i))
<1> USE TransferAssumption
<1>1. CASE i > Chunks
  BY <1>1 DEF Reach, SendOK, SendFields
<1>2. CASE ~(i > Chunks)
  <2>1. Reach(s, i) = [s EXCEPT !.pc = "chunk", !.idx = i, !.attempt = 1]
    BY <1>2 DEF Reach
  <2>2. i \in 1..Chunks /\ i \notin 1..s.idx /\ 1..s.idx \subseteq 1..i
    BY <1>2
  <2> QED
    BY <2>1, <2>2 DEF SendOK, SendFields, Chunk
<1> QED
  BY <1>1, <1>2

LEMMA UnansweredOK ==
  ASSUME NEW s, SendOK(s) PROVE SendOK(Unanswered(s))
<1>1. CASE s.pc = "chunk"
  BY <1>1 DEF SendOK, Unanswered, SendFields
<1>2. CASE s.pc # "chunk"
  BY <1>2 DEF SendOK, Unanswered, SendFields
<1> QED
  BY <1>1, <1>2

LEMMA ResendOK ==
  ASSUME NEW s, NEW x, SendOK(s), s.pc = "sleep" PROVE SendOK(Resend(s, x))
<1> USE TransferAssumption
<1>1. s.idx + 1 \in 1..(Chunks + 1) /\ s.idx < s.idx + 1
  BY DEF SendOK
<1>2. SendOK(Reach(s, s.idx + 1))
  BY <1>1, ReachOK DEF SendOK
<1>3. SendOK([s EXCEPT !.attempt = @ + 1])
  BY DEF SendOK, SendFields
<1>4. s.idx \notin s.refused /\ s.idx \notin s.acked
        => SendOK([s EXCEPT !.pc = "chunk", !.attempt = @ + 1])
  BY DEF SendOK, SendFields
<1> QED
  BY <1>2, <1>3, <1>4 DEF Resend

(* What an accepted ACK makes of a transfer under way, before the waiter   *)
(* is told: everything but the wait for this very answer.                  *)
LEMMA AppliedOK ==
  ASSUME NEW s, SendOK(s), s.status \notin Terminal, NEW o, NEW key \in Answerable(s),
         NEW ok \in BOOLEAN, NEW path,
         NEW t, t = Applied([s EXCEPT !.owner = o], key, ok, path)
  PROVE  /\ DOMAIN t = SendFields /\ t.idx = s.idx /\ t.pc = s.pc
         /\ t.acked \cup t.refused \subseteq 1..s.idx
         /\ key # CompleteStage => t.status \notin Terminal
         /\ key \in Chunk => t.acked \cup t.refused = s.acked \cup s.refused \cup {key}
         /\ key \notin Chunk => t.acked = s.acked /\ t.refused = s.refused
<1> USE TransferAssumption
<1> DEFINE u == [s EXCEPT !.owner = o]
<1>0. t = Applied(u, key, ok, path)
  OBVIOUS
<1>1. /\ DOMAIN u = SendFields /\ u.idx = s.idx /\ u.pc = s.pc /\ u.status = s.status
      /\ u.acked = s.acked /\ u.refused = s.refused
  BY DEF SendOK, SendFields
<1>2. /\ CompleteStage \notin Chunk /\ InitStage \notin Chunk
      /\ CompleteStage # InitStage
  BY DEF CompleteStage, InitStage, Chunk
<1>3. key \in Chunk => key \in 1..s.idx
  BY <1>2 DEF Answerable, Chunk, SendOK
<1> HIDE DEF u
<1>4. CASE key \in Chunk /\ ok
  <2>1. t = [u EXCEPT !.acked = @ \cup {key}, !.status = "transferring"]
    BY <1>0, <1>2, <1>4 DEF Applied
  <2>2. /\ DOMAIN t = SendFields /\ t.idx = s.idx /\ t.pc = s.pc
        /\ t.acked = s.acked \cup {key} /\ t.refused = s.refused
        /\ t.status = "transferring"
    BY <1>1, <2>1 DEF SendFields
  <2>3. t.status \notin Terminal
    BY <2>2 DEF Terminal
  <2>4. t.acked \cup t.refused \subseteq 1..s.idx
    BY <1>3, <1>4, <2>2 DEF SendOK
  <2> QED
    BY <1>4, <2>2, <2>3, <2>4
<1>5. CASE key \in Chunk /\ ~ok
  <2>1. t = [u EXCEPT !.refused = @ \cup {key}]
    BY <1>0, <1>2, <1>5 DEF Applied
  <2> QED
    BY <1>1, <1>2, <1>3, <1>5, <2>1 DEF SendOK, SendFields
<1>6. CASE key = CompleteStage
  <2>1. \/ t = [u EXCEPT !.status = "aborted"]
        \/ t = [u EXCEPT !.status = "completed", !.path = @ \/ path]
    BY <1>0, <1>2, <1>6 DEF Applied
  <2> QED
    BY <1>1, <1>2, <1>6, <2>1 DEF SendOK, SendFields
<1>7. CASE key \notin Chunk /\ key # CompleteStage
  <2>1. t = u
    BY <1>0, <1>7 DEF Applied
  <2> QED
    BY <1>1, <1>7, <2>1 DEF SendOK
<1> QED
  BY <1>4, <1>5, <1>6, <1>7

LEMMA FileAckKeepsSend ==
  ASSUME SendInv, NEW c, NEW n, NEW key, NEW ok \in BOOLEAN, NEW path,
         FileAck(c, n, key, ok, path)
  PROVE  SendInv'
<1> USE TransferAssumption
<1> DEFINE t == Applied([send EXCEPT !.owner = <<c, n>>], key, ok, path)
<1>1. /\ send # NoTransfer /\ SendOK(send) /\ key \in Answerable(send)
      /\ send.status \notin Terminal
      /\ send' = IF Awaits(send, key) THEN Woken(t, key, ok) ELSE t
  BY DEF FileAck, SendInv, Accepts
<1>2. /\ DOMAIN t = SendFields /\ t.idx = send.idx /\ t.pc = send.pc
      /\ t.acked \cup t.refused \subseteq 1..send.idx
      /\ key # CompleteStage => t.status \notin Terminal
      /\ key \in Chunk => t.acked \cup t.refused = send.acked \cup send.refused \cup {key}
      /\ key \notin Chunk => t.acked = send.acked /\ t.refused = send.refused
  BY <1>1, AppliedOK
<1>3. CompleteStage \notin Chunk
  BY DEF CompleteStage, Chunk
<1> HIDE DEF t
<1>4. CASE Awaits(send, key) /\ ~ok
  BY <1>1, <1>2, <1>3, <1>4
     DEF SendInv, SendOK, SendFields, Awaits, Woken, Unanswered, Chunk
<1>5. CASE Awaits(send, key) /\ ok /\ key \in Chunk
  <2>1. send.idx = key /\ t.status \notin Terminal /\ send' = Reach(t, key + 1)
    BY <1>1, <1>2, <1>3, <1>5 DEF Awaits, Woken
  <2>2. key + 1 \in 1..(Chunks + 1) /\ t.idx < key + 1 /\ t.idx \in 0..Chunks
    BY <1>2, <1>5, <2>1 DEF Chunk
  <2> QED
    BY <1>2, <2>1, <2>2, ReachOK DEF SendInv
<1>6. CASE Awaits(send, key) /\ ok /\ key \notin Chunk
  BY <1>1, <1>2, <1>6 DEF SendInv, SendOK, SendFields, Woken
<1>7. CASE ~Awaits(send, key)
  <2>1. send.pc = "chunk" => key # send.idx
    BY <1>7 DEF Awaits
  <2>2. key = CompleteStage => send.pc \in {"sent", "failed"}
    BY <1>1, <1>3, <1>7 DEF Awaits, Answerable, CompleteStage, InitStage
  <2> QED
    BY <1>1, <1>2, <1>7, <2>1, <2>2 DEF SendInv, SendOK
<1> QED
  BY <1>4, <1>5, <1>6, <1>7

LEMMA TransferStepKeepsSend == SendInv /\ TransferStep => SendInv'
<1> SUFFICES ASSUME SendInv, TransferStep PROVE SendInv'
  OBVIOUS
<1> USE TransferAssumption
<1>1. ASSUME NEW a \in Account, BeginSend(a) PROVE SendInv'
  <2>1. PICK o, to : send' = Reach([account |-> a, owner |-> o, to |-> to,
                          status |-> "init", path |-> FALSE,
                          acked |-> {}, refused |-> {},
                          pc |-> "chunk", idx |-> 0, attempt |-> 0], 1)
    BY <1>1 DEF BeginSend
  <2> DEFINE s == [account |-> a, owner |-> o, to |-> to, status |-> "init",
                   path |-> FALSE, acked |-> {}, refused |-> {},
                   pc |-> "chunk", idx |-> 0, attempt |-> 0]
  <2>2. /\ DOMAIN s = SendFields /\ s.idx = 0 /\ s.acked \cup s.refused = {}
        /\ s.status \notin Terminal
    BY DEF SendFields, Terminal
  <2> HIDE DEF s
  <2>3. SendOK(Reach(s, 1))
    BY <2>2, ReachOK
  <2> QED
    BY <2>1, <2>3 DEF SendInv, s
<1>2. CASE AckTimesOut
  BY <1>2, UnansweredOK DEF AckTimesOut, SendInv
<1>3. CASE SleepEnds
  BY <1>3, ResendOK DEF SleepEnds, SendInv
<1>4. CASE Abort
  BY <1>4 DEF Abort, SendInv, SendOK, SendFields
<1>5. CASE WaitersCleared
  BY <1>5, UnansweredOK DEF WaitersCleared, SendInv
<1>6. ASSUME NEW c, NEW n
      PROVE  /\ \A key, path : \A ok \in BOOLEAN :
                  FileAck(c, n, key, ok, path) => SendInv'
             /\ \A valid : FileInit(c, n, valid) => send' = send
             /\ \A i, content : FileChunk(c, n, i, content) => send' = send
             /\ FileComplete(c, n) \/ FileAbort(c, n) => send' = send
  BY FileAckKeepsSend DEF FileInit, FileChunk, FileComplete, FileAbort
<1>7. \A ok : SaveEnds(ok) => send' = send
  BY DEF SaveEnds
<1>8. send' = send => SendInv'
  BY DEF SendInv
<1> QED
  BY <1>1, <1>2, <1>3, <1>4, <1>5, <1>6, <1>7, <1>8 DEF TransferStep

LEMMA SendInductive == Spec => []SendInv
<1>1. Init => SendInv
  BY DEF Init, SendInv
<1>2. SendInv /\ [Next]_vars => SendInv'
  <2>1. SendInv /\ send' = send => SendInv'
    BY DEF SendInv
  <2> QED
    BY <2>1, TransferStepKeepsSend, NextCases DEF vars
<1> QED
  BY <1>1, <1>2, PTL DEF Spec

(* No waiter of a transfer waits for an answer that has been given, for    *)
(* any number of chunks (file-transfer-orchestrator.ts).                   *)
THEOREM NobodyWaitsInVain == Spec => []NoAnswerMissed
<1>1. SendInv => NoAnswerMissed
  BY DEF SendInv, SendOK, NoAnswerMissed
<1> QED
  BY <1>1, SendInductive, PTL

(* A transfer that ended keeps its end (hasTerminalFileAckState).          *)
THEOREM SentFileKeepsItsEnd == Spec => SendEndIsFinal
<1> DEFINE Ended == send # NoTransfer /\ send.status \in Terminal
           Kept == send' # NoTransfer /\ send'.status = send.status
<1>1. SendInv /\ Next => (Ended => Kept) \/ send' = send
  <2> SUFFICES ASSUME SendInv, TransferStep, Ended PROVE Kept \/ send' = send
    BY NextCases
  <2>1. /\ SendOK(send) /\ send.pc \in {"sent", "failed"}
    BY DEF SendInv, SendOK
  <2>2. ~(\E a \in Account : BeginSend(a)) /\ ~AckTimesOut /\ ~SleepEnds /\ ~Abort
    BY <2>1 DEF BeginSend, AckTimesOut, SleepEnds, Abort
  <2>3. WaitersCleared => send' = send
    BY <2>1 DEF WaitersCleared
  <2>4. \A c, n, key, ok, path : ~FileAck(c, n, key, ok, path)
    BY DEF FileAck, Accepts
  <2>5. ASSUME NEW c, NEW n
        PROVE  /\ \A valid : FileInit(c, n, valid) => send' = send
               /\ \A i, content : FileChunk(c, n, i, content) => send' = send
               /\ FileComplete(c, n) \/ FileAbort(c, n) => send' = send
    BY DEF FileInit, FileChunk, FileComplete, FileAbort
  <2>6. \A ok : SaveEnds(ok) => send' = send
    BY DEF SaveEnds
  <2> QED
    BY <2>2, <2>3, <2>4, <2>5, <2>6 DEF TransferStep
<1>2. SendInv /\ [Next]_vars =>
        [send # NoTransfer /\ send.status \in Terminal
           => send' # NoTransfer /\ send'.status = send.status]_send
  BY <1>1 DEF vars
<1> QED
  BY <1>2, SendInductive, PTL DEF Spec, SendEndIsFinal

(* A received file keeps its end, unless a completion that awaited its     *)
(* write decides (isActiveInboundTransfer, handleFileComplete).            *)
THEOREM ReceivedFileKeepsItsEnd == Spec => RecvEndHolds
<1>1. ASSUME recv # NoTransfer, recv.status \in Terminal, saving = 0, TransferStep
      PROVE  recv' = recv
  <2>1. ~Active
    BY <1>1 DEF Active
  <2>2. \A a \in Account : BeginSend(a) => recv' = recv
    BY DEF BeginSend
  <2>3. AckTimesOut \/ SleepEnds \/ Abort \/ WaitersCleared => recv' = recv
    BY DEF AckTimesOut, SleepEnds, Abort, WaitersCleared
  <2>4. ASSUME NEW c, NEW n
        PROVE  /\ \A key, ok, path : FileAck(c, n, key, ok, path) => recv' = recv
               /\ \A valid : FileInit(c, n, valid) => recv' = recv
               /\ \A i, content : ~FileChunk(c, n, i, content)
               /\ ~FileComplete(c, n) /\ ~FileAbort(c, n)
    BY <1>1, <2>1 DEF FileAck, FileInit, FileChunk, FileComplete, FileAbort
  <2>5. \A ok : ~SaveEnds(ok)
    BY <1>1 DEF SaveEnds
  <2> QED
    BY <1>1, <2>2, <2>3, <2>4, <2>5 DEF TransferStep
<1>2. [Next]_vars =>
        [recv # NoTransfer /\ recv.status \in Terminal /\ saving = 0
           => recv'.status = recv.status]_recv
  BY <1>1, NextCases DEF vars
<1> QED
  BY <1>2, PTL DEF Spec, RecvEndHolds

-----------------------------------------------------------------------------
(* The order of connections and the choice of the best.                    *)

(* A set of numbers has a least one.                                      *)
LEMMA LeastNat ==
  ASSUME NEW T, T \subseteq Nat, T # {}
  PROVE  \E m \in T : \A n \in T : m <= n
<1> DEFINE R == {ss \in Nat \X Nat : ss[1] < ss[2]}
<1>1. IsWellFoundedOn(R, Nat)
  BY NatLessThanWellFounded DEF OpToRel
<1>2. \A x, y \in Nat : x < y => <<x, y>> \in R
  OBVIOUS
<1> HIDE DEF R
<1>3. PICK x \in T : \A y \in T : ~(<<y, x>> \in R)
  BY <1>1, WFMin
<1>4. ASSUME NEW y \in T PROVE x <= y
  <2>1. x \in Nat /\ y \in Nat /\ ~(y < x)
    BY <1>2, <1>3
  <2> QED
    BY <2>1
<1> QED
  BY <1>4

(* A finite set that a relation orders strictly and totally has a first    *)
(* element: one with the fewest before it.                                 *)
LEMMA FirstOfFinite ==
  ASSUME NEW S, IsFiniteSet(S), S # {}, NEW R,
         \A c, d \in S : c # d => <<c, d>> \in R \/ <<d, c>> \in R,
         \A c \in S : <<c, c>> \notin R,
         \A c, d, e \in S : <<c, d>> \in R /\ <<d, e>> \in R => <<c, e>> \in R
  PROVE  \E c \in S : \A d \in S \ {c} : <<c, d>> \in R
<1> DEFINE Before(c) == {d \in S : <<d, c>> \in R}
           Count == [c \in S |-> Cardinality(Before(c))]
           T == {Count[c] : c \in S}
<1>1. \A c \in S : \A d : d \in Before(c) <=> d \in S /\ <<d, c>> \in R
  OBVIOUS
<1>2. \A c \in S : Count[c] = Cardinality(Before(c)) /\ Before(c) \in SUBSET S
  OBVIOUS
<1> HIDE DEF Before, Count
<1>3. ASSUME NEW c \in S PROVE IsFiniteSet(Before(c)) /\ Count[c] \in Nat
  BY <1>2, FS_Subset, FS_CardinalityType
<1>4. T \subseteq Nat /\ T # {}
  BY <1>3
<1>5. PICK m \in T : \A n \in T : m <= n
  BY <1>4, LeastNat
<1>6. PICK c \in S : m = Count[c]
  OBVIOUS
<1>7. ASSUME NEW d \in S \ {c}, <<c, d>> \notin R PROVE FALSE
  <2>1. <<d, c>> \in R
    BY <1>7
  <2>2. /\ \A e : e \in Before(d) => e \in Before(c)
        /\ d \in Before(c) /\ d \notin Before(d)
    BY <1>1, <2>1
  <2>3. Before(d) \in SUBSET Before(c) /\ Before(c) # Before(d)
    BY <2>2
  <2>4. Count[d] <= Count[c] /\ Count[c] # Count[d]
    BY <1>2, <1>3, <2>3, FS_Subset
  <2>5. Count[c] <= Count[d] /\ Count[c] \in Nat /\ Count[d] \in Nat
    BY <1>3, <1>5, <1>6
  <2> QED
    BY <2>4, <2>5
<1> QED
  BY <1>7

(* Whom the code knows as seen later, among the clients connected.         *)
Ordered(x) ==
  /\ IsFiniteSet(Connected(x))
  /\ x.later \subseteq Connected(x) \X Connected(x)
  /\ \A c \in Connected(x) : <<c, c>> \notin x.later
  /\ \A c, d \in Connected(x) : c # d => <<c, d>> \in x.later \/ <<d, c>> \in x.later
  /\ \A c, d, e \in Connected(x) :
       <<c, d>> \in x.later /\ <<d, e>> \in x.later => <<c, e>> \in x.later

LEMMA BestInSet ==
  ASSUME NEW x, NetShape(x), Ordered(x), NEW S \in SUBSET Connected(x), S # {}
  PROVE  Best(x, S) \in S
<1> DEFINE R == {p \in S \X S : Preferable(x, p[1], p[2])}
           cap == [c \in S |-> x.conn[c].cap]
<1>1. IsFiniteSet(S)
  BY FS_Subset DEF Ordered
<1>2. \A c \in S : cap[c] \in 0..2
  BY DEF NetShape, Connected, Connection
<1>3. /\ \A c \in S : <<c, c>> \notin x.later
      /\ \A c, d \in S : c # d => <<c, d>> \in x.later \/ <<d, c>> \in x.later
      /\ \A c, d, e \in S :
           <<c, d>> \in x.later /\ <<d, e>> \in x.later => <<c, e>> \in x.later
  BY DEF Ordered
<1>4. \A c, d \in S : <<c, d>> \in R <=>
        \/ cap[c] > cap[d]
        \/ (cap[c] = cap[d] /\ <<c, d>> \in x.later)
  BY DEF Preferable, SeenLater
<1>5. \A c, d \in S : <<c, d>> \in R <=> Preferable(x, c, d)
  OBVIOUS
<1> HIDE DEF R, cap
<1>6. ASSUME NEW c \in S, NEW d \in S, c # d PROVE <<c, d>> \in R \/ <<d, c>> \in R
  <2>1. cap[c] \in Int /\ cap[d] \in Int
    BY <1>2
  <2>2. <<c, d>> \in x.later \/ <<d, c>> \in x.later
    BY <1>3, <1>6
  <2>3. <<c, d>> \in R <=> cap[c] > cap[d] \/ (cap[c] = cap[d] /\ <<c, d>> \in x.later)
    BY <1>4
  <2>4. <<d, c>> \in R <=> cap[d] > cap[c] \/ (cap[d] = cap[c] /\ <<d, c>> \in x.later)
    BY <1>4
  <2> QED
    BY <2>1, <2>2, <2>3, <2>4
<1>7. ASSUME NEW c \in S PROVE <<c, c>> \notin R
  <2>1. cap[c] \in Int /\ <<c, c>> \notin x.later
    BY <1>2, <1>3
  <2>2. <<c, c>> \in R <=> cap[c] > cap[c] \/ (cap[c] = cap[c] /\ <<c, c>> \in x.later)
    BY <1>4
  <2> QED
    BY <2>1, <2>2
<1>8. ASSUME NEW c \in S, NEW d \in S, NEW e \in S, <<c, d>> \in R, <<d, e>> \in R
      PROVE  <<c, e>> \in R
  <2>1. cap[c] \in Int /\ cap[d] \in Int /\ cap[e] \in Int
    BY <1>2
  <2>2. <<c, d>> \in x.later /\ <<d, e>> \in x.later => <<c, e>> \in x.later
    BY <1>3
  <2>3. cap[c] > cap[d] \/ (cap[c] = cap[d] /\ <<c, d>> \in x.later)
    BY <1>4, <1>8
  <2>4. cap[d] > cap[e] \/ (cap[d] = cap[e] /\ <<d, e>> \in x.later)
    BY <1>4, <1>8
  <2>5. <<c, e>> \in R <=> cap[c] > cap[e] \/ (cap[c] = cap[e] /\ <<c, e>> \in x.later)
    BY <1>4
  <2> QED
    BY <2>1, <2>2, <2>3, <2>4, <2>5
<1>9. \E c \in S : \A d \in S \ {c} : <<c, d>> \in R
  BY <1>1, <1>6, <1>7, <1>8, FirstOfFinite
<1> QED
  BY <1>5, <1>9 DEF Best

ActiveOK(x) ==
  /\ x.active \in [Account -> Client \cup {NoClient}]
  /\ \A a \in Account : x.active[a] # NoClient => x.active[a] \in Of(x, a)

NetOK(x) ==
  /\ NetShape(x) /\ Ordered(x) /\ ActiveOK(x)
  /\ x.reach \in [Account -> BOOLEAN]
  /\ x.early \subseteq EarlyAck

LEMMA SameConnected ==
  ASSUME NEW x, NEW y, Ordered(x), ActiveOK(x), Connected(y) = Connected(x),
         y.later = x.later, y.active = x.active
  PROVE  Ordered(y) /\ ActiveOK(y)
<1>1. Ordered(y)
  BY DEF Ordered
<1>2. ActiveOK(y)
  BY DEF ActiveOK, Of, Connected
<1> QED
  BY <1>1, <1>2

LEMMA StillCachedType ==
  ASSUME NEW acks \in SUBSET EarlyAck PROVE StillCached(acks) \subseteq EarlyAck
<1> SUFFICES ASSUME NEW e \in acks
             PROVE  [e EXCEPT !.after = @ \cap {d.key : d \in acks}] \in EarlyAck
  BY DEF StillCached
<1>1. e \in EarlyAck
  OBVIOUS
<1> QED
  BY <1>1 DEF EarlyAck

LEMMA GcOK ==
  ASSUME NEW x, NetOK(x) PROVE NetOK(Gc(x))
<1> DEFINE y == Gc(x)
<1>1. NetShape(y)
  BY GcShape DEF NetOK
<1>2. /\ y.conn = [c \in Client |-> IF c \in Swept(x) THEN NoConn ELSE x.conn[c]]
      /\ y.active = [a \in Account |->
                       IF x.active[a] \in Swept(x) THEN NoClient ELSE x.active[a]]
      /\ y.later = {p \in x.later : p[1] \notin Swept(x) /\ p[2] \notin Swept(x)}
      /\ y.reach = x.reach
      /\ y.early = StillCached({e \in x.early : ~e.old})
  BY DEF Gc, NetOK, NetShape
<1> HIDE DEF y
<1>3. /\ Connected(y) \in SUBSET Connected(x)
      /\ \A c \in Connected(y) : c \notin Swept(x)
      /\ \A c \in Client : c \notin Swept(x) => y.conn[c] = x.conn[c]
  BY <1>2 DEF Connected
<1>4. Ordered(y)
  <2>1. IsFiniteSet(Connected(y))
    BY <1>3, FS_Subset DEF NetOK, Ordered
  <2>2. y.later \subseteq Connected(y) \X Connected(y)
    <3> SUFFICES ASSUME NEW p \in y.later PROVE p \in Connected(y) \X Connected(y)
      OBVIOUS
    <3>1. /\ p \in Connected(x) \X Connected(x)
          /\ p[1] \notin Swept(x) /\ p[2] \notin Swept(x)
      BY <1>2 DEF NetOK, Ordered
    <3> QED
      BY <1>3, <3>1 DEF Connected
  <2>3. \A c, d \in Connected(y) : <<c, d>> \in y.later <=> <<c, d>> \in x.later
    BY <1>2, <1>3
  <2> QED
    BY <1>3, <2>1, <2>2, <2>3 DEF NetOK, Ordered
<1>5. ActiveOK(y)
  <2>1. y.active \in [Account -> Client \cup {NoClient}]
    BY <1>2 DEF NetOK, ActiveOK
  <2>2. ASSUME NEW a \in Account, y.active[a] # NoClient PROVE y.active[a] \in Of(y, a)
    <3>1. y.active[a] = x.active[a] /\ x.active[a] \notin Swept(x)
      BY <1>2, <2>2
    <3>2. x.active[a] \in Of(x, a)
      BY <2>2, <3>1 DEF NetOK, ActiveOK
    <3> QED
      BY <1>3, <3>1, <3>2 DEF Of
  <2> QED
    BY <2>1, <2>2 DEF ActiveOK
<1>6. y.early \subseteq EarlyAck
  BY <1>2, StillCachedType DEF NetOK
<1> QED
  BY <1>1, <1>2, <1>4, <1>5, <1>6 DEF NetOK, y

LEMMA MarkSeenOK ==
  ASSUME NEW x, NetOK(x), NEW c \in Client, NEW n \in Nat \ {0}
  PROVE  NetOK(MarkSeen(x, c, n)) /\ MarkSeen(x, c, n).conn[c] \in Connection
<1> USE ConnectionsAssumption, NoConnAssumption
<1> DEFINE y == Gc(x)
           seen == SeenConnection(y.conn[c], n)
           others == Connected(y) \ {c}
           z == [y EXCEPT !.conn[c] = seen,
                          !.later = {p \in @ : p[1] # c /\ p[2] # c}
                                     \cup {<<c, d>> : d \in Connected(y) \ {c}}]
<1>1. NetOK(y)
  BY GcOK
<1>2. seen \in Connection
  BY <1>1, SeenConnectionType DEF NetOK, NetShape
<1>3. MarkSeen(x, c, n) = PromoteSeen(z, AccountOf[c], c)
  BY DEF MarkSeen
<1>4. /\ NetShape(MarkSeen(x, c, n)) /\ MarkSeen(x, c, n).conn[c] \in Connection
  BY MarkSeenShape DEF NetOK
<1>5. /\ z.conn = [y.conn EXCEPT ![c] = seen] /\ z.active = y.active
      /\ z.later = {p \in y.later : p[1] # c /\ p[2] # c} \cup {<<c, d>> : d \in others}
      /\ z.reach = y.reach /\ z.early = y.early
      /\ NetShape(z)
  BY <1>1, <1>2 DEF NetOK, NetShape
<1> HIDE DEF y, z, seen
<1>6. Connected(z) = others \cup {c} /\ c \notin others
  BY <1>1, <1>2, <1>5 DEF NetOK, NetShape, Connected
<1>7. Ordered(z)
  <2>1. /\ IsFiniteSet(Connected(y))
        /\ y.later \subseteq Connected(y) \X Connected(y)
        /\ \A d \in Connected(y) : <<d, d>> \notin y.later
        /\ \A d, e \in Connected(y) : d # e => <<d, e>> \in y.later \/ <<e, d>> \in y.later
        /\ \A d, e, f \in Connected(y) :
             <<d, e>> \in y.later /\ <<e, f>> \in y.later => <<d, f>> \in y.later
    BY <1>1 DEF NetOK, Ordered
  <2>2. IsFiniteSet(Connected(z))
    <3>1. IsFiniteSet(others)
      BY <2>1, FS_Subset
    <3> QED
      BY <1>6, <3>1, FS_AddElement
  <2>3. \A d, e \in others : <<d, e>> \in z.later <=> <<d, e>> \in y.later
    BY <1>5, <1>6
  <2>4. \A d \in others : <<c, d>> \in z.later /\ <<d, c>> \notin z.later
    BY <1>5, <1>6
  <2>5. <<c, c>> \notin z.later
    BY <1>5, <1>6
  <2>6. z.later \subseteq Connected(z) \X Connected(z)
    <3> SUFFICES ASSUME NEW p \in z.later PROVE p \in Connected(z) \X Connected(z)
      OBVIOUS
    <3>1. CASE p \in y.later /\ p[1] # c /\ p[2] # c
      <4>1. p \in Connected(y) \X Connected(y)
        BY <2>1, <3>1
      <4> QED
        BY <1>6, <3>1, <4>1
    <3>2. CASE p \in {<<c, d>> : d \in others}
      BY <1>6, <3>2
    <3> QED
      BY <1>5, <3>1, <3>2
  <2> QED
    BY <1>6, <2>1, <2>2, <2>3, <2>4, <2>5, <2>6 DEF Ordered
<1>8. ActiveOK(z)
  BY <1>1, <1>2, <1>5 DEF NetOK, ActiveOK, Of, NetShape
<1>9. z.conn[c] # NoConn /\ AccountOf[c] \in Account /\ c # NoClient
  BY <1>1, <1>2, <1>5 DEF NetOK, NetShape
<1>10. NetOK(z)
  BY <1>1, <1>5, <1>7, <1>8 DEF NetOK
<1>11. ASSUME NEW w, w = [z EXCEPT !.active[AccountOf[c]] = c] PROVE NetOK(w)
  <2>1. /\ NetShape(w) /\ w.conn = z.conn /\ w.later = z.later /\ w.reach = z.reach
        /\ w.early = z.early /\ w.active = [z.active EXCEPT ![AccountOf[c]] = c]
    BY <1>5, <1>11 DEF NetShape
  <2>2. Ordered(w)
    BY <1>7, <2>1 DEF Ordered, Connected
  <2>3. ActiveOK(w)
    BY <1>8, <1>9, <2>1 DEF ActiveOK, Of
  <2> QED
    BY <1>10, <2>1, <2>2, <2>3 DEF NetOK
<1> QED
  BY <1>3, <1>4, <1>10, <1>11 DEF PromoteSeen

LEMMA ChangedConnOK ==
  ASSUME NEW x, NetOK(x), NEW c \in Connected(x), NEW k \in Connection,
         NEW y, y = [x EXCEPT !.conn[c] = k]
  PROVE  NetOK(y)
<1>1. /\ NetShape(y) /\ y.later = x.later /\ y.active = x.active
      /\ y.reach = x.reach /\ y.early = x.early /\ y.conn = [x.conn EXCEPT ![c] = k]
  BY DEF NetOK, NetShape, Connected
<1>2. Connected(y) = Connected(x)
  BY <1>1, NoConnAssumption DEF Connected, NetOK, NetShape
<1> QED
  BY <1>1, <1>2, SameConnected DEF NetOK

LEMMA RefreshLiveOK ==
  ASSUME NEW x, NetOK(x), NEW c \in Client, NEW n \in Nat \ {0}, NEW flag
  PROVE  NetOK(Refresh(x, c, n)) /\ NetOK(RefreshLive(x, c, n, flag))
<1> DEFINE s == MarkSeen(x, c, n)
           r == Refresh(x, c, n)
<1>1. NetOK(s) /\ s.conn[c] \in Connection
  BY MarkSeenOK
<1>2. r = [s EXCEPT !.reach[AccountOf[c]] = TRUE]
  BY DEF Refresh, MarkActivity
<1> HIDE DEF s, r
<1>3. /\ r.conn = s.conn /\ r.later = s.later /\ r.active = s.active /\ r.early = s.early
      /\ NetShape(r) /\ r.reach \in [Account -> BOOLEAN]
  BY <1>1, <1>2 DEF NetOK, NetShape
<1>4. NetOK(r) /\ c \in Connected(r) /\ r.conn[c] \in Connection
  BY <1>1, <1>3, SameConnected, NoConnAssumption DEF NetOK, Connected
<1>5. WithCapability(r.conn[c], flag) \in Connection
  BY <1>4, WithCapabilityType
<1>6. RefreshLive(x, c, n, flag) = [r EXCEPT !.conn[c] = WithCapability(r.conn[c], flag)]
  BY DEF RefreshLive, r
<1> QED
  BY <1>4, <1>5, <1>6, ChangedConnOK DEF r

LEMMA OwnerEligible ==
  ASSUME NEW x, NetOK(x), NEW a
  PROVE  PushOwner(x, a) \in Eligible(x, a) \cup {NoClient}
<1>1. Eligible(x, a) # {} => Best(x, Eligible(x, a)) \in Eligible(x, a)
  <2>1. Eligible(x, a) \in SUBSET Connected(x)
    BY DEF Eligible, Live, Of, Connected
  <2> QED
    BY <2>1, BestInSet DEF NetOK
<1> QED
  BY <1>1 DEF PushOwner

LEMMA PromoteOK ==
  ASSUME NEW x, NetOK(x), NEW a
  PROVE  NetOK(Promote(x, a)) /\ NetOK(MarkActivity(x, a))
<1> DEFINE y == Promote(x, a)
           z == MarkActivity(x, a)
<1>1. NetOK(y)
  <2>1. CASE PushOwner(x, a) = NoClient
    BY <2>1 DEF Promote
  <2>2. CASE PushOwner(x, a) # NoClient
    <3>1. PushOwner(x, a) \in Of(x, a)
      BY <2>2, OwnerEligible DEF Eligible, Live
    <3>2. /\ y.conn = x.conn /\ y.later = x.later /\ y.reach = x.reach
          /\ y.early = x.early /\ NetShape(y)
          /\ y.active = [x.active EXCEPT ![a] = PushOwner(x, a)]
      BY <2>2 DEF Promote, NetOK, NetShape
    <3>3. Ordered(y)
      BY <3>2 DEF NetOK, Ordered, Connected
    <3>4. ActiveOK(y)
      BY <3>1, <3>2 DEF NetOK, ActiveOK, Of
    <3> QED
      BY <3>2, <3>3, <3>4 DEF NetOK
  <2> QED
    BY <2>1, <2>2
<1>2. NetOK(z)
  <2>1. /\ z.conn = x.conn /\ z.later = x.later /\ z.active = x.active
        /\ z.early = x.early /\ NetShape(z) /\ z.reach \in [Account -> BOOLEAN]
    BY DEF MarkActivity, NetOK, NetShape
  <2> QED
    BY <2>1, SameConnected DEF NetOK, Connected
<1> QED
  BY <1>1, <1>2

LEMMA CapableOK ==
  ASSUME NEW x, NetOK(x), NEW c \in Client, NEW n
  PROVE  NetOK(Capable(x, c, n))
<1>1. CASE x.conn[c] # NoConn
  <2>1. c \in Connected(x) /\ x.conn[c] \in Connection
    BY <1>1 DEF Connected, NetOK, NetShape
  <2>2. [x.conn[c] EXCEPT !.cap = 2] \in Connection
    BY <2>1 DEF Connection
  <2>3. NetOK([x EXCEPT !.conn[c] = [x.conn[c] EXCEPT !.cap = 2]])
    BY <2>1, <2>2, ChangedConnOK
  <2> QED
    BY <2>3 DEF Capable
<1> QED
  BY <1>1 DEF Capable

LEMMA DegradeOK ==
  ASSUME NEW x, NetOK(x), NEW id
  PROVE  NetOK(Degrade(x, id))
<1> DEFINE y == Degrade(x, id)
<1>1. CASE Alternative(x, id)
  <2>1. /\ y.conn = [c \in Client |-> IF c \in CapabilityConnection(x, id)
                                      THEN [x.conn[c] EXCEPT !.cap = 0] ELSE x.conn[c]]
        /\ y.later = x.later /\ y.active = x.active /\ y.reach = x.reach
        /\ y.early = x.early /\ DOMAIN y = DOMAIN x
    BY <1>1 DEF Degrade, NetOK, NetShape
  <2>2. \A c \in CapabilityConnection(x, id) : c \in Connected(x)
    BY DEF CapabilityConnection, Of, Connected
  <2>3. \A c \in Connected(x) : [x.conn[c] EXCEPT !.cap = 0] \in Connection
    BY DEF Connected, NetOK, NetShape, Connection
  <2> HIDE DEF y
  <2>4. NetShape(y)
    BY <2>1, <2>2, <2>3 DEF NetOK, NetShape
  <2>5. Connected(y) = Connected(x)
    BY <2>1, <2>2, <2>3, NoConnAssumption DEF Connected
  <2>6. NetOK(y)
    BY <2>1, <2>4, <2>5, SameConnected DEF NetOK
  <2> QED
    BY <2>6 DEF y
<1> QED
  BY <1>1 DEF Degrade

LEMMA ChangedEarlyOK ==
  ASSUME NEW x, NetOK(x), NEW acks \in SUBSET EarlyAck
  PROVE  NetOK([x EXCEPT !.early = acks])
<1> DEFINE y == [x EXCEPT !.early = acks]
<1>1. /\ y.conn = x.conn /\ y.later = x.later /\ y.active = x.active
      /\ y.reach = x.reach /\ y.early = acks /\ NetShape(y)
  BY DEF NetOK, NetShape
<1> HIDE DEF y
<1>2. NetOK(y)
  BY <1>1, SameConnected DEF NetOK, Connected
<1> QED
  BY <1>2 DEF y

LEMMA RememberType ==
  ASSUME NEW x, x.early \subseteq EarlyAck, NEW key \in Nat, NEW ok \in BOOLEAN
  PROVE  \E acks \in SUBSET EarlyAck : Remember(x, key, ok) = [x EXCEPT !.early = acks]
<1> DEFINE ack == [key |-> key, ok |-> ok, old |-> FALSE,
                   after |-> {e.key : e \in x.early}]
           all == IF EarlyFor(x, key) = {} THEN x.early \cup {ack}
                  ELSE {IF e.key = key THEN [ack EXCEPT !.after = e.after] ELSE e
                          : e \in x.early}
<1>1. ack \in EarlyAck
  BY DEF EarlyAck
<1>2. \A e \in x.early : [ack EXCEPT !.after = e.after] \in EarlyAck
  BY DEF EarlyAck
<1>3. all \in SUBSET EarlyAck
  BY <1>1, <1>2
<1>4. Remember(x, key, ok) =
        [x EXCEPT !.early = IF Cardinality(all) > MaxEarly
                            THEN StillCached({e \in all : e.after # {}}) ELSE all]
  BY DEF Remember
<1> HIDE DEF all
<1>5. StillCached({e \in all : e.after # {}}) \in SUBSET EarlyAck
  BY <1>3, StillCachedType
<1> QED
  BY <1>3, <1>4, <1>5

LEMMA EarlyOK ==
  ASSUME NEW x, NetOK(x), NEW key \in Nat, NEW ok \in BOOLEAN
  PROVE  NetOK(WithoutEarly(x, key)) /\ NetOK(Remember(x, key, ok))
<1>1. StillCached({e \in x.early : e.key # key}) \in SUBSET EarlyAck
  BY StillCachedType DEF NetOK
<1>2. NetOK(WithoutEarly(x, key))
  BY <1>1, ChangedEarlyOK DEF WithoutEarly
<1>3. PICK acks \in SUBSET EarlyAck : Remember(x, key, ok) = [x EXCEPT !.early = acks]
  BY RememberType DEF NetOK
<1>4. NetOK(Remember(x, key, ok))
  BY <1>3, ChangedEarlyOK
<1> QED
  BY <1>2, <1>4

LEMMA ConnNextKeepsNet ==
  ASSUME ConnInv, ClientsLeft, NetOK(net), ConnNext PROVE NetOK(net')
<1>1. ASSUME NEW c \in Client, NEW flag, Connect(c, flag) PROVE NetOK(net')
  <2>1. Len(sockets[c]) + 1 \in Nat \ {0}
    BY DEF ConnInv
  <2> QED
    BY <1>1, <2>1, RefreshLiveOK DEF Connect
<1>2. ASSUME NEW c \in Client, NEW n \in Sockets(c), NEW flag, Activity(c, n, flag)
      PROVE NetOK(net')
  BY <1>2, SocketNumber, RefreshLiveOK DEF Activity
<1>3. ASSUME NEW c \in Client, CapabilityLapses(c) PROVE NetOK(net')
  <2>1. c \in Connected(net) /\ net.conn[c] \in Connection
    BY <1>3 DEF CapabilityLapses, Connected, NetOK, NetShape
  <2> DEFINE k == net.conn[c]
  <2>2. k.cap - 1 \in 0..2
    BY <1>3, <2>1 DEF CapabilityLapses, Connection
  <2>3. [k EXCEPT !.cap = k.cap - 1] \in Connection
    BY <2>1, <2>2 DEF Connection
  <2>4. net' = [net EXCEPT !.conn[c] = [k EXCEPT !.cap = k.cap - 1]]
    BY <1>3 DEF CapabilityLapses
  <2> HIDE DEF k
  <2> QED
    BY <2>1, <2>3, <2>4, ChangedConnOK
<1>4. ASSUME NEW c \in Client, Ages(c) PROVE NetOK(net')
  <2>1. c \in Connected(net) /\ net.conn[c] \in Connection
    BY <1>4 DEF Ages, Connected, NetOK, NetShape
  <2> DEFINE k == net.conn[c]
  <2>2. k.age + 1 \in 0..2 /\ 0 \in 0..2
    BY <1>4, <2>1 DEF Ages, Connection
  <2>3. [k EXCEPT !.age = k.age + 1, !.cap = 0] \in Connection
    BY <2>1, <2>2 DEF Connection
  <2>4. net' = [net EXCEPT !.conn[c] = [k EXCEPT !.age = k.age + 1, !.cap = 0]]
    BY <1>4, <2>1 DEF Ages, NetOK, NetShape
  <2> HIDE DEF k
  <2> QED
    BY <2>1, <2>3, <2>4, ChangedConnOK
<1>5. ASSUME NEW a \in Account, ReachLapses(a) PROVE NetOK(net')
  <2>1. /\ net'.conn = net.conn /\ net'.later = net.later /\ net'.active = net.active
        /\ net'.early = net.early /\ NetShape(net') /\ net'.reach \in [Account -> BOOLEAN]
    BY <1>5 DEF ReachLapses, NetOK, NetShape
  <2> QED
    BY <2>1, SameConnected DEF NetOK, Connected
<1>6. CASE AcksAge
  <2>1. net' = [net EXCEPT !.early = {[e EXCEPT !.old = TRUE] : e \in net.early}]
    BY <1>6 DEF AcksAge
  <2>2. {[e EXCEPT !.old = TRUE] : e \in net.early} \in SUBSET EarlyAck
    BY DEF NetOK, EarlyAck
  <2> QED
    BY <2>1, <2>2, ChangedEarlyOK
<1> QED
  BY <1>1, <1>2, <1>3, <1>4, <1>5, <1>6 DEF ConnNext, ClientsLeft

LEMMA RouteNextKeepsNet ==
  ASSUME ConnInv, NetOK(net), RouteNext PROVE NetOK(net')
<1>1. ASSUME NEW a \in Account, NEW media \in BOOLEAN, Enqueue(a, media) PROVE NetOK(net')
  BY <1>1 DEF Enqueue, connVars
<1>2. CASE PushText
  <2>1. NetOK(Promote(net, entry.account))
    BY PromoteOK
  <2> QED
    BY <1>2, <2>1, PromoteOK DEF PushText
<1>3. CASE BeginMedia
  BY <1>3, PromoteOK DEF BeginMedia
<1>4. CASE MediaTransferred
  BY <1>4, PromoteOK DEF MediaTransferred
<1>5. CASE PushTimesOut
  BY <1>5, DegradeOK DEF PushTimesOut
<1>6. ASSUME NEW c \in Client, NEW n \in Sockets(c), NEW outcome, MessageAck(c, n, outcome)
      PROVE NetOK(net')
  <2>1. NetOK(MarkSeen(net, c, n))
    BY SocketNumber, MarkSeenOK
  <2>2. /\ NetOK(Capable(net, c, n))
        /\ NetOK(Capable(MarkSeen(net, c, n), c, n))
    BY <2>1, CapableOK
  <2> QED
    BY <1>6, <2>1, <2>2 DEF MessageAck
<1> QED
  BY <1>1, <1>2, <1>3, <1>4, <1>5, <1>6 DEF RouteNext

LEMMA TransferStepKeepsNet ==
  ASSUME ConnInv, NetOK(net), SendInv, TransferStep PROVE NetOK(net')
<1> USE TransferAssumption
<1>1. ASSUME NEW a \in Account, BeginSend(a) PROVE NetOK(net')
  BY <1>1, PromoteOK DEF BeginSend
<1>2. CASE AckTimesOut \/ Abort
  BY <1>2 DEF AckTimesOut, Abort, connVars
<1>3. CASE SleepEnds
  <2>1. send.idx \in Nat
    BY <1>3 DEF SleepEnds, SendInv, SendOK
  <2> QED
    BY <1>3, <2>1, EarlyOK DEF SleepEnds
<1>4. CASE WaitersCleared
  BY <1>4, ChangedEarlyOK DEF WaitersCleared
<1>5. ASSUME NEW c \in Client, NEW n \in Sockets(c),
             NEW key \in Chunk \cup {InitStage, CompleteStage}, NEW ok \in BOOLEAN, NEW path,
             FileAck(c, n, key, ok, path)
      PROVE NetOK(net')
  <2>1. NetOK(Refresh(net, c, n))
    BY SocketNumber, RefreshLiveOK
  <2>2. key \in Nat
    BY DEF Chunk, InitStage, CompleteStage
  <2>3. /\ NetOK(Remember(net, key, ok))
        /\ NetOK(Remember(Refresh(net, c, n), key, ok))
    BY <2>1, <2>2, EarlyOK
  <2> QED
    BY <1>5, <2>1, <2>3 DEF FileAck
<1>6. ASSUME NEW c \in Client, NEW n \in Sockets(c), NEW valid, FileInit(c, n, valid)
      PROVE NetOK(net')
  BY <1>6, SocketNumber, RefreshLiveOK DEF FileInit
<1>7. ASSUME NEW c \in Client, NEW n \in Sockets(c), FromOwnerOrFresh(c, n)
      PROVE NetOK(net')
  BY <1>7, SocketNumber, RefreshLiveOK DEF FromOwnerOrFresh
<1>8. ASSUME NEW c \in Client, NEW n \in Sockets(c),
             \/ \E i \in Chunk, content \in {"good", "bad", "invalid"} :
                  FileChunk(c, n, i, content)
             \/ FileComplete(c, n) \/ FileAbort(c, n)
      PROVE NetOK(net')
  BY <1>7, <1>8 DEF FileChunk, FileComplete, FileAbort
<1>9. ASSUME NEW ok, SaveEnds(ok) PROVE NetOK(net')
  BY <1>9 DEF SaveEnds, connVars
<1> QED
  BY <1>1, <1>2, <1>3, <1>4, <1>5, <1>6, <1>8, <1>9 DEF TransferStep

NetInv == NetOK(net)

LEMMA NetInductive == Spec => []NetInv
<1>1. Init => NetInv
  <2> SUFFICES ASSUME Init PROVE NetOK(net)
    BY DEF NetInv
  <2>1. Connected(net) = {}
    BY DEF Init, ConnInit, Connected
  <2>2. Ordered(net)
    BY <2>1, FS_EmptySet DEF Init, ConnInit, Ordered
  <2>3. ActiveOK(net)
    BY DEF Init, ConnInit, ActiveOK
  <2> QED
    BY <2>2, <2>3 DEF Init, ConnInit, NetOK, NetShape
<1>2. ConnInv /\ ClientsLeft /\ SendInv /\ NetInv /\ [Next]_vars => NetInv'
  <2>1. net' = net /\ NetInv => NetInv'
    BY DEF NetInv
  <2>2. NetOK(net') => NetInv'
    BY DEF NetInv
  <2> QED
    BY <2>1, <2>2, ConnNextKeepsNet, RouteNextKeepsNet, TransferStepKeepsNet, NextCases
       DEF vars, connVars, NetInv
<1> QED
  BY <1>1, <1>2, ConnInductive, SendInductive, PTL DEF Spec

(* The active key of an account names a connection that exists and is of   *)
(* that account, for any clients and accounts (markSeen, gcTransientState, *)
(* resolveOutboxPushOwner).                                                *)
THEOREM ActiveKeyIsConnected == Spec => []ActiveConnected
<1>1. NetInv => ActiveConnected
  BY DEF NetInv, NetOK, ActiveOK, ActiveConnected
<1> QED
  BY <1>1, NetInductive, PTL

-----------------------------------------------------------------------------
(* Types of routes.                                                        *)

LEMMA SocketsType ==
  ASSUME NEW x, NetOK(x), NEW a
  PROVE  /\ PushConnIds(x, a) \subseteq ConnId
         /\ {IdOf(x, c) : c \in RecentInbound(x, a)} \subseteq ConnId
         /\ OwnerSocket(x, a) \in ConnId \cup {NoSocket}
<1>1. \A c \in Of(x, a) : IdOf(x, c) \in ConnId
  BY DEF Of, IdOf, ConnId, NetOK, NetShape, Connection
<1>2. \A c : c \in Live(x, a) \cup Eligible(x, a) \cup RecentInbound(x, a) => c \in Of(x, a)
  BY DEF Live, Eligible, RecentInbound
<1>3. PushOwner(x, a) # NoClient => PushOwner(x, a) \in Eligible(x, a)
  BY OwnerEligible
<1> QED
  BY <1>1, <1>2, <1>3 DEF PushConnIds, OwnerSocket

LEMMA RouteType ==
  ASSUME NEW x, NetOK(x), NEW e PROVE Route(x, e) \subseteq ConnId
<1>1. RecentSockets(x, e) \subseteq ConnId
  BY SocketsType DEF RecentSockets, Untried
<1>2. TextRoute(x, e) \subseteq ConnId
  BY <1>1, SocketsType DEF TextRoute, Untried
<1>3. MediaRoute(x, e) \subseteq ConnId
  BY <1>1, SocketsType DEF MediaRoute
<1> QED
  BY <1>2, <1>3 DEF Route

LEMMA PushedType ==
  ASSUME NEW e \in Entry, NEW x PROVE Pushed(x, e) \in Entry
<1>1. Recorded(e) \in ConnId \cup {NoSocket}
  <2>1. Cardinality(e.to) = 1 => e.to # {}
    BY FS_EmptySet
  <2>2. e.to # {} => (CHOOSE id \in e.to : TRUE) \in e.to
    OBVIOUS
  <2> QED
    BY <2>1, <2>2 DEF Recorded, Entry
<1>2. Clients(e.to) \subseteq Client
  BY DEF Clients, Entry, ConnId
<1>3. e.to \subseteq ConnId /\ e.tried \subseteq ConnId /\ e.seen \subseteq ConnId
      /\ e.heard \subseteq Client
  BY DEF Entry
<1> HIDE DEF ConnId
<1> DEFINE p == Pushed(x, e)
           tried == e.tried \cup ({Recorded(e)} \ {NoSocket})
<1>4. tried \in SUBSET ConnId /\ e.seen \cup e.to \in SUBSET ConnId
      /\ e.heard \cup Clients(e.to) \in SUBSET Client
  BY <1>1, <1>2, <1>3
<1>5. p = [e EXCEPT !.pc = "pushed", !.last = Recorded(e), !.tried = tried,
                    !.seen = e.seen \cup e.to, !.heard = e.heard \cup Clients(e.to)]
  BY DEF Pushed, Entry
<1> HIDE DEF p, tried
<1>6. p \in Entry
  BY <1>1, <1>4, <1>5 DEF Entry
<1> QED
  BY <1>6 DEF p

LEMMA RouteNextKeepsType ==
  ASSUME ConnInv, NetOK(net), NetOK(net'), RouteTypeOK, RouteNext
  PROVE  RouteTypeOK'
<1>1. ASSUME NEW a \in Account, NEW media \in BOOLEAN, Enqueue(a, media)
      PROVE RouteTypeOK'
  BY <1>1 DEF Enqueue, RouteTypeOK, Entry
<1> DEFINE e == Chosen(net, entry)
<1>2. ASSUME MayPush PROVE entry \in Entry /\ e \in Entry
  <2>1. entry \in Entry
    BY <1>2 DEF MayPush, RouteTypeOK
  <2>2. /\ Route(net, entry) \in SUBSET ConnId
        /\ OwnerSocket(net, entry.account) \in ConnId \cup {NoSocket}
    BY RouteType, SocketsType
  <2> QED
    BY <2>1, <2>2 DEF Chosen, Entry
<1>3. CASE PushText
  <2>1. entry' = Pushed(net, e) /\ e \in Entry
    BY <1>2, <1>3 DEF PushText
  <2> HIDE DEF e
  <2> QED
    BY <2>1, PushedType DEF RouteTypeOK
<1>4. CASE BeginMedia
  <2>1. entry' = [e EXCEPT !.pc = "transfer"] /\ e \in Entry
    BY <1>2, <1>4 DEF BeginMedia
  <2> HIDE DEF e
  <2> QED
    BY <2>1 DEF RouteTypeOK, Entry
<1>5. CASE MediaTransferred
  <2>1. entry \in Entry
    BY <1>5 DEF MediaTransferred, RouteTypeOK
  <2>2. [entry EXCEPT !.pc = "queued"] \in Entry
    BY <2>1 DEF Entry
  <2> QED
    BY <1>5, <2>1, <2>2, PushedType DEF MediaTransferred, RouteTypeOK
<1>6. CASE PushTimesOut
  <2>1. entry \in Entry
    BY <1>6 DEF PushTimesOut, RouteTypeOK
  <2> DEFINE tried == entry.tried \cup ({entry.last} \ {NoSocket})
             over == PushConnIds(net', entry.account) \subseteq tried
             u == IF over THEN {} ELSE tried
             v == IF over THEN {} ELSE entry.seen
  <2>2. u \in SUBSET ConnId /\ v \in SUBSET ConnId
    BY <2>1 DEF Entry
  <2>3. Rerouted(net', entry) = [entry EXCEPT !.pc = "queued", !.tried = u, !.seen = v]
    BY <2>1 DEF Rerouted, Entry
  <2> HIDE DEF u, v
  <2>4. Rerouted(net', entry) \in Entry
    BY <2>1, <2>2, <2>3 DEF Entry
  <2> QED
    BY <1>6, <2>4 DEF PushTimesOut, RouteTypeOK
<1>7. ASSUME NEW c \in Client, NEW n \in Sockets(c), NEW outcome, MessageAck(c, n, outcome)
      PROVE RouteTypeOK'
  BY <1>7 DEF MessageAck, RouteTypeOK
<1> QED
  BY <1>1, <1>3, <1>4, <1>5, <1>6, <1>7 DEF RouteNext

LEMMA RouteTypeInductive == Spec => []RouteTypeOK
<1>1. Init => RouteTypeOK
  BY DEF Init, RouteTypeOK
<1>2. ConnInv /\ NetInv /\ NetInv' /\ RouteTypeOK /\ [Next]_vars => RouteTypeOK'
  <2>1. RouteTypeOK /\ entry' = entry => RouteTypeOK'
    BY DEF RouteTypeOK
  <2> QED
    BY <2>1, RouteNextKeepsType, TransferStepSparesEntry, NextCases DEF vars, NetInv
<1> QED
  BY <1>1, <1>2, ConnInductive, NetInductive, PTL DEF Spec

-----------------------------------------------------------------------------
(* What a transfer under way has been answered.                            *)

(* The owner was addressed, and every chunk before the one under way, or   *)
(* every chunk once the last answer is awaited, was acknowledged.          *)
SendWell(s) ==
  /\ s \in SendTransfer
  /\ s.owner[1] \in s.to
  /\ s.pc \in {"chunk", "sleep"} => 1..(s.idx - 1) \subseteq s.acked
  /\ s.pc \in {"complete", "sent"} => s.acked = Chunk
  /\ s.pc = "sent" => s.status = "completed"

(* A cached ACK of a chunk was counted when it came.                       *)
EarlyCounted(early, s) ==
  \A e \in early : e.ok /\ e.key \in Chunk => s # NoTransfer /\ e.key \in s.acked

FileInv ==
  /\ send # NoTransfer => SendWell(send)
  /\ EarlyCounted(net.early, send)

(* The cached ACKs of y are among those of x.                              *)
Inherits(x, y) ==
  \A e \in y.early : \E d \in x.early : d.key = e.key /\ d.ok = e.ok

LEMMA StillCachedInherits ==
  ASSUME NEW acks \in SUBSET EarlyAck, NEW e \in StillCached(acks)
  PROVE  \E d \in acks : d.key = e.key /\ d.ok = e.ok
<1>1. PICK d \in acks : e = [d EXCEPT !.after = @ \cap {f.key : f \in acks}]
  BY DEF StillCached
<1>2. d.key = e.key /\ d.ok = e.ok
  BY <1>1 DEF EarlyAck
<1> QED
  BY <1>2

LEMMA RefreshInherits ==
  ASSUME NEW x, NetOK(x), NEW c \in Client, NEW n \in Nat \ {0}, NEW flag
  PROVE  /\ Inherits(x, MarkSeen(x, c, n)) /\ Inherits(x, Refresh(x, c, n))
         /\ Inherits(x, RefreshLive(x, c, n, flag))
<1> DEFINE y == Gc(x)
           s == MarkSeen(x, c, n)
           r == Refresh(x, c, n)
<1>1. y.early = StillCached({e \in x.early : ~e.old}) /\ NetOK(y)
  BY GcOK DEF Gc, NetOK, NetShape
<1>2. {e \in x.early : ~e.old} \in SUBSET EarlyAck
  BY DEF NetOK
<1>3. Inherits(x, y)
  BY <1>1, <1>2, StillCachedInherits DEF Inherits
<1>4. s.early = y.early
  BY <1>1 DEF MarkSeen, PromoteSeen, NetOK, NetShape
<1>5. NetOK(s) /\ NetOK(r)
  BY MarkSeenOK, RefreshLiveOK
<1> HIDE DEF y
<1>6. r.early = s.early
  BY <1>5 DEF Refresh, MarkActivity, NetOK, NetShape
<1>7. RefreshLive(x, c, n, flag).early = r.early
  BY <1>5 DEF RefreshLive, NetOK, NetShape
<1> QED
  BY <1>3, <1>4, <1>6, <1>7 DEF Inherits

LEMMA ConnNextInherits ==
  ASSUME ConnInv, ClientsLeft, NetOK(net), ConnNext PROVE Inherits(net, net')
<1>1. ASSUME NEW c \in Client, NEW flag, Connect(c, flag) PROVE Inherits(net, net')
  <2>1. Len(sockets[c]) + 1 \in Nat \ {0}
    BY DEF ConnInv
  <2> QED
    BY <1>1, <2>1, RefreshInherits DEF Connect
<1>2. ASSUME NEW c \in Client, NEW n \in Sockets(c), NEW flag, Activity(c, n, flag)
      PROVE Inherits(net, net')
  BY <1>2, SocketNumber, RefreshInherits DEF Activity
<1>3. ASSUME NEW c \in Client, CapabilityLapses(c) \/ Ages(c) PROVE net'.early = net.early
  BY <1>3 DEF CapabilityLapses, Ages, NetOK, NetShape
<1>4. ASSUME NEW a \in Account, ReachLapses(a) PROVE net'.early = net.early
  BY <1>4 DEF ReachLapses, NetOK, NetShape
<1>5. CASE AcksAge
  <2>1. net'.early = {[e EXCEPT !.old = TRUE] : e \in net.early}
    BY <1>5 DEF AcksAge, NetOK, NetShape
  <2>2. \A e \in net.early : [e EXCEPT !.old = TRUE].key = e.key
                             /\ [e EXCEPT !.old = TRUE].ok = e.ok
    BY DEF NetOK, EarlyAck
  <2> QED
    BY <2>1, <2>2 DEF Inherits
<1>6. net'.early = net.early => Inherits(net, net')
  BY DEF Inherits
<1> QED
  BY <1>1, <1>2, <1>3, <1>4, <1>5, <1>6 DEF ConnNext, ClientsLeft

LEMMA EarlyKept ==
  ASSUME NEW x, NetOK(x), NEW a, NEW id, NEW c, NEW n
  PROVE  /\ Promote(x, a).early = x.early /\ MarkActivity(x, a).early = x.early
         /\ Degrade(x, id).early = x.early /\ Capable(x, c, n).early = x.early
BY DEF Promote, MarkActivity, Degrade, Capable, NetOK, NetShape

LEMMA RouteNextInherits ==
  ASSUME ConnInv, NetOK(net), RouteNext PROVE Inherits(net, net')
<1>1. net'.early = net.early => Inherits(net, net')
  BY DEF Inherits
<1>2. ASSUME NEW a \in Account, NEW media \in BOOLEAN, Enqueue(a, media)
      PROVE net'.early = net.early
  BY <1>2 DEF Enqueue, connVars
<1>3. PushText => net'.early = net.early
  <2>1. NetOK(Promote(net, entry.account))
    BY PromoteOK
  <2> QED
    BY <2>1, EarlyKept DEF PushText
<1>4. BeginMedia \/ MediaTransferred \/ PushTimesOut => net'.early = net.early
  BY EarlyKept DEF BeginMedia, MediaTransferred, PushTimesOut
<1>5. ASSUME NEW c \in Client, NEW n \in Sockets(c), NEW outcome, MessageAck(c, n, outcome)
      PROVE Inherits(net, net')
  <2>1. NetOK(MarkSeen(net, c, n)) /\ Inherits(net, MarkSeen(net, c, n))
    BY SocketNumber, MarkSeenOK, RefreshInherits
  <2>2. /\ Capable(net, c, n).early = net.early
        /\ Capable(MarkSeen(net, c, n), c, n).early = MarkSeen(net, c, n).early
    BY <2>1, EarlyKept
  <2>3. \/ net' = net \/ net' = MarkSeen(net, c, n)
        \/ net' = Capable(net, c, n) \/ net' = Capable(MarkSeen(net, c, n), c, n)
    BY <1>5 DEF MessageAck
  <2> QED
    BY <2>1, <2>2, <2>3 DEF Inherits
<1> QED
  BY <1>1, <1>2, <1>3, <1>4, <1>5 DEF RouteNext

LEMMA InheritedCounted ==
  ASSUME NEW x, NEW y, Inherits(x, y), NEW s, EarlyCounted(x.early, s),
         NEW t, s # NoTransfer => t # NoTransfer /\ s.acked \subseteq t.acked
  PROVE  EarlyCounted(y.early, t)
BY DEF Inherits, EarlyCounted

LEMMA RememberCounted ==
  ASSUME NEW x, NetOK(x), NEW key \in Nat, NEW ok \in BOOLEAN, NEW s,
         EarlyCounted(x.early, s),
         ok /\ key \in Chunk => s # NoTransfer /\ key \in s.acked
  PROVE  EarlyCounted(Remember(x, key, ok).early, s)
<1> DEFINE ack == [key |-> key, ok |-> ok, old |-> FALSE,
                   after |-> {e.key : e \in x.early}]
           all == IF EarlyFor(x, key) = {} THEN x.early \cup {ack}
                  ELSE {IF e.key = key THEN [ack EXCEPT !.after = e.after] ELSE e
                          : e \in x.early}
<1>1. ack \in EarlyAck /\ ack.key = key /\ ack.ok = ok
  <2>1. ack \in EarlyAck
    BY DEF EarlyAck, NetOK
  <2>2. ack.key = key /\ ack.ok = ok
    OBVIOUS
  <2> QED
    BY <2>1, <2>2
<1>2. ASSUME NEW e \in x.early
      PROVE  /\ [ack EXCEPT !.after = e.after] \in EarlyAck
             /\ [ack EXCEPT !.after = e.after].key = key
             /\ [ack EXCEPT !.after = e.after].ok = ok
  BY DEF EarlyAck, NetOK
<1>3. Remember(x, key, ok).early = IF Cardinality(all) > MaxEarly
                                   THEN StillCached({e \in all : e.after # {}}) ELSE all
  BY DEF Remember, NetOK, NetShape
<1> HIDE DEF ack
<1>4. all \in SUBSET EarlyAck /\ EarlyCounted(all, s)
  <2> SUFFICES ASSUME NEW e \in all
               PROVE  /\ e \in EarlyAck
                      /\ e.ok /\ e.key \in Chunk => s # NoTransfer /\ e.key \in s.acked
    BY DEF EarlyCounted
  <2>1. CASE e \in x.early
    BY <2>1 DEF EarlyCounted, NetOK
  <2>2. CASE e = ack
    BY <1>1, <2>2
  <2>3. ASSUME NEW d \in x.early, e = [ack EXCEPT !.after = d.after]
        PROVE  e \in EarlyAck /\ e.key = key /\ e.ok = ok
    BY <1>2, <2>3
  <2> QED
    BY <2>1, <2>2, <2>3
<1> HIDE DEF all
<1>5. EarlyCounted(StillCached({e \in all : e.after # {}}), s)
  <2> DEFINE kept == {e \in all : e.after # {}}
  <2>1. kept \in SUBSET EarlyAck /\ kept \subseteq all
    BY <1>4
  <2> HIDE DEF kept
  <2>2. ASSUME NEW e \in StillCached(kept)
        PROVE  e.ok /\ e.key \in Chunk => s # NoTransfer /\ e.key \in s.acked
    <3>1. PICK d \in kept : d.key = e.key /\ d.ok = e.ok
      BY <2>1, StillCachedInherits
    <3> QED
      BY <1>4, <2>1, <3>1 DEF EarlyCounted
  <2> QED
    BY <2>2 DEF EarlyCounted, kept
<1> QED
  BY <1>3, <1>4, <1>5

LEMMA ReachWell ==
  ASSUME NEW s \in SendTransfer, NEW i \in 1..(Chunks + 1), s.owner[1] \in s.to,
         1..(i - 1) \subseteq s.acked
  PROVE  SendWell(Reach(s, i)) /\ Reach(s, i).acked = s.acked
<1> USE TransferAssumption
<1>1. CASE i > Chunks
  <2>1. Reach(s, i) = [s EXCEPT !.pc = "complete"]
    BY <1>1 DEF Reach
  <2>2. s.acked = Chunk
    <3>1. i - 1 = Chunks /\ s.acked \subseteq Chunk
      BY <1>1 DEF SendTransfer
    <3>2. Chunk \subseteq s.acked
      BY <3>1 DEF Chunk
    <3> QED
      BY <3>1, <3>2
  <2>3. Reach(s, i) \in SendTransfer
    BY <2>1 DEF SendTransfer
  <2> QED
    BY <2>1, <2>2, <2>3 DEF SendWell, SendTransfer
<1>2. CASE ~(i > Chunks)
  <2>1. Reach(s, i) = [s EXCEPT !.pc = "chunk", !.idx = i, !.attempt = 1]
    BY <1>2 DEF Reach
  <2>2. i \in 0..Chunks /\ 1 \in 0..Attempts
    BY <1>2 DEF Attempts
  <2>3. Reach(s, i) \in SendTransfer
    BY <2>1, <2>2 DEF SendTransfer
  <2> QED
    BY <2>1, <2>3 DEF SendWell, SendTransfer
<1> QED
  BY <1>1, <1>2

LEMMA UnansweredWell ==
  ASSUME NEW s, SendWell(s)
  PROVE  SendWell(Unanswered(s)) /\ Unanswered(s).acked = s.acked
<1>1. CASE s.pc = "chunk"
  BY <1>1 DEF SendWell, SendTransfer, Unanswered
<1>2. CASE s.pc # "chunk"
  BY <1>2 DEF SendWell, SendTransfer, Unanswered
<1> QED
  BY <1>1, <1>2

LEMMA ResendWell ==
  ASSUME NEW s, SendOK(s), SendWell(s), s.pc = "sleep", s.attempt < Attempts,
         NEW x, EarlyCounted(x.early, s)
  PROVE  SendWell(Resend(s, x)) /\ Resend(s, x).acked = s.acked
<1> USE TransferAssumption
<1>0. /\ s \in SendTransfer /\ s.idx \in Chunk /\ s.attempt + 1 \in 0..Attempts
      /\ s.idx + 1 \in 1..(Chunks + 1)
  BY DEF SendOK, SendWell, SendTransfer, Attempts, Chunk
<1>1. SendWell([s EXCEPT !.attempt = @ + 1])
      /\ [s EXCEPT !.attempt = @ + 1].acked = s.acked
  BY <1>0 DEF SendWell, SendTransfer
<1>2. SendWell([s EXCEPT !.pc = "chunk", !.attempt = @ + 1])
      /\ [s EXCEPT !.pc = "chunk", !.attempt = @ + 1].acked = s.acked
  BY <1>0 DEF SendWell, SendTransfer
<1>3. s.idx \in s.acked => SendWell(Reach(s, s.idx + 1))
                           /\ Reach(s, s.idx + 1).acked = s.acked
  <2> SUFFICES ASSUME s.idx \in s.acked
               PROVE  SendWell(Reach(s, s.idx + 1)) /\ Reach(s, s.idx + 1).acked = s.acked
    OBVIOUS
  <2> DEFINE i == s.idx + 1
  <2>1. 1..(i - 1) \subseteq s.acked
    <3> SUFFICES ASSUME NEW j \in 1..(i - 1) PROVE j \in s.acked
      OBVIOUS
    <3>1. j = s.idx \/ j \in 1..(s.idx - 1)
      BY <1>0 DEF Chunk
    <3> QED
      BY <3>1 DEF SendWell
  <2>2. i \in 1..(Chunks + 1) /\ s \in SendTransfer /\ s.owner[1] \in s.to
    BY <1>0 DEF SendWell
  <2>3. i = s.idx + 1
    OBVIOUS
  <2> HIDE DEF i
  <2>4. SendWell(Reach(s, i)) /\ Reach(s, i).acked = s.acked
    BY <2>1, <2>2, ReachWell
  <2> QED
    BY <2>3, <2>4
<1>4. (\E e \in EarlyFor(x, s.idx) : e.ok) => s.idx \in s.acked
  BY <1>0 DEF EarlyFor, EarlyCounted
<1> QED
  BY <1>1, <1>2, <1>3, <1>4 DEF Resend

(* What an accepted ACK makes of a transfer, before the waiter is told.    *)
LEMMA AppliedWell ==
  ASSUME NEW s, SendOK(s), SendWell(s), s.status \notin Terminal,
         NEW o \in ConnId, o[1] \in s.to,
         NEW key, NEW ok \in BOOLEAN, NEW path \in BOOLEAN,
         NEW t, t = Applied([s EXCEPT !.owner = o], key, ok, path)
  PROVE  /\ SendWell(t) /\ t.pc = s.pc /\ t.idx = s.idx
         /\ t.acked = IF ok /\ key \in Chunk THEN s.acked \cup {key} ELSE s.acked
         /\ ok /\ key = CompleteStage => t.status = "completed"
<1> USE TransferAssumption
<1> DEFINE u == [s EXCEPT !.owner = o]
<1>0. t = Applied(u, key, ok, path)
  OBVIOUS
<1>1. /\ u \in SendTransfer /\ u.owner[1] \in u.to /\ u.pc = s.pc /\ u.idx = s.idx
      /\ u.acked = s.acked /\ SendWell(u) /\ u.pc # "sent"
  <2>1. u \in SendTransfer /\ u.owner = o /\ u.to = s.to /\ u.pc = s.pc
        /\ u.idx = s.idx /\ u.acked = s.acked /\ u.status = s.status
    BY DEF SendWell, SendTransfer
  <2>2. s.pc # "sent"
    BY DEF SendWell, Terminal
  <2> HIDE DEF u
  <2> QED
    BY <2>1, <2>2 DEF SendWell
<1>2. CompleteStage \notin Chunk
  BY DEF CompleteStage, Chunk
<1> HIDE DEF u
<1>4. CASE key \in Chunk /\ ok
  <2>1. t = [u EXCEPT !.acked = @ \cup {key}, !.status = "transferring"]
    BY <1>0, <1>2, <1>4 DEF Applied
  <2>2. /\ t \in SendTransfer /\ t.acked = u.acked \cup {key}
        /\ t.pc = u.pc /\ t.idx = u.idx /\ t.owner = u.owner /\ t.to = u.to
    <3> DEFINE acked == u.acked \cup {key}
    <3>1. acked \in SUBSET Chunk /\ "transferring" \in Status
      BY <1>1, <1>4 DEF SendTransfer, Status
    <3>2. t = [u EXCEPT !.acked = acked, !.status = "transferring"]
      BY <1>1, <2>1 DEF SendTransfer
    <3> HIDE DEF acked
    <3>3. t \in SendTransfer /\ t.acked = acked
          /\ t.pc = u.pc /\ t.idx = u.idx /\ t.owner = u.owner /\ t.to = u.to
      BY <1>1, <3>1, <3>2 DEF SendTransfer
    <3> QED
      BY <3>3 DEF acked
  <2>3. t.acked \subseteq Chunk
    BY <2>2 DEF SendTransfer
  <2>4. SendWell(t)
    BY <1>1, <2>2, <2>3 DEF SendWell
  <2> QED
    BY <1>1, <1>2, <1>4, <2>2, <2>4
<1>5. CASE key \in Chunk /\ ~ok
  <2>1. t = [u EXCEPT !.refused = @ \cup {key}]
    BY <1>0, <1>2, <1>5 DEF Applied
  <2>2. /\ t \in SendTransfer /\ t.acked = u.acked
        /\ t.pc = u.pc /\ t.idx = u.idx /\ t.owner = u.owner /\ t.to = u.to
    BY <1>1, <1>5, <2>1 DEF SendTransfer
  <2>3. SendWell(t)
    BY <1>1, <2>2 DEF SendWell
  <2> QED
    BY <1>1, <1>2, <1>5, <2>2, <2>3
<1>6. CASE key = CompleteStage
  <2>1. \/ ~ok /\ t = [u EXCEPT !.status = "aborted"]
        \/ ok /\ t = [u EXCEPT !.status = "completed", !.path = @ \/ path]
    BY <1>0, <1>2, <1>6 DEF Applied
  <2>2. (u.path \/ path) \in BOOLEAN
    OBVIOUS
  <2>3. /\ t \in SendTransfer /\ t.acked = u.acked
        /\ t.pc = u.pc /\ t.idx = u.idx /\ t.owner = u.owner /\ t.to = u.to
        /\ ok => t.status = "completed"
    <3>1. CASE ~ok
      BY <1>1, <2>1, <3>1 DEF SendTransfer, Status, Terminal
    <3>2. CASE ok
      <4> DEFINE b == u.path \/ path
      <4>1. b \in BOOLEAN /\ t = [u EXCEPT !.status = "completed", !.path = b]
        BY <2>1, <2>2, <3>2
      <4> HIDE DEF b
      <4> QED
        BY <1>1, <4>1 DEF SendTransfer, Status, Terminal
    <3> QED
      BY <3>1, <3>2
  <2>4. SendWell(t)
    BY <1>1, <2>3 DEF SendWell
  <2> QED
    BY <1>1, <1>2, <1>6, <2>3, <2>4
<1>7. CASE key \notin Chunk /\ key # CompleteStage
  <2>1. t = u
    BY <1>0, <1>7 DEF Applied
  <2> QED
    BY <1>1, <1>7, <2>1
<1> QED
  BY <1>4, <1>5, <1>6, <1>7

LEMMA WellIsTransfer ==
  ASSUME NEW s, SendWell(s) PROVE s # NoTransfer
BY TransferAssumption DEF SendWell

LEMMA FileAckKeepsFile ==
  ASSUME ConnInv, NetOK(net), SendInv, FileInv,
         NEW c \in Client, NEW n \in Sockets(c),
         NEW key \in Chunk \cup {InitStage, CompleteStage},
         NEW ok \in BOOLEAN, NEW path \in BOOLEAN, FileAck(c, n, key, ok, path)
  PROVE  FileInv'
<1> USE TransferAssumption
<1> DEFINE t == Applied([send EXCEPT !.owner = <<c, n>>], key, ok, path)
           x == IF Stale(c, n) THEN net ELSE Refresh(net, c, n)
<1>1. /\ send # NoTransfer /\ SendOK(send) /\ SendWell(send)
      /\ key \in Answerable(send) /\ send.status \notin Terminal /\ c \in send.to
      /\ EarlyCounted(net.early, send)
  BY DEF FileAck, SendInv, FileInv, Accepts
<1>2. \/ Awaits(send, key) /\ send' = Woken(t, key, ok) /\ net' = x
      \/ ~Awaits(send, key) /\ send' = t /\ net' = Remember(x, key, ok)
  BY DEF FileAck
<1>3. <<c, n>> \in ConnId /\ <<c, n>>[1] \in send.to
  BY <1>1, SocketNumber DEF ConnId
<1>4. /\ SendWell(t) /\ t.pc = send.pc /\ t.idx = send.idx
      /\ t.acked = IF ok /\ key \in Chunk THEN send.acked \cup {key} ELSE send.acked
      /\ ok /\ key = CompleteStage => t.status = "completed"
  BY <1>1, <1>3, AppliedWell
<1>5. NetOK(x) /\ Inherits(net, x)
  BY SocketNumber, RefreshLiveOK, RefreshInherits DEF Inherits
<1>6. t # NoTransfer /\ send.acked \subseteq t.acked
  BY <1>4, WellIsTransfer
<1>7. EarlyCounted(x.early, t)
  BY <1>1, <1>5, <1>6, InheritedCounted
<1>8. CompleteStage \notin Chunk /\ InitStage \notin Chunk /\ key \in Nat
  BY DEF CompleteStage, InitStage, Chunk
<1> HIDE DEF t, x
<1>9. CASE ~Awaits(send, key)
  <2>1. EarlyCounted(net'.early, t)
    BY <1>2, <1>4, <1>5, <1>6, <1>7, <1>8, <1>9, RememberCounted
  <2> QED
    BY <1>2, <1>4, <1>9, <2>1 DEF FileInv
<1>10. CASE Awaits(send, key)
  <2>1. SendWell(send') /\ send'.acked = t.acked
    <3>1. CASE ~ok
      BY <1>2, <1>4, <1>10, <3>1, UnansweredWell DEF Woken
    <3>2. CASE ok /\ key \in Chunk
      <4>1. send.pc = "chunk" /\ send.idx = key /\ send' = Reach(t, key + 1)
        BY <1>2, <1>8, <1>10, <3>2 DEF Awaits, Woken
      <4> DEFINE i == key + 1
      <4>2. i \in 1..(Chunks + 1) /\ t \in SendTransfer /\ t.owner[1] \in t.to
        BY <1>4, <3>2 DEF SendWell, Chunk
      <4>3. 1..(i - 1) \subseteq t.acked
        <5> SUFFICES ASSUME NEW j \in 1..(i - 1) PROVE j \in t.acked
          OBVIOUS
        <5>1. j = key \/ j \in 1..(t.idx - 1)
          BY <1>4, <3>2, <4>1 DEF Chunk
        <5> QED
          BY <1>4, <3>2, <4>1, <5>1 DEF SendWell
      <4>4. send' = Reach(t, i)
        BY <4>1
      <4> HIDE DEF i
      <4> QED
        BY <4>2, <4>3, <4>4, ReachWell
    <3>3. CASE ok /\ key \notin Chunk
      <4>1. send.pc = "complete" /\ key = CompleteStage
        BY <1>1, <1>10, <3>3 DEF Awaits, SendOK
      <4>2. send' = [t EXCEPT !.pc = IF t.path THEN "sent" ELSE "failed"]
        BY <1>2, <1>10, <3>3 DEF Woken
      <4>3. \/ send' = [t EXCEPT !.pc = "sent"] \/ send' = [t EXCEPT !.pc = "failed"]
        BY <4>2
      <4> QED
        BY <1>4, <3>3, <4>1, <4>3 DEF SendWell, SendTransfer
    <3> QED
      BY <3>1, <3>2, <3>3
  <2>2. EarlyCounted(net'.early, send')
    <3>1. send' # NoTransfer
      BY <2>1, WellIsTransfer
    <3>2. net' = x
      BY <1>2, <1>10
    <3> QED
      BY <1>7, <2>1, <3>1, <3>2 DEF EarlyCounted
  <2> QED
    BY <2>1, <2>2 DEF FileInv
<1> QED
  BY <1>9, <1>10

LEMMA BeginSendWell ==
  ASSUME NetOK(net), NEW a \in Account, BeginSend(a) PROVE SendWell(send')
<1> USE TransferAssumption
<1> DEFINE x == Promote(net, a)
           to == TransferConnIds(x, a)
           owners == IF PushOwner(net, a) # NoClient
                     THEN {IdOf(net, PushOwner(net, a))} ELSE to
           s(o) == [account |-> a, owner |-> o, to |-> {id[1] : id \in to},
                    status |-> "init", path |-> FALSE, acked |-> {}, refused |-> {},
                    pc |-> "chunk", idx |-> 0, attempt |-> 0]
<1>1. PICK o \in owners : send' = Reach(s(o), 1)
  BY DEF BeginSend
<1>2. NetOK(x) /\ x.conn = net.conn
  BY PromoteOK, PromoteShape DEF NetOK
<1>3. to \subseteq ConnId
  BY <1>2, SocketsType DEF TransferConnIds
<1>4. o \in to
  <2>1. CASE PushOwner(net, a) = NoClient
    BY <2>1
  <2>2. CASE PushOwner(net, a) # NoClient
    <3>1. PushOwner(net, a) \in Eligible(net, a) /\ o = IdOf(net, PushOwner(net, a))
      BY <2>2, OwnerEligible
    <3>2. Eligible(x, a) = Eligible(net, a)
          /\ \A c : IdOf(x, c) = IdOf(net, c)
      BY <1>2 DEF Eligible, Live, Of, IdOf
    <3>3. o \in PushConnIds(x, a)
      BY <3>1, <3>2 DEF PushConnIds
    <3> QED
      BY <3>3 DEF TransferConnIds
  <2> QED
    BY <2>1, <2>2
<1> DEFINE clients == {id[1] : id \in to}
<1>5. clients \subseteq Client /\ o[1] \in clients /\ o \in ConnId
  BY <1>3, <1>4 DEF ConnId
<1>6. send' = Reach([account |-> a, owner |-> o, to |-> clients,
                     status |-> "init", path |-> FALSE, acked |-> {}, refused |-> {},
                     pc |-> "chunk", idx |-> 0, attempt |-> 0], 1)
  BY <1>1
<1> HIDE DEF x, to, clients
<1> DEFINE r == [account |-> a, owner |-> o, to |-> clients,
                 status |-> "init", path |-> FALSE, acked |-> {}, refused |-> {},
                 pc |-> "chunk", idx |-> 0, attempt |-> 0]
<1>7. r \in SendTransfer /\ r.owner[1] \in r.to
  <2>1. 0 \in 0..Chunks /\ 0 \in 0..Attempts /\ FALSE \in BOOLEAN /\ "init" \in Status
    BY DEF Attempts, Status
  <2> QED
    BY <1>5, <2>1 DEF SendTransfer
<1>8. send' = Reach(r, 1)
  BY <1>6
<1> HIDE DEF r
<1>9. 1 \in 1..(Chunks + 1) /\ 1..(1 - 1) \subseteq r.acked
  OBVIOUS
<1> QED
  BY <1>7, <1>8, <1>9, ReachWell

LEMMA TransferStepKeepsFile ==
  ASSUME ConnInv, NetOK(net), SendInv, FileInv, TransferStep PROVE FileInv'
<1> USE TransferAssumption
<1>1. ASSUME NEW a \in Account, BeginSend(a) PROVE FileInv'
  <2>1. SendWell(send') /\ send' # NoTransfer
    BY <1>1, BeginSendWell, WellIsTransfer
  <2>2. net'.early = net.early /\ send = NoTransfer
    BY <1>1, EarlyKept DEF BeginSend
  <2> QED
    BY <2>1, <2>2 DEF FileInv, EarlyCounted
<1>2. CASE AckTimesOut
  <2>1. send' = Unanswered(send) /\ net' = net /\ SendWell(send)
    BY <1>2 DEF AckTimesOut, FileInv, connVars
  <2>2. SendWell(send') /\ send'.acked = send.acked /\ send' # NoTransfer
    BY <2>1, UnansweredWell, WellIsTransfer
  <2> QED
    BY <2>1, <2>2 DEF FileInv, EarlyCounted
<1>3. CASE SleepEnds
  <2>1. /\ send # NoTransfer /\ send.pc = "sleep" /\ send.attempt < Attempts
        /\ send' = Resend(send, net)
        /\ net' = net \/ net' = WithoutEarly(net, send.idx)
    BY <1>3 DEF SleepEnds
  <2>2. SendWell(send') /\ send'.acked = send.acked /\ send' # NoTransfer
    BY <2>1, ResendWell, WellIsTransfer DEF SendInv, FileInv
  <2>3. Inherits(net, WithoutEarly(net, send.idx))
    <3> DEFINE kept == {e \in net.early : e.key # send.idx}
    <3>1. kept \in SUBSET EarlyAck /\ kept \subseteq net.early
          /\ WithoutEarly(net, send.idx).early = StillCached(kept)
      BY DEF WithoutEarly, NetOK, NetShape
    <3> HIDE DEF kept
    <3> QED
      BY <3>1, StillCachedInherits DEF Inherits
  <2>4. Inherits(net, net')
    BY <2>1, <2>3 DEF Inherits
  <2>5. EarlyCounted(net'.early, send')
    BY <2>2, <2>4, InheritedCounted DEF FileInv
  <2> QED
    BY <2>2, <2>5 DEF FileInv
<1>4. CASE Abort
  <2>1. send' = [send EXCEPT !.pc = "failed", !.status = "aborted"] /\ net' = net
        /\ SendWell(send) /\ "aborted" \in Status
    BY <1>4 DEF Abort, FileInv, connVars, Status, Terminal
  <2>2. SendWell(send') /\ send'.acked = send.acked
    BY <2>1 DEF SendWell, SendTransfer
  <2> QED
    BY <2>1, <2>2, WellIsTransfer DEF FileInv, EarlyCounted
<1>5. CASE WaitersCleared
  <2>1. /\ SendWell(send) /\ net'.early = {}
        /\ send' = send \/ send' = Unanswered(send)
    BY <1>5 DEF WaitersCleared, FileInv, NetOK, NetShape
  <2> QED
    BY <2>1, UnansweredWell DEF FileInv, EarlyCounted
<1>6. ASSUME send' = send, Inherits(net, net') PROVE FileInv'
  <2>1. EarlyCounted(net'.early, send)
    BY <1>6, InheritedCounted DEF FileInv
  <2> QED
    BY <1>6, <2>1 DEF FileInv
<1>7. net' = net => Inherits(net, net')
  BY DEF Inherits
<1>8. ASSUME NEW c \in Client, NEW n \in Sockets(c), NEW valid, FileInit(c, n, valid)
      PROVE FileInv'
  BY <1>6, <1>8, SocketNumber, RefreshInherits DEF FileInit
<1>9. ASSUME NEW c \in Client, NEW n \in Sockets(c), FromOwnerOrFresh(c, n), send' = send
      PROVE FileInv'
  BY <1>6, <1>7, <1>9, SocketNumber, RefreshInherits DEF FromOwnerOrFresh
<1>10. ASSUME NEW c \in Client, NEW n \in Sockets(c),
             \/ \E i \in Chunk, content \in {"good", "bad", "invalid"} :
                  FileChunk(c, n, i, content)
             \/ FileComplete(c, n) \/ FileAbort(c, n)
      PROVE FileInv'
  BY <1>9, <1>10 DEF FileChunk, FileComplete, FileAbort
<1>11. ASSUME NEW ok, SaveEnds(ok) PROVE FileInv'
  BY <1>6, <1>7, <1>11 DEF SaveEnds, connVars
<1> QED
  BY <1>1, <1>2, <1>3, <1>4, <1>5, <1>8, <1>10, <1>11, FileAckKeepsFile DEF TransferStep

LEMMA FileInductive == Spec => []FileInv
<1>1. Init => FileInv
  BY DEF Init, ConnInit, FileInv, EarlyCounted
<1>2. ConnInv /\ ClientsLeft /\ NetInv /\ SendInv /\ FileInv /\ [Next]_vars => FileInv'
  <2>1. ASSUME FileInv, send' = send, Inherits(net, net') PROVE FileInv'
    <3>1. EarlyCounted(net'.early, send)
      BY <2>1, InheritedCounted DEF FileInv
    <3> QED
      BY <2>1, <3>1 DEF FileInv
  <2>2. FileInv /\ UNCHANGED vars => FileInv'
    BY DEF FileInv, EarlyCounted, vars, connVars
  <2> QED
    BY <2>1, <2>2, ConnNextInherits, RouteNextInherits, TransferStepKeepsFile, NextCases
       DEF NetInv
<1> QED
  BY <1>1, <1>2, ConnInductive, NetInductive, SendInductive, PTL DEF Spec

(* The client that owns a transfer is one it was broadcast to, whoever     *)
(* takes the transfer over (prepareOutboundTransfer, tryAdoptTransferOwner)*)
THEOREM OwnerIsAddressed == Spec => []OwnerAddressed
<1>1. FileInv => OwnerAddressed
  BY DEF FileInv, SendWell, OwnerAddressed
<1> QED
  BY <1>1, FileInductive, PTL

(* A transfer reported as sent was acknowledged in every chunk and at its  *)
(* end, for any number of chunks and any cached, evicted, repeated or late *)
(* ACKs (file-transfer-orchestrator.ts, file-ack-runtime.ts).              *)
THEOREM SentFileIsAcked == Spec => []SentIsAcked
<1>1. FileInv => SentIsAcked
  BY DEF FileInv, SendWell, SentIsAcked
<1> QED
  BY <1>1, FileInductive, PTL

-----------------------------------------------------------------------------
(* Types.                                                                  *)

(* A completion under way is one of a transfer that is kept.               *)
RecvInv ==
  /\ recv = NoTransfer \/ recv \in RecvTransfer
  /\ saving \in Nat
  /\ saving > 0 => recv # NoTransfer

LEMMA ChangedRecv ==
  ASSUME RecvInv, recv # NoTransfer, NEW status \in Status
  PROVE  /\ [recv EXCEPT !.status = status] \in RecvTransfer
         /\ [recv EXCEPT !.status = status] # NoTransfer
         /\ recv' = [recv EXCEPT !.status = status] /\ saving' = saving => RecvInv'
<1>1. [recv EXCEPT !.status = status] \in RecvTransfer
  BY DEF RecvInv, RecvTransfer
<1> QED
  BY <1>1, TransferAssumption DEF RecvInv

LEMMA ChunkReceived ==
  ASSUME RecvInv, NEW c, NEW n, NEW i \in Chunk, NEW content, FileChunk(c, n, i, content)
  PROVE  RecvInv'
<1>1. recv \in RecvTransfer /\ recv # NoTransfer /\ saving' = saving
  BY DEF FileChunk, Active, RecvInv
<1> DEFINE got == recv.got \cup {i}
           bad == IF content = "bad" THEN recv.bad \cup {i} ELSE recv.bad \ {i}
<1>2. got \in SUBSET Chunk /\ bad \in SUBSET Chunk /\ "transferring" \in Status
  BY <1>1 DEF RecvTransfer, Status
<1>3. \/ recv' = recv
      \/ recv' = [recv EXCEPT !.status = "transferring", !.got = got, !.bad = bad]
  BY <1>1 DEF FileChunk, RecvTransfer
<1> HIDE DEF got, bad
<1>4. recv' \in RecvTransfer
  BY <1>1, <1>2, <1>3 DEF RecvTransfer
<1> QED
  BY <1>1, <1>4, TransferAssumption DEF RecvInv

LEMMA TransferStepKeepsRecv ==
  ASSUME ConnInv, RecvInv, TransferStep PROVE RecvInv'
<1>1. UNCHANGED <<recv, saving>> => RecvInv'
  BY DEF RecvInv
<1>2. ASSUME NEW a \in Account, BeginSend(a) PROVE RecvInv'
  BY <1>1, <1>2 DEF BeginSend
<1>3. AckTimesOut \/ SleepEnds \/ Abort \/ WaitersCleared => RecvInv'
  BY <1>1 DEF AckTimesOut, SleepEnds, Abort, WaitersCleared
<1>4. ASSUME NEW c, NEW n, NEW key, NEW ok, NEW path, FileAck(c, n, key, ok, path)
      PROVE RecvInv'
  BY <1>1, <1>4 DEF FileAck
<1>5. ASSUME NEW c \in Client, NEW n \in Sockets(c), NEW valid, FileInit(c, n, valid)
      PROVE RecvInv'
  <2>1. CASE valid /\ recv = NoTransfer
    <3>1. /\ recv' = [owner |-> <<c, n>>, status |-> "init", got |-> {}, bad |-> {}]
          /\ saving' = saving
      BY <1>5, <2>1 DEF FileInit
    <3>2. <<c, n>> \in ConnId /\ "init" \in Status
      BY SocketNumber DEF ConnId, Status
    <3>3. recv' \in RecvTransfer
      BY <3>1, <3>2 DEF RecvTransfer
    <3> QED
      BY <3>1, <3>3, TransferAssumption DEF RecvInv
  <2>2. CASE ~(valid /\ recv = NoTransfer)
    BY <1>1, <1>5, <2>2 DEF FileInit
  <2> QED
    BY <2>1, <2>2
<1>6. "aborted" \in Status /\ "completed" \in Status
  BY DEF Status, Terminal
<1>7. ASSUME NEW c, NEW n, FileComplete(c, n) PROVE RecvInv'
  <2>1. recv # NoTransfer
    BY <1>7 DEF FileComplete, Active
  <2>2. \/ recv' = recv /\ saving' = saving + 1
        \/ recv' = [recv EXCEPT !.status = "aborted"] /\ saving' = saving
    BY <1>7 DEF FileComplete
  <2>3. CASE recv' = recv /\ saving' = saving + 1
    BY <2>1, <2>3 DEF RecvInv
  <2> QED
    BY <1>6, <2>1, <2>2, <2>3, ChangedRecv
<1>8. ASSUME NEW c, NEW n, FileAbort(c, n) PROVE RecvInv'
  BY <1>6, <1>8, ChangedRecv DEF FileAbort, Active
<1>9. ASSUME NEW ok \in BOOLEAN, SaveEnds(ok) PROVE RecvInv'
  <2>1. saving > 0 /\ saving' = saving - 1 /\ recv # NoTransfer
    BY <1>9 DEF SaveEnds, RecvInv
  <2>2. \/ recv' = [recv EXCEPT !.status = "completed"]
        \/ recv' = [recv EXCEPT !.status = "aborted"]
    BY <1>9 DEF SaveEnds
  <2>3. recv' \in RecvTransfer /\ recv' # NoTransfer
    BY <1>6, <2>1, <2>2, ChangedRecv
  <2> QED
    BY <2>1, <2>3 DEF RecvInv
<1> QED
  BY <1>2, <1>3, <1>4, <1>5, <1>7, <1>8, <1>9, ChunkReceived DEF TransferStep

LEMMA RecvInductive == Spec => []RecvInv
<1>1. Init => RecvInv
  BY DEF Init, RecvInv
<1>2. ConnInv /\ RecvInv /\ [Next]_vars => RecvInv'
  <2>1. RecvInv /\ UNCHANGED <<recv, saving>> => RecvInv'
    BY DEF RecvInv
  <2> QED
    BY <2>1, TransferStepKeepsRecv, NextCases DEF vars
<1> QED
  BY <1>1, <1>2, ConnInductive, PTL DEF Spec

(* The state of connections, routes and transfers keeps its type.          *)
THEOREM TransportTypeOK == Spec => []TypeOK
<1>1. ConnInv /\ NetInv => ConnTypeOK
  <2> SUFFICES ASSUME ConnInv, NetInv PROVE ConnTypeOK
    OBVIOUS
  <2>1. net.later \subseteq Client \X Client
    <3>1. net.later \subseteq Connected(net) \X Connected(net)
          /\ Connected(net) \subseteq Client
      BY DEF NetInv, NetOK, Ordered, Connected
    <3> QED
      BY <3>1
  <2> QED
    BY <2>1 DEF ConnInv, NetInv, NetOK, NetShape, ActiveOK, ConnTypeOK
<1>2. FileInv => send = NoTransfer \/ send \in SendTransfer
  BY DEF FileInv, SendWell
<1>3. ConnInv /\ NetInv /\ RouteTypeOK /\ FileInv /\ RecvInv => TypeOK
  BY <1>1, <1>2 DEF TypeOK, RecvInv
<1> QED
  BY <1>3, ConnInductive, NetInductive, RouteTypeInductive, FileInductive, RecvInductive, PTL
=============================================================================
