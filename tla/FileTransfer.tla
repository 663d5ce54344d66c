--------------------------- MODULE FileTransfer ---------------------------
(***************************************************************************)
(* File transfers over the connections of module Connections: a file sent  *)
(* to the clients of an account in chunks, each acknowledged by the client *)
(* that owns the transfer, with retries, timeouts and ACKs that come early,*)
(* late, twice or from an old socket; and a file received from a client,   *)
(* whose completion awaits the write of the file.                          *)
(*                                                                         *)
(* Clients answer what was broadcast to them, at any later time, any       *)
(* number of times, from any of their sockets.  One transfer of each       *)
(* direction is followed; terminal transfers are kept (ten minutes in the  *)
(* code), as are those under way (six hours).                              *)
(***************************************************************************)
EXTENDS Routes

CONSTANTS Chunks, NoTransfer

VARIABLES
  send,    \* the entry of fileSendTransfers with its orchestrator, if any
  recv,    \* the entry of fileRecvTransfers, if any
  saving   \* completions of recv that await saveInboundMediaBuffer

vars == <<connVars, entry, left, send, recv, saving>>

Chunk == 1..Chunks
Terminal == {"completed", "aborted"}
Status == {"init", "transferring"} \cup Terminal
Attempts == 3

(* Keys of file ACKs: the chunks, and two stages.                          *)
InitStage == 0
CompleteStage == Chunks + 1

(* pc: "chunk" and "complete" await an ACK (and have a waiter), "sleep" is *)
(* the pause after a failed attempt, "sent" and "failed" are the ends of   *)
(* transferMediaToBncrClient.                                              *)
SendTransfer == [account : Account, owner : ConnId,
                 to : SUBSET Client, status : Status, path : BOOLEAN,
                 acked : SUBSET Chunk, refused : SUBSET Chunk,
                 pc : {"chunk", "sleep", "complete", "sent", "failed"},
                 idx : 0..Chunks, attempt : 0..Attempts]

(* bad: chunks whose content is not the file's.                            *)
RecvTransfer == [owner : ConnId, status : Status,
                 got : SUBSET Chunk, bad : SUBSET Chunk]

ASSUME TransferAssumption ==
  /\ Chunks \in Nat
  /\ NoTransfer \notin SendTransfer
  /\ NoTransfer \notin RecvTransfer

TypeOK ==
  /\ ConnTypeOK /\ RouteTypeOK
  /\ send = NoTransfer \/ send \in SendTransfer
  /\ recv = NoTransfer \/ recv \in RecvTransfer
  /\ saving \in Nat

Init ==
  /\ ConnInit /\ entry = NoEntry
  /\ send = NoTransfer /\ recv = NoTransfer /\ saving = 0

-----------------------------------------------------------------------------
(* The orchestrator of an outbound transfer.                               *)

(* sendComplete and waitCompleteAck, or sendChunk and waitChunkAck: no     *)
(* client has answered what is sent here for the first time.               *)
Reach(s, i) ==
  IF i > Chunks THEN [s EXCEPT !.pc = "complete"]
  ELSE [s EXCEPT !.pc = "chunk", !.idx = i, !.attempt = 1]

EarlyFor(x, key) == {e \in x.early : e.key = key}
WithoutEarly(x, key) ==
  [x EXCEPT !.early = StillCached({e \in @ : e.key # key})]

(* prepareOutboundTransfer and the first broadcasts.                       *)
BeginSend(a) ==
  LET x == Promote(net, a)
      to == TransferConnIds(x, a)
      owners == IF PushOwner(net, a) # NoClient
                THEN {IdOf(net, PushOwner(net, a))} ELSE to
  IN /\ send = NoTransfer
     /\ to # {}
     /\ Spend("sends")
     /\ \E o \in owners :
          send' = Reach([account |-> a, owner |-> o, to |-> {id[1] : id \in to},
                         status |-> "init", path |-> FALSE,
                         acked |-> {}, refused |-> {},
                         pc |-> "chunk", idx |-> 0, attempt |-> 0], 1)
     /\ net' = x
     /\ UNCHANGED <<epoch, sockets, entry, recv, saving>>

Unanswered(s) ==
  IF s.pc = "chunk" THEN [s EXCEPT !.pc = "sleep"] ELSE [s EXCEPT !.pc = "failed"]

(* Mutant of AckTimesOut: the wait for the last ACK has no timer. *)
ChunkTimesOut ==
  /\ send # NoTransfer
  /\ send.pc = "chunk"
  /\ send' = Unanswered(send)
  /\ UNCHANGED <<connVars, entry, left, recv, saving>>

AckTimesOut ==
  /\ send # NoTransfer
  /\ send.pc \in {"chunk", "complete"}
  /\ send' = Unanswered(send)
  /\ UNCHANGED <<connVars, entry, left, recv, saving>>

(* Mutant of Resend: the chunk's earlier answer is not looked up. *)
ResendBlindly(s, x) ==
  IF EarlyFor(x, s.idx) # {}
  THEN IF \E e \in EarlyFor(x, s.idx) : e.ok THEN Reach(s, s.idx + 1)
       ELSE [s EXCEPT !.attempt = @ + 1]
  ELSE [s EXCEPT !.pc = "chunk", !.attempt = @ + 1]

(* sendChunk, then ensureChunkAckPending and the early ACKs of             *)
(* waitForFileAck: a refused chunk fails again, an acknowledged one is     *)
(* done, a cached answer is taken.                                         *)
Resend(s, x) ==
  IF s.idx \in s.refused THEN [s EXCEPT !.attempt = @ + 1]
  ELSE IF s.idx \in s.acked THEN Reach(s, s.idx + 1)
  ELSE IF EarlyFor(x, s.idx) # {}
  THEN IF \E e \in EarlyFor(x, s.idx) : e.ok THEN Reach(s, s.idx + 1)
       ELSE [s EXCEPT !.attempt = @ + 1]
  ELSE [s EXCEPT !.pc = "chunk", !.attempt = @ + 1]

TakesEarly(s) == s.idx \notin s.refused \cup s.acked

(* Mutant of SleepEnds: attempts are not counted. *)
SleepEndsAlways ==
  /\ send # NoTransfer
  /\ send.pc = "sleep"
  /\ send' = Resend(send, net)
  /\ net' = IF TakesEarly(send) THEN WithoutEarly(net, send.idx) ELSE net
  /\ UNCHANGED <<epoch, sockets, entry, left, recv, saving>>

SleepEnds ==
  /\ send # NoTransfer
  /\ send.pc = "sleep"
  /\ send.attempt < Attempts
  /\ send' = Resend(send, net)
  /\ net' = IF TakesEarly(send) THEN WithoutEarly(net, send.idx) ELSE net
  /\ UNCHANGED <<epoch, sockets, entry, left, recv, saving>>

(* The last attempt has failed: abortChunkTransfer.                        *)
Abort ==
  /\ send # NoTransfer
  /\ send.pc = "sleep"
  /\ send.attempt = Attempts
  /\ send' = [send EXCEPT !.pc = "failed", !.status = "aborted"]
  /\ UNCHANGED <<connVars, entry, left, recv, saving>>

(* The service stops: clearAllFileAckWaiters.                              *)
WaitersCleared ==
  /\ Spend("stops")
  /\ send # NoTransfer
  /\ send' = IF send.pc \in {"chunk", "complete"} THEN Unanswered(send) ELSE send
  /\ net' = [net EXCEPT !.early = {}]
  /\ UNCHANGED <<epoch, sockets, entry, recv, saving>>

-----------------------------------------------------------------------------
(* File ACKs.                                                              *)

MatchesOwner(owner, id) == owner = id

(* tryAdoptTransferOwner *)
MayAdopt(x, id) == x.reach[AccountOf[id[1]]] /\ RecentlyReachable(x, id)

Applied(s, key, ok, path) ==
  CASE ~ok /\ key \in Chunk -> [s EXCEPT !.refused = @ \cup {key}]
    [] ~ok /\ key = CompleteStage -> [s EXCEPT !.status = "aborted"]
    [] ok /\ key \in Chunk -> [s EXCEPT !.acked = @ \cup {key},
                                        !.status = "transferring"]
    [] ok /\ key = CompleteStage -> [s EXCEPT !.status = "completed",
                                           !.path = @ \/ path]
    [] OTHER -> s

Awaits(s, key) ==
  \/ s.pc = "chunk" /\ s.idx = key
  \/ s.pc = "complete" /\ key = CompleteStage

(* Mutant of Woken: a refused chunk passes for an acknowledged one. *)
WokenAnyway(s, key, ok) ==
  IF key \in Chunk THEN Reach(s, key + 1)
  ELSE [s EXCEPT !.pc = IF s.path THEN "sent" ELSE "failed"]

(* The waiter's promise settles and the orchestrator goes on.              *)
Woken(s, key, ok) ==
  IF ~ok THEN Unanswered(s)
  ELSE IF key \in Chunk THEN Reach(s, key + 1)
  ELSE [s EXCEPT !.pc = IF s.path THEN "sent" ELSE "failed"]

Remember(x, key, ok) ==
  LET ack == [key |-> key, ok |-> ok, old |-> FALSE, after |-> {e.key : e \in x.early}]
      all == IF EarlyFor(x, key) = {} THEN x.early \cup {ack}
             ELSE {IF e.key = key THEN [ack EXCEPT !.after = e.after] ELSE e : e \in x.early}
  IN [x EXCEPT !.early = IF Cardinality(all) > MaxEarly
                         THEN StillCached({e \in all : e.after # {}}) ELSE all]

(* What a client that was sent the transfer may answer.                    *)
Answerable(s) ==
  {InitStage} \cup {i \in Chunk : i <= s.idx}
  \cup (IF s.pc \in {"complete", "sent"} \/ (s.pc = "failed" /\ s.status # "aborted")
        THEN {CompleteStage} ELSE {})

(* Mutant of Accepts: terminal transfers are not left alone. *)
AcceptsTerminal(s, x, c, n) ==
  /\ AccountOf[c] = s.account
  /\ \/ MatchesOwner(s.owner, <<c, n>>)
     \/ Stale(c, n) /\ MayAdopt(x, <<c, n>>)

Accepts(s, x, c, n) ==
  /\ s.status \notin Terminal
  /\ AccountOf[c] = s.account
  /\ \/ MatchesOwner(s.owner, <<c, n>>)
     \/ Stale(c, n) /\ MayAdopt(x, <<c, n>>)

FileAck(c, n, key, ok, path) ==
  /\ send # NoTransfer
  /\ c \in send.to
  /\ key \in Answerable(send)
  /\ Accepts(send, net, c, n)
  /\ LET s == Applied([send EXCEPT !.owner = <<c, n>>], key, ok, path)
         x == IF Stale(c, n) THEN net ELSE Refresh(net, c, n)
     IN IF Awaits(send, key)
        THEN send' = Woken(s, key, ok) /\ net' = x
        ELSE send' = s /\ net' = Remember(x, key, ok)
  /\ UNCHANGED <<epoch, sockets, entry, left, recv, saving>>

-----------------------------------------------------------------------------
(* Inbound transfers.                                                      *)

(* An event of a stale socket counts only from the owner and refreshes     *)
(* nothing; any other one refreshes its sender.                            *)
FromOwnerOrFresh(c, n) ==
  \/ Stale(c, n) /\ MatchesOwner(recv.owner, <<c, n>>) /\ net' = net
  \/ ~Stale(c, n) /\ net' = Refresh(net, c, n)

(* Also a file.init that is invalid or repeats a known transfer.           *)
FileInit(c, n, valid) ==
  /\ ~Stale(c, n)
  /\ net' = Refresh(net, c, n)
  /\ IF valid /\ recv = NoTransfer
     THEN /\ Spend("recvs")
          /\ recv' = [owner |-> <<c, n>>, status |-> "init", got |-> {}, bad |-> {}]
     ELSE UNCHANGED <<recv, left>>
  /\ UNCHANGED <<epoch, sockets, entry, send, saving>>

(* Mutant of Active: a chunk may revive an aborted transfer. *)
NotCompleted == recv # NoTransfer /\ recv.status # "completed"

Active == recv # NoTransfer /\ recv.status \notin Terminal

(* content: "good", "bad" (of the right size but not the file's) or        *)
(* "invalid", which the handler refuses.                                   *)
FileChunk(c, n, i, content) ==
  /\ Active
  /\ FromOwnerOrFresh(c, n)
  /\ recv' = IF content = "invalid" THEN recv
             ELSE [recv EXCEPT !.status = "transferring", !.got = @ \cup {i},
                     !.bad = IF content = "bad" THEN @ \cup {i} ELSE @ \ {i}]
  /\ UNCHANGED <<epoch, sockets, entry, left, send, saving>>

FileComplete(c, n) ==
  /\ Active
  /\ FromOwnerOrFresh(c, n)
  /\ IF recv.got = Chunk /\ recv.bad = {}
     THEN /\ Spend("saves")
          /\ saving' = saving + 1 /\ recv' = recv
     ELSE /\ recv' = [recv EXCEPT !.status = "aborted"]
          /\ UNCHANGED <<saving, left>>
  /\ UNCHANGED <<epoch, sockets, entry, send>>

(* saveInboundMediaBuffer ends; the status is set from the state captured  *)
(* before the await, whatever happened since.                              *)
SaveEnds(ok) ==
  /\ saving > 0
  /\ saving' = saving - 1
  /\ recv' = [recv EXCEPT !.status = IF ok THEN "completed" ELSE "aborted"]
  /\ UNCHANGED <<connVars, entry, left, send>>

FileAbort(c, n) ==
  /\ Active
  /\ FromOwnerOrFresh(c, n)
  /\ recv' = [recv EXCEPT !.status = "aborted"]
  /\ UNCHANGED <<epoch, sockets, entry, left, send, saving>>

-----------------------------------------------------------------------------
Next ==
  \/ ConnNext /\ UNCHANGED <<entry, send, recv, saving>>
  \/ RouteNext /\ UNCHANGED <<send, recv, saving>>
  \/ \E a \in Account : BeginSend(a)
  \/ AckTimesOut \/ SleepEnds \/ Abort \/ WaitersCleared
  \/ \E c \in Client : \E n \in Sockets(c) :
       \/ \E key \in Chunk \cup {InitStage, CompleteStage}, ok, path \in BOOLEAN :
            FileAck(c, n, key, ok, path)
       \/ \E valid \in BOOLEAN : FileInit(c, n, valid)
       \/ \E i \in Chunk, content \in {"good", "bad", "invalid"} :
            FileChunk(c, n, i, content)
       \/ FileComplete(c, n)
       \/ FileAbort(c, n)
  \/ \E ok \in BOOLEAN : SaveEnds(ok)

(* Timers fire; nothing is assumed of the clients.                         *)
Fairness == WF_vars(AckTimesOut) /\ WF_vars(SleepEnds \/ Abort)

Spec == Init /\ [][Next]_vars /\ Fairness

-----------------------------------------------------------------------------
(* The client that owns a transfer is one it was broadcast to: otherwise   *)
(* no ACK would ever count (prepareOutboundTransfer takes the owner and    *)
(* the recipients from two functions of outbox-route.ts; owners change by  *)
(* tryAdoptTransferOwner).                                                 *)
OwnerAddressed == send # NoTransfer => send.owner[1] \in send.to

(* Nobody waits for an answer that has been given: a chunk under wait is   *)
(* neither acknowledged nor refused, whichever early ACKs were cached,     *)
(* evicted, expired or cleared meanwhile (file-ack-runtime.ts,             *)
(* ensureChunkAckPending).                                                 *)
NoAnswerMissed ==
  send # NoTransfer =>
    /\ send.pc = "chunk" => send.idx \notin send.acked \cup send.refused
    /\ send.pc = "complete" => send.status \notin Terminal

(* A transfer reported as sent was acknowledged chunk by chunk and at the  *)
(* end, through any retries and changes of owner.                          *)
SentIsAcked ==
  send # NoTransfer /\ send.pc = "sent" =>
    send.acked = Chunk /\ send.status = "completed"

(* Late ACKs do not undo the end of an outbound transfer (handleFileAck).  *)
SendEndIsFinal ==
  [][send # NoTransfer /\ send.status \in Terminal
       => send' # NoTransfer /\ send'.status = send.status]_send

(* The end of an inbound transfer is undone only by a completion that was  *)
(* awaiting its write when the end came (file-inbound-complete.ts).        *)
RecvEndHolds ==
  [][recv # NoTransfer /\ recv.status \in Terminal /\ saving = 0
       => recv'.status = recv.status]_recv

(* Every outbound transfer ends, whatever the clients do or fail to do.    *)
SendEnds ==
  (send # NoTransfer /\ send.pc \in {"chunk", "sleep", "complete"})
    ~> (send # NoTransfer /\ send.pc \in {"sent", "failed"})
=============================================================================
