------------------------------- MODULE Outbox -------------------------------
(***************************************************************************)
(* The outbound queue of one bridge: entries, the per-account drain loops, *)
(* the flushes that start them, the single push timer, the message-ACK     *)
(* waiters, the debounced save and the restarts of the service.            *)
(*                                                                         *)
(* JavaScript runs one callback at a time, so an action is the code from   *)
(* one suspension point (a sleep, an ACK wait, a media transfer, a timer)  *)
(* to the next.  Clocks are abstracted: an entry is due or not yet due,    *)
(* and a timer that is armed may fire at any moment.                       *)
(***************************************************************************)
EXTENDS Naturals, FiniteSets

CONSTANTS
  Account,      \* normalized account ids
  Msg,          \* message ids, numbered in the order of createdAt
  Media,        \* the messages whose transferMode is 'media'
  AckRequired,  \* the accounts with outboundRequireAck
  Home,         \* Home[m]: the account the session of m last spoke through
  JsonStore,    \* the store is in mode json or dual: a start reads the JSON file
  MaxRetry,     \* MAX_RETRY
  RetryLimit,   \* PUSH_DRAIN_EXCEPTION_RETRY_LIMIT
  MaxStops, MaxCrashes, MaxFaults, MaxSaves,  \* bounds of the explored runs
  MaxOwed,      \* bound: the answers under way per message, others are lost
  NoMsg, NoEntry

ASSUME OutboxAssumption ==
  /\ Msg \subseteq Nat
  /\ Media \subseteq Msg
  /\ AckRequired \subseteq Account
  /\ Home \in [Msg -> Account]
  /\ JsonStore \in BOOLEAN
  /\ {MaxRetry, RetryLimit, MaxStops, MaxCrashes, MaxFaults, MaxSaves,
     MaxOwed} \subseteq Nat
  /\ NoMsg \notin Msg
  /\ NoEntry \notin [acct : Account, retry : 0..MaxRetry, due : BOOLEAN]

VARIABLES
  phase,        \* "up", "stopping" (cleaned up, not yet flushed), "down"
  link,         \* per account: a "live" client, only a "recent" one, none
  outbox,       \* outbox[m]: the queued entry of m, or NoEntry
  drain,        \* drain[a]: the drain loop of account a
  timer,        \* pushTimer is armed
  flushErrors,  \* pushDrainExceptionRetryCount
  saveTimer,    \* saveTimer is armed
  saved,        \* the queue in the persisted state
  owed,         \* owed[m]: pushes of m the client has not answered yet
  stops, crashes, faults, saves,  \* how often each happened, for the bounds
  \* History, read by no action: how each message was settled, the pushes
  \* charged to its present retry budget, what was ever persisted or queued,
  \* and the accounts whose entries a start loaded and nothing flushed since.
  fate, sends, stored, used, cold

queueVars == <<outbox, saveTimer, fate>>
flushVars == <<drain, timer, flushErrors>>
clientVars == <<link, owed, sends>>
storeVars == <<saved, stored, saves>>
lifeVars == <<phase, stops, crashes, faults>>
vars == <<queueVars, flushVars, clientVars, storeVars, lifeVars, used, cold>>

Entry == [acct : Account, retry : 0..MaxRetry, due : BOOLEAN]
Pc == {"idle", "loop", "transfer", "ackwait", "expired", "nap", "napbreak"}
Fate == {"acked", "dead", "purged", "sent"}

(* rest: the accounts the same flush still has to visit; wait: the flush   *)
(* has a next delay to schedule when it ends; online: onlineNow.           *)
Drain == [pc : Pc, msg : Msg \cup {NoMsg}, retry : 0..MaxRetry,
          online : BOOLEAN, worked : BOOLEAN,
          rest : SUBSET Account, wait : BOOLEAN]

Idle == [pc |-> "idle", msg |-> NoMsg, retry |-> 0, online |-> FALSE,
         worked |-> FALSE, rest |-> {}, wait |-> FALSE]

Queued == {m \in Msg : outbox[m] # NoEntry}
QueueOf(a) == {m \in Queued : outbox[m].acct = a}
DueOf(a) == {m \in QueueOf(a) : outbox[m].due}
Stopped == phase # "up"

TypeOK ==
  /\ phase \in {"up", "stopping", "down"}
  /\ link \in [Account -> {"live", "recent", "gone"}]
  /\ outbox \in [Msg -> Entry \cup {NoEntry}]
  /\ saved \in [Msg -> Entry \cup {NoEntry}]
  /\ drain \in [Account -> Drain]
  /\ timer \in BOOLEAN
  /\ saveTimer \in BOOLEAN
  /\ flushErrors \in Nat
  /\ owed \in [Msg -> Nat]
  /\ sends \in [Msg -> Nat]
  /\ fate \in [Msg -> SUBSET Fate]
  /\ stored \subseteq Msg
  /\ used \subseteq Msg
  /\ cold \subseteq Account
  /\ {stops, crashes, faults, saves} \subseteq Nat

Init ==
  /\ phase = "up"
  /\ link = [a \in Account |-> "gone"]
  /\ outbox = [m \in Msg |-> NoEntry]
  /\ saved = [m \in Msg |-> NoEntry]
  /\ drain = [a \in Account |-> Idle]
  /\ timer = FALSE
  /\ saveTimer = FALSE
  /\ flushErrors = 0
  /\ owed = [m \in Msg |-> 0]
  /\ sends = [m \in Msg |-> 0]
  /\ fate = [m \in Msg |-> {}]
  /\ stored = {}
  /\ used = {}
  /\ cold = {}
  /\ stops = 0 /\ crashes = 0 /\ faults = 0 /\ saves = 0

-----------------------------------------------------------------------------
(* Flushing: flushPushQueue, runAccountDrainCycle, schedulePushDrain.      *)

(* Mutant of Advance: no test of pushDrainRunningAccounts.                 *)
AdvanceReenters(targets, wait, d, t) ==
  \/ /\ targets = {}
     /\ drain' = d
     /\ timer' = (t \/ (wait /\ ~Stopped))
     /\ flushErrors' = 0
  \/ \E x \in targets :
       /\ drain' = [d EXCEPT ![x] = [Idle EXCEPT !.pc = "loop",
                                                !.rest = targets \ {x},
                                                !.wait = wait]]
       /\ timer' = t
       /\ UNCHANGED flushErrors

(* A flush visits its targets one after the other and skips an account     *)
(* whose drain is running; at the end it arms the timer if any account     *)
(* left a next delay.  The order of the targets is that of the outbox map, *)
(* left open here.  d is drain and t is timer after the caller's own work. *)
Advance(targets, wait, d, t) ==
  LET running == {x \in targets : d[x].pc # "idle"} IN
    \/ /\ targets = running
       /\ drain' = d
       /\ timer' = (t \/ (wait /\ ~Stopped))
       /\ flushErrors' = 0
    \/ \E x \in targets \ running, skipped \in SUBSET running :
         /\ drain' = [d EXCEPT ![x] = [Idle EXCEPT
                        !.pc = "loop",
                        !.rest = targets \ (skipped \cup {x}),
                        !.wait = wait]]
         /\ timer' = t
         /\ UNCHANGED flushErrors

Flush(targets, d, t) ==
  IF Stopped
  THEN drain' = d /\ timer' = t /\ flushErrors' = 0
  ELSE Advance(targets, FALSE, d, t)

(* The drain of a breaks; its flush goes on with the remaining targets.    *)
Break(a, wait) ==
  Advance(drain[a].rest, drain[a].wait \/ wait,
          [drain EXCEPT ![a] = Idle], timer)

(* The drain of a goes on at pc, having processed an entry.                *)
Continue(a, pc) ==
  /\ drain' = [drain EXCEPT ![a] = [@ EXCEPT !.pc = pc, !.worked = TRUE,
                                             !.msg = NoMsg, !.retry = 0,
                                             !.online = FALSE]]
  /\ UNCHANGED <<timer, flushErrors>>

(* The drain of a suspends at pc on its attempt to push m.                 *)
Suspend(a, pc, m, retry, online) ==
  /\ drain' = [drain EXCEPT ![a] = [@ EXCEPT !.pc = pc, !.worked = TRUE,
                                             !.msg = m, !.retry = retry,
                                             !.online = online]]
  /\ UNCHANGED <<timer, flushErrors>>

ScheduleSave == saveTimer' = (saveTimer \/ ~Stopped)

(* Mutant of Remove: the deletion schedules no save.                       *)
RemoveUnsaved(m, why) ==
  /\ outbox' = [outbox EXCEPT ![m] = NoEntry]
  /\ fate' = [fate EXCEPT ![m] = @ \cup {why}]
  /\ UNCHANGED saveTimer

Remove(m, why) ==
  /\ outbox' = [outbox EXCEPT ![m] = NoEntry]
  /\ fate' = [fate EXCEPT ![m] = @ \cup {why}]
  /\ ScheduleSave

Put(m, e) ==
  /\ outbox' = [outbox EXCEPT ![m] = e]
  /\ UNCHANGED fate
  /\ ScheduleSave

(* A broadcast of m: the client may answer each push once.                 *)
Broadcast(m) ==
  /\ owed' = [owed EXCEPT ![m] = IF @ < MaxOwed THEN @ + 1 ELSE @]
  /\ sends' = [sends EXCEPT ![m] = @ + 1]

-----------------------------------------------------------------------------
(* One round of drainAccountOutbox.                                        *)

(* The loop ends: the service stopped, or the account has nothing queued.  *)
DrainEnds(a) ==
  /\ drain[a].pc = "loop"
  /\ Stopped \/ QueueOf(a) = {}
  /\ Break(a, FALSE)
  /\ UNCHANGED <<queueVars, clientVars, storeVars, lifeVars, used, cold>>

(* It yields on its time or entry budget once it has processed an entry.   *)
DrainYields(a) ==
  /\ drain[a].pc = "loop"
  /\ ~Stopped
  /\ drain[a].worked
  /\ Break(a, TRUE)
  /\ UNCHANGED <<queueVars, clientVars, storeVars, lifeVars, used, cold>>

DrainFindsNothingDue(a) ==
  /\ drain[a].pc = "loop"
  /\ ~Stopped
  /\ QueueOf(a) # {} /\ DueOf(a) = {}
  /\ Break(a, TRUE)
  /\ UNCHANGED <<queueVars, clientVars, storeVars, lifeVars, used, cold>>

(* findDueOutboxEntry: the oldest entry that is due.                       *)
Picks(a, m) ==
  /\ drain[a].pc = "loop"
  /\ ~Stopped
  /\ m \in DueOf(a)
  /\ \A n \in DueOf(a) : m <= n

(* A client to push to: live connections, or those of a recent inbound.    *)
MayReach(a) == link[a] \in {"live", "recent"}
MayMiss(a) == link[a] \in {"recent", "gone"}

(* The next try of m is charged retry: back off, or give m up.             *)
Retry(a, m, retry) == Put(m, [acct |-> a, retry |-> retry, due |-> FALSE])
GiveUp(m) == Remove(m, "dead")

(* No route: recordOutboxPrePushFailure charges a retry, then              *)
(* handleFailedDrainEntry takes one of four ways out.  Only the two errors *)
(* of isPrePushGuardDeferral are deferrals; a media message without a      *)
(* client has an error of its own.                                         *)
Deferral(a, m) == m \notin Media \/ link[a] = "gone"

GuardExhausts(a) == \E m \in Msg :
  /\ Picks(a, m) /\ MayMiss(a)
  /\ outbox[m].retry + 1 > MaxRetry
  /\ GiveUp(m)
  /\ Continue(a, "nap")
  /\ UNCHANGED <<clientVars, storeVars, lifeVars, used, cold>>

(* Mutant of GuardCorrects: it does not call schedulePushDrain(0).         *)
GuardCorrectsOnly(a) == \E m \in Msg :
  /\ Picks(a, m) /\ MayMiss(a) /\ Deferral(a, m)
  /\ outbox[m].retry + 1 <= MaxRetry
  /\ Home[m] # a
  /\ Put(m, [acct |-> Home[m], retry |-> 0, due |-> FALSE])
  /\ drain' = [drain EXCEPT ![a] = [@ EXCEPT !.worked = TRUE]]
  /\ owed' = [owed EXCEPT ![m] = 0]
  /\ sends' = [sends EXCEPT ![m] = 0]
  /\ UNCHANGED <<timer, flushErrors, link, storeVars, lifeVars, used, cold>>

(* The account on the entry was wrong: move the entry to the account of    *)
(* its session, with a fresh budget, and arm the timer for a full flush.   *)
GuardCorrects(a) == \E m \in Msg :
  /\ Picks(a, m) /\ MayMiss(a) /\ Deferral(a, m)
  /\ outbox[m].retry + 1 <= MaxRetry
  /\ Home[m] # a
  /\ Put(m, [acct |-> Home[m], retry |-> 0, due |-> FALSE])
  /\ drain' = [drain EXCEPT ![a] = [@ EXCEPT !.worked = TRUE]]
  /\ timer' = TRUE
  /\ owed' = [owed EXCEPT ![m] = 0]
  /\ sends' = [sends EXCEPT ![m] = 0]
  /\ UNCHANGED <<flushErrors, link, storeVars, lifeVars, used, cold>>

(* Mutant of GuardDefers: a failure to find a client charges no retry.     *)
GuardDefersFree(a) == \E m \in Msg :
  /\ Picks(a, m) /\ MayMiss(a) /\ Deferral(a, m)
  /\ outbox[m].retry + 1 < MaxRetry
  /\ Retry(a, m, outbox[m].retry)
  /\ Break(a, TRUE)
  /\ UNCHANGED <<clientVars, storeVars, lifeVars, used, cold>>

(* The session is Home's or unknown: wait, unless the budget is used up.   *)
GuardDefers(a) == \E m \in Msg :
  /\ Picks(a, m) /\ MayMiss(a) /\ Deferral(a, m)
  /\ outbox[m].retry + 1 < MaxRetry
  /\ Retry(a, m, outbox[m].retry + 1)
  /\ Break(a, TRUE)
  /\ UNCHANGED <<clientVars, storeVars, lifeVars, used, cold>>

GuardGivesUp(a) == \E m \in Msg :
  /\ Picks(a, m) /\ MayMiss(a) /\ Deferral(a, m)
  /\ outbox[m].retry + 1 = MaxRetry
  /\ GiveUp(m)
  /\ Continue(a, "loop")
  /\ UNCHANGED <<clientVars, storeVars, lifeVars, used, cold>>

(* Not a deferral: computePushFailureDecision charges the attempt again.   *)
MediaGuardFails(a) == \E m \in Media :
  /\ Picks(a, m) /\ MayMiss(a)
  /\ outbox[m].retry + 1 <= MaxRetry
  /\ \/ /\ outbox[m].retry + 2 > MaxRetry
        /\ GiveUp(m)
        /\ Continue(a, "loop")
     \/ /\ outbox[m].retry + 2 <= MaxRetry
        /\ Retry(a, m, outbox[m].retry + 2)
        /\ Break(a, TRUE)
  /\ UNCHANGED <<clientVars, storeVars, lifeVars, used, cold>>

(* Mutant of FailedPush: a failed push charges no retry.                   *)
FailedPushFree(a, m, retry) ==
  /\ Retry(a, m, retry)
  /\ Break(a, TRUE)

(* The next retry would be one too many.                                   *)
Spent(retry) == retry + 1 > MaxRetry

(* A failed push (an exception, or a transfer that may be tried again).    *)
FailedPush(a, m, retry) ==
  \/ /\ Spent(retry)
     /\ GiveUp(m)
     /\ Continue(a, "loop")
  \/ /\ ~Spent(retry)
     /\ Retry(a, m, retry + 1)
     /\ Break(a, TRUE)

(* Mutants of Reroute: the budget is compared before the charge; the       *)
(* unconfirmed push charges no retry.                                      *)
RerouteLate(a, m, retry) ==
  \/ /\ retry > MaxRetry
     /\ GiveUp(m)
     /\ Continue(a, "loop")
  \/ /\ retry <= MaxRetry
     /\ Retry(a, m, retry + 1)
     /\ Continue(a, "napbreak")

RerouteFree(a, m, retry) ==
  /\ Retry(a, m, retry)
  /\ Continue(a, "napbreak")

(* No ACK came, or none could.  The decision (computeRetryRerouteDecision) *)
(* and the new entry are built from the entry the drain captured.          *)
Reroute(a, m, retry) ==
  \/ /\ Spent(retry)
     /\ GiveUp(m)
     /\ Continue(a, "loop")
  \/ /\ ~Spent(retry)
     /\ Retry(a, m, retry + 1)
     /\ Continue(a, "napbreak")

(* handlePushedDrainEntry up to its first suspension: wait for the ACK,    *)
(* or be done (no ACK wanted), or count the push as unconfirmed.           *)
AfterPush(a, m, retry, online) ==
  \/ /\ online /\ a \in AckRequired
     /\ Put(m, [acct |-> a, retry |-> retry, due |-> TRUE])
     /\ Suspend(a, "ackwait", m, retry, TRUE)
  \/ /\ online /\ a \notin AckRequired
     /\ Remove(m, "sent")
     /\ Continue(a, "nap")
  \/ /\ ~online
     /\ Reroute(a, m, retry)

PushText(a) == \E m \in Msg \ Media :
  /\ Picks(a, m) /\ MayReach(a)
  /\ Broadcast(m)
  /\ AfterPush(a, m, outbox[m].retry, link[a] = "live")
  /\ UNCHANGED <<link, storeVars, lifeVars, used, cold>>

(* The broadcast throws: handleTextPushFailure, then the failure decision. *)
PushTextThrows(a) == \E m \in Msg \ Media :
  /\ Picks(a, m) /\ MayReach(a)
  /\ FailedPush(a, m, outbox[m].retry)
  /\ UNCHANGED <<clientVars, storeVars, lifeVars, used, cold>>

(* A media message is first transferred: await transferMediaToBncrClient.  *)
BeginTransfer(a) == \E m \in Media :
  /\ Picks(a, m) /\ MayReach(a)
  /\ Suspend(a, "transfer", m, outbox[m].retry, link[a] = "live")
  /\ UNCHANGED <<queueVars, clientVars, storeVars, lifeVars, used, cold>>

TransferSucceeds(a) ==
  /\ drain[a].pc = "transfer"
  /\ Broadcast(drain[a].msg)
  /\ AfterPush(a, drain[a].msg, drain[a].retry, drain[a].online)
  /\ UNCHANGED <<link, storeVars, lifeVars, used, cold>>

TransferFails(a) ==
  /\ drain[a].pc = "transfer"
  /\ FailedPush(a, drain[a].msg, drain[a].retry)
  /\ UNCHANGED <<clientVars, storeVars, lifeVars, used, cold>>

TransferRejected(a) ==
  /\ drain[a].pc = "transfer"
  /\ GiveUp(drain[a].msg)
  /\ Continue(a, "nap")
  /\ UNCHANGED <<clientVars, storeVars, lifeVars, used, cold>>

(* Mutant of AckTimeout: no test that the outbox still has the entry.      *)
AckTimeoutUnchecked(a) ==
  /\ drain[a].pc \in {"ackwait", "expired"}
  /\ Reroute(a, drain[a].msg, drain[a].retry)
  /\ UNCHANGED <<clientVars, storeVars, lifeVars, used, cold>>

(* The waiter's timer fires, or cleanup resolved the waiter as 'timeout'.  *)
AckTimeout(a) ==
  /\ drain[a].pc \in {"ackwait", "expired"}
  /\ \/ /\ drain[a].msg \notin Queued
        /\ Continue(a, "nap")
        /\ UNCHANGED queueVars
     \/ /\ drain[a].msg \in Queued
        /\ Reroute(a, drain[a].msg, drain[a].retry)
  /\ UNCHANGED <<clientVars, storeVars, lifeVars, used, cold>>

(* sleepMs(pushDrainIntervalMs) is over.                                   *)
Wake(a) ==
  /\ \/ /\ drain[a].pc = "nap"
        /\ Continue(a, "loop")
     \/ /\ drain[a].pc = "napbreak"
        /\ Break(a, TRUE)
  /\ UNCHANGED <<queueVars, clientVars, storeVars, lifeVars, used, cold>>

(* Mutant of FlushThrows: the rejected flush is not scheduled again.       *)
FlushThrowsSilently(a) ==
  /\ drain[a].pc = "loop"
  /\ faults < MaxFaults
  /\ faults' = faults + 1
  /\ drain' = [drain EXCEPT ![a] = Idle]
  /\ flushErrors' = flushErrors + 1
  /\ UNCHANGED <<queueVars, clientVars, storeVars, timer, phase, stops, crashes,
                 used, cold>>

(* Anything else throws: the flush is abandoned with the targets and the   *)
(* delay it still held, and tried again while the retry limit allows.      *)
FlushThrows(a) ==
  /\ drain[a].pc = "loop"
  /\ faults < MaxFaults
  /\ faults' = faults + 1
  /\ drain' = [drain EXCEPT ![a] = Idle]
  /\ flushErrors' = flushErrors + 1
  /\ timer' = (timer \/ (flushErrors + 1 <= RetryLimit /\ ~Stopped))
  /\ UNCHANGED <<queueVars, clientVars, storeVars, phase, stops, crashes, used, cold>>
-----------------------------------------------------------------------------
(* The rest of the bridge and its environment.                             *)

(* enqueueOutbound; the account comes from the route and may be wrong.     *)
Enqueue(m, a) ==
  /\ m \notin used
  /\ used' = used \cup {m}
  /\ LET e == [acct |-> a, retry |-> 0, due |-> TRUE] IN Put(m, e)
  /\ Flush({a}, drain, timer)
  /\ cold' = cold \ {a}
  /\ UNCHANGED <<clientVars, storeVars, lifeVars>>

TimerFires ==
  /\ timer
  /\ Flush({a \in Account : QueueOf(a) # {}}, drain, FALSE)
  /\ cold' = {}
  /\ UNCHANGED <<queueVars, clientVars, storeVars, lifeVars, used>>

(* nextAttemptAt passes.                                                   *)
BecomesDue(m) ==
  /\ m \in Queued
  /\ ~outbox[m].due
  /\ outbox' = [outbox EXCEPT ![m] = [@ EXCEPT !.due = TRUE]]
  /\ UNCHANGED <<fate, saveTimer, flushVars, clientVars, storeVars, lifeVars,
                 used, cold>>

(* Mutant of ClientSeen: a client that shows up starts no flush.           *)
ClientSeenUnflushed(a) ==
  /\ link' = [link EXCEPT ![a] = "live"]
  /\ cold' = cold \ {a}
  /\ UNCHANGED <<queueVars, flushVars, owed, sends, storeVars, lifeVars, used>>

(* connect, activity and inbound: the connection is seen, the account      *)
(* flushed.                                                                *)
ClientSeen(a) ==
  /\ link' = [link EXCEPT ![a] = "live"]
  /\ Flush({a}, drain, timer)
  /\ cold' = cold \ {a}
  /\ UNCHANGED <<queueVars, owed, sends, storeVars, lifeVars, used>>

(* The TTL passes, then twice the TTL, without a sign of the client.       *)
LinkDecays(a) ==
  /\ \/ link[a] = "live" /\ link' = [link EXCEPT ![a] = "recent"]
     \/ link[a] = "recent" /\ link' = [link EXCEPT ![a] = "gone"]
  /\ UNCHANGED <<queueVars, flushVars, owed, sends, storeVars, lifeVars, used, cold>>

(* prepareAckHandling accepts an answer of the entry's account, seen or    *)
(* forgotten.  The answer marks its client seen; one with a stale lease    *)
(* counts only from the owner of the last push and marks nobody.  An       *)
(* answer that is refused is one that never arrives.                       *)
AckAccepted(m) ==
  /\ ~Stopped
  /\ m \in Queued
  /\ owed[m] > 0
  /\ owed' = [owed EXCEPT ![m] = @ - 1]
  /\ link' \in {link, [link EXCEPT ![outbox[m].acct] = "live"]}
  /\ UNCHANGED <<sends, storeVars, lifeVars, used>>

(* drain after resolveMessageAck(m): the waiting drain finds m gone.       *)
Resolved(m) ==
  [a \in Account |->
     IF drain[a].pc = "ackwait" /\ drain[a].msg = m
     THEN [drain[a] EXCEPT !.pc = "nap", !.msg = NoMsg, !.retry = 0,
                           !.online = FALSE]
     ELSE drain[a]]

AckOk(m) ==
  /\ AckAccepted(m)
  /\ Remove(m, "acked")
  /\ Flush({outbox[m].acct}, Resolved(m), timer)
  /\ cold' = cold \ {outbox[m].acct}

AckFatal(m) ==
  /\ AckAccepted(m)
  /\ GiveUp(m)
  /\ drain' = Resolved(m)
  /\ UNCHANGED <<timer, flushErrors, cold>>

(* Mutant of AckRetry: the NACK charges a retry as well.                   *)
AckRetryCharges(m) ==
  /\ AckAccepted(m)
  /\ outbox[m].retry < MaxRetry
  /\ Put(m, [outbox[m] EXCEPT !.due = FALSE, !.retry = @ + 1])
  /\ UNCHANGED <<flushVars, cold>>

(* Neither wakes the waiter nor schedules a drain.                         *)
AckRetry(m) ==
  /\ AckAccepted(m)
  /\ Put(m, [outbox[m] EXCEPT !.due = FALSE])
  /\ UNCHANGED <<flushVars, cold>>

(* A session is pruned: its messages leave the database (the JSON file is  *)
(* only rewritten by the save) and then the queue, their waiters stay.     *)
Purge(m) ==
  /\ ~Stopped
  /\ m \in Queued \/ saved[m] # NoEntry
  /\ saved' = IF JsonStore THEN saved ELSE [saved EXCEPT ![m] = NoEntry]
  /\ outbox' = [outbox EXCEPT ![m] = NoEntry]
  /\ fate' = [fate EXCEPT ![m] = IF m \in Queued THEN @ \cup {"purged"} ELSE @]
  /\ ScheduleSave
  /\ UNCHANGED <<flushVars, clientVars, stored, saves, lifeVars, used, cold>>

-----------------------------------------------------------------------------
(* Persistence and restarts.  A reloaded entry may have become due or not; *)
(* it is loaded as not due and BecomesDue may follow at once.              *)

Persisted == [m \in Msg |-> IF outbox[m] = NoEntry THEN NoEntry
                            ELSE [outbox[m] EXCEPT !.due = FALSE]]

SaveFires ==
  /\ saveTimer
  /\ saves < MaxSaves
  /\ saves' = saves + 1
  /\ saveTimer' = FALSE
  /\ saved' = Persisted
  /\ stored' = stored \cup Queued
  /\ UNCHANGED <<outbox, fate, flushVars, clientVars, lifeVars, used, cold>>

(* stopService: cleanupRuntimeWaitersAndTimers expires the waiters, then   *)
(* flushState takes its snapshot.                                          *)
Stop ==
  /\ ~Stopped
  /\ stops < MaxStops
  /\ stops' = stops + 1
  /\ phase' = "stopping"
  /\ saveTimer' = FALSE
  /\ timer' = FALSE
  /\ drain' = [a \in Account |->
                 IF drain[a].pc = "ackwait"
                 THEN [drain[a] EXCEPT !.pc = "expired"] ELSE drain[a]]
  /\ UNCHANGED <<outbox, fate, flushErrors, clientVars, storeVars, crashes,
                 faults, used, cold>>

(* Mutant of StopFlushes: the flush sees the service stopped and returns.  *)
StopFlushesNothing ==
  /\ phase = "stopping"
  /\ phase' = "down"
  /\ UNCHANGED <<queueVars, flushVars, clientVars, storeVars, stops, crashes,
                 faults, used, cold>>

(* The drains whose waiters expired run on at once, but the snapshot of an *)
(* open database is taken before they do, and that of a JSON file after:   *)
(* either order, and what a drain changes after the snapshot stays in      *)
(* memory.                                                                 *)
StopFlushes ==
  /\ phase = "stopping"
  /\ phase' = "down"
  /\ saved' = Persisted
  /\ stored' = stored \cup Queued
  /\ UNCHANGED <<queueVars, flushVars, clientVars, stops, crashes, faults, saves,
                 used, cold>>

(* What a start knows to be settled: the dead letters too are those of the *)
(* disk, so that of a message still queued there no settlement is known.   *)
Remembered == [m \in Msg |-> IF saved[m] = NoEntry THEN fate[m] ELSE {}]

(* The process dies.  What it had settled but not yet saved is forgotten.  *)
Crash ==
  /\ crashes < MaxCrashes
  /\ crashes' = crashes + 1
  /\ phase' = "down"
  /\ link' = [a \in Account |-> "gone"]
  /\ outbox' = [m \in Msg |-> NoEntry]
  /\ drain' = [a \in Account |-> Idle]
  /\ timer' = FALSE
  /\ saveTimer' = FALSE
  /\ flushErrors' = 0
  /\ fate' = Remembered
  /\ UNCHANGED <<owed, sends, storeVars, stops, faults, used, cold>>

(* Mutant of Start: the queue in memory is kept, the disk is not read.     *)
StartUnloaded ==
  /\ phase = "down"
  /\ phase' = "up"
  /\ timer' = FALSE
  /\ sends' = [m \in Msg |-> 0]
  /\ UNCHANGED <<outbox, saveTimer, fate, drain, flushErrors, link, owed,
                 storeVars, stops, crashes, faults, used, cold>>

(* startService: load the queue; drain it now if a client is remembered.   *)
(* The load takes longer than an expired waiter needs to run on.           *)
Start ==
  /\ phase = "down"
  /\ \A a \in Account : drain[a].pc # "expired"
  /\ phase' = "up"
  /\ outbox' = saved
  /\ timer' = (/\ \E m \in Msg : saved[m] # NoEntry
               /\ \E a \in Account : link[a] # "gone")
  /\ cold' = IF timer' THEN {}
             ELSE {a \in Account : \E m \in Msg : saved[m] # NoEntry /\ saved[m].acct = a}
  /\ sends' = [m \in Msg |-> 0]
  /\ fate' = Remembered
  /\ UNCHANGED <<saveTimer, drain, flushErrors, link, owed, storeVars,
                 stops, crashes, faults, used>>

-----------------------------------------------------------------------------
DrainStep(a) ==
  \/ DrainEnds(a) \/ DrainYields(a) \/ DrainFindsNothingDue(a)
  \/ GuardExhausts(a) \/ GuardCorrects(a) \/ GuardDefers(a)
  \/ GuardGivesUp(a) \/ MediaGuardFails(a)
  \/ PushText(a) \/ PushTextThrows(a)
  \/ BeginTransfer(a)
  \/ TransferSucceeds(a) \/ TransferFails(a) \/ TransferRejected(a)
  \/ AckTimeout(a) \/ Wake(a)

Answer(m) == AckOk(m) \/ AckFatal(m) \/ AckRetry(m)

Restart == Stop \/ StopFlushes \/ Crash \/ Start

Next ==
  \/ \E a \in Account : \/ DrainStep(a) \/ FlushThrows(a)
                        \/ ClientSeen(a) \/ LinkDecays(a)
  \/ \E m \in Msg : \/ \E a \in Account : Enqueue(m, a)
                    \/ BecomesDue(m) \/ Answer(m) \/ Purge(m)
  \/ TimerFires \/ SaveFires
  \/ Restart

Spec == Init /\ [][Next]_vars

(* Timers fire, sleeps end, ACK waits time out, transfers end one way or   *)
(* another, delays pass.  Nothing is assumed of clients or of restarts.    *)
Fairness ==
  /\ \A a \in Account : WF_vars(DrainStep(a))
  /\ \A m \in Msg : WF_vars(BecomesDue(m))
  /\ WF_vars(TimerFires)

FairSpec == Spec /\ Fairness

-----------------------------------------------------------------------------
(* Properties.                                                             *)

InFlight(a) == drain[a].pc \in {"transfer", "ackwait", "expired"}

(* A text message that was acknowledged, dead-lettered, purged or sent     *)
(* without ACK is never queued again before the next start, and is         *)
(* settled in one way only: no drain that captured the entry before it was *)
(* settled writes it back (the has() tests around the ACK wait).           *)
TextSettledOnce ==
  \A m \in Msg \ Media :
    /\ fate[m] # {} => m \notin Queued
    /\ Cardinality(fate[m]) <= 1

(* An entry in an attempt is owned by one drain, and the retry count and   *)
(* account that drain captured are still those of the queue, so what it    *)
(* writes back after its suspension loses no charge: "A drain cycle owns   *)
(* one account at a time" (outbox-drain-loop.ts:421).                      *)
OneAttempt ==
  \A a \in Account : InFlight(a) =>
    /\ \A b \in Account \ {a} : InFlight(b) => drain[b].msg # drain[a].msg
    /\ drain[a].msg \in Queued =>
         outbox[drain[a].msg].acct = a /\ outbox[drain[a].msg].retry = drain[a].retry

(* Nobody forgets a queued message, client or no client: it is watched by  *)
(* the timer, by a drain of its account, or by a flush that still has to   *)
(* visit the account or to schedule its next delay.  Only the entries that *)
(* a start without a client has loaded (startService schedules no drain    *)
(* then) wait for the first flush of their account: a connect, an inbound, *)
(* an activity, a send, an ACK or a full flush, but not a NACK.            *)
NoStrandedEntry ==
  \A a \in Account :
    ~Stopped /\ QueueOf(a) # {} /\ a \notin cold =>
      \/ timer
      \/ drain[a].pc # "idle"
      \/ \E b \in Account : /\ drain[b].pc # "idle"
                            /\ a \in drain[b].rest \/ drain[b].wait

(* Every change of the queue has a save coming.                            *)
SavePending == ~Stopped /\ Persisted # saved => saveTimer

(* A message that reached the disk is never lost: it is queued, will be    *)
(* loaded by the next start, or was settled.                               *)
NoSilentLoss ==
  \A m \in stored :
    \/ fate[m] # {}
    \/ m \in Queued
    \/ Stopped /\ saved[m] # NoEntry

(* Every push is paid for: a message is broadcast at most once per retry   *)
(* it was charged, plus the attempt in progress, whatever NACKs, timeouts, *)
(* stale captures and restarts intervene.                                  *)
PushBudget ==
  \A m \in Queued :
    sends[m] <= outbox[m].retry
                  + (IF \E a \in Account : InFlight(a) /\ drain[a].msg = m
                     THEN 1 ELSE 0)

(* Every queued message is settled, client or no client: queued offline,   *)
(* rejected, rerouted or corrected, it is delivered or dead-lettered.      *)
Settles == \A m \in Msg : m \in Queued ~> m \notin Queued

(* For text messages the queue keeps the promise of Delivery.              *)
Text == Msg \ Media
TextQueued == {m \in Text : outbox[m] # NoEntry}
TextSettled == {m \in Text : fate[m] # {}}
TextSaved == {m \in Text : saved[m] # NoEntry}

Promise == INSTANCE Delivery WITH
  Message <- Text, running <- phase # "down",
  queued <- TextQueued, settled <- TextSettled, disk <- TextSaved

(* Every behaviour of the queue, projected on the text messages, is one of *)
(* Delivery: pushes, retries, NACKs, corrections and flushes are stutters. *)
KeepsPromise == Promise!DSpec

-----------------------------------------------------------------------------
(* Two statements of the repository that the code does not meet.           *)

(* README.md:324: prune clears the bridge-side state of the session, the   *)
(* outbound queue included.  So a purged message is queued no more.        *)
PurgedStaysGone == \A m \in Msg : "purged" \in fate[m] => m \notin Queued

(* outbox-drain-failure.ts:83: "guard failures that exceed maxRetry go to  *)
(* dead-letter".  So a text message that finds no client is given up only  *)
(* when this failure exceeds the retry limit.                              *)
GuardBudget ==
  [][\A m \in Text :
       /\ m \in Queued
       /\ link[outbox[m].acct] = "gone"
       /\ \A a \in Account : ~(InFlight(a) /\ drain[a].msg = m)
       /\ "dead" \in fate'[m] \ fate[m]
       => outbox[m].retry + 1 > MaxRetry]_vars
=============================================================================
