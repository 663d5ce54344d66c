---------------------------- MODULE OutboxProofs ----------------------------
(***************************************************************************)
(* Proofs about Outbox for any accounts, messages and limits.              *)
(*                                                                         *)
(* The actions are summarised first: what a step may do to the drains      *)
(* (Drains: a drain keeps its attempt or drops it) and to the queue        *)
(* (Change: one entry is put or removed).  The invariants are then proved  *)
(* from the summaries.                                                     *)
(***************************************************************************)
EXTENDS Outbox, FiniteSetTheorems, TLAPS

(* The places of a drain at which it holds no captured entry.              *)
Quiet == {"idle", "loop", "nap", "napbreak"}

(* Every drain is as in d, or at a quiet place.                            *)
Drains(d) ==
  /\ drain' \in [Account -> Drain]
  /\ timer' \in BOOLEAN
  /\ flushErrors' \in Nat
  /\ \A b \in Account : drain'[b] = d[b] \/ drain'[b].pc \in Quiet

Change(m) ==
  \/ \E e \in Entry : Put(m, e)
  \/ \E why \in Fate : Remove(m, why)

(* The drain of a may change the entry of m: one it just picked, or the    *)
(* one it captured before it suspended.                                    *)
Holds(a, m) ==
  \/ drain[a].pc = "loop" /\ ~Stopped /\ m \in QueueOf(a)
  \/ /\ InFlight(a) /\ m = drain[a].msg
     /\ m \in Queued \/ drain[a].pc = "transfer"

-----------------------------------------------------------------------------
(* Advancing a flush starts at most one drain, at "loop".                  *)
LEMMA AdvanceMoves ==
  ASSUME NEW targets \in SUBSET Account, NEW wait \in BOOLEAN,
         NEW d \in [Account -> Drain], NEW t \in BOOLEAN,
         flushErrors \in Nat, Advance(targets, wait, d, t)
  PROVE  Drains(d)
<1> DEFINE running == {x \in targets : d[x].pc # "idle"}
<1>1. CASE drain' = d /\ timer' = (t \/ (wait /\ ~Stopped)) /\ flushErrors' = 0
  BY <1>1 DEF Drains
<1>2. CASE \E x \in targets \ running, skipped \in SUBSET running :
             /\ drain' = [d EXCEPT ![x] = [Idle EXCEPT
                            !.pc = "loop",
                            !.rest = targets \ (skipped \cup {x}),
                            !.wait = wait]]
             /\ timer' = t
             /\ UNCHANGED flushErrors
  <2>1. PICK x \in targets \ running, skipped \in SUBSET running :
             /\ drain' = [d EXCEPT ![x] = [Idle EXCEPT
                            !.pc = "loop",
                            !.rest = targets \ (skipped \cup {x}),
                            !.wait = wait]]
             /\ timer' = t
             /\ UNCHANGED flushErrors
    BY <1>2
  <2> DEFINE rest == targets \ (skipped \cup {x})
             e == [Idle EXCEPT !.pc = "loop", !.rest = rest, !.wait = wait]
  <2>2. drain' = [d EXCEPT ![x] = e]
    BY <2>1
  <2>3. e \in Drain /\ e.pc = "loop"
    <3>1. rest \in SUBSET Account /\ 0 \in 0..MaxRetry
      BY OutboxAssumption
    <3> HIDE DEF rest
    <3> QED
      BY <3>1 DEF Idle, Drain, Pc
  <2> HIDE DEF e
  <2> QED
    BY <2>1, <2>2, <2>3 DEF Drains, Quiet
<1> QED
  BY <1>1, <1>2 DEF Advance

LEMMA FlushMoves ==
  ASSUME NEW targets \in SUBSET Account,
         NEW d \in [Account -> Drain], NEW t \in BOOLEAN,
         flushErrors \in Nat, Flush(targets, d, t)
  PROVE  Drains(d)
<1>1. CASE Stopped
  BY <1>1 DEF Flush, Drains
<1>2. CASE ~Stopped
  BY <1>2, AdvanceMoves DEF Flush
<1> QED
  BY <1>1, <1>2

(* A drain that breaks ends at a quiet place, and so does one that goes on *)
(* without suspending.                                                     *)
LEMMA BreakMoves ==
  ASSUME TypeOK, NEW a \in Account, NEW wait \in BOOLEAN, Break(a, wait)
  PROVE  Drains(drain) /\ drain'[a].pc \in Quiet
<1> DEFINE d == [drain EXCEPT ![a] = Idle]
<1>1. Idle \in Drain /\ Idle.pc \in Quiet
  BY OutboxAssumption DEF Idle, Drain, Pc, Quiet
<1>2. d \in [Account -> Drain] /\ drain[a].rest \in SUBSET Account
      /\ (drain[a].wait \/ wait) \in BOOLEAN
  BY <1>1 DEF TypeOK, Drain
<1>3. Advance(drain[a].rest, drain[a].wait \/ wait, d, timer)
  BY DEF Break
<1>4. Drains(d)
  <2> HIDE DEF d
  <2> QED BY <1>2, <1>3, AdvanceMoves DEF TypeOK
<1> QED
  BY <1>1, <1>4 DEF Drains, TypeOK

LEMMA ContinueMoves ==
  ASSUME TypeOK, NEW a \in Account, NEW pc \in Quiet, Continue(a, pc)
  PROVE  Drains(drain) /\ drain'[a].pc \in Quiet
<1> DEFINE e == [drain[a] EXCEPT !.pc = pc, !.worked = TRUE, !.msg = NoMsg,
                                 !.retry = 0, !.online = FALSE]
<1>1. drain[a] \in Drain /\ 0 \in 0..MaxRetry
  BY OutboxAssumption DEF TypeOK
<1>2. e \in Drain /\ e.pc = pc
  BY <1>1 DEF Drain, Pc, Quiet
<1>3. drain' = [drain EXCEPT ![a] = e]
  BY DEF Continue
<1> HIDE DEF e
<1> QED
  BY <1>2, <1>3 DEF Continue, Drains, TypeOK

(* A drain that suspends holds exactly what it captured.                   *)
LEMMA SuspendMoves ==
  ASSUME TypeOK, NEW a \in Account, NEW pc \in {"transfer", "ackwait"},
         NEW m \in Msg, NEW retry \in 0..MaxRetry, NEW online \in BOOLEAN,
         Suspend(a, pc, m, retry, online)
  PROVE  /\ drain' \in [Account -> Drain]
         /\ timer' \in BOOLEAN /\ flushErrors' \in Nat
         /\ drain'[a].pc = pc /\ drain'[a].msg = m /\ drain'[a].retry = retry
         /\ \A b \in Account \ {a} : drain'[b] = drain[b]
<1> DEFINE e == [drain[a] EXCEPT !.pc = pc, !.worked = TRUE, !.msg = m,
                                 !.retry = retry, !.online = online]
<1>1. drain[a] \in Drain
  BY DEF TypeOK
<1>2. e \in Drain /\ e.pc = pc /\ e.msg = m /\ e.retry = retry
  BY <1>1 DEF Drain, Pc
<1>3. drain' = [drain EXCEPT ![a] = e]
  BY DEF Suspend
<1> HIDE DEF e
<1> QED
  BY <1>2, <1>3 DEF Suspend, TypeOK

-----------------------------------------------------------------------------
LEMMA ChangeMoves ==
  ASSUME TypeOK, NEW m \in Msg, Change(m)
  PROVE  /\ outbox' \in [Msg -> Entry \cup {NoEntry}]
         /\ fate' \in [Msg -> SUBSET Fate]
         /\ saveTimer' = (saveTimer \/ ~Stopped)
         /\ \A n \in Msg \ {m} : outbox'[n] = outbox[n] /\ fate'[n] = fate[n]
<1>1. CASE \E e \in Entry : Put(m, e)
  BY <1>1 DEF Put, ScheduleSave, TypeOK
<1>2. CASE \E why \in Fate : Remove(m, why)
  BY <1>2 DEF Remove, ScheduleSave, TypeOK
<1> QED
  BY <1>1, <1>2 DEF Change

LEMMA RetryChanges ==
  ASSUME NEW a \in Account, NEW m \in Msg, NEW retry \in 0..MaxRetry,
         Retry(a, m, retry)
  PROVE  Change(m)
BY DEF Retry, Change, Entry

LEMMA GiveUpChanges ==
  ASSUME NEW m \in Msg, GiveUp(m)
  PROVE  Change(m)
BY DEF GiveUp, Change, Fate

(* What a step of the drain of a does: either it ends at a quiet place,    *)
(* having changed at most an entry it holds, or it suspends on one.        *)
Quietly(a) ==
  /\ Drains(drain) /\ drain'[a].pc \in Quiet
  /\ UNCHANGED queueVars \/ \E m \in Msg : Holds(a, m) /\ Change(m)

BeginsTransfer(a) == \E m \in Media, online \in BOOLEAN :
  /\ drain[a].pc = "loop" /\ ~Stopped /\ m \in QueueOf(a)
  /\ Suspend(a, "transfer", m, outbox[m].retry, online)
  /\ UNCHANGED queueVars

BeginsAckWait(a) == \E m \in Msg, retry \in 0..MaxRetry :
  /\ Holds(a, m)
  /\ Suspend(a, "ackwait", m, retry, TRUE)
  /\ Put(m, [acct |-> a, retry |-> retry, due |-> TRUE])
  /\ (drain[a].pc = "transfer" /\ retry = drain[a].retry) \/ ~Stopped

LEMMA FailedPushQuiet ==
  ASSUME TypeOK, NEW a \in Account, NEW m \in Msg, Holds(a, m),
         NEW retry \in 0..MaxRetry, FailedPush(a, m, retry)
  PROVE  Quietly(a)
<1>1. CASE GiveUp(m) /\ Continue(a, "loop")
  BY <1>1, ContinueMoves, GiveUpChanges DEF Quietly, Quiet
<1>2. CASE ~Spent(retry) /\ Retry(a, m, retry + 1) /\ Break(a, TRUE)
  <2>1. retry + 1 \in 0..MaxRetry
    BY <1>2, OutboxAssumption DEF Spent
  <2> QED
    BY <1>2, <2>1, BreakMoves, RetryChanges DEF Quietly
<1> QED
  BY <1>1, <1>2 DEF FailedPush

LEMMA RerouteQuiet ==
  ASSUME TypeOK, NEW a \in Account, NEW m \in Msg, Holds(a, m),
         NEW retry \in 0..MaxRetry, Reroute(a, m, retry)
  PROVE  Quietly(a)
<1>1. CASE GiveUp(m) /\ Continue(a, "loop")
  BY <1>1, ContinueMoves, GiveUpChanges DEF Quietly, Quiet
<1>2. CASE /\ ~Spent(retry) /\ Retry(a, m, retry + 1)
           /\ Continue(a, "napbreak")
  <2>1. retry + 1 \in 0..MaxRetry
    BY <1>2, OutboxAssumption DEF Spent
  <2> QED
    BY <1>2, <2>1, ContinueMoves, RetryChanges DEF Quietly, Quiet
<1> QED
  BY <1>1, <1>2 DEF Reroute

LEMMA AfterPushMoves ==
  ASSUME TypeOK, NEW a \in Account, NEW m \in Msg, Holds(a, m),
         NEW retry \in 0..MaxRetry, NEW online \in BOOLEAN,
         (drain[a].pc = "transfer" /\ retry = drain[a].retry) \/ ~Stopped,
         AfterPush(a, m, retry, online)
  PROVE  Quietly(a) \/ BeginsAckWait(a)
<1>1. CASE /\ Put(m, [acct |-> a, retry |-> retry, due |-> TRUE])
           /\ Suspend(a, "ackwait", m, retry, TRUE)
  BY <1>1 DEF BeginsAckWait
<1>2. CASE Remove(m, "sent") /\ Continue(a, "nap")
  BY <1>2, ContinueMoves DEF Quietly, Quiet, Change, Fate
<1>3. CASE Reroute(a, m, retry)
  BY <1>3, RerouteQuiet
<1> QED
  BY <1>1, <1>2, <1>3 DEF AfterPush

(* A drain in an attempt captured a message, in a transfer a media one.    *)
Captures ==
  \A a \in Account : /\ InFlight(a) => drain[a].msg \in Msg
                     /\ drain[a].pc = "transfer" => drain[a].msg \in Media

LEMMA PicksHeld ==
  ASSUME TypeOK, NEW a \in Account, NEW m \in Msg, Picks(a, m)
  PROVE  /\ Holds(a, m) /\ ~Stopped /\ drain[a].pc = "loop" /\ m \in QueueOf(a)
         /\ outbox[m] \in Entry /\ outbox[m].retry \in 0..MaxRetry
BY DEF Picks, Holds, DueOf, QueueOf, Queued, TypeOK, Entry

LEMMA BroadcastTypes ==
  ASSUME TypeOK, NEW m \in Msg, Broadcast(m)
  PROVE  owed' \in [Msg -> Nat] /\ sends' \in [Msg -> Nat] 
BY OutboxAssumption DEF TypeOK, Broadcast

LEMMA DrainStepMoves ==
  ASSUME TypeOK, Captures, NEW a \in Account, DrainStep(a)
  PROVE  /\ UNCHANGED <<lifeVars, storeVars, used, cold, link>>
         /\ owed' \in [Msg -> Nat] /\ sends' \in [Msg -> Nat]
         /\ Quietly(a) \/ BeginsTransfer(a) \/ BeginsAckWait(a)
<1> DEFINE Moves == /\ UNCHANGED <<lifeVars, storeVars, used, cold, link>>
                    /\ owed' \in [Msg -> Nat] /\ sends' \in [Msg -> Nat]
                    /\ Quietly(a) \/ BeginsTransfer(a) \/ BeginsAckWait(a)
<1> SUFFICES Moves
  OBVIOUS
<1>t. owed \in [Msg -> Nat] /\ sends \in [Msg -> Nat]
  BY DEF TypeOK
<1>1. CASE DrainEnds(a) \/ DrainYields(a) \/ DrainFindsNothingDue(a)
  BY <1>1, <1>t, BreakMoves
  DEF DrainEnds, DrainYields, DrainFindsNothingDue, Quietly, clientVars
<1>2. CASE GuardExhausts(a)
  <2>1. PICK m \in Msg : /\ Picks(a, m) /\ GiveUp(m) /\ Continue(a, "nap")
                         /\ UNCHANGED <<clientVars, storeVars, lifeVars, used, cold>>
    BY <1>2 DEF GuardExhausts
  <2> QED
    BY <2>1, <1>t, PicksHeld, GiveUpChanges, ContinueMoves
    DEF Quietly, Quiet, clientVars
<1>3. CASE GuardCorrects(a)
  <2>1. PICK m \in Msg :
          /\ Picks(a, m)
          /\ Put(m, [acct |-> Home[m], retry |-> 0, due |-> FALSE])
          /\ drain' = [drain EXCEPT ![a] = [@ EXCEPT !.worked = TRUE]]
          /\ timer' = TRUE
          /\ owed' = [owed EXCEPT ![m] = 0]
          /\ sends' = [sends EXCEPT ![m] = 0]
          /\ UNCHANGED <<flushErrors, link, storeVars, lifeVars, used, cold>>
    BY <1>3 DEF GuardCorrects
  <2>2. Change(m)
    <3>1. [acct |-> Home[m], retry |-> 0, due |-> FALSE] \in Entry
      BY OutboxAssumption DEF Entry
    <3> QED
      BY <2>1, <3>1 DEF Change
  <2>3. drain[a] \in Drain /\ drain[a].pc = "loop" /\ Holds(a, m)
    BY <2>1, PicksHeld DEF TypeOK
  <2> DEFINE e == [drain[a] EXCEPT !.worked = TRUE]
  <2>4. e \in Drain /\ e.pc = "loop" /\ drain' = [drain EXCEPT ![a] = e]
    BY <2>1, <2>3 DEF Drain
  <2> HIDE DEF e
  <2>5. Drains(drain) /\ drain'[a].pc = "loop"
    BY <2>1, <2>4 DEF Drains, TypeOK, Quiet
  <2>6. owed' \in [Msg -> Nat] /\ sends' \in [Msg -> Nat]
    BY <2>1, <1>t
  <2> QED
    BY <2>1, <2>2, <2>3, <2>5, <2>6 DEF Quietly, Quiet
<1>4. CASE GuardDefers(a)
  <2>1. PICK m \in Msg :
          /\ Picks(a, m) /\ outbox[m].retry + 1 < MaxRetry
          /\ Retry(a, m, outbox[m].retry + 1) /\ Break(a, TRUE)
          /\ UNCHANGED <<clientVars, storeVars, lifeVars, used, cold>>
    BY <1>4 DEF GuardDefers
  <2>2. Holds(a, m) /\ outbox[m].retry + 1 \in 0..MaxRetry
    BY <2>1, PicksHeld, OutboxAssumption
  <2>3. Change(m)
    BY <2>1, <2>2, RetryChanges
  <2> QED
    BY <2>1, <2>2, <2>3, <1>t, BreakMoves DEF Quietly, clientVars
<1>5. CASE GuardGivesUp(a)
  <2>1. PICK m \in Msg : /\ Picks(a, m) /\ GiveUp(m) /\ Continue(a, "loop")
                         /\ UNCHANGED <<clientVars, storeVars, lifeVars, used, cold>>
    BY <1>5 DEF GuardGivesUp
  <2> QED
    BY <2>1, <1>t, PicksHeld, GiveUpChanges, ContinueMoves
    DEF Quietly, Quiet, clientVars
<1>6. CASE MediaGuardFails(a)
  <2>1. PICK m \in Media :
          /\ Picks(a, m)
          /\ \/ GiveUp(m) /\ Continue(a, "loop")
             \/ /\ outbox[m].retry + 2 <= MaxRetry
                /\ Retry(a, m, outbox[m].retry + 2) /\ Break(a, TRUE)
          /\ UNCHANGED <<clientVars, storeVars, lifeVars, used, cold>>
    BY <1>6 DEF MediaGuardFails
  <2>2. m \in Msg /\ Holds(a, m) /\ outbox[m].retry \in 0..MaxRetry
    BY <2>1, PicksHeld, OutboxAssumption
  <2>3. CASE GiveUp(m) /\ Continue(a, "loop")
    BY <2>1, <2>2, <2>3, <1>t, GiveUpChanges, ContinueMoves
    DEF Quietly, Quiet, clientVars
  <2>4. CASE /\ outbox[m].retry + 2 <= MaxRetry
             /\ Retry(a, m, outbox[m].retry + 2) /\ Break(a, TRUE)
    <3>1. outbox[m].retry + 2 \in 0..MaxRetry
      BY <2>2, <2>4, OutboxAssumption
    <3>2. Change(m)
      BY <2>2, <2>4, <3>1, RetryChanges
    <3> QED
      BY <2>1, <2>2, <2>4, <3>2, <1>t, BreakMoves DEF Quietly, clientVars
  <2> QED
    BY <2>1, <2>3, <2>4
<1>7. CASE PushText(a)
  <2>1. PICK m \in Msg \ Media :
          /\ Picks(a, m) /\ Broadcast(m)
          /\ AfterPush(a, m, outbox[m].retry, link[a] = "live")
          /\ UNCHANGED <<link, storeVars, lifeVars, used, cold>>
    BY <1>7 DEF PushText
  <2> QED
    BY <2>1, PicksHeld, BroadcastTypes, AfterPushMoves
<1>8. CASE PushTextThrows(a)
  <2>1. PICK m \in Msg \ Media :
          /\ Picks(a, m) /\ FailedPush(a, m, outbox[m].retry)
          /\ UNCHANGED <<clientVars, storeVars, lifeVars, used, cold>>
    BY <1>8 DEF PushTextThrows
  <2> QED
    BY <2>1, <1>t, PicksHeld, FailedPushQuiet DEF clientVars
<1>9. CASE BeginTransfer(a)
  <2>1. PICK m \in Media :
          /\ Picks(a, m)
          /\ Suspend(a, "transfer", m, outbox[m].retry, link[a] = "live")
          /\ UNCHANGED <<queueVars, clientVars, storeVars, lifeVars, used, cold>>
    BY <1>9 DEF BeginTransfer
  <2>2. m \in Msg
    BY OutboxAssumption
  <2> QED
    BY <2>1, <2>2, <1>t, PicksHeld DEF BeginsTransfer, clientVars
<1>10. CASE TransferSucceeds(a) \/ TransferFails(a) \/ TransferRejected(a)
  <2> DEFINE m == drain[a].msg
  <2>1. /\ drain[a].pc = "transfer" /\ m \in Msg /\ Holds(a, m)
        /\ drain[a].retry \in 0..MaxRetry /\ drain[a].online \in BOOLEAN
    BY <1>10
    DEF TransferSucceeds, TransferFails, TransferRejected, Captures, Holds,
        InFlight, TypeOK, Drain
  <2>2. CASE TransferSucceeds(a)
    BY <2>1, <2>2, BroadcastTypes, AfterPushMoves DEF TransferSucceeds
  <2>3. CASE TransferFails(a)
    BY <2>1, <2>3, <1>t, FailedPushQuiet DEF TransferFails, clientVars
  <2>4. CASE TransferRejected(a)
    BY <2>1, <2>4, <1>t, GiveUpChanges, ContinueMoves
    DEF TransferRejected, Quietly, Quiet, clientVars
  <2> QED
    BY <1>10, <2>2, <2>3, <2>4
<1>11. CASE AckTimeout(a)
  <2>1. CASE Continue(a, "nap") /\ UNCHANGED queueVars
    BY <1>11, <2>1, <1>t, ContinueMoves
    DEF AckTimeout, Quietly, Quiet, clientVars
  <2>2. CASE /\ drain[a].msg \in Queued
             /\ Reroute(a, drain[a].msg, drain[a].retry)
    <3>1. /\ drain[a].msg \in Msg /\ Holds(a, drain[a].msg)
          /\ drain[a].retry \in 0..MaxRetry
      BY <1>11, <2>2
      DEF AckTimeout, Captures, Holds, InFlight, Queued, TypeOK, Drain
    <3> QED
      BY <1>11, <2>2, <3>1, <1>t, RerouteQuiet DEF AckTimeout, clientVars
  <2> QED
    BY <1>11, <2>1, <2>2 DEF AckTimeout
<1>12. CASE Wake(a)
  <2>1. CASE Continue(a, "loop")
    BY <1>12, <2>1, <1>t, ContinueMoves DEF Wake, Quietly, Quiet, clientVars
  <2>2. CASE Break(a, TRUE)
    BY <1>12, <2>2, <1>t, BreakMoves DEF Wake, Quietly, clientVars
  <2> QED
    BY <1>12, <2>1, <2>2 DEF Wake
<1> QED
  BY <1>1, <1>2, <1>3, <1>4, <1>5, <1>6, <1>7, <1>8, <1>9, <1>10, <1>11, <1>12
  DEF DrainStep

-----------------------------------------------------------------------------
(* The steps that leave the phase, the disk and the set of known messages  *)
(* alone, and start no attempt.                                            *)
OtherTypes ==
  /\ link' \in [Account -> {"live", "recent", "gone"}]
  /\ owed' \in [Msg -> Nat]
  /\ sends' \in [Msg -> Nat]
  /\ cold' \subseteq Account
  /\ stops' \in Nat /\ crashes' \in Nat /\ faults' \in Nat /\ saves' \in Nat

(* Only the due time of m changes.                                         *)
Delays(m) == \E due \in BOOLEAN :
  /\ m \in Queued
  /\ outbox' = [outbox EXCEPT ![m] = [@ EXCEPT !.due = due]]
  /\ UNCHANGED fate
  /\ saveTimer' \in {saveTimer, saveTimer \/ ~Stopped}

(* The client settles m.                                                   *)
Settling(m) == \E why \in Fate :
  /\ m \in Queued /\ ~Stopped
  /\ Remove(m, why)

Ordinary ==
  /\ UNCHANGED <<phase, saved, stored, used>>
  /\ Drains(drain)
  /\ \/ UNCHANGED queueVars
     \/ \E m \in Msg : Delays(m) \/ Settling(m)
     \/ \E m \in Msg, a \in Account :
          Holds(a, m) /\ drain'[a].pc \in Quiet /\ Change(m)

LEMMA CounterTypes ==
  TypeOK => /\ stops \in Nat /\ crashes \in Nat /\ faults \in Nat /\ saves \in Nat
            /\ link \in [Account -> {"live", "recent", "gone"}]
            /\ owed \in [Msg -> Nat] /\ sends \in [Msg -> Nat]
            /\ drain \in [Account -> Drain] /\ timer \in BOOLEAN
            /\ flushErrors \in Nat /\ cold \subseteq Account
BY DEF TypeOK

LEMMA ResolvedMoves ==
  ASSUME TypeOK, NEW m \in Msg
  PROVE  /\ Resolved(m) \in [Account -> Drain]
         /\ \A b \in Account : \/ Resolved(m)[b] = drain[b]
                               \/ Resolved(m)[b].pc = "nap"
<1>1. 0 \in 0..MaxRetry
  BY OutboxAssumption
<1>2. ASSUME NEW b \in Account
      PROVE  /\ Resolved(m)[b] \in Drain
             /\ Resolved(m)[b] = drain[b] \/ Resolved(m)[b].pc = "nap"
  <2>1. drain[b] \in Drain
    BY DEF TypeOK
  <2>2. CASE drain[b].pc = "ackwait" /\ drain[b].msg = m
    <3> DEFINE e == [drain[b] EXCEPT !.pc = "nap", !.msg = NoMsg, !.retry = 0,
                                     !.online = FALSE]
    <3>1. Resolved(m)[b] = e
      BY <2>2 DEF Resolved
    <3>2. e \in Drain /\ e.pc = "nap"
      BY <1>1, <2>1 DEF Drain, Pc
    <3> QED
      BY <3>1, <3>2
  <2>3. CASE ~(drain[b].pc = "ackwait" /\ drain[b].msg = m)
    BY <2>1, <2>3 DEF Resolved
  <2> QED
    BY <2>2, <2>3
<1> QED
  BY <1>2 DEF Resolved

LEMMA AckTypes ==
  ASSUME TypeOK, NEW m \in Msg, AckAccepted(m), cold' \subseteq cold
  PROVE  OtherTypes /\ ~Stopped /\ m \in Queued
         /\ UNCHANGED <<phase, saved, stored, used>>
<1>1. owed' \in [Msg -> Nat]
  BY CounterTypes DEF AckAccepted
<1>2. link' \in [Account -> {"live", "recent", "gone"}]
  BY CounterTypes DEF AckAccepted
<1> QED
  BY <1>1, <1>2, CounterTypes
  DEF AckAccepted, OtherTypes, storeVars, lifeVars

LEMMA EnvironmentMoves ==
  ASSUME TypeOK,
         \/ TimerFires
         \/ \E a \in Account : FlushThrows(a) \/ ClientSeen(a) \/ LinkDecays(a)
         \/ \E m \in Msg : BecomesDue(m) \/ Answer(m)
  PROVE  Ordinary /\ OtherTypes
<1>1. CASE TimerFires
  <2>1. Drains(drain)
    BY <1>1, FlushMoves, CounterTypes DEF TimerFires
  <2> QED
    BY <1>1, <2>1, CounterTypes
    DEF TimerFires, Ordinary, OtherTypes, clientVars, storeVars, lifeVars
<1>2. ASSUME NEW a \in Account, FlushThrows(a)
      PROVE  Ordinary /\ OtherTypes
  <2>1. Idle \in Drain /\ Idle.pc \in Quiet
    BY OutboxAssumption DEF Idle, Drain, Pc, Quiet
  <2>2. drain' = [drain EXCEPT ![a] = Idle] /\ timer' \in BOOLEAN
        /\ flushErrors' \in Nat /\ faults' \in Nat
    BY <1>2, CounterTypes DEF FlushThrows
  <2>3. Drains(drain)
    BY <2>1, <2>2, CounterTypes DEF Drains
  <2> QED
    BY <1>2, <2>2, <2>3, CounterTypes
    DEF FlushThrows, Ordinary, OtherTypes, clientVars, storeVars
<1>3. ASSUME NEW a \in Account, ClientSeen(a)
      PROVE  Ordinary /\ OtherTypes
  <2>1. Drains(drain)
    BY <1>3, FlushMoves, CounterTypes DEF ClientSeen
  <2>2. link' \in [Account -> {"live", "recent", "gone"}]
    BY <1>3, CounterTypes DEF ClientSeen
  <2> QED
    BY <1>3, <2>1, <2>2, CounterTypes
    DEF ClientSeen, Ordinary, OtherTypes, storeVars, lifeVars
<1>4. ASSUME NEW a \in Account, LinkDecays(a)
      PROVE  Ordinary /\ OtherTypes
  <2>1. link' \in [Account -> {"live", "recent", "gone"}]
    BY <1>4, CounterTypes DEF LinkDecays
  <2> QED
    BY <1>4, <2>1, CounterTypes
    DEF LinkDecays, Ordinary, OtherTypes, Drains, flushVars, storeVars, lifeVars
<1>5. ASSUME NEW m \in Msg, BecomesDue(m)
      PROVE  Ordinary /\ OtherTypes
  <2>1. Delays(m)
    BY <1>5 DEF BecomesDue, Delays
  <2> QED
    BY <1>5, <2>1, CounterTypes
    DEF BecomesDue, Ordinary, OtherTypes, Drains, flushVars, clientVars,
        storeVars, lifeVars
<1>6. ASSUME NEW m \in Msg, AckOk(m)
      PROVE  Ordinary /\ OtherTypes
  <2>1. Settling(m)
    BY <1>6, AckTypes DEF AckOk, Settling, Fate
  <2>2. outbox[m].acct \in Account
    BY <1>6, AckTypes DEF AckOk, TypeOK, Entry, Queued
  <2>3. Drains(Resolved(m))
    BY <1>6, <2>2, ResolvedMoves, FlushMoves, CounterTypes DEF AckOk
  <2>4. Drains(drain)
    BY <2>3, ResolvedMoves DEF Drains, Quiet
  <2> QED
    BY <1>6, <2>1, <2>4, AckTypes DEF AckOk, Ordinary
<1>7. ASSUME NEW m \in Msg, AckFatal(m)
      PROVE  Ordinary /\ OtherTypes
  <2>1. Settling(m)
    BY <1>7, AckTypes DEF AckFatal, GiveUp, Settling, Fate
  <2>2. Drains(drain)
    BY <1>7, ResolvedMoves, CounterTypes DEF AckFatal, Drains, Quiet
  <2> QED
    BY <1>7, <2>1, <2>2, AckTypes DEF AckFatal, Ordinary
<1>8. ASSUME NEW m \in Msg, AckRetry(m)
      PROVE  Ordinary /\ OtherTypes
  <2>1. outbox' = [outbox EXCEPT ![m] = [outbox[m] EXCEPT !.due = FALSE]]
        /\ UNCHANGED fate /\ saveTimer' = (saveTimer \/ ~Stopped)
    BY <1>8 DEF AckRetry, Put, ScheduleSave
  <2>2. Delays(m)
    BY <1>8, <2>1, AckTypes DEF AckRetry, Delays
  <2>3. Drains(drain)
    BY <1>8, CounterTypes DEF AckRetry, Drains, flushVars
  <2> QED
    BY <1>8, <2>2, <2>3, AckTypes DEF AckRetry, Ordinary
<1> QED
  BY <1>1, <1>2, <1>3, <1>4, <1>5, <1>6, <1>7, <1>8 DEF Answer

-----------------------------------------------------------------------------
(* The inductive invariant.                                                *)

SavesOpen == saveTimer => phase = "up"

(* A message not enqueued yet has left no trace.                           *)
Fresh ==
  /\ \A m \in Msg \ used :
       outbox[m] = NoEntry /\ saved[m] = NoEntry /\ fate[m] = {}
  /\ \A a \in Account : InFlight(a) => drain[a].msg \in used

(* What a drain captured is in the queue, and while the service is down    *)
(* also on the disk, from which the next start takes the queue.            *)
Owned ==
  \A a \in Account : InFlight(a) =>
    /\ \A b \in Account \ {a} : InFlight(b) => drain[b].msg # drain[a].msg
    /\ drain[a].msg \in Queued =>
         /\ outbox[drain[a].msg].acct = a
         /\ outbox[drain[a].msg].retry = drain[a].retry
    /\ phase = "down" /\ saved[drain[a].msg] # NoEntry =>
         /\ saved[drain[a].msg].acct = a
         /\ saved[drain[a].msg].retry = drain[a].retry

(* A queued text message is not settled, and none is settled in two ways.  *)
SettledText ==
  \A m \in Text :
    /\ outbox[m] # NoEntry => fate[m] = {}
    /\ Cardinality(fate[m]) <= 1

IInv == TypeOK /\ Captures /\ SavesOpen /\ Fresh /\ Owned /\ SettledText

LEMMA InitIInv == Init => IInv
<1> SUFFICES ASSUME Init PROVE IInv
  OBVIOUS
<1>1. Idle \in Drain
  BY OutboxAssumption DEF Idle, Drain, Pc
<1>2. TypeOK
  <2>1. /\ outbox \in [Msg -> Entry \cup {NoEntry}]
        /\ saved \in [Msg -> Entry \cup {NoEntry}]
        /\ fate \in [Msg -> SUBSET Fate]
    BY DEF Init
  <2>2. drain \in [Account -> Drain]
    BY <1>1 DEF Init
  <2>3. owed \in [Msg -> Nat] /\ sends \in [Msg -> Nat]
    BY DEF Init
  <2>4. /\ phase \in {"up", "stopping", "down"}
        /\ link \in [Account -> {"live", "recent", "gone"}]
        /\ timer \in BOOLEAN /\ saveTimer \in BOOLEAN
        /\ stored \subseteq Msg /\ used \subseteq Msg /\ cold \subseteq Account
    BY DEF Init
  <2>5. flushErrors \in Nat /\ {stops, crashes, faults, saves} \subseteq Nat
    BY DEF Init
  <2> QED
    BY <2>1, <2>2, <2>3, <2>4, <2>5 DEF TypeOK
<1>3. \A a \in Account : drain[a].pc = "idle"
  BY DEF Init, Idle
<1>4. Captures /\ SavesOpen /\ Fresh /\ Owned
  BY <1>3 DEF Init, Captures, SavesOpen, Fresh, Owned, InFlight
<1>5. Cardinality({}) = 0
  BY FS_EmptySet
<1>6. SettledText
  BY <1>5 DEF Init, SettledText, Text
<1> QED
  BY <1>2, <1>4, <1>6 DEF IInv

LEMMA EntryIsNotNoEntry == \A e \in Entry : e # NoEntry
BY OutboxAssumption DEF Entry

(* Putting or removing a queued entry.                                     *)
LEMMA ChangeSettles ==
  ASSUME IInv, NEW m \in Msg, Change(m), UNCHANGED <<phase, saved>>,
         m \in Text => m \in Queued
  PROVE  SettledText'
<1>1. ASSUME NEW n \in Text
      PROVE  /\ outbox'[n] # NoEntry => fate'[n] = {}
             /\ Cardinality(fate'[n]) <= 1
  <2>1. n \in Msg /\ outbox \in [Msg -> Entry \cup {NoEntry}]
        /\ fate \in [Msg -> SUBSET Fate]
    BY DEF Text, IInv, TypeOK
  <2>2. /\ outbox[n] # NoEntry => fate[n] = {}
        /\ Cardinality(fate[n]) <= 1
    BY DEF IInv, SettledText
  <2>3. CASE n # m
    BY <2>1, <2>2, <2>3, ChangeMoves DEF IInv
  <2>4. CASE n = m /\ \E e \in Entry : Put(m, e)
    <3>1. fate' = fate /\ fate[n] = {}
      BY <2>2, <2>4 DEF Put, Queued
    <3> QED
      BY <2>2, <3>1
  <2>5. CASE n = m /\ \E why \in Fate : Remove(m, why)
    <3>1. PICK why \in Fate : Remove(m, why)
      BY <2>5
    <3>2. fate'[n] = {why} /\ outbox'[n] = NoEntry
      BY <2>1, <2>2, <2>5, <3>1 DEF Remove, Queued
    <3>3. Cardinality({why}) = 1
      BY FS_Singleton
    <3> QED
      BY <3>2, <3>3
  <2> QED
    BY <2>3, <2>4, <2>5 DEF Change
<1> QED
  BY <1>1 DEF SettledText, Text

LEMMA ChangeKnown ==
  ASSUME IInv, NEW m \in used, m \in Msg, Change(m), UNCHANGED <<saved, used>>
  PROVE  \A n \in Msg \ used' :
           outbox'[n] = NoEntry /\ saved'[n] = NoEntry /\ fate'[n] = {}
BY ChangeMoves DEF IInv, Fresh

LEMMA HoldsKnown ==
  ASSUME IInv, NEW a \in Account, NEW m \in Msg, Holds(a, m)
  PROVE  /\ m \in used
         /\ m \in Text => m \in Queued
<1>1. CASE drain[a].pc = "loop" /\ ~Stopped /\ m \in QueueOf(a)
  BY <1>1 DEF QueueOf, Queued, Stopped, IInv, Fresh
<1>2. CASE /\ InFlight(a) /\ m = drain[a].msg
           /\ m \in Queued \/ drain[a].pc = "transfer"
  BY <1>2 DEF InFlight, IInv, Fresh, Captures, Text
<1> QED
  BY <1>1, <1>2 DEF Holds

LEMMA OrdinaryKeeps == IInv /\ Ordinary /\ OtherTypes => IInv'
<1> SUFFICES ASSUME IInv, Ordinary, OtherTypes PROVE IInv'
  OBVIOUS
<1>t. TypeOK /\ Captures /\ SavesOpen /\ Fresh /\ Owned /\ SettledText
  BY DEF IInv
<1>1. /\ UNCHANGED <<phase, saved, stored, used>>
      /\ drain' \in [Account -> Drain] /\ timer' \in BOOLEAN /\ flushErrors' \in Nat
  BY DEF Ordinary, Drains
<1>2. \A b \in Account : \/ drain'[b] = drain[b]
                         \/ ~InFlight(b)' /\ drain'[b].pc \in Quiet
  BY DEF Ordinary, Drains, Quiet, InFlight
<1>3. Captures'
  BY <1>t, <1>1, <1>2 DEF Captures, InFlight, Quiet
<1>4. \A b \in Account : InFlight(b)' => drain'[b].msg \in used'
  BY <1>t, <1>1, <1>2 DEF Fresh, InFlight
<1>5. CASE UNCHANGED queueVars
  <2>1. TypeOK'
    BY <1>t, <1>1, <1>5 DEF OtherTypes, TypeOK, queueVars
  <2>2. Fresh' /\ SavesOpen' /\ SettledText'
    BY <1>t, <1>1, <1>4, <1>5 DEF Fresh, SavesOpen, SettledText, queueVars
  <2>3. Owned'
    BY <1>t, <1>1, <1>2, <1>5 DEF Owned, InFlight, Queued, queueVars
  <2> QED
    BY <1>3, <2>1, <2>2, <2>3 DEF IInv
<1>6. ASSUME NEW m \in Msg, Delays(m)
      PROVE  IInv'
  <2>1. PICK due \in BOOLEAN :
          /\ m \in Queued
          /\ outbox' = [outbox EXCEPT ![m] = [@ EXCEPT !.due = due]]
          /\ UNCHANGED fate
          /\ saveTimer' \in {saveTimer, saveTimer \/ ~Stopped}
    BY <1>6 DEF Delays
  <2> DEFINE e == [outbox[m] EXCEPT !.due = due]
  <2>2. outbox[m] \in Entry /\ outbox[m] # NoEntry
    BY <1>t, <2>1 DEF TypeOK, Queued
  <2>3. e \in Entry /\ e.acct = outbox[m].acct /\ e.retry = outbox[m].retry
    BY <2>2 DEF Entry
  <2>4. e # NoEntry /\ outbox' = [outbox EXCEPT ![m] = e]
    BY <2>1, <2>3, EntryIsNotNoEntry
  <2> HIDE DEF e
  <2>5. /\ outbox' \in [Msg -> Entry \cup {NoEntry}]
        /\ saveTimer' \in BOOLEAN /\ fate' = fate
    BY <1>t, <2>1, <2>3, <2>4 DEF TypeOK
  <2>6. \A n \in Msg : /\ outbox'[n] = NoEntry <=> outbox[n] = NoEntry
                       /\ outbox[n] # NoEntry =>
                            /\ outbox'[n].acct = outbox[n].acct
                            /\ outbox'[n].retry = outbox[n].retry
    BY <1>t, <2>2, <2>3, <2>4 DEF TypeOK
  <2>7. TypeOK'
    BY <1>t, <1>1, <2>5 DEF OtherTypes, TypeOK
  <2>8. Fresh' /\ SettledText'
    BY <1>t, <1>1, <1>4, <2>5, <2>6 DEF Fresh, SettledText, Text
  <2>9. SavesOpen'
    BY <1>t, <1>1, <2>1 DEF SavesOpen, Stopped
  <2>10. Owned'
    BY <1>t, <1>1, <1>2, <2>6 DEF Owned, InFlight, Queued, Captures
  <2> QED
    BY <1>3, <2>7, <2>8, <2>9, <2>10 DEF IInv
<1>7. ASSUME NEW m \in Msg, Change(m), m \in used,
             m \in Text => m \in Queued,
             \A b \in Account : InFlight(b)' =>
               drain'[b].msg # m \/ outbox'[m] = NoEntry
      PROVE  IInv'
  <2>1. /\ outbox' \in [Msg -> Entry \cup {NoEntry}]
        /\ fate' \in [Msg -> SUBSET Fate]
        /\ saveTimer' = (saveTimer \/ ~Stopped)
        /\ \A n \in Msg \ {m} : outbox'[n] = outbox[n]
    BY <1>t, <1>7, ChangeMoves
  <2>2. TypeOK'
    BY <1>t, <1>1, <2>1 DEF OtherTypes, TypeOK
  <2>3. Fresh'
    BY <1>1, <1>4, <1>7, ChangeKnown DEF Fresh
  <2>4. SettledText'
    BY <1>1, <1>7, ChangeSettles
  <2>5. SavesOpen'
    BY <1>t, <1>1, <2>1 DEF SavesOpen, Stopped
  <2>6. Owned'
    BY <1>t, <1>1, <1>2, <1>7, <2>1 DEF Owned, InFlight, Queued, Captures
  <2> QED
    BY <1>3, <2>2, <2>3, <2>4, <2>5, <2>6 DEF IInv
<1>8. ASSUME NEW m \in Msg, Settling(m)
      PROVE  IInv'
  <2>1. PICK why \in Fate : m \in Queued /\ ~Stopped /\ Remove(m, why)
    BY <1>8 DEF Settling
  <2>2. Change(m) /\ outbox'[m] = NoEntry
    BY <1>t, <2>1 DEF Change, Remove, TypeOK
  <2>3. m \in used
    BY <1>t, <2>1 DEF Fresh, Queued
  <2> QED
    BY <1>7, <2>1, <2>2, <2>3
<1>9. ASSUME NEW m \in Msg, NEW a \in Account, Holds(a, m),
             drain'[a].pc \in Quiet, Change(m)
      PROVE  IInv'
  <2>1. ASSUME NEW b \in Account, InFlight(b)' PROVE drain'[b].msg # m
    <3>1. b # a /\ drain'[b] = drain[b] /\ InFlight(b)
      BY <1>2, <1>9, <2>1 DEF InFlight, Quiet
    <3>2. CASE m \in QueueOf(a)
      BY <1>t, <3>1, <3>2 DEF Owned, QueueOf
    <3>3. CASE InFlight(a) /\ m = drain[a].msg
      BY <1>t, <3>1, <3>3 DEF Owned
    <3> QED
      BY <1>9, <3>2, <3>3 DEF Holds
  <2> QED
    BY <1>7, <1>9, <2>1, HoldsKnown
<1> QED
  BY <1>5, <1>6, <1>8, <1>9 DEF Ordinary

LEMMA BeginsTransferKeeps ==
  ASSUME IInv, OtherTypes, UNCHANGED <<phase, saved, stored, used>>,
         NEW a \in Account, BeginsTransfer(a)
  PROVE  IInv'
<1>t. TypeOK /\ Captures /\ SavesOpen /\ Fresh /\ Owned /\ SettledText
  BY DEF IInv
<1>1. PICK m \in Media, online \in BOOLEAN :
        /\ drain[a].pc = "loop" /\ ~Stopped /\ m \in QueueOf(a)
        /\ Suspend(a, "transfer", m, outbox[m].retry, online)
        /\ UNCHANGED queueVars
  BY DEF BeginsTransfer
<1>2. m \in Msg /\ outbox[m] \in Entry /\ outbox[m].retry \in 0..MaxRetry
  BY <1>t, <1>1, OutboxAssumption DEF TypeOK, Entry, QueueOf, Queued
<1>3. /\ drain' \in [Account -> Drain]
      /\ timer' \in BOOLEAN /\ flushErrors' \in Nat
      /\ drain'[a].pc = "transfer" /\ drain'[a].msg = m
      /\ drain'[a].retry = outbox[m].retry
      /\ \A b \in Account \ {a} : drain'[b] = drain[b]
  BY <1>t, <1>1, <1>2, SuspendMoves
<1>4. TypeOK'
  BY <1>t, <1>1, <1>3 DEF OtherTypes, TypeOK, queueVars
<1>5. Captures' /\ SavesOpen' /\ SettledText'
  BY <1>t, <1>1, <1>2, <1>3
  DEF Captures, SavesOpen, SettledText, InFlight, queueVars
<1>6. Fresh'
  BY <1>t, <1>1, <1>2, <1>3 DEF Fresh, InFlight, QueueOf, Queued, queueVars
<1>7. Owned'
  BY <1>t, <1>1, <1>2, <1>3
  DEF Owned, InFlight, QueueOf, Queued, Stopped, queueVars
<1> QED
  BY <1>4, <1>5, <1>6, <1>7 DEF IInv

LEMMA BeginsAckWaitKeeps ==
  ASSUME IInv, OtherTypes, UNCHANGED <<phase, saved, stored, used>>,
         NEW a \in Account, BeginsAckWait(a)
  PROVE  IInv'
<1>t. TypeOK /\ Captures /\ SavesOpen /\ Fresh /\ Owned /\ SettledText
  BY DEF IInv
<1>1. PICK m \in Msg, retry \in 0..MaxRetry :
        /\ Holds(a, m)
        /\ Suspend(a, "ackwait", m, retry, TRUE)
        /\ Put(m, [acct |-> a, retry |-> retry, due |-> TRUE])
        /\ (drain[a].pc = "transfer" /\ retry = drain[a].retry) \/ ~Stopped
  BY DEF BeginsAckWait
<1> DEFINE e == [acct |-> a, retry |-> retry, due |-> TRUE]
<1>2. e \in Entry /\ e.acct = a /\ e.retry = retry /\ e # NoEntry
  BY EntryIsNotNoEntry DEF Entry
<1>3. Put(m, e)
  BY <1>1
<1> HIDE DEF e
<1>4. Change(m) /\ outbox' = [outbox EXCEPT ![m] = e] /\ fate' = fate
      /\ saveTimer' = (saveTimer \/ ~Stopped)
  BY <1>2, <1>3 DEF Change, Put, ScheduleSave
<1>5. /\ drain' \in [Account -> Drain]
      /\ timer' \in BOOLEAN /\ flushErrors' \in Nat
      /\ drain'[a].pc = "ackwait" /\ drain'[a].msg = m
      /\ drain'[a].retry = retry
      /\ \A b \in Account \ {a} : drain'[b] = drain[b]
  BY <1>t, <1>1, SuspendMoves
<1>6. m \in used /\ (m \in Text => m \in Queued)
  BY <1>1, HoldsKnown
<1>7. TypeOK'
  BY <1>t, <1>2, <1>4, <1>5 DEF OtherTypes, TypeOK
<1>8. Captures' /\ SavesOpen'
  BY <1>t, <1>4, <1>5 DEF Captures, SavesOpen, InFlight, Stopped
<1>10. Fresh'
  <2>1. \A b \in Account : InFlight(b)' => drain'[b].msg \in used'
    BY <1>t, <1>5, <1>6 DEF Fresh, InFlight
  <2> QED
    BY <1>4, <1>6, <2>1, ChangeKnown DEF Fresh
<1>11. SettledText'
  BY <1>4, <1>6, ChangeSettles
<1>12. Owned'
  <2>1. ASSUME NEW b \in Account \ {a}, InFlight(b)
        PROVE  drain[b].msg # m
    <3>1. CASE m \in QueueOf(a)
      BY <1>t, <2>1, <3>1 DEF Owned, QueueOf
    <3>2. CASE InFlight(a) /\ m = drain[a].msg
      BY <1>t, <2>1, <3>2 DEF Owned
    <3> QED
      BY <1>1, <3>1, <3>2 DEF Holds
  <2>2. \A n \in Msg \ {m} : outbox'[n] = outbox[n]
    BY <1>t, <1>4 DEF TypeOK
  <2>3. outbox'[m] = e
    BY <1>t, <1>4 DEF TypeOK
  <2>4. phase = "down" /\ saved[m] # NoEntry =>
          saved[m].acct = a /\ saved[m].retry = retry
    BY <1>t, <1>1 DEF Owned, Holds, InFlight, Stopped
  <2>5. ASSUME NEW b \in Account, InFlight(b)'
        PROVE  /\ \A c \in Account \ {b} : InFlight(c)' =>
                    drain'[c].msg # drain'[b].msg
               /\ drain'[b].msg \in Queued' =>
                    /\ outbox'[drain'[b].msg].acct = b
                    /\ outbox'[drain'[b].msg].retry = drain'[b].retry
               /\ phase' = "down" /\ saved'[drain'[b].msg] # NoEntry =>
                    /\ saved'[drain'[b].msg].acct = b
                    /\ saved'[drain'[b].msg].retry = drain'[b].retry
    <3>1. CASE b = a
      BY <1>2, <1>5, <2>1, <2>3, <2>4, <3>1 DEF InFlight
    <3>2. CASE b # a
      <4>1. InFlight(b) /\ drain'[b] = drain[b] /\ drain[b].msg # m
            /\ drain[b].msg \in Msg
        BY <1>t, <1>5, <2>1, <2>5, <3>2 DEF InFlight, Captures
      <4>2. \A c \in Account \ {b} : InFlight(c)' =>
              drain'[c].msg # drain'[b].msg
        BY <1>t, <1>5, <4>1 DEF Owned, InFlight
      <4> QED
        BY <1>t, <2>2, <4>1, <4>2 DEF Owned, Queued
    <3> QED
      BY <3>1, <3>2
  <2> QED
    BY <2>5 DEF Owned
<1> QED
  BY <1>7, <1>8, <1>10, <1>11, <1>12 DEF IInv

LEMMA EnqueueKeeps ==
  ASSUME IInv, NEW m \in Msg, NEW a \in Account, Enqueue(m, a)
  PROVE  IInv'
<1>t. TypeOK /\ Captures /\ SavesOpen /\ Fresh /\ Owned /\ SettledText
  BY DEF IInv
<1> DEFINE e == [acct |-> a, retry |-> 0, due |-> TRUE]
<1>1. e \in Entry /\ e # NoEntry
  <2>1. 0 \in 0..MaxRetry
    BY OutboxAssumption
  <2> QED
    BY <2>1, EntryIsNotNoEntry DEF Entry
<1>2. Put(m, e) /\ m \notin used /\ used' = used \cup {m} /\ cold' \subseteq cold
      /\ Flush({a}, drain, timer)
      /\ UNCHANGED <<clientVars, storeVars, lifeVars>>
  BY DEF Enqueue
<1> HIDE DEF e
<1>3. outbox' = [outbox EXCEPT ![m] = e] /\ fate' = fate
      /\ saveTimer' = (saveTimer \/ ~Stopped)
  BY <1>2 DEF Put, ScheduleSave
<1>4. Drains(drain)
  BY <1>t, <1>2, FlushMoves, CounterTypes
<1>5. \A b \in Account : \/ drain'[b] = drain[b]
                         \/ ~InFlight(b)' /\ drain'[b].pc \in Quiet
  BY <1>4 DEF Drains, InFlight, Quiet
<1>6. UNCHANGED <<phase, saved, stored, saves, link, owed, sends, stops, crashes,
                  faults>>
  BY <1>2 DEF clientVars, storeVars, lifeVars
<1>7. TypeOK'
  BY <1>t, <1>1, <1>2, <1>3, <1>4, <1>6 DEF TypeOK, Drains
<1>8. Captures' /\ SavesOpen'
  BY <1>t, <1>3, <1>5, <1>6
  DEF Captures, SavesOpen, InFlight, Quiet, Stopped
<1>9. \A n \in Msg \ {m} : outbox'[n] = outbox[n]
  BY <1>t, <1>3 DEF TypeOK
<1>10. Fresh'
  BY <1>t, <1>2, <1>3, <1>5, <1>6, <1>9 DEF Fresh, InFlight
<1>11. SettledText'
  BY <1>t, <1>2, <1>3, <1>6, <1>9 DEF SettledText, Fresh, Text
<1>12. Owned'
  BY <1>t, <1>2, <1>5, <1>6, <1>9 DEF Owned, Fresh, InFlight, Queued, Captures
<1> QED
  BY <1>7, <1>8, <1>10, <1>11, <1>12 DEF IInv

LEMMA PersistedTypes ==
  TypeOK => /\ Persisted \in [Msg -> Entry \cup {NoEntry}]
            /\ \A m \in Msg : /\ Persisted[m] = NoEntry <=> outbox[m] = NoEntry
                              /\ outbox[m] # NoEntry =>
                                   /\ Persisted[m].acct = outbox[m].acct
                                   /\ Persisted[m].retry = outbox[m].retry
<1> SUFFICES ASSUME TypeOK
             PROVE  \A m \in Msg :
                      /\ Persisted[m] \in Entry \cup {NoEntry}
                      /\ Persisted[m] = NoEntry <=> outbox[m] = NoEntry
                      /\ outbox[m] # NoEntry =>
                           /\ Persisted[m].acct = outbox[m].acct
                           /\ Persisted[m].retry = outbox[m].retry
  BY DEF Persisted
<1> TAKE m \in Msg
<1>1. CASE outbox[m] = NoEntry
  BY <1>1 DEF Persisted
<1>2. CASE outbox[m] # NoEntry
  <2> DEFINE e == [outbox[m] EXCEPT !.due = FALSE]
  <2>1. outbox[m] \in Entry
    BY <1>2 DEF TypeOK
  <2>2. e \in Entry /\ e.acct = outbox[m].acct /\ e.retry = outbox[m].retry
    BY <2>1 DEF Entry
  <2>3. Persisted[m] = e
    BY <1>2 DEF Persisted
  <2> HIDE DEF e
  <2> QED
    BY <1>2, <2>2, <2>3, EntryIsNotNoEntry
<1> QED
  BY <1>1, <1>2

LEMMA SaveKeeps ==
  ASSUME IInv, SaveFires
  PROVE  IInv'
<1>t. TypeOK /\ Captures /\ SavesOpen /\ Fresh /\ Owned /\ SettledText
  BY DEF IInv
<1>1. /\ saveTimer /\ saveTimer' = FALSE /\ saved' = Persisted
      /\ saves' = saves + 1 /\ stored' = stored \cup Queued
      /\ UNCHANGED <<outbox, fate, drain, timer, flushErrors, link, owed, sends,
                     phase, stops, crashes, faults, used, cold>>
  BY DEF SaveFires, flushVars, clientVars, lifeVars
<1>2. phase = "up"
  BY <1>t, <1>1 DEF SavesOpen
<1>3. TypeOK'
  <2>1. saved' \in [Msg -> Entry \cup {NoEntry}] /\ stored' \subseteq Msg
    BY <1>t, <1>1, PersistedTypes DEF TypeOK, Queued
  <2>2. stops' \in Nat /\ crashes' \in Nat /\ faults' \in Nat /\ saves' \in Nat
    BY <1>t, <1>1, CounterTypes
  <2> QED
    BY <1>t, <1>1, <2>1, <2>2 DEF TypeOK
<1>4. Captures' /\ SavesOpen' /\ Owned' /\ SettledText'
  BY <1>t, <1>1, <1>2
  DEF Captures, SavesOpen, Owned, SettledText, InFlight, Queued
<1>5. Fresh'
  BY <1>t, <1>1, PersistedTypes DEF Fresh, InFlight
<1> QED
  BY <1>3, <1>4, <1>5 DEF IInv

LEMMA StopKeeps ==
  ASSUME IInv, Stop
  PROVE  IInv'
<1>t. TypeOK /\ Captures /\ SavesOpen /\ Fresh /\ Owned /\ SettledText
  BY DEF IInv
<1>1. /\ phase = "up" /\ phase' = "stopping" /\ stops' = stops + 1
      /\ saveTimer' = FALSE /\ timer' = FALSE
      /\ drain' = [a \in Account |->
                     IF drain[a].pc = "ackwait"
                     THEN [drain[a] EXCEPT !.pc = "expired"] ELSE drain[a]]
      /\ UNCHANGED <<outbox, fate, flushErrors, link, owed, sends, saved,
                     stored, saves, crashes, faults, used, cold>>
  BY DEF Stop, Stopped, clientVars, storeVars
<1>2. \A a \in Account :
        /\ drain'[a] \in Drain
        /\ drain'[a].msg = drain[a].msg /\ drain'[a].retry = drain[a].retry
        /\ \/ drain'[a].pc = drain[a].pc /\ drain[a].pc # "ackwait"
           \/ drain'[a].pc = "expired" /\ drain[a].pc = "ackwait"
  <2> SUFFICES ASSUME NEW a \in Account
               PROVE  /\ drain'[a] \in Drain
                      /\ drain'[a].msg = drain[a].msg
                      /\ drain'[a].retry = drain[a].retry
                      /\ \/ drain'[a].pc = drain[a].pc /\ drain[a].pc # "ackwait"
                         \/ drain'[a].pc = "expired" /\ drain[a].pc = "ackwait"
    OBVIOUS
  <2>1. drain[a] \in Drain
    BY <1>t DEF TypeOK
  <2>2. CASE drain[a].pc = "ackwait"
    <3>1. drain'[a] = [drain[a] EXCEPT !.pc = "expired"]
      BY <1>1, <2>2
    <3> QED
      BY <2>1, <2>2, <3>1 DEF Drain, Pc
  <2>3. CASE drain[a].pc # "ackwait"
    BY <1>1, <2>1, <2>3
  <2> QED
    BY <2>2, <2>3
<1>3. drain' \in [Account -> Drain]
  BY <1>1, <1>2
<1>4. \A a \in Account : InFlight(a)' <=> InFlight(a)
  BY <1>2 DEF InFlight
<1>5. TypeOK'
  <2>1. stops' \in Nat /\ crashes' \in Nat /\ faults' \in Nat /\ saves' \in Nat
    BY <1>t, <1>1, CounterTypes
  <2> QED
    BY <1>t, <1>1, <1>3, <2>1 DEF TypeOK
<1>6. Captures'
  BY <1>t, <1>2, <1>4 DEF Captures
<1>7. SavesOpen' /\ SettledText'
  BY <1>1, <1>2, <1>t DEF SavesOpen, SettledText
<1>8. Fresh'
  BY <1>t, <1>1, <1>2, <1>4 DEF Fresh
<1>9. Owned'
  BY <1>t, <1>1, <1>2, <1>4 DEF Owned, Queued
<1> QED
  BY <1>5, <1>6, <1>7, <1>8, <1>9 DEF IInv

LEMMA StopFlushesKeeps ==
  ASSUME IInv, StopFlushes
  PROVE  IInv'
<1>t. TypeOK /\ Captures /\ SavesOpen /\ Fresh /\ Owned /\ SettledText
  BY DEF IInv
<1>1. /\ phase = "stopping" /\ phase' = "down"
      /\ saved' = Persisted /\ stored' = stored \cup Queued
      /\ UNCHANGED <<outbox, fate, saveTimer, drain, timer, flushErrors, link,
                     owed, sends, stops, crashes, faults, saves, used, cold>>
  BY DEF StopFlushes, queueVars, flushVars, clientVars
<1>2. TypeOK'
  <2>1. saved' \in [Msg -> Entry \cup {NoEntry}] /\ stored' \subseteq Msg
    BY <1>t, <1>1, PersistedTypes DEF TypeOK, Queued
  <2> QED
    BY <1>t, <1>1, <2>1 DEF TypeOK
<1>3. Captures' /\ SavesOpen'
  BY <1>t, <1>1 DEF Captures, SavesOpen, InFlight
<1>4. Fresh'
  BY <1>t, <1>1, PersistedTypes DEF Fresh, InFlight
<1>5. Owned'
  BY <1>t, <1>1, PersistedTypes DEF Owned, InFlight, Queued, Captures
<1>6. SettledText'
  BY <1>t, <1>1, PersistedTypes DEF SettledText, Text
<1> QED
  BY <1>2, <1>3, <1>4, <1>5, <1>6 DEF IInv

LEMMA CrashKeeps ==
  ASSUME IInv, Crash
  PROVE  IInv'
<1>t. TypeOK /\ Captures /\ SavesOpen /\ Fresh /\ Owned /\ SettledText
  BY DEF IInv
<1>1. /\ phase' = "down" /\ crashes' = crashes + 1
      /\ link' = [a \in Account |-> "gone"]
      /\ outbox' = [m \in Msg |-> NoEntry]
      /\ drain' = [a \in Account |-> Idle]
      /\ timer' = FALSE /\ saveTimer' = FALSE /\ flushErrors' = 0
      /\ fate' = [m \in Msg |-> IF saved[m] = NoEntry THEN fate[m] ELSE {}]
      /\ UNCHANGED <<owed, sends, saved, stored, saves, stops, faults, used, cold>>
  BY DEF Crash, Remembered, storeVars
<1>2. Idle \in Drain /\ Idle.pc = "idle"
  BY OutboxAssumption DEF Idle, Drain, Pc
<1>3. \A a \in Account : drain'[a].pc = "idle"
  BY <1>1, <1>2
<1>4. TypeOK'
  <2>1. fate' \in [Msg -> SUBSET Fate]
    BY <1>t, <1>1 DEF TypeOK
  <2>2. stops' \in Nat /\ crashes' \in Nat /\ faults' \in Nat /\ saves' \in Nat
    BY <1>t, <1>1, CounterTypes
  <2>3. /\ outbox' \in [Msg -> Entry \cup {NoEntry}]
        /\ drain' \in [Account -> Drain]
        /\ link' \in [Account -> {"live", "recent", "gone"}]
        /\ phase' \in {"up", "stopping", "down"}
        /\ timer' \in BOOLEAN /\ saveTimer' \in BOOLEAN /\ flushErrors' \in Nat
    BY <1>1, <1>2
  <2>4. /\ saved' \in [Msg -> Entry \cup {NoEntry}]
        /\ owed' \in [Msg -> Nat] /\ sends' \in [Msg -> Nat]
        /\ stored' \subseteq Msg /\ used' \subseteq Msg /\ cold' \subseteq Account
    BY <1>t, <1>1 DEF TypeOK
  <2> QED
    BY <2>1, <2>2, <2>3, <2>4 DEF TypeOK
<1>5. Captures' /\ SavesOpen' /\ Owned'
  BY <1>1, <1>3 DEF Captures, SavesOpen, Owned, InFlight
<1>6. Fresh'
  BY <1>t, <1>1, <1>3 DEF Fresh, InFlight
<1>7. SettledText'
  <2>1. Cardinality({}) = 0
    BY FS_EmptySet
  <2>2. ASSUME NEW m \in Text
        PROVE  /\ outbox'[m] = NoEntry
               /\ Cardinality(fate'[m]) <= 1
    BY <1>t, <1>1, <2>1 DEF SettledText, Text
  <2> QED
    BY <2>2 DEF SettledText
<1> QED
  BY <1>4, <1>5, <1>6, <1>7 DEF IInv

LEMMA StartKeeps ==
  ASSUME IInv, Start
  PROVE  IInv'
<1>t. TypeOK /\ Captures /\ SavesOpen /\ Fresh /\ Owned /\ SettledText
  BY DEF IInv
<1>1. /\ phase = "down" /\ phase' = "up" /\ outbox' = saved
      /\ timer' \in BOOLEAN /\ cold' \subseteq Account
      /\ sends' = [m \in Msg |-> 0]
      /\ fate' = [m \in Msg |-> IF saved[m] = NoEntry THEN fate[m] ELSE {}]
      /\ UNCHANGED <<saveTimer, drain, flushErrors, link, owed, saved,
                     stored, saves, stops, crashes, faults, used>>
  BY DEF Start, Remembered, storeVars
<1>2. TypeOK'
  BY <1>t, <1>1 DEF TypeOK
<1>3. Captures' /\ SavesOpen' /\ Fresh'
  BY <1>t, <1>1 DEF Captures, SavesOpen, Fresh, InFlight
<1>4. Owned'
  BY <1>t, <1>1 DEF Owned, InFlight, Queued
<1>5. SettledText'
  BY <1>t, <1>1, FS_EmptySet DEF SettledText, Text
<1> QED
  BY <1>2, <1>3, <1>4, <1>5 DEF IInv

LEMMA PurgeKeeps ==
  ASSUME IInv, NEW m \in Msg, Purge(m)
  PROVE  IInv'
<1>t. TypeOK /\ Captures /\ SavesOpen /\ Fresh /\ Owned /\ SettledText
  BY DEF IInv
<1>1. /\ phase = "up"
      /\ m \in Queued \/ saved[m] # NoEntry
      /\ outbox' = [outbox EXCEPT ![m] = NoEntry]
      /\ saved' \in {saved, [saved EXCEPT ![m] = NoEntry]}
      /\ fate' = [fate EXCEPT ![m] = IF m \in Queued THEN @ \cup {"purged"} ELSE @]
      /\ UNCHANGED <<flushVars, clientVars, stored, saves, lifeVars, used, cold>>
  BY DEF Purge, Stopped
<1>2. TypeOK'
  <2>1. saveTimer' \in BOOLEAN
    BY <1>t DEF Purge, ScheduleSave, Stopped, TypeOK
  <2> QED
    BY <1>t, <1>1, <2>1
    DEF TypeOK, Fate, flushVars, clientVars, lifeVars
<1>3. Captures' /\ SavesOpen'
  BY <1>t, <1>1 DEF Captures, SavesOpen, InFlight, flushVars, lifeVars
<1>4. Fresh'
  BY <1>t, <1>1 DEF Fresh, Queued, InFlight, TypeOK, flushVars
<1>5. Owned'
  BY <1>t, <1>1 DEF Owned, Queued, InFlight, TypeOK, flushVars, lifeVars
<1>6. SettledText'
  <2>1. Cardinality({"purged"}) <= 1
    BY FS_Singleton
  <2>2. ASSUME NEW n \in Text
        PROVE  /\ outbox'[n] # NoEntry => fate'[n] = {}
               /\ Cardinality(fate'[n]) <= 1
    <3>1. CASE n # m
      BY <1>t, <1>1, <2>2, <3>1 DEF SettledText, Text, TypeOK
    <3>2. CASE n = m /\ m \in Queued
      <4>1. fate[m] = {} /\ outbox'[m] = NoEntry
        BY <1>t, <1>1, <2>2, <3>2 DEF SettledText, Queued, TypeOK
      <4>2. fate'[m] = {} \cup {"purged"}
        BY <1>t, <1>1, <3>2, <4>1 DEF TypeOK
      <4>3. fate'[m] = {"purged"}
        BY <4>2
      <4> QED
        BY <2>1, <3>2, <4>1, <4>3
    <3>3. CASE n = m /\ m \notin Queued
      BY <1>t, <1>1, <2>2, <3>3 DEF SettledText, Queued, TypeOK
    <3> QED
      BY <3>1, <3>2, <3>3
  <2> QED
    BY <1>1, <2>2 DEF SettledText, lifeVars
<1> QED
  BY <1>2, <1>3, <1>4, <1>5, <1>6 DEF IInv

LEMMA StepKeeps == IInv /\ [Next]_vars => IInv'
<1> SUFFICES ASSUME IInv, [Next]_vars PROVE IInv'
  OBVIOUS
<1>t. TypeOK /\ Captures
  BY DEF IInv
<1>1. ASSUME NEW a \in Account, DrainStep(a)
      PROVE  IInv'
  <2>1. /\ UNCHANGED <<phase, saved, stored, used>>
        /\ Quietly(a) \/ BeginsTransfer(a) \/ BeginsAckWait(a)
    BY <1>t, <1>1, DrainStepMoves DEF lifeVars, storeVars
  <2>2. OtherTypes
    BY <1>t, <1>1, DrainStepMoves, CounterTypes
    DEF OtherTypes, lifeVars, storeVars
  <2>3. CASE Quietly(a)
    BY <2>1, <2>2, <2>3, OrdinaryKeeps DEF Quietly, Ordinary
  <2> QED
    BY <2>1, <2>2, <2>3, BeginsTransferKeeps, BeginsAckWaitKeeps
<1>2. ASSUME \/ TimerFires
             \/ \E a \in Account : FlushThrows(a) \/ ClientSeen(a) \/ LinkDecays(a)
             \/ \E m \in Msg : BecomesDue(m) \/ Answer(m)
      PROVE  IInv'
  BY <1>t, <1>2, EnvironmentMoves, OrdinaryKeeps
<1>3. ASSUME NEW m \in Msg, NEW a \in Account, Enqueue(m, a)
      PROVE  IInv'
  BY <1>3, EnqueueKeeps
<1>4. CASE SaveFires \/ Restart
  BY <1>4, SaveKeeps, StopKeeps, StopFlushesKeeps, CrashKeeps, StartKeeps
  DEF Restart
<1>6. ASSUME NEW m \in Msg, Purge(m)
      PROVE  IInv'
  BY <1>6, PurgeKeeps
<1>5. CASE UNCHANGED vars
  <2>1. Ordinary /\ OtherTypes
    BY <1>t, <1>5, CounterTypes
    DEF vars, queueVars, flushVars, clientVars, storeVars, lifeVars, Ordinary,
        OtherTypes, Drains
  <2> QED
    BY <2>1, OrdinaryKeeps
<1> QED
  BY <1>1, <1>2, <1>3, <1>4, <1>5, <1>6 DEF Next

LEMMA Inductive == Spec => []IInv
BY InitIInv, StepKeeps, PTL DEF Spec

-----------------------------------------------------------------------------
(* Every variable keeps its type: in particular no retry count, in the     *)
(* queue, on the disk or captured by a drain, ever exceeds MAX_RETRY.      *)
THEOREM TypeCorrect == Spec => []TypeOK
<1>1. IInv => TypeOK
  BY DEF IInv
<1> QED
  BY <1>1, Inductive, PTL

(* While a drain is suspended in an attempt, no other drain attempts the   *)
(* same message and the queue still has the account and the retry count    *)
(* that the drain captured, across corrections, NACKs and restarts.        *)
THEOREM AttemptsAreExclusive == Spec => []OneAttempt
<1>1. IInv => OneAttempt
  BY DEF IInv, Owned, OneAttempt
<1> QED
  BY <1>1, Inductive, PTL

(* A settled text message is never written back into the queue before the  *)
(* next start reloads it, and is settled in one way.                       *)
THEOREM TextIsSettledOnce == Spec => []TextSettledOnce
<1>1. IInv => TextSettledOnce
  BY DEF IInv, SettledText, TextSettledOnce, Text, Queued
<1> QED
  BY <1>1, Inductive, PTL
=============================================================================
