---------------------------- MODULE OutboxPromise ---------------------------
(***************************************************************************)
(* Outbox implements Delivery for text messages, and loses no message that *)
(* reached the disk; every change of the queue has a save coming, every    *)
(* push is paid for by a retry, and nobody forgets a queued message.  All  *)
(* rest on the inductive invariant and the summaries of the steps in       *)
(* OutboxProofs.                                                           *)
(***************************************************************************)
EXTENDS OutboxProofs

-----------------------------------------------------------------------------
(* Saves and wakes.                                                        *)


(* A saved entry is not due: it becomes due after the next start.          *)
Clean == \A m \in Msg : saved[m] # NoEntry => saved[m].due = FALSE

LEMMA PersistedClean ==
  ASSUME TypeOK
  PROVE  \A m \in Msg : Persisted[m] # NoEntry => Persisted[m].due = FALSE
<1> SUFFICES ASSUME NEW m \in Msg, Persisted[m] # NoEntry PROVE Persisted[m].due = FALSE
  OBVIOUS
<1>1. outbox[m] # NoEntry
  BY DEF Persisted
<1>2. outbox[m] \in Entry
  BY <1>1 DEF TypeOK
<1>3. Persisted[m] = [outbox[m] EXCEPT !.due = FALSE]
  BY <1>1 DEF Persisted
<1> QED
  BY <1>2, <1>3 DEF Entry

LEMMA PersistedSame == UNCHANGED outbox => Persisted' = Persisted
BY DEF Persisted

(* What is persisted of an entry does not depend on its due time.          *)
LEMMA DelaySame ==
  ASSUME TypeOK, NEW m \in Msg, Delays(m)
  PROVE  Persisted' = Persisted
<1>1. PICK due \in BOOLEAN : outbox' = [outbox EXCEPT ![m] = [@ EXCEPT !.due = due]]
  BY DEF Delays
<1>2. outbox[m] \in Entry
  BY DEF Delays, Queued, TypeOK
<1> DEFINE e == [outbox[m] EXCEPT !.due = due]
<1>3. e \in Entry /\ [e EXCEPT !.due = FALSE] = [outbox[m] EXCEPT !.due = FALSE]
  BY <1>2 DEF Entry
<1>4. outbox' = [outbox EXCEPT ![m] = e]
  BY <1>1
<1>5. outbox[m] # NoEntry /\ e # NoEntry
  BY <1>2, <1>3, EntryIsNotNoEntry
<1> HIDE DEF e
<1> QED
  BY <1>3, <1>4, <1>5 DEF Persisted, TypeOK

(* A step that schedules a save, or changes nothing of what is persisted.  *)
LEMMA ScheduledKeeps ==
  ASSUME SavePending, Clean, UNCHANGED <<phase, saved>>,
         ScheduleSave \/ (Persisted' = Persisted /\ (saveTimer => saveTimer'))
  PROVE  SavePending' /\ Clean'
<1>1. Clean'
  BY DEF Clean
<1>2. CASE ScheduleSave
  BY <1>1, <1>2 DEF SavePending, ScheduleSave, Stopped
<1>3. CASE Persisted' = Persisted /\ (saveTimer => saveTimer')
  BY <1>1, <1>3 DEF SavePending, Stopped
<1> QED
  BY <1>2, <1>3

LEMMA ChangeSchedules ==
  ASSUME NEW m \in Msg, Change(m)
  PROVE  ScheduleSave
BY DEF Change, Put, Remove

LEMMA StepSaves ==
  ASSUME IInv, SavePending, Clean, [Next]_vars
  PROVE  SavePending' /\ Clean'
<1>t. TypeOK /\ Captures
  BY DEF IInv
<1>1. ASSUME Ordinary
      PROVE  SavePending' /\ Clean'
  <2>1. UNCHANGED <<phase, saved>>
    BY <1>1 DEF Ordinary
  <2>2. CASE UNCHANGED queueVars
    <3>1. UNCHANGED <<outbox, saveTimer>>
      BY <2>2 DEF queueVars
    <3> QED
      BY <2>1, <3>1, PersistedSame, ScheduledKeeps
  <2>3. CASE \E m \in Msg : Delays(m)
    <3>1. Persisted' = Persisted /\ (saveTimer => saveTimer')
      BY <1>t, <2>3, DelaySame DEF Delays
    <3> QED
      BY <2>1, <3>1, ScheduledKeeps
  <2>4. CASE \E m \in Msg : Settling(m)
    <3>1. ScheduleSave
      BY <2>4 DEF Settling, Remove
    <3> QED
      BY <2>1, <3>1, ScheduledKeeps
  <2>5. CASE \E m \in Msg : Change(m)
    BY <2>1, <2>5, ChangeSchedules, ScheduledKeeps
  <2> QED
    BY <1>1, <2>2, <2>3, <2>4, <2>5 DEF Ordinary
<1>2. ASSUME NEW a \in Account, DrainStep(a)
      PROVE  SavePending' /\ Clean'
  <2>1. /\ UNCHANGED <<phase, saved, stored, used>>
        /\ Quietly(a) \/ BeginsTransfer(a) \/ BeginsAckWait(a)
    BY <1>t, <1>2, DrainStepMoves DEF lifeVars, storeVars
  <2>2. CASE Quietly(a)
    BY <1>1, <2>1, <2>2 DEF Quietly, Ordinary
  <2>3. CASE BeginsTransfer(a)
    <3>1. UNCHANGED <<outbox, saveTimer>>
      BY <2>3 DEF BeginsTransfer, queueVars
    <3> QED
      BY <2>1, <3>1, PersistedSame, ScheduledKeeps
  <2>4. CASE BeginsAckWait(a)
    <3>1. ScheduleSave
      BY <2>4 DEF BeginsAckWait, Put
    <3> QED
      BY <2>1, <3>1, ScheduledKeeps
  <2> QED
    BY <2>1, <2>2, <2>3, <2>4
<1>3. ASSUME \/ TimerFires
             \/ \E a \in Account : FlushThrows(a) \/ ClientSeen(a) \/ LinkDecays(a)
             \/ \E m \in Msg : BecomesDue(m) \/ Answer(m)
      PROVE  SavePending' /\ Clean'
  BY <1>t, <1>1, <1>3, EnvironmentMoves
<1>4. ASSUME NEW m \in Msg, NEW a \in Account, Enqueue(m, a)
      PROVE  SavePending' /\ Clean'
  BY <1>4, ScheduledKeeps DEF Enqueue, Put, lifeVars, storeVars
<1>5. CASE SaveFires \/ StopFlushes
  <2>1. saved' = Persisted /\ UNCHANGED outbox
    BY <1>5 DEF SaveFires, StopFlushes, queueVars
  <2>2. Persisted' = saved'
    BY <2>1, PersistedSame
  <2>3. Clean'
    BY <1>t, <2>1, PersistedClean DEF Clean
  <2> QED
    BY <2>2, <2>3 DEF SavePending
<1>6. CASE Stop \/ Crash
  <2>1. Stopped' /\ UNCHANGED saved
    BY <1>6 DEF Stop, Crash, Stopped, storeVars
  <2> QED
    BY <2>1 DEF SavePending, Clean
<1>7. CASE Start
  <2>1. outbox' = saved /\ UNCHANGED saved
    BY <1>7 DEF Start, storeVars
  <2>2. ASSUME NEW m \in Msg, saved[m] # NoEntry
        PROVE  [saved[m] EXCEPT !.due = FALSE] = saved[m]
    <3>1. saved[m] \in Entry
      BY <1>t, <2>2 DEF TypeOK
    <3> QED
      BY <2>2, <3>1 DEF Clean, Entry
  <2>3. Persisted' = saved
    BY <1>t, <2>1, <2>2 DEF Persisted, TypeOK
  <2> QED
    BY <2>1, <2>3 DEF SavePending, Clean
<1>8. ASSUME NEW m \in Msg, Purge(m)
      PROVE  SavePending' /\ Clean'
  <2>1. /\ saved' = (IF JsonStore THEN saved ELSE [saved EXCEPT ![m] = NoEntry])
        /\ ScheduleSave /\ ~Stopped
    BY <1>8 DEF Purge
  <2>2. Clean'
    BY <1>t, <2>1 DEF Clean, TypeOK
  <2> QED
    BY <2>1, <2>2 DEF SavePending, ScheduleSave
<1>9. CASE UNCHANGED vars
  <2>1. UNCHANGED <<phase, saved, outbox, saveTimer>>
    BY <1>9 DEF vars, queueVars, storeVars, lifeVars
  <2> QED
    BY <2>1, PersistedSame, ScheduledKeeps
<1> QED
  BY <1>2, <1>3, <1>4, <1>5, <1>6, <1>7, <1>8, <1>9 DEF Next, Restart

LEMMA InitSaves == Init => SavePending /\ Clean
<1> SUFFICES ASSUME Init PROVE Persisted = saved /\ Clean
  BY DEF SavePending
<1> QED
  BY DEF Init, Persisted, Clean

-----------------------------------------------------------------------------

(* What the summaries of the flushes leave out.  A flush wakes idle drains *)
(* and no other, keeps an armed timer armed, and visits every target: a    *)
(* target is drained, or still has to be visited by a flush under way.  If *)
(* an account left a next delay, a flush under way or the timer has it.    *)
Watched(d, c) ==
  \/ d[c].pc # "idle"
  \/ \E b \in Account : d[b].pc # "idle" /\ (c \in d[b].rest \/ d[b].wait)

Wakes(d) == \A b \in Account : drain'[b] = d[b] \/ (d[b].pc = "idle" /\ drain'[b].pc \in Quiet)

LEMMA AdvanceFacts ==
  ASSUME NEW targets \in SUBSET Account, NEW wait \in BOOLEAN,
         NEW d \in [Account -> Drain], NEW t \in BOOLEAN,
         flushErrors \in Nat, Advance(targets, wait, d, t)
  PROVE  /\ Wakes(d) /\ (t => timer') /\ flushErrors' <= flushErrors
         /\ \A c \in Account : Watched(d, c) => Watched(drain', c)
         /\ \A c \in targets : Watched(drain', c)
         /\ wait => \/ timer' \/ Stopped
                    \/ \A c \in Account : Watched(drain', c)
<1> DEFINE running == {x \in targets : d[x].pc # "idle"}
<1>1. CASE /\ targets = running /\ drain' = d
           /\ timer' = (t \/ (wait /\ ~Stopped)) /\ flushErrors' = 0
  BY <1>1 DEF Wakes, Watched
<1>2. ASSUME NEW x \in targets \ running, NEW skipped \in SUBSET running,
             drain' = [d EXCEPT ![x] = [Idle EXCEPT !.pc = "loop",
                         !.rest = targets \ (skipped \cup {x}), !.wait = wait]],
             timer' = t, UNCHANGED flushErrors
      PROVE  /\ Wakes(d) /\ (t => timer') /\ flushErrors' <= flushErrors
             /\ \A c \in Account : Watched(d, c) => Watched(drain', c)
             /\ \A c \in targets : Watched(drain', c)
             /\ wait => \A c \in Account : Watched(drain', c)
  <2> DEFINE e == [Idle EXCEPT !.pc = "loop", !.rest = targets \ (skipped \cup {x}), !.wait = wait]
  <2>1. e.pc = "loop" /\ e.rest = targets \ (skipped \cup {x}) /\ e.wait = wait
    BY DEF Idle
  <2>2. drain' = [d EXCEPT ![x] = e]
    BY <1>2
  <2> HIDE DEF e
  <2>3. /\ x \in Account /\ d[x].pc = "idle" /\ drain'[x] = e
        /\ \A b \in Account \ {x} : drain'[b] = d[b]
    BY <2>2
  <2>4. \A c \in Account : Watched(d, c) => Watched(drain', c)
    BY <2>1, <2>3 DEF Watched
  <2>5. ASSUME NEW c \in targets
        PROVE  Watched(drain', c)
    <3>1. CASE c \in running
      BY <2>4, <3>1 DEF Watched
    <3>2. CASE c \notin running
      BY <2>1, <2>3, <3>2 DEF Watched
    <3> QED
      BY <3>1, <3>2
  <2>6. Wakes(d)
    BY <2>1, <2>3 DEF Wakes, Quiet
  <2> QED
    BY <1>2, <2>1, <2>3, <2>4, <2>5, <2>6 DEF Watched
<1> QED
  BY <1>1, <1>2 DEF Advance

LEMMA FlushFacts ==
  ASSUME NEW targets \in SUBSET Account, NEW d \in [Account -> Drain],
         NEW t \in BOOLEAN, flushErrors \in Nat, Flush(targets, d, t)
  PROVE  /\ Wakes(d) /\ (t => timer') /\ flushErrors' <= flushErrors
         /\ \A c \in Account : Watched(d, c) => Watched(drain', c)
         /\ ~Stopped => \A c \in targets : Watched(drain', c)
<1>1. CASE Stopped
  BY <1>1 DEF Flush, Wakes
<1>2. CASE ~Stopped
  <2>1. PICK wait \in BOOLEAN : Advance(targets, wait, d, t)
    BY <1>2 DEF Flush
  <2>2. /\ Wakes(d) /\ (t => timer') /\ flushErrors' <= flushErrors
        /\ \A c \in Account : Watched(d, c) => Watched(drain', c)
        /\ \A c \in targets : Watched(drain', c)
    BY <2>1, AdvanceFacts
  <2> QED
    BY <2>2
<1> QED
  BY <1>1, <1>2

(* Only the drain of a moves, and idle drains that its flush wakes.        *)
Alone(a) ==
  \A b \in Account \ {a} : drain'[b] = drain[b] \/ (drain[b].pc = "idle" /\ drain'[b].pc \in Quiet)

LEMMA BreakFacts ==
  ASSUME TypeOK, NEW a \in Account, NEW wait \in BOOLEAN, Break(a, wait)
  PROVE  /\ Alone(a) /\ drain'[a].pc \in Quiet
         /\ (timer => timer') /\ flushErrors' <= flushErrors
         /\ \A c \in Account \ {a} : Watched(drain, c) => timer' \/ Stopped \/ Watched(drain', c)
         /\ wait => \A c \in Account : timer' \/ Stopped \/ Watched(drain', c)
<1> DEFINE d == [drain EXCEPT ![a] = Idle]
           after == drain[a].wait \/ wait
<1>1. Idle \in Drain /\ Idle.pc = "idle"
  BY OutboxAssumption DEF Idle, Drain, Pc
<1>2. /\ d \in [Account -> Drain] /\ drain[a].rest \in SUBSET Account
      /\ after \in BOOLEAN /\ timer \in BOOLEAN /\ flushErrors \in Nat
  BY <1>1 DEF TypeOK, Drain
<1>3. Advance(drain[a].rest, after, d, timer)
  BY DEF Break
<1>4. d[a] = Idle /\ \A b \in Account \ {a} : d[b] = drain[b]
  BY DEF TypeOK
<1>5. after <=> drain[a].wait \/ wait
  OBVIOUS
<1> HIDE DEF d, after
<1>6. /\ Wakes(d) /\ (timer => timer') /\ flushErrors' <= flushErrors
      /\ \A c \in Account : Watched(d, c) => Watched(drain', c)
      /\ \A c \in drain[a].rest : Watched(drain', c)
      /\ after => \/ timer' \/ Stopped
                  \/ \A c \in Account : Watched(drain', c)
  BY <1>2, <1>3, AdvanceFacts
<1>7. ASSUME NEW c \in Account \ {a}, Watched(drain, c)
      PROVE  timer' \/ Stopped \/ Watched(drain', c)
  <2>1. CASE c \in drain[a].rest \/ drain[a].wait
    BY <1>5, <1>6, <2>1
  <2>2. CASE ~(c \in drain[a].rest \/ drain[a].wait)
    <3>1. Watched(d, c)
      BY <1>4, <1>7, <2>2 DEF Watched
    <3> QED
      BY <1>6, <3>1
  <2> QED
    BY <2>1, <2>2
<1>8. Alone(a)
  BY <1>4, <1>6 DEF Wakes, Alone
<1>9. drain'[a].pc \in Quiet
  BY BreakMoves
<1> QED
  BY <1>5, <1>6, <1>7, <1>8, <1>9

(* A drain that goes on keeps what its flush still has to do.              *)
GoesOn(a) ==
  /\ \A b \in Account \ {a} : drain'[b] = drain[b]
  /\ drain[a].pc # "idle" /\ drain'[a].pc # "idle"
  /\ drain'[a].rest = drain[a].rest /\ drain'[a].wait = drain[a].wait
  /\ timer => timer'
  /\ UNCHANGED flushErrors

LEMMA ContinueFacts ==
  ASSUME TypeOK, NEW a \in Account, NEW pc \in Quiet, Continue(a, pc)
  PROVE  /\ Alone(a) /\ drain'[a].pc = pc
         /\ pc # "idle" /\ drain[a].pc # "idle" => GoesOn(a)
<1> DEFINE e == [drain[a] EXCEPT !.pc = pc, !.worked = TRUE, !.msg = NoMsg,
                                 !.retry = 0, !.online = FALSE]
<1>1. drain[a] \in Drain
  BY DEF TypeOK
<1>2. e.pc = pc /\ e.rest = drain[a].rest /\ e.wait = drain[a].wait
  BY <1>1 DEF Drain
<1>3. drain' = [drain EXCEPT ![a] = e]
  BY DEF Continue
<1> HIDE DEF e
<1>4. drain'[a] = e /\ \A b \in Account \ {a} : drain'[b] = drain[b]
  BY <1>3 DEF TypeOK
<1> QED
  BY <1>2, <1>4 DEF Continue, Alone, GoesOn

LEMMA SuspendFacts ==
  ASSUME TypeOK, NEW a \in Account, NEW pc \in {"transfer", "ackwait"}, NEW m \in Msg,
         NEW retry \in 0..MaxRetry, NEW online \in BOOLEAN,
         Suspend(a, pc, m, retry, online)
  PROVE  /\ drain'[a].pc = pc /\ drain'[a].msg = m /\ drain'[a].retry = retry
         /\ \A b \in Account \ {a} : drain'[b] = drain[b]
         /\ drain[a].pc # "idle" => GoesOn(a)
<1> DEFINE e == [drain[a] EXCEPT !.pc = pc, !.worked = TRUE, !.msg = m,
                                 !.retry = retry, !.online = online]
<1>1. drain[a] \in Drain
  BY DEF TypeOK
<1>2. /\ e.pc = pc /\ e.msg = m /\ e.retry = retry
      /\ e.rest = drain[a].rest /\ e.wait = drain[a].wait
  BY <1>1 DEF Drain
<1>3. drain' = [drain EXCEPT ![a] = e]
  BY DEF Suspend
<1> HIDE DEF e
<1>4. drain'[a] = e /\ \A b \in Account \ {a} : drain'[b] = drain[b]
  BY <1>3 DEF TypeOK
<1> QED
  BY <1>2, <1>4 DEF Suspend, GoesOn

-----------------------------------------------------------------------------

(* What PushBudget needs to be inductive: the pushes of a queued message   *)
(* are within its retry count unless an ACK is awaited, a drain that       *)
(* awaits one has pushed once more than it was charged, and one in a       *)
(* transfer has not pushed yet, whatever became of the entry meanwhile.    *)
Waiting(a) == drain[a].pc \in {"ackwait", "expired"}

Budget ==
  /\ \A m \in Queued : \/ sends[m] <= outbox[m].retry
                       \/ \E a \in Account : Waiting(a) /\ drain[a].msg = m
  /\ \A a \in Account : drain[a].pc = "transfer" => sends[drain[a].msg] <= drain[a].retry
  /\ \A a \in Account : Waiting(a) => sends[drain[a].msg] <= drain[a].retry + 1

(* A message that was never enqueued was never pushed.                     *)
Unsent == \A m \in Msg \ used : sends[m] = 0

LEMMA BudgetPays == IInv /\ Budget => PushBudget
<1> SUFFICES ASSUME IInv, Budget, NEW m \in Queued
             PROVE  sends[m] <= outbox[m].retry
                      + (IF \E a \in Account : InFlight(a) /\ drain[a].msg = m THEN 1 ELSE 0)
  BY DEF PushBudget
<1>1. m \in Msg /\ outbox[m] \in Entry /\ sends[m] \in Nat
  BY DEF IInv, TypeOK, Queued
<1>2. outbox[m].retry \in Nat
  BY <1>1, OutboxAssumption DEF Entry
<1>3. CASE sends[m] <= outbox[m].retry
  BY <1>1, <1>2, <1>3
<1>4. ASSUME NEW a \in Account, Waiting(a), drain[a].msg = m
      PROVE  sends[m] <= outbox[m].retry + 1 /\ InFlight(a)
  BY <1>4 DEF Budget, Waiting, InFlight, IInv, Owned
<1> QED
  BY <1>1, <1>2, <1>3, <1>4 DEF Budget

(* A step in which the drains keep their attempts or drop them, nothing is *)
(* pushed, and no entry is left with fewer retries than pushes.            *)
LEMMA DropKeeps ==
  ASSUME Budget,
         \A b \in Account : \/ drain'[b].pc \in Quiet
                            \/ /\ drain'[b].pc = drain[b].pc \/ (Waiting(b) /\ drain'[b].pc = "expired")
                               /\ drain'[b].msg = drain[b].msg /\ drain'[b].retry = drain[b].retry
                               /\ InFlight(b) => sends'[drain[b].msg] = sends[drain[b].msg],
         \A n \in Queued' :
           \/ sends'[n] <= outbox'[n].retry
           \/ /\ n \in Queued /\ outbox'[n].retry = outbox[n].retry /\ sends'[n] = sends[n]
              /\ \A b \in Account : Waiting(b) /\ drain[b].msg = n =>
                   Waiting(b)' /\ drain'[b].msg = n
  PROVE  Budget'
<1>1. ASSUME NEW n \in Queued'
      PROVE  \/ sends'[n] <= outbox'[n].retry
             \/ \E a \in Account : Waiting(a)' /\ drain'[a].msg = n
  <2>1. CASE sends'[n] <= outbox'[n].retry
    BY <2>1
  <2>2. CASE /\ n \in Queued /\ outbox'[n].retry = outbox[n].retry /\ sends'[n] = sends[n]
             /\ \A b \in Account : Waiting(b) /\ drain[b].msg = n =>
                  Waiting(b)' /\ drain'[b].msg = n
    BY <2>2 DEF Budget
  <2> QED
    BY <1>1, <2>1, <2>2
<1>2. ASSUME NEW b \in Account, drain'[b].pc \notin Quiet
      PROVE  /\ drain'[b].pc = "transfer" => sends'[drain'[b].msg] <= drain'[b].retry
             /\ Waiting(b)' => sends'[drain'[b].msg] <= drain'[b].retry + 1
  BY <1>2 DEF Budget, Waiting, InFlight
<1>3. \A b \in Account : (drain'[b].pc = "transfer" \/ Waiting(b)') => drain'[b].pc \notin Quiet
  BY DEF Waiting, Quiet
<1> QED
  BY <1>1, <1>2, <1>3 DEF Budget

(* The drain of a ends an attempt, or a round without one, on m.           *)
LEMMA EndKeeps ==
  ASSUME IInv, Budget, NEW a \in Account, NEW m \in Msg,
         Alone(a), drain'[a].pc \in Quiet, Waiting(a) => drain[a].msg = m,
         \A b \in Account \ {a} : InFlight(b) => drain[b].msg # m,
         \A n \in Msg \ {m} : outbox'[n] = outbox[n] /\ sends'[n] = sends[n],
         m \in Queued' => sends'[m] <= outbox'[m].retry
  PROVE  Budget'
<1>1. \A b \in Account : InFlight(b) => drain[b].msg \in Msg
  BY DEF IInv, Captures
<1>2. ASSUME NEW b \in Account, drain'[b].pc \notin Quiet
      PROVE  drain'[b] = drain[b] /\ (InFlight(b) => sends'[drain[b].msg] = sends[drain[b].msg])
  BY <1>1, <1>2 DEF Alone
<1>3. ASSUME NEW n \in Queued', n # m
      PROVE  /\ n \in Queued /\ outbox'[n].retry = outbox[n].retry /\ sends'[n] = sends[n]
             /\ \A b \in Account : Waiting(b) /\ drain[b].msg = n => drain'[b] = drain[b]
  BY <1>3 DEF Queued, Alone, Waiting
<1>4. ASSUME NEW n \in Queued', n # m
      PROVE  \A b \in Account : Waiting(b) /\ drain[b].msg = n => Waiting(b)' /\ drain'[b].msg = n
  BY <1>3, <1>4 DEF Waiting
<1> QED
  BY <1>2, <1>3, <1>4, DropKeeps

LEMMA PickedFacts ==
  ASSUME IInv, Budget, NEW a \in Account, NEW m \in Msg, Picks(a, m)
  PROVE  /\ m \in Queued /\ drain[a].pc = "loop" /\ ~Stopped
         /\ outbox[m].retry \in 0..MaxRetry /\ outbox[m].acct = a
         /\ \A b \in Account : InFlight(b) => drain[b].msg # m
         /\ sends[m] <= outbox[m].retry
<1>1. /\ m \in Queued /\ drain[a].pc = "loop" /\ ~Stopped /\ outbox[m].acct = a
      /\ outbox[m].retry \in 0..MaxRetry
  BY PicksHeld DEF Picks, DueOf, QueueOf, IInv
<1>2. \A b \in Account : InFlight(b) => drain[b].msg # m
  BY <1>1 DEF IInv, Owned, InFlight
<1>3. sends[m] <= outbox[m].retry
  BY <1>1, <1>2 DEF Budget, Waiting, InFlight
<1> QED
  BY <1>1, <1>2, <1>3

(* The four ways out of a round.                                           *)
LEMMA GiveUpPays ==
  ASSUME IInv, NEW m \in Msg, GiveUp(m) \/ Remove(m, "sent")
  PROVE  (\A n \in Msg \ {m} : outbox'[n] = outbox[n]) /\ m \notin Queued'
BY DEF GiveUp, Remove, Queued, IInv, TypeOK

LEMMA RetryPays ==
  ASSUME IInv, NEW a \in Account, NEW m \in Msg, NEW retry \in 0..MaxRetry, Retry(a, m, retry)
  PROVE  (\A n \in Msg \ {m} : outbox'[n] = outbox[n]) /\ outbox'[m].retry = retry
BY DEF Retry, Put, IInv, TypeOK

LEMMA FailedPushPays ==
  ASSUME IInv, Budget, NEW a \in Account, ~Waiting(a), NEW m \in Msg, NEW retry \in 0..MaxRetry,
         \A b \in Account \ {a} : InFlight(b) => drain[b].msg # m,
         sends[m] <= retry, UNCHANGED sends, FailedPush(a, m, retry)
  PROVE  Budget'
<1>t. TypeOK /\ sends[m] \in Nat
  BY DEF IInv, TypeOK
<1>1. CASE GiveUp(m) /\ Continue(a, "loop")
  BY <1>1, <1>t, GiveUpPays, ContinueFacts, EndKeeps DEF Quiet
<1>2. CASE ~Spent(retry) /\ Retry(a, m, retry + 1) /\ Break(a, TRUE)
  <2>1. retry + 1 \in 0..MaxRetry
    BY <1>2, OutboxAssumption DEF Spent
  <2>2. (\A n \in Msg \ {m} : outbox'[n] = outbox[n]) /\ outbox'[m].retry = retry + 1
    BY <1>2, <2>1, RetryPays
  <2>3. sends'[m] <= outbox'[m].retry
    BY <1>t, <2>1, <2>2
  <2>4. Alone(a) /\ drain'[a].pc \in Quiet
    BY <1>2, <1>t, BreakFacts
  <2> QED
    BY <2>2, <2>3, <2>4, EndKeeps
<1> QED
  BY <1>1, <1>2 DEF FailedPush

LEMMA ReroutePays ==
  ASSUME IInv, Budget, NEW a \in Account, NEW m \in Msg, NEW retry \in 0..MaxRetry,
         Waiting(a) => drain[a].msg = m,
         \A b \in Account \ {a} : InFlight(b) => drain[b].msg # m,
         \A n \in Msg \ {m} : sends'[n] = sends[n],
         sends'[m] <= retry + 1, Reroute(a, m, retry)
  PROVE  Budget'
<1>t. TypeOK
  BY DEF IInv
<1>1. CASE GiveUp(m) /\ Continue(a, "loop")
  BY <1>1, <1>t, GiveUpPays, ContinueFacts, EndKeeps DEF Quiet
<1>2. CASE ~Spent(retry) /\ Retry(a, m, retry + 1) /\ Continue(a, "napbreak")
  <2>1. retry + 1 \in 0..MaxRetry
    BY <1>2, OutboxAssumption DEF Spent
  <2>2. (\A n \in Msg \ {m} : outbox'[n] = outbox[n]) /\ outbox'[m].retry = retry + 1
    BY <1>2, <2>1, RetryPays
  <2>3. Alone(a) /\ drain'[a].pc \in Quiet
    BY <1>2, <1>t, ContinueFacts DEF Quiet
  <2> QED
    BY <2>2, <2>3, EndKeeps
<1> QED
  BY <1>1, <1>2 DEF Reroute

LEMMA AfterPushPays ==
  ASSUME IInv, Budget, NEW a \in Account, ~Waiting(a), NEW m \in Msg, NEW retry \in 0..MaxRetry,
         NEW online \in BOOLEAN,
         \A b \in Account \ {a} : InFlight(b) => drain[b].msg # m,
         sends[m] <= retry, Broadcast(m), AfterPush(a, m, retry, online)
  PROVE  Budget'
<1>t. TypeOK /\ sends[m] \in Nat /\ sends \in [Msg -> Nat]
  BY DEF IInv, TypeOK
<1>s. sends'[m] = sends[m] + 1 /\ \A n \in Msg \ {m} : sends'[n] = sends[n]
  BY <1>t DEF Broadcast
<1>l. sends'[m] <= retry + 1
  BY <1>t, <1>s
<1>1. CASE /\ Put(m, [acct |-> a, retry |-> retry, due |-> TRUE])
           /\ Suspend(a, "ackwait", m, retry, TRUE)
  <2>1. /\ drain'[a].pc = "ackwait" /\ drain'[a].msg = m /\ drain'[a].retry = retry
        /\ \A b \in Account \ {a} : drain'[b] = drain[b]
    <3>1. Suspend(a, "ackwait", m, retry, TRUE) /\ TypeOK
      BY <1>1, <1>t
    <3>2. "ackwait" \in {"transfer", "ackwait"} /\ TRUE \in BOOLEAN
      OBVIOUS
    <3> QED
      BY <3>1, <3>2, SuspendFacts
  <2>2. \A n \in Msg \ {m} : outbox'[n] = outbox[n]
    BY <1>1, <1>t DEF Put, TypeOK
  <2>3. \A b \in Account : InFlight(b) => drain[b].msg \in Msg
    BY DEF IInv, Captures
  <2>4. ASSUME NEW n \in Queued'
        PROVE  \/ sends'[n] <= outbox'[n].retry
               \/ \E b \in Account : Waiting(b)' /\ drain'[b].msg = n
    <3>1. CASE n = m
      BY <2>1, <3>1 DEF Waiting
    <3>2. CASE n # m
      <4>1. n \in Queued /\ outbox'[n] = outbox[n] /\ sends'[n] = sends[n]
        BY <1>s, <2>2, <3>2 DEF Queued
      <4>2. CASE sends[n] <= outbox[n].retry
        BY <4>1, <4>2
      <4>3. ASSUME NEW b \in Account, Waiting(b), drain[b].msg = n
            PROVE  Waiting(b)' /\ drain'[b].msg = n
        BY <2>1, <4>3 DEF Waiting
      <4> QED
        BY <4>1, <4>2, <4>3 DEF Budget
    <3> QED
      BY <3>1, <3>2
  <2>5. ASSUME NEW b \in Account \ {a}
        PROVE  /\ drain'[b].pc = "transfer" => sends'[drain'[b].msg] <= drain'[b].retry
               /\ Waiting(b)' => sends'[drain'[b].msg] <= drain'[b].retry + 1
    BY <1>s, <2>1, <2>3 DEF Budget, Waiting, InFlight
  <2> QED
    BY <1>l, <2>1, <2>4, <2>5 DEF Budget
<1>2. CASE Remove(m, "sent") /\ Continue(a, "nap")
  BY <1>2, <1>s, <1>t, GiveUpPays, ContinueFacts, EndKeeps DEF Quiet
<1>3. CASE Reroute(a, m, retry)
  BY <1>3, <1>s, <1>l, ReroutePays
<1> QED
  BY <1>1, <1>2, <1>3 DEF AfterPush

-----------------------------------------------------------------------------

LEMMA DrainStepPays ==
  ASSUME IInv, Budget, NEW a \in Account, DrainStep(a)
  PROVE  Budget'
<1>t. TypeOK /\ Captures
  BY DEF IInv
<1>s. sends \in [Msg -> Nat] /\ drain[a] \in Drain
  BY <1>t DEF TypeOK
<1>p. ASSUME NEW m \in Msg, Picks(a, m)
      PROVE  /\ m \in Queued /\ drain[a].pc = "loop" /\ ~Waiting(a) /\ ~Stopped
             /\ outbox[m].retry \in 0..MaxRetry /\ sends[m] \in Nat
             /\ \A b \in Account : InFlight(b) => drain[b].msg # m
             /\ sends[m] <= outbox[m].retry
  BY <1>s, <1>p, PickedFacts DEF Waiting
<1>g. ASSUME NEW m \in Msg, Picks(a, m), GiveUp(m), UNCHANGED sends,
             NEW pc \in Quiet, Continue(a, pc)
      PROVE  Budget'
  <2>1. (\A n \in Msg \ {m} : outbox'[n] = outbox[n]) /\ m \notin Queued'
    BY <1>g, GiveUpPays
  <2>2. Alone(a) /\ drain'[a].pc \in Quiet
    BY <1>t, <1>g, ContinueFacts
  <2> QED
    BY <1>g, <1>p, <2>1, <2>2, EndKeeps
<1>r. ASSUME NEW m \in Msg, Picks(a, m), UNCHANGED sends, NEW retry \in 0..MaxRetry,
             outbox[m].retry <= retry, Retry(a, m, retry), Break(a, TRUE)
      PROVE  Budget'
  <2>1. (\A n \in Msg \ {m} : outbox'[n] = outbox[n]) /\ outbox'[m].retry = retry
    BY <1>r, RetryPays
  <2>2. Alone(a) /\ drain'[a].pc \in Quiet
    BY <1>t, <1>r, BreakFacts
  <2>3. sends'[m] <= outbox'[m].retry
    BY <1>r, <1>p, <2>1
  <2> QED
    BY <1>r, <1>p, <2>1, <2>2, <2>3, EndKeeps
<1>q. ASSUME UNCHANGED <<outbox, sends>>, Alone(a), drain'[a].pc \in Quiet,
             ~Waiting(a) \/ drain[a].msg \notin Queued
      PROVE  Budget'
  BY <1>q, DropKeeps DEF Queued, Alone, Waiting
<1>1. CASE DrainEnds(a) \/ DrainYields(a) \/ DrainFindsNothingDue(a) \/ Wake(a)
  <2>1. UNCHANGED <<outbox, sends>> /\ ~Waiting(a)
    BY <1>1 DEF DrainEnds, DrainYields, DrainFindsNothingDue, Wake, Waiting, queueVars, clientVars
  <2>2. Break(a, TRUE) \/ Break(a, FALSE) \/ Continue(a, "loop")
    BY <1>1 DEF DrainEnds, DrainYields, DrainFindsNothingDue, Wake
  <2>3. Alone(a) /\ drain'[a].pc \in Quiet
    BY <1>t, <2>2, BreakFacts, ContinueFacts DEF Quiet
  <2> QED
    BY <1>q, <2>1, <2>3
<1>2. CASE GuardExhausts(a) \/ GuardGivesUp(a)
  <2>1. PICK m \in Msg, pc \in Quiet : Picks(a, m) /\ GiveUp(m) /\ Continue(a, pc) /\ UNCHANGED sends
    BY <1>2 DEF GuardExhausts, GuardGivesUp, Quiet, clientVars
  <2> QED
    BY <1>g, <2>1
<1>3. CASE GuardCorrects(a)
  <2>1. PICK m \in Msg :
          /\ Picks(a, m)
          /\ Put(m, [acct |-> Home[m], retry |-> 0, due |-> FALSE])
          /\ drain' = [drain EXCEPT ![a] = [@ EXCEPT !.worked = TRUE]]
          /\ sends' = [sends EXCEPT ![m] = 0]
    BY <1>3 DEF GuardCorrects
  <2>2. /\ \A n \in Msg \ {m} : outbox'[n] = outbox[n] /\ sends'[n] = sends[n]
        /\ outbox'[m].retry = 0 /\ sends'[m] = 0
    BY <1>s, <1>t, <2>1 DEF Put, TypeOK
  <2>3. drain[a].pc = "loop"
    BY <1>p, <2>1
  <2>4. [drain[a] EXCEPT !.worked = TRUE].pc = "loop"
    BY <1>s, <2>3 DEF Drain
  <2>5. Alone(a) /\ drain'[a].pc \in Quiet
    BY <1>t, <2>1, <2>4 DEF Alone, Quiet, TypeOK
  <2> QED
    BY <1>p, <2>1, <2>2, <2>5, EndKeeps
<1>4. CASE GuardDefers(a)
  <2>1. PICK m \in Msg :
          /\ Picks(a, m) /\ outbox[m].retry + 1 < MaxRetry
          /\ Retry(a, m, outbox[m].retry + 1) /\ Break(a, TRUE) /\ UNCHANGED sends
    BY <1>4 DEF GuardDefers, clientVars
  <2>2. outbox[m].retry + 1 \in 0..MaxRetry /\ outbox[m].retry <= outbox[m].retry + 1
    BY <1>p, <2>1, OutboxAssumption
  <2> QED
    BY <1>r, <2>1, <2>2
<1>5. CASE MediaGuardFails(a)
  <2>1. PICK m \in Media :
          /\ Picks(a, m)
          /\ \/ GiveUp(m) /\ Continue(a, "loop")
             \/ /\ outbox[m].retry + 2 <= MaxRetry
                /\ Retry(a, m, outbox[m].retry + 2) /\ Break(a, TRUE)
          /\ UNCHANGED sends
    BY <1>5 DEF MediaGuardFails, clientVars
  <2>2. m \in Msg
    BY OutboxAssumption
  <2>3. CASE GiveUp(m) /\ Continue(a, "loop")
    BY <1>g, <2>1, <2>2, <2>3 DEF Quiet
  <2>4. CASE outbox[m].retry + 2 <= MaxRetry /\ Retry(a, m, outbox[m].retry + 2) /\ Break(a, TRUE)
    <3>1. outbox[m].retry + 2 \in 0..MaxRetry /\ outbox[m].retry <= outbox[m].retry + 2
      BY <1>p, <2>1, <2>2, <2>4, OutboxAssumption
    <3> QED
      BY <1>r, <2>1, <2>2, <2>4, <3>1
  <2> QED
    BY <2>1, <2>3, <2>4
<1>6. CASE PushText(a)
  <2>1. PICK m \in Msg : /\ Picks(a, m) /\ Broadcast(m)
                         /\ AfterPush(a, m, outbox[m].retry, link[a] = "live")
    BY <1>6 DEF PushText
  <2> QED
    BY <1>p, <2>1, AfterPushPays
<1>7. CASE PushTextThrows(a)
  <2>1. PICK m \in Msg : Picks(a, m) /\ FailedPush(a, m, outbox[m].retry) /\ UNCHANGED sends
    BY <1>7 DEF PushTextThrows, clientVars
  <2> QED
    BY <1>p, <2>1, FailedPushPays
<1>8. CASE BeginTransfer(a)
  <2>1. PICK m \in Msg : /\ Picks(a, m)
                         /\ Suspend(a, "transfer", m, outbox[m].retry, link[a] = "live")
                         /\ UNCHANGED <<outbox, sends>>
    BY <1>8, OutboxAssumption DEF BeginTransfer, queueVars, clientVars
  <2>2. /\ drain'[a].pc = "transfer" /\ drain'[a].msg = m /\ drain'[a].retry = outbox[m].retry
        /\ \A b \in Account \ {a} : drain'[b] = drain[b]
    <3>1. PICK r \in 0..MaxRetry, online \in BOOLEAN : r = outbox[m].retry /\ Suspend(a, "transfer", m, r, online)
      BY <1>p, <2>1
    <3>2. "transfer" \in {"transfer", "ackwait"}
      OBVIOUS
    <3>3. /\ drain'[a].pc = "transfer" /\ drain'[a].msg = m /\ drain'[a].retry = r
          /\ \A b \in Account \ {a} : drain'[b] = drain[b]
      BY <1>t, <3>1, <3>2, SuspendFacts
    <3> QED
      BY <3>1, <3>3
  <2>3. ~Waiting(a) /\ ~Waiting(a)'
    BY <1>p, <2>1, <2>2 DEF Waiting
  <2>4. \A b \in Account : Waiting(b) => Waiting(b)' /\ drain'[b] = drain[b]
    BY <2>2, <2>3 DEF Waiting
  <2>5. \A n \in Queued' : \/ sends'[n] <= outbox'[n].retry
                           \/ \E b \in Account : Waiting(b)' /\ drain'[b].msg = n
    BY <2>1, <2>4 DEF Budget, Queued
  <2>6. \A b \in Account : /\ drain'[b].pc = "transfer" => sends'[drain'[b].msg] <= drain'[b].retry
                           /\ Waiting(b)' => sends'[drain'[b].msg] <= drain'[b].retry + 1
    BY <1>p, <2>1, <2>2, <2>3 DEF Budget, Waiting
  <2> QED
    BY <2>5, <2>6 DEF Budget
<1>9. CASE TransferSucceeds(a) \/ TransferFails(a) \/ TransferRejected(a)
  <2>1. /\ drain[a].pc = "transfer" /\ drain[a].msg \in Msg /\ ~Waiting(a) /\ InFlight(a)
        /\ drain[a].retry \in 0..MaxRetry /\ drain[a].online \in BOOLEAN
        /\ sends[drain[a].msg] <= drain[a].retry
    BY <1>9, <1>s, <1>t
    DEF TransferSucceeds, TransferFails, TransferRejected, Captures, InFlight, Waiting, Drain, Budget
  <2>2. \A b \in Account \ {a} : InFlight(b) => drain[b].msg # drain[a].msg
    BY <2>1 DEF IInv, Owned
  <2>3. CASE TransferSucceeds(a)
    BY <2>1, <2>2, <2>3, AfterPushPays DEF TransferSucceeds
  <2>4. CASE TransferFails(a)
    <3>1. FailedPush(a, drain[a].msg, drain[a].retry) /\ UNCHANGED sends
      BY <2>4 DEF TransferFails, clientVars
    <3> QED
      BY <2>1, <2>2, <3>1, FailedPushPays
  <2>5. CASE TransferRejected(a)
    <3>1. GiveUp(drain[a].msg) /\ Continue(a, "nap") /\ UNCHANGED sends
      BY <2>5 DEF TransferRejected, clientVars
    <3>2. /\ \A n \in Msg \ {drain[a].msg} : outbox'[n] = outbox[n]
          /\ drain[a].msg \notin Queued'
      BY <2>1, <3>1, GiveUpPays
    <3>3. Alone(a) /\ drain'[a].pc \in Quiet
      BY <1>t, <3>1, ContinueFacts DEF Quiet
    <3> QED
      BY <2>1, <2>2, <3>1, <3>2, <3>3, EndKeeps
  <2> QED
    BY <1>9, <2>3, <2>4, <2>5
<1>10. CASE AckTimeout(a)
  <2>1. /\ Waiting(a) /\ InFlight(a) /\ drain[a].msg \in Msg /\ drain[a].retry \in 0..MaxRetry
        /\ sends[drain[a].msg] <= drain[a].retry + 1 /\ UNCHANGED sends
    BY <1>10, <1>s, <1>t DEF AckTimeout, Waiting, InFlight, Captures, Drain, Budget, clientVars
  <2>2. \A b \in Account \ {a} : InFlight(b) => drain[b].msg # drain[a].msg
    BY <2>1 DEF IInv, Owned
  <2>3. CASE drain[a].msg \notin Queued /\ Continue(a, "nap") /\ UNCHANGED queueVars
    <3>1. Alone(a) /\ drain'[a].pc \in Quiet /\ UNCHANGED <<outbox, sends>>
      BY <1>t, <2>1, <2>3, ContinueFacts DEF Quiet, queueVars
    <3> QED
      BY <1>q, <2>3, <3>1
  <2>4. CASE Reroute(a, drain[a].msg, drain[a].retry)
    BY <2>1, <2>2, <2>4, ReroutePays
  <2> QED
    BY <1>10, <2>3, <2>4 DEF AckTimeout
<1> QED
  BY <1>1, <1>2, <1>3, <1>4, <1>5, <1>6, <1>7, <1>8, <1>9, <1>10 DEF DrainStep

-----------------------------------------------------------------------------

(* The steps of no drain: none pushes, and none lowers a retry count.      *)
LEMMA WakeKeeps ==
  ASSUME Budget, Wakes(drain), UNCHANGED sends,
         \A n \in Queued' : \/ n \in Queued /\ outbox'[n].retry = outbox[n].retry
                            \/ sends[n] <= outbox'[n].retry
  PROVE  Budget'
<1>1. \A b \in Account : drain'[b] = drain[b] \/ (~Waiting(b) /\ drain'[b].pc \in Quiet)
  BY DEF Wakes, Waiting
<1> QED
  BY <1>1, DropKeeps DEF Waiting

LEMMA SettleKeeps ==
  ASSUME IInv, Budget, NEW m \in Msg, Wakes(Resolved(m)), UNCHANGED sends,
         \A n \in Msg \ {m} : outbox'[n] = outbox[n], m \notin Queued'
  PROVE  Budget'
<1>1. \A b \in Account : \/ Resolved(m)[b] = drain[b]
                         \/ Waiting(b) /\ drain[b].msg = m /\ Resolved(m)[b].pc = "nap"
  BY ResolvedMoves DEF Resolved, IInv, TypeOK, Waiting, Drain
<1>2. \A b \in Account : \/ drain'[b].pc \in Quiet
                         \/ drain'[b] = drain[b]
  BY <1>1 DEF Wakes, Quiet
<1>3. \A n \in Queued' : /\ n \in Queued /\ outbox'[n] = outbox[n]
                         /\ \A b \in Account : Waiting(b) /\ drain[b].msg = n => drain'[b] = drain[b]
  BY <1>1 DEF Queued, Wakes, Waiting
<1> QED
  BY <1>2, <1>3, DropKeeps DEF Waiting

LEMMA OtherStepPays ==
  ASSUME IInv, Budget, Unsent,
         \/ \E a \in Account : FlushThrows(a) \/ ClientSeen(a) \/ LinkDecays(a)
         \/ \E m \in Msg : BecomesDue(m) \/ Answer(m) \/ Purge(m)
         \/ \E m \in Msg, a \in Account : Enqueue(m, a)
         \/ TimerFires \/ SaveFires \/ Restart \/ UNCHANGED vars
  PROVE  Budget'
<1>t. /\ TypeOK /\ outbox \in [Msg -> Entry \cup {NoEntry}] /\ drain \in [Account -> Drain]
      /\ timer \in BOOLEAN /\ flushErrors \in Nat /\ sends \in [Msg -> Nat]
  BY DEF IInv, TypeOK
<1>1. ASSUME NEW a \in Account, FlushThrows(a)
      PROVE  Budget'
  <2>1. drain[a].pc = "loop" /\ drain' = [drain EXCEPT ![a] = Idle] /\ UNCHANGED <<outbox, sends>>
    BY <1>1 DEF FlushThrows, queueVars, clientVars
  <2>2. drain'[a].pc = "idle" /\ \A b \in Account \ {a} : drain'[b] = drain[b]
    BY <1>t, <2>1 DEF Idle
  <2> QED
    BY <2>1, <2>2, DropKeeps DEF Queued, Waiting, Quiet
<1>2. ASSUME NEW a \in Account, ClientSeen(a)
      PROVE  Budget'
  <2>1. Wakes(drain) /\ UNCHANGED <<outbox, sends>>
    BY <1>t, <1>2, FlushFacts DEF ClientSeen, queueVars
  <2> QED
    BY <2>1, WakeKeeps DEF Queued
<1>3. CASE TimerFires
  <2>1. Wakes(drain) /\ UNCHANGED <<outbox, sends>>
    BY <1>t, <1>3, FlushFacts DEF TimerFires, queueVars, clientVars
  <2> QED
    BY <2>1, WakeKeeps DEF Queued
<1>4. CASE (\E a \in Account : LinkDecays(a)) \/ SaveFires \/ StopFlushes \/ UNCHANGED vars
  <2>1. UNCHANGED <<drain, outbox, sends>>
    BY <1>4 DEF LinkDecays, SaveFires, StopFlushes, vars, queueVars, flushVars, clientVars
  <2> QED
    BY <2>1, WakeKeeps DEF Queued, Wakes
<1>5. ASSUME NEW m \in Msg, BecomesDue(m)
      PROVE  Budget'
  <2>1. /\ m \in Queued /\ outbox' = [outbox EXCEPT ![m] = [@ EXCEPT !.due = TRUE]]
        /\ UNCHANGED <<drain, sends>>
    BY <1>5 DEF BecomesDue, flushVars, clientVars
  <2>2. outbox[m] \in Entry
    BY <1>t, <2>1 DEF Queued
  <2>3. \A n \in Queued' : n \in Queued /\ outbox'[n].retry = outbox[n].retry
    BY <1>t, <2>1, <2>2 DEF Queued, Entry
  <2> QED
    BY <2>1, <2>3, WakeKeeps DEF Wakes
<1>6. ASSUME NEW m \in Msg, AckRetry(m)
      PROVE  Budget'
  <2>1. /\ m \in Queued /\ outbox' = [outbox EXCEPT ![m] = [outbox[m] EXCEPT !.due = FALSE]]
        /\ UNCHANGED <<drain, sends>>
    BY <1>6 DEF AckRetry, AckAccepted, Put, flushVars
  <2>2. outbox[m] \in Entry
    BY <1>t, <2>1 DEF Queued
  <2>3. \A n \in Queued' : n \in Queued /\ outbox'[n].retry = outbox[n].retry
    BY <1>t, <2>1, <2>2 DEF Queued, Entry
  <2> QED
    BY <2>1, <2>3, WakeKeeps DEF Wakes
<1>7. ASSUME NEW m \in Msg, AckOk(m)
      PROVE  Budget'
  <2>1. m \in Queued /\ Remove(m, "acked") /\ UNCHANGED sends /\ Flush({outbox[m].acct}, Resolved(m), timer)
    BY <1>7 DEF AckOk, AckAccepted
  <2>2. outbox[m].acct \in Account
    BY <1>t, <2>1 DEF Queued, Entry
  <2>3. Wakes(Resolved(m))
    <3>1. {outbox[m].acct} \in SUBSET Account /\ Resolved(m) \in [Account -> Drain]
      BY <1>t, <2>2, ResolvedMoves
    <3> QED
      BY <1>t, <2>1, <3>1, FlushFacts
  <2>4. (\A n \in Msg \ {m} : outbox'[n] = outbox[n]) /\ m \notin Queued'
    BY <1>t, <2>1 DEF Remove, Queued
  <2> QED
    BY <2>1, <2>3, <2>4, SettleKeeps
<1>8. ASSUME NEW m \in Msg, AckFatal(m)
      PROVE  Budget'
  <2>1. GiveUp(m) /\ UNCHANGED sends /\ drain' = Resolved(m)
    BY <1>8 DEF AckFatal, AckAccepted
  <2>2. (\A n \in Msg \ {m} : outbox'[n] = outbox[n]) /\ m \notin Queued'
    BY <2>1, GiveUpPays
  <2>3. Wakes(Resolved(m))
    BY <2>1 DEF Wakes
  <2> QED
    BY <2>1, <2>2, <2>3, SettleKeeps
<1>9. ASSUME NEW m \in Msg, Purge(m)
      PROVE  Budget'
  <2>1. outbox' = [outbox EXCEPT ![m] = NoEntry] /\ UNCHANGED <<drain, sends>>
    BY <1>9 DEF Purge, flushVars, clientVars
  <2>2. \A n \in Queued' : n \in Queued /\ outbox'[n] = outbox[n]
    BY <1>t, <2>1 DEF Queued
  <2> QED
    BY <2>1, <2>2, WakeKeeps DEF Wakes
<1>10. ASSUME NEW m \in Msg, NEW a \in Account, Enqueue(m, a)
       PROVE  Budget'
  <2>1. /\ m \notin used /\ Put(m, [acct |-> a, retry |-> 0, due |-> TRUE])
        /\ Flush({a}, drain, timer) /\ UNCHANGED sends
    BY <1>10 DEF Enqueue, clientVars
  <2>2. Wakes(drain) /\ sends[m] = 0
    BY <1>t, <2>1, FlushFacts DEF Unsent
  <2>3. outbox'[m].retry = 0 /\ \A n \in Msg \ {m} : outbox'[n] = outbox[n]
    BY <1>t, <2>1 DEF Put
  <2>4. \A n \in Queued' : \/ n \in Queued /\ outbox'[n].retry = outbox[n].retry
                           \/ sends[n] <= outbox'[n].retry
    BY <2>2, <2>3 DEF Queued
  <2> QED
    BY <2>1, <2>2, <2>4, WakeKeeps
<1>11. CASE Stop
  <2>1. /\ drain' = [a \in Account |-> IF drain[a].pc = "ackwait"
                                       THEN [drain[a] EXCEPT !.pc = "expired"] ELSE drain[a]]
        /\ UNCHANGED <<outbox, sends>>
    BY <1>11 DEF Stop, clientVars
  <2>2. \A b \in Account : /\ \/ drain'[b] = drain[b]
                              \/ drain[b].pc = "ackwait" /\ drain'[b].pc = "expired"
                           /\ drain'[b].msg = drain[b].msg /\ drain'[b].retry = drain[b].retry
    BY <1>t, <2>1 DEF Drain
  <2> QED
    BY <2>1, <2>2, DropKeeps DEF Waiting, Queued
<1>12. CASE Crash
  <2>1. Queued' = {} /\ \A b \in Account : drain'[b].pc = "idle"
    BY <1>12 DEF Crash, Queued, Idle
  <2> QED
    BY <2>1, DropKeeps DEF Quiet
<1>13. CASE Start
  <2>1. /\ \A n \in Msg : sends'[n] = 0
        /\ UNCHANGED drain /\ outbox' = saved
    BY <1>13 DEF Start
  <2>2. \A n \in Queued' : n \in Msg /\ outbox'[n].retry \in Nat
    BY <1>t, <2>1, OutboxAssumption DEF Queued, TypeOK, Entry
  <2>3. \A n \in Queued' : sends'[n] <= outbox'[n].retry
    BY <2>1, <2>2
  <2>4. \A b \in Account : InFlight(b) => drain[b].msg \in Msg /\ drain[b].retry \in Nat
    BY <1>t, OutboxAssumption DEF IInv, Captures, Drain
  <2>5. \A b \in Account : Waiting(b) \/ drain[b].pc = "transfer" => InFlight(b)
    BY DEF Waiting, InFlight
  <2>6. ASSUME NEW b \in Account, Waiting(b) \/ drain[b].pc = "transfer"
        PROVE  sends'[drain[b].msg] <= drain[b].retry /\ sends'[drain[b].msg] <= drain[b].retry + 1
    BY <2>1, <2>4, <2>5, <2>6
  <2> QED
    BY <2>1, <2>3, <2>6 DEF Budget, Waiting
<1> QED
  BY <1>1, <1>2, <1>3, <1>4, <1>5, <1>6, <1>7, <1>8, <1>9, <1>10, <1>11, <1>12, <1>13
  DEF Answer, Restart

LEMMA UnsentKeeps ==
  ASSUME IInv, Unsent, [Next]_vars
  PROVE  Unsent'
<1>t. TypeOK /\ Captures /\ sends \in [Msg -> Nat]
  BY DEF IInv, TypeOK
<1>1. ASSUME used \subseteq used', \A n \in Msg \ used : sends'[n] \in {sends[n], 0}
      PROVE  Unsent'
  BY <1>1 DEF Unsent
<1>2. ASSUME NEW a \in Account, DrainStep(a)
      PROVE  Unsent'
  <2>1. UNCHANGED used
    BY <1>t, <1>2, DrainStepMoves
  <2>2. CASE PushText(a)
    <3>1. PICK m \in Msg : Picks(a, m) /\ Broadcast(m)
      BY <2>2 DEF PushText
    <3>2. m \in used
      BY <1>t, <3>1, PicksHeld, HoldsKnown
    <3> QED
      BY <1>1, <1>t, <2>1, <3>1, <3>2 DEF Broadcast
  <2>3. CASE TransferSucceeds(a)
    <3>1. drain[a].msg \in used /\ Broadcast(drain[a].msg)
      BY <2>3 DEF TransferSucceeds, IInv, Fresh, InFlight
    <3> QED
      BY <1>1, <1>t, <2>1, <3>1 DEF Broadcast
  <2>4. CASE GuardCorrects(a)
    <3>1. PICK m \in Msg : sends' = [sends EXCEPT ![m] = 0]
      BY <2>4 DEF GuardCorrects
    <3> QED
      BY <1>1, <1>t, <2>1, <3>1
  <2>5. CASE UNCHANGED sends
    BY <1>1, <2>1, <2>5
  <2>6. ~PushText(a) /\ ~TransferSucceeds(a) /\ ~GuardCorrects(a) => UNCHANGED sends
    BY <1>2
    DEF DrainStep, DrainEnds, DrainYields, DrainFindsNothingDue, GuardExhausts, GuardDefers,
        GuardGivesUp, MediaGuardFails, PushTextThrows, BeginTransfer, TransferFails,
        TransferRejected, AckTimeout, Wake, clientVars
  <2> QED
    BY <2>2, <2>3, <2>4, <2>5, <2>6
<1>3. ASSUME \/ \E a \in Account : FlushThrows(a) \/ ClientSeen(a) \/ LinkDecays(a)
             \/ \E m \in Msg : BecomesDue(m) \/ Answer(m) \/ Purge(m)
             \/ TimerFires \/ SaveFires \/ Stop \/ StopFlushes \/ Crash \/ UNCHANGED vars
      PROVE  Unsent'
  <2>1. UNCHANGED <<sends, used>>
    BY <1>3
    DEF FlushThrows, ClientSeen, LinkDecays, BecomesDue, Answer, AckOk, AckFatal, AckRetry,
        AckAccepted, Purge, TimerFires, SaveFires, Stop, StopFlushes, Crash, vars, clientVars
  <2> QED
    BY <1>1, <2>1
<1>4. ASSUME NEW m \in Msg, NEW a \in Account, Enqueue(m, a)
      PROVE  Unsent'
  BY <1>1, <1>4 DEF Enqueue, clientVars
<1>5. CASE Start
  BY <1>1, <1>5 DEF Start
<1> QED
  BY <1>2, <1>3, <1>4, <1>5 DEF Next, Restart

LEMMA InitPays == Init => Budget /\ Unsent
<1> SUFFICES ASSUME Init PROVE Budget /\ Unsent
  OBVIOUS
<1>1. Queued = {} /\ \A a \in Account : drain[a].pc = "idle"
  BY DEF Init, Queued, Idle
<1> QED
  BY <1>1 DEF Init, Budget, Unsent, Waiting

-----------------------------------------------------------------------------

(* Nobody forgets a queued message.                                        *)
Guarded(c) == QueueOf(c) # {} /\ c \notin cold => timer \/ Watched(drain, c)

LEMMA GuardedAll == NoStrandedEntry <=> (~Stopped => \A c \in Account : Guarded(c))
BY DEF NoStrandedEntry, Guarded, Watched

(* The flushes have not thrown so often in a row that the code gives up.   *)
Seldom == flushErrors <= RetryLimit

(* The watch on c passes from the present state to the next.               *)
Relayed(c) == timer \/ Watched(drain, c) => timer' \/ Watched(drain', c)
Grows(c) == ~(QueueOf(c)' = {} \/ QueueOf(c) # {})

LEMMA RelayKeeps ==
  ASSUME NoStrandedEntry, UNCHANGED phase,
         \A c \in Account : \/ Stopped \/ QueueOf(c)' = {} \/ timer' \/ Watched(drain', c)
                            \/ Relayed(c) /\ ~Grows(c) /\ (c \in cold => c \in cold')
  PROVE  NoStrandedEntry'
<1> SUFFICES ASSUME ~Stopped', NEW c \in Account PROVE Guarded(c)'
  BY GuardedAll DEF NoStrandedEntry, Guarded, Watched
<1>1. ~Stopped /\ Guarded(c)
  BY GuardedAll DEF Stopped
<1>2. CASE QueueOf(c)' = {} \/ timer' \/ Watched(drain', c)
  BY <1>2 DEF Guarded, Watched
<1>3. CASE Relayed(c) /\ ~Grows(c) /\ (c \in cold => c \in cold')
  BY <1>1, <1>3 DEF Guarded, Watched, Relayed, Grows
<1> QED
  BY <1>1, <1>2, <1>3

LEMMA GoesOnWatches ==
  ASSUME NEW a \in Account, GoesOn(a)
  PROVE  Watched(drain', a) /\ \A c \in Account : Relayed(c)
<1>1. drain'[a].pc # "idle"
  BY DEF GoesOn
<1>2. ASSUME NEW c \in Account, Watched(drain, c)
      PROVE  Watched(drain', c)
  BY <1>2 DEF GoesOn, Watched
<1> QED
  BY <1>1, <1>2 DEF Relayed, Watched, GoesOn

(* A drain changes entries of its own account only.                        *)
Own(a) == \A n \in Msg : outbox'[n] \in {outbox[n], NoEntry} \/ outbox'[n].acct = a

LEMMA OwnKeeps == ASSUME NEW a \in Account, Own(a) PROVE \A c \in Account \ {a} : ~Grows(c)
BY DEF Own, Grows, QueueOf, Queued

(* A round on its own account that goes on, or ends its flush with a next  *)
(* delay.                                                                  *)
LEMMA RoundWatches ==
  ASSUME TypeOK, NoStrandedEntry, UNCHANGED <<phase, cold>>, NEW a \in Account, Own(a),
         GoesOn(a) \/ Break(a, TRUE)
  PROVE  NoStrandedEntry'
<1>1. CASE GoesOn(a)
  <2>1. \A c \in Account : Relayed(c) /\ (c = a => Watched(drain', c)) /\ (c # a => ~Grows(c))
    BY <1>1, GoesOnWatches, OwnKeeps
  <2> QED
    BY <2>1, RelayKeeps
<1>2. CASE Break(a, TRUE)
  BY <1>2, BreakFacts, RelayKeeps
<1> QED
  BY <1>1, <1>2

LEMMA PutOwn ==
  ASSUME TypeOK, NEW a \in Account, NEW m \in Msg, NEW r, NEW due,
         Put(m, [acct |-> a, retry |-> r, due |-> due])
  PROVE  Own(a)
BY DEF Put, Own, TypeOK

LEMMA RemoveOwn ==
  ASSUME TypeOK, NEW a \in Account, NEW m \in Msg, NEW why, Remove(m, why)
  PROVE  Own(a)
BY DEF Remove, Own, TypeOK

LEMMA ContinueGoesOn ==
  ASSUME TypeOK, NEW a \in Account, NEW pc \in {"loop", "nap", "napbreak"}, drain[a].pc # "idle",
         Continue(a, pc)
  PROVE  GoesOn(a)
BY ContinueFacts DEF Quiet

LEMMA FailedPushRound ==
  ASSUME TypeOK, NEW a \in Account, NEW m \in Msg, NEW retry, drain[a].pc # "idle",
         FailedPush(a, m, retry) \/ Reroute(a, m, retry)
  PROVE  Own(a) /\ (GoesOn(a) \/ Break(a, TRUE))
<1>1. CASE GiveUp(m) /\ Continue(a, "loop")
  BY <1>1, RemoveOwn, ContinueGoesOn DEF GiveUp
<1>2. CASE Retry(a, m, retry + 1) /\ (Break(a, TRUE) \/ Continue(a, "napbreak"))
  BY <1>2, PutOwn, ContinueGoesOn DEF Retry
<1> QED
  BY <1>1, <1>2 DEF FailedPush, Reroute

LEMMA AfterPushRound ==
  ASSUME TypeOK, NEW a \in Account, NEW m \in Msg, NEW retry \in 0..MaxRetry, NEW online,
         drain[a].pc # "idle", AfterPush(a, m, retry, online)
  PROVE  Own(a) /\ (GoesOn(a) \/ Break(a, TRUE))
<1>1. CASE /\ Put(m, [acct |-> a, retry |-> retry, due |-> TRUE])
           /\ Suspend(a, "ackwait", m, retry, TRUE)
  BY <1>1, PutOwn, SuspendFacts
<1>2. CASE Remove(m, "sent") /\ Continue(a, "nap")
  BY <1>2, RemoveOwn, ContinueGoesOn
<1>3. CASE Reroute(a, m, retry)
  BY <1>3, FailedPushRound
<1> QED
  BY <1>1, <1>2, <1>3 DEF AfterPush

LEMMA SameOwn == ASSUME UNCHANGED outbox, NEW a \in Account PROVE Own(a)
BY DEF Own

LEMMA DrainStepWatches ==
  ASSUME TypeOK, Captures, NoStrandedEntry, NEW a \in Account, DrainStep(a)
  PROVE  NoStrandedEntry'
<1>1. UNCHANGED <<phase, cold>>
  BY DrainStepMoves DEF lifeVars
<1>2. drain[a].retry \in 0..MaxRetry /\ (InFlight(a) => drain[a].msg \in Msg)
  BY DEF TypeOK, Drain, Captures
<1>p. ASSUME NEW m \in Msg, Picks(a, m)
      PROVE  drain[a].pc # "idle" /\ outbox[m].retry \in 0..MaxRetry
  BY <1>p, PicksHeld
<1>3. CASE DrainEnds(a)
  <2>1. /\ Break(a, FALSE) /\ UNCHANGED outbox
        /\ Stopped \/ QueueOf(a) = {}
    BY <1>3 DEF DrainEnds, queueVars
  <2>2. \A c \in Account : QueueOf(c)' = QueueOf(c)
    BY <2>1 DEF QueueOf, Queued
  <2>3. \A c \in Account \ {a} : Stopped \/ (Relayed(c) /\ ~Grows(c))
    BY <2>1, <2>2, BreakFacts DEF Relayed, Grows
  <2> QED
    BY <1>1, <2>1, <2>2, <2>3, RelayKeeps
<1>4. CASE DrainYields(a) \/ DrainFindsNothingDue(a) \/ Wake(a)
  <2>1. UNCHANGED outbox /\ drain[a].pc # "idle"
    BY <1>4 DEF DrainYields, DrainFindsNothingDue, Wake, queueVars
  <2>2. Break(a, TRUE) \/ Continue(a, "loop")
    BY <1>4 DEF DrainYields, DrainFindsNothingDue, Wake
  <2> QED
    BY <1>1, <2>1, <2>2, SameOwn, ContinueGoesOn, RoundWatches
<1>5. CASE GuardCorrects(a)
  BY <1>1, <1>5, RelayKeeps DEF GuardCorrects
<1>6. CASE GuardExhausts(a) \/ GuardGivesUp(a)
  <2>1. PICK m \in Msg, pc \in {"loop", "nap"} : Picks(a, m) /\ GiveUp(m) /\ Continue(a, pc)
    BY <1>6 DEF GuardExhausts, GuardGivesUp
  <2>2. Own(a) /\ GoesOn(a)
    BY <1>p, <2>1, RemoveOwn, ContinueGoesOn DEF GiveUp
  <2> QED
    BY <1>1, <2>2, RoundWatches
<1>7. CASE GuardDefers(a) \/ MediaGuardFails(a)
  <2>1. PICK m \in Msg : /\ Picks(a, m)
                         /\ \/ GiveUp(m) /\ Continue(a, "loop")
                            \/ \E r \in {1, 2} : Retry(a, m, outbox[m].retry + r) /\ Break(a, TRUE)
    BY <1>7, OutboxAssumption DEF GuardDefers, MediaGuardFails
  <2>2. Own(a)
    BY <2>1, RemoveOwn, PutOwn DEF GiveUp, Retry
  <2>3. GoesOn(a) \/ Break(a, TRUE)
    BY <1>p, <2>1, ContinueGoesOn
  <2> QED
    BY <1>1, <2>2, <2>3, RoundWatches
<1>8. CASE PushText(a)
  <2>1. PICK m \in Msg : Picks(a, m) /\ AfterPush(a, m, outbox[m].retry, link[a] = "live")
    BY <1>8 DEF PushText
  <2> QED
    BY <1>1, <1>p, <2>1, AfterPushRound, RoundWatches
<1>9. CASE PushTextThrows(a)
  <2>1. PICK m \in Msg : Picks(a, m) /\ FailedPush(a, m, outbox[m].retry)
    BY <1>9 DEF PushTextThrows
  <2> QED
    BY <1>1, <1>p, <2>1, FailedPushRound, RoundWatches
<1>10. CASE BeginTransfer(a)
  <2>1. PICK m \in Msg : /\ Picks(a, m) /\ UNCHANGED outbox
                         /\ Suspend(a, "transfer", m, outbox[m].retry, link[a] = "live")
    BY <1>10, OutboxAssumption DEF BeginTransfer, queueVars
  <2> QED
    BY <1>1, <1>p, <2>1, SuspendFacts, SameOwn, RoundWatches
<1>11. CASE TransferSucceeds(a) \/ TransferFails(a) \/ TransferRejected(a)
  <2>1. drain[a].pc # "idle" /\ drain[a].msg \in Msg
    BY <1>2, <1>11 DEF TransferSucceeds, TransferFails, TransferRejected, InFlight
  <2>2. CASE AfterPush(a, drain[a].msg, drain[a].retry, drain[a].online)
    BY <1>1, <1>2, <2>1, <2>2, AfterPushRound, RoundWatches
  <2>3. CASE FailedPush(a, drain[a].msg, drain[a].retry)
    BY <1>1, <2>1, <2>3, FailedPushRound, RoundWatches
  <2>4. CASE GiveUp(drain[a].msg) /\ Continue(a, "nap")
    BY <1>1, <2>1, <2>4, RemoveOwn, ContinueGoesOn, RoundWatches DEF GiveUp
  <2> QED
    BY <1>11, <2>2, <2>3, <2>4 DEF TransferSucceeds, TransferFails, TransferRejected
<1>12. CASE AckTimeout(a)
  <2>1. drain[a].pc # "idle" /\ drain[a].msg \in Msg
    BY <1>2, <1>12 DEF AckTimeout, InFlight
  <2>2. CASE Continue(a, "nap") /\ UNCHANGED outbox
    BY <1>1, <2>1, <2>2, SameOwn, ContinueGoesOn, RoundWatches
  <2>3. CASE Reroute(a, drain[a].msg, drain[a].retry)
    BY <1>1, <2>1, <2>3, FailedPushRound, RoundWatches
  <2> QED
    BY <1>12, <2>2, <2>3 DEF AckTimeout, queueVars
<1> QED
  BY <1>3, <1>4, <1>5, <1>6, <1>7, <1>8, <1>9, <1>10, <1>11, <1>12 DEF DrainStep

-----------------------------------------------------------------------------

LEMMA ResolvedWatches ==
  ASSUME TypeOK, NEW m \in Msg
  PROVE  /\ Resolved(m) \in [Account -> Drain]
         /\ \A c \in Account : Watched(drain, c) => Watched(Resolved(m), c)
<1>1. ASSUME NEW b \in Account
      PROVE  /\ Resolved(m)[b].pc = "idle" => drain[b].pc = "idle"
             /\ Resolved(m)[b].rest = drain[b].rest /\ Resolved(m)[b].wait = drain[b].wait
  <2>1. drain[b] \in Drain
    BY DEF TypeOK
  <2>2. CASE drain[b].pc = "ackwait" /\ drain[b].msg = m
    BY <2>1, <2>2 DEF Resolved, Drain
  <2>3. CASE ~(drain[b].pc = "ackwait" /\ drain[b].msg = m)
    BY <2>3 DEF Resolved
  <2> QED
    BY <2>2, <2>3
<1> QED
  BY <1>1, ResolvedMoves DEF Watched

LEMMA AnswerFacts ==
  ASSUME TypeOK, NEW m \in Msg, AckAccepted(m)
  PROVE  m \in Queued /\ outbox[m] \in Entry /\ ~Stopped /\ UNCHANGED phase
<1>1. outbox[m] \in Entry
  BY DEF AckAccepted, Queued, TypeOK
<1> QED
  BY <1>1 DEF AckAccepted, lifeVars

LEMMA ShrinksKeeps ==
  ASSUME \A n \in Msg : outbox'[n] \in {outbox[n], NoEntry}
  PROVE  \A c \in Account : ~Grows(c)
BY DEF Grows, QueueOf, Queued

(* An entry that stays with its account makes no queue grow.               *)
LEMMA StaysKeeps ==
  ASSUME TypeOK, NEW m \in Queued, NEW e, e.acct = outbox[m].acct, outbox' = [outbox EXCEPT ![m] = e]
  PROVE  \A c \in Account : ~Grows(c)
BY DEF Grows, QueueOf, Queued, TypeOK

LEMMA OtherStepWatches ==
  ASSUME TypeOK, NoStrandedEntry, Seldom',
         \/ \E a \in Account : FlushThrows(a) \/ ClientSeen(a) \/ LinkDecays(a)
         \/ \E m \in Msg : BecomesDue(m) \/ Answer(m) \/ Purge(m)
         \/ \E m \in Msg, a \in Account : Enqueue(m, a)
         \/ TimerFires \/ SaveFires \/ Restart \/ UNCHANGED vars
  PROVE  NoStrandedEntry'
<1>t. /\ outbox \in [Msg -> Entry \cup {NoEntry}] /\ drain \in [Account -> Drain]
      /\ timer \in BOOLEAN /\ flushErrors \in Nat
  BY DEF TypeOK
<1>1. ASSUME NEW a \in Account, FlushThrows(a)
      PROVE  NoStrandedEntry'
  <2>1. /\ flushErrors' = flushErrors + 1 /\ UNCHANGED phase
        /\ timer' = (timer \/ (flushErrors + 1 <= RetryLimit /\ ~Stopped))
    BY <1>1 DEF FlushThrows
  <2>2. flushErrors + 1 <= RetryLimit
    BY <2>1 DEF Seldom
  <2>3. Stopped \/ timer'
    BY <2>1, <2>2
  <2> QED
    BY <2>1, <2>3, RelayKeeps
<1>2. ASSUME NEW a \in Account, ClientSeen(a)
      PROVE  NoStrandedEntry'
  <2>1. /\ Flush({a}, drain, timer) /\ cold' = cold \ {a}
        /\ UNCHANGED <<phase, outbox>>
    BY <1>2 DEF ClientSeen, queueVars, lifeVars
  <2>2. /\ \A c \in Account : Relayed(c) /\ ~Grows(c)
        /\ Stopped \/ Watched(drain', a)
    <3>1. {a} \in SUBSET Account
      OBVIOUS
    <3>2. /\ timer => timer'
          /\ \A c \in Account : Watched(drain, c) => Watched(drain', c)
          /\ ~Stopped => \A c \in {a} : Watched(drain', c)
      BY <1>t, <2>1, <3>1, FlushFacts
    <3> QED
      BY <2>1, <3>2 DEF Relayed, Grows, QueueOf, Queued
  <2> QED
    BY <2>1, <2>2, RelayKeeps
<1>3. CASE TimerFires
  <2> DEFINE T == {a \in Account : QueueOf(a) # {}}
  <2>1. Flush(T, drain, FALSE) /\ UNCHANGED <<phase, outbox>>
    BY <1>3 DEF TimerFires, queueVars, lifeVars
  <2>2. T \in SUBSET Account /\ \A c \in Account : QueueOf(c)' # {} => c \in T
    BY <2>1 DEF QueueOf, Queued
  <2> HIDE DEF T
  <2>3. (Stopped \/ \A c \in T : Watched(drain', c))
    BY <1>t, <2>1, <2>2, FlushFacts
  <2> QED
    BY <2>1, <2>2, <2>3, RelayKeeps
<1>4. ASSUME UNCHANGED <<phase, drain, timer, flushErrors>>,
             \A c \in Account : ~Grows(c) /\ (c \in cold => c \in cold')
      PROVE  NoStrandedEntry'
  BY <1>4, RelayKeeps DEF Relayed
<1>5. CASE (\E a \in Account : LinkDecays(a)) \/ SaveFires \/ UNCHANGED vars
  <2>1. UNCHANGED <<phase, drain, timer, flushErrors, outbox, cold>>
    BY <1>5 DEF LinkDecays, SaveFires, vars, queueVars, flushVars, lifeVars
  <2> QED
    BY <1>4, <2>1 DEF Grows, QueueOf, Queued
<1>6. ASSUME NEW m \in Msg, BecomesDue(m)
      PROVE  NoStrandedEntry'
  <2>1. /\ m \in Queued /\ outbox' = [outbox EXCEPT ![m] = [outbox[m] EXCEPT !.due = TRUE]]
        /\ UNCHANGED <<phase, drain, timer, flushErrors, cold>>
    BY <1>6 DEF BecomesDue, flushVars, lifeVars
  <2>2. [outbox[m] EXCEPT !.due = TRUE].acct = outbox[m].acct
    BY <1>t, <2>1 DEF Queued, Entry
  <2> QED
    BY <1>4, <2>1, <2>2, StaysKeeps
<1>7. ASSUME NEW m \in Msg, AckRetry(m)
      PROVE  NoStrandedEntry'
  <2>1. /\ outbox' = [outbox EXCEPT ![m] = [outbox[m] EXCEPT !.due = FALSE]]
        /\ AckAccepted(m) /\ UNCHANGED <<drain, timer, flushErrors, cold>>
    BY <1>7 DEF AckRetry, Put, flushVars
  <2>2. [outbox[m] EXCEPT !.due = FALSE].acct = outbox[m].acct
    BY <2>1, AnswerFacts DEF Entry
  <2>3. \A c \in Account : ~Grows(c)
    BY <2>1, <2>2, AnswerFacts, StaysKeeps
  <2> QED
    BY <1>4, <2>1, <2>3, AnswerFacts
<1>8. ASSUME NEW m \in Msg, AckOk(m)
      PROVE  NoStrandedEntry'
  <2>1. /\ AckAccepted(m) /\ outbox' = [outbox EXCEPT ![m] = NoEntry]
        /\ Flush({outbox[m].acct}, Resolved(m), timer)
        /\ cold' = cold \ {outbox[m].acct}
    BY <1>8 DEF AckOk, Remove
  <2>2. outbox[m].acct \in Account
    BY <2>1, AnswerFacts DEF Entry
  <2>3. /\ \A c \in Account : Watched(drain, c) => Watched(drain', c)
        /\ (timer => timer') /\ Watched(drain', outbox[m].acct)
    <3>1. {outbox[m].acct} \in SUBSET Account /\ Resolved(m) \in [Account -> Drain]
      BY <2>2, ResolvedWatches
    <3>2. /\ timer => timer'
          /\ \A c \in Account : Watched(Resolved(m), c) => Watched(drain', c)
      BY <1>t, <2>1, <3>1, FlushFacts
    <3>3. ~Stopped
      BY <2>1, AnswerFacts
    <3>4. PICK T \in SUBSET Account : T = {outbox[m].acct}
      BY <3>1
    <3>5. Flush(T, Resolved(m), timer)
      BY <2>1, <3>4
    <3>6. \A c \in T : Watched(drain', c)
      BY <1>t, <3>1, <3>3, <3>5, FlushFacts
    <3>7. Watched(drain', outbox[m].acct)
      BY <3>4, <3>6
    <3>8. \A c \in Account : Watched(drain, c) => Watched(Resolved(m), c)
      BY ResolvedWatches
    <3> QED
      BY <3>2, <3>7, <3>8
  <2>4. \A c \in Account : Relayed(c) /\ ~Grows(c)
    BY <1>t, <2>1, <2>3, ShrinksKeeps DEF Relayed
  <2> QED
    BY <2>1, <2>3, <2>4, AnswerFacts, RelayKeeps
<1>9. ASSUME NEW m \in Msg, AckFatal(m)
      PROVE  NoStrandedEntry'
  <2>1. /\ AckAccepted(m) /\ outbox' = [outbox EXCEPT ![m] = NoEntry]
        /\ drain' = Resolved(m) /\ UNCHANGED <<timer, flushErrors, cold>>
    BY <1>9 DEF AckFatal, GiveUp, Remove
  <2>2. \A c \in Account : Relayed(c) /\ ~Grows(c)
    BY <1>t, <2>1, ResolvedWatches, ShrinksKeeps DEF Relayed
  <2> QED
    BY <1>t, <2>1, <2>2, AnswerFacts, RelayKeeps
<1>10. ASSUME NEW m \in Msg, Purge(m)
       PROVE  NoStrandedEntry'
  <2>1. /\ outbox' = [outbox EXCEPT ![m] = NoEntry]
        /\ UNCHANGED <<phase, drain, timer, flushErrors, cold>>
    BY <1>10 DEF Purge, flushVars, lifeVars
  <2> QED
    BY <1>4, <1>t, <2>1, ShrinksKeeps
<1>11. ASSUME NEW m \in Msg, NEW a \in Account, Enqueue(m, a)
       PROVE  NoStrandedEntry'
  <2>1. /\ Put(m, [acct |-> a, retry |-> 0, due |-> TRUE]) /\ Flush({a}, drain, timer)
        /\ cold' = cold \ {a} /\ UNCHANGED phase
    BY <1>11 DEF Enqueue, lifeVars
  <2>2. \A c \in Account \ {a} : ~Grows(c)
    BY <2>1, PutOwn, OwnKeeps
  <2>3. /\ \A c \in Account : Relayed(c)
        /\ Stopped \/ Watched(drain', a)
    BY <1>t, <2>1, FlushFacts DEF Relayed
  <2> QED
    BY <2>1, <2>2, <2>3, RelayKeeps
<1>12. CASE Stop \/ StopFlushes \/ Crash
  <2>1. Stopped'
    BY <1>t, <1>12 DEF Stop, StopFlushes, Crash, Stopped, flushVars
  <2> QED
    BY <2>1 DEF NoStrandedEntry
<1>13. CASE Start
  <2>1. /\ outbox' = saved
        /\ timer' \/ cold' = {a \in Account :
                                 \E m \in Msg : saved[m] # NoEntry /\ saved[m].acct = a}
    BY <1>13 DEF Start
  <2>2. \A c \in Account : QueueOf(c)' # {} => timer' \/ c \in cold'
    BY <2>1 DEF QueueOf, Queued
  <2> QED
    BY <2>2 DEF NoStrandedEntry
<1> QED
  BY <1>1, <1>2, <1>3, <1>5, <1>6, <1>7, <1>8, <1>9, <1>10, <1>11, <1>12, <1>13 DEF Answer, Restart

LEMMA InitWatches == Init => NoStrandedEntry
BY DEF Init, NoStrandedEntry, QueueOf, Queued

-----------------------------------------------------------------------------
(* Every change of the queue has a save coming: the service is stopped, or *)
(* the debounced save is armed (scheduleSave), or the persisted queue is   *)
(* that of the memory, whatever drains, answers, prunes, saves, stops,     *)
(* crashes and starts come in between.                                     *)
THEOREM SavesAreComing == Spec => []SavePending
<1>1. IInv /\ SavePending /\ Clean /\ [Next]_vars => SavePending' /\ Clean'
  BY StepSaves
<1> QED
  BY <1>1, InitSaves, Inductive, PTL DEF Spec

(* Every push is paid for: a queued message was broadcast at most once per *)
(* retry it was charged since the last start or correction of its account, *)
(* plus the attempt in progress, whatever answers, timeouts, transfers,    *)
(* prunes and restarts intervene.                                          *)
THEOREM PushesArePaid == Spec => []PushBudget
<1>1. IInv /\ Budget /\ Unsent /\ [Next]_vars => Budget' /\ Unsent'
  <2> SUFFICES ASSUME IInv, Budget, Unsent, [Next]_vars PROVE Budget'
    BY UnsentKeeps
  <2>1. ASSUME NEW a \in Account, DrainStep(a)
        PROVE  Budget'
    BY <2>1, DrainStepPays
  <2>2. CASE \/ \E a \in Account : FlushThrows(a) \/ ClientSeen(a) \/ LinkDecays(a)
             \/ \E m \in Msg : BecomesDue(m) \/ Answer(m) \/ Purge(m)
             \/ \E m \in Msg, a \in Account : Enqueue(m, a)
             \/ TimerFires \/ SaveFires \/ Restart \/ UNCHANGED vars
    BY <2>2, OtherStepPays
  <2> QED
    BY <2>1, <2>2 DEF Next
<1> QED
  BY <1>1, InitPays, BudgetPays, Inductive, PTL DEF Spec

(* Nobody forgets a queued message: client or no client, the push timer is *)
(* armed, a drain of its account runs, or a flush under way still has to   *)
(* visit the account or to schedule its next delay.  Two exceptions are    *)
(* the code's: the entries that a start without a client has loaded wait   *)
(* for the first flush of their account (the accounts of cold; a NACK,     *)
(* which flushes nothing, does not take them out); and the flushes must    *)
(* not throw more than PUSH_DRAIN_EXCEPTION_RETRY_LIMIT times in a row,    *)
(* when the code gives up and leaves the queue to the next client or       *)
(* message.                                                                *)
THEOREM NobodyIsStranded == Spec /\ []Seldom => []NoStrandedEntry
<1>1. IInv /\ NoStrandedEntry /\ Seldom' /\ [Next]_vars => NoStrandedEntry'
  <2> SUFFICES ASSUME IInv, NoStrandedEntry, Seldom', [Next]_vars PROVE NoStrandedEntry'
    OBVIOUS
  <2>t. TypeOK /\ Captures
    BY DEF IInv
  <2>1. ASSUME NEW a \in Account, DrainStep(a)
        PROVE  NoStrandedEntry'
    BY <2>t, <2>1, DrainStepWatches
  <2>2. CASE \/ \E a \in Account : FlushThrows(a) \/ ClientSeen(a) \/ LinkDecays(a)
             \/ \E m \in Msg : BecomesDue(m) \/ Answer(m) \/ Purge(m)
             \/ \E m \in Msg, a \in Account : Enqueue(m, a)
             \/ TimerFires \/ SaveFires \/ Restart \/ UNCHANGED vars
    BY <2>t, <2>2, OtherStepWatches
  <2> QED
    BY <2>1, <2>2 DEF Next
<1> QED
  BY <1>1, InitWatches, Inductive, PTL DEF Spec

-----------------------------------------------------------------------------
(* Nothing that was persisted is lost.                                     *)

(* What NoSilentLoss needs to be inductive: a message that was persisted   *)
(* and is not known to be settled is still on the disk, and also in the    *)
(* memory unless the service is down.                                      *)
Kept ==
  /\ \A m \in Msg : saved[m] # NoEntry => m \in stored
  /\ \A m \in stored : fate[m] = {} =>
       saved[m] # NoEntry /\ (m \in Queued \/ phase = "down")

(* A step that settles messages or leaves them queued keeps Kept.          *)
LEMMA SettlingKeeps ==
  ASSUME Kept, UNCHANGED <<phase, saved, stored>>,
         \A m \in stored : /\ fate'[m] = {} => fate[m] = {}
                           /\ m \in Queued /\ fate'[m] = {} => m \in Queued'
  PROVE  Kept'
BY DEF Kept

LEMMA ChangeKeeps ==
  ASSUME IInv, Kept, NEW n \in Msg, Change(n), UNCHANGED <<phase, saved, stored>>
  PROVE  Kept'
<1>1. /\ outbox \in [Msg -> Entry \cup {NoEntry}]
      /\ fate \in [Msg -> SUBSET Fate] /\ stored \subseteq Msg
  BY DEF IInv, TypeOK
<1>2. CASE \E e \in Entry : Put(n, e)
  <2>1. PICK e \in Entry : outbox' = [outbox EXCEPT ![n] = e] /\ fate' = fate
    BY <1>2 DEF Put
  <2> QED
    BY <1>1, <2>1, EntryIsNotNoEntry, SettlingKeeps DEF Queued
<1>3. CASE \E why \in Fate : Remove(n, why)
  <2>1. PICK why \in Fate : /\ outbox' = [outbox EXCEPT ![n] = NoEntry]
                            /\ fate' = [fate EXCEPT ![n] = @ \cup {why}]
    BY <1>3 DEF Remove
  <2> QED
    BY <1>1, <2>1, SettlingKeeps DEF Queued
<1> QED
  BY <1>2, <1>3 DEF Change

LEMMA OrdinaryKept == IInv /\ Kept /\ Ordinary => Kept'
<1> SUFFICES ASSUME IInv, Kept, Ordinary PROVE Kept'
  OBVIOUS
<1>1. UNCHANGED <<phase, saved, stored>>
  BY DEF Ordinary
<1>2. CASE UNCHANGED queueVars
  BY <1>1, <1>2 DEF queueVars, Kept, Queued
<1>3. ASSUME NEW n \in Msg, Delays(n)
      PROVE  Kept'
  <2>1. PICK due \in BOOLEAN :
          /\ n \in Queued
          /\ outbox' = [outbox EXCEPT ![n] = [@ EXCEPT !.due = due]]
          /\ UNCHANGED fate
    BY <1>3 DEF Delays
  <2> DEFINE e == [outbox[n] EXCEPT !.due = due]
  <2>2. outbox[n] \in Entry
    BY <2>1 DEF IInv, TypeOK, Queued
  <2>3. e \in Entry
    BY <2>2 DEF Entry
  <2>4. outbox' = [outbox EXCEPT ![n] = e]
    BY <2>1
  <2> HIDE DEF e
  <2>5. outbox \in [Msg -> Entry \cup {NoEntry}] /\ stored \subseteq Msg
    BY DEF IInv, TypeOK
  <2> QED
    BY <1>1, <2>1, <2>3, <2>4, <2>5, EntryIsNotNoEntry, SettlingKeeps DEF Queued
<1>4. ASSUME NEW n \in Msg, Settling(n)
      PROVE  Kept'
  BY <1>1, <1>4, ChangeKeeps DEF Settling, Change
<1> QED
  BY <1>1, <1>2, <1>3, <1>4, ChangeKeeps DEF Ordinary

LEMMA RestartKept ==
  ASSUME IInv, Kept, SaveFires \/ Restart
  PROVE  Kept'
<1>1. \A m \in Msg : Persisted[m] # NoEntry <=> m \in Queued
  BY PersistedTypes DEF IInv, Queued
<1>2. stored \subseteq Msg /\ Queued \subseteq Msg
  BY DEF IInv, TypeOK, Queued
<1>3. CASE SaveFires
  <2>1. /\ phase = "up" /\ saved' = Persisted /\ stored' = stored \cup Queued
        /\ UNCHANGED <<outbox, fate, phase>>
    BY <1>3 DEF SaveFires, lifeVars, IInv, SavesOpen
  <2> QED
    BY <1>1, <1>2, <2>1 DEF Kept, Queued
<1>4. CASE Stop
  BY <1>4 DEF Stop, Stopped, storeVars, Kept, Queued
<1>5. CASE StopFlushes
  <2>1. /\ phase = "stopping" /\ phase' = "down"
        /\ saved' = Persisted /\ stored' = stored \cup Queued
        /\ UNCHANGED <<outbox, fate>>
    BY <1>5 DEF StopFlushes, queueVars
  <2> QED
    BY <1>1, <1>2, <2>1 DEF Kept, Queued
<1>6. CASE Crash
  <2>1. /\ phase' = "down" /\ UNCHANGED <<saved, stored>>
        /\ fate' = [m \in Msg |-> IF saved[m] = NoEntry THEN fate[m] ELSE {}]
    BY <1>6 DEF Crash, Remembered, storeVars
  <2> QED
    BY <1>2, <2>1 DEF Kept
<1>7. CASE Start
  <2>1. /\ phase' = "up" /\ outbox' = saved /\ UNCHANGED <<saved, stored>>
        /\ fate' = [m \in Msg |-> IF saved[m] = NoEntry THEN fate[m] ELSE {}]
    BY <1>7 DEF Start, Remembered, storeVars
  <2> QED
    BY <1>2, <2>1 DEF Kept, Queued
<1> QED
  BY <1>3, <1>4, <1>5, <1>6, <1>7 DEF Restart

LEMMA PurgeKept ==
  ASSUME IInv, Kept, NEW m \in Msg, Purge(m)
  PROVE  Kept'
<1>1. /\ phase = "up" /\ UNCHANGED <<phase, stored>>
      /\ outbox' = [outbox EXCEPT ![m] = NoEntry]
      /\ saved' \in {saved, [saved EXCEPT ![m] = NoEntry]}
      /\ fate' = [fate EXCEPT ![m] = IF m \in Queued THEN @ \cup {"purged"} ELSE @]
  BY DEF Purge, Stopped, lifeVars
<1>2. /\ outbox \in [Msg -> Entry \cup {NoEntry}]
      /\ saved \in [Msg -> Entry \cup {NoEntry}]
      /\ fate \in [Msg -> SUBSET Fate] /\ stored \subseteq Msg
  BY DEF IInv, TypeOK
<1> QED
  BY <1>1, <1>2 DEF Kept, Queued

LEMMA StepKept == IInv /\ Kept /\ [Next]_vars => Kept'
<1> SUFFICES ASSUME IInv, Kept, [Next]_vars PROVE Kept'
  OBVIOUS
<1>t. TypeOK /\ Captures
  BY DEF IInv
<1>1. ASSUME NEW a \in Account, DrainStep(a)
      PROVE  Kept'
  <2>1. /\ UNCHANGED <<phase, saved, stored, used>>
        /\ Quietly(a) \/ BeginsTransfer(a) \/ BeginsAckWait(a)
    BY <1>t, <1>1, DrainStepMoves DEF lifeVars, storeVars
  <2>2. CASE Quietly(a)
    BY <2>1, <2>2, OrdinaryKept DEF Quietly, Ordinary
  <2>3. CASE BeginsTransfer(a)
    BY <2>1, <2>3 DEF BeginsTransfer, queueVars, Kept, Queued
  <2>4. CASE BeginsAckWait(a)
    <3>1. PICK m \in Msg, retry \in 0..MaxRetry :
            Put(m, [acct |-> a, retry |-> retry, due |-> TRUE])
      BY <2>4 DEF BeginsAckWait
    <3>2. [acct |-> a, retry |-> retry, due |-> TRUE] \in Entry
      BY DEF Entry
    <3>3. Change(m)
      BY <3>1, <3>2 DEF Change
    <3> QED
      BY <2>1, <3>3, ChangeKeeps
  <2> QED
    BY <2>1, <2>2, <2>3, <2>4
<1>2. ASSUME \/ TimerFires
             \/ \E a \in Account : FlushThrows(a) \/ ClientSeen(a) \/ LinkDecays(a)
             \/ \E m \in Msg : BecomesDue(m) \/ Answer(m)
      PROVE  Kept'
  BY <1>t, <1>2, EnvironmentMoves, OrdinaryKept
<1>3. ASSUME NEW n \in Msg, NEW a \in Account, Enqueue(n, a)
      PROVE  Kept'
  <2> DEFINE e == [acct |-> a, retry |-> 0, due |-> TRUE]
  <2>1. outbox' = [outbox EXCEPT ![n] = e]
        /\ UNCHANGED <<fate, phase, saved, stored>>
    BY <1>3 DEF Enqueue, Put, storeVars, lifeVars
  <2>2. e # NoEntry
    <3>1. 0 \in 0..MaxRetry
      BY OutboxAssumption
    <3> QED
      BY <3>1, EntryIsNotNoEntry DEF Entry
  <2> HIDE DEF e
  <2>3. outbox \in [Msg -> Entry \cup {NoEntry}]
    BY DEF IInv, TypeOK
  <2> QED
    BY <2>1, <2>2, <2>3, SettlingKeeps DEF Queued
<1>4. CASE SaveFires \/ Restart
  BY <1>4, RestartKept
<1>6. ASSUME NEW m \in Msg, Purge(m)
      PROVE  Kept'
  BY <1>6, PurgeKept
<1>5. CASE UNCHANGED vars
  BY <1>5 DEF vars, queueVars, storeVars, lifeVars, Kept, Queued
<1> QED
  BY <1>1, <1>2, <1>3, <1>4, <1>5, <1>6 DEF Next

LEMMA KeptAlways == Spec => []Kept
<1>1. Init => Kept
  BY DEF Init, Kept
<1> QED
  BY <1>1, StepKept, Inductive, PTL DEF Spec

(* Once persisted, a message, text or media, is queued, or will be loaded  *)
(* by the next start, or was settled.                                      *)
THEOREM NothingPersistedIsLost == Spec => []NoSilentLoss
<1>1. Kept => NoSilentLoss
  BY DEF Kept, NoSilentLoss, Stopped
<1> QED
  BY <1>1, KeptAlways, PTL

-----------------------------------------------------------------------------
(* A step that changes at most the entry of m, as a drain or a client may. *)
LEMMA ChangePromise ==
  ASSUME IInv, NEW m \in Msg, Change(m), UNCHANGED <<phase, saved>>,
         m \in Text => m \in Queued
  PROVE  [Promise!DNext]_(Promise!deliveryVars)
<1>1. TextSaved' = TextSaved /\ (phase # "down")' = (phase # "down")
  BY DEF TextSaved
<1>2. outbox \in [Msg -> Entry \cup {NoEntry}] /\ fate \in [Msg -> SUBSET Fate]
  BY DEF IInv, TypeOK
<1>3. CASE m \in Media
  <2>1. \A n \in Text : outbox'[n] = outbox[n] /\ fate'[n] = fate[n]
    BY <1>3, ChangeMoves DEF IInv, Text
  <2>2. TextQueued' = TextQueued /\ TextSettled' = TextSettled
    BY <2>1 DEF TextQueued, TextSettled
  <2> QED
    BY <1>1, <2>2 DEF Promise!deliveryVars
<1>4. CASE m \notin Media /\ \E e \in Entry : Put(m, e)
  <2>1. PICK e \in Entry : outbox' = [outbox EXCEPT ![m] = e] /\ fate' = fate
    BY <1>4 DEF Put
  <2>2. e # NoEntry /\ outbox[m] # NoEntry
    BY <1>4, EntryIsNotNoEntry DEF Text, Queued
  <2>3. TextQueued' = TextQueued /\ TextSettled' = TextSettled
    BY <1>2, <2>1, <2>2 DEF TextQueued, TextSettled, Text
  <2> QED
    BY <1>1, <2>3 DEF Promise!deliveryVars
<1>5. CASE m \notin Media /\ \E why \in Fate : Remove(m, why)
  <2>1. PICK why \in Fate : /\ outbox' = [outbox EXCEPT ![m] = NoEntry]
                            /\ fate' = [fate EXCEPT ![m] = @ \cup {why}]
    BY <1>5 DEF Remove
  <2>2. m \in TextQueued
    BY <1>5 DEF TextQueued, Text, Queued
  <2>3. TextQueued' = TextQueued \ {m}
    BY <1>2, <2>1 DEF TextQueued, Text
  <2>4. TextSettled' = TextSettled \cup {m}
    BY <1>2, <1>5, <2>1 DEF TextSettled, Text
  <2>5. Promise!Settle(m)
    BY <1>1, <2>2, <2>3, <2>4 DEF Promise!Settle
  <2> QED
    BY <1>5, <2>5 DEF Promise!DNext, Text
<1> QED
  BY <1>3, <1>4, <1>5 DEF Change

LEMMA OrdinaryPromise ==
  IInv /\ Ordinary => [Promise!DNext]_(Promise!deliveryVars)
<1> SUFFICES ASSUME IInv, Ordinary
             PROVE  [Promise!DNext]_(Promise!deliveryVars)
  OBVIOUS
<1>1. UNCHANGED <<phase, saved>>
  BY DEF Ordinary
<1>2. CASE UNCHANGED queueVars
  BY <1>1, <1>2
  DEF queueVars, Promise!deliveryVars, TextQueued, TextSettled, TextSaved
<1>3. ASSUME NEW m \in Msg, Delays(m)
      PROVE  [Promise!DNext]_(Promise!deliveryVars)
  <2>1. PICK due \in BOOLEAN :
          /\ m \in Queued
          /\ outbox' = [outbox EXCEPT ![m] = [@ EXCEPT !.due = due]]
          /\ UNCHANGED fate
    BY <1>3 DEF Delays
  <2> DEFINE e == [outbox[m] EXCEPT !.due = due]
  <2>2. outbox[m] \in Entry
    BY <2>1 DEF IInv, TypeOK, Queued
  <2>3. e \in Entry
    BY <2>2 DEF Entry
  <2>4. outbox' = [outbox EXCEPT ![m] = e]
    BY <2>1
  <2> HIDE DEF e
  <2>5. e # NoEntry /\ outbox[m] # NoEntry
    BY <2>2, <2>3, EntryIsNotNoEntry
  <2>6. outbox \in [Msg -> Entry \cup {NoEntry}]
    BY DEF IInv, TypeOK
  <2>7. TextQueued' = TextQueued
    BY <2>4, <2>5, <2>6 DEF TextQueued, Text
  <2> QED
    BY <1>1, <2>1, <2>7 DEF Promise!deliveryVars, TextSettled, TextSaved
<1>4. ASSUME NEW m \in Msg, Settling(m)
      PROVE  [Promise!DNext]_(Promise!deliveryVars)
  <2>1. Change(m) /\ m \in Queued
    BY <1>4 DEF Settling, Change
  <2> QED
    BY <1>1, <2>1, ChangePromise
<1>5. ASSUME NEW m \in Msg, NEW a \in Account, Holds(a, m), Change(m)
      PROVE  [Promise!DNext]_(Promise!deliveryVars)
  BY <1>1, <1>5, HoldsKnown, ChangePromise
<1> QED
  BY <1>2, <1>3, <1>4, <1>5 DEF Ordinary

LEMMA EnqueuePromise ==
  ASSUME IInv, NEW m \in Msg, NEW a \in Account, Enqueue(m, a)
  PROVE  [Promise!DNext]_(Promise!deliveryVars)
<1> DEFINE e == [acct |-> a, retry |-> 0, due |-> TRUE]
<1>1. e # NoEntry
  <2>1. 0 \in 0..MaxRetry
    BY OutboxAssumption
  <2> QED
    BY <2>1, EntryIsNotNoEntry DEF Entry
<1>2. /\ m \notin used
      /\ outbox' = [outbox EXCEPT ![m] = e]
      /\ UNCHANGED <<fate, saved, phase>>
  BY DEF Enqueue, Put, storeVars, lifeVars
<1> HIDE DEF e
<1>3. outbox[m] = NoEntry /\ saved[m] = NoEntry /\ fate[m] = {}
  BY <1>2 DEF IInv, Fresh
<1>4. outbox \in [Msg -> Entry \cup {NoEntry}]
  BY DEF IInv, TypeOK
<1>5. TextSettled' = TextSettled /\ TextSaved' = TextSaved
  BY <1>2 DEF TextSettled, TextSaved
<1>6. CASE m \in Media
  <2>1. TextQueued' = TextQueued
    BY <1>2, <1>4, <1>6 DEF TextQueued, Text
  <2> QED
    BY <1>2, <1>5, <2>1 DEF Promise!deliveryVars
<1>7. CASE m \notin Media
  <2>1. TextQueued' = TextQueued \cup {m}
    BY <1>1, <1>2, <1>4, <1>7 DEF TextQueued, Text
  <2>2. m \notin TextQueued \cup TextSettled \cup TextSaved
    BY <1>3 DEF TextQueued, TextSettled, TextSaved
  <2>3. Promise!Accept(m)
    BY <1>2, <1>5, <2>1, <2>2 DEF Promise!Accept
  <2> QED
    BY <1>7, <2>3 DEF Promise!DNext, Text
<1> QED
  BY <1>6, <1>7

LEMMA RestartPromise ==
  ASSUME IInv, SaveFires \/ Restart
  PROVE  [Promise!DNext]_(Promise!deliveryVars)
<1>1. \A m \in Text : Persisted[m] # NoEntry <=> outbox[m] # NoEntry
  BY PersistedTypes DEF IInv, Text
<1>2. CASE SaveFires
  <2>1. /\ phase = "up" /\ saved' = Persisted
        /\ UNCHANGED <<outbox, fate, phase>>
    BY <1>2 DEF SaveFires, lifeVars, IInv, SavesOpen
  <2>2. TextSaved' = TextQueued
    BY <1>1, <2>1 DEF TextSaved, TextQueued
  <2>3. Promise!Save
    BY <2>1, <2>2 DEF Promise!Save, TextQueued, TextSettled
  <2> QED
    BY <2>3 DEF Promise!DNext
<1>3. CASE Stop
  BY <1>3
  DEF Stop, Stopped, storeVars, Promise!deliveryVars, TextQueued, TextSettled,
      TextSaved
<1>4. CASE StopFlushes
  <2>1. /\ phase = "stopping" /\ phase' = "down" /\ saved' = Persisted
        /\ UNCHANGED <<outbox, fate>>
    BY <1>4 DEF StopFlushes, queueVars
  <2>2. TextSaved' = TextQueued
    BY <1>1, <2>1 DEF TextSaved, TextQueued
  <2>3. Promise!Close
    BY <2>1, <2>2 DEF Promise!Close, TextQueued, TextSettled
  <2> QED
    BY <2>3 DEF Promise!DNext
<1>5. CASE Crash
  <2>1. /\ phase' = "down" /\ outbox' = [m \in Msg |-> NoEntry]
        /\ fate' = [m \in Msg |-> IF saved[m] = NoEntry THEN fate[m] ELSE {}]
        /\ saved' = saved
    BY <1>5 DEF Crash, Remembered, storeVars
  <2>2. TextQueued' = {} /\ TextSaved' = TextSaved
    BY <2>1 DEF TextQueued, TextSaved, Text
  <2>3. TextSettled' = TextSettled \ TextSaved
    BY <2>1 DEF TextSettled, TextSaved, Text
  <2>4. Promise!Die
    BY <2>1, <2>2, <2>3 DEF Promise!Die
  <2> QED
    BY <2>4 DEF Promise!DNext
<1>6. CASE Start
  <2>1. /\ phase = "down" /\ phase' = "up" /\ outbox' = saved
        /\ saved' = saved
        /\ fate' = [m \in Msg |-> IF saved[m] = NoEntry THEN fate[m] ELSE {}]
    BY <1>6 DEF Start, Remembered, storeVars
  <2>3. TextQueued' = TextSaved /\ TextSaved' = TextSaved
    BY <2>1 DEF TextQueued, TextSaved
  <2>4. TextSettled' = TextSettled \ TextSaved
    BY <2>1 DEF TextSettled, TextSaved, Text
  <2>2. Promise!Reopen
    BY <2>1, <2>3, <2>4 DEF Promise!Reopen
  <2> QED
    BY <2>2 DEF Promise!DNext
<1> QED
  BY <1>2, <1>3, <1>4, <1>5, <1>6 DEF Restart

(* A purge of a row whose message is no longer queued forgets what is      *)
(* already settled.                                                        *)
LEMMA PurgePromise ==
  ASSUME IInv, Kept, NEW m \in Msg, Purge(m)
  PROVE  [Promise!DNext]_(Promise!deliveryVars)
<1>1. /\ phase = "up" /\ phase' = "up"
      /\ m \in Queued \/ saved[m] # NoEntry
      /\ outbox' = [outbox EXCEPT ![m] = NoEntry]
      /\ saved' \in {saved, [saved EXCEPT ![m] = NoEntry]}
      /\ fate' = [fate EXCEPT ![m] = IF m \in Queued THEN @ \cup {"purged"} ELSE @]
  BY DEF Purge, Stopped, lifeVars
<1>2. /\ outbox \in [Msg -> Entry \cup {NoEntry}]
      /\ saved \in [Msg -> Entry \cup {NoEntry}]
      /\ fate \in [Msg -> SUBSET Fate]
  BY DEF IInv, TypeOK
<1>3. CASE m \in Media
  BY <1>1, <1>2, <1>3
  DEF Promise!deliveryVars, TextQueued, TextSettled, TextSaved, Text
<1>5. TextQueued' = TextQueued \ {m}
  BY <1>1, <1>2 DEF TextQueued, Text
<1>6. m \in Queued => m \in TextQueued \/ m \in Media
  BY DEF TextQueued, Text, Queued
<1>7. CASE m \notin Media /\ saved' = saved
  <2>1. TextSaved' = TextSaved
    BY <1>7 DEF TextSaved
  <2>2. CASE m \in Queued
    <3>1. TextSettled' = TextSettled \cup {m}
      BY <1>1, <1>2, <1>7, <2>2 DEF TextSettled, Text
    <3>2. Promise!Settle(m)
      BY <1>1, <1>5, <1>6, <1>7, <2>1, <2>2, <3>1 DEF Promise!Settle
    <3> QED
      BY <1>7, <3>2 DEF Promise!DNext, Text
  <2>3. CASE m \notin Queued
    <3>1. outbox[m] = NoEntry /\ fate' = fate
      BY <1>1, <1>2, <2>3 DEF Queued
    <3>2. TextQueued' = TextQueued /\ TextSettled' = TextSettled
      BY <1>5, <3>1 DEF TextQueued, TextSettled
    <3> QED
      BY <1>1, <2>1, <3>2 DEF Promise!deliveryVars
  <2> QED
    BY <2>2, <2>3
<1>4. CASE m \notin Media /\ saved' = [saved EXCEPT ![m] = NoEntry]
  <2>1. m \in TextQueued \cup TextSaved
    BY <1>1, <1>4 DEF TextQueued, TextSaved, Text, Queued
  <2>3. TextSaved' = TextSaved \ {m}
    BY <1>2, <1>4 DEF TextSaved, Text
  <2>4. m \notin Queued => fate[m] # {}
    BY <1>1 DEF Kept
  <2>5. fate'[m] # {}
    BY <1>1, <1>2, <2>4
  <2>6. TextSettled' = TextSettled \cup {m}
    BY <1>1, <1>2, <1>4, <2>5 DEF TextSettled, Text
  <2>7. Promise!Forget(m)
    BY <1>1, <1>5, <2>1, <2>3, <2>6 DEF Promise!Forget
  <2> QED
    BY <1>4, <2>7 DEF Promise!DNext, Text
<1> QED
  BY <1>1, <1>3, <1>4, <1>7

LEMMA StepPromise ==
  IInv /\ Kept /\ [Next]_vars => [Promise!DNext]_(Promise!deliveryVars)
<1> SUFFICES ASSUME IInv, Kept, [Next]_vars
             PROVE  [Promise!DNext]_(Promise!deliveryVars)
  OBVIOUS
<1>t. TypeOK /\ Captures
  BY DEF IInv
<1>1. ASSUME NEW a \in Account, DrainStep(a)
      PROVE  [Promise!DNext]_(Promise!deliveryVars)
  <2>1. /\ UNCHANGED <<phase, saved, stored, used>>
        /\ Quietly(a) \/ BeginsTransfer(a) \/ BeginsAckWait(a)
    BY <1>t, <1>1, DrainStepMoves DEF lifeVars, storeVars
  <2>2. CASE Quietly(a)
    BY <2>1, <2>2, OrdinaryPromise DEF Quietly, Ordinary
  <2>3. CASE BeginsTransfer(a)
    BY <2>1, <2>3
    DEF BeginsTransfer, queueVars, Promise!deliveryVars, TextQueued,
        TextSettled, TextSaved
  <2>4. CASE BeginsAckWait(a)
    <3>1. PICK m \in Msg, retry \in 0..MaxRetry :
            /\ Holds(a, m)
            /\ Put(m, [acct |-> a, retry |-> retry, due |-> TRUE])
      BY <2>4 DEF BeginsAckWait
    <3>2. [acct |-> a, retry |-> retry, due |-> TRUE] \in Entry
      BY DEF Entry
    <3>3. Change(m)
      BY <3>1, <3>2 DEF Change
    <3> QED
      BY <2>1, <3>1, <3>3, HoldsKnown, ChangePromise
  <2> QED
    BY <2>1, <2>2, <2>3, <2>4
<1>2. ASSUME \/ TimerFires
             \/ \E a \in Account : FlushThrows(a) \/ ClientSeen(a) \/ LinkDecays(a)
             \/ \E m \in Msg : BecomesDue(m) \/ Answer(m)
      PROVE  [Promise!DNext]_(Promise!deliveryVars)
  BY <1>t, <1>2, EnvironmentMoves, OrdinaryPromise
<1>3. ASSUME NEW m \in Msg, NEW a \in Account, Enqueue(m, a)
      PROVE  [Promise!DNext]_(Promise!deliveryVars)
  BY <1>3, EnqueuePromise
<1>4. CASE SaveFires \/ Restart
  BY <1>4, RestartPromise
<1>6. ASSUME NEW m \in Msg, Purge(m)
      PROVE  [Promise!DNext]_(Promise!deliveryVars)
  BY <1>6, PurgePromise
<1>5. CASE UNCHANGED vars
  BY <1>5
  DEF vars, queueVars, storeVars, lifeVars, Promise!deliveryVars, TextQueued,
      TextSettled, TextSaved
<1> QED
  BY <1>1, <1>2, <1>3, <1>4, <1>5, <1>6 DEF Next

(* For text messages the queue with its drains, waiters, timers, NACKs and *)
(* restarts implements Delivery: pushing and retrying are invisible, a     *)
(* settlement is final unless a crash or a stop kept it from the disk, and *)
(* every start takes the queue from the disk.                              *)
THEOREM ImplementsDelivery == Spec => KeepsPromise
<1>1. Init => Promise!DInit
  BY DEF Init, Promise!DInit, TextQueued, TextSettled, TextSaved, Text
<1> QED
  BY <1>1, StepPromise, Inductive, KeptAlways, PTL DEF Spec, KeepsPromise, Promise!DSpec
=============================================================================
