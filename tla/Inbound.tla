------------------------------ MODULE Inbound ------------------------------
(***************************************************************************)
(* The way of a message from the client into the host: the window of       *)
(* repeated messages, the gate and the scene registry, then the detached   *)
(* run of commands and of the agent's turns, and the maintenance commands  *)
(* that delete scenes, host sessions and the client's gates while messages *)
(* keep coming.  Every message has a task; a task is suspended at each     *)
(* await and the others run on.                                            *)
(***************************************************************************)
EXTENDS Upkeep

CONSTANTS
  Task,       \* calls of handleInbound under way at a time
  Message,    \* records [key, copy, scene, from, admin, mention, cmd]
  Bounds      \* a sequence of scenarios: what there is at first, what may happen

ASSUME InboundAssumption ==
  /\ Task # {} /\ Task \subseteq Nat
  /\ \A m \in Message : /\ m.scene \in Scene /\ m.admin \in BOOLEAN
                        /\ m.cmd.scene \in Scene
                        /\ m.cmd.kind = "mode" => m.cmd.value \in Mode
                        /\ m.cmd.kind = "setting" => m.cmd.value \in {"none", "set"}

(* What there is at first was written before the first step, and its open  *)
(* scenes are known to the ghost.                                          *)
ASSUME ScenarioAssumption ==
  \A i \in DOMAIN Bounds : LET b == Bounds[i] IN
    /\ b.rows \in [Slot -> Row \cup {NoRow}] /\ b.sess \in [Agent \X Scene -> Session]
    /\ \A s \in Slot : b.rows[s].at <= 2
    /\ b.open \subseteq Scene
    /\ \A s \in Agent \X Scene : b.sess[s] # NoSession => b.sess[s].upd \in 1..2
    /\ \A s \in Slot : b.rows[s].status = "allowed" => s[2] \in b.open \/ Effective(s[2], b.rows[s]) = "pending"

VARIABLES
  rows,       \* sceneRegistry
  clock,      \* now(): every write is later than the ones before it
  old,        \* stamps up to here are quiet
  seen,       \* recentInbound: the keys seen within 90 s
  window,     \* how often the window of a key has run out
  sess,       \* the host's sessions of the chats
  art,        \* sessionRoutes, outbox and dead letters of a session: any
  hist,       \* conversationHistories and replay cache of a scene: any
  gate,       \* the client's gates
  late,       \* scenes whose gate the client may still clear although nobody waits
  elevated,   \* pendingNativeElevation
  task,       \* the calls under way
  left,       \* what may still happen
  ghost       \* who was let in, by whom, and which scenes are open
vars == <<rows, clock, old, seen, window, sess, art, hist, gate, late, elevated, task, left, ghost>>

dedupe == <<seen, window>>
store == <<sess, art, hist>>
client == <<gate, late, elevated>>

Own == Agent \X Scene
Keys == {m.key : m \in Message}
NoMessage == [key |-> "none"]
Idle == [pc |-> "idle", m |-> NoMessage, agent |-> "none", answer |-> "none", win |-> 0, old |-> 0,
         look |-> [s \in Slot |-> NoLook], todo |-> {}, row |-> <<>>, gone |-> {},
         woken |-> {}, dirty |-> {}]
Pcs == {"idle", "gate", "admitted", "native", "prepared", "queued", "turn", "reading", "command",
        "inspecting", "loop", "deleting", "deleted", "purging", "dropping", "clearing", "sweep",
        "sweeping", "listed", "resetting", "reply"}

(* At most one task starts at a time on a free place.                      *)
Free(t) == task[t].pc = "idle" /\ \A u \in Task : u < t => task[u].pc # "idle"
Spend(f) == left[f] > 0 /\ left' = [left EXCEPT ![f] = @ - 1]
Tick == clock' = clock + 1
Stamp == clock + 1

(* Task t becomes r; what the step wrote is news to the tasks that looked. *)
News(r, wrote, touched) ==
  LET looked == {s \in Slot : r.look[s] # NoLook} IN
  [r EXCEPT !.woken = @ \cup (wrote \cap looked), !.dirty = @ \cup (touched \cap looked)]
WroteRows == {s \in Slot : rows'[s] # rows[s]}
WroteSess == {s \in Own : sess'[s] # sess[s]}
Becomes(t, r) ==
  task' = [u \in Task |-> IF u = t THEN r ELSE News(task[u], WroteRows, WroteSess)]
Others == task' = [u \in Task |-> News(task[u], WroteRows, WroteSess)]
At(t, pc) == [task[t] EXCEPT !.pc = pc]

(* A write of a session: a real interaction or an administrative one.      *)
Existing(s) == IF sess[s] = NoSession THEN [NoSession EXCEPT !.id = Stamp] ELSE sess[s]
Recorded(s) == [sess EXCEPT ![s] = [Existing(s) EXCEPT !.upd = Stamp]]
Interacted(s) == [sess EXCEPT ![s] = [Existing(s) EXCEPT !.upd = Stamp, !.act = Stamp]]
Mine(t) == Key(task[t].agent, task[t].m.scene)
Cmd(t) == task[t].m.cmd

(* Of the scenes an administrator opened, those that have an allowed row.  *)
StillOpen(r, open) == {x \in open : \E o \in Owner : r[<<o, x>>].status = "allowed"}

Init ==
  /\ \E i \in DOMAIN Bounds :
       /\ left = Bounds[i].left /\ rows = Bounds[i].rows /\ sess = Bounds[i].sess
       /\ ghost = [sent |-> {}, open |-> Bounds[i].open, admins |-> {}]
  /\ clock = 2 /\ old = 0
  /\ seen = [k \in Keys |-> FALSE] /\ window = [k \in Keys |-> 0]
  /\ art = [s \in Own |-> sess[s] # NoSession] /\ hist = [x \in Scene |-> FALSE]
  /\ gate = [x \in Scene |-> NoGate] /\ late = {} /\ elevated = {}
  /\ task = [t \in Task |-> Idle]

-----------------------------------------------------------------------------
(* Acceptance.                                                             *)

(* Mutant of Receive: a message is not marked before the gate.             *)
ReceiveUnmarked(t, m) ==
  /\ Free(t) /\ m \in left.msgs
  /\ left' = [left EXCEPT !.msgs = @ \ {m}]
  /\ task' = [task EXCEPT ![t] = [Idle EXCEPT !.pc = "gate", !.m = m, !.win = window[m.key]]]
  /\ UNCHANGED <<rows, clock, old, dedupe, store, client, ghost>>

(* handleInbound up to the gate: the message is marked as seen, and one    *)
(* that was marked within 90 s is answered as a duplicate.                 *)
Receive(t, m) ==
  /\ Free(t) /\ m \in left.msgs
  /\ left' = [left EXCEPT !.msgs = @ \ {m}]
  /\ seen' = [seen EXCEPT ![m.key] = TRUE]
  /\ IF seen[m.key] THEN UNCHANGED task
     ELSE task' = [task EXCEPT ![t] = [Idle EXCEPT !.pc = "gate", !.m = m, !.win = window[m.key]]]
  /\ UNCHANGED <<rows, clock, old, window, store, client, ghost>>

(* The gate refuses: the account is disabled, the client too old.          *)
Refuse(t) ==
  /\ task[t].pc = "gate" /\ left.refuse
  /\ task' = [task EXCEPT ![t] = Idle]
  /\ UNCHANGED <<rows, clock, old, dedupe, store, client, left, ghost>>

(* A native command of the host: any of an administrator, or one of a      *)
(* short list that everybody may give in a private chat.                   *)
Whitelisted(m) == ~m.admin /\ m.scene \in Direct
IsNative(m) == m.cmd.kind = "native" /\ (m.admin \/ Whitelisted(m))

Answer(m, mode) ==
  IF Answered(m.scene, mode, m.admin, m.mention, IsNative(m)) THEN "reply"
  ELSE IF Accumulated(m.scene, mode, m.admin, m.mention, IsNative(m)) THEN "context"
  ELSE "record"

(* The agent the host routes to, or the one that has the scene's row.      *)
Proposed(m) == Servers(rows, m.scene, RouteAgent[m.scene])

(* The registry decides; the answer goes out and the run is detached.      *)
Admit(t) ==
  /\ task[t].pc = "gate"
  /\ LET m == task[t].m IN
     \E a \in Proposed(m) : \E d \in Decisions(rows, m.scene, m.admin, a, Stamp) :
       LET in == d.row.status = "allowed"
           shut == \A o \in Found(rows, m.scene, a) : rows[<<o, m.scene>>].status # "allowed"
           open == ghost.open \cup (IF m.admin /\ in /\ shut THEN {m.scene} ELSE {})
           sent == [key |-> m.key, win |-> task[t].win, copy |-> m.copy, admin |-> m.admin,
                    open |-> m.scene \in open]
       IN /\ rows' = d.rows /\ UNCHANGED sess
          /\ ghost' = [ghost EXCEPT !.open = StillOpen(d.rows, open),
                                    !.sent = IF in THEN @ \cup {sent} ELSE @]
          /\ Becomes(t, IF in THEN [task[t] EXCEPT !.pc = "admitted", !.agent = d.agent,
                                                   !.answer = Answer(m, d.row.mode)]
                        ELSE Idle)
  /\ Tick
  /\ UNCHANGED <<old, dedupe, art, hist, client, left>>

-----------------------------------------------------------------------------
(* The detached run: native commands and turns of the agent.               *)

Remember(t) == art' = [art EXCEPT ![Mine(t)] = TRUE]

(* Anything like /stop but not exactly that is answered at once.           *)
RejectStop(t) ==
  /\ task[t].pc = "admitted" /\ Cmd(t).kind = "stopnow"
  /\ Remember(t) /\ task' = [task EXCEPT ![t] = Idle]
  /\ UNCHANGED <<rows, clock, old, dedupe, sess, hist, client, left, ghost>>

(* The sender counts as an owner until the command is over.                *)
RunNative(t) ==
  /\ task[t].pc = "admitted" /\ IsNative(task[t].m)
  /\ Remember(t) /\ sess' = Recorded(Mine(t)) /\ Tick
  /\ elevated' = elevated \cup {task[t].m.from}
  /\ ghost' = [ghost EXCEPT !.admins = IF task[t].m.admin THEN @ \cup {task[t].m.from} ELSE @]
  /\ UNCHANGED <<rows, old, dedupe, hist, gate, late, left>>
  /\ Becomes(t, At(t, "native"))

(* Without a payload an administrator's command goes on to the agent.      *)
NativeEnds(t) ==
  /\ task[t].pc = "native"
  /\ elevated' = IF task[t].m.admin THEN elevated ELSE elevated \ {task[t].m.from}
  /\ \E responded \in BOOLEAN :
       task' = [task EXCEPT ![t] = IF responded \/ ~task[t].m.admin THEN Idle ELSE At(t, "prepared")]
  /\ Remember(t)
  /\ UNCHANGED <<rows, clock, old, dedupe, sess, hist, gate, late, left, ghost>>

RunChat(t) ==
  /\ task[t].pc = "admitted"
  /\ Cmd(t).kind \in {"chat", "stop"} \/ (Cmd(t).kind = "native" /\ ~IsNative(task[t].m))
  /\ Remember(t) /\ task' = [task EXCEPT ![t] = At(t, "prepared")]
  /\ UNCHANGED <<rows, clock, old, dedupe, sess, hist, client, left, ghost>>

(* What is not answered is recorded, in some modes as context too.         *)
OnlyRecord(t) ==
  /\ task[t].pc = "prepared" /\ task[t].answer # "reply"
  /\ sess' = Recorded(Mine(t)) /\ Tick
  /\ hist' = [hist EXCEPT ![task[t].m.scene] = @ \/ task[t].answer = "context"]
  /\ UNCHANGED <<rows, old, dedupe, art, client, left, ghost>>
  /\ Becomes(t, Idle)

(* A stop overtakes the turn that runs in its session.                     *)
Queue(t) ==
  /\ task[t].pc = "prepared" /\ task[t].answer = "reply"
  /\ IF Cmd(t).kind = "stop"
     THEN UNCHANGED hist /\ task' = [task EXCEPT ![t] = At(t, "turn")]
     ELSE /\ hist' = [hist EXCEPT ![task[t].m.scene] = TRUE]
          /\ task' = [task EXCEPT ![t] = At(t, "queued")]
  /\ UNCHANGED <<rows, clock, old, dedupe, sess, art, client, left, ghost>>

Behind(t) == \E u \in Task : task[u].pc = "turn" /\ Cmd(u).kind # "stop" /\ Mine(u) = Mine(t)
TurnBegins(t) ==
  /\ task[t].pc = "queued" /\ ~Behind(t)
  /\ sess' = Interacted(Mine(t)) /\ Tick
  /\ UNCHANGED <<rows, old, dedupe, art, hist, client, left, ghost>>
  /\ Becomes(t, At(t, "turn"))

TurnEnds(t) ==
  /\ task[t].pc = "turn"
  /\ sess' = Recorded(Mine(t)) /\ Tick /\ Remember(t)
  /\ UNCHANGED <<rows, old, dedupe, hist, client, left, ghost>>
  /\ Becomes(t, Idle)

-----------------------------------------------------------------------------
(* Commands of the channel itself.                                         *)

Local == SceneCommands \cup {"prune", "pruneAll", "pruneState", "sweep", "reset"}
RunLocal(t) ==
  /\ task[t].pc = "admitted" /\ Cmd(t).kind \in Local
  /\ Remember(t) /\ task' = [task EXCEPT ![t] = At(t, "reading")]
  /\ UNCHANGED <<rows, clock, old, dedupe, sess, hist, client, left, ghost>>

(* Before a command the rows of other processes' agents are merged in.     *)
Refresh(t) ==
  /\ task[t].pc = "reading"
  /\ \/ UNCHANGED <<rows, clock, left, ghost>>
     \/ /\ Spend("merges") /\ Tick
        /\ \E s \in Own, status \in {"allowed", "denied"} :
             /\ rows' = [rows EXCEPT ![s] = FreshRow(s[2], status, Stamp)]
             /\ ghost' = [ghost EXCEPT !.open =
                  StillOpen(rows', IF status = "allowed" THEN @ \cup {s[2]} ELSE @)]
  /\ UNCHANGED <<old, dedupe, store, client>>
  /\ Becomes(t, At(t, "command"))

SceneCommand(t) ==
  /\ task[t].pc = "command" /\ Cmd(t).kind \in SceneCommands
  /\ LET m == task[t].m IN
     \E a \in Servers(rows, m.scene, task[t].agent) :
     \E r \in Commanded(rows, m.cmd, [admin |-> m.admin, scene |-> m.scene, agent |-> a], Stamp) :
       /\ rows' = r
       /\ ghost' = [ghost EXCEPT !.open = StillOpen(r,
            IF m.cmd.kind = "allow" /\ r # rows THEN @ \cup {m.cmd.scene} ELSE @)]
  /\ Tick /\ UNCHANGED <<old, dedupe, store, client, left>>
  /\ Becomes(t, At(t, "reply"))

(* Maintenance is for administrators, /new and /reset in groups too.       *)
NotAllowed(t) ==
  /\ task[t].pc = "command" /\ Cmd(t).kind \notin SceneCommands /\ ~task[t].m.admin
  /\ Cmd(t).kind = "reset" => task[t].m.scene \notin Direct
  /\ task' = [task EXCEPT ![t] = At(t, "reply")]
  /\ UNCHANGED <<rows, clock, old, dedupe, store, client, left, ghost>>

(* The session belongs to another plugin: that is all the sender learns.   *)
Resets(t) ==
  task[t].pc = "command" /\ Cmd(t).kind = "reset" /\ (task[t].m.admin \/ task[t].m.scene \in Direct)
ResetRefused(t) ==
  /\ Resets(t) /\ sess[Mine(t)] # NoSession
  /\ Remember(t) /\ task' = [task EXCEPT ![t] = Idle]
  /\ UNCHANGED <<rows, clock, old, dedupe, sess, hist, client, left, ghost>>

(* The session is recorded, then the host puts a new one in its place, or  *)
(* does not: it rejects the call, or fails.                                *)
Reset(t) ==
  /\ Resets(t)
  /\ sess' = Recorded(Mine(t)) /\ Tick
  /\ UNCHANGED <<rows, old, dedupe, art, hist, client, left, ghost>>
  /\ Becomes(t, At(t, "resetting"))
Renewed(s) == [sess EXCEPT ![s] = [NoSession EXCEPT !.id = Stamp, !.upd = Stamp]]
ResetEnds(t) ==
  /\ task[t].pc = "resetting" /\ Remember(t) /\ Tick
  /\ sess' \in {sess, Renewed(Mine(t))}
  /\ UNCHANGED <<rows, old, dedupe, hist, client, left, ghost>>
  /\ Becomes(t, Idle)

(* The command's session and route are recorded and the answer queued.     *)
Reply(t) ==
  /\ task[t].pc = "reply" /\ Remember(t)
  /\ sess' = Recorded(Mine(t)) /\ Tick
  /\ UNCHANGED <<rows, old, dedupe, hist, client, left, ghost>>
  /\ Becomes(t, Idle)

-----------------------------------------------------------------------------
(* /bncr prune: one scene, or every row that has been quiet for long.      *)

Inspect(t) ==
  /\ task[t].pc = "command" /\ Cmd(t).kind \in {"prune", "pruneAll"} /\ task[t].m.admin
  /\ LET targets == IF Cmd(t).kind = "prune" THEN Targets(rows, Cmd(t))
                    ELSE {s \in Slot : rows[s] # NoRow}
     IN task' = [task EXCEPT ![t] =
          IF targets = {} THEN At(t, "reply")
          ELSE [task[t] EXCEPT !.pc = "inspecting", !.old = old,
                  !.look = [s \in Slot |-> IF s \in targets THEN Glance(rows[s]) ELSE NoLook],
                  !.todo = {s \in targets : Owned(s)}]]
  /\ UNCHANGED <<rows, clock, old, dedupe, store, client, left, ghost>>

(* The list of an agent without sessions cannot be told from one that      *)
(* could not be read, and leaves it to the clock.                          *)
ReadSession(t, s) ==
  /\ task[t].pc = "inspecting" /\ s \in task[t].todo
  /\ LET l == task[t].look[s]
         none == \A x \in Scene : sess[<<s[1], x>>] = NoSession
     IN \E read \in {ByIndex(l, sess[s]), ByClock(l, sess[s]), Unreadable(l)} :
          /\ \/ read = ByIndex(l, sess[s]) /\ UNCHANGED left
             \/ read = ByClock(l, sess[s]) /\ none /\ UNCHANGED left
             \/ read # ByIndex(l, sess[s]) /\ Spend("fails")
          /\ task' = [task EXCEPT ![t].look[s] = read, ![t].todo = @ \ {s}, ![t].dirty = @ \ {s}]
  /\ UNCHANGED <<rows, clock, old, dedupe, store, client, ghost>>

Judge(t) ==
  /\ task[t].pc = "inspecting" /\ task[t].todo = {}
  /\ LET verdict == IF Cmd(t).kind = "prune" THEN Chosen(task[t].look, Cmd(t), task[t].old)
                    ELSE Candidates(task[t].look, Cmd(t), task[t].old)
     IN task' = [task EXCEPT ![t].pc = IF verdict = {} THEN "reply" ELSE "loop", ![t].todo = verdict]
  /\ UNCHANGED <<rows, clock, old, dedupe, store, client, left, ghost>>

(* One row is over and done with, deleted or left alone.                   *)
Done(t, s, pc) ==
  [task[t] EXCEPT !.pc = pc, !.todo = @ \ {s}, !.row = <<>>, !.look[s] = NoLook,
                  !.woken = @ \ {s}, !.dirty = @ \ {s}]
Matches(t, s) == StillMatches(rows, s, task[t].look[s])

Pick(t) ==
  /\ task[t].pc = "loop"
  /\ \E s \in IF Cmd(t).kind = "prune" THEN task[t].todo ELSE Oldest(task[t].look, task[t].todo) :
       task' = [task EXCEPT ![t] = IF Matches(t, s) THEN [task[t] EXCEPT !.pc = "deleting", !.row = s]
                                   ELSE Done(t, s, "loop")]
  /\ UNCHANGED <<rows, clock, old, dedupe, store, client, left, ghost>>

(* The session goes first.  The host may refuse, or fail.                  *)
DeleteSession(t) ==
  LET s == task[t].row
      l == task[t].look[s]
      ok == sess[s] # NoSession /\ Expected(sess[s], l)
  IN /\ task[t].pc = "deleting"
     /\ UNCHANGED <<rows, clock, old, dedupe, art, hist, client, ghost>>
     /\ \/ /\ ~NeedsDelete(s, l)
           /\ UNCHANGED <<sess, left>> /\ Becomes(t, At(t, "deleted"))
        \/ /\ NeedsDelete(s, l) /\ UNCHANGED left
           /\ sess' = IF ok THEN [sess EXCEPT ![s] = NoSession] ELSE sess
           /\ Becomes(t, IF ok THEN At(t, "deleted") ELSE Done(t, s, "loop"))
        \/ /\ NeedsDelete(s, l) /\ Spend("fails") /\ UNCHANGED sess
           /\ Becomes(t, Done(t, s, "loop"))

Purge(t) ==
  /\ task[t].pc = "deleted"
  /\ task' = [task EXCEPT ![t] = IF Matches(t, task[t].row) THEN At(t, "purging")
                                 ELSE Done(t, task[t].row, "loop")]
  /\ UNCHANGED <<rows, clock, old, dedupe, store, client, left, ghost>>

(* Routes, queue and history of the row: if it still matches when the      *)
(* database is written.  A failure does not keep the row.                  *)
PurgeEnds(t) ==
  /\ task[t].pc = "purging"
  /\ \/ /\ Matches(t, task[t].row) /\ UNCHANGED left
        /\ art' = [s \in Own |-> art[s] /\ s \notin Artifacts(task[t].row)]
        /\ hist' = [hist EXCEPT ![task[t].row[2]] = FALSE]
     \/ ~Matches(t, task[t].row) /\ UNCHANGED <<art, hist, left>>
     \/ Spend("fails") /\ UNCHANGED <<art, hist>>
  /\ task' = [task EXCEPT ![t] = At(t, "dropping")]
  /\ UNCHANGED <<rows, clock, old, dedupe, sess, client, ghost>>

(* The delete looks the row up again: the one judged, unless that one has  *)
(* no owner and a newer row of its scene has.                              *)
Drop(t) ==
  LET s == task[t].row IN
  /\ task[t].pc = "dropping" /\ UNCHANGED sess
  /\ IF Matches(t, s)
     THEN /\ rows' \in DeleteRow(rows, s[2], s[1])
          /\ Becomes(t, [Done(t, s, "loop") EXCEPT !.gone = @ \cup {s[2]}])
          /\ ghost' = [ghost EXCEPT !.open = StillOpen(rows', @)]
     ELSE UNCHANGED <<rows, ghost>> /\ Becomes(t, Done(t, s, "loop"))
  /\ UNCHANGED <<clock, old, dedupe, art, hist, client, left>>

(* The client is asked to clear the gates of scenes that have no row left. *)
AskToClear(t) ==
  /\ task[t].pc = "loop" /\ task[t].todo = {}
  /\ LET clear == Vacant(rows, task[t].gone) IN
     task' = [task EXCEPT ![t].pc = IF clear = {} THEN "reply" ELSE "clearing", ![t].gone = clear]
  /\ UNCHANGED <<rows, clock, old, dedupe, store, client, left, ghost>>

(* The client clears and answers, or the call fails: no connection, no     *)
(* answer in time, a stop.  The request may have reached the client.       *)
Cleared(scenes) == [x \in Scene |-> IF x \in scenes THEN NoGate ELSE gate[x]]
ClientAnswers(t) ==
  /\ task[t].pc = "clearing"
  /\ gate' = Cleared(task[t].gone)
  /\ task' = [task EXCEPT ![t].pc = "reply", ![t].gone = {}]
  /\ UNCHANGED <<rows, clock, old, dedupe, store, elevated, late, left, ghost>>
CallFails(t) ==
  /\ task[t].pc \in {"clearing", "listed"} /\ Spend("fails")
  /\ late' \in {late, late \cup task[t].gone}
  /\ task' = [task EXCEPT ![t].pc = "reply", ![t].gone = {}]
  /\ UNCHANGED <<rows, clock, old, dedupe, store, gate, elevated, ghost>>
ClientIsLate ==
  /\ late # {} /\ gate' = Cleared(late) /\ late' = {}
  /\ UNCHANGED <<rows, clock, old, dedupe, store, elevated, task, left, ghost>>

-----------------------------------------------------------------------------
(* /bncr prune state: the gate of a scene that has no row.                 *)

AskForGates(t) ==
  /\ task[t].pc = "command" /\ Cmd(t).kind = "pruneState" /\ task[t].m.admin
  /\ task' = [task EXCEPT ![t].pc = IF Owners(rows, Cmd(t).scene) = {} THEN "listed" ELSE "reply"]
  /\ UNCHANGED <<rows, clock, old, dedupe, store, client, left, ghost>>

(* A gate that was opened lately needs force; a row that has appeared      *)
(* since the question was put ends the command.                            *)
JudgeGate(t) ==
  /\ task[t].pc = "listed"
  /\ LET x == Cmd(t).scene
         go == gate[x] # NoGate /\ (Leftover(gate[x], old) \/ Cmd(t).force) /\ Owners(rows, x) = {}
     IN task' = [task EXCEPT ![t].pc = IF go THEN "clearing" ELSE "reply",
                             ![t].gone = IF go THEN {x} ELSE {}]
  /\ UNCHANGED <<rows, clock, old, dedupe, store, client, left, ghost>>

-----------------------------------------------------------------------------
(* /bncr sessions prune: host sessions of any chat, with or without a row. *)

ListSessions(t) ==
  /\ task[t].pc = "command" /\ Cmd(t).kind = "sweep" /\ task[t].m.admin
  /\ \E agents \in SUBSET Agent :
       /\ IF agents = Agent THEN UNCHANGED left ELSE Spend("fails")
       /\ LET quiet == QuietSessions(sess, agents, old) IN
          task' = [task EXCEPT ![t].pc = IF quiet = {} THEN "reply" ELSE "sweep",
                               ![t].todo = quiet, ![t].old = old]
  /\ UNCHANGED <<rows, clock, old, dedupe, store, client, ghost>>

(* Each is read again right before it is deleted.                          *)
ReadAgain(t, s) ==
  /\ task[t].pc = "sweep" /\ s \in task[t].todo
  /\ LET spare == sess[s] = NoSession \/ Latest(sess[s].upd, sess[s].act) > task[t].old
         fresh == [task[t] EXCEPT !.pc = "sweeping", !.row = s, !.dirty = @ \ {s},
                                  !.look[s] = ByIndex(NoLook, sess[s])]
     IN \/ task' = [task EXCEPT ![t] = IF spare THEN Done(t, s, "sweep") ELSE fresh] /\ UNCHANGED left
        \/ task' = [task EXCEPT ![t] = Done(t, s, "sweep")] /\ Spend("fails")
  /\ UNCHANGED <<rows, clock, old, dedupe, store, client, ghost>>
SweepSession(t) ==
  LET s == task[t].row
      ok == sess[s] # NoSession /\ Expected(sess[s], task[t].look[s])
  IN /\ task[t].pc = "sweeping"
     /\ \/ sess' = (IF ok THEN [sess EXCEPT ![s] = NoSession] ELSE sess) /\ UNCHANGED left
        \/ UNCHANGED sess /\ Spend("fails")
     /\ UNCHANGED <<rows, clock, old, dedupe, art, hist, client, ghost>>
     /\ Becomes(t, Done(t, s, "sweep"))
SweepEnds(t) ==
  /\ task[t].pc = "sweep" /\ task[t].todo = {}
  /\ task' = [task EXCEPT ![t] = At(t, "reply")]
  /\ UNCHANGED <<rows, clock, old, dedupe, store, client, left, ghost>>

-----------------------------------------------------------------------------
(* The world around: the clock, the host's own interface, the client.      *)

TimePasses ==
  /\ Spend("ages") /\ old' = clock
  /\ seen' = [k \in Keys |-> FALSE]
  /\ window' = [k \in Keys |-> window[k] + (IF seen[k] THEN 1 ELSE 0)]
  /\ UNCHANGED <<rows, clock, store, client, task, ghost>>

WindowEnds(k) ==
  /\ seen[k] /\ Spend("expires")
  /\ seen' = [seen EXCEPT ![k] = FALSE] /\ window' = [window EXCEPT ![k] = @ + 1]
  /\ UNCHANGED <<rows, clock, old, store, client, task, ghost>>

(* Somebody uses, archives or deletes a session in the host's interface.   *)
HostActs(s) ==
  /\ sess[s] # NoSession /\ Spend("host") /\ Tick
  /\ sess' \in {Interacted(s), [Recorded(s) EXCEPT ![s].archived = ~@], [sess EXCEPT ![s] = NoSession]}
  /\ UNCHANGED <<rows, old, dedupe, art, hist, client, ghost>>
  /\ Others

GateOpens(x) ==
  /\ Spend("gates") /\ Tick
  /\ gate' = [gate EXCEPT ![x] = [on |-> TRUE, rev |-> Stamp]]
  /\ UNCHANGED <<rows, old, dedupe, store, elevated, late, task, ghost>>

TaskSteps(t) ==
  \/ \E m \in Message : Receive(t, m)
  \/ Refuse(t) \/ Admit(t) \/ RejectStop(t) \/ RunNative(t) \/ NativeEnds(t) \/ RunChat(t)
  \/ OnlyRecord(t) \/ Queue(t) \/ TurnBegins(t) \/ TurnEnds(t)
  \/ RunLocal(t) \/ Refresh(t) \/ SceneCommand(t) \/ NotAllowed(t) \/ ResetRefused(t) \/ Reset(t)
  \/ ResetEnds(t)
  \/ Reply(t) \/ Inspect(t) \/ Judge(t) \/ Pick(t) \/ DeleteSession(t) \/ Purge(t) \/ PurgeEnds(t)
  \/ Drop(t) \/ AskToClear(t) \/ ClientAnswers(t) \/ CallFails(t) \/ AskForGates(t) \/ JudgeGate(t)
  \/ ListSessions(t) \/ SweepSession(t) \/ SweepEnds(t)
  \/ \E s \in Own : ReadSession(t, s) \/ ReadAgain(t, s)

Next ==
  \/ \E t \in Task : TaskSteps(t)
  \/ ClientIsLate \/ TimePasses
  \/ \E k \in Keys : WindowEnds(k)
  \/ \E s \in Own : HostActs(s)
  \/ \E x \in Scene : GateOpens(x)

Spec == Init /\ [][Next]_vars

-----------------------------------------------------------------------------
(* Types of the variables that the code keeps.                             *)
TypeOK ==
  /\ rows \in [Slot -> Row \cup {NoRow}]
  /\ sess \in [Own -> Session] /\ art \in [Own -> BOOLEAN] /\ hist \in [Scene -> BOOLEAN]
  /\ gate \in [Scene -> Gate] /\ late \subseteq Scene /\ seen \in [Keys -> BOOLEAN] /\ window \in [Keys -> Nat]
  /\ elevated \subseteq {m.from : m \in Message}
  /\ \A t \in Task : /\ task[t].pc \in Pcs /\ task[t].look \in [Slot -> Look]
                     /\ task[t].todo \subseteq Slot /\ task[t].gone \subseteq Scene

(* While its window lasts a message is handed on at most once, however     *)
(* often the client repeats it and however the copies overtake each other  *)
(* between the mark and the decision (inbound-acceptance, the await of the *)
(* gate).                                                                  *)
DispatchedOnce ==
  \A a, b \in ghost.sent : a.key = b.key /\ a.win = b.win => a.copy = b.copy

(* A message of somebody who is not an administrator is handed on only in  *)
(* a scene that an administrator opened and none has closed since, and     *)
(* such a sender counts as an owner only while a native command of theirs  *)
(* runs (scene-registry, the elevation of commands.ts).                    *)
Authorised ==
  /\ \A a \in ghost.sent : a.admin \/ a.open
  /\ \A p \in elevated \ ghost.admins : \E t \in Task : task[t].pc = "native" /\ task[t].m.from = p

(* A prune goes through with a row only if nobody has written it since it  *)
(* was inspected: it then deletes the routes, queue and history under it,  *)
(* and the row itself and no other, if that has an owner.  For a row       *)
(* without owner the code deletes the newest row of its scene instead,     *)
(* which may be another agent's and just written: those are the only rows  *)
(* a prune ever deletes unjudged.  And it never asks the client to clear   *)
(* the gate of a scene that has a row (stale-scenes-command, the checks    *)
(* after every await; deleteSceneRecord).                                  *)
AwakeSpared == [][\A t \in Task :
  LET r == task[t] IN
  /\ r.pc = "dropping" /\ rows' # rows /\ task'[t].pc = "loop" =>
       /\ r.row \notin r.woken
       /\ \A s \in WroteRows :
            s = r.row \/ (~Owned(r.row) /\ s[2] = r.row[2] /\ s[1] \in Newest(rows, s[2]))
  /\ r.pc = "purging" /\ <<art, hist>>' # <<art, hist>> /\ task'[t].pc = "dropping" =>
       r.row \notin r.woken
  /\ r.pc # "clearing" /\ task'[t].pc = "clearing" =>
       \A x \in task'[t].gone : Owners(rows, x) = {}]_vars

(* Neither a prune nor a sweep deletes a session of the host that was      *)
(* written between the reading the verdict rests on and the delete, unless *)
(* the operator forced it without anything being known of the session      *)
(* (sessionDeleteExpectation, pruneBatch).                                 *)
SessionSpared == [][\A t \in Task :
  LET r == task[t] IN
  r.pc \in {"deleting", "sweeping"} /\ task'[t].pc # r.pc /\ sess' # sess /\ Guarded(r.look[r.row]) =>
    r.row \notin r.dirty]_vars
=============================================================================
