---------------------------- MODULE StateStore ----------------------------
(***************************************************************************)
(* What a bridge keeps on disk and how it gets there: the SQLite database  *)
(* and the JSON file of one state directory, which every agent process of  *)
(* the host shares, the memory of each bridge, the life of the database    *)
(* handle of each bridge (its generation), the load, the flush in its two  *)
(* halves (a synchronous write to SQLite, an awaited write of the JSON     *)
(* file), the move to SQLite alone, snapshots and the recovery from one.   *)
(*                                                                         *)
(* The data are the outbound queue (a message is queued, dead or not       *)
(* there) and the scenes (one scene for each agent, identified by the time *)
(* it was last seen).  Service.tla gives the threads that call this store. *)
(***************************************************************************)
EXTENDS Naturals, FiniteSets, Sequences

CONSTANTS
  Bridge, Agent, Msg, Task,
  AgentOf,     \* AgentOf[b]: the agent that bridge b runs as
  MsgAgent,    \* MsgAgent[m]: the agent of the session of message m
  SnapKeep,    \* SQLITE_SNAPSHOT_RETENTION
  Bounds       \* records of bounds; a behaviour draws one

ASSUME StateStoreAssumption ==
  /\ AgentOf \in [Bridge -> Agent]
  /\ MsgAgent \in [Msg -> Agent]
  /\ SnapKeep \in Nat \ {0}

VARIABLES
  disk,     \* the state directory
  bridge,   \* bridge[b]: the memory and the database handle of bridge b
  task,     \* task[t]: one asynchronous call under way, or idle
  clock,    \* the time scenes are stamped with
  ghost,    \* what happened to each message, for the properties
  left      \* what is left of the bounds of this behaviour

storeVars == <<disk, bridge, task, clock, ghost>>

Empty == [m \in Msg |-> "no"]
NoScenes == [a \in Agent |-> 0]
Queued(q) == {m \in Msg : q[m] = "queued"}
Own(b) == {m \in Msg : MsgAgent[m] = AgentOf[b]}

(* A bridge object as its constructor leaves it.  db is the generation for *)
(* which the handle in use was opened, 0 without one.                      *)
FreshBridge ==
  [gen |-> 0, closed |-> FALSE, db |-> 0, path |-> FALSE,
   stopped |-> FALSE, started |-> FALSE, chan |-> FALSE, timer |-> FALSE,
   q |-> Empty, scenes |-> NoScenes, index |-> NoScenes, loaded |-> FALSE]

(* sgen is the store generation a start began, hold the handle the call    *)
(* opens or uses; data and scenes are the snapshot of a JSON file that is  *)
(* being written, newer the tasks that have taken a newer one since.       *)
NoTask == [kind |-> "idle", pc |-> "idle", b |-> 0, reg |-> 0, gen |-> 0, mode |-> "reuse",
           sgen |-> 0, hold |-> 0, data |-> Empty, scenes |-> NoScenes,
           newer |-> {}, stale |-> FALSE]

(* Task t goes on to `next`, or is over.                                   *)
Goes(rec, next) == IF next = "idle" THEN NoTask ELSE [rec EXCEPT !.pc = next]

(* Bound of the model: one unit of bound f is used up.                     *)
Spend(f) == left[f] > 0 /\ left' = [left EXCEPT ![f] = @ - 1]

-----------------------------------------------------------------------------
(* The database handle of a bridge.                                        *)

BeginLifecycle(s) == [s EXCEPT !.gen = @ + 1, !.closed = FALSE]

(* Mutant of CloseGeneration: the store is marked closed, its handle is    *)
(* kept.                                                                   *)
CloseMarked(s, g) == IF g # s.gen THEN s ELSE [s EXCEPT !.closed = TRUE]

(* closeSqliteLifecycle(g): a generation that is not current closes        *)
(* nothing.                                                                *)
CloseGeneration(s, g) ==
  IF g # s.gen THEN s ELSE [s EXCEPT !.closed = TRUE, !.db = 0]

(* closeSqliteLifecycle(): whatever is open, and whatever is being opened. *)
CloseAny(s) == [s EXCEPT !.gen = @ + 1, !.closed = TRUE, !.db = 0]

(* A database that was opened for generation g is used only if that is     *)
(* still the generation and nobody closed it; otherwise it is closed.      *)
Usable(s, g) == ~s.closed /\ s.gen = g

Newest(d) == Head(d.snaps)
Snapshot(d) == [mode |-> d.mode, rows |-> d.rows, scenes |-> d.scenes]

(* Opening checks the database; a damaged one gives way to the newest      *)
(* snapshot, and without one the opening fails.                            *)
Opens(d) == d.ok \/ d.snaps # <<>>
Recovered(d) ==
  IF d.ok THEN d
  ELSE [d EXCEPT !.mode = Newest(d).mode, !.rows = Newest(d).rows,
                 !.scenes = Newest(d).scenes, !.ok = TRUE]

(* Mutant of Rotated: old snapshots are never removed.                     *)
RotatedAll(d) == [d EXCEPT !.snaps = <<Snapshot(d)>> \o @]

(* Every opening publishes a snapshot and keeps the newest SnapKeep.       *)
Rotated(d) ==
  LET all == <<Snapshot(d)>> \o d.snaps IN
  [d EXCEPT !.snaps = SubSeq(all, 1, IF Len(all) < SnapKeep THEN Len(all)
                                                            ELSE SnapKeep)]

(* The directory after an await for the handle of bridge b.                *)
Opened(d, b) == IF bridge[b].db > 0 THEN d ELSE Rotated(Recovered(d))

Dual(d) == d.mode \in {"dual", "sqlite"}

-----------------------------------------------------------------------------
(* Saving to SQLite.                                                       *)

(* Mutant of ScopedRows: the rows of all agents are replaced.              *)
AllRows(rows, b, q) == q

(* replaceOutboundState: only the rows of the agent's own sessions are     *)
(* deleted, and only messages of its own sessions are inserted.            *)
ScopedRows(rows, b, q) ==
  [m \in Msg |-> IF m \in Own(b) THEN q[m] ELSE rows[m]]

(* The scenes that were loaded and are gone from memory were removed on    *)
(* purpose (collectRemovedSceneRecords).                                   *)
Removed(s) == {a \in Agent : s.index[a] > 0 /\ s.scenes[a] = 0}

(* Mutant of ScopedScenes: a removal deletes the row of another agent that *)
(* was seen again since it was loaded.                                     *)
RemovingScenes(rows, b, s) ==
  LET kept(a) == IF a = AgentOf[b] \/ a \in Removed(s) THEN 0 ELSE rows[a]
  IN [a \in Agent |-> IF s.scenes[a] > 0 /\ s.scenes[a] >= kept(a)
                      THEN s.scenes[a] ELSE kept(a)]

(* replaceControlState: the agent's own rows are deleted, removals delete  *)
(* a row that was not seen since it was loaded, and every scene in memory  *)
(* is written unless the row is newer.                                     *)
ScopedScenes(rows, b, s) ==
  LET kept(a) == IF a = AgentOf[b] THEN 0
                 ELSE IF a \in Removed(s) /\ rows[a] <= s.index[a] THEN 0
                 ELSE rows[a]
  IN [a \in Agent |-> IF s.scenes[a] > 0 /\ s.scenes[a] >= kept(a)
                      THEN s.scenes[a] ELSE kept(a)]

SavedToSqlite(d, b) ==
  [d EXCEPT !.rows = ScopedRows(@, b, bridge[b].q),
            !.scenes = ScopedScenes(@, b, bridge[b])]

(* The messages queued in the JSON file, or in a write of it under way.    *)
Written == Queued(disk.json) \cup UNION {Queued(task[t].data) : t \in Task}

(* What a save tells the properties: the messages whose end is now in the  *)
(* database, and the messages lost because nothing had been loaded yet.  A *)
(* load that is still to come may take an end back when a save stores it   *)
(* before the service runs.                                                *)
NoteSave(g, dual, b, kind) ==
  LET ends == {m \in Own(b) \cap g.ended : dual /\ bridge[b].loaded /\ bridge[b].q[m] # "queued"}
      early == {m \in (IF dual THEN Own(b) ELSE Msg) \cap (g.known \ g.ended) :
                  ~bridge[b].loaded /\ bridge[b].q[m] # "queued"}
      again == IF bridge[b].started \/ kind = "stop" THEN {}
               ELSE (ends \ g.endSaved) \cap Written
  IN [g EXCEPT !.endSaved = @ \cup ends, !.lost = @ \cup early, !.back = @ \cup again]

-----------------------------------------------------------------------------
(* Loading.                                                                *)

(* Mutant of Migrated: a file that is in the new place is replaced.        *)
MigratedAgain(d) ==
  IF Queued(d.legacy) = {} THEN d ELSE [d EXCEPT !.json = d.legacy, !.jsonAt = TRUE]

(* prepareBncrStateDirectory: a JSON file of the old place is copied when  *)
(* there is none in the new one.                                           *)
Migrated(d) ==
  IF d.jsonAt \/ Queued(d.legacy) = {} THEN d
  ELSE [d EXCEPT !.json = d.legacy, !.jsonAt = TRUE]

(* The JSON file is read unless the database says it is the only store.    *)
JsonRead(db, d) == IF db.mode = "sqlite" \/ ~d.jsonAt THEN Empty ELSE d.json

(* The next load of the directory finds message m in the queue.            *)
OnDisk(m) ==
  LET d == IF Opens(disk) THEN Recovered(disk) ELSE disk IN
  (Opens(disk) /\ d.rows[m] = "queued") \/ JsonRead(d, disk)[m] = "queued"

(* applySqliteOutboundState: the database decides on every message of this *)
(* agent it knows; all other messages of the JSON file are taken over.     *)
Merged(d, b, json) ==
  [m \in Msg |-> IF m \in Own(b) /\ d.rows[m] # "no" THEN d.rows[m] ELSE json[m]]

LoadedQueue(d, b, hasDb, json) ==
  IF hasDb /\ Dual(d) THEN Merged(d, b, json) ELSE json

LoadedScenes(d, hasDb) == IF hasDb /\ Dual(d) THEN d.scenes ELSE d.jscenes

(* The directory after a load: the first one imports everything (unscoped) *)
(* and turns mode dual on, a later one stores the merged queue.            *)
AfterLoad(d, b, q) ==
  IF Dual(d) THEN [d EXCEPT !.rows = ScopedRows(@, b, q)]
  ELSE [d EXCEPT !.mode = "dual", !.rows = q, !.scenes = d.jscenes]

LoadedBridge(s, d, hasDb, q) ==
  [s EXCEPT !.q = q, !.scenes = LoadedScenes(d, hasDb), !.index = LoadedScenes(d, hasDb),
            !.loaded = TRUE]

(* A load takes messages of other agents from the JSON file, and one that  *)
(* comes late, for a start that is over, replaces the memory of a bridge   *)
(* that may be running by now.                                             *)
NoteLoad(g, b, json, q, late) ==
  LET others == {m \in Queued(json) : m \notin Own(b)}
      again == {m \in g.endSaved \cap Queued(q) : late}
      dropped == {m \in Queued(bridge[b].q) \ Queued(q) : late}
  IN [g EXCEPT !.back = @ \cup others \cup again, !.lost = @ \cup dropped]

-----------------------------------------------------------------------------
(* The flush: flushState up to the write of the JSON file.                 *)

(* Thread t has its answer from resolveSqliteState.  It takes its snapshot *)
(* and writes SQLite in one step, and goes on to write the JSON file, or   *)
(* to `next` when there is none to write.                                  *)
Snapshots(t, rec, hasDb, d, next) ==
  LET b == rec.b
      dual == hasDb /\ Dual(d)
      saved == IF dual THEN SavedToSqlite(d, b) ELSE d
      writes == bridge[b].path /\ ~(hasDb /\ d.mode = "sqlite")
      writer == [rec EXCEPT !.pc = "fwrite", !.data = bridge[b].q, !.newer = {}, !.stale = FALSE,
                   !.scenes = IF dual THEN saved.scenes ELSE bridge[b].scenes]
  IN /\ disk' = saved
     /\ ghost' = IF dual \/ writes THEN NoteSave(ghost, dual, b, rec.kind) ELSE ghost
     /\ task' = [u \in Task |->
          CASE u = t -> IF writes THEN writer ELSE Goes(rec, next)
            [] u # t /\ task[u].pc = "fwrite" ->
                 IF writes THEN [task[u] EXCEPT !.newer = @ \cup {t}]
                 ELSE [task[u] EXCEPT !.stale = TRUE]
            [] OTHER -> task[u]]

(* flushState is called: with an open handle it goes straight on, without  *)
(* one it waits for the database to be opened.                             *)
CallsFlush(t, rec, s, next) ==
  IF s.db > 0 \/ s.closed \/ ~s.path
  THEN Snapshots(t, rec, s.db > 0, disk, next)
  ELSE /\ task' = [task EXCEPT ![t] = [rec EXCEPT !.pc = "fopen", !.hold = s.gen]]
       /\ UNCHANGED <<disk, ghost>>

(* Calls that wait for the same opening of the database.                   *)
SameOpening(t, u) ==
  u # t /\ task[u].pc \in {"open", "fopen"} /\ task[u].b = task[t].b /\ task[u].hold = task[t].hold

(* The handle a flush waited for is there, or is not to be used any more.  *)
(* Calls that waited for the same opening are resumed in their order, and  *)
(* a stop was the last to wait.                                            *)
FlushOpens(t, next) ==
  LET b == task[t].b
      usable == Usable(bridge[b], task[t].hold)
  IN /\ task[t].pc = "fopen"
     /\ task[t].kind = "stop" => \A u \in Task : ~SameOpening(t, u)
     /\ usable => bridge[b].db > 0 \/ Opens(disk)
     /\ bridge' = IF usable THEN [bridge EXCEPT ![b].db = task[t].hold] ELSE bridge
     /\ Snapshots(t, task[t], usable, IF usable THEN Opened(disk, b) ELSE disk, next)
     /\ UNCHANGED <<clock, left>>

(* Call t goes on as `rec`; the calls that still write an older snapshot   *)
(* than its own write an older one than is on disk.                        *)
Superseded(t, rec) ==
  [u \in Task |->
     CASE u = t -> rec
       [] u # t /\ t \in task[u].newer -> [task[u] EXCEPT !.newer = @ \ {t}, !.stale = TRUE]
       [] OTHER -> task[u]]

(* The atomic rename of the JSON file.  A write whose snapshot is older    *)
(* than the one on disk brings messages back, and a bridge writes messages *)
(* of other agents that it holds.                                          *)
JsonLands(t, next) ==
  LET rec == task[t] IN
  /\ rec.pc = "fwrite"
  /\ disk' = [disk EXCEPT !.json = rec.data, !.jscenes = rec.scenes, !.jsonAt = TRUE]
  /\ ghost' = [ghost EXCEPT !.back = @
       \cup {m \in Queued(rec.data) : rec.stale \/ m \notin Own(rec.b)}]
  /\ task' = Superseded(t, Goes([rec EXCEPT !.data = Empty, !.scenes = NoScenes,
                                           !.newer = {}, !.stale = FALSE], next))
  /\ UNCHANGED <<bridge, clock, left>>

-----------------------------------------------------------------------------
(* scheduleSave: a timer, unless the bridge is stopped or has one.         *)
ScheduleSave(s) == IF s.stopped THEN s ELSE [s EXCEPT !.timer = TRUE]

(* The save timer fires: the flush runs by itself, nobody awaits it, and   *)
(* another one may start before it ends.  A bridge that a failed start has *)
(* stopped saves no more.                                                  *)
SaveTimerFires(t, b) ==
  /\ bridge[b].timer /\ task[t].pc = "idle"
  /\ bridge' = [bridge EXCEPT ![b].timer = FALSE]
  /\ IF bridge[b].stopped
     THEN /\ ghost' = [ghost EXCEPT !.lost = @ \cup {m \in Queued(bridge[b].q) : ~OnDisk(m)},
                                    !.back = @ \cup (ghost.endSaved \cap Written)]
          /\ UNCHANGED <<disk, task>>
     ELSE CallsFlush(t, [NoTask EXCEPT !.kind = "save", !.b = b], bridge[b], "idle")
  /\ UNCHANGED <<clock, left>>

(* A message enters the queue of a bridge.  Nothing saves it while the     *)
(* bridge is stopped, a load that is still to come drops it from memory,   *)
(* and a message of another agent's session is never in SQLite, only in a  *)
(* JSON file that the other agent writes as well.                          *)
Accept(b, m) ==
  /\ m \in left.msgs /\ m \notin ghost.known
  /\ bridge' = [bridge EXCEPT ![b] = ScheduleSave([@ EXCEPT !.q[m] = "queued"])]
  /\ ghost' = [ghost EXCEPT !.known = @ \cup {m},
       !.lost = IF bridge[b].stopped \/ ~bridge[b].loaded \/ m \notin Own(b)
                THEN @ \cup {m} ELSE @]
  /\ UNCHANGED <<disk, task, clock, left>>

(* A message leaves the queue: acknowledged, or dead.                      *)
Ends(b, m, how) ==
  /\ bridge[b].started /\ bridge[b].q[m] = "queued"
  /\ bridge' = [bridge EXCEPT ![b] = ScheduleSave([@ EXCEPT !.q[m] = how])]
  /\ ghost' = [ghost EXCEPT !.ended = @ \cup {m}]
  /\ UNCHANGED <<disk, task, clock, left>>

(* purgeSessionArtifacts: the session of m is removed, from the rows of    *)
(* whichever agent owns it and from the memory of this bridge.  A load     *)
(* that is under way may still take it from the JSON file, and nothing     *)
(* writes that file again if a failed start has stopped the bridge.        *)
Purge(b, m) ==
  /\ bridge[b].db > 0 /\ Dual(disk) /\ bridge[b].q[m] = "queued"
  /\ Spend("purges")
  /\ disk' = [disk EXCEPT !.rows[m] = "no"]
  /\ bridge' = [bridge EXCEPT ![b] = ScheduleSave([@ EXCEPT !.q[m] = "no"])]
  /\ ghost' = [ghost EXCEPT !.ended = @ \cup {m}, !.endSaved = @ \cup {m},
                            !.back = IF bridge[b].started /\ ~bridge[b].stopped THEN @
                                     ELSE @ \cup {m}]
  /\ UNCHANGED <<task, clock>>

(* A message of its agent arrives in the scene: it is stamped again.       *)
SeeScene(b) ==
  /\ Spend("scenes")
  /\ clock' = clock + 1
  /\ bridge' = [bridge EXCEPT ![b] = ScheduleSave([@ EXCEPT !.scenes[AgentOf[b]] = clock'])]
  /\ UNCHANGED <<disk, task, ghost>>

(* An administrator removes a scene, of any agent it is shown for.         *)
RemoveScene(b, a) ==
  /\ bridge[b].started /\ bridge[b].scenes[a] > 0 /\ Spend("scenes")
  /\ bridge' = [bridge EXCEPT ![b] = ScheduleSave([@ EXCEPT !.scenes[a] = 0])]
  /\ UNCHANGED <<disk, task, clock, ghost>>

(* mergeSceneRegistryFromSqlite: newer rows of the database replace older  *)
(* ones in memory, and the index is taken afresh.                          *)
MergeScenes(b) ==
  LET s == bridge[b]
      newer == {a \in Agent : disk.scenes[a] > s.scenes[a]}
      merged == [a \in Agent |-> IF a \in newer THEN disk.scenes[a] ELSE s.scenes[a]]
  IN /\ s.started /\ s.db > 0 /\ Dual(disk) /\ newer # {}
     /\ Spend("merges")
     /\ bridge' = [bridge EXCEPT ![b].scenes = merged, ![b].index = merged]
     /\ UNCHANGED <<disk, task, clock, ghost>>

(* What a crash of the process that has these bridges costs while a save   *)
(* is due or under way: the messages that only its memory had, and the     *)
(* agreement of the JSON file with the database.                           *)
NoteCrash(g, bs) ==
  LET saving == \E b \in bs : \/ bridge[b].timer
                               \/ \E t \in Task : task[t].b = b /\ task[t].pc \in {"fopen", "fwrite"}
  IN IF ~saving THEN g
     ELSE [g EXCEPT !.lost = @ \cup {m \in g.known : ~OnDisk(m)},
                    !.back = @ \cup (g.endSaved \cap Queued(disk.json))]

(* The database file is damaged while nobody has it open, and no call      *)
(* writes the JSON file or moves it away.  What is not in the newest       *)
(* snapshot of it either is gone.                                          *)
Corrupt ==
  LET kept == IF disk.snaps = <<>> THEN {}
              ELSE Queued(Newest(disk).rows) \cup Queued(JsonRead(Newest(disk), disk))
  IN /\ disk.ok /\ disk.mode # "none" /\ \A b \in Bridge : bridge[b].db = 0
     /\ \A t \in Task : task[t].pc \notin {"fwrite", "cutmove"}
     /\ Spend("corrupts")
     /\ disk' = [disk EXCEPT !.ok = FALSE]
     /\ ghost' = [ghost EXCEPT !.lost = @ \cup (Queued(disk.rows) \ kept),
                               !.back = @ \cup kept]
     /\ UNCHANGED <<bridge, task, clock>>
=============================================================================
