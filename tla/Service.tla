------------------------------ MODULE Service ------------------------------
(***************************************************************************)
(* The service of the plugin in one host process: the host registers the   *)
(* plugin, starts and stops its service and its channel through the        *)
(* callbacks it was given, and the process may die.  Every start, stop and *)
(* flush is an asynchronous call (task) that suspends where the code       *)
(* awaits; between two of its steps anything else may happen.  The bridge  *)
(* keeps its state with StateStore, who may run it is decided by           *)
(* Registration.  A second agent process (the bridge Foreign) works on the *)
(* same state directory; it is running all the time.                       *)
(***************************************************************************)
EXTENDS StateStore, Registration

CONSTANTS
  Foreign       \* the bridge of another agent's process, started already

(* The process under test runs as one agent, Foreign as another one.       *)
ASSUME ServiceAssumption ==
  /\ Foreign \in Bridge /\ 0 \notin Bridge
  /\ Pool \in Seq(Bridge \ {Foreign})
  /\ \A i, j \in 1..Len(Pool) : Pool[i] = Pool[j] => i = j
  /\ \A b, c \in Bridge \ {Foreign} : AgentOf[b] = AgentOf[c] /\ AgentOf[b] # AgentOf[Foreign]
  /\ Task \subseteq Nat /\ IsFiniteSet(Task)

(* The ways in which messages leave a queue.  The other agent's process    *)
(* has loaded a database with nothing of its own in the queue, if it runs. *)
ASSUME BoundsAssumption ==
  \A l \in Bounds :
    /\ "ends" \in DOMAIN l /\ l.ends \subseteq {"no", "dead"}
    /\ l.foreign \in BOOLEAN
    /\ l.old \subseteq Msg /\ (l.old # {} => l.found # "fresh")
    /\ l.foreign => l.found = "dual" /\ l.old \cap Own(Foreign) = {}

vars == <<disk, bridge, task, clock, ghost, left, host>>

Main == Bridge \ {Foreign}
OnlyTask == <<disk, bridge, clock, ghost, left, host>>

(* Both halves of the observation hold for the current bridge.             *)
Running(h, br) == h.current # 0 /\ br[h.current].started /\ br[h.current].chan

(* Tasks are taken in order; the bound on calls under way at a time.       *)
Free(t) == task[t].pc = "idle" /\ t <= left.calls /\ \A u \in Task : task[u].pc = "idle" => t <= u

(* The state a process may find: nothing, the JSON file of a version       *)
(* without a database, or the work of an earlier process.                  *)
Disk0(kind, old) ==
  LET q == [m \in Msg |-> IF m \in old THEN "queued" ELSE "no"] IN
  [mode |-> IF kind = "dual" THEN "dual" ELSE "none",
   rows |-> IF kind = "dual" THEN q ELSE Empty,
   json |-> q, jsonAt |-> kind # "fresh", legacy |-> IF kind = "json" THEN q ELSE Empty,
   scenes |-> NoScenes, jscenes |-> NoScenes, snaps |-> <<>>, ok |-> TRUE]

Init ==
  /\ left \in Bounds
  /\ disk = Disk0(left.found, left.old)
  /\ bridge = [b \in Bridge |->
       IF b = Foreign /\ left.foreign
       THEN [FreshBridge EXCEPT !.gen = 1, !.db = 1, !.path = TRUE, !.started = TRUE,
                                !.loaded = TRUE]
       ELSE FreshBridge]
  /\ task = [t \in Task |-> NoTask]
  /\ clock = 0
  /\ ghost = [known |-> left.old, ended |-> {}, endSaved |-> {}, lost |-> {}, back |-> {},
              stray |-> FALSE]
  /\ host = FreshHost

-----------------------------------------------------------------------------
(* The host registers the plugin with a registry of its own.               *)
Register(r, c) ==
  /\ left.regs > 0 /\ <<r, c>> \in left.apis
  /\ \E outcome \in Outcomes(host, r, c) :
       /\ outcome # "ok" => left.fails > 0
       /\ CanBuild(host, ModeOf(host, Plan(host, r, c), c))
       /\ left' = [left EXCEPT !.regs = @ - 1, !.fails = IF outcome = "ok" THEN @ ELSE @ - 1]
       /\ host' = Registered(host, r, c, outcome, Running(host, bridge))
  /\ UNCHANGED storeVars

(* The observation timer of a registry fires, after the deadline.          *)
ObservationFires(r) ==
  /\ host.decl[r].timer /\ Spend("polls")
  /\ host' = Probe(host, r, host.decl[r].gen, Running(host, bridge), TRUE)
  /\ UNCHANGED storeVars

-----------------------------------------------------------------------------
(* Which bridge a callback may start (getLifecycleBridgeForStart).         *)

(* The call has the bridge: it is resumed, or reactivated.  A start that   *)
(* reactivates a service while an earlier start of it has not ended yet is *)
(* noted.                                                                  *)
Obtains(t, rec) ==
  LET r == rec.reg
      g == rec.gen
      h == IF IsActive(host, r, g) THEN Resumed(host, r, g, Running(host, bridge))
           ELSE Reactivated(host, r, g, Running(host, bridge))
      late == ~IsActive(host, r, g)
              /\ \E u \in Task \ {t} : task[u].kind = "start" /\ task[u].gen = g
  IN /\ IsActive(host, r, g) \/ CanReactivate(host, r, g)
     /\ host' = h
     /\ task' = [task EXCEPT ![t] = [rec EXCEPT !.pc = "debug", !.b = h.current]]
     /\ ghost' = [ghost EXCEPT !.stray = @ \/ late]
     /\ UNCHANGED <<disk, bridge, clock>>

(* The host does not start a service that it has started and not stopped   *)
(* since; it may start it again before an earlier start has ended (bound   *)
(* overlap).                                                               *)
Starting(r) == \E u \in Task : task[u].kind = "start" /\ task[u].reg = r
MayStart(r) ==
  /\ Starting(r) => left.overlap
  /\ IsActive(host, r, host.cb[r]) \/ Owns(host.pending, r, host.cb[r]) =>
       ~bridge[host.current].started /\ ~Starting(r)

(* The host starts the service or the channel of registry r.  A pending    *)
(* successor waits for its predecessor to stop.  A call that gets no       *)
(* bridge changes nothing.                                                 *)
CallsStart(t, kind, r) ==
  LET g == host.cb[r]
      rec == [NoTask EXCEPT !.kind = kind, !.reg = r, !.gen = g, !.mode = host.mode]
      barrier == CASE host.retire = "open" -> "await"
                   [] host.retire = "failed" -> "rejected"
                   [] OTHER -> "resolved"
  IN /\ Free(t) /\ g > 0 /\ host.decl[r].registration # "failed"
     /\ kind = "start" => MayStart(r)
     /\ Spend(IF kind = "start" THEN "starts" ELSE "chans")
     /\ IF Owns(host.pending, r, g)
        THEN /\ task' = [task EXCEPT ![t] = [rec EXCEPT !.pc = barrier]]
             /\ UNCHANGED <<disk, bridge, clock, ghost, host>>
        ELSE Obtains(t, rec)

(* The predecessor has stopped: the pending lifecycle becomes the active   *)
(* one, unless another start did that already.                             *)
Activates(t) ==
  LET rec == task[t]
      r == rec.reg
      g == rec.gen
      h == Activated(host, r, g, rec.mode, Running(host, bridge))
  IN /\ rec.pc = "resolved"
     /\ IF CanActivate(host, r, g)
        THEN /\ CanBuild(host, rec.mode)
             /\ \/ /\ host' = h
                   /\ task' = [task EXCEPT ![t] = [rec EXCEPT !.pc = "debug", !.b = h.current]]
                   /\ UNCHANGED left
                \/ /\ Builds(host, rec.mode) /\ Spend("fails")
                   /\ host' = ActivationFailed(host, r)
                   /\ task' = [task EXCEPT ![t] = NoTask]
             /\ UNCHANGED <<disk, bridge, clock, ghost>>
        ELSE \/ Obtains(t, rec) /\ UNCHANGED left
             \/ /\ ~IsActive(host, r, g) /\ ~CanReactivate(host, r, g)
                /\ task' = [task EXCEPT ![t] = NoTask]
                /\ UNCHANGED OnlyTask

(* The predecessor could not be stopped: the start throws.                 *)
Rejected(t) ==
  /\ task[t].pc = "rejected"
  /\ task' = [task EXCEPT ![t] = NoTask]
  /\ UNCHANGED OnlyTask

(* The channel of the account starts on the bridge it was given.           *)
ChannelStarts(t) ==
  LET rec == task[t]
      on == CanStart(host, rec.reg, rec.gen)
      b == IF on THEN [bridge EXCEPT ![rec.b].chan = TRUE] ELSE bridge
  IN /\ rec.kind = "channel" /\ rec.pc = "debug"
     /\ bridge' = b
     /\ host' = IF on THEN Probe(host, rec.reg, rec.gen, Running(host, b), FALSE) ELSE host
     /\ task' = [task EXCEPT ![t] = NoTask]
     /\ UNCHANGED <<disk, clock, ghost, left>>

(* The host stops the channel of registry r.                               *)
ChannelStops(r) ==
  /\ IsStoppable(host, r, host.cb[r]) /\ bridge[host.current].chan
  /\ bridge' = [bridge EXCEPT ![host.current].chan = FALSE]
  /\ UNCHANGED <<disk, task, clock, ghost, left, host>>

-----------------------------------------------------------------------------
(* startService.                                                           *)

Current(rec) == IsActive(host, rec.reg, rec.gen)

(* The start gives up the store generation it began: it found that it is   *)
(* no longer current, or it throws, and then its lifecycle fails.          *)
GivesUp(t) ==
  LET rec == task[t] IN
  /\ bridge' = [bridge EXCEPT ![rec.b] = CloseGeneration(@, rec.sgen)]
  /\ task' = [task EXCEPT ![t] = NoTask]
  /\ UNCHANGED host

Breaks(t, stops) ==
  LET rec == task[t]
      s == bridge[rec.b]
  IN /\ bridge' = [bridge EXCEPT ![rec.b] =
          CloseGeneration([s EXCEPT !.stopped = @ \/ stops], rec.sgen)]
     /\ host' = FailedStart(host, rec.reg, rec.gen)

(* A start that throws when it is over stops a bridge that may be running  *)
(* for a later one: nothing saves any more what only the memory has.       *)
NoteBreak(t) ==
  LET b == task[t].b IN
  IF task[t].kind # "start" \/ Current(task[t]) THEN ghost
  ELSE [ghost EXCEPT !.lost = @ \cup {m \in Queued(bridge[b].q) : ~OnDisk(m)}]

Throws(t, stops) == Breaks(t, stops) /\ task' = [task EXCEPT ![t] = NoTask]

(* The start goes on with bridge value s, if it is still current.          *)
GoesOn(t, s, next) ==
  IF Current(task[t])
  THEN /\ bridge' = [bridge EXCEPT ![task[t].b] = s]
       /\ task' = [task EXCEPT ![t].pc = next]
       /\ UNCHANGED host
  ELSE /\ bridge' = [bridge EXCEPT ![task[t].b] = CloseGeneration(s, task[t].sgen)]
       /\ task' = [task EXCEPT ![t] = NoTask]
       /\ UNCHANGED host

(* The store generation of this start begins.                              *)
BeginsStore(t) ==
  LET rec == task[t] IN
  /\ rec.kind = "start" /\ rec.pc = "debug"
  /\ IF CanStart(host, rec.reg, rec.gen)
     THEN /\ bridge' = [bridge EXCEPT ![rec.b] = BeginLifecycle(@)]
          /\ task' = [task EXCEPT ![t].pc = "prepare", ![t].sgen = bridge'[rec.b].gen]
     ELSE /\ task' = [task EXCEPT ![t] = NoTask]
          /\ UNCHANGED bridge
  /\ UNCHANGED <<disk, clock, ghost, left, host>>

(* The state directory is prepared.  After a cutover that got as far as    *)
(* moving the JSON file away, the copy brings old messages back.           *)
Prepares(t) ==
  LET rec == task[t]
      s == [bridge[rec.b] EXCEPT !.path = TRUE]
      opening == [task[t] EXCEPT !.pc = "open", !.hold = IF s.db > 0 THEN s.db ELSE s.gen]
  IN /\ rec.pc = "prepare"
     /\ \/ /\ disk' = Migrated(disk)
           /\ ghost' = IF disk.jsonAt THEN ghost
                       ELSE [ghost EXCEPT !.back = @ \cup Queued(disk.legacy)]
           /\ IF Current(rec)
              THEN /\ bridge' = [bridge EXCEPT ![rec.b] = s]
                   /\ task' = [task EXCEPT ![t] = opening]
                   /\ UNCHANGED host
              ELSE GivesUp(t)
           /\ UNCHANGED left
        \/ Spend("fails") /\ Throws(t, FALSE) /\ UNCHANGED <<disk, ghost>>
     /\ UNCHANGED clock

(* The load has its handle, or the news that there is none to use; an      *)
(* opening that fails makes the start throw.                               *)
Opening(t) ==
  LET rec == task[t]
      s == bridge[rec.b]
      usable == s.db = rec.hold \/ Usable(s, rec.hold)
  IN /\ rec.pc = "open"
     /\ IF usable /\ s.db = 0 /\ ~Opens(disk)
        THEN Throws(t, TRUE) /\ UNCHANGED disk
        ELSE /\ bridge' = IF usable THEN [bridge EXCEPT ![rec.b].db = rec.hold] ELSE bridge
             /\ disk' = IF usable THEN Opened(disk, rec.b) ELSE disk
             /\ task' = [task EXCEPT ![t].pc = "read", ![t].hold = IF usable THEN @ ELSE 0]
             /\ UNCHANGED host
     /\ UNCHANGED <<clock, ghost, left>>

(* The JSON file has been read and the state is loaded.  A handle that was *)
(* closed in the meantime makes the start throw, after the memory has been *)
(* replaced by what the JSON file had.                                     *)
Loads(t) ==
  LET rec == task[t]
      b == rec.b
      s == bridge[b]
      hasDb == rec.hold > 0
      closed == hasDb /\ s.db # rec.hold
      json == IF hasDb THEN JsonRead(disk, disk) ELSE IF disk.jsonAt THEN disk.json ELSE Empty
      q == LoadedQueue(disk, b, hasDb /\ ~closed, json)
      new == LoadedBridge(s, disk, hasDb /\ ~closed, q)
  IN /\ rec.pc = "read"
     /\ ghost' = NoteLoad(ghost, b, json, q, ~Current(rec))
     /\ IF closed
        THEN /\ bridge' = [bridge EXCEPT ![b] = CloseGeneration([new EXCEPT !.stopped = TRUE], rec.sgen)]
             /\ host' = FailedStart(host, rec.reg, rec.gen)
             /\ task' = [task EXCEPT ![t] = NoTask]
             /\ UNCHANGED disk
        ELSE /\ disk' = IF hasDb THEN AfterLoad(disk, b, q) ELSE disk
             /\ GoesOn(t, new, IF left.cut THEN "cut" ELSE "refresh")
     /\ UNCHANGED <<clock, left>>

-----------------------------------------------------------------------------
(* cutoverToSqlite, asked for by BNCR_SQLITE_CUTOVER.                      *)

Holds(t) == task[t].hold > 0 /\ bridge[task[t].b].db = task[t].hold
CutoverThrows(t) ==
  /\ Throws(t, TRUE)
  /\ ghost' = NoteBreak(t)
  /\ UNCHANGED <<disk, clock, left>>

CutoverFlushes(t) ==
  /\ task[t].pc = "cut"
  /\ IF Holds(t)
     THEN Snapshots(t, task[t], TRUE, disk, "cutcheck") /\ UNCHANGED <<bridge, clock, left, host>>
     ELSE CutoverThrows(t)

(* The rows of all agents are counted against the memory of this one.      *)
CutoverCounts(t) ==
  LET q == bridge[task[t].b].q
      Count(f, v) == Cardinality({m \in Msg : f[m] = v})
      agree == \A v \in {"queued", "dead"} : Count(disk.rows, v) = Count(q, v)
  IN /\ task[t].pc = "cutcheck"
     /\ IF Holds(t) /\ agree
        THEN /\ task' = [task EXCEPT ![t].pc = IF disk.mode = "sqlite" THEN "cutmode" ELSE "cutmove"]
             /\ UNCHANGED OnlyTask
        ELSE CutoverThrows(t)

(* The JSON file is moved to a backup.                                     *)
CutoverMoves(t) ==
  /\ task[t].pc = "cutmove"
  /\ disk' = [disk EXCEPT !.jsonAt = FALSE]
  /\ task' = [task EXCEPT ![t].pc = "cutmode"]
  /\ UNCHANGED <<bridge, clock, ghost, left, host>>

(* From here on the database is all there is.                              *)
CutoverEnds(t) ==
  /\ task[t].pc = "cutmode"
  /\ IF Holds(t)
     THEN /\ disk' = [disk EXCEPT !.mode = "sqlite"]
          /\ GoesOn(t, bridge[task[t].b], "refresh")
          /\ UNCHANGED <<clock, ghost, left>>
     ELSE CutoverThrows(t)

-----------------------------------------------------------------------------
(* The service runs.                                                       *)

(* stopped is cleared before the last checks.                              *)
Refreshes(t) ==
  /\ task[t].pc = "refresh"
  /\ GoesOn(t, [bridge[task[t].b] EXCEPT !.stopped = IF Current(task[t]) THEN FALSE ELSE @],
            "tail")
  /\ UNCHANGED <<disk, clock, ghost, left>>

Started(t) ==
  LET rec == task[t]
      b == [bridge EXCEPT ![rec.b].started = TRUE]
  IN /\ rec.pc = "tail"
     /\ IF Current(rec) /\ ~bridge[rec.b].stopped
        THEN /\ bridge' = b
             /\ host' = Probe(host, rec.reg, rec.gen, Running(host, b), FALSE)
             /\ task' = [task EXCEPT ![t] = NoTask]
        ELSE GivesUp(t)
     /\ UNCHANGED <<disk, clock, ghost, left>>

-----------------------------------------------------------------------------
(* The host stops the service of registry r: everything of the bridge ends *)
(* and the last flush begins.                                              *)
CallsStop(t, r) ==
  LET g == host.cb[r]
      b == host.current
      s == [bridge[b] EXCEPT !.stopped = TRUE, !.started = FALSE, !.chan = FALSE, !.timer = FALSE]
      rec == [NoTask EXCEPT !.kind = "stop", !.reg = r, !.gen = g, !.b = b]
  IN /\ Free(t) /\ g > 0 /\ IsActive(host, r, g)
     /\ Spend("stops")
     /\ host' = Retiring(host, r)
     /\ bridge' = [bridge EXCEPT ![b] = s]
     /\ CallsFlush(t, rec, s, "close")
     /\ UNCHANGED clock

(* A flush that fails: a stop still closes the store, a start throws, a    *)
(* save ends.  The file on disk keeps what it had, until an older write    *)
(* that is still under way lands.                                          *)
FlushFails(t) ==
  LET rec == task[t]
      opening == rec.pc = "fopen" /\ Usable(bridge[rec.b], rec.hold)
                 /\ bridge[rec.b].db = 0 /\ ~Opens(disk)
  IN /\ \/ opening /\ UNCHANGED left
        \/ rec.pc = "fwrite" /\ Spend("fails")
     /\ ghost' = [NoteBreak(t) EXCEPT !.back = @ \cup (ghost.endSaved \cap Queued(disk.json))]
     /\ IF rec.kind = "start" THEN Breaks(t, TRUE) ELSE UNCHANGED <<bridge, host>>
     /\ task' = Superseded(t, Goes(rec, IF rec.kind = "stop" THEN "closefail" ELSE "idle"))
     /\ UNCHANGED <<disk, clock>>

(* Mutant of Stopped: nobody tells those who wait for the stop.            *)
StoppedShut(t) ==
  LET rec == task[t]
      ok == rec.pc = "close"
  IN /\ rec.pc \in {"close", "closefail"}
     /\ bridge' = [bridge EXCEPT ![rec.b] = CloseAny(@)]
     /\ host' = Settled(host, rec.reg, ok)
     /\ task' = [task EXCEPT ![t] = NoTask]
     /\ UNCHANGED <<disk, clock, ghost, left>>

(* The store is closed and the barrier for the successor opens.            *)
Stopped(t) ==
  LET rec == task[t]
      ok == rec.pc = "close"
      Awaits(u) == task[u].pc = "await"
  IN /\ rec.pc \in {"close", "closefail"}
     /\ bridge' = [bridge EXCEPT ![rec.b] = CloseAny(@)]
     /\ host' = Settled(host, rec.reg, ok)
     /\ task' = [u \in Task |->
          CASE u = t -> NoTask
            [] u # t /\ Awaits(u) -> [task[u] EXCEPT !.pc = IF ok THEN "resolved" ELSE "rejected"]
            [] OTHER -> task[u]]
     /\ UNCHANGED <<disk, clock, ghost, left>>

(* The process of the host dies, and starts again with nothing.            *)
Crash ==
  /\ Spend("crashes")
  /\ ghost' = NoteCrash(ghost, Main)
  /\ bridge' = [b \in Bridge |-> IF b \in Main THEN FreshBridge ELSE bridge[b]]
  /\ task' = [t \in Task |-> IF task[t].kind = "save" /\ task[t].b = Foreign THEN task[t] ELSE NoTask]
  /\ host' = FreshHost
  /\ UNCHANGED <<disk, clock>>

-----------------------------------------------------------------------------
FlushStep(t) ==
  LET next == CASE task[t].kind = "stop" -> "close"
                [] task[t].kind = "start" -> "cutcheck"
                [] OTHER -> "idle"
  IN (FlushOpens(t, next) \/ JsonLands(t, next)) /\ UNCHANGED host

StartStep(t) ==
  Activates(t) \/ Rejected(t) \/ ChannelStarts(t) \/ BeginsStore(t) \/ Prepares(t) \/ Opening(t)
  \/ Loads(t) \/ CutoverFlushes(t) \/ CutoverCounts(t) \/ CutoverMoves(t) \/ CutoverEnds(t)
  \/ Refreshes(t) \/ Started(t)

(* A handle that has opened resumes the calls that wait for it before      *)
(* anything else happens in the process (they are microtasks); the process *)
(* of the other agent takes its steps in between.                          *)
Due(t) ==
  /\ task[t].pc \in {"open", "fopen"}
  /\ task[t].hold > 0 /\ bridge[task[t].b].db = task[t].hold
Idles == \A t \in Task : ~Due(t)
MayRun(t) == Due(t) \/ task[t].b = Foreign \/ Idles

TaskStep(t) == StartStep(t) \/ FlushStep(t) \/ FlushFails(t) \/ Stopped(t)

(* What the bridge of the current registration, or the other agent, does.  *)
Working(b) == b = host.current \/ (b = Foreign /\ left.foreign)
Seen(b) == b = Foreign \/ \E r \in Reg : DispatchAllowed(host, r)

HostStep ==
  \/ \E r \in Reg, c \in Code : Register(r, c)
  \/ \E r \in Reg : ObservationFires(r) \/ ChannelStops(r)
  \/ \E t \in Task, r \in Reg : CallsStart(t, "start", r) \/ CallsStart(t, "channel", r) \/ CallsStop(t, r)

DataStep(b) ==
  /\ Working(b)
  /\ \/ \E m \in Msg : Accept(b, m) \/ Purge(b, m) \/ \E how \in left.ends : Ends(b, m, how)
     \/ Seen(b) /\ SeeScene(b)
     \/ \E a \in Agent : RemoveScene(b, a)
     \/ MergeScenes(b)
     \/ \E t \in Task : Free(t) /\ SaveTimerFires(t, b)
  /\ UNCHANGED host

Next ==
  \/ \E t \in Task : MayRun(t) /\ TaskStep(t)
  \/ \E b \in Bridge : (Idles \/ b = Foreign) /\ DataStep(b)
  \/ Idles /\ HostStep
  \/ Crash \/ (Corrupt /\ UNCHANGED host)

(* Promises settle and I/O ends: no call stays suspended for ever unless   *)
(* the code leaves it waiting.                                             *)
Fairness == \A t \in Task : WF_vars(MayRun(t) /\ TaskStep(t))
Spec == Init /\ [][Next]_vars /\ Fairness

-----------------------------------------------------------------------------
(* Type invariant: memory, directory, calls and lifecycle have their types. *)
TypeOK ==
  /\ \A b \in Bridge : /\ bridge[b].gen \in Nat /\ bridge[b].db \in 0..bridge[b].gen
                        /\ bridge[b].q \in [Msg -> {"no", "queued", "dead"}]
                        /\ bridge[b].scenes \in [Agent -> 0..clock]
                        /\ bridge[b].index \in [Agent -> 0..clock]
  /\ disk.mode \in {"none", "dual", "sqlite"}
  /\ disk.rows \in [Msg -> {"no", "queued", "dead"}] /\ Len(disk.snaps) <= SnapKeep
  /\ \A t \in Task : task[t].kind \in {"idle", "start", "channel", "stop", "save"}
  /\ host.active.phase \in {"none", "active", "stopping", "stopped", "failed"}
  /\ host.pending.phase \in {"none", "active"} /\ host.made \in 0..Len(Pool)
  /\ \A r \in Reg : host.decl[r].state \in {"none", "active", "shadow", "retired"}
                     /\ host.decl[r].obs \in {"none", "awaiting", "polling", "ready", "retired"}

(* No message is lost between memory, the database and the JSON file over  *)
(* saves, stops, starts, takeovers, the cutover and crashes: one that was  *)
(* accepted and has not ended is in a bridge that works or is found by the *)
(* next load.  Excepted are the messages whose loss the code accepts or    *)
(* that the store is known to drop (ghost.lost).                           *)
QueueStays == ~ghost.stray =>
  \A m \in ghost.known \ (ghost.ended \cup ghost.lost) :
    OnDisk(m) \/ \E b \in Bridge : Working(b) /\ bridge[b].q[m] = "queued"

(* A message whose end is saved in the database is not in the queue of a   *)
(* working bridge again (and so not pushed again), whatever the order in   *)
(* which flushes of two agents write the two stores, and also when another *)
(* bridge takes over.  Excepted are the ways back through an older JSON    *)
(* file and through a load that comes late (ghost.back).                   *)
EndStays == ~ghost.stray =>
  \A b \in Bridge : Working(b) => Queued(bridge[b].q) \cap ghost.endSaved \subseteq ghost.back

(* The scene row of an agent goes back only to what a process of the agent *)
(* itself remembers, and it is deleted only by such a process or by one    *)
(* that knew its last state: the save of another agent's process cannot    *)
(* undo what the agent itself wrote since.  (A database restored from a    *)
(* snapshot is excepted.)                                                  *)
ScenesOnlyAdvance ==
  [][\A a \in Agent : disk.ok /\ disk'.ok /\ disk'.scenes[a] < disk.scenes[a] =>
       \E b \in Bridge :
         /\ bridge[b].scenes[a] = disk'.scenes[a]
         /\ AgentOf[b] = a \/ (disk'.scenes[a] = 0 /\ bridge[b].index[a] >= disk.scenes[a])]_vars

(* A database handle is never left open without an owner: a bridge of this *)
(* process that holds one, or whose service runs, is the current bridge of *)
(* an active lifecycle, or a call on it is still to end.  Excepted is a    *)
(* service that was started again while an earlier start had not ended.    *)
NoOrphan == ~ghost.stray =>
  \A b \in Main : (bridge[b].db > 0 \/ bridge[b].started) =>
    \/ b = host.current /\ host.active.phase = "active"
    \/ \E t \in Task : task[t].kind \in {"start", "stop", "save"} /\ task[t].b = b

(* While the owner of the lifecycle has not started, its observation is    *)
(* polled: it has a timer, or it is ready or over.                         *)
Observed ==
  \A r \in Reg : LET d == host.decl[r] IN
    d.obs \in {"awaiting", "polling"} => d.timer /\ d.state = "active" /\ d.registration = "complete"

(* Every start, stop and save that was called comes to an end, also the    *)
(* start of a successor that waits for its predecessor, whether the stop   *)
(* of that one goes well or not, and however starts, stops and             *)
(* registrations interleave.                                               *)
CallsEnd == \A t \in Task : task[t].pc # "idle" ~> task[t].pc = "idle"
=============================================================================
