--------------------------- MODULE ServiceProofs ---------------------------
(***************************************************************************)
(* Proofs about Service for any agents, bridges, registries, messages and  *)
(* bounds: the types, the observation of a registry, and the ownership of  *)
(* database handles over registrations, starts, stops and crashes.         *)
(***************************************************************************)
EXTENDS Service, TLAPS

-----------------------------------------------------------------------------
(* Types.                                                                  *)

Queue == [Msg -> {"no", "queued", "dead"}]
Times(n) == [Agent -> 0..n]
Mode == {"none", "dual", "sqlite"}
Memory(n) ==
  [gen : Nat, closed : BOOLEAN, db : Nat, path : BOOLEAN, stopped : BOOLEAN, started : BOOLEAN,
   chan : BOOLEAN, timer : BOOLEAN, q : Queue, scenes : Times(n), index : Times(n),
   loaded : BOOLEAN]
Stage == {"idle", "await", "resolved", "rejected", "debug", "prepare", "open", "read", "cut",
          "cutcheck", "cutmove", "cutmode", "refresh", "tail", "fopen", "fwrite", "close",
          "closefail"}
Call(n) ==
  [kind : {"idle", "start", "channel", "stop", "save"}, pc : Stage, b : Bridge \cup {0},
   reg : Reg \cup {0}, gen : Nat, mode : {"reuse", "replace"}, sgen : Nat, hold : Nat,
   data : Queue, scenes : Times(n), newer : SUBSET Task, stale : BOOLEAN]
Copy(n) == [mode : Mode, rows : Queue, scenes : Times(n)]
Directory(n) ==
  [mode : Mode, rows : Queue, json : Queue, jsonAt : BOOLEAN, legacy : Queue, scenes : Times(n),
   jscenes : Times(n), snaps : Seq(Copy(n)), ok : BOOLEAN]

(* A handle in use belongs to a generation that is not closed.             *)
HandleOK(s) == s.db \in 0..s.gen /\ (s.db > 0 => ~s.closed)

MemoryOK == bridge \in [Bridge -> Memory(clock)] /\ \A b \in Bridge : HandleOK(bridge[b])
DiskOK(d, n) == d \in Directory(n) /\ Len(d.snaps) <= SnapKeep
TasksOK == task \in [Task -> Call(clock)]
GhostOK ==
  DOMAIN ghost = {"known", "ended", "endSaved", "lost", "back", "stray"} /\ ghost.stray \in BOOLEAN
LeftOK == "ends" \in DOMAIN left /\ left.ends \subseteq {"no", "dead"}
StoreTypes == clock \in Nat /\ MemoryOK /\ DiskOK(disk, clock) /\ TasksOK /\ GhostOK /\ LeftOK

-----------------------------------------------------------------------------
(* The lifecycle.                                                          *)

Owner == [gen : Nat, reg : Reg \cup {0}, code : Code \cup {0},
          phase : {"none", "active", "stopping", "stopped", "failed"}]
Declaration ==
  [code : Code \cup {0}, gen : Nat, declared : BOOLEAN,
   registration : {"none", "pending", "complete", "failed"},
   state : {"none", "active", "shadow", "retired"},
   obs : {"none", "awaiting", "polling", "ready", "retired"}, timer : BOOLEAN]

Living(h) == h.active.phase \in {"active", "stopping"}

HostShape(h) ==
  h \in [next : Nat \ {0}, active : Owner, pending : Owner, mode : {"reuse", "replace"},
         retire : {"none", "open", "ok", "failed"}, decl : [Reg -> Declaration],
         ledger : {h.ledger}, cb : [Reg -> Nat], current : Main \cup {0}, made : 0..Len(Pool)]

(* Generations are given once; a successor is of another registry and of a *)
(* later generation than the owner it waits for.                           *)
Generations(h) ==
  /\ h.active.gen < h.next /\ h.pending.gen < h.next /\ \A r \in Reg : h.cb[r] < h.next
  /\ h.pending.phase \in {"none", "active"}
  /\ h.pending # NoOwner => h.pending.gen > h.active.gen

(* Only the running owner of the lifecycle is observed.                    *)
Watched(h) ==
  \A r \in Reg : LET d == h.decl[r] IN
    d.obs \in {"awaiting", "polling"} =>
      d.timer /\ d.state = "active" /\ d.registration = "complete" /\ IsActive(h, r, d.gen)

(* An owner that runs or stops, and whoever was given callbacks, found a   *)
(* bridge.                                                                 *)
Based(h) == Living(h) \/ (\E r \in Reg : h.cb[r] > 0) => h.current \in Main

HostOK(h) == HostShape(h) /\ Generations(h) /\ Watched(h) /\ Based(h)

(* What a step of the lifecycle leaves alone when it changes declarations. *)
SameOwners(h, k) ==
  /\ k.next = h.next /\ k.active = h.active /\ k.pending = h.pending
  /\ k.cb = h.cb /\ k.current = h.current

-----------------------------------------------------------------------------
(* Calls and the bridge they work on.                                      *)

Waits(c) == c.pc \in {"await", "resolved", "rejected"}
Inside(c) ==
  c.pc \in {"prepare", "open", "read", "cut", "cutcheck", "cutmove", "cutmode", "refresh", "tail",
            "fopen", "fwrite"}
Starts(c) == c.kind = "start"
Stops(c) == c.kind = "stop"

(* What the state of a call says of it and of the owner.                   *)
CallOK(c, h) ==
  /\ c.kind = "idle" => c.pc = "idle"
  /\ c.kind = "start" => Waits(c) \/ c.pc = "debug" \/ Inside(c)
  /\ c.kind = "channel" => Waits(c) \/ c.pc = "debug"
  /\ c.kind = "stop" => c.pc \in {"fopen", "fwrite", "close", "closefail"}
  /\ c.kind = "save" => c.pc \in {"fopen", "fwrite"} /\ c.b \in Bridge
  /\ c.kind \in {"start", "channel"} =>
       c.reg \in Reg /\ c.gen \in 1..(h.next - 1) /\ h.current \in Main
  /\ c.kind \in {"start", "channel"} /\ ~Waits(c) => c.gen <= h.active.gen /\ c.b \in Main
  /\ c.kind = "stop" => c.b \in Main /\ c.reg \in Reg /\ h.active.phase = "stopping"

(* One stop is under way at a time; one start of a generation, if no start *)
(* was called again before it had ended.                                   *)
OneStop == \A t, u \in Task : Stops(task[t]) /\ Stops(task[u]) => t = u
OneStart ==
  \A t, u \in Task :
    Starts(task[t]) /\ Starts(task[u]) /\ task[t].reg = task[u].reg /\ task[t].gen = task[u].gen
      => t = u

(* A start of the running owner has the current bridge, whose service is   *)
(* not running yet, and began the generation the bridge is in.             *)
StartOK(c, h, br) ==
  Starts(c) /\ IsActive(h, c.reg, c.gen) =>
    /\ ~br[h.current].started
    /\ ~Waits(c) => c.b = h.current
    /\ Inside(c) => c.sgen = br[c.b].gen

(* Who answers for the generation of bridge b.                             *)
Owned(h, b) == b = h.current /\ h.active.phase = "active"
Closes(br, c, b) ==
  c.b = b /\ (Stops(c) \/ (Starts(c) /\ Inside(c) /\ c.sgen = br[b].gen))
Open(s) == s.gen > 0 /\ ~s.closed

Leases ==
  /\ OneStart
  /\ \A t \in Task : StartOK(task[t], host, bridge)
  /\ \A b \in Main : bridge[b].started => Owned(host, b)
  /\ \A b \in Main : Open(bridge[b]) => Owned(host, b) \/ \E t \in Task : Closes(bridge, task[t], b)

CallsOK == \A t \in Task : CallOK(task[t], host)
Sound == StoreTypes /\ HostOK(host) /\ CallsOK /\ OneStop
IInv == Sound /\ (~ghost.stray => Leases)

(* A step that matters to nobody's lease: the owners, the generations of   *)
(* the bridges and the calls that answer for one stay what they are.       *)
Same(c, d) == d.kind = c.kind /\ d.b = c.b /\ d.reg = c.reg /\ d.gen = c.gen /\ d.sgen = c.sgen
Steady(c, d) ==
  Same(c, d) /\ (Waits(d) <=> Waits(c)) /\ (Starts(c) => (Inside(d) <=> Inside(c)))
Closer(c) == Stops(c) \/ (Starts(c) /\ Inside(c))
Light(c) == c.kind \in {"idle", "save"}
SameHandle(s, r) == r.gen = s.gen /\ r.closed = s.closed /\ r.started = s.started

Routine ==
  /\ SameOwners(host, host')
  /\ ghost'.stray = ghost.stray
  /\ \A b \in Bridge : SameHandle(bridge[b], bridge'[b])
  /\ \A u \in Task : Steady(task[u], task'[u]) \/ (Light(task'[u]) /\ ~Closer(task[u]))

-----------------------------------------------------------------------------
(* Declarations.                                                           *)

LEMMA Constants ==
  /\ NoDecl \in Declaration /\ NoOwner \in Owner
  /\ NoDecl.obs = "none" /\ NoOwner.phase = "none" /\ NoOwner.gen = 0
BY DEF NoDecl, NoOwner, Declaration, Owner

LEMMA RetiredType ==
  ASSUME NEW d \in Declaration
  PROVE  /\ Retired(d) \in Declaration
         /\ Retired(d).obs \in {"none", "retired"}
         /\ Retired(d).gen = d.gen
BY DEF Retired, Declaration

LEMMA PruneOK ==
  ASSUME NEW h, HostShape(h)
  PROVE  LET k == Prune(h) IN
         /\ HostShape(k) /\ SameOwners(h, k) /\ k.mode = h.mode /\ k.made = h.made
         /\ \A r \in Reg : k.decl[r] \in {h.decl[r], NoDecl}
<1> DEFINE k == Prune(h)
<1>1. PICK gone, ledger : k = [h EXCEPT !.ledger = ledger,
                                 !.decl = [r \in Reg |-> IF r \in gone THEN NoDecl ELSE @[r]]]
  <2> DEFINE owners == {h.active.reg, h.pending.reg}
             extra == Len(h.ledger) - MaxDecl
             loose == SelectSeq(h.ledger, LAMBDA r : r \notin owners)
             n == IF extra <= 0 THEN 0 ELSE IF extra < Len(loose) THEN extra ELSE Len(loose)
             g == {loose[i] : i \in 1..n}
             l == SelectSeq(h.ledger, LAMBDA r : r \notin g)
  <2>1. k = [h EXCEPT !.ledger = SelectSeq(@, LAMBDA r : r \notin g),
                      !.decl = [r \in Reg |-> IF r \in g THEN NoDecl ELSE @[r]]]
    BY DEF Prune
  <2>2. k = [h EXCEPT !.ledger = l, !.decl = [r \in Reg |-> IF r \in g THEN NoDecl ELSE @[r]]]
    BY <2>1
  <2> HIDE DEF g, l, k
  <2> QED
    BY <2>2
<1> HIDE DEF k
<1>2. k.decl = [r \in Reg |-> IF r \in gone THEN NoDecl ELSE h.decl[r]]
  BY <1>1 DEF HostShape
<1>3. k.decl \in [Reg -> Declaration]
  BY <1>2, Constants DEF HostShape
<1>4. HostShape(k) /\ SameOwners(h, k) /\ k.mode = h.mode /\ k.made = h.made
  BY <1>1, <1>3 DEF HostShape, SameOwners
<1> QED
  BY <1>2, <1>4 DEF k

LEMMA PruneKeeps ==
  ASSUME NEW h, HostShape(h)
  PROVE  LET k == Prune(h) IN
         /\ Generations(h) => Generations(k)
         /\ Watched(h) => Watched(k)
         /\ Based(h) => Based(k)
<1> DEFINE k == Prune(h)
<1>1. /\ HostShape(k) /\ SameOwners(h, k)
      /\ \A r \in Reg : k.decl[r] \in {h.decl[r], NoDecl}
  BY PruneOK
<1> HIDE DEF k
<1>2. Generations(h) => Generations(k)
  BY <1>1 DEF Generations, SameOwners
<1>3. Based(h) => Based(k)
  BY <1>1 DEF Based, Living, SameOwners
<1>4. ASSUME Watched(h), NEW r \in Reg, k.decl[r].obs \in {"awaiting", "polling"}
      PROVE  /\ k.decl[r].timer /\ k.decl[r].state = "active"
             /\ k.decl[r].registration = "complete" /\ IsActive(k, r, k.decl[r].gen)
  <2>1. k.decl[r] = h.decl[r]
    BY <1>1, <1>4, Constants
  <2> QED
    BY <1>1, <1>4, <2>1 DEF Watched, IsActive, Owns, SameOwners
<1>5. Watched(h) => Watched(k)
  BY <1>4 DEF Watched
<1> QED
  BY <1>2, <1>3, <1>5 DEF k

(* An observation that goes on has a timer.                                *)
Timed(h, r) ==
  LET d == h.decl[r] IN
  d.obs \in {"awaiting", "polling"} =>
    d.timer /\ d.state = "active" /\ d.registration = "complete" /\ IsActive(h, r, d.gen)

(* k is h with another declaration of registry r.                          *)
Redeclared(h, k, r) ==
  /\ HostShape(k) /\ SameOwners(h, k) /\ k.mode = h.mode /\ k.made = h.made
  /\ \A s \in Reg \ {r} : k.decl[s] = h.decl[s]

LEMMA RedeclaredOK ==
  ASSUME NEW h, NEW k, NEW r \in Reg, Redeclared(h, k, r)
  PROVE  /\ Generations(h) => Generations(k)
         /\ Based(h) => Based(k)
         /\ Watched(h) /\ Timed(k, r) => Watched(k)
<1>1. Generations(h) => Generations(k)
  BY DEF Redeclared, Generations, SameOwners
<1>2. Based(h) => Based(k)
  BY DEF Redeclared, Based, Living, SameOwners
<1>3. ASSUME Watched(h), Timed(k, r) PROVE Watched(k)
  <2>1. \A s \in Reg \ {r} : IsActive(k, s, k.decl[s].gen) <=> IsActive(h, s, h.decl[s].gen)
    BY DEF Redeclared, SameOwners, IsActive, Owns
  <2>2. \A s \in Reg \ {r} : Timed(k, s)
    BY <1>3, <2>1 DEF Watched, Timed, Redeclared
  <2> QED
    BY <1>3, <2>2 DEF Watched, Timed
<1> QED
  BY <1>1, <1>2, <1>3

LEMMA Redeclaring ==
  ASSUME NEW h, HostShape(h), NEW r \in Reg, NEW d \in Declaration
  PROVE  LET k == [h EXCEPT !.decl[r] = d] IN
         Redeclared(h, k, r) /\ k.decl[r] = d /\ k.active = h.active /\ k.pending = h.pending
BY DEF HostShape, Redeclared, SameOwners

LEMMA ProbeStep ==
  ASSUME NEW h, HostShape(h), NEW r \in Reg, NEW g, NEW running, NEW late
  PROVE  LET k == Probe(h, r, g, running, late) IN
         /\ Redeclared(h, k, r)
         /\ h.decl[r].gen = g \/ Timed(h, r) => Timed(k, r)
<1> DEFINE d == h.decl[r]
           k == Probe(h, r, g, running, late)
           live == d.registration = "complete" /\ d.state = "active" /\ IsActive(h, r, g)
           obs == IF d.obs = "retired" \/ ~live THEN "retired"
                  ELSE IF d.obs = "ready" \/ running THEN "ready"
                  ELSE IF late \/ d.obs = "polling" THEN "polling" ELSE "awaiting"
           on == obs \in {"awaiting", "polling"}
           e == [d EXCEPT !.obs = obs, !.timer = on]
<1>1. d \in Declaration /\ Redeclared(h, h, r)
  BY DEF HostShape, Redeclared, SameOwners
<1>2. CASE d.gen # g \/ d.obs = "none"
  <2>1. k = h
    BY <1>2 DEF Probe
  <2> QED
    BY <1>1, <1>2, <2>1 DEF Timed
<1>3. CASE ~(d.gen # g \/ d.obs = "none")
  <2>1. k = [h EXCEPT !.decl[r] = e]
    BY <1>3 DEF Probe
  <2>2. obs \in {"awaiting", "polling", "ready", "retired"}
    OBVIOUS
  <2>3. obs \in {"awaiting", "polling"} => live
    OBVIOUS
  <2>7. (on <=> obs \in {"awaiting", "polling"}) /\ on \in BOOLEAN
    OBVIOUS
  <2> HIDE DEF obs, on
  <2>4. /\ e \in Declaration /\ e.obs = obs /\ e.timer = on
        /\ e.gen = g /\ e.state = d.state /\ e.registration = d.registration
    BY <1>1, <1>3, <2>2, <2>7 DEF Declaration
  <2> HIDE DEF k, e
  <2>5. Redeclared(h, k, r) /\ k.decl[r] = e
    BY <2>1, <2>4, Redeclaring
  <2>6. IsActive(k, r, g) <=> IsActive(h, r, g)
    BY <2>5 DEF Redeclared, SameOwners, IsActive, Owns
  <2>8. Timed(k, r)
    BY <2>3, <2>4, <2>5, <2>6, <2>7 DEF Timed
  <2> QED
    BY <2>5, <2>8 DEF k
<1> QED
  BY <1>2, <1>3

LEMMA StartObservationStep ==
  ASSUME NEW h, HostShape(h), NEW r \in Reg, NEW g, NEW reset, NEW running
  PROVE  LET k == StartObservation(h, r, g, reset, running) IN
         Redeclared(h, k, r) /\ (Timed(h, r) => Timed(k, r))
<1> DEFINE d == h.decl[r]
           k == StartObservation(h, r, g, reset, running)
           early == d.gen # g \/ d.registration # "complete" \/ d.state # "active"
                    \/ (~reset /\ d.obs # "none")
           f == [h EXCEPT !.decl[r].obs = "awaiting"]
           e == [d EXCEPT !.obs = "awaiting"]
<1>1. d \in Declaration /\ Redeclared(h, h, r)
  BY DEF HostShape, Redeclared, SameOwners
<1>2. CASE early
  BY <1>1, <1>2 DEF StartObservation
<1>3. CASE ~early
  <2>1. k = Probe(f, r, g, running, FALSE)
    BY <1>3 DEF StartObservation
  <2>2. e \in Declaration /\ e.gen = g
    BY <1>1, <1>3 DEF Declaration
  <2>3. f = [h EXCEPT !.decl[r] = e]
    BY DEF HostShape
  <2> HIDE DEF e, f, k
  <2>4. Redeclared(h, f, r) /\ f.decl[r] = e
    BY <2>2, <2>3, Redeclaring
  <2>5. PICK no \in BOOLEAN : no = FALSE
    OBVIOUS
  <2>6. HostShape(f)
    BY <2>4 DEF Redeclared
  <2>7. Redeclared(f, k, r) /\ Timed(k, r)
    BY <2>1, <2>2, <2>4, <2>5, <2>6, ProbeStep
  <2>8. Redeclared(h, k, r)
    BY <2>4, <2>7 DEF Redeclared, SameOwners
  <2> QED
    BY <2>7, <2>8 DEF k
<1> QED
  BY <1>2, <1>3

(* An observation, late or not, keeps the lifecycle as it should be.       *)
LEMMA ProbeOK ==
  ASSUME NEW h, HostOK(h), NEW r \in Reg, NEW g, NEW running, NEW late
  PROVE  LET k == Probe(h, r, g, running, late) IN HostOK(k) /\ SameOwners(h, k)
<1> DEFINE k == Probe(h, r, g, running, late)
<1>1. HostShape(h) /\ Generations(h) /\ Watched(h) /\ Based(h)
  BY DEF HostOK
<1>2. Timed(h, r)
  BY <1>1 DEF Watched, Timed
<1>3. Redeclared(h, k, r) /\ Timed(k, r)
  BY <1>1, <1>2, ProbeStep
<1> HIDE DEF k
<1>4. Generations(k) /\ Watched(k) /\ Based(k)
  BY <1>1, <1>3, RedeclaredOK
<1>5. HostOK(k) /\ SameOwners(h, k)
  BY <1>3, <1>4 DEF HostOK, Redeclared
<1> QED
  BY <1>5 DEF k

LEMMA StartObservationOK ==
  ASSUME NEW h, HostOK(h), NEW r \in Reg, NEW g, NEW reset, NEW running
  PROVE  LET k == StartObservation(h, r, g, reset, running) IN HostOK(k) /\ SameOwners(h, k)
<1> DEFINE k == StartObservation(h, r, g, reset, running)
<1>1. HostShape(h) /\ Generations(h) /\ Watched(h) /\ Based(h)
  BY DEF HostOK
<1>2. Timed(h, r)
  BY <1>1 DEF Watched, Timed
<1>3. Redeclared(h, k, r) /\ Timed(k, r)
  BY <1>1, <1>2, StartObservationStep
<1> HIDE DEF k
<1>4. Generations(k) /\ Watched(k) /\ Based(k)
  BY <1>1, <1>3, RedeclaredOK
<1>5. HostOK(k) /\ SameOwners(h, k)
  BY <1>3, <1>4 DEF HostOK, Redeclared
<1> QED
  BY <1>5 DEF k

(* Nobody else is observed once the owner is retired or replaced.          *)
LEMMA Unwatched ==
  ASSUME NEW h, Watched(h), NEW r \in Reg, h.active.reg # r \/ h.active.phase # "active"
  PROVE  h.decl[r].obs \notin {"awaiting", "polling"}
BY DEF Watched, IsActive, Owns

LEMMA RetiringOK ==
  ASSUME NEW h, HostOK(h), NEW r \in Reg, NEW g, IsActive(h, r, g)
  PROVE  LET k == Retiring(h, r) IN
         /\ HostOK(k) /\ k.active = [h.active EXCEPT !.phase = "stopping"]
         /\ k.next = h.next /\ k.pending = h.pending /\ k.cb = h.cb /\ k.current = h.current
<1> DEFINE k == Retiring(h, r)
           a == [h.active EXCEPT !.phase = "stopping"]
           d == Retired(h.decl[r])
<1>1. HostShape(h) /\ Generations(h) /\ Watched(h) /\ Based(h)
  BY DEF HostOK
<1>2. h.decl[r] \in Declaration /\ h.active \in Owner
  BY <1>1 DEF HostShape
<1>3. d \in Declaration /\ d.obs \in {"none", "retired"}
  BY <1>2, RetiredType
<1>4. a \in Owner /\ a.gen = h.active.gen /\ a.reg = h.active.reg /\ a.phase = "stopping"
  BY <1>2 DEF Owner
<1>5. k = [h EXCEPT !.active = a, !.retire = "open", !.decl[r] = d]
  BY <1>1 DEF Retiring, HostShape
<1> HIDE DEF a, d, k
<1>6. /\ HostShape(k) /\ k.active = a /\ k.next = h.next /\ k.pending = h.pending
      /\ k.cb = h.cb /\ k.current = h.current
      /\ k.decl = [h.decl EXCEPT ![r] = d]
  BY <1>1, <1>3, <1>4, <1>5 DEF HostShape
<1>7. Generations(k)
  BY <1>1, <1>4, <1>6 DEF Generations
<1>8. Based(k)
  BY <1>1, <1>4, <1>6 DEF Based, Living, IsActive
<1>9. \A s \in Reg : k.decl[s].obs \notin {"awaiting", "polling"}
  <2>1. \A s \in Reg \ {r} : h.decl[s].obs \notin {"awaiting", "polling"}
    BY <1>1, Unwatched DEF IsActive, Owns
  <2>2. \A s \in Reg \ {r} : k.decl[s] = h.decl[s]
    BY <1>1, <1>6 DEF HostShape
  <2>3. k.decl[r] = d
    BY <1>1, <1>6 DEF HostShape
  <2> QED
    BY <1>3, <2>1, <2>2, <2>3
<1>10. Watched(k)
  BY <1>9 DEF Watched
<1> QED
  BY <1>6, <1>7, <1>8, <1>10 DEF HostOK, k, a

LEMMA SettledOK ==
  ASSUME NEW h, HostOK(h), h.active.phase = "stopping", NEW r \in Reg, NEW ok \in BOOLEAN
  PROVE  LET k == Settled(h, r, ok) IN
         /\ HostOK(k) /\ k.active.gen = h.active.gen /\ k.active.reg = h.active.reg
         /\ k.active.phase \in {"stopped", "failed"}
         /\ k.next = h.next /\ k.pending = h.pending /\ k.cb = h.cb /\ k.current = h.current
<1> DEFINE p == h.pending.reg
           failedToo == ~ok /\ h.pending # NoOwner /\ p # r
           d == [Retired(h.decl[r]) EXCEPT !.state = IF ok /\ h.pending # NoOwner /\ p = r
                                                     THEN "shadow" ELSE "retired"]
           a == [h.active EXCEPT !.phase = IF ok THEN "stopped" ELSE "failed"]
           f == [s \in Reg |-> CASE s = r -> d
                                 [] s # r /\ s = p /\ failedToo ->
                                      [Retired(h.decl[s]) EXCEPT !.state = "retired"]
                                 [] OTHER -> h.decl[s]]
           k == Settled(h, r, ok)
<1>1. HostShape(h) /\ Generations(h) /\ Watched(h) /\ Based(h)
  BY DEF HostOK
<1>2. h.decl \in [Reg -> Declaration] /\ h.active \in Owner
  BY <1>1 DEF HostShape
<1>3. a \in Owner /\ a.gen = h.active.gen /\ a.reg = h.active.reg /\ a.phase \in {"stopped", "failed"}
  BY <1>2 DEF Owner
<1>4. \A s \in Reg : LET e == [Retired(h.decl[s]) EXCEPT !.state = "retired"] IN
        e \in Declaration /\ e.obs \notin {"awaiting", "polling"}
  BY <1>2, RetiredType DEF Declaration
<1>5. d \in Declaration /\ d.obs \notin {"awaiting", "polling"}
  BY <1>2, RetiredType DEF Declaration
<1>6. \A s \in Reg : h.decl[s] \in Declaration /\ h.decl[s].obs \notin {"awaiting", "polling"}
  BY <1>1, <1>2, Unwatched
<1>7. \A s \in Reg : f[s] \in Declaration /\ f[s].obs \notin {"awaiting", "polling"}
  BY <1>4, <1>5, <1>6
<1>8. k = [h EXCEPT !.active = a, !.retire = IF ok THEN "ok" ELSE "failed", !.decl = f]
  <2>1. k = [h EXCEPT !.active.phase = IF ok THEN "stopped" ELSE "failed",
        !.retire = IF ok THEN "ok" ELSE "failed", !.decl = f]
    BY <1>1 DEF Settled, HostShape
  <2> HIDE DEF f, k
  <2> QED
    BY <1>1, <2>1 DEF HostShape
<1>9. f \in [Reg -> Declaration]
  BY <1>7
<1>10. \A s \in Reg : f[s].obs \notin {"awaiting", "polling"}
  BY <1>7
<1> HIDE DEF a, f, k, d
<1>11. /\ HostShape(k) /\ k.active = a /\ k.next = h.next /\ k.pending = h.pending
       /\ k.cb = h.cb /\ k.current = h.current /\ k.decl = f
  BY <1>1, <1>3, <1>8, <1>9 DEF HostShape
<1>12. Generations(k)
  BY <1>1, <1>3, <1>11 DEF Generations
<1>13. Based(k)
  BY <1>1, <1>3, <1>11 DEF Based, Living
<1>14. Watched(k)
  BY <1>10, <1>11 DEF Watched
<1> QED
  BY <1>3, <1>11, <1>12, <1>13, <1>14 DEF HostOK, k

LEMMA FailedStartOK ==
  ASSUME NEW h, HostOK(h), NEW r \in Reg, NEW g
  PROVE  LET k == FailedStart(h, r, g) IN
         /\ HostOK(k) /\ k.active.gen = h.active.gen /\ k.active.reg = h.active.reg
         /\ IF IsActive(h, r, g) THEN k.active.phase = "failed" ELSE k = h
         /\ k.next = h.next /\ k.pending = h.pending /\ k.cb = h.cb /\ k.current = h.current
<1>1. HostShape(h) /\ Generations(h) /\ Watched(h) /\ Based(h)
  BY DEF HostOK
<1>2. CASE ~IsActive(h, r, g)
  BY <1>2 DEF FailedStart
<1>3. CASE IsActive(h, r, g)
  <2> DEFINE k == FailedStart(h, r, g)
             a == [h.active EXCEPT !.phase = "failed"]
             d == [Retired(h.decl[r]) EXCEPT !.state = "retired"]
  <2>1. h.decl[r] \in Declaration /\ h.active \in Owner
    BY <1>1 DEF HostShape
  <2>2. d \in Declaration /\ d.obs \notin {"awaiting", "polling"}
    BY <2>1, RetiredType DEF Declaration
  <2>3. a \in Owner /\ a.gen = h.active.gen /\ a.reg = h.active.reg /\ a.phase = "failed"
    BY <2>1 DEF Owner
  <2>4. k = [h EXCEPT !.active = a, !.decl[r] = d]
    BY <1>1, <1>3 DEF FailedStart, HostShape
  <2> HIDE DEF a, d, k
  <2>5. /\ HostShape(k) /\ k.active = a /\ k.next = h.next /\ k.pending = h.pending
        /\ k.cb = h.cb /\ k.current = h.current /\ k.decl = [h.decl EXCEPT ![r] = d]
    BY <1>1, <2>2, <2>3, <2>4 DEF HostShape
  <2>6. Generations(k)
    BY <1>1, <2>3, <2>5 DEF Generations
  <2>7. Based(k)
    BY <1>1, <2>3, <2>5 DEF Based, Living
  <2>8. \A s \in Reg : k.decl[s].obs \notin {"awaiting", "polling"}
    <3>1. \A s \in Reg \ {r} : h.decl[s].obs \notin {"awaiting", "polling"}
      BY <1>1, <1>3, Unwatched DEF IsActive, Owns
    <3>2. \A s \in Reg \ {r} : k.decl[s] = h.decl[s]
      BY <1>1, <2>5 DEF HostShape
    <3>3. k.decl[r] = d
      BY <1>1, <2>5 DEF HostShape
    <3> QED
      BY <2>2, <3>1, <3>2, <3>3
  <2>9. Watched(k)
    BY <2>8 DEF Watched
  <2> QED
    BY <1>3, <2>3, <2>5, <2>6, <2>7, <2>9 DEF HostOK, k
<1> QED
  BY <1>2, <1>3

LEMMA ResumedOK ==
  ASSUME NEW h, HostOK(h), NEW r \in Reg, NEW g, NEW running
  PROVE  LET k == Resumed(h, r, g, running) IN HostOK(k) /\ SameOwners(h, k)
<1> DEFINE d == [h.decl[r] EXCEPT !.state = "active"]
           f == [h EXCEPT !.decl[r].state = "active"]
           k == Resumed(h, r, g, running)
<1>1. HostShape(h) /\ Generations(h) /\ Watched(h) /\ Based(h)
  BY DEF HostOK
<1>2. f = [h EXCEPT !.decl[r] = d]
  BY <1>1 DEF HostShape
<1>3. h.decl[r] \in Declaration
  BY <1>1 DEF HostShape
<1>4. d \in Declaration /\ d.gen = h.decl[r].gen /\ d.obs = h.decl[r].obs
      /\ d.timer = h.decl[r].timer /\ d.registration = h.decl[r].registration
      /\ d.state = "active"
  BY <1>3 DEF Declaration
<1> HIDE DEF d, f
<1>5. Redeclared(h, f, r) /\ f.decl[r] = d
  BY <1>1, <1>2, <1>4, Redeclaring
<1>6. Timed(f, r)
  BY <1>1, <1>4, <1>5 DEF Watched, Timed, Redeclared, SameOwners, IsActive, Owns
<1>7. HostOK(f) /\ SameOwners(h, f)
  BY <1>1, <1>5, <1>6, RedeclaredOK DEF HostOK, Redeclared
<1>8. k = StartObservation(f, r, g, FALSE, running)
  BY DEF Resumed, f
<1>9. PICK no \in BOOLEAN : no = FALSE
  OBVIOUS
<1> HIDE DEF k
<1>10. HostOK(k) /\ SameOwners(f, k)
  BY <1>7, <1>8, <1>9, StartObservationOK
<1> QED
  BY <1>7, <1>10 DEF SameOwners, k

LEMMA AdoptStep ==
  ASSUME NEW h, HostShape(h), NEW mode, CanBuild(h, mode)
  PROVE  LET k == Adopt(h, mode) IN
         /\ HostShape(k) /\ k.current \in Main /\ k.decl = h.decl
         /\ k.next = h.next /\ k.active = h.active /\ k.pending = h.pending /\ k.cb = h.cb
<1>1. CASE Builds(h, mode)
  <2>1. h.made + 1 \in 1..Len(Pool)
    BY <1>1 DEF HostShape, CanBuild
  <2>2. Pool[h.made + 1] \in Main /\ h.made + 1 \in 0..Len(Pool)
    BY <2>1, ServiceAssumption DEF Main
  <2>3. Adopt(h, mode) = [h EXCEPT !.made = h.made + 1, !.current = Pool[h.made + 1]]
    BY <1>1 DEF Adopt, HostShape
  <2> QED
    BY <2>2, <2>3 DEF HostShape
<1>2. CASE ~Builds(h, mode)
  BY <1>2 DEF Adopt, Builds, HostShape
<1> QED
  BY <1>1, <1>2

LEMMA ActivatedOK ==
  ASSUME NEW h, HostOK(h), NEW r \in Reg, NEW g, NEW mode, NEW running,
         CanActivate(h, r, g), CanBuild(h, mode)
  PROVE  LET k == Activated(h, r, g, mode, running) IN
         /\ HostOK(k) /\ k.active = h.pending /\ k.pending = NoOwner
         /\ k.next = h.next /\ k.cb = h.cb /\ k.current \in Main
<1> DEFINE d == [h.decl[r] EXCEPT !.state = "active"]
           owner == [h EXCEPT !.active = h.pending, !.pending = NoOwner, !.retire = "none",
                              !.decl[r].state = "active"]
           f == Adopt(owner, mode)
           k == Activated(h, r, g, mode, running)
<1>1. HostShape(h) /\ Generations(h) /\ Watched(h) /\ Based(h)
  BY DEF HostOK
<1>2. h.decl[r] \in Declaration
  BY <1>1 DEF HostShape
<1>3. d \in Declaration /\ d.obs = h.decl[r].obs
  BY <1>2 DEF Declaration
<1>4. owner = [h EXCEPT !.active = h.pending, !.pending = NoOwner, !.retire = "none", !.decl[r] = d]
  BY <1>1 DEF HostShape
<1> HIDE DEF d, owner
<1>5. /\ HostShape(owner) /\ owner.active = h.pending /\ owner.pending = NoOwner
      /\ owner.next = h.next /\ owner.cb = h.cb /\ owner.decl = [h.decl EXCEPT ![r] = d]
      /\ owner.current = h.current /\ owner.made = h.made
  BY <1>1, <1>3, <1>4, Constants DEF HostShape
<1>6. \A s \in Reg : h.decl[s].obs \notin {"awaiting", "polling"}
  BY <1>1, Unwatched DEF CanActivate
<1>7. \A s \in Reg : owner.decl[s].obs \notin {"awaiting", "polling"}
  BY <1>1, <1>3, <1>5, <1>6 DEF HostShape
<1>8. CanBuild(owner, mode)
  BY <1>5 DEF CanBuild, Builds
<1> HIDE DEF f
<1>9. /\ HostShape(f) /\ f.current \in Main /\ f.decl = owner.decl
      /\ f.next = owner.next /\ f.active = owner.active /\ f.pending = owner.pending
      /\ f.cb = owner.cb
  BY <1>5, <1>8, AdoptStep DEF f
<1>10. Generations(f)
  BY <1>1, <1>5, <1>9, Constants DEF Generations, HostShape
<1>11. Watched(f) /\ Based(f)
  BY <1>7, <1>9 DEF Watched, Based
<1>12. k = StartObservation(f, r, g, TRUE, running)
  BY DEF Activated, f, owner
<1>13. PICK yes \in BOOLEAN : yes = TRUE
  OBVIOUS
<1> HIDE DEF k
<1>14. HostOK(k) /\ SameOwners(f, k)
  BY <1>9, <1>10, <1>11, <1>12, <1>13, StartObservationOK DEF HostOK
<1> QED
  BY <1>5, <1>9, <1>14 DEF SameOwners, k

LEMMA ActivationFailedOK ==
  ASSUME NEW h, HostOK(h), NEW r \in Reg, NEW g, CanActivate(h, r, g)
  PROVE  LET k == ActivationFailed(h, r) IN
         /\ HostOK(k) /\ k.active.gen = h.pending.gen /\ k.active.reg = h.pending.reg
         /\ k.active.phase = "failed" /\ k.pending = NoOwner
         /\ k.next = h.next /\ k.cb = h.cb /\ k.current = h.current
<1> DEFINE a == [h.pending EXCEPT !.phase = "failed"]
           d == [Retired(h.decl[r]) EXCEPT !.registration = "failed", !.state = "retired"]
           k == ActivationFailed(h, r)
<1>1. HostShape(h) /\ Generations(h) /\ Watched(h) /\ Based(h)
  BY DEF HostOK
<1>2. h.decl[r] \in Declaration /\ h.pending \in Owner
  BY <1>1 DEF HostShape
<1>3. d \in Declaration /\ d.obs \notin {"awaiting", "polling"}
  BY <1>2, RetiredType DEF Declaration
<1>4. a \in Owner /\ a.gen = h.pending.gen /\ a.reg = h.pending.reg /\ a.phase = "failed"
  BY <1>2 DEF Owner
<1>5. k = [h EXCEPT !.active = a, !.pending = NoOwner, !.retire = "none", !.decl[r] = d]
  BY <1>1 DEF ActivationFailed, HostShape
<1> HIDE DEF a, d, k
<1>6. /\ HostShape(k) /\ k.active = a /\ k.pending = NoOwner /\ k.next = h.next
      /\ k.cb = h.cb /\ k.current = h.current /\ k.decl = [h.decl EXCEPT ![r] = d]
  BY <1>1, <1>3, <1>4, <1>5, Constants DEF HostShape
<1>7. Generations(k)
  BY <1>1, <1>4, <1>6, Constants DEF Generations, HostShape
<1>8. Based(k)
  BY <1>1, <1>4, <1>6 DEF Based, Living
<1>9. \A s \in Reg : h.decl[s].obs \notin {"awaiting", "polling"}
  BY <1>1, Unwatched DEF CanActivate
<1>10. \A s \in Reg : k.decl[s].obs \notin {"awaiting", "polling"}
  BY <1>1, <1>3, <1>6, <1>9 DEF HostShape
<1>11. Watched(k)
  BY <1>10 DEF Watched
<1> QED
  BY <1>4, <1>6, <1>7, <1>8, <1>11 DEF HostOK, k

LEMMA ReactivatedOK ==
  ASSUME NEW h, HostOK(h), NEW r \in Reg, NEW g, NEW running,
         CanReactivate(h, r, g), h.current \in Main
  PROVE  LET k == Reactivated(h, r, g, running) IN
         /\ HostOK(k) /\ k.active = [h.active EXCEPT !.phase = "active"]
         /\ k.next = h.next /\ k.pending = h.pending /\ k.cb = h.cb /\ k.current \in Main
<1> DEFINE a == [h.active EXCEPT !.phase = "active"]
           d == [h.decl[r] EXCEPT !.state = "active"]
           e == [h EXCEPT !.active.phase = "active", !.decl[r].state = "active"]
           f == Adopt(e, "reuse")
           k == Reactivated(h, r, g, running)
<1>1. HostShape(h) /\ Generations(h) /\ Watched(h) /\ Based(h)
  BY DEF HostOK
<1>2. h.decl[r] \in Declaration /\ h.active \in Owner
  BY <1>1 DEF HostShape
<1>3. d \in Declaration /\ d.obs = h.decl[r].obs
  BY <1>2 DEF Declaration
<1>4. a \in Owner /\ a.gen = h.active.gen
  BY <1>2 DEF Owner
<1>5. e = [h EXCEPT !.active = a, !.decl[r] = d]
  BY <1>1 DEF HostShape
<1> HIDE DEF a, d, e
<1>6. /\ HostShape(e) /\ e.active = a /\ e.pending = h.pending /\ e.next = h.next
      /\ e.cb = h.cb /\ e.decl = [h.decl EXCEPT ![r] = d]
      /\ e.current = h.current /\ e.made = h.made
  BY <1>1, <1>3, <1>4, <1>5 DEF HostShape
<1>7. \A s \in Reg : h.decl[s].obs \notin {"awaiting", "polling"}
  BY <1>1, Unwatched DEF CanReactivate
<1>8. \A s \in Reg : e.decl[s].obs \notin {"awaiting", "polling"}
  BY <1>1, <1>3, <1>6, <1>7 DEF HostShape
<1>9. CanBuild(e, "reuse")
  BY <1>6, ServiceAssumption DEF CanBuild, Builds, Main
<1> HIDE DEF f
<1>10. /\ HostShape(f) /\ f.current \in Main /\ f.decl = e.decl /\ f.next = e.next
       /\ f.active = e.active /\ f.pending = e.pending /\ f.cb = e.cb
  BY <1>6, <1>9, AdoptStep DEF f
<1>11. Generations(f)
  BY <1>1, <1>4, <1>6, <1>10 DEF Generations
<1>12. Watched(f) /\ Based(f)
  BY <1>8, <1>10 DEF Watched, Based
<1>13. k = StartObservation(f, r, g, TRUE, running)
  BY DEF Reactivated, f, e
<1>14. PICK yes \in BOOLEAN : yes = TRUE
  OBVIOUS
<1> HIDE DEF k
<1>15. HostOK(k) /\ SameOwners(f, k)
  BY <1>10, <1>11, <1>12, <1>13, <1>14, StartObservationOK DEF HostOK
<1> QED
  BY <1>6, <1>10, <1>15 DEF SameOwners, k, a

-----------------------------------------------------------------------------
(* The registration.                                                       *)

Unobserved(d) == d.obs \notin {"awaiting", "polling"}
Quiet(h) == \A s \in Reg : Unobserved(h.decl[s])

(* k is h with some declarations changed that are not observed.            *)
LEMMA WatchedKeeps ==
  ASSUME NEW h, NEW k, Watched(h), k.active = h.active \/ Quiet(h),
         \A s \in Reg : k.decl[s] = h.decl[s] \/ Unobserved(k.decl[s])
  PROVE  Watched(k)
<1> SUFFICES ASSUME NEW s \in Reg, ~Unobserved(k.decl[s]) PROVE Timed(k, s)
  BY DEF Watched, Timed, Unobserved
<1>1. k.decl[s] = h.decl[s] /\ k.active = h.active
  BY DEF Quiet, Unobserved
<1> QED
  BY <1>1 DEF Watched, Timed, IsActive, Owns

LEMMA CompleteOK ==
  ASSUME NEW h, HostOK(h), NEW r \in Reg, NEW running
  PROVE  LET k == Complete(h, r, running) IN HostOK(k) /\ SameOwners(h, k)
<1> DEFINE d == [h.decl[r] EXCEPT !.registration = "complete"]
           done == [h EXCEPT !.decl[r].registration = "complete"]
           k == Complete(h, r, running)
<1>1. HostShape(h) /\ Generations(h) /\ Watched(h) /\ Based(h)
  BY DEF HostOK
<1>2. done = [h EXCEPT !.decl[r] = d]
  BY <1>1 DEF HostShape
<1>3. h.decl[r] \in Declaration
  BY <1>1 DEF HostShape
<1>4. d \in Declaration /\ d.gen = h.decl[r].gen /\ d.obs = h.decl[r].obs
      /\ d.timer = h.decl[r].timer /\ d.registration = "complete"
      /\ d.state = h.decl[r].state
  BY <1>3 DEF Declaration
<1> HIDE DEF d, done
<1>5. Redeclared(h, done, r) /\ done.decl[r] = d
  BY <1>1, <1>2, <1>4, Redeclaring
<1>6. Timed(done, r)
  BY <1>1, <1>4, <1>5 DEF Watched, Timed, Redeclared, SameOwners, IsActive, Owns
<1>7. HostOK(done) /\ SameOwners(h, done)
  BY <1>1, <1>5, <1>6, RedeclaredOK DEF HostOK, Redeclared
<1>8. CASE h.decl[r].state = "active"
  <2>1. k = StartObservation(done, r, h.decl[r].gen, FALSE, running)
    BY <1>8 DEF Complete, done
  <2>2. PICK no \in BOOLEAN : no = FALSE
    OBVIOUS
  <2> HIDE DEF k
  <2>3. HostOK(k) /\ SameOwners(done, k)
    BY <1>7, <2>1, <2>2, StartObservationOK
  <2> QED
    BY <1>7, <2>3 DEF SameOwners, k
<1>9. CASE h.decl[r].state # "active"
  BY <1>7, <1>9 DEF Complete, done
<1> QED
  BY <1>8, <1>9

LEMMA DeclareStep ==
  ASSUME NEW h, HostShape(h), NEW r \in Reg, NEW g \in Nat, Unobserved(h.decl[r])
  PROVE  LET k == Declare(h, r, g) IN
         /\ HostShape(k) /\ k.next = h.next /\ k.active = h.active /\ k.pending = h.pending
         /\ k.current = h.current /\ k.made = h.made
         /\ \A s \in Reg : k.decl[s] = h.decl[s] \/ Unobserved(k.decl[s])
         /\ \A s \in Reg : k.cb[s] = h.cb[s] \/ k.cb[s] = g
<1> DEFINE k == Declare(h, r, g)
           d == [h.decl[r] EXCEPT !.declared = TRUE, !.gen = g]
<1>1. CASE h.decl[r].declared
  BY <1>1 DEF Declare
<1>2. CASE ~h.decl[r].declared
  <2>1. k = [h EXCEPT !.decl[r] = d, !.cb[r] = g]
    BY <1>2 DEF Declare, HostShape
  <2>2. h.decl[r] \in Declaration
    BY DEF HostShape
  <2>3. d \in Declaration /\ Unobserved(d)
    BY <2>2 DEF Declaration, Unobserved
  <2> HIDE DEF d, k
  <2>4. /\ HostShape(k) /\ k.next = h.next /\ k.active = h.active /\ k.pending = h.pending
        /\ k.current = h.current /\ k.made = h.made
    BY <2>1, <2>3 DEF HostShape
  <2>5. k.decl = [h.decl EXCEPT ![r] = d] /\ k.cb = [h.cb EXCEPT ![r] = g]
    BY <2>1 DEF HostShape
  <2>6. \A s \in Reg : k.decl[s] = h.decl[s] \/ Unobserved(k.decl[s])
    BY <2>3, <2>5 DEF HostShape
  <2>7. \A s \in Reg : k.cb[s] = h.cb[s] \/ k.cb[s] = g
    BY <2>5 DEF HostShape
  <2> QED
    BY <2>4, <2>6, <2>7 DEF k
<1> QED
  BY <1>1, <1>2

Frees(h, kind, r, g) == kind \in {"initialize", "takeover"} /\ Owns(h.active, r, g)
FreesPending(h, kind, r, g) ==
  Frees(h, kind, r, g) \/ (kind = "defer" /\ Owns(h.pending, r, g))

LEMMA RecoverStep ==
  ASSUME NEW h, HostShape(h), NEW kind, NEW r \in Reg, NEW g
  PROVE  LET k == Recover(h, kind, r, g) IN
         /\ HostShape(k) /\ k.next = h.next /\ k.cb = h.cb /\ k.current = h.current
         /\ k.active = IF Frees(h, kind, r, g) THEN [h.active EXCEPT !.phase = "stopped"]
                       ELSE h.active
         /\ k.pending = IF FreesPending(h, kind, r, g) THEN NoOwner ELSE h.pending
         /\ \A s \in Reg : k.decl[s] = h.decl[s] \/ Unobserved(k.decl[s])
<1> DEFINE freed == CASE kind \in {"initialize", "takeover"} /\ Owns(h.active, r, g) ->
                           [h EXCEPT !.active.phase = "stopped", !.pending = NoOwner,
                                     !.retire = "none"]
                      [] kind = "defer" /\ Owns(h.pending, r, g) -> [h EXCEPT !.pending = NoOwner]
                      [] OTHER -> h
           d == [Retired(freed.decl[r]) EXCEPT !.registration = "failed", !.state = "retired"]
           k == Recover(h, kind, r, g)
           a == [h.active EXCEPT !.phase = "stopped"]
<1>1. a \in Owner
  BY DEF HostShape, Owner
<1>2. /\ HostShape(freed) /\ freed.next = h.next /\ freed.cb = h.cb /\ freed.current = h.current
      /\ freed.active = (IF Frees(h, kind, r, g) THEN a ELSE h.active)
      /\ freed.pending = (IF FreesPending(h, kind, r, g) THEN NoOwner ELSE h.pending)
      /\ freed.decl = h.decl
  <2>1. CASE Frees(h, kind, r, g)
    <3>1. freed = [h EXCEPT !.active = a, !.pending = NoOwner, !.retire = "none"]
      BY <2>1 DEF Frees, HostShape
    <3> HIDE DEF freed, a
    <3> QED
      BY <1>1, <2>1, <3>1, Constants DEF HostShape, FreesPending
  <2>2. CASE ~Frees(h, kind, r, g) /\ FreesPending(h, kind, r, g)
    <3>1. freed = [h EXCEPT !.pending = NoOwner]
      BY <2>2 DEF Frees, FreesPending
    <3> HIDE DEF freed, a
    <3> QED
      BY <2>2, <3>1, Constants DEF HostShape
  <2>3. CASE ~FreesPending(h, kind, r, g)
    <3>1. freed = h
      BY <2>3 DEF Frees, FreesPending
    <3> HIDE DEF freed, a
    <3> QED
      BY <2>3, <3>1 DEF FreesPending
  <2> QED
    BY <2>1, <2>2, <2>3
<1>3. k = IF h.decl[r] # NoDecl /\ h.decl[r].gen = g
          THEN [freed EXCEPT !.decl[r] = [Retired(@) EXCEPT !.registration = "failed",
                                                            !.state = "retired"]]
          ELSE freed
  BY DEF Recover
<1> HIDE DEF freed, k
<1>4. freed.decl[r] \in Declaration
  BY <1>2 DEF HostShape
<1>5. d \in Declaration /\ Unobserved(d)
  BY <1>4, RetiredType DEF Declaration, Unobserved
<1>6. k = IF h.decl[r] # NoDecl /\ h.decl[r].gen = g THEN [freed EXCEPT !.decl[r] = d] ELSE freed
  BY <1>2, <1>3 DEF HostShape
<1> HIDE DEF d
<1>7. HostShape(k)
  BY <1>2, <1>5, <1>6 DEF HostShape
<1>8. /\ k.next = h.next /\ k.cb = h.cb /\ k.current = h.current
      /\ k.active = freed.active /\ k.pending = freed.pending
  BY <1>2, <1>6 DEF HostShape
<1>9. \A s \in Reg : k.decl[s] = h.decl[s] \/ Unobserved(k.decl[s])
  BY <1>2, <1>5, <1>6 DEF HostShape
<1> QED
  BY <1>2, <1>7, <1>8, <1>9 DEF k, a

(* What the plan of a registration says of the owner it met.               *)
LEMMA PlanMeets ==
  ASSUME NEW h, HostShape(h), NEW r, NEW c
  PROVE  LET kind == Plan(h, r, c) IN
         /\ kind \in {"reject", "initialize", "takeover", "defer", "duplicate"}
         /\ kind \in {"initialize", "takeover"} => ~Living(h)
         /\ kind = "defer" => h.active.phase = "stopping"
BY Constants DEF Plan, Adoption, Living

(* A registration that takes over: the old declarations are retired.       *)
LEMMA CommitTakes ==
  ASSUME NEW h, HostShape(h), Generations(h), NEW kind \in {"initialize", "takeover"},
         NEW r \in Reg, NEW c \in Code
  PROVE  LET k == Commit(h, kind, r, c) IN
         /\ HostShape(k) /\ Generations(k) /\ Quiet(k)
         /\ k.next = h.next + 1 /\ k.cb = h.cb /\ k.current = h.current /\ k.made = h.made
         /\ k.active.gen = h.next /\ k.active.reg = r /\ k.active.phase = "active"
         /\ k.pending = NoOwner
<1> DEFINE new == [gen |-> h.next, reg |-> r, code |-> c, phase |-> "active"]
           d == [h.decl[r] EXCEPT !.code = c, !.gen = h.next, !.registration = "pending",
                                  !.state = "active", !.obs = "none", !.timer = FALSE]
           f == [s \in Reg |-> CASE s = r -> d
                    [] s # r /\ h.decl[s] # NoDecl -> [Retired(h.decl[s]) EXCEPT !.state = "retired"]
                    [] OTHER -> NoDecl]
           e == [h EXCEPT !.next = @ + 1, !.active = new, !.pending = NoOwner, !.retire = "none",
                          !.ledger = Entered(h, r), !.decl = f]
           k == Commit(h, kind, r, c)
<1>1. h.decl \in [Reg -> Declaration] /\ h.next \in Nat \ {0}
  BY DEF HostShape
<1>2. new \in Owner /\ new.gen = h.next /\ new.reg = r /\ new.phase = "active"
  BY <1>1 DEF Owner
<1>3. d \in Declaration /\ Unobserved(d)
  <2>1. h.decl[r] \in Declaration
    BY <1>1
  <2> QED
    BY <1>1, <2>1 DEF Declaration, Unobserved
<1>4. \A s \in Reg : LET g == [Retired(h.decl[s]) EXCEPT !.state = "retired"] IN
        g \in Declaration /\ Unobserved(g)
  BY <1>1, RetiredType DEF Declaration, Unobserved
<1>5. NoDecl \in Declaration /\ Unobserved(NoDecl)
  BY Constants DEF Unobserved
<1>6. k = Prune(e)
  <2>1. kind # "defer" /\ kind # "duplicate"
    OBVIOUS
  <2> QED
    BY <2>1 DEF Commit
<1> HIDE DEF new, d
<1>7. f \in [Reg -> Declaration] /\ \A s \in Reg : Unobserved(f[s])
  BY <1>3, <1>4, <1>5
<1> HIDE DEF f, k
<1>8. PICK n \in Nat \ {0} : n = h.next + 1
  BY <1>1
<1>9. PICK ledger : e = [h EXCEPT !.next = n, !.active = new, !.pending = NoOwner,
                                  !.retire = "none", !.ledger = ledger, !.decl = f]
  BY <1>8 DEF HostShape
<1> HIDE DEF e
<1>10. e.next = n /\ e.active = new /\ e.pending = NoOwner /\ e.retire = "none" /\ e.decl = f
       /\ e.mode = h.mode /\ e.cb = h.cb /\ e.current = h.current /\ e.made = h.made
  BY <1>9 DEF HostShape
<1>11. /\ HostShape(e) /\ e.next = h.next + 1 /\ e.active = new /\ e.pending = NoOwner
      /\ e.cb = h.cb /\ e.current = h.current /\ e.made = h.made /\ e.decl = f
  BY <1>2, <1>7, <1>8, <1>9, <1>10, Constants DEF HostShape
<1>12. HostShape(k) /\ SameOwners(e, k) /\ k.made = e.made
       /\ \A s \in Reg : k.decl[s] \in {e.decl[s], NoDecl}
  BY <1>6, <1>11, PruneOK
<1>13. Quiet(k)
  BY <1>5, <1>7, <1>11, <1>12 DEF Quiet
<1>14. /\ k.next = h.next + 1 /\ k.cb = h.cb /\ k.current = h.current /\ k.made = h.made
       /\ k.active.gen = h.next /\ k.active.reg = r /\ k.active.phase = "active"
       /\ k.pending = NoOwner
  BY <1>2, <1>11, <1>12 DEF SameOwners
<1>15. /\ k.active.gen < k.next /\ k.pending.gen < k.next /\ k.pending.phase = "none"
       /\ \A s \in Reg : k.cb[s] < k.next
  BY <1>1, <1>14, Constants DEF Generations, HostShape
<1>16. Generations(k)
  BY <1>14, <1>15 DEF Generations
<1> QED
  BY <1>12, <1>13, <1>14, <1>16 DEF k

(* One that has to wait for the owner to stop.                             *)
LEMMA CommitDefers ==
  ASSUME NEW h, HostOK(h), NEW r \in Reg, NEW c \in Code
  PROVE  LET k == Commit(h, "defer", r, c) IN
         /\ HostOK(k) /\ Unobserved(k.decl[r])
         /\ k.next = h.next + 1 /\ k.cb = h.cb /\ k.current = h.current
         /\ k.active = h.active /\ k.pending.gen = h.next /\ k.pending.reg = r
<1> DEFINE new == [gen |-> h.next, reg |-> r, code |-> c, phase |-> "active"]
           d == [h.decl[r] EXCEPT !.code = c, !.gen = h.next, !.registration = "pending",
                                  !.state = "shadow", !.obs = "none", !.timer = FALSE]
           m == IF h.active.code = c THEN "reuse" ELSE "replace"
           e == [h EXCEPT !.next = @ + 1, !.pending = new, !.mode = m,
                          !.ledger = Entered(h, r), !.decl[r] = d]
           k == Commit(h, "defer", r, c)
<1>1. HostShape(h) /\ Generations(h) /\ Watched(h) /\ Based(h)
  BY DEF HostOK
<1>2. h.decl \in [Reg -> Declaration] /\ h.next \in Nat \ {0} /\ h.decl[r] \in Declaration
  BY <1>1 DEF HostShape
<1>3. /\ new \in Owner /\ new.gen = h.next /\ new.reg = r /\ new.phase = "active"
      /\ m \in {"reuse", "replace"}
  BY <1>2 DEF Owner
<1>4. d \in Declaration /\ Unobserved(d)
  BY <1>2 DEF Declaration, Unobserved
<1>5. k = Prune(e)
  BY DEF Commit
<1> HIDE DEF new, d, k, m
<1>6. PICK n \in Nat \ {0} : n = h.next + 1
  BY <1>2
<1>7. PICK ledger : e = [h EXCEPT !.next = n, !.pending = new, !.mode = m, !.ledger = ledger,
                                  !.decl[r] = d]
  BY <1>1, <1>6 DEF HostShape
<1> HIDE DEF e
<1>8. /\ e.next = n /\ e.active = h.active /\ e.pending = new /\ e.retire = h.retire
      /\ e.mode = m /\ e.cb = h.cb /\ e.current = h.current /\ e.made = h.made
      /\ e.decl = [h.decl EXCEPT ![r] = d]
  BY <1>1, <1>7 DEF HostShape
<1>9. HostShape(e)
  BY <1>1, <1>3, <1>4, <1>7, <1>8 DEF HostShape
<1>10. Generations(e)
  <2>1. /\ h.active.gen \in Nat /\ h.active.gen < h.next /\ \A s \in Reg : h.cb[s] < h.next
        /\ \A s \in Reg : h.cb[s] \in Nat
    BY <1>1 DEF Generations, HostShape, Owner
  <2>2. /\ e.active.gen < e.next /\ e.pending.gen < e.next /\ \A s \in Reg : e.cb[s] < e.next
        /\ e.pending.gen > e.active.gen
    BY <1>2, <1>3, <1>6, <1>8, <2>1
  <2> QED
    BY <1>3, <1>8, <2>2 DEF Generations
<1>11. Based(e)
  BY <1>1, <1>8 DEF Based, Living
<1>12. \A s \in Reg : e.decl[s] = h.decl[s] \/ Unobserved(e.decl[s])
  BY <1>2, <1>4, <1>8
<1>13. Watched(e)
  BY <1>1, <1>8, <1>12, WatchedKeeps
<1>14. HostShape(k) /\ SameOwners(e, k) /\ \A s \in Reg : k.decl[s] \in {e.decl[s], NoDecl}
  BY <1>5, <1>9, PruneOK
<1>15. HostOK(k)
  BY <1>5, <1>9, <1>10, <1>11, <1>13, <1>14, PruneKeeps DEF HostOK
<1>16. Unobserved(k.decl[r])
  BY <1>2, <1>4, <1>8, <1>14, Constants DEF Unobserved
<1> QED
  BY <1>3, <1>6, <1>8, <1>14, <1>15, <1>16 DEF SameOwners, k

(* One that changes no owner.                                              *)
LEMMA CommitElse ==
  ASSUME NEW h, HostOK(h), NEW kind \in {"duplicate", "reject"}, NEW r \in Reg, NEW c \in Code
  PROVE  LET k == Commit(h, kind, r, c) IN HostOK(k) /\ SameOwners(h, k)
<1> DEFINE d0 == h.decl[r]
           d1 == [d0 EXCEPT !.code = c, !.gen = h.next, !.registration = "pending",
                            !.state = "shadow", !.obs = "none", !.timer = FALSE]
           st == IF r = h.active.reg /\ h.active.phase # "stopped" THEN "active"
                 ELSE IF r = h.pending.reg THEN "shadow" ELSE d0.state
           d2 == [d0 EXCEPT !.state = st]
           e1 == [h EXCEPT !.ledger = Entered(h, r), !.decl[r] = d1]
           e2 == [h EXCEPT !.decl[r].state = IF r = h.active.reg /\ h.active.phase # "stopped"
                              THEN "active" ELSE IF r = h.pending.reg THEN "shadow" ELSE @]
           k == Commit(h, kind, r, c)
<1>1. HostShape(h) /\ Generations(h) /\ Watched(h) /\ Based(h)
  BY DEF HostOK
<1>2. d0 \in Declaration /\ h.next \in Nat
  BY <1>1 DEF HostShape
<1>3. \E e : k = Prune(e) /\ HostOK(e) /\ SameOwners(h, e)
  <2>1. CASE kind = "duplicate" /\ h.decl[r] = NoDecl
    <3>1. k = Prune(e1)
      BY <2>1 DEF Commit
    <3>2. d1 \in Declaration /\ Unobserved(d1)
      BY <1>2 DEF Declaration, Unobserved
    <3>3. PICK ledger : e1 = [h EXCEPT !.ledger = ledger, !.decl[r] = d1]
      OBVIOUS
    <3> HIDE DEF e1, d1, k
    <3>4. HostShape(e1) /\ SameOwners(h, e1) /\ e1.decl = [h.decl EXCEPT ![r] = d1]
      BY <1>1, <3>2, <3>3 DEF HostShape, SameOwners
    <3>5. \A s \in Reg : e1.decl[s] = h.decl[s] \/ Unobserved(e1.decl[s])
      BY <1>1, <3>2, <3>4 DEF HostShape
    <3>6. Watched(e1)
      BY <1>1, <3>4, <3>5, WatchedKeeps DEF SameOwners
    <3>7. Generations(e1) /\ Based(e1)
      BY <1>1, <3>4 DEF Generations, Based, Living, SameOwners
    <3> QED
      BY <3>1, <3>4, <3>6, <3>7 DEF HostOK
  <2>2. CASE kind = "duplicate" /\ h.decl[r] # NoDecl
    <3>1. k = Prune(e2)
      BY <2>2 DEF Commit
    <3>2. e2 = [h EXCEPT !.decl[r] = d2]
      BY <1>1 DEF HostShape
    <3>3. st \in {"none", "active", "shadow", "retired"}
      BY <1>2 DEF Declaration
    <3>4. IsActive(h, r, d0.gen) => st = "active"
      BY DEF IsActive, Owns
    <3> HIDE DEF st
    <3>5. /\ d2 \in Declaration /\ d2.state = st /\ d2.obs = d0.obs /\ d2.timer = d0.timer
          /\ d2.registration = d0.registration /\ d2.gen = d0.gen
      BY <1>2, <3>3 DEF Declaration
    <3> HIDE DEF e2, d2, k
    <3>6. Redeclared(h, e2, r) /\ e2.decl[r] = d2
      BY <1>1, <3>2, <3>5, Redeclaring
    <3>7. Timed(e2, r)
      BY <1>1, <3>4, <3>5, <3>6 DEF Watched, Timed, Redeclared, SameOwners, IsActive, Owns
    <3>8. HostOK(e2) /\ SameOwners(h, e2)
      BY <1>1, <3>6, <3>7, RedeclaredOK DEF HostOK, Redeclared
    <3> QED
      BY <3>1, <3>8
  <2>3. CASE kind = "reject"
    <3>1. k = Prune(h)
      BY <2>3 DEF Commit
    <3> QED
      BY <3>1 DEF SameOwners
  <2> QED
    BY <2>1, <2>2, <2>3
<1>4. PICK e : k = Prune(e) /\ HostOK(e) /\ SameOwners(h, e)
  BY <1>3
<1> HIDE DEF k
<1>5. HostShape(k) /\ SameOwners(e, k)
  BY <1>4, PruneOK DEF HostOK
<1>6. HostOK(k)
  BY <1>4, <1>5, PruneKeeps DEF HostOK
<1> QED
  BY <1>4, <1>5, <1>6 DEF SameOwners, k

(* A registration waits for the owner, or takes over from one that is over. *)
Given(h, k) == k.next = h.next + 1 /\ \A s \in Reg : k.cb[s] \in {h.cb[s], h.next}
Deferred(h, k) == Given(h, k) /\ k.active = h.active /\ k.current = h.current
Taken(h, k) ==
  /\ Given(h, k) /\ ~Living(h) /\ k.active.gen = h.next /\ k.pending = NoOwner
  /\ h.current \in Main => k.current \in Main

LEMMA RegisteredTakes ==
  ASSUME NEW h, HostOK(h), NEW r \in Reg, NEW c \in Code, NEW outcome, NEW running,
         Plan(h, r, c) \in {"initialize", "takeover"},
         CanBuild(h, ModeOf(h, Plan(h, r, c), c))
  PROVE  LET k == Registered(h, r, c, outcome, running) IN HostOK(k) /\ Taken(h, k)
<1> DEFINE kind == Plan(h, r, c)
           g == h.next
           mode == ModeOf(h, kind, c)
           planned == Commit(h, kind, r, c)
           adopted == Adopt(planned, mode)
           declared == Declare(adopted, r, g)
           k == Registered(h, r, c, outcome, running)
<1>1. HostShape(h) /\ Generations(h) /\ Watched(h) /\ Based(h)
  BY DEF HostOK
<1>2. ~Living(h) /\ g \in Nat \ {0}
  BY <1>1, PlanMeets DEF HostShape
<1>3. k = CASE outcome = "adopt" -> Recover(planned, kind, r, g)
            [] outcome = "late" -> Recover(declared, kind, r, g)
            [] OTHER -> Prune(Complete(declared, r, running))
  BY DEF Registered
<1> HIDE DEF k
<1>4. /\ HostShape(planned) /\ Generations(planned) /\ Quiet(planned)
      /\ planned.next = h.next + 1 /\ planned.cb = h.cb /\ planned.current = h.current
      /\ planned.made = h.made
      /\ planned.active.gen = g /\ planned.active.reg = r /\ planned.active.phase = "active"
      /\ planned.pending = NoOwner
  BY <1>1, CommitTakes
<1> HIDE DEF planned
<1>5. CanBuild(planned, mode)
  BY <1>4 DEF CanBuild, Builds
<1>6. /\ HostShape(adopted) /\ adopted.current \in Main /\ adopted.decl = planned.decl
      /\ adopted.next = planned.next /\ adopted.active = planned.active
      /\ adopted.pending = planned.pending /\ adopted.cb = planned.cb
  BY <1>4, <1>5, AdoptStep
<1> HIDE DEF adopted
<1>7. Unobserved(adopted.decl[r])
  BY <1>4, <1>6 DEF Quiet
<1>8. /\ HostShape(declared) /\ declared.next = adopted.next /\ declared.active = adopted.active
      /\ declared.pending = adopted.pending /\ declared.current = adopted.current
      /\ \A s \in Reg : declared.decl[s] = adopted.decl[s] \/ Unobserved(declared.decl[s])
      /\ \A s \in Reg : declared.cb[s] = adopted.cb[s] \/ declared.cb[s] = g
  BY <1>2, <1>6, <1>7, DeclareStep
<1> HIDE DEF declared
<1>9. Quiet(declared)
  BY <1>4, <1>6, <1>8 DEF Quiet
<1>10. /\ \A s \in Reg : h.cb[s] \in Nat /\ h.cb[s] < h.next
       /\ \A s \in Reg : declared.cb[s] \in {h.cb[s], h.next}
  BY <1>1, <1>4, <1>6, <1>8 DEF Generations, HostShape
<1>11. Generations(declared) /\ Based(declared)
  <2>1. \A s \in Reg : declared.cb[s] < declared.next
    BY <1>2, <1>4, <1>6, <1>8, <1>10
  <2>2. Generations(declared)
    BY <1>4, <1>6, <1>8, <2>1 DEF Generations
  <2> QED
    BY <1>6, <1>8, <2>2 DEF Based
<1>12. /\ declared.next = h.next + 1 /\ declared.active = planned.active
       /\ declared.pending = NoOwner /\ declared.current \in Main
  BY <1>4, <1>6, <1>8
<1>13. ASSUME outcome = "adopt" PROVE HostOK(k) /\ Taken(h, k)
  <2>1. k = Recover(planned, kind, r, g)
    BY <1>3, <1>13
  <2>2. Frees(planned, kind, r, g)
    BY <1>2, <1>4 DEF Frees, Owns
  <2>3. /\ HostShape(k) /\ k.next = planned.next /\ k.cb = planned.cb
        /\ k.current = planned.current
        /\ k.active = [planned.active EXCEPT !.phase = "stopped"] /\ k.pending = NoOwner
        /\ \A s \in Reg : k.decl[s] = planned.decl[s] \/ Unobserved(k.decl[s])
    BY <1>4, <2>1, <2>2, RecoverStep DEF FreesPending
  <2>4. k.active.gen = g /\ k.active.phase = "stopped"
    BY <1>4, <2>3 DEF HostShape, Owner
  <2>5. Watched(k)
    BY <1>4, <2>3 DEF Quiet, Unobserved, Watched
  <2>6. Generations(k)
    BY <1>4, <2>3, <2>4 DEF Generations
  <2>7. Based(k)
    BY <1>1, <1>4, <2>3, <2>4 DEF Based, Living
  <2> QED
    BY <1>2, <1>4, <2>3, <2>4, <2>5, <2>6, <2>7 DEF HostOK, Taken, Given
<1>14. ASSUME outcome = "late" PROVE HostOK(k) /\ Taken(h, k)
  <2>1. k = Recover(declared, kind, r, g)
    BY <1>3, <1>14
  <2>2. Frees(declared, kind, r, g)
    BY <1>2, <1>4, <1>12 DEF Frees, Owns
  <2>3. /\ HostShape(k) /\ k.next = declared.next /\ k.cb = declared.cb
        /\ k.current = declared.current
        /\ k.active = [declared.active EXCEPT !.phase = "stopped"] /\ k.pending = NoOwner
        /\ \A s \in Reg : k.decl[s] = declared.decl[s] \/ Unobserved(k.decl[s])
    BY <1>8, <2>1, <2>2, RecoverStep DEF FreesPending
  <2>4. k.active.gen = g /\ k.active.phase = "stopped"
    BY <1>4, <1>8, <1>12, <2>3 DEF HostShape, Owner
  <2>5. Watched(k)
    BY <1>9, <2>3 DEF Quiet, Unobserved, Watched
  <2>6. Generations(k)
    BY <1>4, <1>11, <1>12, <2>3, <2>4 DEF Generations
  <2>7. Based(k)
    BY <1>12, <2>3 DEF Based
  <2> QED
    BY <1>2, <1>10, <1>12, <2>3, <2>4, <2>5, <2>6, <2>7 DEF HostOK, Taken, Given
<1>15. ASSUME outcome \notin {"adopt", "late"} PROVE HostOK(k) /\ Taken(h, k)
  <2> DEFINE e == Complete(declared, r, running)
  <2>1. k = Prune(e)
    BY <1>3, <1>15
  <2>2. HostOK(declared)
    BY <1>8, <1>9, <1>11 DEF HostOK, Quiet, Unobserved, Watched
  <2>3. HostOK(e) /\ SameOwners(declared, e)
    BY <2>2, CompleteOK
  <2> HIDE DEF e
  <2>4. HostShape(k) /\ SameOwners(e, k)
    BY <2>1, <2>3, PruneOK DEF HostOK
  <2>5. HostOK(k)
    BY <2>1, <2>3, <2>4, PruneKeeps DEF HostOK
  <2> QED
    BY <1>2, <1>4, <1>10, <1>12, <2>3, <2>4, <2>5 DEF SameOwners, Taken, Given
<1> QED
  BY <1>13, <1>14, <1>15 DEF k

LEMMA RegisteredElse ==
  ASSUME NEW h, HostOK(h), NEW r \in Reg, NEW c \in Code, NEW outcome, NEW running,
         Plan(h, r, c) \in {"defer", "duplicate", "reject"}
  PROVE  LET k == Registered(h, r, c, outcome, running) IN
         HostOK(k) /\ (SameOwners(h, k) \/ Deferred(h, k))
<1> DEFINE kind == Plan(h, r, c)
           g == h.next
           planned == Commit(h, kind, r, c)
           declared == IF kind = "defer" THEN Declare(planned, r, g) ELSE planned
           e == Complete(declared, r, running)
           k == Registered(h, r, c, outcome, running)
           Fits(x) == IF kind = "defer" THEN Deferred(h, x) ELSE SameOwners(h, x)
<1>1. HostShape(h) /\ Generations(h) /\ Watched(h) /\ Based(h)
  BY DEF HostOK
<1>2. g \in Nat \ {0}
  BY <1>1 DEF HostShape
<1>3. \/ k = Recover(planned, kind, r, g) \/ k = Recover(declared, kind, r, g)
      \/ k = Prune(declared) \/ k = Prune(e)
  BY DEF Registered
<1> HIDE DEF k
<1>4. /\ kind = "defer" => /\ HostOK(planned) /\ Unobserved(planned.decl[r])
                           /\ planned.next = h.next + 1 /\ planned.cb = h.cb
                           /\ planned.current = h.current /\ planned.active = h.active
      /\ kind # "defer" => HostOK(planned) /\ SameOwners(h, planned)
  BY CommitDefers, CommitElse
<1>5. kind = "defer" => h.current \in Main
  BY <1>1, PlanMeets DEF Based, Living
<1> HIDE DEF planned, kind
<1>6. HostOK(planned) /\ Fits(planned)
  BY <1>4 DEF Deferred, Given
<1>7. HostOK(declared) /\ Fits(declared)
  <2>1. ASSUME kind = "defer" PROVE HostOK(declared) /\ Deferred(h, declared)
    <3>1. HostShape(planned) /\ Generations(planned) /\ Watched(planned) /\ Based(planned)
      BY <1>6 DEF HostOK
    <3>2. declared = Declare(planned, r, g)
      BY <2>1
    <3>3. Unobserved(planned.decl[r])
      BY <1>4, <2>1
    <3> HIDE DEF declared
    <3>4. /\ HostShape(declared) /\ declared.next = planned.next
          /\ declared.active = planned.active /\ declared.pending = planned.pending
          /\ declared.current = planned.current
          /\ \A s \in Reg : declared.decl[s] = planned.decl[s] \/ Unobserved(declared.decl[s])
          /\ \A s \in Reg : declared.cb[s] = planned.cb[s] \/ declared.cb[s] = g
      BY <1>2, <3>1, <3>2, <3>3, DeclareStep
    <3>5. Watched(declared)
      BY <3>1, <3>4, WatchedKeeps
    <3>6. \A s \in Reg : declared.cb[s] < declared.next
      BY <1>2, <1>4, <2>1, <3>1, <3>4 DEF Generations
    <3>7. Generations(declared)
      BY <3>1, <3>4, <3>6 DEF Generations
    <3>8. Based(declared)
      BY <1>4, <1>5, <2>1, <3>4 DEF Based
    <3> QED
      BY <1>4, <2>1, <3>4, <3>5, <3>7, <3>8 DEF HostOK, Deferred, Given
  <2> QED
    BY <1>6, <2>1
<1> HIDE DEF declared
<1>8. ASSUME NEW x, HostOK(x), Fits(x), k = Recover(x, kind, r, g)
      PROVE  HostOK(k) /\ Fits(k)
  <2>1. HostOK(x) /\ HostShape(x) /\ Generations(x) /\ Watched(x) /\ Based(x) /\ Fits(x)
    BY <1>8 DEF HostOK
  <2>2. ~Frees(x, kind, r, g)
    BY DEF Frees, kind
  <2>3. /\ HostShape(k) /\ k.next = x.next /\ k.cb = x.cb /\ k.current = x.current
        /\ k.active = x.active
        /\ k.pending = NoOwner \/ k.pending = x.pending
        /\ kind # "defer" => k.pending = x.pending
        /\ \A s \in Reg : k.decl[s] = x.decl[s] \/ Unobserved(k.decl[s])
    <3>1. LET w == Recover(x, kind, r, g) IN
         /\ HostShape(w) /\ w.next = x.next /\ w.cb = x.cb /\ w.current = x.current
         /\ w.active = IF Frees(x, kind, r, g) THEN [x.active EXCEPT !.phase = "stopped"]
                       ELSE x.active
         /\ w.pending = IF FreesPending(x, kind, r, g) THEN NoOwner ELSE x.pending
         /\ \A s \in Reg : w.decl[s] = x.decl[s] \/ Unobserved(w.decl[s])
      BY <2>1, RecoverStep
    <3> QED
      BY <1>8, <2>2, <3>1 DEF FreesPending
  <2>4. Watched(k)
    BY <2>1, <2>3, WatchedKeeps
  <2>5. Based(k)
    BY <2>1, <2>3 DEF Based, Living
  <2>6. Generations(k)
    BY <1>2, <2>1, <2>3, Constants DEF Generations, HostShape, Owner
  <2> QED
    BY <2>1, <2>3, <2>4, <2>5, <2>6 DEF HostOK, Deferred, Given, SameOwners
<1>9. ASSUME NEW x, HostOK(x), Fits(x), k = Prune(x) PROVE HostOK(k) /\ Fits(k)
  <2>1. HostShape(x)
    BY <1>9 DEF HostOK
  <2>2. HostShape(k) /\ SameOwners(x, k)
    BY <1>9, <2>1, PruneOK
  <2>3. HostOK(k)
    BY <1>9, <2>1, <2>2, PruneKeeps DEF HostOK
  <2> QED
    BY <1>9, <2>2, <2>3 DEF SameOwners, Deferred, Given
<1>10. HostOK(e) /\ Fits(e)
  <2>1. HostOK(e) /\ SameOwners(declared, e)
    BY <1>7, CompleteOK
  <2> HIDE DEF e
  <2> QED
    BY <1>7, <2>1 DEF SameOwners, Deferred, Given
<1> HIDE DEF e, Fits
<1>11. HostOK(k) /\ Fits(k)
  <2>1. CASE k = Recover(planned, kind, r, g)
    BY <1>6, <1>8, <2>1
  <2>2. CASE k = Recover(declared, kind, r, g)
    BY <1>7, <1>8, <2>2
  <2>3. CASE k = Prune(declared) \/ k = Prune(e)
    BY <1>7, <1>9, <1>10, <2>3
  <2> QED
    BY <1>3, <2>1, <2>2, <2>3
<1> QED
  BY <1>11 DEF Fits, k

LEMMA RegisteredOK ==
  ASSUME NEW h, HostOK(h), NEW r \in Reg, NEW c \in Code, NEW outcome, NEW running,
         CanBuild(h, ModeOf(h, Plan(h, r, c), c))
  PROVE  LET k == Registered(h, r, c, outcome, running) IN
         HostOK(k) /\ (SameOwners(h, k) \/ Deferred(h, k) \/ Taken(h, k))
<1>1. Plan(h, r, c) \in {"reject", "initialize", "takeover", "defer", "duplicate"}
  BY PlanMeets DEF HostOK
<1>2. CASE Plan(h, r, c) \in {"initialize", "takeover"}
  BY <1>2, RegisteredTakes
<1>3. CASE Plan(h, r, c) \in {"defer", "duplicate", "reject"}
  BY <1>3, RegisteredElse
<1> QED
  BY <1>1, <1>2, <1>3

LEMMA FreshHostOK == HostOK(FreshHost)
<1> DEFINE h == FreshHost
<1>1. h = [next |-> 1, active |-> NoOwner, pending |-> NoOwner, mode |-> "reuse",
           retire |-> "none", decl |-> [r \in Reg |-> NoDecl], ledger |-> <<>>,
           cb |-> [r \in Reg |-> 0], current |-> 0, made |-> 0]
  BY DEF FreshHost
<1> HIDE DEF h
<1>2. [r \in Reg |-> NoDecl] \in [Reg -> Declaration] /\ 0 \in 0..Len(Pool)
  BY Constants, ServiceAssumption
<1>3. HostShape(h)
  BY <1>1, <1>2, Constants DEF HostShape
<1>4. Generations(h) /\ Watched(h) /\ Based(h)
  BY <1>1, Constants DEF Generations, Watched, Based, Living
<1> QED
  BY <1>3, <1>4 DEF HostOK, h

-----------------------------------------------------------------------------
(* The directory.                                                          *)

LEMMA EmptyTypes == Empty \in Queue /\ \A n \in Nat : NoScenes \in Times(n)
BY DEF Empty, Queue, NoScenes, Times

LEMMA QueueOfDisk ==
  ASSUME NEW n \in Nat, NEW d \in Directory(n)
  PROVE  /\ \A e : JsonRead(e, d) \in Queue
         /\ d.rows \in Queue /\ d.json \in Queue /\ d.legacy \in Queue
         /\ d.scenes \in Times(n) /\ d.jscenes \in Times(n)
BY EmptyTypes DEF JsonRead, Directory

LEMMA OpenedType ==
  ASSUME NEW n \in Nat, NEW d, DiskOK(d, n), NEW b, bridge[b].db > 0 \/ Opens(d)
  PROVE  DiskOK(Opened(d, b), n)
<1>1. CASE bridge[b].db > 0
  BY <1>1 DEF Opened
<1>2. CASE ~(bridge[b].db > 0)
  <2> DEFINE e == Recovered(d)
             c == Snapshot(e)
             all == <<c>> \o e.snaps
             k == IF Len(all) < SnapKeep THEN Len(all) ELSE SnapKeep
  <2>1. d.snaps \in Seq(Copy(n)) /\ d \in Directory(n)
    BY DEF DiskOK, Directory
  <2>2. e \in Directory(n)
    <3>1. CASE d.ok
      BY <2>1, <3>1 DEF Recovered
    <3>2. CASE ~d.ok
      <4>1. d.snaps # <<>> /\ Newest(d) \in Copy(n)
        BY <1>2, <2>1, <3>2 DEF Opens, Newest
      <4> QED
        BY <2>1, <3>2, <4>1 DEF Recovered, Directory, Copy
    <3> QED
      BY <3>1, <3>2
  <2> HIDE DEF e
  <2>3. c \in Copy(n) /\ e.snaps \in Seq(Copy(n))
    BY <2>2 DEF Snapshot, Copy, Directory
  <2> HIDE DEF c
  <2>4. all \in Seq(Copy(n)) /\ Len(all) \in Nat /\ Len(all) >= 1
    BY <2>3
  <2> HIDE DEF all
  <2>5. k \in Nat /\ k <= SnapKeep /\ k <= Len(all) /\ k >= 1
    BY <2>4, StateStoreAssumption
  <2> HIDE DEF k
  <2>6. SubSeq(all, 1, k) \in Seq(Copy(n)) /\ Len(SubSeq(all, 1, k)) = k
    BY <2>4, <2>5
  <2>7. Opened(d, b) = [e EXCEPT !.snaps = SubSeq(all, 1, k)]
    BY <1>2 DEF Opened, Rotated, e, all, c, k
  <2> QED
    BY <2>2, <2>5, <2>6, <2>7 DEF DiskOK, Directory
<1> QED
  BY <1>1, <1>2

LEMMA SavedType ==
  ASSUME NEW n \in Nat, NEW d, DiskOK(d, n), NEW b \in Bridge, bridge[b] \in Memory(n)
  PROVE  DiskOK(SavedToSqlite(d, b), n) /\ SavedToSqlite(d, b).scenes \in Times(n)
<1>1. d \in Directory(n) /\ bridge[b].q \in Queue /\ bridge[b].scenes \in Times(n)
  BY DEF DiskOK, Memory
<1>2. ScopedRows(d.rows, b, bridge[b].q) \in Queue
  BY <1>1 DEF ScopedRows, Queue, Directory
<1>3. ScopedScenes(d.scenes, b, bridge[b]) \in Times(n)
  <2>1. d.scenes \in Times(n)
    BY <1>1 DEF Directory
  <2> QED
    BY <1>1, <2>1 DEF ScopedScenes, Times
<1> QED
  BY <1>1, <1>2, <1>3 DEF SavedToSqlite, DiskOK, Directory

LEMMA MigratedType ==
  ASSUME NEW n \in Nat, NEW d, DiskOK(d, n)
  PROVE  DiskOK(Migrated(d), n)
BY DEF Migrated, DiskOK, Directory

LEMMA LoadTypes ==
  ASSUME NEW n \in Nat, NEW d, DiskOK(d, n), NEW b \in Bridge, NEW s \in Memory(n),
         NEW hasDb, NEW json \in Queue
  PROVE  LET q == LoadedQueue(d, b, hasDb, json) IN
         /\ q \in Queue /\ DiskOK(AfterLoad(d, b, q), n)
         /\ LoadedBridge(s, d, hasDb, q) \in Memory(n)
         /\ LoadedBridge(s, d, hasDb, q).gen = s.gen
         /\ LoadedBridge(s, d, hasDb, q).db = s.db
         /\ LoadedBridge(s, d, hasDb, q).closed = s.closed
         /\ LoadedBridge(s, d, hasDb, q).started = s.started
<1> DEFINE q == LoadedQueue(d, b, hasDb, json)
<1>1. d \in Directory(n) /\ d.rows \in Queue /\ d.scenes \in Times(n) /\ d.jscenes \in Times(n)
  BY DEF DiskOK, Directory
<1>2. q \in Queue
  BY <1>1 DEF LoadedQueue, Merged, Queue
<1> HIDE DEF q
<1>3. ScopedRows(d.rows, b, q) \in Queue
  BY <1>1, <1>2 DEF ScopedRows, Queue
<1>4. DiskOK(AfterLoad(d, b, q), n)
  BY <1>1, <1>2, <1>3 DEF AfterLoad, DiskOK, Directory, Mode
<1>5. LoadedScenes(d, hasDb) \in Times(n)
  BY <1>1 DEF LoadedScenes
<1>6. LET m == LoadedBridge(s, d, hasDb, q) IN
      m \in Memory(n) /\ m.gen = s.gen /\ m.db = s.db /\ m.closed = s.closed /\ m.started = s.started
  BY <1>2, <1>5 DEF LoadedBridge, Memory
<1> QED
  BY <1>2, <1>4, <1>6 DEF q

-----------------------------------------------------------------------------
(* Calls.                                                                  *)

Others(t) == \A u \in Task \ {t} : Same(task[u], task'[u]) /\ task'[u].pc = task[u].pc
Flushed(c, d, next) ==
  \/ Same(c, d) /\ d.pc \in {"fwrite", next} /\ d.pc # "idle"
  \/ next = "idle" /\ d = NoTask

LEMMA NoTaskType ==
  /\ \A n \in Nat : NoTask \in Call(n)
  /\ NoTask.kind = "idle" /\ NoTask.pc = "idle" /\ NoTask.sgen = 0
BY EmptyTypes DEF NoTask, Call, Stage

LEMMA GoesType ==
  ASSUME NEW n \in Nat, NEW c \in Call(n), NEW next \in Stage
  PROVE  LET d == Goes(c, next) IN
         /\ d \in Call(n)
         /\ IF next = "idle" THEN d = NoTask ELSE Same(c, d) /\ d.pc = next
BY NoTaskType DEF Goes, Call, Same

LEMMA SpendKeeps ==
  ASSUME LeftOK, NEW f, f # "ends", Spend(f)
  PROVE  LeftOK'
BY DEF LeftOK, Spend

LEMMA SnapshotsStep ==
  ASSUME StoreTypes, NEW t \in Task, NEW rec \in Call(clock), rec.b \in Bridge,
         NEW hasDb, NEW d, DiskOK(d, clock), NEW next \in Stage \ {"fwrite"},
         Snapshots(t, rec, hasDb, d, next)
  PROVE  /\ DiskOK(disk', clock) /\ GhostOK' /\ ghost'.stray = ghost.stray
         /\ task' \in [Task -> Call(clock)]
         /\ Others(t) /\ Flushed(rec, task'[t], next)
<1> DEFINE b == rec.b
           dual == hasDb /\ Dual(d)
           saved == IF dual THEN SavedToSqlite(d, b) ELSE d
           writes == bridge[b].path /\ ~(hasDb /\ d.mode = "sqlite")
           times == IF dual THEN saved.scenes ELSE bridge[b].scenes
           writer == [rec EXCEPT !.pc = "fwrite", !.data = bridge[b].q, !.newer = {}, !.stale = FALSE,
                                 !.scenes = times]
           x == IF writes THEN writer ELSE Goes(rec, next)
<1>1. clock \in Nat /\ bridge[b] \in Memory(clock) /\ task \in [Task -> Call(clock)]
  BY DEF StoreTypes, MemoryOK, TasksOK
<1>2. /\ disk' = saved
      /\ ghost' = IF dual \/ writes THEN NoteSave(ghost, dual, b, rec.kind) ELSE ghost
      /\ task' = [u \in Task |->
           CASE u = t -> x
             [] u # t /\ task[u].pc = "fwrite" ->
                  IF writes THEN [task[u] EXCEPT !.newer = @ \cup {t}]
                  ELSE [task[u] EXCEPT !.stale = TRUE]
             [] OTHER -> task[u]]
  BY DEF Snapshots
<1>3. DiskOK(saved, clock) /\ times \in Times(clock) /\ bridge[b].q \in Queue
  BY <1>1, SavedType DEF Memory
<1>4. DiskOK(disk', clock)
  BY <1>2, <1>3
<1>5. GhostOK' /\ ghost'.stray = ghost.stray
  BY <1>2 DEF StoreTypes, GhostOK, NoteSave
<1> HIDE DEF saved, times
<1>6. writer \in Call(clock) /\ Same(rec, writer) /\ writer.pc = "fwrite"
  BY <1>3 DEF Call, Same, Stage
<1>7. Goes(rec, next) \in Call(clock) /\ Flushed(rec, Goes(rec, next), next)
  BY <1>1, GoesType DEF Flushed
<1> HIDE DEF writer, writes
<1>8. x \in Call(clock) /\ Flushed(rec, x, next)
  BY <1>6, <1>7 DEF Flushed
<1>9. \A u \in Task :
        LET y == [task[u] EXCEPT !.newer = @ \cup {t}]
            z == [task[u] EXCEPT !.stale = TRUE]
        IN /\ y \in Call(clock) /\ Same(task[u], y) /\ y.pc = task[u].pc
           /\ z \in Call(clock) /\ Same(task[u], z) /\ z.pc = task[u].pc
  BY <1>1 DEF Call, Same
<1> HIDE DEF x
<1>10. \A u \in Task : task'[u] \in Call(clock)
  BY <1>1, <1>2, <1>8, <1>9
<1>11. task' \in [Task -> Call(clock)]
  BY <1>2, <1>10
<1>12. task'[t] = x
  BY <1>2
<1>13. Others(t)
  <2> SUFFICES ASSUME NEW u \in Task \ {t}
               PROVE Same(task[u], task'[u]) /\ task'[u].pc = task[u].pc
    BY DEF Others
  <2>1. \/ task'[u] = task[u] \/ task'[u] = [task[u] EXCEPT !.newer = @ \cup {t}]
        \/ task'[u] = [task[u] EXCEPT !.stale = TRUE]
    BY <1>2
  <2> QED
    BY <1>9, <2>1 DEF Same
<1> QED
  BY <1>4, <1>5, <1>8, <1>11, <1>12, <1>13

LEMMA CallsFlushStep ==
  ASSUME StoreTypes, NEW t \in Task, NEW rec \in Call(clock), rec.b \in Bridge,
         NEW s \in Memory(clock), NEW next \in Stage \ {"fwrite"},
         CallsFlush(t, rec, s, next)
  PROVE  /\ DiskOK(disk', clock) /\ GhostOK' /\ ghost'.stray = ghost.stray
         /\ task' \in [Task -> Call(clock)] /\ Others(t)
         /\ Flushed(rec, task'[t], next) \/ (Same(rec, task'[t]) /\ task'[t].pc = "fopen")
<1>1. CASE s.db > 0 \/ s.closed \/ ~s.path
  <2>1. Snapshots(t, rec, s.db > 0, disk, next)
    BY <1>1 DEF CallsFlush
  <2>2. PICK open : open <=> s.db > 0
    OBVIOUS
  <2>3. Snapshots(t, rec, open, disk, next)
    BY <2>1, <2>2 DEF Snapshots
  <2> QED
    BY <2>3, SnapshotsStep DEF StoreTypes
<1>2. CASE ~(s.db > 0 \/ s.closed \/ ~s.path)
  <2> DEFINE x == [rec EXCEPT !.pc = "fopen", !.hold = s.gen]
  <2>1. task' = [task EXCEPT ![t] = x] /\ UNCHANGED <<disk, ghost>>
    BY <1>2 DEF CallsFlush
  <2>2. x \in Call(clock) /\ Same(rec, x) /\ x.pc = "fopen"
    BY DEF Call, Same, Stage, Memory
  <2> HIDE DEF x
  <2>3. task \in [Task -> Call(clock)]
    BY DEF StoreTypes, TasksOK
  <2>4. task' \in [Task -> Call(clock)] /\ task'[t] = x /\ \A u \in Task \ {t} : task'[u] = task[u]
    BY <2>1, <2>2, <2>3
  <2> QED
    BY <2>1, <2>2, <2>4 DEF StoreTypes, GhostOK, Others, Same
<1> QED
  BY <1>1, <1>2

-----------------------------------------------------------------------------
(* Steps of one call on one bridge.                                        *)

LEMMA OneBridge ==
  ASSUME MemoryOK, NEW b \in Bridge, NEW s \in Memory(clock), HandleOK(s),
         bridge' = [bridge EXCEPT ![b] = s], clock' = clock
  PROVE  /\ MemoryOK' /\ bridge'[b] = s /\ \A c \in Bridge \ {b} : bridge'[c] = bridge[c]
         /\ SameHandle(bridge[b], s) => \A c \in Bridge : SameHandle(bridge[c], bridge'[c])
BY DEF MemoryOK, SameHandle

LEMMA OneTask ==
  ASSUME TasksOK, NEW t \in Task, NEW x \in Call(clock), task' = [task EXCEPT ![t] = x],
         clock' = clock
  PROVE  TasksOK' /\ Others(t) /\ task'[t] = x
BY DEF TasksOK, Others, Same

LEMMA SupersededStep ==
  ASSUME TasksOK, NEW t \in Task, NEW x \in Call(clock), task' = Superseded(t, x), clock' = clock
  PROVE  TasksOK' /\ Others(t) /\ task'[t] = x
<1>1. \A u \in Task : task[u] \in Call(clock)
  BY DEF TasksOK
<1>2. \A u \in Task : LET y == [task[u] EXCEPT !.newer = @ \ {t}, !.stale = TRUE] IN
        y \in Call(clock) /\ Same(task[u], y) /\ y.pc = task[u].pc
  BY <1>1 DEF Call, Same
<1>3. task'[t] = x
  BY DEF Superseded
<1>4. \A u \in Task \ {t} :
        task'[u] = task[u] \/ task'[u] = [task[u] EXCEPT !.newer = @ \ {t}, !.stale = TRUE]
  BY DEF Superseded
<1>5. Others(t)
  BY <1>2, <1>4 DEF Others, Same
<1>6. \A u \in Task : task'[u] \in Call(clock)
  BY <1>1, <1>2, <1>3, <1>4
<1>7. task' = [u \in Task |-> task'[u]]
  BY DEF Superseded
<1> QED
  BY <1>3, <1>5, <1>6, <1>7 DEF TasksOK

LEMMA CallKeeps ==
  ASSUME NEW c, NEW d, NEW h, NEW k, CallOK(c, h), Same(c, d), d.pc = c.pc,
         k.next = h.next, k.active.gen = h.active.gen, h.current \in Main => k.current \in Main,
         c.kind = "stop" => k.active.phase = "stopping"
  PROVE  CallOK(d, k) /\ Steady(c, d)
BY DEF CallOK, Same, Steady, Waits, Inside

(* Call t moves on and the owners stay.                                    *)
LEMMA CallsBy ==
  ASSUME Sound, NEW t \in Task, Others(t), SameOwners(host, host'),
         CallOK(task'[t], host'),
         Steady(task[t], task'[t]) \/ (Light(task'[t]) /\ ~Closer(task[t]))
  PROVE  /\ CallsOK' /\ OneStop'
         /\ \A u \in Task : Steady(task[u], task'[u]) \/ (Light(task'[u]) /\ ~Closer(task[u]))
<1>1. \A u \in Task \ {t} : CallOK(task'[u], host') /\ Steady(task[u], task'[u])
  <2> SUFFICES ASSUME NEW u \in Task \ {t}
               PROVE CallOK(task'[u], host') /\ Steady(task[u], task'[u])
    OBVIOUS
  <2>1. CallOK(task[u], host) /\ Same(task[u], task'[u]) /\ task'[u].pc = task[u].pc
    BY DEF Sound, CallsOK, Others
  <2>2. /\ host'.next = host.next /\ host'.active = host.active /\ host'.current = host.current
        /\ task[u].kind = "stop" => host.active.phase = "stopping"
    BY <2>1 DEF SameOwners, CallOK
  <2> QED
    BY <2>1, <2>2, CallKeeps
<1>2. CallsOK'
  BY <1>1 DEF CallsOK
<1>3. \A u \in Task : Steady(task[u], task'[u]) \/ (Light(task'[u]) /\ ~Closer(task[u]))
  BY <1>1
<1>4. \A u \in Task : Stops(task'[u]) => Stops(task[u])
  BY <1>3 DEF Steady, Same, Stops, Light
<1>5. OneStop'
  BY <1>4 DEF Sound, OneStop
<1> QED
  BY <1>2, <1>3, <1>5

LEMMA CallsStay ==
  ASSUME Sound, task' = task, SameOwners(host, host')
  PROVE  /\ CallsOK' /\ OneStop'
         /\ \A u \in Task : Steady(task[u], task'[u]) \/ (Light(task'[u]) /\ ~Closer(task[u]))
<1>1. \A u \in Task : CallOK(task'[u], host') /\ Steady(task[u], task'[u])
  BY CallKeeps DEF Sound, CallsOK, SameOwners, CallOK, Same
<1> QED
  BY <1>1 DEF CallsOK, Sound, OneStop

LEMMA HostStays ==
  ASSUME Sound, host' = host
  PROVE  HostOK(host') /\ SameOwners(host, host')
BY DEF Sound, SameOwners

-----------------------------------------------------------------------------
(* Steps of the data.                                                      *)

LEMMA ScheduleSaveType ==
  ASSUME NEW n, NEW s \in Memory(n)
  PROVE  ScheduleSave(s) \in Memory(n) /\ SameHandle(s, ScheduleSave(s)) /\ ScheduleSave(s).db = s.db
BY DEF ScheduleSave, Memory, SameHandle

(* Only the data of bridge b changes.                                      *)
Data(b, s) == bridge' = [bridge EXCEPT ![b] = ScheduleSave(s)]

LEMMA DataKeeps ==
  ASSUME Sound, NEW b \in Bridge, NEW s \in Memory(clock), SameHandle(bridge[b], s),
         s.db = bridge[b].db, Data(b, s), clock' = clock
  PROVE  MemoryOK' /\ \A c \in Bridge : SameHandle(bridge[c], bridge'[c])
<1>1. /\ ScheduleSave(s) \in Memory(clock) /\ SameHandle(bridge[b], ScheduleSave(s))
      /\ ScheduleSave(s).db = bridge[b].db
  BY ScheduleSaveType DEF SameHandle
<1>2. HandleOK(ScheduleSave(s))
  BY <1>1 DEF Sound, StoreTypes, MemoryOK, HandleOK, SameHandle
<1> QED
  BY <1>1, <1>2, OneBridge DEF Sound, StoreTypes, Data

Kept == Sound' /\ Routine

(* Time goes by: what was written before the next moment stays in bounds.  *)
LEMMA Later ==
  ASSUME NEW n \in Nat
  PROVE  /\ Times(n) \subseteq Times(n + 1) /\ Memory(n) \subseteq Memory(n + 1)
         /\ Call(n) \subseteq Call(n + 1) /\ Directory(n) \subseteq Directory(n + 1)
<1>1. Times(n) \subseteq Times(n + 1)
  BY DEF Times
<1>2. Memory(n) \subseteq Memory(n + 1) /\ Call(n) \subseteq Call(n + 1)
  BY <1>1 DEF Memory, Call
<1>3. Copy(n) \subseteq Copy(n + 1)
  BY <1>1 DEF Copy
<1>4. Seq(Copy(n)) \subseteq Seq(Copy(n + 1))
  BY <1>3
<1> QED
  BY <1>1, <1>2, <1>4 DEF Directory

LEMMA SeeSceneKeeps ==
  ASSUME Sound, NEW b \in Bridge, SeeScene(b), host' = host
  PROVE  Kept
<1> DEFINE n == clock + 1
           s == [bridge[b] EXCEPT !.scenes[AgentOf[b]] = n]
<1>1. /\ clock \in Nat /\ bridge \in [Bridge -> Memory(clock)] /\ disk \in Directory(clock)
      /\ Len(disk.snaps) <= SnapKeep /\ task \in [Task -> Call(clock)]
      /\ \A c \in Bridge : HandleOK(bridge[c])
  BY DEF Sound, StoreTypes, MemoryOK, DiskOK, TasksOK
<1>2. /\ clock' = n /\ UNCHANGED <<disk, task, ghost>>
      /\ bridge' = [bridge EXCEPT ![b] = ScheduleSave(s)]
  BY DEF SeeScene
<1>3. n \in Nat /\ n = clock + 1
  BY <1>1
<1>4. /\ Times(clock) \subseteq Times(n) /\ Memory(clock) \subseteq Memory(n)
      /\ Call(clock) \subseteq Call(n) /\ Directory(clock) \subseteq Directory(n)
  BY <1>1, Later
<1> HIDE DEF n
<1>5. bridge[b] \in Memory(n)
  BY <1>1, <1>4
<1>6. s \in Memory(n) /\ SameHandle(bridge[b], s) /\ s.db = bridge[b].db
  BY <1>3, <1>5 DEF Memory, Times, SameHandle
<1> HIDE DEF s
<1>7. /\ ScheduleSave(s) \in Memory(n) /\ SameHandle(bridge[b], ScheduleSave(s))
      /\ HandleOK(ScheduleSave(s))
  BY <1>1, <1>6, ScheduleSaveType DEF HandleOK, SameHandle
<1>8. /\ bridge' \in [Bridge -> Memory(n)]
      /\ \A c \in Bridge : HandleOK(bridge'[c]) /\ SameHandle(bridge[c], bridge'[c])
  BY <1>1, <1>2, <1>4, <1>7 DEF SameHandle
<1>9. task' \in [Task -> Call(n)] /\ disk' \in Directory(n) /\ Len(disk'.snaps) <= SnapKeep
  BY <1>1, <1>2, <1>4
<1>10. LeftOK' /\ GhostOK'
  BY <1>2, SpendKeeps DEF SeeScene, Sound, StoreTypes, GhostOK
<1>11. StoreTypes'
  BY <1>2, <1>3, <1>8, <1>9, <1>10 DEF StoreTypes, MemoryOK, TasksOK, DiskOK
<1> QED
  BY <1>2, <1>8, <1>11, HostStays, CallsStay DEF Kept, Routine, Sound

LEMMA SaveTimerKeeps ==
  ASSUME Sound, NEW t \in Task, NEW b \in Bridge, SaveTimerFires(t, b), host' = host
  PROVE  Kept
<1> DEFINE s == [bridge[b] EXCEPT !.timer = FALSE]
           rec == [NoTask EXCEPT !.kind = "save", !.b = b]
<1>1. /\ StoreTypes /\ clock \in Nat /\ bridge[b] \in Memory(clock) /\ DiskOK(disk, clock) /\ GhostOK
      /\ LeftOK /\ TasksOK /\ MemoryOK /\ HandleOK(bridge[b])
  BY DEF Sound, StoreTypes, MemoryOK
<1>2. HostOK(host') /\ SameOwners(host, host')
  BY HostStays
<1>3. /\ task[t].pc = "idle" /\ UNCHANGED <<clock, left>>
      /\ bridge' = [bridge EXCEPT ![b] = s]
  BY <1>1 DEF SaveTimerFires, MemoryOK
<1>4. s \in Memory(clock) /\ SameHandle(bridge[b], s) /\ s.db = bridge[b].db
  BY <1>1 DEF Memory, SameHandle
<1>5. HandleOK(s)
  BY <1>1, <1>4 DEF HandleOK, SameHandle
<1> HIDE DEF s
<1>6. MemoryOK' /\ \A c \in Bridge : SameHandle(bridge[c], bridge'[c])
  BY <1>1, <1>3, <1>4, <1>5, OneBridge
<1>7. CASE bridge[b].stopped
  <2>1. UNCHANGED <<disk, task>> /\ GhostOK' /\ ghost'.stray = ghost.stray
    BY <1>1, <1>7 DEF SaveTimerFires, GhostOK
  <2>2. StoreTypes'
    BY <1>1, <1>3, <1>6, <2>1 DEF StoreTypes, DiskOK, TasksOK, LeftOK
  <2> QED
    BY <1>2, <1>6, <2>1, <2>2, CallsStay DEF Kept, Routine, Sound
<1>8. CASE ~bridge[b].stopped
  <2>1. CallsFlush(t, rec, bridge[b], "idle")
    BY <1>8 DEF SaveTimerFires
  <2>2. rec \in Call(clock) /\ rec.b = b /\ rec.kind = "save" /\ rec.pc = "idle"
    BY <1>1, NoTaskType DEF Call, Stage
  <2> HIDE DEF rec
  <2>3. "idle" \in Stage \ {"fwrite"}
    BY DEF Stage
  <2>4. /\ DiskOK(disk', clock) /\ GhostOK' /\ ghost'.stray = ghost.stray
        /\ task' \in [Task -> Call(clock)] /\ Others(t)
        /\ Flushed(rec, task'[t], "idle") \/ (Same(rec, task'[t]) /\ task'[t].pc = "fopen")
    BY <1>1, <2>1, <2>2, <2>3, CallsFlushStep
  <2>5. StoreTypes'
    BY <1>1, <1>3, <1>6, <2>4 DEF StoreTypes, DiskOK, TasksOK, LeftOK
  <2>6. CallOK(task'[t], host') /\ Light(task'[t])
    BY <2>2, <2>4, NoTaskType DEF Flushed, Same, CallOK, Light
  <2>7. ~Closer(task[t])
    BY <1>3 DEF Sound, CallsOK, CallOK, Closer, Stops, Starts, Inside
  <2> QED
    BY <1>2, <1>6, <2>4, <2>5, <2>6, <2>7, CallsBy DEF Kept, Routine, Sound
<1> QED
  BY <1>7, <1>8

LEMMA DataStepKeeps ==
  ASSUME Sound, NEW b \in Bridge, DataStep(b)
  PROVE  Kept
<1>0. /\ clock \in Nat /\ bridge[b] \in Memory(clock) /\ DiskOK(disk, clock) /\ GhostOK /\ LeftOK
      /\ TasksOK /\ MemoryOK
  BY DEF Sound, StoreTypes, MemoryOK
<1>1. HostOK(host') /\ SameOwners(host, host') /\ host' = host
  BY HostStays DEF DataStep
<1>2. ASSUME NEW m \in Msg, Accept(b, m) PROVE Kept
  <2> DEFINE s == [bridge[b] EXCEPT !.q[m] = "queued"]
  <2>1. s \in Memory(clock) /\ SameHandle(bridge[b], s) /\ s.db = bridge[b].db
    BY <1>0 DEF Memory, Queue, SameHandle
  <2>2. Data(b, s) /\ clock' = clock /\ UNCHANGED <<disk, task, left>>
    BY <1>2 DEF Accept, Data
  <2>3. GhostOK' /\ ghost'.stray = ghost.stray
    BY <1>0, <1>2 DEF Accept, GhostOK
  <2> HIDE DEF s
  <2>4. MemoryOK' /\ \A c \in Bridge : SameHandle(bridge[c], bridge'[c])
    BY <2>1, <2>2, DataKeeps
  <2>5. StoreTypes'
    BY <1>0, <2>2, <2>3, <2>4 DEF StoreTypes, DiskOK, TasksOK, LeftOK
  <2> QED
    BY <1>1, <2>2, <2>3, <2>4, <2>5, CallsStay DEF Kept, Routine, Sound
<1>3. ASSUME NEW m \in Msg, Purge(b, m) PROVE Kept
  <2> DEFINE s == [bridge[b] EXCEPT !.q[m] = "no"]
  <2>1. s \in Memory(clock) /\ SameHandle(bridge[b], s) /\ s.db = bridge[b].db
    BY <1>0 DEF Memory, Queue, SameHandle
  <2>2. Data(b, s) /\ clock' = clock /\ UNCHANGED task
    BY <1>3 DEF Purge, Data
  <2>3. GhostOK' /\ ghost'.stray = ghost.stray
    BY <1>0, <1>3 DEF Purge, GhostOK
  <2> HIDE DEF s
  <2>4. MemoryOK' /\ \A c \in Bridge : SameHandle(bridge[c], bridge'[c])
    BY <2>1, <2>2, DataKeeps
  <2>5. DiskOK(disk', clock) /\ LeftOK'
    BY <1>0, <1>3, SpendKeeps DEF Purge, DiskOK, Directory, Queue
  <2>6. StoreTypes'
    BY <1>0, <2>2, <2>3, <2>4, <2>5 DEF StoreTypes, DiskOK, TasksOK
  <2> QED
    BY <1>1, <2>2, <2>3, <2>4, <2>6, CallsStay DEF Kept, Routine, Sound
<1>4. ASSUME NEW m \in Msg, NEW how \in left.ends, Ends(b, m, how) PROVE Kept
  <2> DEFINE s == [bridge[b] EXCEPT !.q[m] = how]
  <2>1. s \in Memory(clock) /\ SameHandle(bridge[b], s) /\ s.db = bridge[b].db
    <3>1. how \in {"no", "dead"}
      BY <1>0 DEF LeftOK
    <3> QED
      BY <1>0, <3>1 DEF Memory, Queue, SameHandle
  <2>2. Data(b, s) /\ clock' = clock /\ UNCHANGED <<disk, task, left>>
    BY <1>4 DEF Ends, Data
  <2>3. GhostOK' /\ ghost'.stray = ghost.stray
    BY <1>0, <1>4 DEF Ends, GhostOK
  <2> HIDE DEF s
  <2>4. MemoryOK' /\ \A c \in Bridge : SameHandle(bridge[c], bridge'[c])
    BY <2>1, <2>2, DataKeeps
  <2>5. StoreTypes'
    BY <1>0, <2>2, <2>3, <2>4 DEF StoreTypes, DiskOK, TasksOK, LeftOK
  <2> QED
    BY <1>1, <2>2, <2>3, <2>4, <2>5, CallsStay DEF Kept, Routine, Sound
<1>5. ASSUME NEW a \in Agent, RemoveScene(b, a) PROVE Kept
  <2> DEFINE s == [bridge[b] EXCEPT !.scenes[a] = 0]
  <2>1. s \in Memory(clock) /\ SameHandle(bridge[b], s) /\ s.db = bridge[b].db
    BY <1>0 DEF Memory, Times, SameHandle
  <2>2. Data(b, s) /\ clock' = clock /\ UNCHANGED <<disk, task, ghost>>
    BY <1>5 DEF RemoveScene, Data
  <2> HIDE DEF s
  <2>3. MemoryOK' /\ \A c \in Bridge : SameHandle(bridge[c], bridge'[c])
    BY <2>1, <2>2, DataKeeps
  <2>4. LeftOK'
    BY <1>0, <1>5, SpendKeeps DEF RemoveScene
  <2>5. StoreTypes'
    BY <1>0, <2>2, <2>3, <2>4 DEF StoreTypes, DiskOK, TasksOK, GhostOK
  <2> QED
    BY <1>1, <2>2, <2>3, <2>5, CallsStay DEF Kept, Routine, Sound
<1>6. ASSUME MergeScenes(b) PROVE Kept
  <2> DEFINE newer == {a \in Agent : disk.scenes[a] > bridge[b].scenes[a]}
             merged == [a \in Agent |-> IF a \in newer THEN disk.scenes[a] ELSE bridge[b].scenes[a]]
             s == [bridge[b] EXCEPT !.scenes = merged, !.index = merged]
  <2>1. merged \in Times(clock)
    BY <1>0 DEF DiskOK, Directory, Memory, Times
  <2>2. bridge' = [bridge EXCEPT ![b].scenes = merged, ![b].index = merged]
        /\ clock' = clock /\ UNCHANGED <<disk, task, ghost>>
    BY <1>6 DEF MergeScenes
  <2>3. LeftOK'
    BY <1>0, <1>6, SpendKeeps DEF MergeScenes
  <2> HIDE DEF merged
  <2>4. bridge' = [bridge EXCEPT ![b] = s]
    BY <1>0, <2>2 DEF MemoryOK
  <2>5. s \in Memory(clock) /\ SameHandle(bridge[b], s) /\ s.db = bridge[b].db
    BY <1>0, <2>1 DEF Memory, SameHandle
  <2> HIDE DEF s
  <2>6. HandleOK(s)
    BY <1>0, <2>5 DEF MemoryOK, HandleOK, SameHandle
  <2>7. MemoryOK' /\ \A c \in Bridge : SameHandle(bridge[c], bridge'[c])
    BY <1>0, <2>2, <2>4, <2>5, <2>6, OneBridge
  <2>8. StoreTypes'
    BY <1>0, <2>2, <2>3, <2>7 DEF StoreTypes, DiskOK, TasksOK, GhostOK
  <2> QED
    BY <1>1, <2>2, <2>7, <2>8, CallsStay DEF Kept, Routine, Sound
<1>7. ASSUME SeeScene(b) PROVE Kept
  BY <1>0, <1>1, <1>7, SeeSceneKeeps
<1>8. ASSUME NEW t \in Task, Free(t), SaveTimerFires(t, b) PROVE Kept
  BY <1>1, <1>8, SaveTimerKeeps
<1> QED
  BY <1>2, <1>3, <1>4, <1>5, <1>6, <1>7, <1>8 DEF DataStep

-----------------------------------------------------------------------------
(* Steps of a start.                                                       *)

(* Start t is over, and with it the generation it began.                   *)
Ended(t) ==
  LET c == task[t] IN
  /\ Starts(c) /\ Inside(c) /\ task'[t] = NoTask /\ Others(t)
  /\ ghost'.stray = ghost.stray
  /\ host'.current = host.current
  /\ host'.active = host.active \/ (IsActive(host, c.reg, c.gen) /\ host'.active.phase # "active")
  /\ \A b \in Bridge : bridge'[b].gen = bridge[b].gen /\ bridge'[b].started = bridge[b].started
  /\ \A b \in Bridge : bridge[b].closed => bridge'[b].closed
  /\ c.sgen = bridge[c.b].gen => bridge'[c.b].closed

Fine(t) == Sound' /\ (Routine \/ Ended(t))

LEMMA InsideCall ==
  ASSUME Sound, NEW t \in Task
  PROVE  /\ task[t] \in Call(clock) /\ task[t].kind \in {"idle", "start", "channel", "stop", "save"}
         /\ task[t].kind \in {"start", "stop", "save"} /\ ~Waits(task[t]) /\ task[t].pc # "debug"
              => task[t].b \in Bridge
         /\ task[t].pc \in {"prepare", "open", "read", "cut", "cutcheck", "cutmove", "cutmode",
                            "refresh", "tail"}
              => Starts(task[t]) /\ Inside(task[t])
         /\ Starts(task[t]) /\ ~Waits(task[t]) => task[t].b \in Main /\ task[t].b \in Bridge
         /\ task[t].kind \in {"start", "channel", "stop"} => task[t].reg \in Reg
<1>1. CallOK(task[t], host) /\ task[t] \in Call(clock)
  BY DEF Sound, CallsOK, StoreTypes, TasksOK
<1>2. task[t].kind \in {"idle", "start", "channel", "stop", "save"}
  BY <1>1 DEF Call
<1> QED
  BY <1>1, <1>2 DEF CallOK, Starts, Inside, Waits, Main

LEMMA CloseType ==
  ASSUME NEW n, NEW s \in Memory(n), HandleOK(s), NEW g
  PROVE  LET r == CloseGeneration(s, g) IN
         /\ r \in Memory(n) /\ HandleOK(r) /\ r.gen = s.gen /\ r.started = s.started
         /\ r.closed = s.closed \/ r.closed
         /\ g = s.gen => r.closed
<1>1. CASE g # s.gen
  BY <1>1 DEF CloseGeneration
<1>2. CASE g = s.gen
  <2> DEFINE r == [s EXCEPT !.closed = TRUE, !.db = 0]
  <2>1. CloseGeneration(s, g) = r
    BY <1>2 DEF CloseGeneration
  <2>2. /\ r \in Memory(n) /\ r.gen = s.gen /\ r.started = s.started
        /\ r.closed = TRUE /\ r.db = 0 /\ r.gen \in Nat
    BY DEF Memory
  <2> HIDE DEF r
  <2>3. HandleOK(r)
    BY <2>2 DEF HandleOK
  <2> QED
    BY <2>1, <2>2, <2>3
<1> QED
  BY <1>1, <1>2

LEMMA EndsCall ==
  ASSUME Sound, NEW t \in Task, Starts(task[t]), Inside(task[t]),
         NEW s \in Memory(clock), HandleOK(s), SameHandle(bridge[task[t].b], s),
         bridge' = [bridge EXCEPT ![task[t].b] = CloseGeneration(s, task[t].sgen)],
         TasksOK', Others(t), task'[t] = NoTask,
         host' \in {host, FailedStart(host, task[t].reg, task[t].gen)},
         clock' = clock, DiskOK(disk', clock), GhostOK', ghost'.stray = ghost.stray, LeftOK'
  PROVE  Sound' /\ Ended(t)
<1> DEFINE c == task[t]
           b == c.b
           r == CloseGeneration(s, c.sgen)
<1>1. /\ c \in Call(clock) /\ b \in Main /\ b \in Bridge /\ c.reg \in Reg
      /\ clock \in Nat /\ MemoryOK /\ TasksOK
  BY InsideCall DEF Sound, StoreTypes, Starts, Inside, Waits
<1>2. /\ r \in Memory(clock) /\ HandleOK(r) /\ r.gen = s.gen /\ r.started = s.started
      /\ r.closed = s.closed \/ r.closed
      /\ c.sgen = s.gen => r.closed
  BY CloseType
<1> HIDE DEF r
<1>3. MemoryOK' /\ bridge'[b] = r /\ \A x \in Bridge \ {b} : bridge'[x] = bridge[x]
  <2>1. bridge' = [bridge EXCEPT ![b] = r]
    BY DEF r
  <2> QED
    BY <1>1, <1>2, <2>1, OneBridge
<1>4. TasksOK' /\ Others(t) /\ task'[t] = NoTask
  OBVIOUS
<1>5. StoreTypes'
  BY <1>1, <1>3, <1>4 DEF StoreTypes
<1>6. /\ HostOK(host') /\ host'.next = host.next /\ host'.active.gen = host.active.gen
      /\ host'.current = host.current
      /\ host'.active = host.active \/ (IsActive(host, c.reg, c.gen) /\ host'.active.phase # "active")
  BY <1>1, FailedStartOK DEF Sound
<1>7. ASSUME NEW u \in Task \ {t} PROVE CallOK(task'[u], host')
  <2>1. CallOK(task[u], host) /\ Same(task[u], task'[u]) /\ task'[u].pc = task[u].pc
    BY <1>4 DEF Sound, CallsOK, Others
  <2>2. task[u].kind = "stop" => host'.active.phase = "stopping"
    BY <1>6, <2>1 DEF CallOK, IsActive
  <2> QED
    BY <1>6, <2>1, <2>2, CallKeeps
<1>8. CallsOK' /\ OneStop'
  <2>1. CallOK(task'[t], host') /\ ~Stops(task'[t])
    BY <1>4, NoTaskType DEF CallOK, Stops
  <2>2. \A u \in Task : Stops(task'[u]) => Stops(task[u])
    BY <1>4, <2>1 DEF Others, Same, Stops
  <2> QED
    BY <1>7, <2>1, <2>2 DEF CallsOK, Sound, OneStop
<1>9. \A x \in Bridge : bridge'[x].gen = bridge[x].gen /\ bridge'[x].started = bridge[x].started
  BY <1>2, <1>3 DEF SameHandle
<1>11. \A x \in Bridge : bridge[x].closed => bridge'[x].closed
  BY <1>2, <1>3 DEF SameHandle
<1>10. c.sgen = bridge[b].gen => bridge'[b].closed
  BY <1>2, <1>3 DEF SameHandle
<1> QED
  BY <1>4, <1>5, <1>6, <1>8, <1>9, <1>10, <1>11 DEF Sound, Ended

LEMMA EndsStart ==
  ASSUME Sound, NEW t \in Task, Starts(task[t]), Inside(task[t]),
         NEW s \in Memory(clock), HandleOK(s), SameHandle(bridge[task[t].b], s),
         bridge' = [bridge EXCEPT ![task[t].b] = CloseGeneration(s, task[t].sgen)],
         task' = [task EXCEPT ![t] = NoTask],
         host' \in {host, FailedStart(host, task[t].reg, task[t].gen)},
         clock' = clock, DiskOK(disk', clock), GhostOK', ghost'.stray = ghost.stray, LeftOK'
  PROVE  Sound' /\ Ended(t)
<1>1. clock \in Nat /\ TasksOK
  BY DEF Sound, StoreTypes
<1>2. TasksOK' /\ Others(t) /\ task'[t] = NoTask
  BY <1>1, NoTaskType, OneTask
<1> QED
  BY <1>2, EndsCall

(* A start moves on.                                                       *)
Further == {"prepare", "open", "read", "cut", "cutcheck", "cutmove", "cutmode", "refresh", "tail"}

LEMMA MovesOn ==
  ASSUME Sound, NEW t \in Task, Starts(task[t]), Inside(task[t]),
         NEW x \in Call(clock), Same(task[t], x), x.pc \in Further,
         task' = [task EXCEPT ![t] = x], host' = host, clock' = clock,
         MemoryOK', \A b \in Bridge : SameHandle(bridge[b], bridge'[b]),
         DiskOK(disk', clock), GhostOK', ghost'.stray = ghost.stray, LeftOK'
  PROVE  Kept
<1>1. clock \in Nat /\ TasksOK /\ CallOK(task[t], host) /\ HostOK(host)
  BY DEF Sound, StoreTypes, CallsOK
<1>2. TasksOK' /\ Others(t) /\ task'[t] = x
  BY <1>1, OneTask
<1>3. StoreTypes'
  BY <1>1, <1>2 DEF StoreTypes
<1>4. Inside(x) /\ ~Waits(x) /\ ~Waits(task[t])
  BY DEF Inside, Waits, Further
<1>5. CallOK(x, host) /\ Steady(task[t], x)
  BY <1>1, <1>4 DEF CallOK, Same, Steady, Starts
<1>6. CallOK(task'[t], host') /\ Steady(task[t], task'[t])
  BY <1>2, <1>5
<1>7. SameOwners(host, host') /\ HostOK(host')
  BY <1>1 DEF SameOwners
<1> QED
  BY <1>2, <1>3, <1>6, <1>7, CallsBy DEF Kept, Routine, Sound

LEMMA GoesOnKeeps ==
  ASSUME Sound, NEW t \in Task, Starts(task[t]), Inside(task[t]),
         NEW s \in Memory(clock), HandleOK(s), SameHandle(bridge[task[t].b], s),
         NEW next \in Further, GoesOn(t, s, next),
         clock' = clock, DiskOK(disk', clock), GhostOK', ghost'.stray = ghost.stray, LeftOK'
  PROVE  Fine(t)
<1> DEFINE x == [task[t] EXCEPT !.pc = next]
<1>1. /\ task[t] \in Call(clock) /\ task[t].b \in Bridge /\ MemoryOK /\ TasksOK
  BY InsideCall DEF Sound, StoreTypes, Starts, Inside, Waits
<1>2. CASE Current(task[t])
  <2>1. /\ bridge' = [bridge EXCEPT ![task[t].b] = s] /\ host' = host
        /\ task' = [task EXCEPT ![t] = x]
    BY <1>1, <1>2 DEF GoesOn, TasksOK
  <2>2. x \in Call(clock) /\ Same(task[t], x) /\ x.pc \in Further
    BY <1>1 DEF Call, Same, Further, Stage
  <2> HIDE DEF x
  <2>3. MemoryOK' /\ \A b \in Bridge : SameHandle(bridge[b], bridge'[b])
    BY <1>1, <2>1, OneBridge
  <2> QED
    BY <2>1, <2>2, <2>3, MovesOn DEF Fine, Kept
<1>3. CASE ~Current(task[t])
  <2>1. /\ bridge' = [bridge EXCEPT ![task[t].b] = CloseGeneration(s, task[t].sgen)]
        /\ host' = host /\ task' = [task EXCEPT ![t] = NoTask]
    BY <1>3 DEF GoesOn
  <2> QED
    BY <2>1, EndsStart DEF Fine
<1> QED
  BY <1>2, <1>3

LEMMA GivesUpKeeps ==
  ASSUME Sound, NEW t \in Task, Starts(task[t]), Inside(task[t]),
         GivesUp(t) \/ \E stops \in BOOLEAN : Throws(t, stops),
         clock' = clock, DiskOK(disk', clock), GhostOK', ghost'.stray = ghost.stray, LeftOK'
  PROVE  Fine(t)
<1> DEFINE b == task[t].b
<1>1. bridge[b] \in Memory(clock) /\ HandleOK(bridge[b]) /\ SameHandle(bridge[b], bridge[b])
  BY InsideCall DEF Sound, StoreTypes, MemoryOK, SameHandle, Starts, Inside, Waits
<1>2. CASE GivesUp(t)
  <2>1. /\ bridge' = [bridge EXCEPT ![b] = CloseGeneration(bridge[b], task[t].sgen)]
        /\ host' = host /\ task' = [task EXCEPT ![t] = NoTask]
    BY <1>2, InsideCall DEF GivesUp, Sound, StoreTypes, MemoryOK
  <2> QED
    BY <1>1, <2>1, EndsStart DEF Fine
<1>3. ASSUME NEW stops \in BOOLEAN, Throws(t, stops) PROVE Fine(t)
  <2> DEFINE s == [bridge[b] EXCEPT !.stopped = @ \/ stops]
  <2>1. s \in Memory(clock) /\ HandleOK(s) /\ SameHandle(bridge[b], s)
    BY <1>1 DEF Memory, HandleOK, SameHandle
  <2>2. /\ bridge' = [bridge EXCEPT ![b] = CloseGeneration(s, task[t].sgen)]
        /\ host' = FailedStart(host, task[t].reg, task[t].gen)
        /\ task' = [task EXCEPT ![t] = NoTask]
    BY <1>3 DEF Throws, Breaks
  <2> HIDE DEF s
  <2> QED
    BY <2>1, <2>2, EndsStart DEF Fine
<1> QED
  BY <1>2, <1>3

(* What the steps of a start rest on.                                      *)
LEMMA StartFacts ==
  ASSUME Sound, NEW t \in Task, task[t].pc \in Further
  PROVE  /\ Starts(task[t]) /\ Inside(task[t]) /\ task[t].b \in Bridge /\ task[t] \in Call(clock)
         /\ bridge[task[t].b] \in Memory(clock) /\ HandleOK(bridge[task[t].b])
         /\ clock \in Nat /\ MemoryOK /\ TasksOK /\ DiskOK(disk, clock) /\ GhostOK /\ LeftOK
BY InsideCall DEF Sound, StoreTypes, MemoryOK, Further, Inside, Waits, Starts

LEMMA PreparesFine ==
  ASSUME Sound, NEW t \in Task, Prepares(t)
  PROVE  Fine(t)
<1> DEFINE b == task[t].b
           s == [bridge[b] EXCEPT !.path = TRUE]
           x == [task[t] EXCEPT !.pc = "open",
                                !.hold = IF bridge[b].db > 0 THEN bridge[b].db ELSE bridge[b].gen]
           x2 == [task[t] EXCEPT !.pc = "open", !.hold = IF s.db > 0 THEN s.db ELSE s.gen]
<1>0. task[t].pc \in Further /\ clock' = clock
  BY DEF Prepares, Further
<1>1. /\ Starts(task[t]) /\ Inside(task[t]) /\ b \in Bridge /\ task[t] \in Call(clock)
      /\ bridge[b] \in Memory(clock) /\ HandleOK(bridge[b])
      /\ clock \in Nat /\ MemoryOK /\ TasksOK /\ DiskOK(disk, clock) /\ GhostOK /\ LeftOK
  BY <1>0, StartFacts
<1>2. s \in Memory(clock) /\ HandleOK(s) /\ SameHandle(bridge[b], s) /\ s.db = bridge[b].db
  BY <1>1 DEF Memory, HandleOK, SameHandle
<1>3. x \in Call(clock) /\ Same(task[t], x) /\ x.pc \in Further
  BY <1>1 DEF Call, Same, Further, Stage, Memory
<1>4. x2 = x
  BY <1>2 DEF SameHandle
<1>5. \/ /\ disk' = Migrated(disk)
         /\ ghost' = IF disk.jsonAt THEN ghost
                     ELSE [ghost EXCEPT !.back = @ \cup Queued(disk.legacy)]
         /\ IF Current(task[t])
            THEN /\ bridge' = [bridge EXCEPT ![b] = s]
                 /\ task' = [task EXCEPT ![t] = x2]
                 /\ UNCHANGED host
            ELSE GivesUp(t)
         /\ UNCHANGED left
      \/ Spend("fails") /\ Throws(t, FALSE) /\ UNCHANGED <<disk, ghost>>
  BY DEF Prepares
<1> HIDE DEF s, x, x2
<1>6. ASSUME /\ disk' = Migrated(disk)
             /\ ghost' = IF disk.jsonAt THEN ghost
                         ELSE [ghost EXCEPT !.back = @ \cup Queued(disk.legacy)]
             /\ IF Current(task[t])
                THEN /\ bridge' = [bridge EXCEPT ![b] = s]
                     /\ task' = [task EXCEPT ![t] = x2]
                     /\ UNCHANGED host
                ELSE GivesUp(t)
             /\ UNCHANGED left
      PROVE  Fine(t)
  <2>1. DiskOK(disk', clock) /\ GhostOK' /\ ghost'.stray = ghost.stray /\ LeftOK'
    BY <1>1, <1>6, MigratedType DEF GhostOK, LeftOK
  <2>2. CASE Current(task[t])
    <3>1. bridge' = [bridge EXCEPT ![b] = s] /\ task' = [task EXCEPT ![t] = x] /\ host' = host
      BY <1>4, <1>6, <2>2
    <3>2. MemoryOK' /\ \A c \in Bridge : SameHandle(bridge[c], bridge'[c])
      BY <1>0, <1>1, <1>2, <3>1, OneBridge
    <3> QED
      BY <1>0, <1>1, <1>3, <2>1, <3>1, <3>2, MovesOn DEF Fine, Kept
  <2>3. CASE ~Current(task[t])
    BY <1>0, <1>1, <1>6, <2>1, <2>3, GivesUpKeeps
  <2> QED
    BY <2>2, <2>3
<1>7. ASSUME Spend("fails"), Throws(t, FALSE), UNCHANGED <<disk, ghost>> PROVE Fine(t)
  <2>1. DiskOK(disk', clock) /\ GhostOK' /\ ghost'.stray = ghost.stray /\ LeftOK'
    BY <1>1, <1>7, SpendKeeps DEF GhostOK
  <2>2. \E stops \in BOOLEAN : Throws(t, stops)
    BY <1>7
  <2> QED
    BY <1>0, <1>1, <2>1, <2>2, GivesUpKeeps
<1> QED
  BY <1>5, <1>6, <1>7

LEMMA OpeningFine ==
  ASSUME Sound, NEW t \in Task, Opening(t)
  PROVE  Fine(t)
<1> DEFINE c == task[t]
           b == c.b
           s == bridge[b]
           usable == s.db = c.hold \/ Usable(s, c.hold)
           r == IF usable THEN [s EXCEPT !.db = c.hold] ELSE s
           x == [c EXCEPT !.pc = "read", !.hold = IF usable THEN @ ELSE 0]
<1>0. c.pc \in Further /\ UNCHANGED <<clock, ghost, left>>
  BY DEF Opening, Further
<1>1. /\ Starts(c) /\ Inside(c) /\ b \in Bridge /\ c \in Call(clock)
      /\ s \in Memory(clock) /\ HandleOK(s)
      /\ clock \in Nat /\ MemoryOK /\ TasksOK /\ DiskOK(disk, clock) /\ GhostOK /\ LeftOK
  BY <1>0, StartFacts
<1>2. GhostOK' /\ ghost'.stray = ghost.stray /\ LeftOK'
  BY <1>0, <1>1 DEF GhostOK, LeftOK
<1>3. CASE usable /\ s.db = 0 /\ ~Opens(disk)
  <2>1. Throws(t, TRUE) /\ disk' = disk
    BY <1>3 DEF Opening
  <2>2. (\E stops \in BOOLEAN : Throws(t, stops)) /\ DiskOK(disk', clock)
    BY <1>1, <2>1
  <2> QED
    BY <1>0, <1>1, <1>2, <2>2, GivesUpKeeps
<1>4. CASE ~(usable /\ s.db = 0 /\ ~Opens(disk))
  <2>1. /\ bridge' = IF usable THEN [bridge EXCEPT ![b].db = c.hold] ELSE bridge
        /\ disk' = IF usable THEN Opened(disk, b) ELSE disk
        /\ task' = [task EXCEPT ![t].pc = "read", ![t].hold = IF usable THEN @ ELSE 0]
        /\ UNCHANGED host
    BY <1>4 DEF Opening
  <2>2. bridge' = [bridge EXCEPT ![b] = r] /\ task' = [task EXCEPT ![t] = x] /\ host' = host
    BY <1>1, <2>1 DEF MemoryOK, TasksOK
  <2>3. r \in Memory(clock) /\ HandleOK(r) /\ SameHandle(s, r)
    BY <1>1 DEF Memory, HandleOK, SameHandle, Usable, Call
  <2>4. x \in Call(clock) /\ Same(c, x) /\ x.pc \in Further
    BY <1>1 DEF Call, Same, Further, Stage
  <2>5. DiskOK(disk', clock)
    <3>1. usable => s.db > 0 \/ Opens(disk)
      BY <1>1, <1>4 DEF Memory
    <3> QED
      BY <1>1, <2>1, <3>1, OpenedType
  <2> HIDE DEF r, x
  <2>6. MemoryOK' /\ \A d \in Bridge : SameHandle(bridge[d], bridge'[d])
    BY <1>0, <1>1, <2>2, <2>3, OneBridge
  <2> QED
    BY <1>0, <1>1, <1>2, <2>2, <2>4, <2>5, <2>6, MovesOn DEF Fine, Kept
<1> QED
  BY <1>3, <1>4

LEMMA LoadsFine ==
  ASSUME Sound, NEW t \in Task, Loads(t)
  PROVE  Fine(t)
<1> DEFINE c == task[t]
           b == c.b
           s == bridge[b]
           hasDb == c.hold > 0
           closed == hasDb /\ s.db # c.hold
           json == IF hasDb THEN JsonRead(disk, disk) ELSE IF disk.jsonAt THEN disk.json ELSE Empty
           q == LoadedQueue(disk, b, hasDb /\ ~closed, json)
           new == LoadedBridge(s, disk, hasDb /\ ~closed, q)
           stop == [new EXCEPT !.stopped = TRUE]
<1>0. c.pc \in Further /\ UNCHANGED <<clock, left>> /\ ghost' = NoteLoad(ghost, b, json, q, ~Current(c))
  BY DEF Loads, Further
<1>1. /\ Starts(c) /\ Inside(c) /\ b \in Bridge /\ c \in Call(clock)
      /\ s \in Memory(clock) /\ HandleOK(s)
      /\ clock \in Nat /\ MemoryOK /\ TasksOK /\ DiskOK(disk, clock) /\ GhostOK /\ LeftOK
  BY <1>0, StartFacts
<1>2. GhostOK' /\ ghost'.stray = ghost.stray /\ LeftOK'
  BY <1>0, <1>1 DEF GhostOK, LeftOK, NoteLoad
<1>3. IF closed
      THEN /\ bridge' = [bridge EXCEPT ![b] = CloseGeneration(stop, c.sgen)]
           /\ host' = FailedStart(host, c.reg, c.gen)
           /\ task' = [task EXCEPT ![t] = NoTask]
           /\ UNCHANGED disk
      ELSE /\ disk' = IF hasDb THEN AfterLoad(disk, b, q) ELSE disk
           /\ GoesOn(t, new, IF left.cut THEN "cut" ELSE "refresh")
  BY DEF Loads
<1>4. json \in Queue
  BY <1>1, QueueOfDisk, EmptyTypes DEF DiskOK
<1> HIDE DEF json
<1>5. PICK with : with <=> (hasDb /\ ~closed)
  OBVIOUS
<1>6. /\ LoadedQueue(disk, b, with, json) = q /\ LoadedBridge(s, disk, with, q) = new
  BY <1>5 DEF LoadedQueue, LoadedBridge, LoadedScenes
<1> HIDE DEF q, new
<1>7. /\ DiskOK(AfterLoad(disk, b, q), clock) /\ new \in Memory(clock)
      /\ new.gen = s.gen /\ new.db = s.db /\ new.closed = s.closed /\ new.started = s.started
  <2>1. LET p == LoadedQueue(disk, b, with, json) IN
         /\ DiskOK(AfterLoad(disk, b, p), clock)
         /\ LoadedBridge(s, disk, with, p) \in Memory(clock)
         /\ LoadedBridge(s, disk, with, p).gen = s.gen
         /\ LoadedBridge(s, disk, with, p).db = s.db
         /\ LoadedBridge(s, disk, with, p).closed = s.closed
         /\ LoadedBridge(s, disk, with, p).started = s.started
    BY <1>1, <1>4, LoadTypes
  <2> QED
    BY <1>6, <2>1
<1>8. HandleOK(new) /\ SameHandle(s, new)
  BY <1>1, <1>7 DEF HandleOK, SameHandle
<1>9. stop \in Memory(clock) /\ HandleOK(stop) /\ SameHandle(s, stop)
  BY <1>7, <1>8 DEF HandleOK, SameHandle, Memory
<1> HIDE DEF stop
<1>10. CASE closed
  <2>1. /\ bridge' = [bridge EXCEPT ![b] = CloseGeneration(stop, c.sgen)]
        /\ host' = FailedStart(host, c.reg, c.gen)
        /\ task' = [task EXCEPT ![t] = NoTask] /\ disk' = disk
    BY <1>3, <1>10
  <2>2. DiskOK(disk', clock)
    BY <1>1, <2>1
  <2> QED
    BY <1>0, <1>1, <1>2, <1>9, <2>1, <2>2, EndsStart DEF Fine
<1>11. CASE ~closed
  <2> DEFINE next == IF left.cut THEN "cut" ELSE "refresh"
  <2>1. DiskOK(disk', clock) /\ GoesOn(t, new, next)
    BY <1>1, <1>3, <1>7, <1>11
  <2>2. next \in Further
    BY DEF Further
  <2> HIDE DEF next
  <2> QED
    BY <1>0, <1>1, <1>2, <1>7, <1>8, <2>1, <2>2, GoesOnKeeps
<1> QED
  BY <1>10, <1>11

-----------------------------------------------------------------------------
(* Steps of a flush, of whichever call, and of the cutover.                *)

AfterFlush(c) == CASE c.kind = "stop" -> "close" [] c.kind = "start" -> "cutcheck" [] OTHER -> "idle"

LEMMA FlushingCall ==
  ASSUME Sound, NEW t \in Task, task[t].pc \in {"fopen", "fwrite", "cut"}
  PROVE  /\ task[t].kind \in {"start", "stop", "save"} /\ task[t].b \in Bridge
         /\ task[t] \in Call(clock) /\ CallOK(task[t], host) /\ ~Waits(task[t])
         /\ Starts(task[t]) => Inside(task[t])
         /\ AfterFlush(task[t]) \in Stage \ {"fwrite"}
         /\ bridge[task[t].b] \in Memory(clock) /\ HandleOK(bridge[task[t].b])
         /\ clock \in Nat /\ MemoryOK /\ TasksOK /\ DiskOK(disk, clock) /\ GhostOK /\ LeftOK
         /\ StoreTypes
<1> DEFINE c == task[t]
<1>1. CallOK(c, host) /\ StoreTypes /\ c \in Call(clock)
  BY DEF Sound, CallsOK, StoreTypes, TasksOK
<1>2. c.kind \in {"start", "stop", "save"} /\ ~Waits(c) /\ (Starts(c) => Inside(c))
  BY <1>1 DEF CallOK, Call, Waits, Inside, Starts
<1>3. c.b \in Bridge
  BY <1>1, <1>2 DEF CallOK, Main
<1>4. AfterFlush(c) \in Stage \ {"fwrite"}
  BY DEF AfterFlush, Stage
<1> QED
  BY <1>1, <1>2, <1>3, <1>4 DEF StoreTypes, MemoryOK

(* The flush goes on, or it is done and the call it belongs to goes on.    *)
LEMMA FlushGoesOn ==
  ASSUME Sound, NEW t \in Task, task[t].pc \in {"fopen", "fwrite", "cut"},
         task[t].pc = "cut" => Starts(task[t]),
         NEW next, next = AfterFlush(task[t]) \/ (Stops(task[t]) /\ next = "closefail"),
         Others(t), Flushed(task[t], task'[t], next), TasksOK', host' = host, clock' = clock,
         MemoryOK', \A b \in Bridge : SameHandle(bridge[b], bridge'[b]),
         DiskOK(disk', clock), GhostOK', ghost'.stray = ghost.stray, LeftOK'
  PROVE  Kept
<1> DEFINE c == task[t]
           d == task'[t]
<1>1. /\ c.kind \in {"start", "stop", "save"} /\ CallOK(c, host) /\ ~Waits(c)
      /\ Starts(c) => Inside(c)
      /\ clock \in Nat
  BY FlushingCall
<1>2. HostOK(host') /\ SameOwners(host, host') /\ host' = host
  BY HostStays
<1>3. CallOK(d, host') /\ (Steady(c, d) \/ (Light(d) /\ ~Closer(c)))
  <2>1. CASE c.kind = "start"
    <3>1. Same(c, d) /\ d.pc \in {"fwrite", "cutcheck"}
      BY <2>1 DEF Flushed, AfterFlush, Stops
    <3>2. Inside(d) /\ ~Waits(d)
      BY <3>1 DEF Inside, Waits
    <3> QED
      BY <1>1, <1>2, <2>1, <3>1, <3>2 DEF CallOK, Same, Steady, Starts
  <2>2. CASE c.kind = "stop"
    <3>1. Same(c, d) /\ d.pc \in {"fwrite", "close", "closefail"}
      BY <2>2 DEF Flushed, AfterFlush
    <3>2. ~Waits(d)
      BY <3>1 DEF Waits
    <3> QED
      BY <1>1, <1>2, <2>2, <3>1, <3>2 DEF CallOK, Same, Steady, Starts
  <2>3. CASE c.kind = "save"
    <3>1. (Same(c, d) /\ d.pc = "fwrite") \/ d = NoTask
      BY <2>3 DEF Flushed, AfterFlush, Stops
    <3>2. CallOK(d, host')
      BY <1>1, <1>2, <2>3, <3>1, NoTaskType DEF CallOK, Same
    <3>3. Light(d) /\ ~Closer(c)
      BY <2>3, <3>1, NoTaskType DEF Light, Same, Closer, Stops, Starts
    <3> QED
      BY <3>2, <3>3
  <2> QED
    BY <1>1, <2>1, <2>2, <2>3
<1>4. StoreTypes'
  BY <1>1 DEF StoreTypes
<1> QED
  BY <1>2, <1>3, <1>4, CallsBy DEF Kept, Routine, Sound

LEMMA FlushOpensKeeps ==
  ASSUME Sound, NEW t \in Task, FlushOpens(t, AfterFlush(task[t])), host' = host
  PROVE  Kept
<1> DEFINE c == task[t]
           b == c.b
           s == bridge[b]
           next == AfterFlush(c)
           usable == Usable(s, c.hold)
           r == IF usable THEN [s EXCEPT !.db = c.hold] ELSE s
           d == IF usable THEN Opened(disk, b) ELSE disk
<1>0. c.pc = "fopen" /\ UNCHANGED <<clock, left>> /\ (usable => s.db > 0 \/ Opens(disk))
  BY DEF FlushOpens
<1>1. /\ bridge' = IF usable THEN [bridge EXCEPT ![b].db = c.hold] ELSE bridge
      /\ Snapshots(t, c, usable, d, next)
  BY DEF FlushOpens
<1>2. /\ b \in Bridge /\ c \in Call(clock) /\ s \in Memory(clock) /\ HandleOK(s)
      /\ next \in Stage \ {"fwrite"} /\ StoreTypes
      /\ clock \in Nat /\ MemoryOK /\ TasksOK /\ DiskOK(disk, clock) /\ LeftOK
  <2> HIDE DEF next, usable, r, d
  <2>1. next = AfterFlush(c)
    BY DEF next
  <2> QED
    BY <1>0, <2>1, FlushingCall
<1>3. bridge' = [bridge EXCEPT ![b] = r]
  BY <1>1, <1>2 DEF MemoryOK
<1>4. r \in Memory(clock) /\ HandleOK(r) /\ SameHandle(s, r)
  BY <1>2 DEF Memory, HandleOK, SameHandle, Usable, Call
<1>5. DiskOK(d, clock)
  <2>1. CASE usable
    BY <1>0, <1>2, <2>1, OpenedType
  <2>2. CASE ~usable
    BY <1>2, <2>2
  <2> QED
    BY <2>1, <2>2
<1>6. PICK yes : yes <=> usable
  OBVIOUS
<1>7. Snapshots(t, c, yes, d, next)
  BY <1>1, <1>6 DEF Snapshots
<1> HIDE DEF r, d, next
<1>8. MemoryOK' /\ \A x \in Bridge : SameHandle(bridge[x], bridge'[x])
  BY <1>0, <1>2, <1>3, <1>4, OneBridge
<1>9. /\ DiskOK(disk', clock) /\ GhostOK' /\ ghost'.stray = ghost.stray
      /\ task' \in [Task -> Call(clock)] /\ Others(t) /\ Flushed(c, task'[t], next)
  BY <1>2, <1>5, <1>7, SnapshotsStep
<1>10. TasksOK' /\ LeftOK'
  BY <1>0, <1>2, <1>9 DEF TasksOK, LeftOK
<1>11. c.pc \in {"fopen", "fwrite", "cut"} /\ (c.pc = "cut" => Starts(c)) /\ next = AfterFlush(c)
  BY <1>0 DEF next
<1> QED
  BY <1>0, <1>8, <1>9, <1>10, <1>11, FlushGoesOn

(* A start throws, or goes on without touching a bridge.                   *)
LEMMA BreakNotes ==
  ASSUME GhostOK, NEW t \in Task
  PROVE  LET g == NoteBreak(t) IN
         /\ DOMAIN g = DOMAIN ghost /\ g.stray = ghost.stray /\ g.known = ghost.known
         /\ g.ended = ghost.ended /\ g.endSaved = ghost.endSaved /\ g.back = ghost.back
         /\ ghost.lost \subseteq g.lost
BY DEF NoteBreak, GhostOK

LEMMA ThrowsFine ==
  ASSUME Sound, NEW t \in Task, Starts(task[t]), Inside(task[t]), CutoverThrows(t)
  PROVE  Fine(t)
<1>1. /\ Throws(t, TRUE) /\ UNCHANGED <<disk, clock, left>> /\ ghost' = NoteBreak(t)
  BY DEF CutoverThrows
<1>2. DiskOK(disk', clock) /\ GhostOK' /\ ghost'.stray = ghost.stray /\ LeftOK' /\ clock' = clock
  BY <1>1, BreakNotes DEF Sound, StoreTypes, GhostOK, LeftOK
<1>3. \E stops \in BOOLEAN : Throws(t, stops)
  BY <1>1
<1> QED
  BY <1>2, <1>3, GivesUpKeeps

LEMMA AdvancesFine ==
  ASSUME Sound, NEW t \in Task, Starts(task[t]), Inside(task[t]), NEW next \in Further,
         task' = [task EXCEPT ![t] = [task[t] EXCEPT !.pc = next]],
         UNCHANGED <<bridge, clock, ghost, left, host>>, DiskOK(disk', clock)
  PROVE  Fine(t)
<1> DEFINE x == [task[t] EXCEPT !.pc = next]
<1>1. MemoryOK /\ TasksOK /\ task[t] \in Call(clock) /\ GhostOK /\ LeftOK
  BY DEF Sound, StoreTypes, TasksOK
<1>2. x \in Call(clock) /\ Same(task[t], x) /\ x.pc \in Further
  BY <1>1 DEF Call, Same, Further, Stage
<1>3. task' = [task EXCEPT ![t] = x]
  OBVIOUS
<1> HIDE DEF x
<1>4. MemoryOK' /\ GhostOK' /\ LeftOK' /\ \A b \in Bridge : SameHandle(bridge[b], bridge'[b])
  BY <1>1 DEF MemoryOK, GhostOK, LeftOK, SameHandle
<1> QED
  BY <1>2, <1>3, <1>4, MovesOn DEF Fine, Kept

LEMMA JsonLandsKeeps ==
  ASSUME Sound, NEW t \in Task, JsonLands(t, AfterFlush(task[t])), host' = host
  PROVE  Kept
<1> DEFINE c == task[t]
           next == AfterFlush(c)
           blank == [c EXCEPT !.data = Empty, !.scenes = NoScenes, !.newer = {}, !.stale = FALSE]
           x == Goes(blank, next)
<1>1. /\ c.pc = "fwrite" /\ UNCHANGED <<bridge, clock, left>>
      /\ disk' = [disk EXCEPT !.json = c.data, !.jscenes = c.scenes, !.jsonAt = TRUE]
      /\ ghost' = [ghost EXCEPT !.back = @
           \cup {m \in Queued(c.data) : c.stale \/ m \notin Own(c.b)}]
      /\ task' = Superseded(t, x)
  BY DEF JsonLands
<1>0. c.pc = "fwrite" /\ UNCHANGED <<bridge, clock, left>> /\ next = AfterFlush(c)
  BY <1>1
<1>2. /\ c \in Call(clock) /\ next \in Stage \ {"fwrite"}
      /\ clock \in Nat /\ MemoryOK /\ TasksOK /\ DiskOK(disk, clock) /\ LeftOK /\ GhostOK
  <2> HIDE DEF next, x, blank
  <2> QED
    BY <1>0, FlushingCall
<1>3. blank \in Call(clock) /\ Same(c, blank)
  BY <1>2, EmptyTypes DEF Call, Same
<1>4. /\ x \in Call(clock)
      /\ IF next = "idle" THEN x = NoTask ELSE Same(blank, x) /\ x.pc = next
  BY <1>2, <1>3, GoesType
<1> HIDE DEF blank, x
<1>5. Flushed(c, x, next)
  BY <1>3, <1>4 DEF Flushed, Same
<1>8. TasksOK' /\ Others(t) /\ task'[t] = x
  BY <1>1, <1>2, <1>4, SupersededStep
<1>10. DiskOK(disk', clock)
  BY <1>1, <1>2 DEF DiskOK, Directory, Call
<1>11. GhostOK' /\ ghost'.stray = ghost.stray /\ LeftOK'
  BY <1>1, <1>2 DEF GhostOK, LeftOK
<1>12. MemoryOK' /\ \A b \in Bridge : SameHandle(bridge[b], bridge'[b])
  BY <1>0, <1>2 DEF MemoryOK, SameHandle
<1> HIDE DEF next
<1> QED
  BY <1>0, <1>5, <1>8, <1>10, <1>11, <1>12, FlushGoesOn

LEMMA FlushStepKeeps ==
  ASSUME Sound, NEW t \in Task, FlushStep(t)
  PROVE  Kept
<1> DEFINE next == CASE task[t].kind = "stop" -> "close"
                     [] task[t].kind = "start" -> "cutcheck"
                     [] OTHER -> "idle"
<1>1. (FlushOpens(t, next) \/ JsonLands(t, next)) /\ host' = host
  BY DEF FlushStep
<1>2. next = AfterFlush(task[t])
  BY DEF AfterFlush
<1> HIDE DEF next
<1> QED
  BY <1>1, <1>2, FlushOpensKeeps, JsonLandsKeeps

LEMMA FlushFailsFine ==
  ASSUME Sound, NEW t \in Task, FlushFails(t)
  PROVE  Fine(t)
<1> DEFINE c == task[t]
           next == IF c.kind = "stop" THEN "closefail" ELSE "idle"
<1>1. /\ c.pc \in {"fopen", "fwrite"} /\ UNCHANGED <<disk, clock>>
      /\ UNCHANGED left \/ Spend("fails")
      /\ ghost' = [NoteBreak(t) EXCEPT !.back = @ \cup (ghost.endSaved \cap Queued(disk.json))]
      /\ IF c.kind = "start" THEN Breaks(t, TRUE) ELSE UNCHANGED <<bridge, host>>
      /\ task' = Superseded(t, Goes(c, next))
  BY DEF FlushFails
<1>2. /\ c.kind \in {"start", "stop", "save"} /\ c \in Call(clock)
      /\ Starts(c) => Inside(c)
      /\ clock \in Nat /\ MemoryOK /\ TasksOK /\ DiskOK(disk, clock) /\ LeftOK /\ GhostOK
  BY <1>1, FlushingCall
<1>3. DiskOK(disk', clock) /\ GhostOK' /\ ghost'.stray = ghost.stray
  BY <1>1, <1>2, BreakNotes DEF GhostOK
<1>4. LeftOK'
  BY <1>1, <1>2, SpendKeeps DEF LeftOK
<1>5. CASE c.kind = "start"
  <2> DEFINE s == [bridge[c.b] EXCEPT !.stopped = @ \/ TRUE]
  <2>1. Starts(c) /\ Inside(c) /\ bridge[c.b] \in Memory(clock) /\ HandleOK(bridge[c.b])
    BY <1>1, <1>2, <1>5, FlushingCall DEF Starts
  <2>2. s \in Memory(clock) /\ HandleOK(s) /\ SameHandle(bridge[c.b], s)
    BY <2>1 DEF Memory, HandleOK, SameHandle
  <2>3. /\ bridge' = [bridge EXCEPT ![c.b] = CloseGeneration(s, c.sgen)]
        /\ host' = FailedStart(host, c.reg, c.gen)
    BY <1>1, <1>5 DEF Breaks
  <2> HIDE DEF s
  <2>4. Goes(c, next) = NoTask
    BY <1>5 DEF Goes
  <2>5. TasksOK' /\ Others(t) /\ task'[t] = NoTask
    BY <1>1, <1>2, <2>4, NoTaskType, SupersededStep
  <2> QED
    BY <1>1, <1>3, <1>4, <2>1, <2>2, <2>3, <2>5, EndsCall DEF Fine
<1>6. CASE c.kind # "start"
  <2>1. task' = Superseded(t, Goes(c, next)) /\ bridge' = bridge /\ host' = host
    BY <1>1, <1>6
  <2>2. next \in Stage /\ (next = AfterFlush(c) \/ (Stops(c) /\ next = "closefail"))
    BY <1>2, <1>6 DEF AfterFlush, Stops, Stage
  <2> HIDE DEF next
  <2>3. /\ Goes(c, next) \in Call(clock)
        /\ IF next = "idle" THEN Goes(c, next) = NoTask
           ELSE Same(c, Goes(c, next)) /\ Goes(c, next).pc = next
    BY <1>2, <2>2, GoesType
  <2>4. TasksOK' /\ Others(t) /\ task'[t] = Goes(c, next)
    BY <1>1, <1>2, <2>1, <2>3, SupersededStep
  <2>5. Flushed(c, task'[t], next)
    BY <2>3, <2>4 DEF Flushed
  <2>6. MemoryOK' /\ \A b \in Bridge : SameHandle(bridge[b], bridge'[b])
    BY <1>1, <1>2, <2>1 DEF MemoryOK, SameHandle
  <2>7. c.pc \in {"fopen", "fwrite", "cut"} /\ c.pc # "cut"
    BY <1>1
  <2> QED
    BY <1>1, <1>3, <1>4, <2>1, <2>2, <2>4, <2>5, <2>6, <2>7, FlushGoesOn DEF Fine, Kept
<1> QED
  BY <1>5, <1>6

LEMMA CutoverFlushesFine ==
  ASSUME Sound, NEW t \in Task, CutoverFlushes(t)
  PROVE  Fine(t)
<1> DEFINE c == task[t]
<1>0. c.pc = "cut"
  BY DEF CutoverFlushes
<1>1. /\ Starts(c) /\ Inside(c) /\ c.b \in Bridge /\ c \in Call(clock)
      /\ clock \in Nat /\ MemoryOK /\ TasksOK /\ DiskOK(disk, clock) /\ GhostOK /\ LeftOK
  BY <1>0, StartFacts DEF Further
<1>2. CASE Holds(t)
  <2>1. Snapshots(t, c, TRUE, disk, "cutcheck") /\ UNCHANGED <<bridge, clock, left, host>>
    BY <1>2 DEF CutoverFlushes
  <2>2. PICK yes : yes = TRUE
    OBVIOUS
  <2>3. Snapshots(t, c, yes, disk, "cutcheck")
    BY <2>1, <2>2
  <2>4. "cutcheck" \in Stage \ {"fwrite"} /\ StoreTypes
    BY DEF Stage, Sound
  <2>5. /\ DiskOK(disk', clock) /\ GhostOK' /\ ghost'.stray = ghost.stray
        /\ task' \in [Task -> Call(clock)] /\ Others(t) /\ Flushed(c, task'[t], "cutcheck")
    BY <1>1, <2>3, <2>4, SnapshotsStep
  <2>6. TasksOK' /\ LeftOK' /\ MemoryOK' /\ \A b \in Bridge : SameHandle(bridge[b], bridge'[b])
    BY <1>1, <2>1, <2>5 DEF TasksOK, LeftOK, MemoryOK, SameHandle
  <2>7. c.pc \in {"fopen", "fwrite", "cut"} /\ AfterFlush(c) = "cutcheck" /\ host' = host
        /\ clock' = clock
    BY <1>0, <1>1, <2>1 DEF AfterFlush, Starts
  <2>8. PICK next : next = "cutcheck"
    OBVIOUS
  <2>9. next = AfterFlush(c) /\ Flushed(c, task'[t], next)
    BY <2>5, <2>7, <2>8
  <2> QED
    BY <1>1, <2>5, <2>6, <2>7, <2>9, FlushGoesOn DEF Fine, Kept
<1>3. CASE ~Holds(t)
  <2>1. CutoverThrows(t)
    BY <1>3 DEF CutoverFlushes
  <2> QED
    BY <1>1, <2>1, ThrowsFine
<1> QED
  BY <1>2, <1>3

LEMMA CutoverCountsFine ==
  ASSUME Sound, NEW t \in Task, CutoverCounts(t)
  PROVE  Fine(t)
<1> DEFINE c == task[t]
           next == IF disk.mode = "sqlite" THEN "cutmode" ELSE "cutmove"
           x == [c EXCEPT !.pc = next]
<1>0. /\ c.pc = "cutcheck"
      /\ (task' = [task EXCEPT ![t].pc = next] /\ UNCHANGED OnlyTask) \/ CutoverThrows(t)
  BY DEF CutoverCounts
<1>1. /\ Starts(c) /\ Inside(c) /\ c \in Call(clock)
      /\ clock \in Nat /\ MemoryOK /\ TasksOK /\ DiskOK(disk, clock) /\ GhostOK /\ LeftOK
  BY <1>0, StartFacts DEF Further
<1>2. CASE task' = [task EXCEPT ![t].pc = next] /\ UNCHANGED OnlyTask
  <2>1. task' = [task EXCEPT ![t] = x]
    BY <1>1, <1>2 DEF TasksOK
  <2>2. next \in Further
    BY DEF Further
  <2> QED
    BY <1>1, <1>2, <2>1, <2>2, AdvancesFine DEF OnlyTask
<1>3. CASE CutoverThrows(t)
  BY <1>1, <1>3, ThrowsFine
<1> QED
  BY <1>0, <1>2, <1>3

LEMMA CutoverMovesFine ==
  ASSUME Sound, NEW t \in Task, CutoverMoves(t)
  PROVE  Fine(t)
<1> DEFINE c == task[t]
           x == [c EXCEPT !.pc = "cutmode"]
<1>0. /\ c.pc = "cutmove" /\ disk' = [disk EXCEPT !.jsonAt = FALSE]
      /\ task' = [task EXCEPT ![t].pc = "cutmode"]
      /\ UNCHANGED <<bridge, clock, ghost, left, host>>
  BY DEF CutoverMoves
<1>1. /\ Starts(c) /\ Inside(c) /\ c \in Call(clock)
      /\ clock \in Nat /\ MemoryOK /\ TasksOK /\ DiskOK(disk, clock) /\ GhostOK /\ LeftOK
  BY <1>0, StartFacts DEF Further
<1>2. task' = [task EXCEPT ![t] = x]
  BY <1>0, <1>1 DEF TasksOK
<1>3. DiskOK(disk', clock)
  BY <1>0, <1>1 DEF DiskOK, Directory
<1>4. PICK next \in Further : next = "cutmode"
  BY DEF Further
<1> QED
  BY <1>0, <1>1, <1>2, <1>3, <1>4, AdvancesFine

LEMMA CutoverEndsFine ==
  ASSUME Sound, NEW t \in Task, CutoverEnds(t)
  PROVE  Fine(t)
<1> DEFINE c == task[t]
           s == bridge[c.b]
<1>0. c.pc = "cutmode"
  BY DEF CutoverEnds
<1>1. /\ Starts(c) /\ Inside(c) /\ s \in Memory(clock) /\ HandleOK(s)
      /\ DiskOK(disk, clock) /\ GhostOK /\ LeftOK
  BY <1>0, StartFacts DEF Further
<1>2. CASE Holds(t)
  <2>1. /\ disk' = [disk EXCEPT !.mode = "sqlite"] /\ GoesOn(t, s, "refresh")
        /\ UNCHANGED <<clock, ghost, left>>
    BY <1>2 DEF CutoverEnds
  <2>2. DiskOK(disk', clock) /\ GhostOK' /\ LeftOK' /\ SameHandle(s, s)
    BY <1>1, <2>1 DEF DiskOK, Directory, Mode, GhostOK, LeftOK, SameHandle
  <2>3. PICK next \in Further : next = "refresh"
    BY DEF Further
  <2>4. GoesOn(t, s, next)
    BY <2>1, <2>3
  <2> QED
    BY <1>1, <2>1, <2>2, <2>4, GoesOnKeeps
<1>3. CASE ~Holds(t)
  <2>1. CutoverThrows(t)
    BY <1>3 DEF CutoverEnds
  <2> QED
    BY <1>1, <2>1, ThrowsFine
<1> QED
  BY <1>2, <1>3

LEMMA RefreshesFine ==
  ASSUME Sound, NEW t \in Task, Refreshes(t)
  PROVE  Fine(t)
<1> DEFINE c == task[t]
           s == bridge[c.b]
           r == [s EXCEPT !.stopped = IF Current(c) THEN FALSE ELSE @]
<1>0. c.pc = "refresh" /\ GoesOn(t, r, "tail") /\ UNCHANGED <<disk, clock, ghost, left>>
  BY DEF Refreshes
<1>1. /\ Starts(c) /\ Inside(c) /\ s \in Memory(clock) /\ HandleOK(s)
      /\ DiskOK(disk, clock) /\ GhostOK /\ LeftOK
  BY <1>0, StartFacts DEF Further
<1>2. r \in Memory(clock) /\ HandleOK(r) /\ SameHandle(s, r)
  BY <1>1 DEF Memory, HandleOK, SameHandle
<1>3. DiskOK(disk', clock) /\ GhostOK' /\ LeftOK'
  BY <1>0, <1>1 DEF GhostOK, LeftOK
<1> HIDE DEF r
<1>4. PICK next \in Further : next = "tail"
  BY DEF Further
<1>5. GoesOn(t, r, next)
  BY <1>0, <1>4
<1> QED
  BY <1>0, <1>1, <1>2, <1>3, <1>5, GoesOnKeeps

-----------------------------------------------------------------------------
(* Other steps that matter to nobody's lease.                              *)

(* A call that answers for no generation is over.                          *)
LEMMA Leaves ==
  ASSUME Sound, NEW t \in Task, ~Closer(task[t]), task' = [task EXCEPT ![t] = NoTask],
         HostOK(host'), SameOwners(host, host'), clock' = clock,
         MemoryOK', \A b \in Bridge : SameHandle(bridge[b], bridge'[b]),
         DiskOK(disk', clock), GhostOK', ghost'.stray = ghost.stray, LeftOK'
  PROVE  Kept
<1>1. clock \in Nat /\ TasksOK
  BY DEF Sound, StoreTypes
<1>2. TasksOK' /\ Others(t) /\ task'[t] = NoTask
  BY <1>1, NoTaskType, OneTask
<1>3. CallOK(task'[t], host') /\ Light(task'[t])
  BY <1>2, NoTaskType DEF CallOK, Light
<1>4. StoreTypes'
  BY <1>1, <1>2 DEF StoreTypes
<1> QED
  BY <1>2, <1>3, <1>4, CallsBy DEF Kept, Routine, Sound

LEMMA Quiescent ==
  ASSUME Sound
  PROVE  /\ UNCHANGED bridge /\ clock' = clock =>
              MemoryOK' /\ \A b \in Bridge : SameHandle(bridge[b], bridge'[b])
         /\ UNCHANGED disk => DiskOK(disk', clock)
         /\ UNCHANGED ghost => GhostOK' /\ ghost'.stray = ghost.stray
         /\ UNCHANGED left => LeftOK'
         /\ UNCHANGED host => HostOK(host') /\ SameOwners(host, host')
BY DEF Sound, StoreTypes, MemoryOK, SameHandle, GhostOK, LeftOK, SameOwners

LEMMA NotClosing ==
  ASSUME Sound, NEW t \in Task, Waits(task[t]) \/ task[t].pc \in {"idle", "debug"}
  PROVE  ~Closer(task[t])
<1>1. CallOK(task[t], host)
  BY DEF Sound, CallsOK
<1> QED
  BY <1>1 DEF CallOK, Closer, Stops, Starts, Inside, Waits

LEMMA RejectedKeeps ==
  ASSUME Sound, NEW t \in Task, Rejected(t)
  PROVE  Kept
<1>1. /\ task[t].pc = "rejected" /\ task' = [task EXCEPT ![t] = NoTask]
      /\ UNCHANGED <<disk, bridge, clock, ghost, left, host>>
  BY DEF Rejected, OnlyTask
<1>2. ~Closer(task[t])
  BY <1>1, NotClosing DEF Waits
<1> QED
  BY <1>1, <1>2, Quiescent, Leaves

LEMMA ChannelStartsKeeps ==
  ASSUME Sound, NEW t \in Task, ChannelStarts(t)
  PROVE  Kept
<1> DEFINE c == task[t]
           on == CanStart(host, c.reg, c.gen)
           s == bridge[c.b]
           r == [s EXCEPT !.chan = TRUE]
           br == IF on THEN [bridge EXCEPT ![c.b].chan = TRUE] ELSE bridge
           run == Running(host, br)
<1>1. /\ c.kind = "channel" /\ c.pc = "debug" /\ bridge' = br
      /\ host' = IF on THEN Probe(host, c.reg, c.gen, run, FALSE) ELSE host
      /\ task' = [task EXCEPT ![t] = NoTask]
      /\ UNCHANGED <<disk, clock, ghost, left>>
  BY DEF ChannelStarts
<1>2. /\ c.b \in Bridge /\ c.reg \in Reg /\ ~Closer(c) /\ MemoryOK /\ HostOK(host)
      /\ s \in Memory(clock) /\ HandleOK(s)
  BY <1>1, NotClosing DEF Sound, CallsOK, CallOK, Waits, Main, StoreTypes, MemoryOK
<1>3. r \in Memory(clock) /\ HandleOK(r) /\ SameHandle(s, r)
  BY <1>2 DEF Memory, HandleOK, SameHandle
<1>4. MemoryOK' /\ \A b \in Bridge : SameHandle(bridge[b], bridge'[b])
  <2>1. CASE on
    <3>1. bridge' = [bridge EXCEPT ![c.b] = r]
      BY <1>1, <1>2, <2>1 DEF MemoryOK
    <3> HIDE DEF r
    <3> QED
      BY <1>1, <1>2, <1>3, <3>1, OneBridge
  <2>2. CASE ~on
    BY <1>1, <2>2, Quiescent
  <2> QED
    BY <2>1, <2>2
<1> HIDE DEF run, br, r
<1>5. HostOK(host') /\ SameOwners(host, host')
  <2>1. CASE on
    <3>1. PICK no : no = FALSE
      OBVIOUS
    <3>2. host' = Probe(host, c.reg, c.gen, run, no)
      BY <1>1, <2>1, <3>1
    <3> QED
      BY <1>2, <3>2, ProbeOK
  <2>2. CASE ~on
    BY <1>1, <2>2, Quiescent
  <2> QED
    BY <2>1, <2>2
<1> QED
  BY <1>1, <1>2, <1>4, <1>5, Quiescent, Leaves

(* No call changes.                                                        *)
LEMMA Stays ==
  ASSUME Sound, task' = task, HostOK(host'), SameOwners(host, host'), clock' = clock,
         MemoryOK', \A b \in Bridge : SameHandle(bridge[b], bridge'[b]),
         DiskOK(disk', clock), GhostOK', ghost'.stray = ghost.stray, LeftOK'
  PROVE  Kept
<1>1. StoreTypes'
  BY DEF Sound, StoreTypes, TasksOK
<1> QED
  BY <1>1, CallsStay DEF Kept, Routine, Sound

LEMMA ObservationKeeps ==
  ASSUME Sound, NEW r \in Reg, ObservationFires(r)
  PROVE  Kept
<1> DEFINE run == Running(host, bridge)
           g == host.decl[r].gen
<1>1. /\ Spend("polls") /\ host' = Probe(host, r, g, run, TRUE)
      /\ UNCHANGED <<disk, bridge, task, clock, ghost>>
  BY DEF ObservationFires, storeVars
<1>2. PICK yes : yes = TRUE
  OBVIOUS
<1>3. host' = Probe(host, r, g, run, yes)
  BY <1>1, <1>2
<1> HIDE DEF run, g
<1>4. HostOK(host') /\ SameOwners(host, host')
  BY <1>3, ProbeOK DEF Sound
<1>5. LeftOK'
  BY <1>1, SpendKeeps DEF Sound, StoreTypes
<1> QED
  BY <1>1, <1>4, <1>5, Quiescent, Stays

LEMMA ChannelStopsKeeps ==
  ASSUME Sound, NEW r \in Reg, ChannelStops(r)
  PROVE  Kept
<1> DEFINE b == host.current
           s == [bridge[b] EXCEPT !.chan = FALSE]
<1>1. /\ IsStoppable(host, r, host.cb[r]) /\ bridge' = [bridge EXCEPT ![b].chan = FALSE]
      /\ UNCHANGED <<disk, task, clock, ghost, left, host>>
  BY DEF ChannelStops
<1>2. b \in Bridge
  BY <1>1 DEF IsStoppable, Sound, HostOK, Based, Living, Main
<1>3. /\ MemoryOK /\ bridge[b] \in Memory(clock) /\ HandleOK(bridge[b])
  BY <1>2 DEF Sound, StoreTypes, MemoryOK
<1>4. s \in Memory(clock) /\ HandleOK(s) /\ SameHandle(bridge[b], s)
  BY <1>3 DEF Memory, HandleOK, SameHandle
<1>5. bridge' = [bridge EXCEPT ![b] = s]
  BY <1>1, <1>2, <1>3 DEF MemoryOK
<1> HIDE DEF s
<1>6. MemoryOK' /\ \A c \in Bridge : SameHandle(bridge[c], bridge'[c])
  BY <1>1, <1>2, <1>3, <1>4, <1>5, OneBridge
<1> QED
  BY <1>1, <1>6, Quiescent, Stays

LEMMA CorruptKeeps ==
  ASSUME Sound, Corrupt, host' = host
  PROVE  Kept
<1>1. /\ Spend("corrupts") /\ disk' = [disk EXCEPT !.ok = FALSE]
      /\ UNCHANGED <<bridge, task, clock>>
  BY DEF Corrupt
<1>2. GhostOK' /\ ghost'.stray = ghost.stray
  BY DEF Corrupt, Sound, StoreTypes, GhostOK
<1>3. DiskOK(disk', clock) /\ LeftOK'
  BY <1>1, SpendKeeps DEF Sound, StoreTypes, DiskOK, Directory
<1> QED
  BY <1>1, <1>2, <1>3, Quiescent, Stays

-----------------------------------------------------------------------------
(* The leases, over a step that matters to none, and when a start is over. *)

LEMMA RoutineLeases ==
  ASSUME Sound, Sound', Routine, Leases
  PROVE  Leases'
<1>1. /\ host'.active = host.active /\ host'.current = host.current
      /\ \A b \in Bridge : SameHandle(bridge[b], bridge'[b])
      /\ \A u \in Task : Steady(task[u], task'[u]) \/ (Light(task'[u]) /\ ~Closer(task[u]))
  BY DEF Routine, SameOwners
<1>2. \A u \in Task : Starts(task'[u]) => Steady(task[u], task'[u]) /\ Starts(task[u])
  BY <1>1 DEF Light, Starts, Steady, Same
<1>3. OneStart'
  BY <1>2 DEF Leases, OneStart, Steady, Same
<1>4. ASSUME NEW t \in Task PROVE StartOK(task'[t], host', bridge')
  <2> SUFFICES ASSUME Starts(task'[t]), IsActive(host', task'[t].reg, task'[t].gen)
               PROVE /\ ~bridge'[host'.current].started
                     /\ ~Waits(task'[t]) => task'[t].b = host'.current
                     /\ Inside(task'[t]) => task'[t].sgen = bridge'[task'[t].b].gen
    BY DEF StartOK
  <2>1. Steady(task[t], task'[t]) /\ Starts(task[t]) /\ StartOK(task[t], host, bridge)
    BY <1>2 DEF Leases
  <2>2. IsActive(host, task[t].reg, task[t].gen)
    BY <1>1, <2>1 DEF IsActive, Owns, Steady, Same
  <2>3. host.current \in Bridge
    BY <2>2 DEF Sound, HostOK, Based, Living, IsActive, Main
  <2>4. Inside(task'[t]) => ~Waits(task'[t])
    BY DEF Inside, Waits
  <2> QED
    BY <1>1, <2>1, <2>2, <2>3, <2>4 DEF StartOK, Steady, Same, SameHandle
<1>5. \A b \in Bridge : Owned(host, b) <=> Owned(host', b)
  BY <1>1 DEF Owned
<1>6. \A b \in Main : bridge'[b].started => Owned(host', b)
  BY <1>1, <1>5 DEF Leases, SameHandle, Main
<1>7. ASSUME NEW b \in Main, Open(bridge'[b]) PROVE Owned(host', b) \/ \E t \in Task : Closes(bridge', task'[t], b)
  <2>1. Open(bridge[b]) /\ b \in Bridge
    BY <1>1, <1>7 DEF Open, SameHandle, Main
  <2>2. ASSUME NEW t \in Task, Closes(bridge, task[t], b) PROVE Closes(bridge', task'[t], b)
    <3>1. Steady(task[t], task'[t])
      BY <1>1, <2>2 DEF Closes, Closer
    <3> QED
      BY <1>1, <2>1, <2>2, <3>1 DEF Closes, Steady, Same, SameHandle, Stops, Starts
  <2> QED
    BY <1>5, <2>1, <2>2 DEF Leases
<1> QED
  BY <1>3, <1>4, <1>6, <1>7 DEF Leases

LEMMA EndedLeases ==
  ASSUME Sound, Sound', NEW t \in Task, Ended(t), Leases
  PROVE  Leases'
<1> DEFINE c == task[t]
<1>1. /\ Starts(c) /\ Inside(c) /\ task'[t] = NoTask
      /\ \A u \in Task \ {t} : Same(task[u], task'[u]) /\ task'[u].pc = task[u].pc
      /\ host'.current = host.current
      /\ host'.active = host.active \/ (IsActive(host, c.reg, c.gen) /\ host'.active.phase # "active")
      /\ c.sgen = bridge[c.b].gen => bridge'[c.b].closed
  BY DEF Ended, Others
<1>2. ~Starts(task'[t]) /\ ~Stops(task'[t]) /\ ~Waits(c)
  BY <1>1, NoTaskType DEF Starts, Stops, Inside, Waits
<1>9. \A b \in Bridge : bridge'[b].gen = bridge[b].gen
  BY DEF Ended
<1>10. \A b \in Bridge : bridge'[b].started = bridge[b].started
  BY DEF Ended
<1>13. \A b \in Bridge : bridge[b].closed => bridge'[b].closed
  BY DEF Ended
<1>11. \A b \in Main : Open(bridge'[b]) => Open(bridge[b])
  BY <1>1, <1>9, <1>13 DEF Open, Main
<1>12. \A b \in Main : Open(bridge'[b]) => ~(b = c.b /\ c.sgen = bridge[b].gen)
  BY <1>1, <1>9, <1>13 DEF Open, Main
<1>8. \A b \in Main, u \in Task : Closes(bridge, task[u], b) /\ Open(bridge'[b]) => Closes(bridge', task'[u], b)
  <2> SUFFICES ASSUME NEW b \in Main, NEW u \in Task, Closes(bridge, task[u], b), Open(bridge'[b])
               PROVE Closes(bridge', task'[u], b)
    OBVIOUS
  <2>1. u # t
    BY <1>1, <1>9, <1>12 DEF Closes, Stops, Starts, Main
  <2>2. Same(task[u], task'[u]) /\ (Inside(task'[u]) <=> Inside(task[u]))
    BY <1>1, <2>1 DEF Inside
  <2> QED
    BY <1>9, <2>2 DEF Closes, Same, Stops, Starts, Main
<1>3. OneStart'
  <2> SUFFICES ASSUME NEW u \in Task, NEW v \in Task, Starts(task'[u]), Starts(task'[v]),
                      task'[u].reg = task'[v].reg, task'[u].gen = task'[v].gen
               PROVE u = v
    BY DEF OneStart
  <2>1. u # t /\ v # t
    BY <1>2
  <2> QED
    BY <1>1, <2>1 DEF Leases, Main, OneStart, Same, Starts
<1>4. ASSUME NEW u \in Task PROVE StartOK(task'[u], host', bridge')
  <2> SUFFICES ASSUME Starts(task'[u]), IsActive(host', task'[u].reg, task'[u].gen)
               PROVE /\ ~bridge'[host'.current].started
                     /\ ~Waits(task'[u]) => task'[u].b = host'.current
                     /\ Inside(task'[u]) => task'[u].sgen = bridge'[task'[u].b].gen
    BY DEF StartOK
  <2>1. u # t /\ Same(task[u], task'[u]) /\ task'[u].pc = task[u].pc
    BY <1>1, <1>2
  <2>2. Starts(task[u]) /\ IsActive(host, task[u].reg, task[u].gen)
    BY <1>1, <2>1 DEF IsActive, Owns, Same, Starts
  <2>3. StartOK(task[u], host, bridge) /\ host.current \in Bridge
    BY <2>2 DEF Leases, Sound, HostOK, Based, Living, IsActive, Main
  <2>4. Inside(task'[u]) => ~Waits(task'[u])
    BY DEF Inside, Waits
  <2>5. (Inside(task'[u]) <=> Inside(task[u])) /\ (Waits(task'[u]) <=> Waits(task[u]))
    BY <2>1 DEF Inside, Waits
  <2> QED
    BY <1>9, <1>10, <2>1, <2>2, <2>3, <2>4, <2>5, <1>1 DEF StartOK, Same
<1>5. CASE host'.active = host.active
  <2>1. \A b \in Main : Owned(host, b) <=> Owned(host', b)
    BY <1>1, <1>5 DEF Owned
  <2>2. \A b \in Main : bridge'[b].started => Owned(host', b)
    BY <1>9, <1>10, <1>11, <2>1 DEF Leases, Main
  <2>3. \A b \in Main : Open(bridge'[b]) => Owned(host', b) \/ \E u \in Task : Closes(bridge', task'[u], b)
    BY <1>8, <1>9, <1>11, <2>1 DEF Leases, Main
  <2> QED
    BY <1>3, <1>4, <2>2, <2>3 DEF Leases
<1>6. CASE IsActive(host, c.reg, c.gen) /\ host'.active.phase # "active"
  <2>1. /\ ~bridge[host.current].started /\ c.b = host.current /\ c.sgen = bridge[c.b].gen
        /\ host.current \in Bridge
    BY <1>1, <1>2, <1>6 DEF Leases, StartOK, Sound, HostOK, Based, Living, IsActive, Main
  <2>2. \A b \in Main : ~bridge'[b].started
    BY <1>9, <1>10, <1>11, <2>1 DEF Leases, Main, Owned
  <2>3. \A b \in Main : Open(bridge'[b]) => \E u \in Task : Closes(bridge', task'[u], b)
    BY <1>8, <1>11, <1>12, <2>1 DEF Leases, Owned
  <2> QED
    BY <1>3, <1>4, <2>2, <2>3 DEF Leases
<1> QED
  BY <1>1, <1>5, <1>6

-----------------------------------------------------------------------------
(* Steps that give or take a lease.                                        *)

Upheld ==
  Sound' /\ (ghost.stray => ghost'.stray) /\ (Leases /\ ~ghost'.stray => Leases')

LEMMA KeptUpholds == ASSUME Sound, Kept PROVE Upheld
BY RoutineLeases DEF Kept, Upheld, Routine

LEMMA FineUpholds == ASSUME Sound, NEW t \in Task, Fine(t) PROVE Upheld
BY RoutineLeases, EndedLeases DEF Fine, Upheld, Routine, Ended

LEMMA RegisterUpholds ==
  ASSUME Sound, NEW r \in Reg, NEW c \in Code, Register(r, c)
  PROVE  Upheld
<1> DEFINE h == host
           k == host'
           run == Running(host, bridge)
<1>1. PICK outcome : /\ CanBuild(host, ModeOf(host, Plan(host, r, c), c))
                     /\ left' = [left EXCEPT !.regs = @ - 1,
                                             !.fails = IF outcome = "ok" THEN @ ELSE @ - 1]
                     /\ host' = Registered(host, r, c, outcome, run)
  BY DEF Register
<1>2. UNCHANGED <<disk, bridge, task, clock, ghost>>
  BY DEF Register, storeVars
<1>3. LeftOK'
  BY <1>1 DEF Sound, StoreTypes, LeftOK
<1> HIDE DEF run
<1>4. HostOK(k) /\ (SameOwners(h, k) \/ Deferred(h, k) \/ Taken(h, k))
  BY <1>1, RegisteredOK DEF Sound
<1>5. CASE SameOwners(h, k)
  BY <1>2, <1>3, <1>4, <1>5, Quiescent, Stays, KeptUpholds
<1>6. StoreTypes' /\ OneStop' /\ (ghost.stray => ghost'.stray)
  BY <1>2, <1>3 DEF Sound, StoreTypes, MemoryOK, DiskOK, TasksOK, GhostOK, OneStop
<1>7. CASE Deferred(h, k)
  <2>1. k.active = h.active /\ k.current = h.current /\ k.next = h.next + 1 /\ h.next \in Nat
    BY <1>7 DEF Deferred, Given, Sound, HostOK, HostShape
  <2>2. CallsOK'
    BY <1>2, <2>1 DEF CallsOK, CallOK, Sound
  <2>3. Leases => Leases'
    BY <1>2, <2>1 DEF Leases, OneStart, StartOK, IsActive, Owned
  <2> QED
    BY <1>4, <1>6, <2>2, <2>3 DEF Upheld, Sound
<1>8. CASE Taken(h, k)
  <2>1. /\ h.active.phase \notin {"active", "stopping"} /\ k.active.gen = h.next
        /\ k.next = h.next + 1 /\ h.next \in Nat
        /\ h.current \in Main => k.current \in Main
    BY <1>8 DEF Taken, Given, Living, Sound, HostOK, HostShape
  <2>2. \A t \in Task : CallOK(task[t], h) /\ task[t].gen \in Nat
    BY DEF Sound, CallsOK, StoreTypes, TasksOK, Call
  <2>3. CallsOK'
    BY <1>2, <2>1, <2>2 DEF CallsOK, CallOK
  <2>4. ASSUME Leases PROVE Leases'
    <3>1. \A b \in Main : ~Owned(h, b)
      BY <2>1 DEF Owned
    <3>2. \A t \in Task : StartOK(task[t], k, bridge)
      BY <2>1, <2>2 DEF StartOK, CallOK, IsActive, Owns, Starts
    <3> QED
      BY <1>2, <2>4, <3>1, <3>2 DEF Leases, OneStart
  <2> QED
    BY <1>4, <1>6, <2>3, <2>4 DEF Upheld, Sound
<1> QED
  BY <1>4, <1>5, <1>7, <1>8

(* A call that answers for no generation changes: those that do, stay.     *)
LEMMA ClosersStay ==
  ASSUME NEW t \in Task, ~Closer(task[t]), Others(t), NEW b \in Bridge,
         bridge'[b].gen = bridge[b].gen, NEW u \in Task, Closes(bridge, task[u], b)
  PROVE  Closes(bridge', task'[u], b)
<1>1. u # t
  BY DEF Closes, Closer
<1>2. Same(task[u], task'[u]) /\ task'[u].pc = task[u].pc
  BY <1>1 DEF Others
<1> QED
  BY <1>2 DEF Closes, Same, Stops, Starts, Inside

LEMMA StartStays ==
  ASSUME NEW c, NEW d, Same(c, d), d.pc = c.pc
  PROVE  /\ Starts(d) <=> Starts(c)
         /\ Inside(d) <=> Inside(c)
         /\ Waits(d) <=> Waits(c)
         /\ \A h : IsActive(h, d.reg, d.gen) <=> IsActive(h, c.reg, c.gen)
         /\ \A h, br : StartOK(c, h, br) => StartOK(d, h, br)
BY DEF Same, Starts, Inside, Waits, StartOK

(* One more start of its registry and generation.                          *)
LEMMA OneStartStays ==
  ASSUME OneStart, NEW t \in Task, Others(t),
         Starts(task'[t]) => \/ /\ Starts(task[t]) /\ task[t].reg = task'[t].reg
                                /\ task[t].gen = task'[t].gen
                             \/ \A u \in Task \ {t} : ~(Starts(task[u]) /\ task[u].reg = task'[t].reg
                                                        /\ task[u].gen = task'[t].gen)
  PROVE  OneStart'
<1>1. \A u \in Task \ {t} : Same(task[u], task'[u])
  BY DEF Others
<1>2. ASSUME NEW u \in Task \ {t}, Starts(task'[u]), Starts(task'[t]),
             task'[u].reg = task'[t].reg, task'[u].gen = task'[t].gen
      PROVE  FALSE
  <2>1. Starts(task[u]) /\ task[u].reg = task'[t].reg /\ task[u].gen = task'[t].gen
    BY <1>1, <1>2 DEF Same, Starts
  <2>2. Starts(task[t]) /\ task[t].reg = task'[t].reg /\ task[t].gen = task'[t].gen
    BY <1>2, <2>1
  <2> QED
    BY <2>1, <2>2 DEF OneStart
<1>3. \A u, v \in Task \ {t} :
        Starts(task'[u]) /\ Starts(task'[v]) /\ task'[u].reg = task'[v].reg
        /\ task'[u].gen = task'[v].gen => u = v
  BY <1>1 DEF OneStart, Same, Starts
<1> QED
  BY <1>2, <1>3 DEF OneStart

(* A call that was idle or waited for its predecessor gets the bridge.     *)
LEMMA ObtainsUpholds ==
  ASSUME Sound, NEW t \in Task, NEW rec \in Call(clock), Obtains(t, rec),
         rec.kind \in {"start", "channel"}, rec.reg \in Reg, rec.gen \in 1..(host.next - 1),
         host.current \in Main, ~Closer(task[t]), LeftOK',
         \/ rec = task[t] /\ Waits(task[t])
         \/ Starts(rec) /\ IsActive(host, rec.reg, rec.gen) =>
              /\ ~bridge[host.current].started
              /\ \A u \in Task : ~(Starts(task[u]) /\ task[u].reg = rec.reg)
  PROVE  Upheld
<1> DEFINE r == rec.reg
           g == rec.gen
           on == IsActive(host, r, g)
           run == Running(host, bridge)
           late == ~on /\ \E u \in Task \ {t} : task[u].kind = "start" /\ task[u].gen = g
           x == [rec EXCEPT !.pc = "debug", !.b = host'.current]
<1>1. /\ on \/ CanReactivate(host, r, g)
      /\ host' = IF on THEN Resumed(host, r, g, run) ELSE Reactivated(host, r, g, run)
      /\ task' = [task EXCEPT ![t] = x]
      /\ ghost' = [ghost EXCEPT !.stray = @ \/ late]
      /\ UNCHANGED <<disk, bridge, clock>>
  BY DEF Obtains
<1>2. HostOK(host) /\ clock \in Nat /\ TasksOK /\ GhostOK /\ StoreTypes
  BY DEF Sound, StoreTypes
<1> HIDE DEF run
<1>3. /\ HostOK(host') /\ host'.next = host.next /\ host'.active.gen = g /\ host'.active.reg = r
      /\ host.active.gen = g /\ host.active.reg = r
      /\ host'.active.phase = "active" /\ host'.current \in Main
      /\ on => host'.current = host.current
      /\ ~on => host.active.phase = "stopped"
  <2>1. CASE on
    <3>1. HostOK(host') /\ SameOwners(host, host')
      BY <1>1, <1>2, <2>1, ResumedOK
    <3> QED
      BY <2>1, <3>1 DEF SameOwners, IsActive, Owns
  <2>2. CASE ~on
    <3>1. CanReactivate(host, r, g) /\ host' = Reactivated(host, r, g, run)
      BY <1>1, <2>2
    <3>2. LET k == Reactivated(host, r, g, run) IN
         /\ HostOK(k) /\ k.active = [host.active EXCEPT !.phase = "active"]
         /\ k.next = host.next /\ k.pending = host.pending /\ k.cb = host.cb /\ k.current \in Main
      BY <1>2, <3>1, ReactivatedOK
    <3>3. HostOK(host') /\ host'.active = [host.active EXCEPT !.phase = "active"]
          /\ host'.next = host.next /\ host'.current \in Main
      BY <3>1, <3>2
    <3>4. host.active \in Owner
      BY <1>2 DEF HostOK, HostShape
    <3>5. /\ host'.active.gen = host.active.gen /\ host'.active.reg = host.active.reg
          /\ host'.active.phase = "active"
      BY <3>3, <3>4 DEF Owner
    <3> QED
      BY <2>2, <3>1, <3>3, <3>5 DEF CanReactivate, Owns
  <2> QED
    BY <2>1, <2>2
<1>4. /\ x \in Call(clock) /\ x.kind = rec.kind /\ x.reg = r /\ x.gen = g /\ x.pc = "debug"
      /\ x.b = host'.current
  BY <1>3 DEF Call, Stage, Main
<1>5. late <=> ~on /\ \E u \in Task \ {t} : task[u].kind = "start" /\ task[u].gen = g
  OBVIOUS
<1>6. GhostOK' /\ (ghost.stray => ghost'.stray) /\ (~ghost'.stray => ~late)
  BY <1>1, <1>2, <1>5 DEF GhostOK
<1> HIDE DEF x, late
<1>7. TasksOK' /\ Others(t) /\ task'[t] = x
  BY <1>1, <1>2, <1>4, OneTask
<1>8. StoreTypes'
  BY <1>1, <1>2, <1>6, <1>7 DEF StoreTypes, MemoryOK, DiskOK
<1>9. ~Waits(x) /\ ~Inside(x) /\ ~Stops(x)
  BY <1>4 DEF Waits, Inside, Stops
<1>10. CallsOK' /\ OneStop'
  <2>1. CallOK(x, host')
    BY <1>3, <1>4, <1>9 DEF CallOK, Starts, Stops
  <2>2. ASSUME NEW u \in Task \ {t} PROVE CallOK(task'[u], host')
    <3>1. CallOK(task[u], host) /\ Same(task[u], task'[u]) /\ task'[u].pc = task[u].pc
      BY <1>7 DEF Sound, CallsOK, Others
    <3>2. task[u].kind # "stop"
      BY <1>3, <3>1 DEF CallOK, IsActive
    <3> QED
      BY <1>3, <3>1, <3>2, CallKeeps
  <2>3. \A u \in Task : Stops(task'[u]) => Stops(task[u])
    BY <1>7, <1>9 DEF Others, Same, Stops
  <2> QED
    BY <1>7, <2>1, <2>2, <2>3 DEF CallsOK, Sound, OneStop
<1>11. ASSUME Leases, ~late PROVE Leases'
  <2>1. ~bridge[host'.current].started \/ ~Starts(x)
    <3>1. CASE on
      <4>1. rec = task[t] /\ Starts(rec) => ~bridge[host.current].started
        BY <1>11, <3>1 DEF Leases, StartOK
      <4> QED
        BY <1>3, <1>4, <3>1, <4>1 DEF Starts
    <3>2. CASE ~on
      BY <1>3, <1>11, <3>2 DEF Leases, Owned
    <3> QED
      BY <3>1, <3>2
  <2>2. ASSUME Starts(x), NEW u \in Task \ {t}, Starts(task[u]), task[u].reg = r, task[u].gen = g
        PROVE  FALSE
    <3>1. CASE on
      <4>1. rec = task[t]
        BY <1>4, <2>2, <3>1 DEF Starts
      <4> QED
        BY <1>4, <1>11, <2>2, <4>1 DEF Leases, OneStart, Starts
    <3>2. CASE ~on
      BY <1>5, <1>11, <2>2, <3>2 DEF Starts
    <3> QED
      BY <3>1, <3>2
  <2>3. OneStart'
    BY <1>4, <1>7, <1>11, <2>2, OneStartStays DEF Leases
  <2>4. ASSUME NEW u \in Task PROVE StartOK(task'[u], host', bridge')
    <3>1. CASE u = t
      BY <1>1, <1>4, <1>7, <1>9, <2>1, <3>1 DEF StartOK
    <3>2. CASE u # t
      <4>1. Same(task[u], task'[u]) /\ task'[u].pc = task[u].pc
        BY <1>7, <3>2 DEF Others
      <4>2. CASE on
        <5>1. StartOK(task[u], host, bridge) => StartOK(task[u], host', bridge')
          BY <1>1, <1>3, <4>2 DEF StartOK, IsActive, Owns
        <5> QED
          BY <1>11, <4>1, <5>1, StartStays DEF Leases
      <4>3. CASE ~on
        <5>1. ~(Starts(task[u]) /\ task[u].gen = g)
          BY <1>5, <1>11, <3>2, <4>3 DEF Starts
        <5>2. StartOK(task[u], host', bridge')
          BY <1>3, <5>1 DEF StartOK, IsActive, Owns
        <5> QED
          BY <4>1, <5>2, StartStays
      <4> QED
        BY <4>2, <4>3
    <3> QED
      BY <3>1, <3>2
  <2>5. \A b \in Main : Owned(host, b) => Owned(host', b)
    BY <1>3 DEF Owned, IsActive
  <2>6. \A b \in Main : bridge'[b].started => Owned(host', b)
    BY <1>1, <1>11, <2>5 DEF Leases
  <2>7. ASSUME NEW b \in Main, Open(bridge'[b])
        PROVE  Owned(host', b) \/ \E u \in Task : Closes(bridge', task'[u], b)
    <3>1. Open(bridge[b]) /\ b \in Bridge /\ bridge'[b].gen = bridge[b].gen
      BY <1>1, <2>7 DEF Main
    <3>2. CASE Owned(host, b)
      BY <2>5, <3>2
    <3>3. CASE \E u \in Task : Closes(bridge, task[u], b)
      BY <1>7, <3>1, <3>3, ClosersStay
    <3> QED
      BY <1>11, <3>1, <3>2, <3>3 DEF Leases
  <2> QED
    BY <2>3, <2>4, <2>6, <2>7 DEF Leases
<1> QED
  BY <1>3, <1>6, <1>8, <1>10, <1>11 DEF Upheld, Sound

LEMMA CallsStartUpholds ==
  ASSUME Sound, NEW t \in Task, NEW kind \in {"start", "channel"}, NEW r \in Reg,
         CallsStart(t, kind, r)
  PROVE  Upheld
<1> DEFINE g == host.cb[r]
           rec == [NoTask EXCEPT !.kind = kind, !.reg = r, !.gen = g, !.mode = host.mode]
           barrier == CASE host.retire = "open" -> "await"
                        [] host.retire = "failed" -> "rejected"
                        [] OTHER -> "resolved"
           x == [rec EXCEPT !.pc = barrier]
<1>1. /\ task[t].pc = "idle" /\ g > 0 /\ (kind = "start" => MayStart(r))
      /\ Spend("starts") \/ Spend("chans")
      /\ IF Owns(host.pending, r, g)
         THEN /\ task' = [task EXCEPT ![t] = x]
              /\ UNCHANGED <<disk, bridge, clock, ghost, host>>
         ELSE Obtains(t, rec)
  BY DEF CallsStart, Free
<1>2. /\ clock \in Nat /\ TasksOK /\ GhostOK /\ LeftOK /\ HostOK(host) /\ HostShape(host)
      /\ Generations(host) /\ ~Closer(task[t])
  BY <1>1, NotClosing DEF Sound, StoreTypes, HostOK
<1>3. LeftOK'
  BY <1>1, <1>2, SpendKeeps
<1>4. g \in 1..(host.next - 1) /\ host.current \in Main
  BY <1>1, <1>2 DEF HostShape, Generations, HostOK, Based
<1>5. /\ rec \in Call(clock) /\ rec.kind = kind /\ rec.reg = r /\ rec.gen = g
  BY <1>2, <1>4, NoTaskType DEF Call, HostShape
<1>6. barrier \in {"await", "rejected", "resolved"}
  OBVIOUS
<1> HIDE DEF rec, barrier
<1>7. /\ x \in Call(clock) /\ x.kind = kind /\ x.reg = r /\ x.gen = g /\ Waits(x)
  BY <1>5, <1>6 DEF Call, Stage, Waits
<1> HIDE DEF x
<1>8. CASE Owns(host.pending, r, g)
  <2>1. task' = [task EXCEPT ![t] = x] /\ UNCHANGED <<disk, bridge, clock, ghost, host>>
    BY <1>1, <1>8
  <2>2. TasksOK' /\ Others(t) /\ task'[t] = x
    BY <1>2, <1>7, <2>1, OneTask
  <2>3. StoreTypes'
    BY <1>3, <2>1, <2>2 DEF Sound, StoreTypes, MemoryOK, DiskOK, GhostOK
  <2>4. CallsOK' /\ OneStop'
    <3>1. CallOK(x, host')
      BY <1>4, <1>7, <2>1 DEF CallOK, Waits
    <3>2. ASSUME NEW u \in Task \ {t} PROVE CallOK(task'[u], host')
      <4>1. CallOK(task[u], host) /\ Same(task[u], task'[u]) /\ task'[u].pc = task[u].pc
        BY <2>2 DEF Sound, CallsOK, Others
      <4>2. task[u].kind = "stop" => host.active.phase = "stopping"
        BY <4>1 DEF CallOK
      <4> QED
        BY <2>1, <4>1, <4>2, CallKeeps
    <3>3. \A u \in Task : Stops(task'[u]) => Stops(task[u])
      BY <1>7, <2>2 DEF Others, Same, Stops
    <3> QED
      BY <2>2, <3>1, <3>2, <3>3 DEF CallsOK, Sound, OneStop
  <2>5. ASSUME Leases PROVE Leases'
    <3>1. ~IsActive(host, r, g)
      BY <1>2, <1>4, <1>8, Constants DEF Generations, IsActive, Owns, HostShape, Owner
    <3>2. kind = "start" => \A u \in Task \ {t} : ~(Starts(task[u]) /\ task[u].reg = r)
      BY <1>1, <1>8 DEF MayStart, Starting, Starts
    <3>3. OneStart'
      BY <1>7, <2>2, <2>5, <3>2, OneStartStays DEF Leases, Starts
    <3>4. ASSUME NEW u \in Task PROVE StartOK(task'[u], host', bridge')
      <4>1. CASE u = t
        BY <1>7, <2>1, <2>2, <3>1, <4>1 DEF StartOK
      <4>2. CASE u # t
        BY <2>1, <2>2, <2>5, <4>2, StartStays DEF Leases, Others
      <4> QED
        BY <4>1, <4>2
    <3>5. ASSUME NEW b \in Main, Open(bridge'[b])
          PROVE  Owned(host', b) \/ \E u \in Task : Closes(bridge', task'[u], b)
      <4>1. Open(bridge[b]) /\ b \in Bridge /\ bridge'[b].gen = bridge[b].gen
        BY <2>1, <3>5 DEF Main
      <4> QED
        BY <1>2, <2>1, <2>2, <2>5, <4>1, ClosersStay DEF Leases
    <3> QED
      BY <2>1, <2>5, <3>3, <3>4, <3>5 DEF Leases
  <2> QED
    BY <1>2, <2>1, <2>3, <2>4, <2>5 DEF Upheld, Sound
<1>9. CASE ~Owns(host.pending, r, g)
  <2>1. Obtains(t, rec)
    BY <1>1, <1>9
  <2>2. Starts(rec) /\ IsActive(host, r, g) =>
          /\ ~bridge[host.current].started
          /\ \A u \in Task : ~(Starts(task[u]) /\ task[u].reg = r)
    BY <1>1, <1>5 DEF MayStart, Starting, Starts
  <2> QED
    BY <1>2, <1>3, <1>4, <1>5, <2>1, <2>2, ObtainsUpholds
<1> QED
  BY <1>8, <1>9

(* The successor becomes the owner, and goes on, or is over.               *)
LEMMA SucceedsUpholds ==
  ASSUME Sound, NEW t \in Task, Waits(task[t]), ~Closer(task[t]),
         task[t].kind \in {"start", "channel"},
         task[t].reg \in Reg, task[t].gen \in 1..(host.next - 1), task[t].gen > host.active.gen,
         host.active.phase = "stopped", HostOK(host'), host'.next = host.next,
         host'.active.gen = task[t].gen, host'.active.reg = task[t].reg, host'.current \in Main,
         UNCHANGED <<disk, bridge, clock, ghost>>, LeftOK',
         NEW y \in Call(clock), task' = [task EXCEPT ![t] = y],
         \/ y = NoTask
         \/ /\ y.kind = task[t].kind /\ y.reg = task[t].reg /\ y.gen = task[t].gen
            /\ y.pc = "debug" /\ y.b = host'.current
  PROVE  Upheld
<1>1. /\ clock \in Nat /\ TasksOK /\ HostOK(host) /\ host.active.gen \in Nat
      /\ \A u \in Task : task[u].gen \in Nat
  BY DEF Sound, StoreTypes, HostOK, HostShape, Owner, TasksOK, Call
<1>2. TasksOK' /\ Others(t) /\ task'[t] = y
  BY <1>1, OneTask
<1>3. StoreTypes'
  BY <1>2 DEF Sound, StoreTypes, MemoryOK, DiskOK, GhostOK
<1>4. ~Inside(y) /\ ~Stops(y) /\ y.pc \in {"idle", "debug"}
  BY NoTaskType DEF Inside, Stops
<1>5. CallsOK' /\ OneStop'
  <2>1. CallOK(y, host')
    BY <1>4, NoTaskType DEF CallOK, Stops, Waits
  <2>2. ASSUME NEW u \in Task \ {t} PROVE CallOK(task'[u], host')
    <3>1. CallOK(task[u], host) /\ Same(task[u], task'[u]) /\ task'[u].pc = task[u].pc
      BY <1>2 DEF Sound, CallsOK, Others
    <3>2. CallOK(task[u], host')
      BY <1>1, <3>1 DEF CallOK
    <3>3. CallOK(task[u], host') => task[u].kind # "stop"
      BY <3>1 DEF CallOK
    <3> QED
      BY <3>1, <3>2, <3>3, CallKeeps
  <2>3. \A u \in Task : Stops(task'[u]) => Stops(task[u])
    BY <1>2, <1>4 DEF Others, Same, Stops
  <2> QED
    BY <1>2, <2>1, <2>2, <2>3 DEF CallsOK, Sound, OneStop
<1>6. ASSUME Leases PROVE Leases'
  <2>1. \A b \in Main : ~Owned(host, b) /\ ~bridge[b].started
    BY <1>6 DEF Leases, Owned
  <2>2. OneStart'
    BY <1>2, <1>6, NoTaskType, OneStartStays DEF Leases, Starts
  <2>3. ASSUME NEW u \in Task PROVE StartOK(task'[u], host', bridge')
    <3>1. CASE u = t
      BY <1>2, <1>4, <2>1, <3>1, NoTaskType DEF StartOK, Starts
    <3>2. CASE u # t
      <4>1. Same(task[u], task'[u]) /\ task'[u].pc = task[u].pc
        BY <1>2, <3>2 DEF Others
      <4>2. Starts(task[u]) /\ task[u].gen = task[t].gen => Waits(task[u])
        BY <1>1 DEF Sound, CallsOK, CallOK, Starts
      <4>3. StartOK(task[u], host', bridge')
        BY <2>1, <4>2 DEF StartOK, IsActive, Owns, Waits, Inside
      <4> QED
        BY <4>1, <4>3, StartStays
    <3> QED
      BY <3>1, <3>2
  <2>4. ASSUME NEW b \in Main, Open(bridge'[b])
        PROVE  \E u \in Task : Closes(bridge', task'[u], b)
    <3>1. Open(bridge[b]) /\ b \in Bridge /\ bridge'[b].gen = bridge[b].gen
      BY <2>4 DEF Main
    <3> QED
      BY <1>2, <1>6, <2>1, <3>1, ClosersStay DEF Leases
  <2> QED
    BY <2>1, <2>2, <2>3, <2>4 DEF Leases
<1> QED
  BY <1>3, <1>5, <1>6 DEF Upheld, Sound

(* The successor becomes the owner, or fails as soon as it is.             *)
LEMMA ActivatesUpholds ==
  ASSUME Sound, NEW t \in Task, Activates(t)
  PROVE  Upheld
<1> DEFINE c == task[t]
           r == c.reg
           g == c.gen
           run == Running(host, bridge)
           x == [c EXCEPT !.pc = "debug", !.b = host'.current]
<1>1. /\ c.pc = "resolved"
      /\ \/ /\ CanActivate(host, r, g) /\ CanBuild(host, c.mode)
            /\ \/ /\ host' = Activated(host, r, g, c.mode, run)
                  /\ task' = [task EXCEPT ![t] = x]
                  /\ UNCHANGED left
               \/ /\ Spend("fails") /\ host' = ActivationFailed(host, r)
                  /\ task' = [task EXCEPT ![t] = NoTask]
            /\ UNCHANGED <<disk, bridge, clock, ghost>>
         \/ Obtains(t, c) /\ UNCHANGED left
         \/ task' = [task EXCEPT ![t] = NoTask] /\ UNCHANGED OnlyTask
  BY DEF Activates
<1>0. c.pc = "resolved"
  BY <1>1
<1>2. /\ clock \in Nat /\ TasksOK /\ GhostOK /\ LeftOK /\ HostOK(host) /\ HostShape(host)
      /\ Generations(host) /\ ~Closer(c) /\ Waits(c) /\ c \in Call(clock) /\ StoreTypes
  BY <1>0, NotClosing DEF Sound, StoreTypes, HostOK, Waits, TasksOK
<1>3. /\ c.kind \in {"start", "channel"} /\ r \in Reg /\ g \in 1..(host.next - 1)
      /\ host.current \in Main
  BY <1>0, <1>2 DEF Sound, CallsOK, CallOK, Call
<1> HIDE DEF run
<1>4. CASE Obtains(t, c) /\ UNCHANGED left
  <2>1. LeftOK'
    BY <1>2, <1>4 DEF LeftOK
  <2>2. \/ c = task[t] /\ Waits(task[t])
        \/ Starts(c) /\ IsActive(host, r, g) =>
              /\ ~bridge[host.current].started
              /\ \A u \in Task : ~(Starts(task[u]) /\ task[u].reg = r)
    BY <1>2
  <2> QED
    BY <1>2, <1>3, <1>4, <2>1, <2>2, ObtainsUpholds
<1>5. CASE task' = [task EXCEPT ![t] = NoTask] /\ UNCHANGED OnlyTask
  <2>1. UNCHANGED <<disk, bridge, clock, ghost, left, host>>
    BY <1>5 DEF OnlyTask
  <2> QED
    BY <1>2, <1>5, <2>1, Quiescent, Leaves, KeptUpholds
<1>6. CASE /\ CanActivate(host, r, g) /\ CanBuild(host, c.mode)
           /\ \/ /\ host' = Activated(host, r, g, c.mode, run)
                 /\ task' = [task EXCEPT ![t] = x]
                 /\ UNCHANGED left
              \/ /\ Spend("fails") /\ host' = ActivationFailed(host, r)
                 /\ task' = [task EXCEPT ![t] = NoTask]
           /\ UNCHANGED <<disk, bridge, clock, ghost>>
  <2>1. /\ CanActivate(host, r, g) /\ CanBuild(host, c.mode)
        /\ UNCHANGED <<disk, bridge, clock, ghost>>
    BY <1>6
  <2>2. /\ host.active.phase = "stopped" /\ host.pending.gen = g /\ host.pending.reg = r
        /\ g > host.active.gen
    BY <1>2, <1>3, <2>1, Constants DEF CanActivate, Owns, Generations, HostShape, Owner
  <2>3. ASSUME host' = Activated(host, r, g, c.mode, run), task' = [task EXCEPT ![t] = x],
               UNCHANGED left
        PROVE  Upheld
    <3>1. LET k == Activated(host, r, g, c.mode, run) IN
         /\ HostOK(k) /\ k.active = host.pending /\ k.pending = NoOwner
         /\ k.next = host.next /\ k.cb = host.cb /\ k.current \in Main
      BY <1>2, <1>3, <2>1, ActivatedOK
    <3>2. HostOK(host') /\ host'.active = host.pending /\ host'.next = host.next
          /\ host'.current \in Main
      BY <2>3, <3>1
    <3>3. /\ x \in Call(clock) /\ x.kind = c.kind /\ x.reg = r /\ x.gen = g /\ x.pc = "debug"
          /\ x.b = host'.current
      BY <1>2, <3>2 DEF Call, Stage, Main
    <3>4. LeftOK'
      BY <1>2, <2>3 DEF LeftOK
    <3> HIDE DEF x
    <3> QED
      BY <1>2, <1>3, <2>1, <2>2, <2>3, <3>2, <3>3, <3>4, SucceedsUpholds
  <2>4. ASSUME Spend("fails"), host' = ActivationFailed(host, r), task' = [task EXCEPT ![t] = NoTask]
        PROVE  Upheld
    <3>1. LET k == ActivationFailed(host, r) IN
         /\ HostOK(k) /\ k.active.gen = host.pending.gen /\ k.active.reg = host.pending.reg
         /\ k.active.phase = "failed" /\ k.pending = NoOwner
         /\ k.next = host.next /\ k.cb = host.cb /\ k.current = host.current
      BY <1>2, <1>3, <2>1, ActivationFailedOK
    <3>2. /\ HostOK(host') /\ host'.active.gen = g /\ host'.active.reg = r
          /\ host'.next = host.next /\ host'.current \in Main
      BY <1>3, <2>2, <2>4, <3>1
    <3>3. LeftOK'
      BY <1>2, <2>4, SpendKeeps
    <3>4. PICK y \in Call(clock) : y = NoTask
      BY <1>2, NoTaskType
    <3>5. task' = [task EXCEPT ![t] = y]
      BY <2>4, <3>4
    <3> QED
      BY <1>2, <1>3, <2>1, <2>2, <3>2, <3>3, <3>4, <3>5, SucceedsUpholds
  <2> QED
    BY <1>6, <2>3, <2>4
<1> QED
  BY <1>1, <1>4, <1>5, <1>6

(* A start of the running owner begins a generation of the current bridge. *)
LEMMA BeginsStoreUpholds ==
  ASSUME Sound, NEW t \in Task, BeginsStore(t)
  PROVE  Upheld
<1> DEFINE c == task[t]
           b == c.b
           s == bridge[b]
           n == BeginLifecycle(s)
           x == [c EXCEPT !.pc = "prepare", !.sgen = n.gen]
<1>1. /\ c.kind = "start" /\ c.pc = "debug" /\ UNCHANGED <<disk, clock, ghost, left, host>>
      /\ IF CanStart(host, c.reg, c.gen)
         THEN /\ bridge' = [bridge EXCEPT ![b] = BeginLifecycle(@)]
              /\ task' = [task EXCEPT ![t].pc = "prepare", ![t].sgen = bridge'[b].gen]
         ELSE task' = [task EXCEPT ![t] = NoTask] /\ bridge' = bridge
  BY DEF BeginsStore
<1>2. /\ clock \in Nat /\ TasksOK /\ MemoryOK /\ ~Closer(c) /\ c \in Call(clock)
      /\ CallOK(c, host) /\ HostOK(host)
  BY <1>1, NotClosing DEF Sound, StoreTypes, TasksOK, CallsOK
<1>3. b \in Main /\ b \in Bridge /\ c.reg \in Reg /\ c.gen \in Nat
  BY <1>1, <1>2 DEF CallOK, Waits, Main
<1>4. s \in Memory(clock) /\ HandleOK(s)
  BY <1>2, <1>3 DEF MemoryOK
<1>5. /\ n \in Memory(clock) /\ HandleOK(n) /\ n.started = s.started /\ n.gen = s.gen + 1
  <2>1. s.gen \in Nat /\ s.db \in 0..s.gen /\ s \in Memory(clock)
    BY <1>4 DEF Memory, HandleOK
  <2>2. PICK m \in Nat : m = s.gen + 1
    BY <2>1
  <2>3. PICK no \in BOOLEAN : no <=> FALSE
    OBVIOUS
  <2>4. n = [s EXCEPT !.gen = m, !.closed = no]
    BY <2>2, <2>3 DEF BeginLifecycle
  <2> HIDE DEF n, s
  <2>5. /\ n \in Memory(clock) /\ n.started = s.started /\ n.gen = m /\ n.db = s.db
        /\ n.closed = no
    BY <2>1, <2>4 DEF Memory
  <2> QED
    BY <2>1, <2>2, <2>3, <2>5 DEF HandleOK
<1>6. CASE ~CanStart(host, c.reg, c.gen)
  <2>1. task' = [task EXCEPT ![t] = NoTask] /\ bridge' = bridge
    BY <1>1, <1>6
  <2> QED
    BY <1>1, <1>2, <2>1, Quiescent, Leaves, KeptUpholds
<1>7. CASE CanStart(host, c.reg, c.gen)
  <2>1. bridge' = [bridge EXCEPT ![b] = n]
    BY <1>1, <1>7
  <2> HIDE DEF n
  <2>2. /\ MemoryOK' /\ bridge'[b] = n /\ \A d \in Bridge \ {b} : bridge'[d] = bridge[d]
    BY <1>1, <1>2, <1>3, <1>5, <2>1, OneBridge
  <2>3. task' = [task EXCEPT ![t] = x]
    BY <1>1, <1>2, <1>7, <2>2 DEF TasksOK
  <2>4. /\ x \in Call(clock) /\ x.kind = "start" /\ x.b = b /\ x.reg = c.reg /\ x.gen = c.gen
        /\ x.pc = "prepare" /\ x.sgen = n.gen
    BY <1>1, <1>2, <1>5 DEF Call, Stage, Memory
  <2> HIDE DEF x
  <2>5. TasksOK' /\ Others(t) /\ task'[t] = x
    BY <1>1, <1>2, <2>3, <2>4, OneTask
  <2>6. StoreTypes'
    BY <1>1, <2>2, <2>5 DEF Sound, StoreTypes, DiskOK, GhostOK, LeftOK
  <2>7. Inside(x) /\ ~Waits(x) /\ ~Stops(x) /\ Starts(x) /\ Starts(c) /\ ~Waits(c)
    BY <1>1, <2>4 DEF Inside, Waits, Stops, Starts
  <2>8. CallsOK' /\ OneStop'
    <3>1. CallOK(x, host')
      BY <1>1, <1>2, <1>3, <2>4, <2>7 DEF CallOK, Starts
    <3>2. ASSUME NEW u \in Task \ {t} PROVE CallOK(task'[u], host')
      <4>1. CallOK(task[u], host) /\ Same(task[u], task'[u]) /\ task'[u].pc = task[u].pc
        BY <2>5 DEF Sound, CallsOK, Others
      <4>2. task[u].kind = "stop" => host.active.phase = "stopping"
        BY <4>1 DEF CallOK
      <4> QED
        BY <1>1, <4>1, <4>2, CallKeeps
    <3>3. \A u \in Task : Stops(task'[u]) => Stops(task[u])
      BY <2>5, <2>7 DEF Others, Same, Stops
    <3> QED
      BY <2>5, <3>1, <3>2, <3>3 DEF CallsOK, Sound, OneStop
  <2>9. IsActive(host, c.reg, c.gen)
    BY <1>7 DEF CanStart
  <2>10. ASSUME Leases PROVE Leases'
    <3>1. b = host.current /\ ~s.started
      BY <2>7, <2>9, <2>10 DEF Leases, StartOK
    <3>2. OneStart'
      BY <2>4, <2>5, <2>7, <2>10, OneStartStays DEF Leases
    <3>3. ASSUME NEW u \in Task PROVE StartOK(task'[u], host', bridge')
      <4>1. CASE u = t
        BY <1>1, <1>5, <2>2, <2>4, <2>5, <3>1, <4>1 DEF StartOK
      <4>2. CASE u # t
        <5>1. Same(task[u], task'[u]) /\ task'[u].pc = task[u].pc
          BY <2>5, <4>2 DEF Others
        <5>2. ~(Starts(task[u]) /\ task[u].reg = c.reg /\ task[u].gen = c.gen)
          BY <2>7, <2>10, <4>2 DEF Leases, OneStart
        <5>3. StartOK(task[u], host', bridge')
          BY <1>1, <2>9, <5>2 DEF StartOK, IsActive, Owns
        <5> QED
          BY <5>1, <5>3, StartStays
      <4> QED
        BY <4>1, <4>2
    <3>4. Owned(host', b)
      BY <1>1, <2>9, <3>1 DEF Owned, IsActive
    <3>5. ASSUME NEW d \in Main, bridge'[d].started PROVE Owned(host', d)
      <4>1. CASE d = b
        BY <3>4, <4>1
      <4>2. CASE d # b
        <5>1. bridge'[d] = bridge[d]
          BY <2>2, <4>2 DEF Main
        <5> QED
          BY <1>1, <2>10, <3>5, <5>1 DEF Leases
      <4> QED
        BY <4>1, <4>2
    <3>6. ASSUME NEW d \in Main, Open(bridge'[d])
          PROVE  Owned(host', d) \/ \E u \in Task : Closes(bridge', task'[u], d)
      <4>1. CASE d = b
        BY <3>4, <4>1
      <4>2. CASE d # b
        <5>1. bridge'[d] = bridge[d] /\ d \in Bridge
          BY <2>2, <4>2 DEF Main
        <5>2. Owned(host, d) \/ \E u \in Task : Closes(bridge, task[u], d)
          BY <2>10, <3>6, <5>1 DEF Leases
        <5> QED
          BY <1>1, <1>2, <2>5, <5>1, <5>2, ClosersStay
      <4> QED
        BY <4>1, <4>2
    <3> QED
      BY <3>2, <3>3, <3>5, <3>6 DEF Leases
  <2> QED
    BY <1>1, <1>2, <2>6, <2>8, <2>10 DEF Upheld, Sound
<1> QED
  BY <1>6, <1>7

(* The service runs, or the start that found out too late gives up.        *)
LEMMA StartedUpholds ==
  ASSUME Sound, NEW t \in Task, Started(t)
  PROVE  Upheld
<1> DEFINE c == task[t]
           b == c.b
           s == bridge[b]
           n == [s EXCEPT !.started = TRUE]
           br == [bridge EXCEPT ![b].started = TRUE]
           run == Running(host, br)
<1>1. /\ c.pc = "tail" /\ UNCHANGED <<disk, clock, ghost, left>>
      /\ \/ /\ Current(c) /\ bridge' = br
            /\ host' = Probe(host, c.reg, c.gen, run, FALSE)
            /\ task' = [task EXCEPT ![t] = NoTask]
         \/ GivesUp(t)
  BY DEF Started
<1>2. /\ Starts(c) /\ Inside(c) /\ b \in Bridge /\ c \in Call(clock) /\ s \in Memory(clock)
      /\ HandleOK(s) /\ clock \in Nat /\ MemoryOK /\ TasksOK /\ DiskOK(disk, clock)
      /\ GhostOK /\ LeftOK
  BY <1>1, StartFacts DEF Further
<1>3. b \in Main /\ c.reg \in Reg /\ ~Waits(c) /\ HostOK(host)
  BY <1>2, InsideCall DEF Inside, Waits, Starts, Sound
<1>4. CASE GivesUp(t)
  BY <1>1, <1>2, <1>4, Quiescent, GivesUpKeeps, FineUpholds
<1>5. CASE /\ Current(c) /\ bridge' = br
           /\ host' = Probe(host, c.reg, c.gen, run, FALSE)
           /\ task' = [task EXCEPT ![t] = NoTask]
  <2>1. bridge' = [bridge EXCEPT ![b] = n]
    BY <1>2, <1>5 DEF MemoryOK
  <2>2. n \in Memory(clock) /\ HandleOK(n) /\ n.gen = s.gen
    BY <1>2 DEF Memory, HandleOK
  <2> HIDE DEF n, br, run
  <2>3. MemoryOK' /\ bridge'[b] = n /\ \A d \in Bridge \ {b} : bridge'[d] = bridge[d]
    BY <1>1, <1>2, <2>1, <2>2, OneBridge
  <2>4. PICK no : no = FALSE
    OBVIOUS
  <2>5. host' = Probe(host, c.reg, c.gen, run, no)
    BY <1>5, <2>4
  <2>6. HostOK(host') /\ SameOwners(host, host')
    BY <1>3, <2>5, ProbeOK
  <2>7. TasksOK' /\ Others(t) /\ task'[t] = NoTask
    BY <1>1, <1>2, <1>5, NoTaskType, OneTask
  <2>8. StoreTypes'
    BY <1>1, <1>2, <2>3, <2>7 DEF StoreTypes, GhostOK, LeftOK
  <2>9. CallsOK' /\ OneStop'
    <3>1. CallOK(task'[t], host') /\ ~Stops(task'[t])
      BY <2>7, NoTaskType DEF CallOK, Stops
    <3>2. ASSUME NEW u \in Task \ {t} PROVE CallOK(task'[u], host')
      <4>1. CallOK(task[u], host) /\ Same(task[u], task'[u]) /\ task'[u].pc = task[u].pc
        BY <2>7 DEF Sound, CallsOK, Others
      <4>2. task[u].kind = "stop" => host'.active.phase = "stopping"
        BY <2>6, <4>1 DEF CallOK, SameOwners
      <4> QED
        BY <2>6, <4>1, <4>2, CallKeeps DEF SameOwners
    <3>3. \A u \in Task : Stops(task'[u]) => Stops(task[u])
      BY <2>7, <3>1 DEF Others, Same, Stops
    <3> QED
      BY <3>1, <3>2, <3>3 DEF CallsOK, Sound, OneStop
  <2>10. IsActive(host, c.reg, c.gen)
    BY <1>5 DEF Current
  <2>11. ASSUME Leases PROVE Leases'
    <3>1. b = host.current
      BY <1>2, <1>3, <2>10, <2>11 DEF Leases, StartOK
    <3>2. OneStart'
      BY <2>7, <2>11, NoTaskType, OneStartStays DEF Leases, Starts
    <3>3. ASSUME NEW u \in Task PROVE StartOK(task'[u], host', bridge')
      <4>1. CASE u = t
        BY <2>7, <4>1, NoTaskType DEF StartOK, Starts
      <4>2. CASE u # t
        <5>1. Same(task[u], task'[u]) /\ task'[u].pc = task[u].pc
          BY <2>7, <4>2 DEF Others
        <5>2. ~(Starts(task[u]) /\ task[u].reg = c.reg /\ task[u].gen = c.gen)
          BY <1>2, <2>11, <4>2 DEF Leases, OneStart
        <5>3. StartOK(task[u], host', bridge')
          BY <2>6, <2>10, <5>2 DEF StartOK, IsActive, Owns, SameOwners
        <5> QED
          BY <5>1, <5>3, StartStays
      <4> QED
        BY <4>1, <4>2
    <3>4. Owned(host', b) /\ \A d : Owned(host, d) => Owned(host', d)
      BY <2>6, <2>10, <3>1 DEF Owned, IsActive, SameOwners
    <3>5. ASSUME NEW d \in Main, d # b
          PROVE  /\ bridge'[d].started => Owned(host', d)
                 /\ Open(bridge'[d]) => Owned(host', d) \/ \E u \in Task : Closes(bridge', task'[u], d)
      <4>1. bridge'[d] = bridge[d]
        BY <2>3, <3>5 DEF Main
      <4>2. ASSUME NEW u \in Task, Closes(bridge, task[u], d) PROVE Closes(bridge', task'[u], d)
        <5>1. u # t
          BY <3>5, <4>2 DEF Closes
        <5>2. Same(task[u], task'[u]) /\ task'[u].pc = task[u].pc
          BY <2>7, <5>1 DEF Others
        <5> QED
          BY <4>1, <4>2, <5>2 DEF Closes, Same, Stops, Starts, Inside
      <4> QED
        BY <2>11, <3>4, <4>1, <4>2 DEF Leases
    <3> QED
      BY <3>2, <3>3, <3>4, <3>5 DEF Leases
  <2> QED
    BY <1>1, <2>6, <2>8, <2>9, <2>11 DEF Upheld, Sound
<1> QED
  BY <1>1, <1>4, <1>5

(* The owner retires: the stop that was called answers for its bridge.     *)
LEMMA CallsStopUpholds ==
  ASSUME Sound, NEW t \in Task, NEW r \in Reg, CallsStop(t, r)
  PROVE  Upheld
<1> DEFINE g == host.cb[r]
           b == host.current
           s == [bridge[b] EXCEPT !.stopped = TRUE, !.started = FALSE, !.chan = FALSE, !.timer = FALSE]
           rec == [NoTask EXCEPT !.kind = "stop", !.reg = r, !.gen = g, !.b = b]
<1>1. /\ task[t].pc = "idle" /\ IsActive(host, r, g) /\ Spend("stops") /\ clock' = clock
      /\ host' = Retiring(host, r) /\ bridge' = [bridge EXCEPT ![b] = s]
      /\ CallsFlush(t, rec, s, "close")
  BY DEF CallsStop, Free
<1>2. /\ StoreTypes /\ clock \in Nat /\ TasksOK /\ MemoryOK /\ LeftOK /\ HostOK(host)
      /\ HostShape(host) /\ ~Closer(task[t])
  BY <1>1, NotClosing DEF Sound, StoreTypes, HostOK
<1>3. b \in Main /\ b \in Bridge /\ g \in Nat
  BY <1>1, <1>2 DEF HostOK, Based, Living, IsActive, Main, HostShape
<1>4. bridge[b] \in Memory(clock) /\ HandleOK(bridge[b])
  BY <1>2, <1>3 DEF MemoryOK
<1>5. s \in Memory(clock) /\ HandleOK(s) /\ s.gen = bridge[b].gen /\ ~s.started
  BY <1>4 DEF Memory, HandleOK
<1>6. /\ rec \in Call(clock) /\ rec.kind = "stop" /\ rec.b = b /\ rec.reg = r /\ rec.pc = "idle"
  BY <1>2, <1>3, NoTaskType DEF Call
<1>7. PICK close \in Stage \ {"fwrite"} : close = "close"
  BY DEF Stage
<1>8. CallsFlush(t, rec, s, close)
  BY <1>1, <1>7
<1> HIDE DEF s, rec
<1>9. MemoryOK' /\ bridge'[b] = s /\ \A d \in Bridge \ {b} : bridge'[d] = bridge[d]
  BY <1>1, <1>2, <1>3, <1>5, OneBridge
<1>10. /\ DiskOK(disk', clock) /\ GhostOK' /\ ghost'.stray = ghost.stray
       /\ task' \in [Task -> Call(clock)] /\ Others(t)
       /\ Flushed(rec, task'[t], close) \/ (Same(rec, task'[t]) /\ task'[t].pc = "fopen")
  BY <1>2, <1>3, <1>5, <1>6, <1>8, CallsFlushStep
<1>11. StoreTypes'
  BY <1>1, <1>2, <1>9, <1>10, SpendKeeps DEF StoreTypes, TasksOK
<1>12. /\ HostOK(host') /\ host'.active.phase = "stopping" /\ host'.active.gen = host.active.gen
       /\ host'.next = host.next /\ host'.current = host.current
  <2>1. /\ HostOK(host') /\ host'.active = [host.active EXCEPT !.phase = "stopping"]
        /\ host'.next = host.next /\ host'.current = host.current
    BY <1>1, <1>2, RetiringOK
  <2> QED
    BY <1>2, <2>1 DEF HostShape, Owner
<1>13. /\ task'[t].kind = "stop" /\ task'[t].b = b /\ task'[t].reg = r
       /\ task'[t].pc \in {"fopen", "fwrite", "close"}
  BY <1>6, <1>7, <1>10 DEF Flushed, Same
<1>14. \A u \in Task : ~Stops(task[u])
  BY <1>1 DEF Sound, CallsOK, CallOK, Stops, IsActive
<1>15. CallsOK' /\ OneStop'
  <2>1. CallOK(task'[t], host')
    BY <1>3, <1>12, <1>13 DEF CallOK
  <2>2. ASSUME NEW u \in Task \ {t} PROVE CallOK(task'[u], host') /\ ~Stops(task'[u])
    <3>1. CallOK(task[u], host) /\ Same(task[u], task'[u]) /\ task'[u].pc = task[u].pc
      BY <1>10 DEF Sound, CallsOK, Others
    <3> QED
      BY <1>12, <1>14, <3>1, CallKeeps DEF Stops, Same
  <2> QED
    BY <2>1, <2>2 DEF CallsOK, OneStop
<1>16. ASSUME Leases PROVE Leases'
  <2>1. OneStart'
    BY <1>10, <1>13, <1>16, OneStartStays DEF Leases, Starts
  <2>2. \A u \in Task : StartOK(task'[u], host', bridge')
    BY <1>12 DEF StartOK, IsActive
  <2>3. \A d \in Main : ~bridge'[d].started
    BY <1>5, <1>9, <1>16 DEF Leases, Owned, Main
  <2>4. ASSUME NEW d \in Main, Open(bridge'[d]) PROVE \E u \in Task : Closes(bridge', task'[u], d)
    <3>1. CASE d = b
      BY <1>13, <3>1 DEF Closes, Stops
    <3>2. CASE d # b
      <4>1. bridge'[d] = bridge[d] /\ d \in Bridge
        BY <1>9, <3>2 DEF Main
      <4>2. \E u \in Task : Closes(bridge, task[u], d)
        BY <1>16, <2>4, <3>2, <4>1 DEF Leases, Owned
      <4> QED
        BY <1>2, <1>10, <4>1, <4>2, ClosersStay
    <3> QED
      BY <3>1, <3>2
  <2> QED
    BY <2>1, <2>2, <2>3, <2>4 DEF Leases
<1> QED
  BY <1>10, <1>11, <1>12, <1>15, <1>16 DEF Upheld, Sound

(* The stop is over: the store is closed and the successors are told.      *)
LEMMA StoppedUpholds ==
  ASSUME Sound, NEW t \in Task, Stopped(t)
  PROVE  Upheld
<1> DEFINE c == task[t]
           b == c.b
           s == bridge[b]
           n == CloseAny(s)
           word == IF c.pc = "close" THEN "resolved" ELSE "rejected"
<1>1. /\ c.pc \in {"close", "closefail"} /\ UNCHANGED <<disk, clock, ghost, left>>
      /\ bridge' = [bridge EXCEPT ![b] = n] /\ host' = Settled(host, c.reg, c.pc = "close")
      /\ task' = [u \in Task |->
           CASE u = t -> NoTask
             [] u # t /\ task[u].pc = "await" -> [task[u] EXCEPT !.pc = word]
             [] OTHER -> task[u]]
  BY DEF Stopped
<1>2. /\ clock \in Nat /\ TasksOK /\ MemoryOK /\ HostOK(host) /\ c \in Call(clock)
      /\ CallOK(c, host) /\ DiskOK(disk, clock) /\ GhostOK /\ LeftOK
  BY DEF Sound, StoreTypes, TasksOK, CallsOK
<1>3. Stops(c) /\ ~Waits(c) /\ ~Inside(c)
  <2>1. c.kind \in {"idle", "start", "channel", "stop", "save"}
    BY <1>2 DEF Call
  <2> QED
    BY <1>1, <1>2, <2>1 DEF CallOK, Stops, Waits, Inside
<1>4. b \in Main /\ b \in Bridge /\ c.reg \in Reg /\ host.active.phase = "stopping"
  BY <1>2, <1>3 DEF CallOK, Stops, Main
<1>5. s \in Memory(clock) /\ HandleOK(s)
  BY <1>2, <1>4 DEF MemoryOK
<1>6. n \in Memory(clock) /\ HandleOK(n) /\ n.closed /\ n.started = s.started
  <2>1. s.gen \in Nat
    BY <1>5 DEF Memory
  <2>2. PICK m \in Nat : m = s.gen + 1
    BY <2>1
  <2>3. PICK yes \in BOOLEAN : yes <=> TRUE
    OBVIOUS
  <2>4. n = [s EXCEPT !.gen = m, !.closed = yes, !.db = 0]
    BY <2>2, <2>3 DEF CloseAny
  <2> HIDE DEF n, s
  <2>5. n \in Memory(clock) /\ n.started = s.started /\ n.gen = m /\ n.db = 0 /\ n.closed = yes
    BY <1>5, <2>4 DEF Memory
  <2> QED
    BY <2>2, <2>3, <2>5 DEF HandleOK
<1> HIDE DEF n
<1>7. MemoryOK' /\ bridge'[b] = n /\ \A d \in Bridge \ {b} : bridge'[d] = bridge[d]
  BY <1>1, <1>2, <1>4, <1>6, OneBridge
<1>8. /\ HostOK(host') /\ host'.active.gen = host.active.gen /\ host'.next = host.next
      /\ host'.active.phase \in {"stopped", "failed"} /\ host'.current = host.current
  <2>1. PICK ok \in BOOLEAN : ok = (c.pc = "close")
    OBVIOUS
  <2>2. host' = Settled(host, c.reg, ok)
    BY <1>1, <2>1
  <2> QED
    BY <1>2, <1>4, <2>2, SettledOK
<1>9. task'[t] = NoTask
  BY <1>1
<1>10. word \in {"resolved", "rejected"}
  OBVIOUS
<1> HIDE DEF word
<1>11. ASSUME NEW u \in Task, u # t
       PROVE  /\ task'[u] \in Call(clock) /\ Same(task[u], task'[u])
              /\ \/ task'[u].pc = task[u].pc
                 \/ task[u].pc = "await" /\ task'[u].pc \in {"resolved", "rejected"}
  <2>1. task[u] \in Call(clock)
    BY <1>2 DEF TasksOK
  <2>2. CASE task[u].pc # "await"
    <3>1. task'[u] = task[u]
      BY <1>1, <1>11, <2>2
    <3> QED
      BY <2>1, <3>1 DEF Same
  <2>3. CASE task[u].pc = "await"
    <3>1. task'[u] = [task[u] EXCEPT !.pc = word]
      BY <1>1, <1>11, <2>3
    <3> QED
      BY <1>10, <2>1, <2>3, <3>1 DEF Call, Stage, Same
  <2> QED
    BY <2>2, <2>3
<1>12. TasksOK'
  <2>1. task' = [u \in Task |-> task'[u]]
    BY <1>1
  <2>2. \A u \in Task : task'[u] \in Call(clock)
    BY <1>2, <1>9, <1>11, NoTaskType
  <2> QED
    BY <1>1, <2>1, <2>2 DEF TasksOK
<1>13. StoreTypes'
  BY <1>1, <1>2, <1>7, <1>12 DEF StoreTypes, GhostOK, LeftOK
<1>14. ASSUME NEW u \in Task, u # t PROVE CallOK(task'[u], host') /\ ~Stops(task'[u])
  <2>1. /\ CallOK(task[u], host) /\ ~Stops(task[u]) /\ Same(task[u], task'[u])
        /\ host'.active.gen = host.active.gen /\ host'.next = host.next
        /\ host'.current = host.current
    BY <1>3, <1>8, <1>11, <1>14 DEF Sound, CallsOK, OneStop
  <2>2. CASE task'[u].pc = task[u].pc
    <3>1. CallOK(task'[u], host')
      BY <2>1, <2>2, CallKeeps DEF Stops
    <3> QED
      BY <2>1, <3>1 DEF Stops, Same
  <2>3. CASE task[u].pc = "await" /\ task'[u].pc \in {"resolved", "rejected"}
    <3>1. task[u].kind \in {"idle", "start", "channel", "stop", "save"}
      BY <1>2 DEF TasksOK, Call
    <3> QED
      BY <2>1, <2>3, <3>1 DEF CallOK, Same, Waits, Inside, Stops
  <2> QED
    BY <1>11, <1>14, <2>2, <2>3
<1>15. CallsOK' /\ OneStop'
  <2>1. CallOK(task'[t], host') /\ ~Stops(task'[t])
    BY <1>9, NoTaskType DEF CallOK, Stops
  <2> QED
    BY <1>14, <2>1 DEF CallsOK, OneStop
<1>16. ASSUME Leases PROVE Leases'
  <2>1. OneStart'
    <3>1. ~Starts(task'[t])
      BY <1>9, NoTaskType DEF Starts
    <3>2. \A u \in Task : u # t => Same(task[u], task'[u])
      BY <1>11
    <3> QED
      BY <1>16, <3>1, <3>2 DEF Leases, OneStart, Same, Starts
  <2>2. \A u \in Task : StartOK(task'[u], host', bridge')
    BY <1>8 DEF StartOK, IsActive
  <2>3. \A d \in Main : ~bridge'[d].started
    BY <1>4, <1>6, <1>7, <1>16 DEF Leases, Owned, Main
  <2>4. ASSUME NEW d \in Main, Open(bridge'[d]) PROVE \E u \in Task : Closes(bridge', task'[u], d)
    <3>1. d # b
      BY <1>6, <1>7, <2>4 DEF Open
    <3>2. bridge'[d] = bridge[d]
      BY <1>7, <3>1 DEF Main
    <3>3. PICK u \in Task : Closes(bridge, task[u], d)
      BY <1>4, <1>16, <2>4, <3>2 DEF Leases, Owned
    <3>4. u # t
      BY <3>1, <3>3 DEF Closes
    <3>5. Starts(task[u]) /\ Inside(task[u]) => task'[u].pc = task[u].pc
      BY <1>11, <3>4 DEF Inside
    <3>6. Same(task[u], task'[u])
      BY <1>11, <3>4
    <3>7. Closes(bridge', task'[u], d)
      BY <3>2, <3>3, <3>5, <3>6 DEF Closes, Same, Stops, Starts, Inside
    <3> QED
      BY <3>7
  <2> QED
    BY <2>1, <2>2, <2>3, <2>4 DEF Leases
<1> QED
  BY <1>1, <1>8, <1>13, <1>15, <1>16 DEF Upheld, Sound

LEMMA FreshBridgeType ==
  /\ \A n \in Nat : FreshBridge \in Memory(n)
  /\ HandleOK(FreshBridge) /\ FreshBridge.gen = 0 /\ FreshBridge.started = FALSE
  /\ FreshBridge.closed = FALSE
BY EmptyTypes DEF FreshBridge, Memory, HandleOK

(* The process dies: nobody has anything to answer for.                    *)
LEMMA CrashUpholds == ASSUME Sound, Crash PROVE Upheld
<1>1. /\ Spend("crashes") /\ ghost' = NoteCrash(ghost, Main) /\ host' = FreshHost
      /\ bridge' = [b \in Bridge |-> IF b \in Main THEN FreshBridge ELSE bridge[b]]
      /\ task' = [t \in Task |->
                    IF task[t].kind = "save" /\ task[t].b = Foreign THEN task[t] ELSE NoTask]
      /\ UNCHANGED <<disk, clock>>
  BY DEF Crash
<1>2. /\ clock \in Nat /\ TasksOK /\ MemoryOK /\ DiskOK(disk, clock) /\ GhostOK /\ LeftOK
  BY DEF Sound, StoreTypes
<1>3. GhostOK' /\ ghost'.stray = ghost.stray
  BY <1>1, <1>2 DEF NoteCrash, GhostOK
<1>4. LeftOK'
  BY <1>1, <1>2, SpendKeeps
<1>5. \A b \in Bridge : bridge'[b] \in Memory(clock) /\ HandleOK(bridge'[b])
  BY <1>1, <1>2, FreshBridgeType DEF MemoryOK
<1>6. MemoryOK'
  BY <1>1, <1>5 DEF MemoryOK
<1>7. \A t \in Task : task'[t] \in Call(clock)
  BY <1>1, <1>2, NoTaskType DEF TasksOK
<1>8. TasksOK'
  BY <1>1, <1>7 DEF TasksOK
<1>9. StoreTypes'
  BY <1>1, <1>2, <1>3, <1>4, <1>6, <1>8 DEF StoreTypes
<1>10. HostOK(host')
  BY <1>1, FreshHostOK
<1>11. ASSUME NEW t \in Task PROVE CallOK(task'[t], host') /\ task'[t].kind \in {"idle", "save"}
  <2>1. CASE task'[t] = NoTask
    BY <2>1, NoTaskType DEF CallOK
  <2>2. CASE task'[t] # NoTask
    <3>1. task'[t] = task[t] /\ task[t].kind = "save" /\ CallOK(task[t], host)
      BY <1>1, <2>2 DEF Sound, CallsOK
    <3> QED
      BY <3>1 DEF CallOK
  <2> QED
    BY <2>1, <2>2
<1>12. CallsOK' /\ OneStop'
  BY <1>11 DEF CallsOK, OneStop, Stops
<1>13. Leases'
  <2>1. \A b \in Main : ~bridge'[b].started /\ ~Open(bridge'[b])
    BY <1>1, FreshBridgeType DEF Open, Main
  <2>2. \A t \in Task : ~Starts(task'[t])
    BY <1>11 DEF Starts
  <2>3. OneStart' /\ \A t \in Task : StartOK(task'[t], host', bridge')
    BY <2>2 DEF OneStart, StartOK
  <2> QED
    BY <2>1, <2>3 DEF Leases
<1> QED
  BY <1>3, <1>9, <1>10, <1>12, <1>13 DEF Upheld, Sound

-----------------------------------------------------------------------------
(* The invariant.                                                          *)

LEMMA Disk0Type == ASSUME NEW kind, NEW old PROVE DiskOK(Disk0(kind, old), 0)
<1> DEFINE q == [m \in Msg |-> IF m \in old THEN "queued" ELSE "no"]
           mode == IF kind = "dual" THEN "dual" ELSE "none"
           rows == IF kind = "dual" THEN q ELSE Empty
           at == kind # "fresh"
           legacy == IF kind = "json" THEN q ELSE Empty
<1>1. Disk0(kind, old) =
        [mode |-> mode, rows |-> rows, json |-> q, jsonAt |-> at, legacy |-> legacy,
         scenes |-> NoScenes, jscenes |-> NoScenes, snaps |-> <<>>, ok |-> TRUE]
  BY DEF Disk0
<1>2. q \in Queue
  BY DEF Queue
<1>3. /\ mode \in Mode /\ at \in BOOLEAN /\ rows \in Queue /\ legacy \in Queue
      /\ NoScenes \in Times(0)
  BY <1>2, EmptyTypes DEF Mode
<1> HIDE DEF q, mode, rows, at, legacy
<1>4. <<>> \in Seq(Copy(0)) /\ Len(<<>>) = 0 /\ 0 <= SnapKeep
  BY StateStoreAssumption
<1> QED
  BY <1>1, <1>2, <1>3, <1>4 DEF DiskOK, Directory

LEMMA Initially == Init => IInv
<1> SUFFICES ASSUME Init PROVE IInv
  OBVIOUS
<1> DEFINE works == [FreshBridge EXCEPT !.gen = 1, !.db = 1, !.path = TRUE, !.started = TRUE,
                                        !.loaded = TRUE]
<1>1. /\ left \in Bounds /\ disk = Disk0(left.found, left.old) /\ clock = 0
      /\ bridge = [b \in Bridge |-> IF b = Foreign /\ left.foreign THEN works ELSE FreshBridge]
      /\ task = [t \in Task |-> NoTask] /\ host = FreshHost
  BY DEF Init
<1>2. GhostOK /\ LeftOK
  BY <1>1, BoundsAssumption DEF Init, GhostOK, LeftOK
<1>3. works \in Memory(0) /\ HandleOK(works)
  <2>1. PICK yes \in BOOLEAN : yes <=> TRUE
    OBVIOUS
  <2>2. works = [FreshBridge EXCEPT !.gen = 1, !.db = 1, !.path = yes, !.started = yes, !.loaded = yes]
    BY <2>1
  <2>3. FreshBridge \in Memory(0) /\ FreshBridge.closed = FALSE
    BY FreshBridgeType
  <2> HIDE DEF works
  <2>4. works \in Memory(0) /\ works.gen = 1 /\ works.db = 1 /\ works.closed = FALSE
    BY <2>2, <2>3 DEF Memory
  <2> QED
    BY <2>4 DEF HandleOK
<1> HIDE DEF works
<1>4. MemoryOK
  BY <1>1, <1>3, FreshBridgeType DEF MemoryOK
<1>5. TasksOK /\ \A t \in Task : task[t] = NoTask
  BY <1>1, NoTaskType DEF TasksOK
<1>6. StoreTypes
  BY <1>1, <1>2, <1>4, <1>5, Disk0Type DEF StoreTypes
<1>7. HostOK(host)
  BY <1>1, FreshHostOK
<1>8. CallsOK /\ OneStop
  BY <1>5, NoTaskType DEF CallsOK, CallOK, OneStop, Stops
<1>9. Leases
  <2>1. \A b \in Main : ~bridge[b].started /\ ~Open(bridge[b])
    BY <1>1, FreshBridgeType DEF Open, Main
  <2>2. OneStart /\ \A t \in Task : StartOK(task[t], host, bridge)
    BY <1>5, NoTaskType DEF OneStart, StartOK, Starts
  <2> QED
    BY <2>1, <2>2 DEF Leases
<1> QED
  BY <1>6, <1>7, <1>8, <1>9 DEF IInv, Sound

LEMMA StartStepUpholds ==
  ASSUME Sound, NEW t \in Task, StartStep(t)
  PROVE  Upheld
<1>1. CASE Activates(t)
  BY <1>1, ActivatesUpholds
<1>2. CASE Rejected(t)
  BY <1>2, RejectedKeeps, KeptUpholds
<1>3. CASE ChannelStarts(t)
  BY <1>3, ChannelStartsKeeps, KeptUpholds
<1>4. CASE BeginsStore(t)
  BY <1>4, BeginsStoreUpholds
<1>5. CASE Prepares(t)
  BY <1>5, PreparesFine, FineUpholds
<1>6. CASE Opening(t)
  BY <1>6, OpeningFine, FineUpholds
<1>7. CASE Loads(t)
  BY <1>7, LoadsFine, FineUpholds
<1>8. CASE CutoverFlushes(t)
  BY <1>8, CutoverFlushesFine, FineUpholds
<1>9. CASE CutoverCounts(t)
  BY <1>9, CutoverCountsFine, FineUpholds
<1>10. CASE CutoverMoves(t)
  BY <1>10, CutoverMovesFine, FineUpholds
<1>11. CASE CutoverEnds(t)
  BY <1>11, CutoverEndsFine, FineUpholds
<1>12. CASE Refreshes(t)
  BY <1>12, RefreshesFine, FineUpholds
<1>13. CASE Started(t)
  BY <1>13, StartedUpholds
<1> QED
  BY <1>1, <1>2, <1>3, <1>4, <1>5, <1>6, <1>7, <1>8, <1>9, <1>10, <1>11, <1>12, <1>13 DEF StartStep

LEMMA HostStepUpholds == ASSUME Sound, HostStep PROVE Upheld
<1>1. CASE \E r \in Reg, c \in Code : Register(r, c)
  BY <1>1, RegisterUpholds
<1>2. CASE \E r \in Reg : ObservationFires(r) \/ ChannelStops(r)
  BY <1>2, ObservationKeeps, ChannelStopsKeeps, KeptUpholds
<1>3. CASE \E t \in Task, r \in Reg :
             CallsStart(t, "start", r) \/ CallsStart(t, "channel", r) \/ CallsStop(t, r)
  <2>1. PICK t \in Task, r \in Reg :
               CallsStart(t, "start", r) \/ CallsStart(t, "channel", r) \/ CallsStop(t, r)
    BY <1>3
  <2>2. CASE CallsStop(t, r)
    BY <2>2, CallsStopUpholds
  <2>3. CASE CallsStart(t, "start", r) \/ CallsStart(t, "channel", r)
    <3>1. PICK kind \in {"start", "channel"} : CallsStart(t, kind, r)
      BY <2>3
    <3> QED
      BY <3>1, CallsStartUpholds
  <2> QED
    BY <2>1, <2>2, <2>3
<1> QED
  BY <1>1, <1>2, <1>3 DEF HostStep

LEMMA NextUpholds == ASSUME Sound, Next PROVE Upheld
<1>1. CASE HostStep
  BY <1>1, HostStepUpholds
<1>2. CASE \E t \in Task : TaskStep(t)
  <2>1. PICK t \in Task : TaskStep(t)
    BY <1>2
  <2>2. CASE StartStep(t)
    BY <2>2, StartStepUpholds
  <2>3. CASE FlushStep(t)
    BY <2>3, FlushStepKeeps, KeptUpholds
  <2>4. CASE FlushFails(t)
    BY <2>4, FlushFailsFine, FineUpholds
  <2>5. CASE Stopped(t)
    BY <2>5, StoppedUpholds
  <2> QED
    BY <2>1, <2>2, <2>3, <2>4, <2>5 DEF TaskStep
<1>3. CASE \E b \in Bridge : DataStep(b)
  BY <1>3, DataStepKeeps, KeptUpholds
<1>4. CASE Crash
  BY <1>4, CrashUpholds
<1>5. CASE Corrupt /\ UNCHANGED host
  BY <1>5, CorruptKeeps, KeptUpholds
<1> QED
  BY <1>1, <1>2, <1>3, <1>4, <1>5 DEF Next

LEMMA Step == IInv /\ [Next]_vars => IInv'
<1> SUFFICES ASSUME IInv, [Next]_vars PROVE IInv'
  OBVIOUS
<1>1. CASE Next
  <2>1. Upheld
    BY <1>1, NextUpholds DEF IInv
  <2> QED
    BY <2>1 DEF IInv, Upheld
<1>2. CASE UNCHANGED vars
  <2>1. Kept
    BY <1>2, Stays, Quiescent DEF vars, IInv, Sound, StoreTypes, GhostOK, LeftOK
  <2> QED
    BY <2>1, KeptUpholds DEF IInv, Upheld
<1> QED
  BY <1>1, <1>2

LEMMA Invariant == Spec => []IInv
BY Initially, Step, PTL DEF Spec

(* The types.                                                              *)
LEMMA TypesFollow == IInv => TypeOK
<1> SUFFICES ASSUME IInv PROVE TypeOK
  OBVIOUS
<1>1. MemoryOK /\ DiskOK(disk, clock) /\ TasksOK /\ HostShape(host) /\ Generations(host)
  BY DEF IInv, Sound, StoreTypes, HostOK
<1>2. ASSUME NEW b \in Bridge
      PROVE  /\ bridge[b].gen \in Nat /\ bridge[b].db \in 0..bridge[b].gen
             /\ bridge[b].q \in [Msg -> {"no", "queued", "dead"}]
             /\ bridge[b].scenes \in [Agent -> 0..clock] /\ bridge[b].index \in [Agent -> 0..clock]
  BY <1>1 DEF MemoryOK, Memory, HandleOK, Queue, Times
<1>3. /\ disk.mode \in {"none", "dual", "sqlite"} /\ disk.rows \in [Msg -> {"no", "queued", "dead"}]
      /\ Len(disk.snaps) <= SnapKeep
  BY <1>1 DEF DiskOK, Directory, Mode, Queue
<1>4. \A t \in Task : task[t].kind \in {"idle", "start", "channel", "stop", "save"}
  BY <1>1 DEF TasksOK, Call
<1>5. /\ host.active.phase \in {"none", "active", "stopping", "stopped", "failed"}
      /\ host.pending.phase \in {"none", "active"} /\ host.made \in 0..Len(Pool)
  BY <1>1 DEF HostShape, Generations, Owner
<1>6. \A r \in Reg : /\ host.decl[r].state \in {"none", "active", "shadow", "retired"}
                     /\ host.decl[r].obs \in {"none", "awaiting", "polling", "ready", "retired"}
  BY <1>1 DEF HostShape, Declaration
<1> QED
  BY <1>2, <1>3, <1>4, <1>5, <1>6 DEF TypeOK

LEMMA OwnersFollow == IInv => NoOrphan
<1> SUFFICES ASSUME IInv, ~ghost.stray, NEW b \in Main, bridge[b].db > 0 \/ bridge[b].started,
                    ~(b = host.current /\ host.active.phase = "active")
             PROVE  \E t \in Task : task[t].kind \in {"start", "stop", "save"} /\ task[t].b = b
  BY DEF NoOrphan
<1>1. Leases /\ b \in Bridge /\ ~Owned(host, b)
  BY DEF IInv, Owned, Main
<1>2. bridge[b] \in Memory(clock) /\ HandleOK(bridge[b])
  BY <1>1 DEF IInv, Sound, StoreTypes, MemoryOK
<1>3. Open(bridge[b])
  BY <1>1, <1>2 DEF Leases, HandleOK, Memory, Open
<1>4. \E t \in Task : Closes(bridge, task[t], b)
  BY <1>1, <1>3 DEF Leases
<1> QED
  BY <1>4 DEF Closes, Stops, Starts

(* Whatever is registered, started, stopped, saved, lost and restarted, a  *)
(* handle (BeginLifecycle, Opened, CloseGeneration, CloseAny) stays in a   *)
(* generation that began, a stamp is never in the future, a load and a     *)
(* save write a queue that is one, and the lifecycle of the host keeps to  *)
(* its phases.                                                             *)
THEOREM ServiceTypeOK == Spec => []TypeOK
BY Invariant, TypesFollow, PTL

(* At any time an observation that goes on has its timer and is that of a  *)
(* complete registration that is active: no step of another registration,  *)
(* stop, failed start or activation leaves a poll behind or takes its      *)
(* timer away.                                                             *)
THEOREM ServiceObserved == Spec => []Observed
<1>1. IInv => Observed
  BY DEF IInv, Sound, HostOK, Watched, Observed
<1> QED
  BY <1>1, Invariant, PTL

(* An open handle or a running service always has somebody to answer for   *)
(* it: the active lifecycle whose bridge it is, or a call that is still to *)
(* close it, over any number of registrations, takeovers, starts, stops,   *)
(* failures and crashes (unless a service was started again before an      *)
(* earlier start of it had ended).                                         *)
THEOREM ServiceNoOrphan == Spec => []NoOrphan
BY Invariant, OwnersFollow, PTL
-----------------------------------------------------------------------------
(* The scene rows.                                                         *)

(* A database nobody has imported into yet has no scene rows, and neither  *)
(* have the snapshots that were taken of it.                               *)
Bare(d) == d.mode = "none" => d.scenes = NoScenes
BareOK(d) == Bare(d) /\ \A i \in 1..Len(d.snaps) : Bare(d.snaps[i])

(* Some bridge may write `to` over the row `from` of agent a.              *)
Answers(a, from, to) ==
  \E b \in Bridge :
    /\ bridge[b].scenes[a] = to
    /\ AgentOf[b] = a \/ (to = 0 /\ bridge[b].index[a] >= from)
Advances(d, e) ==
  \A a \in Agent : d.ok /\ e.ok /\ e.scenes[a] < d.scenes[a] => Answers(a, d.scenes[a], e.scenes[a])

ScenesKept == BareOK(disk') /\ Advances(disk, disk')

(* What a step does that leaves the rows, the mode or the snapshots alone. *)
LEMMA SameRows ==
  ASSUME DiskOK(disk, clock), BareOK(disk), clock \in Nat,
         disk'.scenes = disk.scenes, disk'.snaps = disk.snaps,
         disk'.mode = disk.mode \/ disk'.mode # "none"
  PROVE  ScenesKept
<1>1. disk.scenes \in [Agent -> 0..clock]
  BY DEF DiskOK, Directory, Times
<1> QED
  BY <1>1 DEF ScenesKept, BareOK, Bare, Advances

LEMMA OpenedRows ==
  ASSUME NEW n \in Nat, NEW d, DiskOK(d, n), BareOK(d), NEW b, bridge[b].db > 0 \/ Opens(d)
  PROVE  BareOK(Opened(d, b)) /\ (d.ok => Opened(d, b).scenes = d.scenes)
<1>1. CASE bridge[b].db > 0
  BY <1>1 DEF Opened
<1>2. CASE ~(bridge[b].db > 0)
  <2> DEFINE e == Recovered(d)
             c == Snapshot(e)
             all == <<c>> \o e.snaps
             k == IF Len(all) < SnapKeep THEN Len(all) ELSE SnapKeep
  <2>1. d.snaps \in Seq(Copy(n)) /\ d \in Directory(n)
    BY DEF DiskOK, Directory
  <2>2. /\ e.snaps = d.snaps /\ Bare(e) /\ (d.ok => e.scenes = d.scenes)
        /\ Opened(d, b) = [e EXCEPT !.snaps = SubSeq(all, 1, k)]
        /\ Opened(d, b).scenes = e.scenes /\ Opened(d, b).mode = e.mode
        /\ Opened(d, b).snaps = SubSeq(all, 1, k)
    <3>1. Opened(d, b) = [e EXCEPT !.snaps = SubSeq(all, 1, k)]
      BY <1>2 DEF Opened, Rotated
    <3>2. CASE d.ok
      BY <2>1, <3>1, <3>2 DEF Recovered, BareOK, Bare, Directory
    <3>3. CASE ~d.ok
      <4>1. d.snaps # <<>> /\ Newest(d) = d.snaps[1] /\ 1 \in 1..Len(d.snaps)
        BY <1>2, <2>1, <3>3 DEF Opens, Newest
      <4>2. Bare(Newest(d))
        BY <4>1 DEF BareOK
      <4>3. e.mode = Newest(d).mode /\ e.scenes = Newest(d).scenes /\ e.snaps = d.snaps
        BY <2>1, <3>3 DEF Recovered, Directory
      <4>4. [e EXCEPT !.snaps = SubSeq(all, 1, k)].snaps = SubSeq(all, 1, k)
        BY <2>1, <3>3 DEF Recovered, Directory
      <4>5. /\ [e EXCEPT !.snaps = SubSeq(all, 1, k)].scenes = e.scenes
            /\ [e EXCEPT !.snaps = SubSeq(all, 1, k)].mode = e.mode
        BY <2>1, <3>3 DEF Recovered, Directory
      <4> HIDE DEF e, all, k
      <4> QED
        BY <3>1, <3>3, <4>2, <4>3, <4>4, <4>5 DEF Bare
    <3> QED
      BY <3>2, <3>3
  <2>3. c.mode = e.mode /\ c.scenes = e.scenes
    BY DEF Snapshot
  <2> HIDE DEF e, c
  <2>4. e.snaps \in Seq(Copy(n)) /\ Len(e.snaps) \in Nat
    BY <2>1, <2>2
  <2>5. Len(all) = Len(e.snaps) + 1 /\ all[1] = c
        /\ \A i \in 2..Len(all) : all[i] = e.snaps[i - 1]
    BY <2>4
  <2>6. \A i \in 1..Len(all) : Bare(all[i])
    <3> SUFFICES ASSUME NEW i \in 1..Len(all) PROVE Bare(all[i])
      OBVIOUS
    <3>1. CASE i = 1
      BY <2>2, <2>3, <2>5, <3>1 DEF Bare
    <3>2. CASE i # 1
      <4>1. all[i] = e.snaps[i - 1] /\ i - 1 \in 1..Len(d.snaps)
        BY <2>2, <2>4, <2>5, <3>2
      <4> QED
        BY <2>2, <4>1 DEF BareOK
    <3> QED
      BY <3>1, <3>2
  <2> HIDE DEF all
  <2>7. k \in Nat /\ k <= Len(all) /\ k >= 1
    BY <2>4, <2>5, StateStoreAssumption
  <2> HIDE DEF k
  <2>8. Len(SubSeq(all, 1, k)) = k /\ \A i \in 1..k : SubSeq(all, 1, k)[i] = all[i]
    BY <2>5, <2>7
  <2>9. \A i \in 1..Len(Opened(d, b).snaps) : Bare(Opened(d, b).snaps[i])
    BY <2>2, <2>6, <2>7, <2>8
  <2> QED
    BY <2>2, <2>9 DEF BareOK, Bare
<1> QED
  BY <1>1, <1>2

(* replaceControlState sets back only rows it answers for.                 *)
LEMMA SavedRows ==
  ASSUME NEW n \in Nat, NEW d, DiskOK(d, n), BareOK(d), Dual(d),
         NEW b \in Bridge, bridge[b] \in Memory(n)
  PROVE  /\ BareOK(SavedToSqlite(d, b))
         /\ \A a \in Agent : SavedToSqlite(d, b).scenes[a] < d.scenes[a]
              => Answers(a, d.scenes[a], SavedToSqlite(d, b).scenes[a])
<1> DEFINE s == bridge[b]
           new == ScopedScenes(d.scenes, b, s)
           e == SavedToSqlite(d, b)
<1>1. /\ d \in Directory(n) /\ d.scenes \in [Agent -> 0..n]
      /\ s.scenes \in [Agent -> 0..n] /\ s.index \in [Agent -> 0..n]
  BY DEF DiskOK, Directory, Memory, Times
<1>2. e.scenes = new /\ e.mode = d.mode /\ e.snaps = d.snaps
  BY <1>1 DEF SavedToSqlite, Directory
<1>3. BareOK(e)
  BY <1>2 DEF BareOK, Bare, Dual
<1>4. ASSUME NEW a \in Agent, new[a] < d.scenes[a]
      PROVE  Answers(a, d.scenes[a], new[a])
  <2> DEFINE kept == IF a = AgentOf[b] THEN 0
                     ELSE IF a \in Removed(s) /\ d.scenes[a] <= s.index[a] THEN 0
                     ELSE d.scenes[a]
  <2>1. new[a] = IF s.scenes[a] > 0 /\ s.scenes[a] >= kept THEN s.scenes[a] ELSE kept
    BY DEF ScopedScenes
  <2>2. s.scenes[a] \in Nat /\ s.index[a] \in Nat /\ d.scenes[a] \in Nat
    BY <1>1
  <2>3. CASE a = AgentOf[b]
    <3>1. new[a] = s.scenes[a]
      BY <2>1, <2>2, <2>3
    <3> QED
      BY <2>3, <3>1 DEF Answers
  <2>4. CASE a # AgentOf[b]
    <3>1. a \in Removed(s) /\ d.scenes[a] <= s.index[a]
      BY <1>4, <2>1, <2>2, <2>4
    <3>2. s.scenes[a] = 0 /\ s.index[a] >= d.scenes[a]
      BY <2>2, <3>1 DEF Removed
    <3>3. new[a] = 0
      BY <2>1, <3>1, <3>2
    <3> QED
      BY <3>2, <3>3 DEF Answers
  <2> QED
    BY <2>3, <2>4
<1> QED
  BY <1>2, <1>3, <1>4

LEMMA SnapshotsRows ==
  ASSUME StoreTypes, BareOK(disk), NEW t, NEW rec, rec.b \in Bridge, NEW hasDb, NEW next,
         NEW d, DiskOK(d, clock), BareOK(d), disk.ok => d.scenes = disk.scenes,
         Snapshots(t, rec, hasDb, d, next)
  PROVE  ScenesKept
<1>1. clock \in Nat /\ bridge[rec.b] \in Memory(clock)
  BY DEF StoreTypes, MemoryOK
<1>2. CASE hasDb /\ Dual(d)
  <2>1. disk' = SavedToSqlite(d, rec.b)
    BY <1>2 DEF Snapshots
  <2> QED
    BY <1>1, <1>2, <2>1, SavedRows DEF ScenesKept, Advances
<1>3. CASE ~(hasDb /\ Dual(d))
  <2>1. disk' = d /\ d.scenes \in [Agent -> 0..clock]
    BY <1>3 DEF Snapshots, DiskOK, Directory, Times
  <2> QED
    BY <1>1, <2>1 DEF ScenesKept, Advances
<1> QED
  BY <1>2, <1>3

LEMMA CallsFlushRows ==
  ASSUME StoreTypes, BareOK(disk), NEW t, NEW rec, rec.b \in Bridge, NEW s, NEW next,
         CallsFlush(t, rec, s, next)
  PROVE  ScenesKept
<1>0. DiskOK(disk, clock) /\ clock \in Nat
  BY DEF StoreTypes
<1>1. CASE s.db > 0 \/ s.closed \/ ~s.path
  <2>1. PICK open : open <=> s.db > 0
    OBVIOUS
  <2>2. Snapshots(t, rec, open, disk, next)
    BY <1>1, <2>1 DEF CallsFlush, Snapshots
  <2> QED
    BY <1>0, <2>2, SnapshotsRows
<1>2. CASE ~(s.db > 0 \/ s.closed \/ ~s.path)
  <2>1. disk' = disk
    BY <1>2 DEF CallsFlush
  <2> QED
    BY <1>0, <2>1, SameRows
<1> QED
  BY <1>1, <1>2

(* The import takes the scenes of the JSON file over no row at all.        *)
LEMMA LoadRows ==
  ASSUME StoreTypes, BareOK(disk), NEW b, NEW q, disk' = AfterLoad(disk, b, q)
  PROVE  ScenesKept
<1>0. DiskOK(disk, clock) /\ clock \in Nat /\ disk \in Directory(clock)
  BY DEF StoreTypes, DiskOK
<1>1. CASE Dual(disk)
  <2>1. disk'.scenes = disk.scenes /\ disk'.snaps = disk.snaps /\ disk'.mode = disk.mode
    BY <1>0, <1>1 DEF AfterLoad, Directory
  <2> QED
    BY <1>0, <2>1, SameRows
<1>2. CASE ~Dual(disk)
  <2>1. disk.mode = "none" /\ disk.jscenes \in [Agent -> 0..clock]
    BY <1>0, <1>2 DEF Directory, Mode, Dual, Times
  <2>2. disk'.scenes = disk.jscenes /\ disk'.snaps = disk.snaps /\ disk'.mode = "dual"
    BY <1>0, <1>2 DEF AfterLoad, Directory
  <2>3. \A a \in Agent : disk.scenes[a] = 0
    BY <2>1 DEF BareOK, Bare, NoScenes
  <2>4. \A a \in Agent : ~(disk'.scenes[a] < disk.scenes[a])
    BY <1>0, <2>1, <2>2, <2>3
  <2> QED
    BY <2>2, <2>4 DEF ScenesKept, BareOK, Bare, Advances
<1> QED
  BY <1>1, <1>2

LEMMA StartRows ==
  ASSUME Sound, BareOK(disk), NEW t \in Task, StartStep(t)
  PROVE  ScenesKept
<1>0. /\ DiskOK(disk, clock) /\ clock \in Nat /\ disk \in Directory(clock) /\ StoreTypes
      /\ task[t] \in Call(clock)
  BY DEF Sound, StoreTypes, DiskOK, TasksOK
<1>1. ASSUME disk' = disk PROVE ScenesKept
  BY <1>0, <1>1, SameRows
<1>2. CASE Prepares(t)
  <2>1. disk' = Migrated(disk) \/ disk' = disk
    BY <1>2 DEF Prepares
  <2>2. disk'.scenes = disk.scenes /\ disk'.snaps = disk.snaps /\ disk'.mode = disk.mode
    BY <1>0, <2>1 DEF Migrated, Directory
  <2> QED
    BY <1>0, <2>2, SameRows
<1>3. CASE Opening(t)
  <2> DEFINE s == bridge[task[t].b]
             usable == s.db = task[t].hold \/ Usable(s, task[t].hold)
  <2>1. CASE usable /\ s.db = 0 /\ ~Opens(disk)
    BY <1>1, <1>3, <2>1 DEF Opening
  <2>2. CASE ~(usable /\ s.db = 0 /\ ~Opens(disk))
    <3>1. disk' = IF usable THEN Opened(disk, task[t].b) ELSE disk
      BY <1>3, <2>2 DEF Opening
    <3>2. CASE ~usable
      BY <1>1, <3>1, <3>2
    <3>3. CASE usable
      <4>1. task[t].pc \in Further
        BY <1>3 DEF Opening, Further
      <4>2. s.db \in Nat
        BY <4>1, StartFacts DEF Memory
      <4>3. s.db > 0 \/ Opens(disk)
        BY <2>2, <3>3, <4>2
      <4>4. /\ BareOK(Opened(disk, task[t].b))
            /\ disk.ok => Opened(disk, task[t].b).scenes = disk.scenes
        BY <1>0, <4>3, OpenedRows
      <4>5. disk.scenes \in [Agent -> 0..clock]
        BY <1>0 DEF Directory, Times
      <4> QED
        BY <1>0, <3>1, <3>3, <4>4, <4>5 DEF ScenesKept, Advances
    <3> QED
      BY <3>2, <3>3
  <2> QED
    BY <2>1, <2>2
<1>4. CASE Loads(t)
  <2>1. disk' = disk \/ \E q : disk' = AfterLoad(disk, task[t].b, q)
    BY <1>4 DEF Loads
  <2> QED
    BY <1>0, <1>1, <2>1, LoadRows
<1>5. CASE CutoverFlushes(t)
  <2>1. task[t].pc = "cut"
    BY <1>5 DEF CutoverFlushes
  <2>2. task[t].b \in Bridge
    BY <2>1, FlushingCall
  <2>3. disk' = disk \/ Snapshots(t, task[t], TRUE, disk, "cutcheck")
    BY <1>5 DEF CutoverFlushes, CutoverThrows
  <2> QED
    BY <1>0, <1>1, <2>2, <2>3, SnapshotsRows
<1>6. CASE CutoverMoves(t) \/ CutoverEnds(t)
  <2>1. \/ disk' = disk \/ disk' = [disk EXCEPT !.jsonAt = FALSE]
        \/ disk' = [disk EXCEPT !.mode = "sqlite"]
    BY <1>6 DEF CutoverMoves, CutoverEnds, CutoverThrows
  <2>2. /\ disk'.scenes = disk.scenes /\ disk'.snaps = disk.snaps
        /\ disk'.mode = disk.mode \/ disk'.mode # "none"
    BY <1>0, <2>1 DEF Directory
  <2> QED
    BY <1>0, <2>2, SameRows
<1>7. CASE Activates(t) \/ Rejected(t) \/ ChannelStarts(t)
  BY <1>1, <1>7 DEF Activates, Obtains, Rejected, ChannelStarts, OnlyTask
<1>8. CASE BeginsStore(t) \/ CutoverCounts(t)
  BY <1>1, <1>8 DEF BeginsStore, CutoverCounts, CutoverThrows, OnlyTask
<1>9. CASE Refreshes(t) \/ Started(t)
  BY <1>1, <1>9 DEF Refreshes, Started
<1> QED
  BY <1>2, <1>3, <1>4, <1>5, <1>6, <1>7, <1>8, <1>9 DEF StartStep

LEMMA FlushRows ==
  ASSUME Sound, BareOK(disk), NEW t \in Task, FlushStep(t)
  PROVE  ScenesKept
<1>0. DiskOK(disk, clock) /\ clock \in Nat /\ disk \in Directory(clock) /\ StoreTypes
  BY DEF Sound, StoreTypes, DiskOK
<1>1. PICK next : FlushOpens(t, next) \/ JsonLands(t, next)
  BY DEF FlushStep
<1>2. CASE JsonLands(t, next)
  <2>1. disk'.scenes = disk.scenes /\ disk'.snaps = disk.snaps /\ disk'.mode = disk.mode
    BY <1>0, <1>2 DEF JsonLands, Directory
  <2> QED
    BY <1>0, <2>1, SameRows
<1>3. CASE FlushOpens(t, next)
  <2> DEFINE b == task[t].b
             usable == Usable(bridge[b], task[t].hold)
             d == IF usable THEN Opened(disk, b) ELSE disk
  <2>1. /\ task[t].pc = "fopen" /\ (usable => bridge[b].db > 0 \/ Opens(disk))
        /\ Snapshots(t, task[t], usable, d, next)
    BY <1>3 DEF FlushOpens
  <2>2. b \in Bridge
    BY <2>1, FlushingCall
  <2>3. PICK yes : yes <=> usable
    OBVIOUS
  <2>4. Snapshots(t, task[t], yes, d, next)
    BY <2>1, <2>3 DEF Snapshots
  <2>5. DiskOK(d, clock) /\ BareOK(d) /\ (disk.ok => d.scenes = disk.scenes)
    BY <1>0, <2>1, OpenedType, OpenedRows
  <2> HIDE DEF d
  <2> QED
    BY <1>0, <2>2, <2>4, <2>5, SnapshotsRows
<1> QED
  BY <1>1, <1>2, <1>3

LEMMA DataRows ==
  ASSUME Sound, BareOK(disk), NEW b \in Bridge, DataStep(b)
  PROVE  ScenesKept
<1>0. DiskOK(disk, clock) /\ clock \in Nat /\ disk \in Directory(clock) /\ StoreTypes
  BY DEF Sound, StoreTypes, DiskOK
<1>1. ASSUME disk' = disk PROVE ScenesKept
  BY <1>0, <1>1, SameRows
<1>2. ASSUME NEW m \in Msg, Purge(b, m) PROVE ScenesKept
  <2>1. disk'.scenes = disk.scenes /\ disk'.snaps = disk.snaps /\ disk'.mode = disk.mode
    BY <1>0, <1>2 DEF Purge, Directory
  <2> QED
    BY <1>0, <2>1, SameRows
<1>3. ASSUME NEW t \in Task, SaveTimerFires(t, b) PROVE ScenesKept
  <2>1. disk' = disk
        \/ CallsFlush(t, [NoTask EXCEPT !.kind = "save", !.b = b], bridge[b], "idle")
    BY <1>3 DEF SaveTimerFires
  <2>2. [NoTask EXCEPT !.kind = "save", !.b = b].b \in Bridge
    BY DEF NoTask
  <2> QED
    BY <1>0, <1>1, <2>1, <2>2, CallsFlushRows
<1>4. CASE SeeScene(b) \/ MergeScenes(b) \/ \E a \in Agent : RemoveScene(b, a)
  BY <1>1, <1>4 DEF SeeScene, MergeScenes, RemoveScene
<1>5. ASSUME NEW m \in Msg, Accept(b, m) \/ \E how \in left.ends : Ends(b, m, how)
      PROVE  ScenesKept
  BY <1>1, <1>5 DEF Accept, Ends
<1> QED
  BY <1>2, <1>3, <1>4, <1>5 DEF DataStep

LEMMA HostRows ==
  ASSUME Sound, BareOK(disk), HostStep
  PROVE  ScenesKept
<1>0. DiskOK(disk, clock) /\ clock \in Nat /\ StoreTypes
  BY DEF Sound, StoreTypes
<1>1. ASSUME disk' = disk PROVE ScenesKept
  BY <1>0, <1>1, SameRows
<1>2. CASE \E r \in Reg, c \in Code : Register(r, c)
  BY <1>1, <1>2 DEF Register, storeVars
<1>3. CASE \E r \in Reg : ObservationFires(r) \/ ChannelStops(r)
  BY <1>1, <1>3 DEF ObservationFires, ChannelStops, storeVars
<1>4. ASSUME NEW t \in Task, NEW r \in Reg, NEW kind, CallsStart(t, kind, r) PROVE ScenesKept
  BY <1>1, <1>4 DEF CallsStart, Obtains
<1>5. ASSUME NEW t \in Task, NEW r \in Reg, CallsStop(t, r) PROVE ScenesKept
  <2> DEFINE s == [bridge[host.current] EXCEPT !.stopped = TRUE, !.started = FALSE,
                                               !.chan = FALSE, !.timer = FALSE]
             rec == [NoTask EXCEPT !.kind = "stop", !.reg = r, !.gen = host.cb[r], !.b = host.current]
  <2>1. CallsFlush(t, rec, s, "close") /\ IsActive(host, r, host.cb[r])
    BY <1>5 DEF CallsStop
  <2>2. host.current \in Bridge
    BY <2>1 DEF Sound, HostOK, Based, Living, IsActive, Main
  <2>3. rec.b \in Bridge
    BY <2>2 DEF NoTask
  <2> HIDE DEF s, rec
  <2> QED
    BY <1>0, <2>1, <2>3, CallsFlushRows
<1> QED
  BY <1>2, <1>3, <1>4, <1>5 DEF HostStep

LEMMA NextRows == ASSUME Sound, BareOK(disk), [Next]_vars PROVE ScenesKept
<1>0. DiskOK(disk, clock) /\ clock \in Nat /\ disk \in Directory(clock)
  BY DEF Sound, StoreTypes, DiskOK
<1>1. CASE HostStep
  BY <1>1, HostRows
<1>2. CASE \E t \in Task : TaskStep(t)
  <2>1. PICK t \in Task : TaskStep(t)
    BY <1>2
  <2>2. CASE FlushFails(t) \/ Stopped(t)
    <3>1. disk' = disk
      BY <2>2 DEF FlushFails, Stopped
    <3> QED
      BY <1>0, <3>1, SameRows
  <2> QED
    BY <2>1, <2>2, StartRows, FlushRows DEF TaskStep
<1>3. CASE \E b \in Bridge : DataStep(b)
  BY <1>3, DataRows
<1>4. CASE Crash \/ UNCHANGED vars
  <2>1. disk' = disk
    BY <1>4 DEF Crash, vars
  <2> QED
    BY <1>0, <2>1, SameRows
<1>5. CASE Corrupt
  <2>1. disk'.scenes = disk.scenes /\ disk'.snaps = disk.snaps /\ disk'.mode = disk.mode
    BY <1>0, <1>5 DEF Corrupt, Directory
  <2> QED
    BY <1>0, <2>1, SameRows
<1> QED
  BY <1>1, <1>2, <1>3, <1>4, <1>5 DEF Next

(* The row of a scene is set back only by a save of a bridge of the same   *)
(* agent, to the time that bridge remembers, or deleted by one that knew   *)
(* its last state: replaceControlState, the import of the first load and   *)
(* every other write of the directory, over any number of bridges, crashes *)
(* and recoveries.                                                         *)
THEOREM ServiceScenes == Spec => ScenesOnlyAdvance
<1>1. Init => BareOK(disk)
  <2> SUFFICES ASSUME Init PROVE BareOK(disk)
    OBVIOUS
  <2>1. disk = Disk0(left.found, left.old)
    BY DEF Init
  <2>2. disk.scenes = NoScenes /\ disk.snaps = <<>>
    BY <2>1 DEF Disk0
  <2> QED
    BY <2>2 DEF BareOK, Bare
<1>2. IInv /\ BareOK(disk) /\ [Next]_vars => ScenesKept
  BY NextRows DEF IInv
<1>3. ScenesKept => BareOK(disk)' /\ Advances(disk, disk')
  BY DEF ScenesKept, BareOK, Bare
<1>4. IInv /\ BareOK(disk) /\ [Next]_vars
        => [\A a \in Agent : disk.ok /\ disk'.ok /\ disk'.scenes[a] < disk.scenes[a] =>
              \E b \in Bridge :
                /\ bridge[b].scenes[a] = disk'.scenes[a]
                /\ AgentOf[b] = a \/ (disk'.scenes[a] = 0 /\ bridge[b].index[a] >= disk.scenes[a])]_vars
  BY <1>2, <1>3 DEF Advances, Answers
<1> QED
  BY <1>1, <1>2, <1>3, <1>4, Invariant, PTL DEF Spec, ScenesOnlyAdvance
=============================================================================
