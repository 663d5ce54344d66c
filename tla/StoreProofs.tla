---------------------------- MODULE StoreProofs ----------------------------
(***************************************************************************)
(* Proofs about the store that Service keeps, in three layers.  Handles:   *)
(* whoever waits for the handle of a bridge, or uses it, does so in the    *)
(* generation the bridge is in, and on a good database.  Places: where a   *)
(* message may be found at all.  Ends: a message whose end is saved stays  *)
(* out of the queues, because a newer write of the JSON file makes an      *)
(* older one harmless.                                                     *)
(***************************************************************************)
EXTENDS ServiceProofs

-----------------------------------------------------------------------------
(* Handles.                                                                *)

(* A start that has begun a generation of its bridge.                      *)
Began(c) == Starts(c) /\ Inside(c)
Opener(t) == Began(task[t]) /\ Current(task[t])

(* No two starts have begun the same generation.                           *)
GensOK == \A t \in Task : Began(task[t]) => task[t].sgen \in 1..bridge[task[t].b].gen
ApartOK ==
  \A t, u \in Task : Began(task[t]) /\ Began(task[u]) /\ task[t].b = task[u].b
                     /\ task[t].sgen = task[u].sgen => t = u

(* The directory is prepared by a start, before it opens the database.     *)
PathOK ==
  /\ \A b \in Main : bridge[b].path => bridge[b].gen > 0
  /\ \A t \in Task : Began(task[t]) /\ task[t].pc # "prepare" => bridge[task[t].b].path

(* A stop is one of the current bridge, and a start does not flush before  *)
(* it has its handle.                                                      *)
StopsOK ==
  \A t \in Task : /\ Stops(task[t]) => task[t].b = host.current
                  /\ task[t].pc = "fopen" => ~Starts(task[t])

(* Whoever has the database open has opened a good one.                    *)
GoodDisk == (\E b \in Bridge : bridge[b].db > 0) => disk.ok

(* The bridges that are still to be built are empty, and nobody's.         *)
UnbuiltOK ==
  \A i \in 1..Len(Pool) : i > host.made =>
    /\ Pool[i] # host.current /\ bridge[Pool[i]].q = Empty
    /\ \A t \in Task : task[t].b # Pool[i]

Basics == GensOK /\ ApartOK /\ PathOK /\ StopsOK /\ GoodDisk /\ UnbuiltOK

(* A handle belongs to the generation the bridge is in.                    *)
DbOK == \A b \in Main : bridge[b].db > 0 => bridge[b].db = bridge[b].gen /\ bridge[b].path

(* A service that runs has its handle, and the start that began its        *)
(* generation is over.                                                     *)
RunsOK ==
  \A b \in Main : bridge[b].started =>
    bridge[b].db > 0
    /\ \A t \in Task : Began(task[t]) /\ task[t].b = b => task[t].sgen # bridge[b].gen

(* The store is open for the service that runs, the start that makes it    *)
(* run or the stop that ends it, on the current bridge.                    *)
OpenOK ==
  \A b \in Main : Open(bridge[b]) =>
    /\ b = host.current
    /\ \/ host.active.phase = "active" /\ (bridge[b].started \/ \E t \in Task : Opener(t))
       \/ host.active.phase = "stopping" /\ \E t \in Task : Stops(task[t])

(* A flush that waits for the database is one of the current bridge, and   *)
(* waits for its generation, unless its stop could not open it.            *)
WaitsOK ==
  \A u \in Task : task[u].pc = "fopen" /\ task[u].b \in Main =>
    LET s == bridge[host.current] IN
    /\ task[u].b = host.current /\ s.path
    /\ \/ host.active.phase = "failed"
       \/ host.active.phase = "active" /\ Open(s) /\ task[u].hold = s.gen
       \/ /\ host.active.phase = "stopping"
          /\ \E t \in Task : /\ Stops(task[t])
                             /\ \/ task[t].pc = "closefail"
                                \/ task[t].pc = "fopen" /\ task[u].hold = s.gen

StopFlag == host.active.phase = "stopping" => bridge[host.current].stopped

(* The start of the running owner is never refused its handle.             *)
GoingOK ==
  \A t \in Task : Opener(t) =>
    LET s == bridge[host.current] IN
    /\ ~s.closed /\ (task[t].pc # "prepare" => task[t].hold = s.gen)
    /\ task[t].pc \notin {"prepare", "open"} => s.db > 0

Handles == DbOK /\ RunsOK /\ OpenOK /\ WaitsOK /\ StopFlag /\ GoingOK

HInv == IInv /\ Basics /\ (~ghost.stray => Handles)

-----------------------------------------------------------------------------
(* Steps that give nobody a new generation.                                *)

(* Every call but t is where it was.                                       *)
Rest(t) ==
  \A u \in Task \ {t} : /\ Same(task[u], task'[u]) /\ task'[u].pc = task[u].pc
                        /\ task'[u].hold = task[u].hold /\ task'[u].data = task[u].data

Built(b) == b = Foreign \/ b = host.current \/ \E t \in Task : task[t].b = b
Building(h, k) ==
  \/ k.made = h.made /\ k.current = h.current
  \/ h.made < Len(Pool) /\ k.made = h.made + 1 /\ k.current = Pool[k.made]

Plain ==
  /\ \A b \in Bridge :
       /\ bridge'[b].gen >= bridge[b].gen
       /\ bridge[b].path => bridge'[b].path
       /\ bridge'[b].path => bridge[b].path \/ \E t \in Task : Began(task[t]) /\ task[t].b = b
       /\ bridge'[b].q = bridge[b].q \/ Built(b)
       /\ bridge'[b].db > 0 => bridge[b].db > 0 \/ disk'.ok
  /\ \A u \in Task :
       /\ Began(task'[u]) =>
            /\ Began(task[u]) /\ Same(task[u], task'[u])
            /\ task'[u].pc # "prepare" => task[u].pc # "prepare" \/ bridge'[task[u].b].path
       /\ Stops(task'[u]) =>
            \/ task'[u].b = host'.current
            \/ Stops(task[u]) /\ task'[u].b = task[u].b /\ host'.current = host.current
       /\ task'[u].pc = "fopen" /\ Starts(task'[u]) => task[u].pc = "fopen" /\ Starts(task[u])
       /\ task'[u].b \in {task[u].b, 0, Foreign, host.current, host'.current}
  /\ disk.ok => disk'.ok \/ \A b \in Bridge : bridge[b].db = 0 /\ bridge'[b].db = 0
  /\ Building(host, host')

LEMMA BeganFacts ==
  ASSUME Sound, NEW t \in Task, Began(task[t])
  PROVE  /\ task[t].b \in Main /\ task[t].b \in Bridge /\ task[t].reg \in Reg /\ task[t].gen \in Nat
         /\ ~Waits(task[t]) /\ Starts(task[t]) /\ ~Stops(task[t]) /\ task[t].sgen \in Nat
BY InsideCall DEF Began, Inside, Waits, Starts, Stops, Call

LEMMA PoolFacts ==
  \A i \in 1..Len(Pool) : /\ Pool[i] \in Main /\ Pool[i] \in Bridge /\ Pool[i] # Foreign /\ Pool[i] # 0
                          /\ \A j \in 1..Len(Pool) : Pool[i] = Pool[j] => i = j
BY ServiceAssumption DEF Main

LEMMA PlainKeeps ==
  ASSUME Sound, Sound', Basics, Plain
  PROVE  Basics'
<1>0. \A b \in Bridge : bridge[b].gen \in Nat /\ bridge'[b].gen \in Nat
                        /\ bridge[b].db \in Nat /\ bridge'[b].db \in Nat
  BY DEF Sound, StoreTypes, MemoryOK, Memory
<1>1. GensOK'
  <2> SUFFICES ASSUME NEW t \in Task, Began(task'[t])
               PROVE  task'[t].sgen \in 1..bridge'[task'[t].b].gen
    BY DEF GensOK
  <2>1. Began(task[t]) /\ task'[t].b = task[t].b /\ task'[t].sgen = task[t].sgen
    BY DEF Plain, Same
  <2>2. task[t].b \in Bridge /\ task[t].sgen \in 1..bridge[task[t].b].gen
    BY <2>1, BeganFacts DEF Basics, GensOK
  <2>3. bridge'[task[t].b].gen >= bridge[task[t].b].gen
    BY <2>2 DEF Plain
  <2> QED
    BY <1>0, <2>1, <2>2, <2>3
<1>2. ApartOK'
  BY DEF Plain, Same, Basics, ApartOK
<1>3. PathOK'
  <2>1. ASSUME NEW b \in Main, bridge'[b].path PROVE bridge'[b].gen > 0
    <3>1. b \in Bridge
      BY DEF Main
    <3>2. bridge[b].gen > 0
      <4>1. CASE bridge[b].path
        BY <4>1 DEF Basics, PathOK
      <4>2. ASSUME NEW t \in Task, Began(task[t]), task[t].b = b PROVE bridge[b].gen > 0
        BY <1>0, <3>1, <4>2 DEF Basics, GensOK
      <4> QED
        BY <2>1, <3>1, <4>1, <4>2 DEF Plain
    <3>3. bridge'[b].gen >= bridge[b].gen
      BY <3>1 DEF Plain
    <3> QED
      BY <1>0, <3>1, <3>2, <3>3
  <2>2. ASSUME NEW t \in Task, Began(task'[t]), task'[t].pc # "prepare"
        PROVE  bridge'[task'[t].b].path
    <3>1. /\ Began(task[t]) /\ task'[t].b = task[t].b
          /\ task[t].pc # "prepare" \/ bridge'[task[t].b].path
      BY <2>2 DEF Plain, Same
    <3>2. task[t].b \in Bridge
      BY <3>1, BeganFacts
    <3>3. bridge[task[t].b].path => bridge'[task[t].b].path
      BY <3>2 DEF Plain
    <3> QED
      BY <3>1, <3>3 DEF Basics, PathOK
  <2> QED
    BY <2>1, <2>2 DEF PathOK
<1>4. StopsOK'
  BY DEF Plain, Basics, StopsOK
<1>5. GoodDisk'
  <2> SUFFICES ASSUME NEW b \in Bridge, bridge'[b].db > 0 PROVE disk'.ok
    BY DEF GoodDisk
  <2>1. bridge[b].db > 0 \/ disk'.ok
    BY DEF Plain
  <2>2. bridge[b].db > 0 => disk.ok
    BY DEF Basics, GoodDisk
  <2> QED
    BY <1>0, <2>1, <2>2 DEF Plain
<1>6. UnbuiltOK'
  <2> SUFFICES ASSUME NEW i \in 1..Len(Pool), i > host'.made
               PROVE  /\ Pool[i] # host'.current /\ bridge'[Pool[i]].q = Empty
                      /\ \A t \in Task : task'[t].b # Pool[i]
    BY DEF UnbuiltOK
  <2>1. Pool[i] \in Bridge /\ Pool[i] # Foreign /\ Pool[i] # 0 /\ Len(Pool) \in Nat
    BY PoolFacts, ServiceAssumption
  <2>2. Building(host, host') /\ host.made \in Nat /\ host'.made \in Nat
    BY DEF Plain, Sound, HostOK, HostShape
  <2>3. i > host.made
    BY <2>2 DEF Building
  <2>4. /\ Pool[i] # host.current /\ bridge[Pool[i]].q = Empty
        /\ \A t \in Task : task[t].b # Pool[i]
    BY <2>3 DEF Basics, UnbuiltOK
  <2>5. Pool[i] # host'.current
    <3>1. CASE host'.current = host.current
      BY <2>4, <3>1
    <3>2. CASE host.made < Len(Pool) /\ host'.made = host.made + 1 /\ host'.current = Pool[host'.made]
      <4>1. host'.made \in 1..Len(Pool) /\ i # host'.made
        BY <2>1, <2>2, <3>2
      <4> QED
        BY <3>2, <4>1, PoolFacts
    <3> QED
      BY <2>2, <3>1, <3>2 DEF Building
  <2>6. ~Built(Pool[i])
    BY <2>1, <2>4 DEF Built
  <2>7. bridge'[Pool[i]].q = bridge[Pool[i]].q
    BY <2>1, <2>6 DEF Plain
  <2>8. \A t \in Task : task'[t].b \in {task[t].b, 0, Foreign, host.current, host'.current}
    BY DEF Plain
  <2> QED
    BY <2>1, <2>4, <2>5, <2>7, <2>8
<1> QED
  BY <1>1, <1>2, <1>3, <1>4, <1>5, <1>6 DEF Basics

-----------------------------------------------------------------------------
(* Steps that leave the owner and his generation alone, unless his start   *)
(* fails.                                                                  *)

(* A start that moves on, on a bridge that goes from s to r.               *)
Moves(c, d, s, r) ==
  \/ d.pc = c.pc /\ d.hold = c.hold
  \/ /\ c.pc = "prepare" /\ d.pc = "open"
     /\ d.hold = IF s.db > 0 THEN s.db ELSE s.gen
  \/ /\ c.pc = "open" /\ d.pc = "read"
     /\ Usable(s, c.hold) => d.hold = c.hold /\ r.db = c.hold
  \/ c.pc \notin {"prepare", "open"} /\ d.pc \notin {"prepare", "open"} /\ d.hold = c.hold

(* A start is over that began the generation of bridge b.                  *)
Closing(b) ==
  \E t \in Task : /\ Began(task[t]) /\ ~Began(task'[t])
                  /\ task[t].b = b /\ task[t].sgen = bridge[b].gen

OpensIn(c) == c.pc = "fopen" /\ c.b \in Main

Gripped ==
  /\ host'.current = host.current
  /\ \/ host'.active = host.active
     \/ host.active.phase = "active" /\ host'.active.phase = "failed"
        /\ \E t \in Task : Opener(t) /\ ~Began(task'[t])
  /\ \A b \in Main : LET s == bridge[b]
                         r == bridge'[b]
                     IN
       /\ r.gen = s.gen /\ r.started = s.started /\ (s.path => r.path)
       /\ \/ r.closed = s.closed /\ r.db = s.db
          \/ ~r.closed /\ ~s.closed /\ s.path /\ r.db = s.gen
          \/ r.closed /\ r.db = 0 /\ Closing(b)
       /\ host.active.phase = "stopping" /\ s.stopped => r.stopped
  /\ \A u \in Task : LET c == task[u]
                         d == task'[u]
                     IN
       /\ Began(d) => Began(c) /\ Same(c, d) /\ Moves(c, d, bridge[c.b], bridge'[c.b])
       /\ Began(c) /\ ~Began(d) /\ c.sgen = bridge[c.b].gen => bridge'[c.b].closed
       /\ Opener(u) /\ ~Began(d) => host'.active.phase = "failed"
       /\ Stops(c) => Stops(d)
       /\ Stops(c) /\ c.pc \in {"fopen", "closefail"} =>
            \/ d.pc = c.pc
            \/ d.pc = "closefail"
            \/ \A v \in Task : ~OpensIn(task'[v])
       /\ OpensIn(d) =>
            \/ OpensIn(c) /\ d.b = c.b /\ d.hold = c.hold
            \/ LET s == bridge[d.b] IN
               /\ d.b = host.current /\ d.hold = s.gen /\ host'.active = host.active
               /\ ~s.stopped /\ ~s.closed /\ ~bridge'[d.b].closed /\ s.path

LEMMA OpenerFacts ==
  ASSUME Sound, Leases, NEW t \in Task, Opener(t)
  PROVE  /\ task[t].b = host.current /\ task[t].sgen = bridge[host.current].gen
         /\ ~bridge[host.current].started /\ host.current \in Main
         /\ host.active.phase = "active"
         /\ \A u \in Task : Opener(u) => u = t
<1>1. /\ Starts(task[t]) /\ Inside(task[t]) /\ ~Waits(task[t])
      /\ IsActive(host, task[t].reg, task[t].gen) /\ task[t].b \in Main
  BY BeganFacts DEF Opener, Began, Current
<1>2. StartOK(task[t], host, bridge)
  BY DEF Leases
<1>3. \A u \in Task : Opener(u) => u = t
  BY DEF Leases, OneStart, Opener, Began, Current, IsActive, Owns
<1> QED
  BY <1>1, <1>2, <1>3 DEF StartOK, IsActive

(* In a bridge that is open for the owner, nobody else's start began the   *)
(* generation that is open.                                                *)
LEMMA ClosingOwner ==
  ASSUME Sound, Leases, Basics, Handles, Gripped, host.active.phase = "active",
         Open(bridge[host.current]), host.current \in Main, Closing(host.current)
  PROVE  host'.active.phase = "failed"
<1>1. PICK t \in Task : /\ Began(task[t]) /\ ~Began(task'[t])
                        /\ task[t].b = host.current /\ task[t].sgen = bridge[host.current].gen
  BY DEF Closing
<1>2. ~bridge[host.current].started
  BY <1>1 DEF Handles, RunsOK
<1>3. PICK u \in Task : Opener(u)
  BY <1>2 DEF Handles, OpenOK
<1>4. t = u
  BY <1>1, <1>3, OpenerFacts DEF Basics, ApartOK, Opener
<1> QED
  BY <1>1, <1>3, <1>4 DEF Gripped

LEMMA GrippedKeeps ==
  ASSUME Sound, Sound', Leases, Basics, Handles, Gripped
  PROVE  Handles'
<1>0. /\ \A b \in Main : /\ b \in Bridge /\ bridge[b].gen \in Nat /\ bridge[b].db \in Nat
                         /\ bridge'[b].gen \in Nat /\ bridge'[b].db \in Nat
                         /\ bridge[b].closed \in BOOLEAN /\ bridge'[b].closed \in BOOLEAN
      /\ host.active.phase # "failed" \/ host'.active = host.active
  BY DEF Sound, StoreTypes, MemoryOK, Memory, Main, Gripped
<1>1. DbOK'
  <2> SUFFICES ASSUME NEW b \in Main, bridge'[b].db > 0
               PROVE  bridge'[b].db = bridge'[b].gen /\ bridge'[b].path
    BY DEF DbOK
  <2> QED
    BY <1>0 DEF Gripped, Handles, DbOK
<1>2. RunsOK'
  <2> SUFFICES ASSUME NEW b \in Main, bridge'[b].started
               PROVE  /\ bridge'[b].db > 0
                      /\ \A t \in Task : Began(task'[t]) /\ task'[t].b = b
                           => task'[t].sgen # bridge'[b].gen
    BY DEF RunsOK
  <2>1. /\ bridge[b].started /\ bridge'[b].gen = bridge[b].gen /\ bridge[b].db > 0
        /\ \A t \in Task : Began(task[t]) /\ task[t].b = b => task[t].sgen # bridge[b].gen
    BY DEF Gripped, Handles, RunsOK
  <2>2. ~Closing(b)
    BY <2>1 DEF Closing
  <2>3. bridge[b].gen > 0
    BY <1>0, <2>1 DEF Handles, DbOK
  <2>4. bridge'[b].db > 0
    BY <1>0, <2>1, <2>2, <2>3 DEF Gripped
  <2> QED
    BY <2>1, <2>4 DEF Gripped, Same
<1>3. OpenOK'
  <2> SUFFICES ASSUME NEW b \in Main, Open(bridge'[b])
               PROVE  /\ b = host'.current
                      /\ \/ host'.active.phase = "active"
                            /\ (bridge'[b].started \/ \E t \in Task : Opener(t)')
                         \/ host'.active.phase = "stopping" /\ \E t \in Task : Stops(task'[t])
    BY DEF OpenOK
  <2>1. Open(bridge[b]) /\ ~bridge'[b].closed /\ bridge'[b].started = bridge[b].started
    BY <1>0 DEF Gripped, Open
  <2>2. b = host.current /\ host'.current = host.current
    BY <2>1 DEF Handles, OpenOK, Gripped
  <2>3. \A t \in Task : Opener(t) => Began(task'[t]) /\ Same(task[t], task'[t])
    <3> SUFFICES ASSUME NEW t \in Task, Opener(t), ~Began(task'[t]) PROVE FALSE
      BY DEF Gripped
    <3>1. task[t].b = host.current /\ task[t].sgen = bridge[host.current].gen
      BY OpenerFacts
    <3> QED
      BY <2>1, <2>2, <3>1 DEF Gripped, Opener
  <2>4. host'.active = host.active
    BY <2>3 DEF Gripped
  <2>5. CASE host.active.phase = "active" /\ bridge[b].started
    BY <2>1, <2>2, <2>4, <2>5
  <2>6. ASSUME host.active.phase = "active", NEW t \in Task, Opener(t)
        PROVE  host'.active.phase = "active" /\ Opener(t)'
    BY <2>3, <2>4, <2>6 DEF Opener, Current, IsActive, Owns, Same
  <2>7. CASE host.active.phase = "stopping" /\ \E t \in Task : Stops(task[t])
    BY <2>2, <2>4, <2>7 DEF Gripped
  <2>8. CASE host.active.phase = "active" /\ \E t \in Task : Opener(t)
    BY <2>2, <2>6, <2>8
  <2>9. \/ host.active.phase = "active" /\ (bridge[b].started \/ \E t \in Task : Opener(t))
        \/ host.active.phase = "stopping" /\ \E t \in Task : Stops(task[t])
    BY <2>1 DEF Handles, OpenOK
  <2> QED
    BY <2>5, <2>7, <2>8, <2>9
<1>4. WaitsOK'
  <2> SUFFICES ASSUME NEW u \in Task, OpensIn(task'[u])
               PROVE  LET s == bridge'[host'.current] IN
                      /\ task'[u].b = host'.current /\ s.path
                      /\ \/ host'.active.phase = "failed"
                         \/ host'.active.phase = "active" /\ Open(s) /\ task'[u].hold = s.gen
                         \/ /\ host'.active.phase = "stopping"
                            /\ \E t \in Task : /\ Stops(task'[t])
                                               /\ \/ task'[t].pc = "closefail"
                                                  \/ task'[t].pc = "fopen" /\ task'[u].hold = s.gen
    BY DEF WaitsOK, OpensIn
  <2> DEFINE b == host.current
  <2>1. ASSUME OpensIn(task[u]), task'[u].b = task[u].b, task'[u].hold = task[u].hold
        PROVE  /\ task'[u].b = b /\ b \in Main /\ bridge[b].path
               /\ \/ host.active.phase = "failed"
                  \/ host.active.phase = "active" /\ Open(bridge[b]) /\ task'[u].hold = bridge[b].gen
                  \/ /\ host.active.phase = "stopping"
                     /\ \E t \in Task : /\ Stops(task[t])
                                        /\ \/ task[t].pc = "closefail"
                                           \/ task[t].pc = "fopen" /\ task'[u].hold = bridge[b].gen
    BY <2>1 DEF Handles, WaitsOK, OpensIn
  <2>2. CASE OpensIn(task[u]) /\ task'[u].b = task[u].b /\ task'[u].hold = task[u].hold
    <3>0. /\ task'[u].b = b /\ b \in Main /\ bridge'[b].path /\ host'.current = b
          /\ bridge'[b].gen = bridge[b].gen
      BY <2>1, <2>2 DEF Gripped
    <3>1. CASE host.active.phase = "failed"
      BY <1>0, <3>0, <3>1
    <3>2. CASE host.active.phase = "active" /\ Open(bridge[b]) /\ task'[u].hold = bridge[b].gen
      <4>1. CASE host'.active.phase = "failed"
        BY <3>0, <4>1
      <4>2. CASE host'.active.phase # "failed"
        <5>1. ~Closing(b) /\ host'.active = host.active
          BY <3>0, <3>2, <4>2, ClosingOwner DEF Gripped
        <5>2. Open(bridge'[b])
          BY <1>0, <3>0, <3>2, <5>1 DEF Gripped, Open
        <5> QED
          BY <3>0, <3>2, <5>1, <5>2
      <4> QED
        BY <4>1, <4>2
    <3>3. CASE /\ host.active.phase = "stopping"
               /\ \E t \in Task : /\ Stops(task[t])
                                  /\ \/ task[t].pc = "closefail"
                                     \/ task[t].pc = "fopen" /\ task'[u].hold = bridge[b].gen
      <4>1. PICK t \in Task : /\ Stops(task[t])
                              /\ \/ task[t].pc = "closefail"
                                 \/ task[t].pc = "fopen" /\ task'[u].hold = bridge[b].gen
        BY <3>3
      <4>2. /\ host'.active.phase = "stopping" /\ Stops(task'[t])
            /\ \/ task'[t].pc = "closefail"
               \/ task'[t].pc = "fopen" /\ task'[u].hold = bridge'[b].gen
        BY <3>0, <3>3, <4>1 DEF Gripped
      <4> QED
        BY <3>0, <4>2
    <3> QED
      BY <2>1, <2>2, <3>1, <3>2, <3>3
  <2>3. CASE LET s == bridge[task'[u].b] IN
             /\ task'[u].b = host.current /\ task'[u].hold = s.gen /\ host'.active = host.active
             /\ ~s.stopped /\ ~s.closed /\ ~bridge'[task'[u].b].closed /\ s.path
    <3>1. /\ task'[u].b = b /\ b \in Main /\ bridge'[b].path /\ host'.current = b
          /\ bridge'[b].gen = bridge[b].gen /\ task'[u].hold = bridge'[b].gen
      BY <2>3 DEF Gripped, OpensIn
    <3>2. Open(bridge[b]) /\ Open(bridge'[b])
      BY <2>3, <3>1 DEF Basics, PathOK, Open
    <3>3. host.active.phase = "active"
      BY <2>3, <3>1, <3>2 DEF Handles, OpenOK, StopFlag
    <3> QED
      BY <2>3, <3>1, <3>2, <3>3
  <2> QED
    BY <2>2, <2>3 DEF Gripped
<1>5. StopFlag'
  <2> SUFFICES ASSUME host'.active.phase = "stopping" PROVE bridge'[host'.current].stopped
    BY DEF StopFlag
  <2>1. host.active.phase = "stopping" /\ host'.current = host.current
    BY DEF Gripped
  <2>2. host.current \in Main
    BY <2>1 DEF Sound, HostOK, Based, Living
  <2> QED
    BY <2>1, <2>2 DEF Gripped, Handles, StopFlag
<1>6. GoingOK'
  <2> SUFFICES ASSUME NEW t \in Task, Opener(t)'
               PROVE  LET s == bridge'[host'.current] IN
                      /\ ~s.closed /\ (task'[t].pc # "prepare" => task'[t].hold = s.gen)
                      /\ task'[t].pc \notin {"prepare", "open"} => s.db > 0
    BY DEF GoingOK
  <2> DEFINE b == host.current
             s == bridge[b]
             r == bridge'[b]
             c == task[t]
             d == task'[t]
  <2>1. Began(d) /\ Began(c) /\ Same(c, d) /\ host'.active.phase = "active" /\ host'.current = b
    BY DEF Gripped, Opener, Current, IsActive
  <2>2. host'.active = host.active /\ Opener(t)
    BY <2>1 DEF Gripped, Opener, Current, IsActive, Owns, Same
  <2>3. c.b = b /\ c.sgen = s.gen /\ b \in Main
    BY <2>2, OpenerFacts
  <2>4. Moves(c, d, s, r) /\ r.gen = s.gen
    BY <2>1, <2>3 DEF Gripped
  <2>5. /\ ~s.closed /\ (c.pc # "prepare" => c.hold = s.gen)
        /\ c.pc \notin {"prepare", "open"} => s.db > 0
    BY <2>2 DEF Handles, GoingOK
  <2>6. ~Closing(b)
    BY <2>1, <2>3 DEF Closing, Basics, ApartOK
  <2>7. ~r.closed /\ r.db \in {s.db, s.gen}
    BY <2>3, <2>5, <2>6 DEF Gripped
  <2>8. s.gen > 0 /\ (s.db > 0 => s.db = s.gen)
    BY <1>0, <2>1, <2>3 DEF Basics, GensOK, Handles, DbOK
  <2>9. d.pc # "prepare" => d.hold = r.gen
    BY <1>0, <2>3, <2>4, <2>5, <2>8 DEF Moves, Usable
  <2>10. d.pc \notin {"prepare", "open"} => r.db > 0
    BY <1>0, <2>3, <2>4, <2>5, <2>7, <2>8 DEF Moves, Usable
  <2> QED
    BY <2>1, <2>7, <2>9, <2>10
<1> QED
  BY <1>1, <1>2, <1>3, <1>4, <1>5, <1>6 DEF Handles

-----------------------------------------------------------------------------
(* One call, one bridge.                                                   *)

Mild == Plain /\ (Handles => Gripped)

LEMMA MildKeeps ==
  ASSUME Sound, Sound', Basics, Mild
  PROVE  Basics' /\ (Leases /\ Handles => Handles')
BY PlainKeeps, GrippedKeeps DEF Mild

(* What happens to the bridges, b the only one that changes.               *)
Sedate(b) ==
  /\ \A a \in Bridge \ {b} : bridge'[a] = bridge[a]
  /\ LET s == bridge[b]
         r == bridge'[b]
     IN /\ r.gen = s.gen /\ r.started = s.started /\ (s.path => r.path)
        /\ r.path => s.path \/ \E t \in Task : Began(task[t]) /\ task[t].b = b
        /\ r.q = s.q \/ Built(b)
        /\ s.stopped => r.stopped \/ host.active.phase # "stopping"
        /\ \/ r.closed = s.closed /\ r.db = s.db
           \/ ~r.closed /\ ~s.closed /\ r.db = s.gen /\ disk'.ok /\ (Handles => s.path \/ b = Foreign)
           \/ r.closed /\ r.db = 0 /\ Closing(b)

(* What happens to call t.                                                 *)
Steps(t) ==
  LET c == task[t]
      d == task'[t]
  IN \/ /\ Began(c) /\ Began(d) /\ Same(c, d) /\ d.pc # "fopen"
        /\ Moves(c, d, bridge[c.b], bridge'[c.b])
        /\ d.pc # "prepare" => c.pc # "prepare" \/ bridge'[c.b].path
     \/ /\ Began(c) /\ d = NoTask /\ (c.sgen = bridge[c.b].gen => bridge'[c.b].closed)
        /\ Current(c) => host'.active.phase = "failed"
     \/ /\ ~Began(c) /\ ~Stops(c) /\ d = NoTask
     \/ /\ ~Began(c) /\ ~Stops(c) /\ d.kind = "save" /\ d.pc = "fwrite"
        /\ d.b \in {c.b, Foreign, host.current}
     \/ LET s == bridge[d.b] IN
        /\ c.kind = "idle" /\ d.kind = "save" /\ d.pc = "fopen" /\ d.b \in {Foreign, host.current}
        /\ d.b \in Main => d.hold = s.gen /\ ~s.stopped /\ ~s.closed /\ s.path
                           /\ ~bridge'[d.b].closed
     \/ /\ Stops(c) /\ Same(c, d) /\ d.pc # "fopen"
        /\ c.pc \in {"fopen", "closefail"} /\ Handles =>
             d.pc = "closefail" \/ \A v \in Task : ~OpensIn(task'[v])
     \/ /\ ~Began(c) /\ ~Stops(c) /\ ~Began(d) /\ ~Stops(d) /\ d.pc # "fopen"
        /\ d.b \in {c.b, 0, Foreign, host.current}

SameHost ==
  /\ host'.current = host.current /\ host'.made = host.made
  /\ \/ host'.active = host.active
     \/ host.active.phase = "active" /\ host'.active.phase = "failed"
        /\ \E t \in Task : Opener(t) /\ ~Began(task'[t])

LEMMA MildTurn ==
  ASSUME Sound, Basics, NEW t \in Task, NEW b \in Bridge, Sedate(b), Rest(t), Steps(t), SameHost,
         disk.ok => disk'.ok
  PROVE  Mild
<1> DEFINE c == task[t]
           d == task'[t]
<1>0. /\ NoTask.kind = "idle" /\ NoTask.pc = "idle" /\ NoTask.b = 0
      /\ c.kind = "idle" => c.pc = "idle"
      /\ 0 \notin Bridge
  BY ServiceAssumption DEF NoTask, Sound, CallsOK, CallOK
<1>1. /\ Began(d) => /\ Began(c) /\ Same(c, d) /\ Moves(c, d, bridge[c.b], bridge'[c.b])
                     /\ d.pc # "fopen"
                     /\ d.pc # "prepare" => c.pc # "prepare" \/ bridge'[c.b].path
      /\ Began(c) /\ ~Began(d) =>
           /\ c.sgen = bridge[c.b].gen => bridge'[c.b].closed
           /\ Current(c) => host'.active.phase = "failed"
      /\ Stops(d) => Stops(c) /\ d.b = c.b
      /\ Stops(c) => Stops(d)
      /\ d.b \in {c.b, 0, Foreign, host.current}
      /\ Starts(d) => d.pc # "fopen"
  BY <1>0 DEF Steps, Began, Starts, Stops, Inside, Same
<1>2. \A u \in Task \ {t} : LET x == task[u]
                                y == task'[u]
                            IN /\ Began(y) <=> Began(x)
                               /\ Stops(y) <=> Stops(x)
                               /\ Starts(y) <=> Starts(x)
                               /\ Same(x, y) /\ y.pc = x.pc /\ y.hold = x.hold /\ y.b = x.b
  BY DEF Rest, Same, Began, Stops, Starts, Inside
<1>3. Plain
  <2>1. \A a \in Bridge :
          /\ bridge'[a].gen >= bridge[a].gen
          /\ bridge[a].path => bridge'[a].path
          /\ bridge'[a].path => bridge[a].path \/ \E u \in Task : Began(task[u]) /\ task[u].b = a
          /\ bridge'[a].q = bridge[a].q \/ Built(a)
          /\ bridge'[a].db > 0 => bridge[a].db > 0 \/ disk'.ok
    <3>1. \A a \in Bridge : bridge[a].gen \in Nat /\ bridge[a].db \in Nat
      BY DEF Sound, StoreTypes, MemoryOK, Memory
    <3> QED
      BY <3>1 DEF Sedate
  <2>2. ASSUME NEW u \in Task
        PROVE  /\ Began(task'[u]) =>
                    /\ Began(task[u]) /\ Same(task[u], task'[u])
                    /\ task'[u].pc # "prepare" => task[u].pc # "prepare" \/ bridge'[task[u].b].path
               /\ Stops(task'[u]) =>
                    \/ task'[u].b = host'.current
                    \/ Stops(task[u]) /\ task'[u].b = task[u].b /\ host'.current = host.current
               /\ task'[u].pc = "fopen" /\ Starts(task'[u]) => task[u].pc = "fopen" /\ Starts(task[u])
               /\ task'[u].b \in {task[u].b, 0, Foreign, host.current, host'.current}
    <3>1. CASE u = t
      BY <1>1, <3>1 DEF SameHost
    <3>2. CASE u # t
      BY <1>2, <3>2 DEF SameHost
    <3> QED
      BY <3>1, <3>2
  <2>3. Building(host, host')
    BY DEF Building, SameHost
  <2> QED
    BY <2>1, <2>2, <2>3 DEF Plain
<1>4. ASSUME Handles PROVE Gripped
  <2>1. ASSUME NEW a \in Main
        PROVE  LET s == bridge[a]
                   r == bridge'[a]
               IN /\ r.gen = s.gen /\ r.started = s.started /\ (s.path => r.path)
                  /\ \/ r.closed = s.closed /\ r.db = s.db
                     \/ ~r.closed /\ ~s.closed /\ s.path /\ r.db = s.gen
                     \/ r.closed /\ r.db = 0 /\ Closing(a)
                  /\ host.active.phase = "stopping" /\ s.stopped => r.stopped
    BY <1>4 DEF Sedate, Main
  <2>2. ASSUME NEW u \in Task
        PROVE  LET x == task[u]
                   y == task'[u]
               IN /\ Began(y) => Began(x) /\ Same(x, y) /\ Moves(x, y, bridge[x.b], bridge'[x.b])
                  /\ Began(x) /\ ~Began(y) /\ x.sgen = bridge[x.b].gen => bridge'[x.b].closed
                  /\ Opener(u) /\ ~Began(y) => host'.active.phase = "failed"
                  /\ Stops(x) => Stops(y)
    <3>1. CASE u = t
      BY <1>1, <3>1 DEF Opener
    <3>2. CASE u # t
      BY <1>2, <3>2 DEF Opener, Moves
    <3> QED
      BY <3>1, <3>2
  <2>3. ASSUME NEW u \in Task, Stops(task[u]), task[u].pc \in {"fopen", "closefail"}
        PROVE  \/ task'[u].pc = task[u].pc \/ task'[u].pc = "closefail"
               \/ \A v \in Task : ~OpensIn(task'[v])
    <3>1. CASE u = t
      <4>1. ~Began(c) /\ c.kind # "idle"
        BY <2>3, <3>1 DEF Began, Starts, Stops
      <4> QED
        BY <1>4, <2>3, <3>1, <4>1 DEF Steps
    <3>2. CASE u # t
      BY <1>2, <3>2
    <3> QED
      BY <3>1, <3>2
  <2>4. ASSUME NEW u \in Task, OpensIn(task'[u])
        PROVE  \/ OpensIn(task[u]) /\ task'[u].b = task[u].b /\ task'[u].hold = task[u].hold
               \/ LET s == bridge[task'[u].b] IN
                  /\ task'[u].b = host.current /\ task'[u].hold = s.gen /\ host'.active = host.active
                  /\ ~s.stopped /\ ~s.closed /\ ~bridge'[task'[u].b].closed /\ s.path
    <3>1. CASE u # t
      BY <1>2, <2>4, <3>1 DEF OpensIn
    <3>2. CASE u = t
      <4>1. /\ c.kind = "idle" /\ d.b = host.current
            /\ LET s == bridge[d.b] IN d.hold = s.gen /\ ~s.stopped /\ ~s.closed /\ s.path
            /\ ~bridge'[d.b].closed
        BY <1>0, <1>1, <2>4, <3>2 DEF Steps, OpensIn, Main
      <4>2. ~Began(c)
        BY <4>1 DEF Began, Starts
      <4>3. \A w \in Task : Opener(w) => Began(task'[w])
        <5>1. \A w \in Task \ {t} : Opener(w) => Began(task'[w])
          BY <1>2 DEF Opener
        <5> QED
          BY <4>2, <5>1 DEF Opener
      <4>4. host'.active = host.active
        BY <4>3 DEF SameHost
      <4> QED
        BY <3>2, <4>1, <4>4
    <3> QED
      BY <3>1, <3>2
  <2> QED
    BY <2>1, <2>2, <2>3, <2>4 DEF Gripped, SameHost
<1> QED
  BY <1>3, <1>4 DEF Mild

(* No call moves.                                                          *)
LEMMA MildStill ==
  ASSUME Sound, Basics, task' = task, host'.current = host.current, host'.made = host.made,
         host'.active = host.active, disk.ok => disk'.ok \/ \A b \in Bridge : bridge[b].db = 0,
         \A b \in Bridge : LET s == bridge[b]
                               r == bridge'[b]
                           IN /\ r.gen = s.gen /\ r.started = s.started /\ r.path = s.path
                              /\ r.q = s.q \/ Built(b)
                              /\ r.closed = s.closed /\ r.db = s.db /\ r.stopped = s.stopped
  PROVE  Mild
<1>1. \A b \in Bridge : bridge[b].gen \in Nat /\ bridge[b].db \in Nat
  BY DEF Sound, StoreTypes, MemoryOK, Memory
<1>2. Plain
  <2>1. Building(host, host')
    BY DEF Building
  <2>2. disk.ok => disk'.ok \/ \A b \in Bridge : bridge[b].db = 0 /\ bridge'[b].db = 0
    OBVIOUS
  <2>3. \A b \in Bridge :
          /\ bridge'[b].gen >= bridge[b].gen
          /\ bridge[b].path => bridge'[b].path
          /\ bridge'[b].path => bridge[b].path
          /\ bridge'[b].q = bridge[b].q \/ Built(b)
          /\ bridge'[b].db > 0 => bridge[b].db > 0
    BY <1>1
  <2>4. \A u \in Task : /\ task'[u] = task[u] /\ Same(task[u], task'[u])
                        /\ Stops(task[u]) /\ task'[u].b = task[u].b => task'[u].b = host.current
    BY DEF Same, Basics, StopsOK
  <2> QED
    BY <2>1, <2>2, <2>3, <2>4 DEF Plain
<1>3. Gripped
  BY DEF Gripped, Main, Same, Moves, Opener, OpensIn
<1> QED
  BY <1>2, <1>3 DEF Mild

-----------------------------------------------------------------------------
(* Which bridges are built.                                                *)

Sited(h, k) == DOMAIN k = DOMAIN h /\ k.made = h.made /\ k.current = h.current
Fielded(h) == {"made", "current", "active", "decl"} \subseteq DOMAIN h

LEMMA ShapeComplete == ASSUME NEW h, HostShape(h) PROVE Fielded(h)
BY DEF HostShape, Fielded

LEMMA ProbeSited ==
  ASSUME NEW h, Fielded(h), NEW r, NEW g, NEW running, NEW late
  PROVE  LET k == Probe(h, r, g, running, late) IN
         Sited(h, k) /\ k.active = h.active
BY DEF Probe, Sited, Fielded

LEMMA ObservationSited ==
  ASSUME NEW h, Fielded(h), NEW r, NEW g, NEW reset, NEW running
  PROVE  LET k == StartObservation(h, r, g, reset, running) IN
         Sited(h, k) /\ k.active = h.active
<1> DEFINE f == [h EXCEPT !.decl[r].obs = "awaiting"]
<1>1. Fielded(f) /\ Sited(h, f) /\ f.active = h.active
  BY DEF Fielded, Sited
<1> HIDE DEF f
<1>2. PICK no : no = FALSE
  OBVIOUS
<1>3. Sited(f, Probe(f, r, g, running, no)) /\ Probe(f, r, g, running, no).active = f.active
  BY <1>1, ProbeSited
<1>4. Sited(h, Probe(f, r, g, running, FALSE)) /\ Probe(f, r, g, running, FALSE).active = h.active
  BY <1>1, <1>2, <1>3 DEF Sited
<1>5. StartObservation(h, r, g, reset, running) \in {h, Probe(f, r, g, running, FALSE)}
  BY DEF StartObservation, f
<1> QED
  BY <1>4, <1>5 DEF Sited

LEMMA ResumedSited ==
  ASSUME NEW h, Fielded(h), NEW r, NEW g, NEW running
  PROVE  Sited(h, Resumed(h, r, g, running))
<1> DEFINE f == [h EXCEPT !.decl[r].state = "active"]
<1>1. Fielded(f) /\ Sited(h, f)
  BY DEF Fielded, Sited
<1> HIDE DEF f
<1>2. PICK no : no = FALSE
  OBVIOUS
<1>3. Sited(f, StartObservation(f, r, g, no, running))
  BY <1>1, ObservationSited
<1> QED
  BY <1>1, <1>2, <1>3 DEF Sited, Resumed, f

LEMMA ReactivatedSited ==
  ASSUME NEW h, Fielded(h), h.current \in Main, NEW r, NEW g, NEW running
  PROVE  Sited(h, Reactivated(h, r, g, running))
<1> DEFINE f == [h EXCEPT !.active.phase = "active", !.decl[r].state = "active"]
<1>1. Fielded(f) /\ Sited(h, f)
  BY DEF Fielded, Sited
<1>2. f.current # 0
  BY <1>1, ServiceAssumption DEF Sited, Main
<1> HIDE DEF f
<1>3. Adopt(f, "reuse") = f
  BY <1>2 DEF Adopt, Builds
<1>4. PICK yes : yes = TRUE
  OBVIOUS
<1>5. Sited(f, StartObservation(f, r, g, yes, running))
  BY <1>1, ObservationSited
<1> QED
  BY <1>1, <1>3, <1>4, <1>5 DEF Sited, Reactivated, f

LEMMA FailedSited ==
  ASSUME NEW h, Fielded(h), NEW r, NEW g
  PROVE  Sited(h, FailedStart(h, r, g))
BY DEF FailedStart, Sited, Fielded

LEMMA AdoptBuilds ==
  ASSUME NEW h, Fielded(h), h.made \in Nat, NEW mode, CanBuild(h, mode)
  PROVE  LET k == Adopt(h, mode) IN
         /\ DOMAIN k = DOMAIN h
         /\ \/ ~Builds(h, mode) /\ k.made = h.made /\ k.current = h.current
            \/ /\ Builds(h, mode) /\ h.made < Len(Pool)
               /\ k.made = h.made + 1 /\ k.current = Pool[k.made]
BY DEF Adopt, CanBuild, Fielded

LEMMA ActivatedBuilds ==
  ASSUME NEW h, HostShape(h), NEW r, NEW g, NEW mode, NEW running, CanBuild(h, mode)
  PROVE  Building(h, Activated(h, r, g, mode, running))
<1> DEFINE f == [h EXCEPT !.active = h.pending, !.pending = NoOwner, !.retire = "none",
                          !.decl[r].state = "active"]
           k == Adopt(f, mode)
<1>1. Fielded(f) /\ f.made = h.made /\ f.current = h.current /\ f.made \in Nat
  BY DEF HostShape, Fielded
<1> HIDE DEF f
<1>2. CanBuild(f, mode)
  BY <1>1 DEF CanBuild, Builds
<1>3. Building(h, k) /\ Fielded(k)
  BY <1>1, <1>2, AdoptBuilds DEF Building, Fielded
<1> HIDE DEF k
<1>4. PICK yes : yes = TRUE
  OBVIOUS
<1>5. Sited(k, StartObservation(k, r, g, yes, running))
  BY <1>3, ObservationSited
<1>6. Sited(k, Activated(h, r, g, mode, running))
  BY <1>4, <1>5 DEF Activated, k, f
<1> QED
  BY <1>3, <1>6 DEF Sited, Building

LEMMA ActivationSited ==
  ASSUME NEW h, HostShape(h), NEW r
  PROVE  Sited(h, ActivationFailed(h, r))
BY DEF HostShape, ActivationFailed, Sited

LEMMA SettledSited ==
  ASSUME NEW h, HostShape(h), NEW r, NEW ok
  PROVE  Sited(h, Settled(h, r, ok))
BY DEF HostShape, Settled, Sited

LEMMA RetiringSited ==
  ASSUME NEW h, HostShape(h), NEW r
  PROVE  Sited(h, Retiring(h, r)) /\ Retiring(h, r).active = [h.active EXCEPT !.phase = "stopping"]
BY DEF HostShape, Retiring, Sited

-----------------------------------------------------------------------------
(* Who else a step moves.                                                  *)

LEMMA RestOne ==
  ASSUME Sound, NEW t \in Task, NEW x, task' = [task EXCEPT ![t] = x]
  PROVE  Rest(t) /\ task'[t] = x
BY DEF Sound, StoreTypes, TasksOK, Rest, Same

LEMMA RestSuperseded ==
  ASSUME Sound, NEW t \in Task, NEW x, task' = Superseded(t, x)
  PROVE  Rest(t) /\ task'[t] = x
<1>1. task'[t] = x /\ \A u \in Task \ {t} :
        task'[u] = task[u] \/ task'[u] = [task[u] EXCEPT !.newer = @ \ {t}, !.stale = TRUE]
  BY DEF Superseded
<1>2. \A u \in Task : task[u] \in Call(clock)
  BY DEF Sound, StoreTypes, TasksOK
<1>3. \A u \in Task : LET y == [task[u] EXCEPT !.newer = @ \ {t}, !.stale = TRUE] IN
        /\ Same(task[u], y) /\ y.pc = task[u].pc /\ y.hold = task[u].hold /\ y.data = task[u].data
  BY <1>2 DEF Call, Same
<1>4. ASSUME NEW u \in Task \ {t}
      PROVE  /\ Same(task[u], task'[u]) /\ task'[u].pc = task[u].pc
             /\ task'[u].hold = task[u].hold /\ task'[u].data = task[u].data
  <2>1. CASE task'[u] = task[u]
    BY <2>1 DEF Same
  <2>2. CASE task'[u] = [task[u] EXCEPT !.newer = @ \ {t}, !.stale = TRUE]
    BY <1>3, <2>2
  <2> QED
    BY <1>1, <2>1, <2>2
<1> QED
  BY <1>1, <1>4 DEF Rest

Writer(b, c, d) == Same(c, d) /\ d.pc = "fwrite" /\ d.data = bridge[b].q /\ d.stale = FALSE /\ d.newer = {}
                   /\ d.hold = c.hold

LEMMA RestSnapshots ==
  ASSUME Sound, NEW t \in Task, NEW rec \in Call(clock), NEW hasDb, NEW d, NEW next,
         Snapshots(t, rec, hasDb, d, next)
  PROVE  /\ Rest(t)
         /\ task'[t] = Goes(rec, next) \/ (Writer(rec.b, rec, task'[t]) /\ bridge[rec.b].path)
<1> DEFINE b == rec.b
           dual == hasDb /\ Dual(d)
           saved == IF dual THEN SavedToSqlite(d, b) ELSE d
           writes == bridge[b].path /\ ~(hasDb /\ d.mode = "sqlite")
           times == IF dual THEN saved.scenes ELSE bridge[b].scenes
           writer == [rec EXCEPT !.pc = "fwrite", !.data = bridge[b].q, !.newer = {}, !.stale = FALSE,
                                 !.scenes = times]
<1>1. task' = [u \in Task |->
           CASE u = t -> IF writes THEN writer ELSE Goes(rec, next)
             [] u # t /\ task[u].pc = "fwrite" ->
                  IF writes THEN [task[u] EXCEPT !.newer = @ \cup {t}]
                  ELSE [task[u] EXCEPT !.stale = TRUE]
             [] OTHER -> task[u]]
  BY DEF Snapshots
<1> HIDE DEF times
<1>2. Writer(b, rec, writer)
  BY DEF Writer, Call, Same
<1> HIDE DEF writer
<1>3. task'[t] = Goes(rec, next) \/ (task'[t] = writer /\ bridge[b].path)
  BY <1>1
<1>4. \A u \in Task \ {t} : \/ task'[u] = task[u]
                            \/ task'[u] = [task[u] EXCEPT !.newer = @ \cup {t}]
                            \/ task'[u] = [task[u] EXCEPT !.stale = TRUE]
  BY <1>1
<1>5. \A u \in Task : task[u] \in Call(clock)
  BY DEF Sound, StoreTypes, TasksOK
<1>6. \A u \in Task :
        LET y == [task[u] EXCEPT !.newer = @ \cup {t}]
            z == [task[u] EXCEPT !.stale = TRUE]
        IN /\ Same(task[u], y) /\ y.pc = task[u].pc /\ y.hold = task[u].hold /\ y.data = task[u].data
           /\ Same(task[u], z) /\ z.pc = task[u].pc /\ z.hold = task[u].hold /\ z.data = task[u].data
  BY <1>5 DEF Call, Same
<1>7. ASSUME NEW u \in Task \ {t}
      PROVE  /\ Same(task[u], task'[u]) /\ task'[u].pc = task[u].pc
             /\ task'[u].hold = task[u].hold /\ task'[u].data = task[u].data
  <2>1. CASE task'[u] = task[u]
    BY <2>1 DEF Same
  <2>2. CASE task'[u] = [task[u] EXCEPT !.newer = @ \cup {t}]
    BY <1>6, <2>2
  <2>3. CASE task'[u] = [task[u] EXCEPT !.stale = TRUE]
    BY <1>6, <2>3
  <2> QED
    BY <1>4, <2>1, <2>2, <2>3
<1>8. Rest(t)
  BY <1>7 DEF Rest
<1> QED
  BY <1>2, <1>3, <1>8

-----------------------------------------------------------------------------
(* Steps of a start.                                                       *)

Tame(r, s) ==
  /\ DOMAIN r = DOMAIN s /\ r.gen = s.gen /\ r.closed = s.closed /\ r.db = s.db
  /\ r.started = s.started /\ (s.path => r.path)
  /\ s.stopped => r.stopped \/ host.active.phase # "stopping"

LEMMA BridgeFacts ==
  ASSUME Sound, NEW b \in Bridge
  PROVE  /\ bridge[b] \in Memory(clock) /\ HandleOK(bridge[b])
         /\ bridge \in [Bridge -> Memory(clock)]
         /\ bridge[b].gen \in Nat /\ bridge[b].db \in Nat
         /\ {"gen", "closed", "db", "path", "stopped", "started", "chan", "timer", "q", "loaded"}
              \subseteq DOMAIN bridge[b]
         /\ Tame(bridge[b], bridge[b])
BY DEF Sound, StoreTypes, MemoryOK, Memory, Tame

LEMMA StartOver ==
  ASSUME Sound, Basics, NEW t \in Task, Began(task[t]), NEW s, Tame(s, bridge[task[t].b]),
         bridge' = [bridge EXCEPT ![task[t].b] = CloseGeneration(s, task[t].sgen)],
         Rest(t), task'[t] = NoTask,
         \/ host' = FailedStart(host, task[t].reg, task[t].gen)
         \/ host' = host /\ ~Current(task[t]),
         disk.ok => disk'.ok
  PROVE  Mild
<1> DEFINE c == task[t]
           b == c.b
           r == CloseGeneration(s, c.sgen)
<1>1. /\ b \in Bridge /\ c.reg \in Reg /\ ~Began(task'[t]) /\ HostOK(host) /\ Fielded(host)
  BY BeganFacts, ShapeComplete DEF Began, Starts, NoTask, Sound, HostOK
<1>2. /\ host'.active = host.active \/ (IsActive(host, c.reg, c.gen) /\ host'.active.phase = "failed")
      /\ IsActive(host, c.reg, c.gen) => host'.active.phase = "failed"
      /\ Sited(host, host')
  BY <1>1, FailedStartOK, FailedSited DEF Current, Sited
<1>3. SameHost
  BY <1>1, <1>2 DEF SameHost, Sited, Opener, Current, IsActive
<1>4. /\ bridge'[b] = r /\ \A a \in Bridge \ {b} : bridge'[a] = bridge[a]
      /\ r.gen = s.gen /\ r.started = s.started /\ r.path = s.path
      /\ r.stopped = s.stopped
      /\ \/ r.closed = s.closed /\ r.db = s.db /\ c.sgen # s.gen
         \/ r.closed /\ r.db = 0 /\ c.sgen = s.gen
  BY <1>1, BridgeFacts DEF CloseGeneration, Tame
<1> HIDE DEF r
<1>5. c.sgen = bridge[b].gen => Closing(b)
  BY <1>1 DEF Closing
<1>6. Sedate(b)
  BY <1>4, <1>5 DEF Sedate, Tame, Built
<1>7. Steps(t)
  BY <1>1, <1>2, <1>4 DEF Steps, Tame, Current
<1> QED
  BY <1>1, <1>3, <1>6, <1>7, MildTurn

LEMMA StartOnward ==
  ASSUME Sound, Basics, NEW t \in Task, Began(task[t]), NEW s,
         LET r == bridge[task[t].b] IN
         \/ Tame(s, r)
         \/ s = [r EXCEPT !.db = r.gen] /\ ~r.closed /\ disk'.ok /\ task[t].pc # "prepare",
         bridge' = [bridge EXCEPT ![task[t].b] = s],
         Rest(t), NEW x, task'[t] = x, Same(task[t], x), x.pc \in Further \cup {"fwrite"},
         Moves(task[t], x, bridge[task[t].b], s),
         x.pc # "prepare" => task[t].pc # "prepare" \/ s.path,
         host' = host, disk.ok => disk'.ok
  PROVE  Mild
<1> DEFINE c == task[t]
           b == c.b
<1>1. b \in Bridge /\ Began(x) /\ x.pc # "fopen"
  BY BeganFacts DEF Began, Starts, Inside, Same, Further
<1>2. SameHost
  BY DEF SameHost
<1>3. bridge'[b] = s /\ \A a \in Bridge \ {b} : bridge'[a] = bridge[a]
  BY <1>1, BridgeFacts
<1>4. task[t].pc # "prepare" => bridge[b].path
  BY DEF Basics, PathOK
<1>5. Sedate(b)
  <2>1. CASE Tame(s, bridge[b])
    BY <1>3, <2>1 DEF Sedate, Tame, Built
  <2>2. CASE s = [bridge[b] EXCEPT !.db = bridge[b].gen] /\ ~bridge[b].closed /\ disk'.ok
             /\ c.pc # "prepare"
    <3>1. /\ s.gen = bridge[b].gen /\ s.started = bridge[b].started /\ s.path = bridge[b].path
          /\ s.q = bridge[b].q /\ s.stopped = bridge[b].stopped /\ s.closed = bridge[b].closed
          /\ s.db = bridge[b].gen
      BY <1>1, <2>2, BridgeFacts
    <3> QED
      BY <1>3, <1>4, <2>2, <3>1 DEF Sedate
  <2> QED
    BY <2>1, <2>2
<1>6. Steps(t)
  BY <1>1, <1>3 DEF Steps
<1> QED
  BY <1>1, <1>2, <1>5, <1>6, MildTurn

LEMMA GoesOnMild ==
  ASSUME Sound, Basics, NEW t \in Task, Began(task[t]), task[t].pc \notin {"prepare", "open"},
         NEW s, Tame(s, bridge[task[t].b]), NEW next \in Further \ {"prepare", "open"},
         GoesOn(t, s, next), disk.ok => disk'.ok
  PROVE  Mild
<1>1. CASE Current(task[t])
  <2> DEFINE x == [task[t] EXCEPT !.pc = next]
  <2>1. bridge' = [bridge EXCEPT ![task[t].b] = s] /\ host' = host /\ task' = [task EXCEPT ![t] = x]
    BY <1>1 DEF GoesOn, Sound, StoreTypes, TasksOK
  <2>2. Same(task[t], x) /\ x.pc = next /\ x.hold = task[t].hold
    BY BeganFacts, InsideCall DEF Same, Call
  <2> HIDE DEF x
  <2>3. Rest(t) /\ task'[t] = x
    BY <2>1, RestOne
  <2>4. Moves(task[t], x, bridge[task[t].b], s)
    BY <2>2 DEF Moves
  <2> QED
    BY <2>1, <2>2, <2>3, <2>4, StartOnward
<1>2. CASE ~Current(task[t])
  <2>1. /\ bridge' = [bridge EXCEPT ![task[t].b] = CloseGeneration(s, task[t].sgen)]
        /\ host' = host /\ task' = [task EXCEPT ![t] = NoTask]
    BY <1>2 DEF GoesOn
  <2>2. Rest(t) /\ task'[t] = NoTask
    BY <2>1, RestOne
  <2> QED
    BY <1>2, <2>1, <2>2, StartOver
<1> QED
  BY <1>1, <1>2

LEMMA ThrowsMild ==
  ASSUME Sound, Basics, NEW t \in Task, Began(task[t]),
         (GivesUp(t) /\ ~Current(task[t])) \/ \E stops \in BOOLEAN : Throws(t, stops),
         disk.ok => disk'.ok
  PROVE  Mild
<1> DEFINE b == task[t].b
<1>1. b \in Bridge /\ bridge[b] \in Memory(clock) /\ Tame(bridge[b], bridge[b])
      /\ bridge \in [Bridge -> Memory(clock)]
  BY BeganFacts, BridgeFacts
<1>2. CASE GivesUp(t) /\ ~Current(task[t])
  <2>1. /\ bridge' = [bridge EXCEPT ![b] = CloseGeneration(bridge[b], task[t].sgen)]
        /\ host' = host /\ task' = [task EXCEPT ![t] = NoTask]
    BY <1>1, <1>2 DEF GivesUp
  <2>2. Rest(t) /\ task'[t] = NoTask
    BY <2>1, RestOne
  <2> QED
    BY <1>1, <1>2, <2>1, <2>2, StartOver
<1>3. ASSUME NEW stops \in BOOLEAN, Throws(t, stops) PROVE Mild
  <2> DEFINE s == [bridge[b] EXCEPT !.stopped = @ \/ stops]
  <2>1. Tame(s, bridge[b])
    BY <1>1, BridgeFacts DEF Tame
  <2>2. /\ bridge' = [bridge EXCEPT ![b] = CloseGeneration(s, task[t].sgen)]
        /\ host' = FailedStart(host, task[t].reg, task[t].gen)
        /\ task' = [task EXCEPT ![t] = NoTask]
    BY <1>3 DEF Throws, Breaks
  <2> HIDE DEF s
  <2>3. Rest(t) /\ task'[t] = NoTask
    BY <2>2, RestOne
  <2> QED
    BY <2>1, <2>2, <2>3, StartOver
<1> QED
  BY <1>2, <1>3

LEMMA FurtherBegan ==
  ASSUME Sound, NEW t \in Task, task[t].pc \in Further
  PROVE  /\ Began(task[t]) /\ task[t].b \in Bridge /\ task[t] \in Call(clock)
         /\ bridge[task[t].b] \in Memory(clock) /\ Tame(bridge[task[t].b], bridge[task[t].b])
         /\ bridge \in [Bridge -> Memory(clock)] /\ task \in [Task -> Call(clock)]
BY StartFacts, BridgeFacts DEF Began, Sound, StoreTypes, TasksOK, MemoryOK

LEMMA PreparesMild == ASSUME Sound, Basics, NEW t \in Task, Prepares(t) PROVE Mild
<1> DEFINE c == task[t]
           b == c.b
           s == [bridge[b] EXCEPT !.path = TRUE]
           h == IF s.db > 0 THEN s.db ELSE s.gen
           x == [c EXCEPT !.pc = "open", !.hold = h]
<1>1. c.pc = "prepare" /\ Began(c)
  BY FurtherBegan DEF Prepares, Further
<1>2. b \in Bridge /\ Tame(s, bridge[b]) /\ s.path /\ s.db = bridge[b].db /\ s.gen = bridge[b].gen
      /\ c \in Call(clock) /\ disk \in Directory(clock)
  BY <1>1, FurtherBegan, BridgeFacts DEF Tame, Further, Sound, StoreTypes, DiskOK
<1>3. /\ Same(c, x) /\ x.pc = "open" /\ x.hold = h /\ h = IF bridge[b].db > 0 THEN bridge[b].db ELSE bridge[b].gen
  BY <1>2 DEF Same, Call
<1>4. CASE Spend("fails") /\ Throws(t, FALSE) /\ UNCHANGED <<disk, ghost>>
  BY <1>1, <1>4, ThrowsMild
<1>5. CASE disk' = Migrated(disk) /\ Current(c)
           /\ bridge' = [bridge EXCEPT ![b] = s] /\ task' = [task EXCEPT ![t] = x] /\ host' = host
  <2> HIDE DEF x
  <2>1. Rest(t) /\ task'[t] = x
    BY <1>5, RestOne
  <2>2. disk'.ok = disk.ok
    BY <1>2, <1>5 DEF Migrated, Directory
  <2>3. Moves(c, x, bridge[b], s)
    BY <1>1, <1>3 DEF Moves
  <2> HIDE DEF s, h
  <2> QED
    BY <1>1, <1>2, <1>3, <1>5, <2>1, <2>2, <2>3, StartOnward DEF Further
<1>6. CASE disk' = Migrated(disk) /\ ~Current(c) /\ GivesUp(t)
  <2>2. disk'.ok = disk.ok
    BY <1>2, <1>6 DEF Migrated, Directory
  <2> QED
    BY <1>1, <1>6, <2>2, ThrowsMild
<1>7. \/ disk' = Migrated(disk)
         /\ IF Current(c) THEN bridge' = [bridge EXCEPT ![b] = s] /\ task' = [task EXCEPT ![t] = x] /\ host' = host
            ELSE GivesUp(t)
      \/ Spend("fails") /\ Throws(t, FALSE) /\ UNCHANGED <<disk, ghost>>
  BY DEF Prepares
<1> QED
  BY <1>4, <1>5, <1>6, <1>7

LEMMA OpenedGood ==
  ASSUME Sound, Basics, NEW b \in Bridge, bridge[b].db > 0 \/ Opens(disk)
  PROVE  Opened(disk, b).ok
<1>1. disk \in Directory(clock) /\ bridge[b].db \in Nat
  BY BridgeFacts DEF Sound, StoreTypes, DiskOK
<1>2. CASE bridge[b].db > 0
  BY <1>2 DEF Opened, Basics, GoodDisk
<1>3. CASE ~(bridge[b].db > 0)
  <2> DEFINE r == Recovered(disk)
  <2>1. r.ok /\ "ok" \in DOMAIN r
    BY <1>1 DEF Recovered, Directory
  <2> HIDE DEF r
  <2>2. Rotated(r).ok
    BY <2>1 DEF Rotated
  <2> QED
    BY <1>3, <2>2 DEF Opened, r
<1> QED
  BY <1>2, <1>3

LEMMA OpeningMild == ASSUME Sound, Basics, NEW t \in Task, Opening(t) PROVE Mild
<1> DEFINE c == task[t]
           b == c.b
           s == bridge[b]
           usable == s.db = c.hold \/ Usable(s, c.hold)
           h == IF usable THEN c.hold ELSE 0
           x == [c EXCEPT !.pc = "read", !.hold = h]
           r == IF usable THEN [s EXCEPT !.db = c.hold] ELSE s
<1>1. c.pc = "open" /\ Began(c)
  BY FurtherBegan DEF Opening, Further
<1>2. /\ b \in Bridge /\ Tame(s, s) /\ c \in Call(clock) /\ s \in Memory(clock)
      /\ bridge \in [Bridge -> Memory(clock)] /\ task \in [Task -> Call(clock)]
  BY <1>1, FurtherBegan DEF Further
<1>3. CASE usable /\ s.db = 0 /\ ~Opens(disk)
  <2>1. Throws(t, TRUE) /\ UNCHANGED disk
    BY <1>3 DEF Opening
  <2> QED
    BY <1>1, <2>1, ThrowsMild
<1>4. CASE ~(usable /\ s.db = 0 /\ ~Opens(disk))
  <2>1. /\ bridge' = IF usable THEN [bridge EXCEPT ![b].db = c.hold] ELSE bridge
        /\ disk' = (IF usable THEN Opened(disk, b) ELSE disk) /\ host' = host
        /\ task' = [task EXCEPT ![t].pc = "read", ![t].hold = IF usable THEN @ ELSE 0]
    BY <1>4 DEF Opening
  <2>2. task' = [task EXCEPT ![t] = x]
    BY <1>2, <2>1
  <2>3. bridge' = [bridge EXCEPT ![b] = r]
    BY <1>2, <2>1
  <2>4. Same(c, x) /\ x.pc = "read" /\ x.hold = h
    BY <1>2 DEF Same, Call
  <2>5. disk'.ok = disk.ok \/ disk'.ok
    <3>1. usable => s.db > 0 \/ Opens(disk)
      BY <1>2, <1>4 DEF Memory
    <3> QED
      BY <1>2, <2>1, <3>1, OpenedGood
  <2>6. usable => disk'.ok
    BY <1>2, <1>4, <2>1, OpenedGood DEF Memory
  <2>7. s.db = c.hold => Tame(r, s)
    BY <1>2 DEF Memory, Tame
  <2>8. ~usable => Tame(r, s)
    BY <1>2 DEF Tame
  <2>9. Usable(s, c.hold) => r = [s EXCEPT !.db = s.gen] /\ ~s.closed
    BY DEF Usable
  <2>10. Moves(c, x, s, r)
    <3>1. Usable(s, c.hold) => h = c.hold /\ r.db = c.hold
      BY <1>2 DEF Memory
    <3> HIDE DEF x, r, h
    <3> QED
      BY <1>1, <2>4, <3>1 DEF Moves
  <2> HIDE DEF x, r, h
  <2>11. Rest(t) /\ task'[t] = x
    BY <2>2, RestOne
  <2>12. \/ Tame(r, s)
         \/ r = [s EXCEPT !.db = s.gen] /\ ~s.closed /\ disk'.ok /\ c.pc # "prepare"
    BY <1>1, <2>6, <2>7, <2>8, <2>9
  <2> QED
    BY <1>1, <2>1, <2>3, <2>4, <2>5, <2>10, <2>11, <2>12, StartOnward DEF Further
<1> QED
  BY <1>3, <1>4

LEMMA LoadsMild == ASSUME Sound, Basics, NEW t \in Task, Loads(t) PROVE Mild
<1> DEFINE rec == task[t]
           b == rec.b
           s == bridge[b]
           hasDb == rec.hold > 0
           closed == hasDb /\ s.db # rec.hold
           json == IF hasDb THEN JsonRead(disk, disk) ELSE IF disk.jsonAt THEN disk.json ELSE Empty
           q == LoadedQueue(disk, b, hasDb /\ ~closed, json)
           new == LoadedBridge(s, disk, hasDb /\ ~closed, q)
           stop == [new EXCEPT !.stopped = TRUE]
<1>1. rec.pc = "read" /\ Began(rec)
  BY FurtherBegan DEF Loads, Further
<1>2. b \in Bridge /\ Tame(s, s) /\ rec \in Call(clock) /\ s \in Memory(clock) /\ disk \in Directory(clock)
  BY <1>1, FurtherBegan DEF Further, Sound, StoreTypes, DiskOK
<1>3. Tame(new, s) /\ Tame(stop, s)
  BY <1>2, BridgeFacts DEF Tame, LoadedBridge
<1>4. CASE closed
  <2>1. /\ bridge' = [bridge EXCEPT ![b] = CloseGeneration(stop, rec.sgen)]
        /\ host' = FailedStart(host, rec.reg, rec.gen)
        /\ task' = [task EXCEPT ![t] = NoTask] /\ disk' = disk
    BY <1>4 DEF Loads
  <2> HIDE DEF stop, new
  <2>2. Rest(t) /\ task'[t] = NoTask
    BY <2>1, RestOne
  <2> QED
    BY <1>1, <1>3, <2>1, <2>2, StartOver
<1>5. CASE ~closed
  <2> DEFINE next == IF left.cut THEN "cut" ELSE "refresh"
  <2>1. /\ disk' = IF hasDb THEN AfterLoad(disk, b, q) ELSE disk
        /\ GoesOn(t, new, next)
    BY <1>5 DEF Loads
  <2>2. disk'.ok = disk.ok
    BY <1>2, <2>1 DEF AfterLoad, Directory
  <2>3. next \in Further \ {"prepare", "open"}
    BY DEF Further
  <2> HIDE DEF new, next
  <2> QED
    BY <1>1, <1>3, <2>1, <2>2, <2>3, GoesOnMild
<1> QED
  BY <1>4, <1>5

LEMMA CutoverMild ==
  ASSUME Sound, Basics, NEW t \in Task,
         CutoverCounts(t) \/ CutoverMoves(t) \/ CutoverEnds(t) \/ Refreshes(t)
  PROVE  Mild
<1> DEFINE c == task[t]
           b == c.b
           s == bridge[b]
<1>1. c.pc \in {"cutcheck", "cutmove", "cutmode", "refresh"} /\ Began(c)
  BY FurtherBegan DEF CutoverCounts, CutoverMoves, CutoverEnds, Refreshes, Further
<1>2. /\ b \in Bridge /\ Tame(s, s) /\ c \in Call(clock) /\ s \in Memory(clock)
      /\ bridge \in [Bridge -> Memory(clock)] /\ task \in [Task -> Call(clock)] /\ disk \in Directory(clock)
  BY <1>1, FurtherBegan DEF Further, Sound, StoreTypes, DiskOK
<1>3. CASE CutoverThrows(t)
  BY <1>1, <1>3, ThrowsMild DEF CutoverThrows
<1>4. ASSUME NEW next \in {"cutmode", "cutmove"}, task' = [task EXCEPT ![t].pc = next],
             bridge' = bridge, host' = host, disk'.ok = disk.ok
      PROVE  Mild
  <2> DEFINE x == [c EXCEPT !.pc = next]
  <2>1. task' = [task EXCEPT ![t] = x]
    BY <1>2, <1>4
  <2>2. Same(c, x) /\ x.pc = next /\ x.hold = c.hold
    BY <1>2 DEF Same, Call
  <2>3. bridge' = [bridge EXCEPT ![b] = s]
    BY <1>2, <1>4
  <2> HIDE DEF x
  <2>4. Rest(t) /\ task'[t] = x
    BY <2>1, RestOne
  <2>5. Moves(c, x, s, s)
    BY <1>1, <2>2 DEF Moves
  <2> QED
    BY <1>1, <1>2, <1>4, <2>2, <2>3, <2>4, <2>5, StartOnward DEF Further
<1>5. CASE CutoverCounts(t)
  <2>1. \/ CutoverThrows(t)
        \/ /\ task' = [task EXCEPT ![t].pc = IF disk.mode = "sqlite" THEN "cutmode" ELSE "cutmove"]
           /\ bridge' = bridge /\ host' = host /\ disk' = disk
    BY <1>5 DEF CutoverCounts, OnlyTask
  <2> QED
    BY <1>3, <1>4, <2>1
<1>6. CASE CutoverMoves(t)
  BY <1>2, <1>4, <1>6 DEF CutoverMoves, Directory
<1>7. CASE CutoverEnds(t)
  <2>1. CutoverThrows(t) \/ (disk' = [disk EXCEPT !.mode = "sqlite"] /\ GoesOn(t, s, "refresh"))
    BY <1>7 DEF CutoverEnds
  <2>2. CASE disk' = [disk EXCEPT !.mode = "sqlite"] /\ GoesOn(t, s, "refresh")
    BY <1>1, <1>2, <2>2, GoesOnMild DEF Directory, Further
  <2> QED
    BY <1>3, <2>1, <2>2
<1>8. CASE Refreshes(t)
  <2> DEFINE r == [s EXCEPT !.stopped = IF Current(c) THEN FALSE ELSE @]
  <2>1. Tame(r, s)
    BY <1>2, BridgeFacts DEF Tame, Current, IsActive
  <2>2. GoesOn(t, r, "tail") /\ disk' = disk
    BY <1>8 DEF Refreshes
  <2> HIDE DEF r
  <2> QED
    BY <1>1, <2>1, <2>2, GoesOnMild DEF Further
<1> QED
  BY <1>5, <1>6, <1>7, <1>8

-----------------------------------------------------------------------------
(* Flushes.                                                                *)

LEMMA SnapshotsDisk ==
  ASSUME NEW t, NEW rec, NEW hasDb, NEW d \in Directory(clock), NEW next,
         Snapshots(t, rec, hasDb, d, next)
  PROVE  /\ disk'.ok = d.ok /\ disk'.mode = d.mode /\ disk'.json = d.json
         /\ disk'.jsonAt = d.jsonAt /\ disk'.legacy = d.legacy /\ disk'.snaps = d.snaps
         /\ disk'.rows = IF hasDb /\ Dual(d) THEN ScopedRows(d.rows, rec.b, bridge[rec.b].q)
                                             ELSE d.rows
BY DEF Snapshots, SavedToSqlite, Directory

(* When the stop opens the database nobody else waits for it.              *)
LEMMA StopAlone ==
  ASSUME Sound, Handles, NEW t \in Task, Stops(task[t]), task[t].pc = "fopen",
         \A u \in Task : ~SameOpening(t, u)
  PROVE  \A v \in Task \ {t} : ~OpensIn(task[v])
<1> SUFFICES ASSUME NEW v \in Task \ {t}, OpensIn(task[v]) PROVE FALSE
  OBVIOUS
<1> DEFINE s == bridge[host.current]
<1>1. host.active.phase = "stopping" /\ task[t].b \in Main
  BY DEF Sound, CallsOK, CallOK, Stops
<1>2. \A u \in Task : Stops(task[u]) => u = t
  BY DEF Sound, OneStop
<1>3. \A u \in Task : OpensIn(task[u]) => task[u].b = host.current /\ task[u].hold = s.gen
  BY <1>1, <1>2 DEF Handles, WaitsOK, OpensIn
<1>4. OpensIn(task[t])
  BY <1>1 DEF OpensIn
<1> QED
  BY <1>3, <1>4 DEF SameOpening, OpensIn

LEMMA FlushOpensMild ==
  ASSUME Sound, Basics, NEW t \in Task, FlushOpens(t, AfterFlush(task[t])), host' = host
  PROVE  Mild
<1> DEFINE c == task[t]
           b == c.b
           s == bridge[b]
           next == AfterFlush(c)
           usable == Usable(s, c.hold)
           r == IF usable THEN [s EXCEPT !.db = c.hold] ELSE s
           d == IF usable THEN Opened(disk, b) ELSE disk
<1>0. c.pc = "fopen" /\ (usable => s.db > 0 \/ Opens(disk))
      /\ (Stops(c) => \A u \in Task : ~SameOpening(t, u))
  BY DEF FlushOpens, Stops
<1>1. bridge' = (IF usable THEN [bridge EXCEPT ![b].db = c.hold] ELSE bridge)
      /\ Snapshots(t, c, usable, d, next)
  BY DEF FlushOpens
<1>2. /\ b \in Bridge /\ c \in Call(clock) /\ s \in Memory(clock) /\ CallOK(c, host)
      /\ bridge \in [Bridge -> Memory(clock)] /\ disk \in Directory(clock)
      /\ c.kind \in {"stop", "save"} /\ next = AfterFlush(c) /\ ~Began(c)
  <2>1. c.kind \in {"start", "stop", "save"} /\ ~Starts(c)
    BY <1>0, FlushingCall DEF Basics, StopsOK
  <2> QED
    BY <1>0, <2>1, FlushingCall, BridgeFacts DEF Starts, Began, Sound, StoreTypes, DiskOK
<1>3. bridge' = [bridge EXCEPT ![b] = r]
  BY <1>1, <1>2
<1>4. d \in Directory(clock) /\ (disk.ok => d.ok) /\ (usable => d.ok)
  <2>1. CASE usable
    BY <1>0, <1>2, <2>1, OpenedType, OpenedGood DEF Sound, StoreTypes, DiskOK
  <2>2. CASE ~usable
    BY <1>2, <2>2
  <2> QED
    BY <2>1, <2>2
<1>5. PICK yes : yes <=> usable
  OBVIOUS
<1>6. Snapshots(t, c, yes, d, next)
  BY <1>1, <1>5 DEF Snapshots
<1>7. usable => ~s.closed /\ s.gen = c.hold /\ r = [s EXCEPT !.db = c.hold]
  BY DEF Usable
<1>8. ~usable => r = s
  OBVIOUS
<1>9. Handles => b = Foreign \/ s.path
  BY <1>0, <1>2 DEF Handles, WaitsOK, Main
<1> HIDE DEF r, d, next, usable
<1>10. disk'.ok = d.ok
  BY <1>4, <1>6, SnapshotsDisk
<1>11. /\ Rest(t)
       /\ task'[t] = Goes(c, next) \/ (Writer(b, c, task'[t]) /\ s.path)
  BY <1>2, <1>6, RestSnapshots
<1>12. Sedate(b)
  <2>1. CASE usable
    <3>1. /\ r.gen = s.gen /\ r.started = s.started /\ r.path = s.path /\ r.q = s.q
          /\ r.stopped = s.stopped /\ r.closed = s.closed /\ r.db = s.gen /\ ~s.closed
      BY <1>2, <1>7, <2>1 DEF Memory
    <3> QED
      BY <1>2, <1>3, <1>4, <1>9, <1>10, <2>1, <3>1 DEF Sedate
  <2>2. CASE ~usable
    BY <1>2, <1>3, <1>8, <2>2 DEF Sedate
  <2> QED
    BY <2>1, <2>2
<1>13. Steps(t)
  <2>1. CASE c.kind = "save"
    <3>1. Goes(c, next) = NoTask
      BY <1>2, <2>1 DEF AfterFlush, Goes
    <3> QED
      BY <1>2, <1>11, <2>1, <3>1 DEF Steps, Stops, Writer, Same
  <2>2. CASE c.kind = "stop"
    <3>1. Same(c, task'[t]) /\ task'[t].pc \in {"close", "fwrite"}
      <4>1. next = "close"
        BY <1>2, <2>2 DEF AfterFlush
      <4>2. Same(c, Goes(c, next)) /\ Goes(c, next).pc = "close"
        BY <1>2, <4>1 DEF Goes, Same, Call
      <4> QED
        BY <1>11, <4>2 DEF Writer
    <3>2. Handles => \A v \in Task : ~OpensIn(task'[v])
      <4>1. ASSUME Handles PROVE \A v \in Task \ {t} : ~OpensIn(task[v])
        BY <1>0, <2>2, <4>1, StopAlone DEF Stops
      <4>2. ~OpensIn(task'[t])
        BY <3>1 DEF OpensIn
      <4> QED
        BY <1>11, <4>1, <4>2 DEF Rest, Same, OpensIn
    <3> QED
      BY <2>2, <3>1, <3>2 DEF Steps, Stops
  <2> QED
    BY <1>2, <2>1, <2>2
<1>14. SameHost
  BY DEF SameHost
<1> QED
  BY <1>2, <1>4, <1>10, <1>11, <1>12, <1>13, <1>14, MildTurn

LEMMA CutoverFlushesMild == ASSUME Sound, Basics, NEW t \in Task, CutoverFlushes(t) PROVE Mild
<1> DEFINE c == task[t]
           b == c.b
           s == bridge[b]
<1>1. c.pc = "cut" /\ Began(c)
  BY FurtherBegan DEF CutoverFlushes, Further
<1>2. /\ b \in Bridge /\ Tame(s, s) /\ c \in Call(clock) /\ bridge \in [Bridge -> Memory(clock)]
      /\ disk \in Directory(clock)
  BY <1>1, FurtherBegan DEF Further, Sound, StoreTypes, DiskOK
<1>3. CASE CutoverThrows(t)
  BY <1>1, <1>3, ThrowsMild DEF CutoverThrows
<1>4. CASE Snapshots(t, c, TRUE, disk, "cutcheck") /\ UNCHANGED <<bridge, host>>
  <2>1. PICK yes : yes = TRUE
    OBVIOUS
  <2>2. Snapshots(t, c, yes, disk, "cutcheck")
    BY <1>4, <2>1
  <2>3. Rest(t) /\ (task'[t] = Goes(c, "cutcheck") \/ Writer(b, c, task'[t])) /\ disk'.ok = disk.ok
    BY <1>2, <2>2, RestSnapshots, SnapshotsDisk
  <2>4. /\ Same(c, task'[t]) /\ task'[t].pc \in {"fwrite", "cutcheck"} /\ task'[t].hold = c.hold
    BY <1>2, <2>3 DEF Writer, Goes, Same, Call
  <2>5. bridge' = [bridge EXCEPT ![b] = s]
    BY <1>2, <1>4
  <2>6. Moves(c, task'[t], s, s)
    BY <1>1, <2>4 DEF Moves
  <2>7. PICK x : x = task'[t]
    OBVIOUS
  <2> QED
    BY <1>1, <1>2, <1>4, <2>3, <2>4, <2>5, <2>6, <2>7, StartOnward DEF Further
<1> QED
  BY <1>3, <1>4 DEF CutoverFlushes

LEMMA JsonLandsMild ==
  ASSUME Sound, Basics, NEW t \in Task, JsonLands(t, AfterFlush(task[t])), host' = host
  PROVE  Mild
<1> DEFINE c == task[t]
           b == c.b
           s == bridge[b]
           next == AfterFlush(c)
           e == [c EXCEPT !.data = Empty, !.scenes = NoScenes, !.newer = {}, !.stale = FALSE]
           x == Goes(e, next)
<1>1. /\ c.pc = "fwrite" /\ bridge' = bridge /\ task' = Superseded(t, x)
      /\ disk' = [disk EXCEPT !.json = c.data, !.jscenes = c.scenes, !.jsonAt = TRUE]
  BY DEF JsonLands
<1>2. /\ b \in Bridge /\ c \in Call(clock) /\ bridge \in [Bridge -> Memory(clock)]
      /\ disk \in Directory(clock) /\ c.kind \in {"start", "stop", "save"} /\ Tame(s, s)
      /\ Starts(c) => Began(c)
  BY <1>1, FlushingCall, BridgeFacts DEF Began, Sound, StoreTypes, DiskOK
<1>3. disk'.ok = disk.ok /\ bridge' = [bridge EXCEPT ![b] = s]
  BY <1>1, <1>2 DEF Directory
<1>4. /\ Same(c, e) /\ e.hold = c.hold /\ DOMAIN e = DOMAIN c
      /\ c.kind \in {"start", "stop"} => x = [e EXCEPT !.pc = next]
  BY <1>2 DEF Same, Call, AfterFlush, Goes
<1>5. c.kind \in {"start", "stop"} => Same(c, x) /\ x.hold = c.hold /\ x.pc = next
  BY <1>2, <1>4 DEF Same, Call
<1>6. c.kind = "save" => x = NoTask
  BY DEF AfterFlush, Goes
<1> HIDE DEF x, e
<1>7. Rest(t) /\ task'[t] = x
  BY <1>1, RestSuperseded
<1>8. CASE c.kind = "start"
  <2>1. Moves(c, x, s, s) /\ x.pc = "cutcheck" /\ c.pc # "prepare"
    BY <1>1, <1>5, <1>8 DEF Moves, AfterFlush
  <2> QED
    BY <1>1, <1>2, <1>3, <1>5, <1>7, <1>8, <2>1, StartOnward DEF Further, Starts
<1>9. CASE c.kind # "start"
  <2>1. Sedate(b) /\ SameHost
    BY <1>1 DEF Sedate, SameHost
  <2>2. Steps(t)
    BY <1>1, <1>2, <1>5, <1>6, <1>7, <1>9 DEF Steps, Began, Starts, Stops, AfterFlush
  <2> QED
    BY <1>2, <1>3, <1>7, <2>1, <2>2, MildTurn
<1> QED
  BY <1>8, <1>9

LEMMA FlushFailsMild == ASSUME Sound, Basics, NEW t \in Task, FlushFails(t) PROVE Mild
<1> DEFINE c == task[t]
           b == c.b
           s == bridge[b]
           x == Goes(c, IF c.kind = "stop" THEN "closefail" ELSE "idle")
<1>1. /\ c.pc \in {"fopen", "fwrite"} /\ task' = Superseded(t, x) /\ disk' = disk
      /\ IF c.kind = "start" THEN Breaks(t, TRUE) ELSE UNCHANGED <<bridge, host>>
  BY DEF FlushFails
<1>2. /\ b \in Bridge /\ c \in Call(clock) /\ bridge \in [Bridge -> Memory(clock)]
      /\ c.kind \in {"start", "stop", "save"} /\ (Starts(c) => Began(c))
  <2>1. c.pc \in {"fopen", "fwrite", "cut"}
    BY <1>1
  <2> HIDE DEF x
  <2> QED
    BY <2>1, FlushingCall, BridgeFacts DEF Began
<1>3. c.kind = "stop" => Same(c, x) /\ x.pc = "closefail"
  BY <1>2 DEF Goes, Same, Call
<1>4. c.kind # "stop" => x = NoTask
  BY DEF Goes
<1> HIDE DEF x
<1>5. Rest(t) /\ task'[t] = x
  BY <1>1, RestSuperseded
<1>6. CASE c.kind = "start"
  <2> DEFINE r == [s EXCEPT !.stopped = @ \/ TRUE]
  <2>1. Tame(r, s)
    BY <1>2, BridgeFacts DEF Tame
  <2>2. /\ bridge' = [bridge EXCEPT ![b] = CloseGeneration(r, c.sgen)]
        /\ host' = FailedStart(host, c.reg, c.gen)
    BY <1>1, <1>6 DEF Breaks
  <2> HIDE DEF r
  <2>3. Began(c)
    BY <1>2, <1>6, FlushingCall, <1>1 DEF Began, Starts
  <2> QED
    BY <1>1, <1>4, <1>5, <1>6, <2>1, <2>2, <2>3, StartOver
<1>7. CASE c.kind # "start"
  <2>1. Sedate(b) /\ SameHost
    BY <1>1, <1>7 DEF Sedate, SameHost
  <2>2. Steps(t)
    BY <1>1, <1>2, <1>3, <1>4, <1>5, <1>7 DEF Steps, Began, Starts, Stops
  <2> QED
    BY <1>1, <1>2, <1>5, <2>1, <2>2, MildTurn
<1> QED
  BY <1>6, <1>7

LEMMA SaveTimerMild ==
  ASSUME Sound, Basics, NEW t \in Task, NEW b \in Bridge, Working(b), Free(t),
         SaveTimerFires(t, b), host' = host
  PROVE  Mild
<1> DEFINE c == task[t]
           s == bridge[b]
           r == [s EXCEPT !.timer = FALSE]
           rec == [NoTask EXCEPT !.kind = "save", !.b = b]
<1>1. /\ c.pc = "idle" /\ bridge' = [bridge EXCEPT ![b].timer = FALSE]
      /\ b \in {Foreign, host.current}
  BY DEF SaveTimerFires, Working
<1>2. /\ s \in Memory(clock) /\ bridge \in [Bridge -> Memory(clock)] /\ disk \in Directory(clock)
      /\ Tame(s, s)
  BY BridgeFacts DEF Sound, StoreTypes, DiskOK
<1>3. bridge' = [bridge EXCEPT ![b] = r]
  BY <1>1, <1>2
<1>4. /\ r.gen = s.gen /\ r.started = s.started /\ r.path = s.path /\ r.closed = s.closed
      /\ r.db = s.db /\ r.q = s.q /\ r.stopped = s.stopped
  BY <1>2 DEF Memory
<1> HIDE DEF r
<1>5. Sedate(b) /\ SameHost
  BY <1>2, <1>3, <1>4 DEF Sedate, SameHost
<1>6. rec \in Call(clock) /\ rec.kind = "save" /\ rec.b = b /\ rec.pc = "idle"
  BY NoTaskType DEF Call, Sound, StoreTypes, NoTask
<1>7. c.kind = "idle" /\ c \in Call(clock)
  <2>1. CallOK(c, host) /\ c \in Call(clock)
    BY DEF Sound, CallsOK, StoreTypes, TasksOK
  <2> QED
    BY <1>1, <2>1 DEF CallOK, Call, Waits, Inside
<1>8. CASE s.stopped
  <2>1. UNCHANGED <<disk, task>>
    BY <1>8 DEF SaveTimerFires
  <2>2. \A a \in Bridge : LET u == bridge[a]
                              v == bridge'[a]
                          IN /\ v.gen = u.gen /\ v.started = u.started /\ v.path = u.path
                             /\ v.q = u.q \/ Built(a)
                             /\ v.closed = u.closed /\ v.db = u.db /\ v.stopped = u.stopped
    BY <1>2, <1>3, <1>4
  <2> QED
    BY <2>1, <2>2, MildStill
<1>9. CASE ~s.stopped /\ (s.db > 0 \/ s.closed \/ ~s.path)
  <2>1. Snapshots(t, rec, s.db > 0, disk, "idle")
    BY <1>9 DEF SaveTimerFires, CallsFlush
  <2> HIDE DEF rec
  <2>2. PICK open : open <=> s.db > 0
    OBVIOUS
  <2>3. Snapshots(t, rec, open, disk, "idle")
    BY <2>1, <2>2 DEF Snapshots
  <2>4. Rest(t) /\ (task'[t] = Goes(rec, "idle") \/ Writer(b, rec, task'[t])) /\ disk'.ok = disk.ok
    BY <1>2, <1>6, <2>3, RestSnapshots, SnapshotsDisk
  <2>5. Goes(rec, "idle") = NoTask
    BY DEF Goes
  <2>6. Steps(t)
    BY <1>1, <1>6, <1>7, <2>4, <2>5 DEF Steps, Began, Starts, Stops, Writer, Same
  <2> QED
    BY <1>5, <2>4, <2>6, MildTurn
<1>10. CASE ~s.stopped /\ ~(s.db > 0 \/ s.closed \/ ~s.path)
  <2> DEFINE x == [rec EXCEPT !.pc = "fopen", !.hold = s.gen]
  <2>1. task' = [task EXCEPT ![t] = x] /\ disk' = disk
    BY <1>10 DEF SaveTimerFires, CallsFlush
  <2>2. x.kind = "save" /\ x.pc = "fopen" /\ x.b = b /\ x.hold = s.gen
    BY <1>6 DEF Call
  <2> HIDE DEF x
  <2>3. Rest(t) /\ task'[t] = x
    BY <2>1, RestOne
  <2>4. Steps(t)
    BY <1>1, <1>2, <1>3, <1>4, <1>7, <1>10, <2>2, <2>3 DEF Steps
  <2> QED
    BY <1>5, <2>1, <2>3, <2>4, MildTurn
<1> QED
  BY <1>8, <1>9, <1>10

-----------------------------------------------------------------------------
(* Steps of the data, of a channel, of the observation.                    *)

Alike(r, s) ==
  /\ {"gen", "closed", "db", "path", "stopped", "started", "timer", "q"} \subseteq DOMAIN r
  /\ r.gen = s.gen /\ r.closed = s.closed /\ r.db = s.db /\ r.path = s.path
  /\ r.stopped = s.stopped /\ r.started = s.started

LEMMA ScheduleAlike ==
  ASSUME NEW r, NEW s, Alike(r, s) PROVE Alike(ScheduleSave(r), s) /\ ScheduleSave(r).q = r.q
BY DEF Alike, ScheduleSave

LEMMA DataMild ==
  ASSUME Sound, Basics, NEW b \in Bridge, Built(b), NEW s, Alike(s, bridge[b]),
         bridge' = [bridge EXCEPT ![b] = s], task' = task, host' = host, disk.ok => disk'.ok
  PROVE  Mild
<1>1. \A a \in Bridge : LET u == bridge[a]
                            v == bridge'[a]
                        IN /\ v.gen = u.gen /\ v.started = u.started /\ v.path = u.path
                           /\ v.q = u.q \/ Built(a)
                           /\ v.closed = u.closed /\ v.db = u.db /\ v.stopped = u.stopped
  BY BridgeFacts DEF Alike
<1> QED
  BY <1>1, MildStill

LEMMA DataStepMild == ASSUME Sound, Basics, NEW b \in Bridge, DataStep(b) PROVE Mild
<1> DEFINE s == bridge[b]
<1>1. /\ Built(b) /\ Working(b) /\ host' = host /\ s \in Memory(clock) /\ disk \in Directory(clock)
      /\ bridge \in [Bridge -> Memory(clock)]
  BY BridgeFacts DEF DataStep, Working, Built, Sound, StoreTypes, DiskOK
<1>2. ASSUME NEW r, Alike(r, s), bridge' = [bridge EXCEPT ![b] = ScheduleSave(r)], task' = task,
             disk'.ok = disk.ok
      PROVE  Mild
  BY <1>1, <1>2, ScheduleAlike, DataMild
<1>3. ASSUME NEW m \in Msg, Accept(b, m) PROVE Mild
  <2> DEFINE r == [s EXCEPT !.q[m] = "queued"]
  <2>1. Alike(r, s)
    BY <1>1 DEF Alike, Memory
  <2> QED
    BY <1>1, <1>2, <1>3, <2>1 DEF Accept
<1>4. ASSUME NEW m \in Msg, Purge(b, m) PROVE Mild
  <2> DEFINE r == [s EXCEPT !.q[m] = "no"]
  <2>1. Alike(r, s)
    BY <1>1 DEF Alike, Memory
  <2>2. disk'.ok = disk.ok /\ task' = task
    BY <1>1, <1>4 DEF Purge, Directory
  <2> QED
    BY <1>1, <1>2, <1>4, <2>1, <2>2 DEF Purge
<1>5. ASSUME NEW m \in Msg, NEW how \in left.ends, Ends(b, m, how) PROVE Mild
  <2> DEFINE r == [s EXCEPT !.q[m] = how]
  <2>1. Alike(r, s)
    BY <1>1 DEF Alike, Memory
  <2> QED
    BY <1>1, <1>2, <1>5, <2>1 DEF Ends
<1>6. CASE SeeScene(b)
  <2> DEFINE r == [s EXCEPT !.scenes[AgentOf[b]] = clock']
  <2>1. Alike(r, s)
    BY <1>1 DEF Alike, Memory
  <2> QED
    BY <1>1, <1>2, <1>6, <2>1 DEF SeeScene
<1>7. ASSUME NEW a \in Agent, RemoveScene(b, a) PROVE Mild
  <2> DEFINE r == [s EXCEPT !.scenes[a] = 0]
  <2>1. Alike(r, s)
    BY <1>1 DEF Alike, Memory
  <2> QED
    BY <1>1, <1>2, <1>7, <2>1 DEF RemoveScene
<1>8. CASE MergeScenes(b)
  <2> DEFINE newer == {a \in Agent : disk.scenes[a] > s.scenes[a]}
             merged == [a \in Agent |-> IF a \in newer THEN disk.scenes[a] ELSE s.scenes[a]]
             r == [s EXCEPT !.scenes = merged, !.index = merged]
  <2> HIDE DEF merged
  <2>1. Alike(r, s)
    BY <1>1 DEF Alike, Memory
  <2>2. bridge' = [bridge EXCEPT ![b].scenes = merged, ![b].index = merged]
    BY <1>8 DEF MergeScenes, merged
  <2>3. bridge' = [bridge EXCEPT ![b] = r]
    BY <1>1, <2>2 DEF Memory
  <2>4. task' = task /\ disk' = disk
    BY <1>8 DEF MergeScenes
  <2> HIDE DEF r
  <2> QED
    BY <1>1, <2>1, <2>3, <2>4, DataMild
<1>9. ASSUME NEW t \in Task, Free(t), SaveTimerFires(t, b) PROVE Mild
  BY <1>1, <1>9, SaveTimerMild
<1> QED
  BY <1>3, <1>4, <1>5, <1>6, <1>7, <1>8, <1>9 DEF DataStep

LEMMA StutterMild ==
  ASSUME Sound, Basics, UNCHANGED <<bridge, task>>, Sited(host, host'), host'.active = host.active,
         disk.ok => disk'.ok \/ \A b \in Bridge : bridge[b].db = 0
  PROVE  Mild
BY MildStill DEF Sited

LEMMA ObservationMild == ASSUME Sound, Basics, NEW r \in Reg, ObservationFires(r) PROVE Mild
<1>1. Fielded(host)
  BY ShapeComplete DEF Sound, HostOK
<1>2. PICK run, late : run = Running(host, bridge) /\ late = TRUE
  OBVIOUS
<1>3. host' = Probe(host, r, host.decl[r].gen, run, late) /\ UNCHANGED <<disk, bridge, task>>
  BY <1>2 DEF ObservationFires, storeVars
<1> QED
  BY <1>1, <1>3, ProbeSited, StutterMild

LEMMA ChannelStopsMild == ASSUME Sound, Basics, NEW r \in Reg, ChannelStops(r) PROVE Mild
<1> DEFINE b == host.current
           s == bridge[b]
           e == [s EXCEPT !.chan = FALSE]
<1>1. b \in Main /\ b \in Bridge
  BY DEF ChannelStops, IsStoppable, Sound, HostOK, Based, Living, Main
<1>2. bridge' = [bridge EXCEPT ![b] = e] /\ UNCHANGED <<disk, task, host>>
  BY <1>1, BridgeFacts DEF ChannelStops
<1>3. Alike(e, s)
  BY <1>1, BridgeFacts DEF Alike, Memory
<1> QED
  BY <1>1, <1>2, <1>3, DataMild DEF Built

LEMMA RejectedMild == ASSUME Sound, Basics, NEW t \in Task, Rejected(t) PROVE Mild
<1>1. task[t].pc = "rejected" /\ task' = [task EXCEPT ![t] = NoTask] /\ UNCHANGED <<disk, bridge, host>>
  BY DEF Rejected, OnlyTask
<1>2. ~Began(task[t]) /\ ~Stops(task[t])
  BY <1>1 DEF Began, Inside, Stops, Sound, CallsOK, CallOK
<1>3. Rest(t) /\ task'[t] = NoTask
  BY <1>1, RestOne
<1>4. Steps(t) /\ SameHost /\ Sedate(Foreign)
  BY <1>1, <1>2, <1>3 DEF Steps, SameHost, Sedate
<1> QED
  BY <1>1, <1>3, <1>4, MildTurn, ServiceAssumption

LEMMA ChannelStartsMild == ASSUME Sound, Basics, NEW t \in Task, ChannelStarts(t) PROVE Mild
<1> DEFINE rec == task[t]
           b == rec.b
           on == CanStart(host, rec.reg, rec.gen)
           e == IF on THEN [bridge EXCEPT ![b].chan = TRUE] ELSE bridge
           s == IF on THEN [bridge[b] EXCEPT !.chan = TRUE] ELSE bridge[b]
           run == Running(host, e)
<1>1. /\ rec.kind = "channel" /\ rec.pc = "debug" /\ task' = [task EXCEPT ![t] = NoTask]
      /\ bridge' = e /\ disk' = disk
      /\ host' = IF on THEN Probe(host, rec.reg, rec.gen, run, FALSE) ELSE host
  BY DEF ChannelStarts
<1>2. b \in Bridge /\ ~Began(rec) /\ ~Stops(rec)
  BY <1>1 DEF Sound, CallsOK, CallOK, Main, Waits, Began, Starts, Stops
<1>3. bridge' = [bridge EXCEPT ![b] = s]
  BY <1>1, <1>2, BridgeFacts
<1>4. Alike(s, bridge[b]) /\ s.q = bridge[b].q
  BY <1>2, BridgeFacts DEF Alike, Memory
<1> HIDE DEF s, e, run
<1>5. PICK no : no = FALSE
  OBVIOUS
<1>6. Sited(host, host') /\ host'.active = host.active
  <2>1. Fielded(host)
    BY ShapeComplete DEF Sound, HostOK
  <2>2. host' = IF on THEN Probe(host, rec.reg, rec.gen, run, no) ELSE host
    BY <1>1, <1>5
  <2> QED
    BY <2>1, <2>2, ProbeSited DEF Sited
<1>7. Rest(t) /\ task'[t] = NoTask
  BY <1>1, RestOne
<1>8. Sedate(b)
  BY <1>2, <1>3, <1>4, BridgeFacts DEF Sedate, Alike
<1>9. Steps(t) /\ SameHost
  BY <1>2, <1>6, <1>7 DEF Steps, SameHost, Sited
<1> QED
  BY <1>1, <1>2, <1>7, <1>8, <1>9, MildTurn

LEMMA CorruptMild == ASSUME Sound, Basics, Corrupt, host' = host PROVE Mild
BY StutterMild DEF Corrupt, Sited

-----------------------------------------------------------------------------
(* Registrations.                                                          *)

Grows == Basics' /\ (Leases /\ Leases' /\ Handles /\ ~ghost'.stray => Handles')

LEMMA MildGrows == ASSUME Sound, Sound', Basics, Mild PROVE Grows
BY MildKeeps DEF Grows

(* The operators of the registration keep the phase, or end the owner.     *)
Phased(h, k) == Fielded(k) /\ Sited(h, k) /\ k.active.phase \in {h.active.phase, "stopped"}

LEMMA PruneSited == ASSUME NEW h, Fielded(h) PROVE Phased(h, Prune(h))
<1>1. PICK ledger, decl : Prune(h) = [h EXCEPT !.ledger = ledger, !.decl = decl]
  BY DEF Prune
<1> QED
  BY <1>1 DEF Phased, Fielded, Sited

LEMMA RecoverSited ==
  ASSUME NEW h, Fielded(h), "phase" \in DOMAIN h.active, NEW kind, NEW r, NEW g
  PROVE  Phased(h, Recover(h, kind, r, g))
<1> DEFINE e1 == [h EXCEPT !.active.phase = "stopped", !.pending = NoOwner, !.retire = "none"]
           e2 == [h EXCEPT !.pending = NoOwner]
           d == [Retired(h.decl[r]) EXCEPT !.registration = "failed", !.state = "retired"]
           k == Recover(h, kind, r, g)
<1>1. Phased(h, e1) /\ Phased(h, e2) /\ Phased(h, h)
  BY DEF Phased, Fielded, Sited
<1>2. \A e : Phased(h, e) => Phased(h, [e EXCEPT !.decl[r] =
                  [Retired(@) EXCEPT !.registration = "failed", !.state = "retired"]])
  BY DEF Phased, Fielded, Sited
<1>3. \E e \in {e1, e2, h} : \/ k = e
                              \/ k = [e EXCEPT !.decl[r] =
                                   [Retired(@) EXCEPT !.registration = "failed", !.state = "retired"]]
  BY DEF Recover
<1> HIDE DEF e1, e2, k
<1>4. Phased(h, k)
  BY <1>1, <1>2, <1>3
<1> QED
  BY <1>4 DEF k

LEMMA DeclareSited == ASSUME NEW h, Fielded(h), NEW r, NEW g PROVE Phased(h, Declare(h, r, g))
BY DEF Declare, Phased, Fielded, Sited

LEMMA CompleteSited ==
  ASSUME NEW h, Fielded(h), NEW r, NEW running PROVE Phased(h, Complete(h, r, running))
<1> DEFINE f == [h EXCEPT !.decl[r].registration = "complete"]
<1>1. Fielded(f) /\ Sited(h, f) /\ f.active = h.active
  BY DEF Fielded, Sited
<1> HIDE DEF f
<1>2. PICK no : no = FALSE
  OBVIOUS
<1> DEFINE k == StartObservation(f, r, h.decl[r].gen, no, running)
<1>3. Sited(f, k) /\ k.active = f.active
  BY <1>1, ObservationSited
<1>4. Complete(h, r, running) \in {f, k}
  BY <1>2 DEF Complete, f
<1> HIDE DEF k
<1>5. Phased(h, f) /\ Phased(h, k)
  BY <1>1, <1>3 DEF Phased, Fielded, Sited
<1> QED
  BY <1>4, <1>5

LEMMA CommitSited ==
  ASSUME NEW h, HostShape(h), NEW kind, NEW r, NEW c
  PROVE  LET k == Commit(h, kind, r, c) IN
         /\ Fielded(k) /\ Sited(h, k) /\ "phase" \in DOMAIN k.active
         /\ k.active.phase \in {h.active.phase, "active"}
<1> DEFINE k == Commit(h, kind, r, c)
           Good(x) == /\ Fielded(x) /\ Sited(h, x) /\ "phase" \in DOMAIN x.active
                      /\ x.active.phase \in {h.active.phase, "active"}
           new == [gen |-> h.next, reg |-> r, code |-> c, phase |-> "active"]
<1>1. /\ {"made", "current", "active", "decl", "next", "pending", "retire", "mode", "ledger"}
             \subseteq DOMAIN h
      /\ "phase" \in DOMAIN h.active
  BY DEF HostShape, Owner
<1>2. \A n, p, q, l, d : Good([h EXCEPT !.next = n, !.active = new, !.pending = p, !.retire = q,
                                      !.ledger = l, !.decl = d])
  BY <1>1 DEF Fielded, Sited
<1>3. \A n, p, m, l, d : Good([h EXCEPT !.next = n, !.pending = p, !.mode = m,
                                      !.ledger = l, !.decl[r] = d])
  BY <1>1 DEF Fielded, Sited
<1>4. \A l, d : Good([h EXCEPT !.ledger = l, !.decl[r] = d])
  BY <1>1 DEF Fielded, Sited
<1>5. \A d : Good([h EXCEPT !.decl[r].state = d])
  BY <1>1 DEF Fielded, Sited
<1>6. Good(h)
  BY <1>1 DEF Fielded, Sited
<1> HIDE DEF Good
<1>7. \E x : Good(x) /\ k = Prune(x)
  <2>1. CASE kind \in {"initialize", "takeover"}
    BY <1>2, <2>1 DEF Commit
  <2>2. CASE kind = "defer"
    BY <1>3, <2>2 DEF Commit
  <2>3. CASE kind = "duplicate" /\ h.decl[r] = NoDecl
    BY <1>4, <2>3 DEF Commit
  <2>4. CASE kind = "duplicate" /\ h.decl[r] # NoDecl
    BY <1>5, <2>4 DEF Commit
  <2>5. CASE kind \notin {"initialize", "takeover", "defer", "duplicate"}
    BY <1>6, <2>5 DEF Commit
  <2> QED
    BY <2>1, <2>2, <2>3, <2>4, <2>5
<1> HIDE DEF k
<1>8. PICK x : Good(x) /\ k = Prune(x)
  BY <1>7
<1>9. PICK l, d : k = [x EXCEPT !.ledger = l, !.decl = d]
  BY <1>8 DEF Prune
<1>10. Good(k)
  BY <1>8, <1>9 DEF Good, Fielded, Sited
<1> QED
  BY <1>10 DEF k, Good

LEMMA RegisteredBuilds ==
  ASSUME NEW h, HostShape(h), NEW r, NEW c, NEW outcome, NEW running,
         CanBuild(h, ModeOf(h, Plan(h, r, c), c))
  PROVE  LET k == Registered(h, r, c, outcome, running) IN
         Building(h, k) /\ k.active.phase \in {h.active.phase, "active", "stopped"}
<1> DEFINE kind == Plan(h, r, c)
           g == h.next
           mode == ModeOf(h, kind, c)
           planned == Commit(h, kind, r, c)
           adopted == IF kind \in {"initialize", "takeover"} THEN Adopt(planned, mode) ELSE planned
           declared == IF kind \in {"initialize", "takeover", "defer"} THEN Declare(adopted, r, g)
                       ELSE adopted
           k == Registered(h, r, c, outcome, running)
           Good(x) == Fielded(x) /\ Building(h, x) /\ "phase" \in DOMAIN x.active
                      /\ x.active.phase \in {h.active.phase, "active", "stopped"}
<1>1. \/ k = Recover(planned, kind, r, g) \/ k = Recover(declared, kind, r, g)
      \/ k = Prune(declared) \/ k = Prune(Complete(declared, r, running))
  BY DEF Registered
<1> HIDE DEF k
<1>2. /\ Fielded(planned) /\ Sited(h, planned) /\ "phase" \in DOMAIN planned.active
      /\ planned.active.phase \in {h.active.phase, "active"} /\ h.made \in Nat
  BY CommitSited DEF HostShape
<1> HIDE DEF planned, kind, mode
<1>3. Good(planned)
  BY <1>2 DEF Building, Sited
<1>4. CanBuild(planned, mode)
  BY <1>2 DEF CanBuild, Builds, Sited, mode, kind
<1>5. Good(adopted)
  <2>1. CASE adopted = planned
    BY <1>3, <2>1
  <2>2. CASE adopted = Adopt(planned, mode)
    <3>1. /\ DOMAIN adopted = DOMAIN planned /\ Building(planned, adopted)
          /\ adopted.active = planned.active
      BY <1>2, <1>4, <2>2, AdoptBuilds DEF Building, Sited, Adopt, Fielded
    <3> QED
      BY <1>2, <3>1 DEF Fielded, Building, Sited
  <2> QED
    BY <2>1, <2>2
<1> HIDE DEF adopted
<1>6. ASSUME NEW x, Good(x), NEW y, Phased(x, y) PROVE Building(h, y) /\ Fielded(y)
             /\ y.active.phase \in {h.active.phase, "active", "stopped"}
  BY <1>6 DEF Phased, Sited, Building
<1>7. Good(declared)
  <2>1. declared \in {adopted, Declare(adopted, r, g)}
    OBVIOUS
  <2>2. Declare(adopted, r, g).active = adopted.active /\ Phased(adopted, Declare(adopted, r, g))
    BY <1>5, DeclareSited DEF Declare, Fielded
  <2> QED
    BY <1>5, <1>6, <2>1, <2>2
<1> HIDE DEF declared
<1>8. Good(Complete(declared, r, running))
  <2> DEFINE y == Complete(declared, r, running)
             f == [declared EXCEPT !.decl[r].registration = "complete"]
  <2>1. Phased(declared, y)
    BY <1>7, CompleteSited
  <2>2. y.active = declared.active
    <3>1. Fielded(f) /\ f.active = declared.active
      BY <1>7 DEF Fielded
    <3> HIDE DEF f
    <3>2. PICK no : no = FALSE
      OBVIOUS
    <3>3. StartObservation(f, r, declared.decl[r].gen, no, running).active = f.active
      BY <3>1, ObservationSited
    <3> QED
      BY <3>1, <3>2, <3>3 DEF Complete, f
  <2> HIDE DEF y
  <2> QED
    BY <1>6, <1>7, <2>1, <2>2 DEF y
<1> DEFINE completed == Complete(declared, r, running)
<1> HIDE DEF completed
<1>9. \A x : Good(x) => Phased(x, Prune(x)) /\ Phased(x, Recover(x, kind, r, g))
  BY PruneSited, RecoverSited
<1> HIDE DEF Good
<1>10. \E x : Good(x) /\ Phased(x, k)
  BY <1>1, <1>3, <1>7, <1>8, <1>9
<1> QED
  BY <1>6, <1>10 DEF k

LEMMA PlanTakes ==
  ASSUME NEW h, NEW r, NEW c, Plan(h, r, c) \in {"initialize", "takeover"}
  PROVE  h.active.phase # "failed"
BY DEF Plan, Adoption, NoOwner

(* The owners, the bridges and the calls stay as they are.                 *)
LEMMA HandlesStay ==
  ASSUME Handles, bridge' = bridge, task' = task, host'.active = host.active,
         host'.current = host.current
  PROVE  Handles'
<1>1. \A t \in Task : Opener(t)' <=> Opener(t)
  BY DEF Opener, Current, IsActive, Owns
<1> QED
  BY <1>1 DEF Handles, DbOK, RunsOK, OpenOK, WaitsOK, StopFlag, GoingOK

LEMMA RegisterGrows ==
  ASSUME Sound, Sound', Basics, NEW r \in Reg, NEW c \in Code, Register(r, c)
  PROVE  Grows
<1> DEFINE h == host
           k == host'
           run == Running(host, bridge)
<1>1. PICK outcome : /\ CanBuild(host, ModeOf(host, Plan(host, r, c), c))
                     /\ host' = Registered(host, r, c, outcome, run)
  BY DEF Register
<1>2. UNCHANGED <<disk, bridge, task, clock, ghost>>
  BY DEF Register, storeVars
<1> HIDE DEF run
<1>3. HostOK(h) /\ HostShape(h)
  BY DEF Sound, HostOK
<1>4. Building(h, k) /\ k.active.phase \in {h.active.phase, "active", "stopped"}
  BY <1>1, <1>3, RegisteredBuilds
<1>5. \A b \in Bridge : bridge[b].gen \in Nat
  BY DEF Sound, StoreTypes, MemoryOK, Memory
<1>6. ASSUME \A t \in Task : Stops(task[t]) => k.current = h.current PROVE Basics'
  <2>1. \A u \in Task : /\ task'[u] = task[u] /\ Same(task[u], task'[u])
                        /\ Stops(task'[u]) => task[u].b = host'.current
    BY <1>2, <1>6 DEF Same, Basics, StopsOK
  <2>2. Plain
    BY <1>2, <1>4, <1>5, <2>1 DEF Plain
  <2> QED
    BY <2>2, PlainKeeps
<1>7. CASE k.active = h.active /\ k.current = h.current
  BY <1>2, <1>6, <1>7, HandlesStay DEF Grows
<1>8. CASE Plan(h, r, c) \in {"initialize", "takeover"}
  <2>1. Taken(h, k) /\ h.active.phase # "failed"
    BY <1>1, <1>3, <1>8, RegisteredTakes, PlanTakes
  <2>2. h.active.phase \notin {"failed", "active", "stopping"} /\ k.active.gen = h.next
    BY <2>1 DEF Taken, Living
  <2>3. \A t \in Task : CallOK(task[t], h) /\ task[t].gen \in Nat /\ h.next \in Nat
    BY <1>3 DEF Sound, CallsOK, StoreTypes, TasksOK, Call, HostShape
  <2>4. \A t \in Task : ~Stops(task[t])
    BY <2>2, <2>3 DEF CallOK, Stops
  <2>5. ASSUME Handles PROVE Handles'
    <3>1. \A b \in Main : ~Open(bridge[b])
      BY <2>2, <2>5 DEF Handles, OpenOK
    <3>2. \A u \in Task : ~(task[u].pc = "fopen" /\ task[u].b \in Main)
      BY <2>2, <2>5 DEF Handles, WaitsOK
    <3>3. \A t \in Task : ~Opener(t)'
      <4> SUFFICES ASSUME NEW t \in Task, Starts(task[t]), task[t].gen = k.active.gen PROVE FALSE
        BY <1>2 DEF Opener, Began, Current, IsActive, Owns
      <4> QED
        BY <2>2, <2>3 DEF CallOK, Starts
    <3>4. k.active.phase # "stopping"
      BY <1>4, <2>2
    <3> QED
      BY <1>2, <2>5, <3>1, <3>2, <3>3, <3>4
      DEF Handles, DbOK, RunsOK, OpenOK, WaitsOK, StopFlag, GoingOK
  <2> QED
    BY <1>6, <2>4, <2>5 DEF Grows
<1>9. CASE Plan(h, r, c) \notin {"initialize", "takeover"}
  <2>1. SameOwners(h, k) \/ Deferred(h, k)
    BY <1>1, <1>3, <1>9, PlanMeets, RegisteredElse
  <2> QED
    BY <1>7, <2>1 DEF SameOwners, Deferred
<1> QED
  BY <1>8, <1>9

-----------------------------------------------------------------------------
(* A call gets its bridge.                                                 *)

(* Call t, which has begun nothing, goes to where it has begun nothing.    *)
Aside(t) ==
  /\ Rest(t) /\ ~Closer(task[t]) /\ ~Closer(task'[t]) /\ task'[t].pc # "fopen"
  /\ bridge' = bridge /\ disk' = disk

LEMMA AsideFacts ==
  ASSUME NEW t \in Task, Aside(t)
  PROVE  /\ \A u \in Task : /\ Began(task'[u]) <=> Began(task[u])
                            /\ Stops(task'[u]) <=> Stops(task[u])
                            /\ Began(task[u]) => Same(task[u], task'[u])
                            /\ u # t => Same(task[u], task'[u])
                            /\ OpensIn(task'[u]) => u # t
         /\ \A u \in Task \ {t} : task'[u].pc = task[u].pc /\ task'[u].hold = task[u].hold
         /\ ~Began(task[t]) /\ ~Stops(task[t]) /\ ~Began(task'[t]) /\ ~Stops(task'[t])
<1>1. ~Began(task[t]) /\ ~Stops(task[t]) /\ ~Began(task'[t]) /\ ~Stops(task'[t])
  BY DEF Aside, Closer, Began
<1>2. \A u \in Task \ {t} : /\ Same(task[u], task'[u]) /\ task'[u].pc = task[u].pc
                            /\ task'[u].hold = task[u].hold
  BY DEF Aside, Rest
<1> QED
  BY <1>1, <1>2 DEF Aside, Same, Began, Starts, Stops, Inside, OpensIn

LEMMA AsidePlain ==
  ASSUME Sound, Sound', Basics, NEW t \in Task, Aside(t), Building(host, host'),
         task'[t].b \in {task[t].b, 0, Foreign, host.current, host'.current},
         \A u \in Task : Stops(task[u]) => host'.current = host.current
  PROVE  Basics'
<1>1. \A b \in Bridge : bridge[b].gen \in Nat
  BY DEF Sound, StoreTypes, MemoryOK, Memory
<1>2. ASSUME NEW u \in Task
      PROVE  /\ Began(task'[u]) =>
                  /\ Began(task[u]) /\ Same(task[u], task'[u])
                  /\ task'[u].pc # "prepare" => task[u].pc # "prepare" \/ bridge'[task[u].b].path
             /\ Stops(task'[u]) => task'[u].b = host'.current
             /\ task'[u].pc = "fopen" /\ Starts(task'[u]) => task[u].pc = "fopen" /\ Starts(task[u])
             /\ task'[u].b \in {task[u].b, 0, Foreign, host.current, host'.current}
  <2>1. CASE u = t
    BY <2>1, AsideFacts DEF Aside
  <2>2. CASE u # t
    BY <2>2, AsideFacts DEF Basics, StopsOK, Same, Starts
  <2> QED
    BY <2>1, <2>2
<1>3. bridge' = bridge /\ disk' = disk
  BY DEF Aside
<1>4. Plain
  BY <1>1, <1>2, <1>3 DEF Plain
<1> QED
  BY <1>4, PlainKeeps

LEMMA ObtainsGrows ==
  ASSUME Sound, Sound', Basics, NEW t \in Task, NEW rec, Obtains(t, rec), ~Closer(task[t]),
         "pc" \in DOMAIN rec, "b" \in DOMAIN rec, ~Stops(rec), rec.reg \in Reg,
         host.current \in Main
  PROVE  Grows
<1> DEFINE r == rec.reg
           g == rec.gen
           on == IsActive(host, r, g)
           run == Running(host, bridge)
           x == [rec EXCEPT !.pc = "debug", !.b = host'.current]
<1>1. /\ on \/ CanReactivate(host, r, g)
      /\ host' = IF on THEN Resumed(host, r, g, run) ELSE Reactivated(host, r, g, run)
      /\ task' = [task EXCEPT ![t] = x]
      /\ ghost' = [ghost EXCEPT !.stray =
           @ \/ (~on /\ \E u \in Task \ {t} : task[u].kind = "start" /\ task[u].gen = g)]
      /\ bridge' = bridge /\ disk' = disk
  BY DEF Obtains
<1> HIDE DEF run
<1>2. HostOK(host) /\ HostShape(host) /\ Fielded(host)
  BY ShapeComplete DEF Sound, HostOK
<1>3. Sited(host, host')
  BY <1>1, <1>2, ResumedSited, ReactivatedSited
<1>4. x.pc = "debug" /\ x.b = host.current /\ x.kind = rec.kind /\ ~Closer(x)
  BY <1>3 DEF Sited, Closer, Stops, Inside
<1> HIDE DEF x
<1>5. Aside(t) /\ task'[t] = x
  BY <1>1, <1>4, RestOne DEF Aside
<1>6. host'.current = host.current /\ Building(host, host')
  BY <1>3 DEF Sited, Building
<1>7. Basics'
  BY <1>4, <1>5, <1>6, AsidePlain
<1>8. CASE on
  <2>1. host'.active = host.active
    BY <1>1, <1>2, <1>8, ResumedOK DEF SameOwners
  <2>2. Steps(t)
    BY <1>4, <1>5, AsideFacts DEF Steps
  <2>3. host.current \in Bridge /\ Sedate(host.current) /\ SameHost
    BY <1>1, <1>3, <2>1 DEF Sedate, SameHost, Sited, Main
  <2>4. Mild
    BY <1>1, <1>5, <2>2, <2>3, MildTurn DEF Aside
  <2> QED
    BY <2>4, MildGrows
<1>9. ASSUME ~on, Leases, Handles, ~ghost'.stray PROVE Handles'
  <2>1. host.active.phase = "stopped" /\ Owns(host.active, r, g)
    BY <1>1, <1>9 DEF CanReactivate
  <2>2. host'.active.phase = "active" /\ host'.active.gen = g
    <3>1. host'.active = [host.active EXCEPT !.phase = "active"]
      BY <1>1, <1>2, <1>9, ReactivatedOK
    <3> QED
      BY <1>2, <2>1, <3>1 DEF HostShape, Owner, Owns
  <2>3. ~(~on /\ \E u \in Task \ {t} : task[u].kind = "start" /\ task[u].gen = g)
    BY <1>1, <1>9 DEF Sound, StoreTypes, GhostOK
  <2>4. \A u \in Task : ~Opener(u)'
    <3> SUFFICES ASSUME NEW u \in Task, Opener(u)' PROVE FALSE
      OBVIOUS
    <3>1. Began(task'[u]) /\ task'[u].gen = g
      BY <2>2 DEF Opener, Current, IsActive, Owns
    <3>2. u # t /\ Began(task[u]) /\ task[u].gen = g
      BY <1>5, <3>1, AsideFacts DEF Same
    <3> QED
      BY <1>9, <2>3, <3>2 DEF Began, Starts
  <2>5. \A b \in Main : ~Open(bridge[b])
    BY <1>9, <2>1 DEF Handles, OpenOK
  <2>6. \A u \in Task : ~OpensIn(task[u])
    BY <1>9, <2>1 DEF Handles, WaitsOK, OpensIn
  <2>7. \A u \in Task : ~OpensIn(task'[u])
    BY <1>5, <2>6, AsideFacts DEF OpensIn, Same
  <2>8. RunsOK'
    BY <1>1, <1>5, <1>9, AsideFacts DEF Handles, RunsOK, Same
  <2> QED
    BY <1>1, <1>9, <2>2, <2>4, <2>5, <2>7, <2>8
    DEF Handles, DbOK, OpenOK, WaitsOK, StopFlag, GoingOK, OpensIn
<1> QED
  BY <1>7, <1>8, <1>9 DEF Grows

LEMMA CallsStartGrows ==
  ASSUME Sound, Sound', Basics, NEW t \in Task, NEW kind \in {"start", "channel"}, NEW r \in Reg,
         CallsStart(t, kind, r)
  PROVE  Grows
<1> DEFINE g == host.cb[r]
           rec == [NoTask EXCEPT !.kind = kind, !.reg = r, !.gen = g, !.mode = host.mode]
           barrier == CASE host.retire = "open" -> "await"
                        [] host.retire = "failed" -> "rejected"
                        [] OTHER -> "resolved"
           x == [rec EXCEPT !.pc = barrier]
<1>1. /\ task[t].pc = "idle" /\ g > 0
      /\ IF Owns(host.pending, r, g)
         THEN /\ task' = [task EXCEPT ![t] = x]
              /\ UNCHANGED <<disk, bridge, clock, ghost, host>>
         ELSE Obtains(t, rec)
  BY DEF CallsStart, Free
<1>2. HostOK(host) /\ HostShape(host) /\ ~Closer(task[t])
  BY <1>1, NotClosing DEF Sound, HostOK
<1>3. host.current \in Main
  BY <1>1, <1>2 DEF HostOK, Based
<1>4. "pc" \in DOMAIN rec /\ "b" \in DOMAIN rec /\ ~Stops(rec) /\ rec.reg = r /\ rec.kind = kind
      /\ rec.b = 0
  BY DEF NoTask, Stops
<1>5. barrier \in {"await", "rejected", "resolved"}
  OBVIOUS
<1> HIDE DEF rec, barrier
<1>6. ~Closer(x) /\ x.pc # "fopen" /\ x.b = 0
  BY <1>4, <1>5 DEF Closer, Stops, Inside
<1> HIDE DEF x
<1>7. CASE Owns(host.pending, r, g)
  <2>1. Aside(t) /\ task'[t] = x
    BY <1>1, <1>2, <1>6, <1>7, RestOne DEF Aside
  <2>2. Steps(t)
    BY <1>6, <2>1, AsideFacts DEF Steps
  <2>3. host.current \in Bridge /\ Sedate(host.current) /\ SameHost
    BY <1>1, <1>3, <1>7 DEF Sedate, SameHost, Main
  <2>4. Mild
    BY <1>1, <2>1, <2>2, <2>3, MildTurn DEF Aside
  <2> QED
    BY <2>4, MildGrows
<1>8. CASE ~Owns(host.pending, r, g)
  BY <1>1, <1>2, <1>3, <1>4, <1>8, ObtainsGrows
<1> QED
  BY <1>7, <1>8

LEMMA ActivatesGrows == ASSUME Sound, Sound', Basics, NEW t \in Task, Activates(t) PROVE Grows
<1> DEFINE c == task[t]
           r == c.reg
           g == c.gen
           run == Running(host, bridge)
           x == [c EXCEPT !.pc = "debug", !.b = host'.current]
<1>1. /\ c.pc = "resolved"
      /\ \/ /\ CanActivate(host, r, g) /\ CanBuild(host, c.mode)
            /\ \/ /\ host' = Activated(host, r, g, c.mode, run)
                  /\ task' = [task EXCEPT ![t] = x]
               \/ /\ host' = ActivationFailed(host, r)
                  /\ task' = [task EXCEPT ![t] = NoTask]
            /\ UNCHANGED <<disk, bridge, clock, ghost>>
         \/ Obtains(t, c)
         \/ task' = [task EXCEPT ![t] = NoTask] /\ UNCHANGED OnlyTask
  BY DEF Activates
<1>0. c.pc = "resolved"
  BY <1>1
<1>2. /\ HostOK(host) /\ HostShape(host) /\ ~Closer(c) /\ c \in Call(clock) /\ Waits(c)
      /\ CallOK(c, host)
  BY <1>0, NotClosing DEF Sound, StoreTypes, HostOK, TasksOK, Waits, CallsOK
<1>3. /\ c.kind \in {"start", "channel"} /\ r \in Reg /\ g \in 1..(host.next - 1)
      /\ host.current \in Main /\ "pc" \in DOMAIN c /\ "b" \in DOMAIN c /\ ~Stops(c)
  BY <1>0, <1>2 DEF CallOK, Call, Stops
<1> HIDE DEF run
<1>4. ~Closer(NoTask) /\ NoTask.pc = "idle" /\ NoTask.b = 0
  BY DEF NoTask, Closer, Stops, Starts
<1>5. CASE Obtains(t, c)
  BY <1>2, <1>3, <1>5, ObtainsGrows
<1>6. CASE task' = [task EXCEPT ![t] = NoTask] /\ UNCHANGED OnlyTask
  <2>1. Aside(t) /\ task'[t] = NoTask
    BY <1>2, <1>4, <1>6, RestOne DEF Aside, OnlyTask
  <2>2. Steps(t)
    BY <1>4, <2>1, AsideFacts DEF Steps
  <2>3. host.current \in Bridge /\ Sedate(host.current) /\ SameHost
    BY <1>3, <1>6 DEF Sedate, SameHost, Main, OnlyTask
  <2>4. Mild
    BY <2>1, <2>2, <2>3, MildTurn DEF Aside
  <2> QED
    BY <2>4, MildGrows
<1>7. CASE /\ CanActivate(host, r, g) /\ CanBuild(host, c.mode)
           /\ \/ /\ host' = Activated(host, r, g, c.mode, run)
                 /\ task' = [task EXCEPT ![t] = x]
              \/ /\ host' = ActivationFailed(host, r)
                 /\ task' = [task EXCEPT ![t] = NoTask]
           /\ UNCHANGED <<disk, bridge, clock, ghost>>
  <2>1. /\ Building(host, host') /\ host'.active.phase # "stopping"
        /\ host'.active.gen > host.active.gen
    <3>1. /\ host.pending # NoOwner /\ host.pending.gen = g /\ host.active.gen \in Nat
          /\ host.pending \in Owner /\ host.pending.phase \in {"none", "active"}
      BY <1>2, <1>3, <1>7 DEF CanActivate, Owns, NoOwner, HostShape, Owner, HostOK, Generations
    <3>2. host.pending.gen > host.active.gen
      BY <1>2, <3>1 DEF HostOK, Generations
    <3>3. CASE host' = Activated(host, r, g, c.mode, run)
      <4>1. host'.active = host.pending
        BY <1>2, <1>3, <1>7, <3>3, ActivatedOK
      <4> QED
        BY <1>2, <1>7, <3>1, <3>2, <3>3, <4>1, ActivatedBuilds
    <3>4. CASE host' = ActivationFailed(host, r)
      <4>1. host'.active = [host.pending EXCEPT !.phase = "failed"]
        BY <1>2, <3>4 DEF ActivationFailed, HostShape
      <4> QED
        BY <1>2, <3>1, <3>2, <3>4, <4>1, ActivationSited DEF Sited, Building, Owner
    <3> QED
      BY <1>7, <3>3, <3>4
  <2>2. Aside(t) /\ task'[t].b \in {0, host'.current}
    <3>1. CASE task' = [task EXCEPT ![t] = NoTask]
      BY <1>2, <1>4, <1>7, <3>1, RestOne DEF Aside
    <3>2. CASE task' = [task EXCEPT ![t] = x]
      <4>1. x.pc = "debug" /\ x.kind = c.kind /\ x.b = host'.current /\ ~Closer(x)
        BY <1>3 DEF Closer, Stops, Inside
      <4> HIDE DEF x
      <4> QED
        BY <1>2, <1>7, <3>2, <4>1, RestOne DEF Aside
    <3> QED
      BY <1>7, <3>1, <3>2
  <2>3. host.active.phase = "stopped"
    BY <1>7 DEF CanActivate
  <2>4. \A u \in Task : ~Stops(task[u])
    BY <2>3 DEF Sound, CallsOK, CallOK, Stops
  <2>5. Basics'
    BY <2>1, <2>2, <2>4, AsidePlain
  <2>6. ASSUME Handles PROVE Handles'
    <3>1. \A b \in Main : ~Open(bridge[b])
      BY <2>3, <2>6 DEF Handles, OpenOK
    <3>2. \A u \in Task : ~OpensIn(task[u])
      BY <2>3, <2>6 DEF Handles, WaitsOK, OpensIn
    <3>3. \A u \in Task : ~OpensIn(task'[u])
      BY <2>2, <3>2, AsideFacts DEF OpensIn, Same
    <3>4. \A u \in Task : ~Opener(u)'
      <4> SUFFICES ASSUME NEW u \in Task, Began(task'[u]), task'[u].gen = host'.active.gen
                   PROVE  FALSE
        BY DEF Opener, Current, IsActive, Owns
      <4>1. Began(task[u]) /\ task[u].gen = host'.active.gen
        BY <2>2, AsideFacts DEF Same
      <4>2. task[u].gen <= host.active.gen /\ task[u].gen \in Nat
        BY <4>1, BeganFacts DEF Began, Starts, Sound, CallsOK, CallOK
      <4>3. host.active.gen \in Nat /\ host'.active.gen \in Nat
        BY DEF Sound, HostOK, HostShape, Owner
      <4> QED
        BY <2>1, <4>1, <4>2, <4>3
    <3>5. RunsOK'
      BY <2>2, <2>6, AsideFacts DEF Handles, RunsOK, Same, Aside
    <3>6. DbOK' /\ OpenOK'
      BY <2>2, <2>6, <3>1 DEF Handles, DbOK, OpenOK, Aside
    <3>7. WaitsOK' /\ GoingOK' /\ StopFlag'
      BY <2>1, <3>3, <3>4 DEF WaitsOK, GoingOK, StopFlag, OpensIn
    <3> QED
      BY <3>5, <3>6, <3>7 DEF Handles
  <2> QED
    BY <2>5, <2>6 DEF Grows
<1> QED
  BY <1>1, <1>5, <1>6, <1>7

-----------------------------------------------------------------------------
(* A generation begins, a service starts.                                  *)

LEMMA RestFacts ==
  ASSUME NEW t \in Task, Rest(t)
  PROVE  \A u \in Task \ {t} :
           /\ Same(task[u], task'[u]) /\ task'[u].pc = task[u].pc /\ task'[u].hold = task[u].hold
           /\ task'[u].data = task[u].data
           /\ (Began(task'[u]) <=> Began(task[u])) /\ (Stops(task'[u]) <=> Stops(task[u]))
           /\ (Starts(task'[u]) <=> Starts(task[u])) /\ (OpensIn(task'[u]) <=> OpensIn(task[u]))
           /\ task'[u].b = task[u].b /\ task'[u].sgen = task[u].sgen
BY DEF Rest, Same, Began, Starts, Stops, Inside, OpensIn

LEMMA BeginsStoreGrows == ASSUME Sound, Sound', Basics, NEW t \in Task, BeginsStore(t) PROVE Grows
<1> DEFINE c == task[t]
           b == c.b
           s == bridge[b]
           n == BeginLifecycle(s)
           x == [c EXCEPT !.pc = "prepare", !.sgen = n.gen]
<1>1. /\ c.kind = "start" /\ c.pc = "debug" /\ UNCHANGED <<disk, clock, ghost, left, host>>
      /\ IF CanStart(host, c.reg, c.gen)
         THEN /\ bridge' = [bridge EXCEPT ![b] = BeginLifecycle(@)]
              /\ task' = [task EXCEPT ![t].pc = "prepare", ![t].sgen = bridge'[b].gen]
         ELSE task' = [task EXCEPT ![t] = NoTask] /\ bridge' = bridge
  BY DEF BeginsStore
<1>2. /\ ~Closer(c) /\ ~Began(c) /\ ~Stops(c) /\ c \in Call(clock) /\ CallOK(c, host)
      /\ task \in [Task -> Call(clock)] /\ NoTask.kind = "idle" /\ NoTask.b = 0 /\ NoTask.pc = "idle"
  BY <1>1, NotClosing DEF Sound, StoreTypes, TasksOK, CallsOK, Closer, Began, NoTask
<1>3. b \in Main /\ b \in Bridge /\ ~Waits(c) /\ Starts(c)
  BY <1>1, <1>2 DEF CallOK, Waits, Main, Starts
<1>4. /\ s \in Memory(clock) /\ HandleOK(s) /\ bridge \in [Bridge -> Memory(clock)]
      /\ s.gen \in Nat /\ s.db \in Nat
  BY <1>3, BridgeFacts
<1>5. /\ n.gen = s.gen + 1 /\ ~n.closed /\ n.db = s.db /\ n.started = s.started
      /\ n.path = s.path /\ n.q = s.q /\ n.stopped = s.stopped
  BY <1>4 DEF BeginLifecycle, Memory
<1>6. CASE ~CanStart(host, c.reg, c.gen)
  <2>1. Aside(t) /\ task'[t] = NoTask
    BY <1>1, <1>2, <1>6, RestOne DEF Aside, Closer, Stops, Starts
  <2>2. Steps(t)
    BY <1>2, <2>1, AsideFacts DEF Steps
  <2>3. Sedate(b) /\ SameHost
    BY <1>1, <1>3, <1>6 DEF Sedate, SameHost
  <2>4. Mild
    BY <1>3, <2>1, <2>2, <2>3, MildTurn DEF Aside
  <2> QED
    BY <2>4, MildGrows
<1>7. CASE CanStart(host, c.reg, c.gen)
  <2>1. bridge' = [bridge EXCEPT ![b] = n]
    BY <1>1, <1>4, <1>7
  <2>2. bridge'[b] = n /\ \A d \in Bridge \ {b} : bridge'[d] = bridge[d]
    BY <1>3, <1>4, <2>1
  <2>3. task' = [task EXCEPT ![t] = x]
    BY <1>1, <1>2, <1>7, <2>2
  <2>4. x.pc = "prepare" /\ x.sgen = s.gen + 1 /\ x.kind = c.kind /\ x.b = b /\ x.reg = c.reg
        /\ x.gen = c.gen
    BY <1>2, <1>5 DEF Call
  <2> HIDE DEF x, n
  <2>5. Rest(t) /\ task'[t] = x
    BY <2>3, RestOne
  <2>6. Began(x) /\ ~Stops(x) /\ x.pc # "fopen" /\ ~OpensIn(x)
    BY <1>1, <2>4 DEF Began, Starts, Inside, Stops, OpensIn
  <2>7. \A d \in Bridge : bridge[d].gen \in Nat /\ bridge'[d].gen \in Nat /\ bridge'[d].gen >= bridge[d].gen
                          /\ bridge'[d].q = bridge[d].q /\ bridge'[d].path = bridge[d].path
                          /\ bridge'[d].db = bridge[d].db
    BY <1>4, <1>5, <2>2, BridgeFacts
  <2>8. \A u \in Task : Began(task[u]) => task[u].b \in Bridge /\ task[u].sgen \in Nat
    BY BeganFacts
  <2>9. Basics'
    <3>1. GensOK'
      <4> SUFFICES ASSUME NEW u \in Task, Began(task'[u])
                   PROVE  task'[u].sgen \in 1..bridge'[task'[u].b].gen
        BY DEF GensOK
      <4>1. CASE u = t
        BY <1>4, <1>5, <2>2, <2>4, <2>5, <4>1
      <4>2. CASE u # t
        <5>1. Began(task[u]) /\ task'[u].b = task[u].b /\ task'[u].sgen = task[u].sgen
          BY <2>5, <4>2, RestFacts
        <5>2. task[u].sgen \in 1..bridge[task[u].b].gen /\ task[u].b \in Bridge
          BY <2>8, <5>1 DEF Basics, GensOK
        <5> QED
          BY <2>7, <5>1, <5>2
      <4> QED
        BY <4>1, <4>2
    <3>2. ApartOK'
      <4>1. \A u \in Task \ {t} : ~(Began(task'[u]) /\ task'[u].b = b /\ task'[u].sgen = s.gen + 1)
        <5> SUFFICES ASSUME NEW u \in Task \ {t}, Began(task[u]), task[u].b = b,
                            task[u].sgen = s.gen + 1
                     PROVE  FALSE
          BY <2>5, RestFacts
        <5> QED
          BY <1>4 DEF Basics, GensOK
      <4>2. ASSUME NEW u \in Task \ {t}, NEW v \in Task \ {t}, Began(task'[u]), Began(task'[v]),
                   task'[u].b = task'[v].b, task'[u].sgen = task'[v].sgen
            PROVE  u = v
        BY <2>5, <4>2, RestFacts DEF Basics, ApartOK
      <4> QED
        BY <2>4, <2>5, <4>1, <4>2 DEF ApartOK
    <3>3. PathOK'
      <4>1. ASSUME NEW d \in Main, bridge'[d].path PROVE bridge'[d].gen > 0
        <5>1. d \in Bridge /\ bridge[d].path
          BY <2>7, <4>1 DEF Main
        <5>2. bridge[d].gen > 0
          BY <5>1 DEF Basics, PathOK
        <5> QED
          BY <2>7, <5>1, <5>2
      <4>2. ASSUME NEW u \in Task, Began(task'[u]), task'[u].pc # "prepare"
            PROVE  bridge'[task'[u].b].path
        <5>1. u # t
          BY <2>4, <2>5, <4>2
        <5>2. Began(task[u]) /\ task[u].pc # "prepare" /\ task'[u].b = task[u].b
          BY <2>5, <4>2, <5>1, RestFacts
        <5> QED
          BY <2>7, <2>8, <5>2 DEF Basics, PathOK
      <4> QED
        BY <4>1, <4>2 DEF PathOK
    <3>4. StopsOK'
      BY <1>1, <2>5, <2>6, RestFacts DEF Basics, StopsOK
    <3>5. GoodDisk'
      BY <1>1, <2>7 DEF Basics, GoodDisk
    <3>6. UnbuiltOK'
      <4>1. \A u \in Task : task'[u].b = task[u].b
        BY <2>4, <2>5, RestFacts
      <4> QED
        BY <1>1, <2>7, <4>1, PoolFacts DEF Basics, UnbuiltOK
    <3> QED
      BY <3>1, <3>2, <3>3, <3>4, <3>5, <3>6 DEF Basics
  <2>10. ASSUME Leases, Handles PROVE Handles'
    <3>1. /\ b = host.current /\ ~s.started /\ host.active.phase = "active"
          /\ IsActive(host, c.reg, c.gen)
      BY <1>3, <1>7, <2>10 DEF CanStart, IsActive, Leases, StartOK
    <3>2. \A u \in Task : Starts(task[u]) /\ IsActive(host, task[u].reg, task[u].gen) => u = t
      BY <1>3, <2>10, <3>1 DEF Leases, OneStart, IsActive, Owns
    <3>3. ~Open(s)
      <4> SUFFICES ASSUME Open(s) PROVE FALSE
        OBVIOUS
      <4>1. PICK u \in Task : Opener(u)
        BY <1>3, <2>10, <3>1 DEF Handles, OpenOK
      <4>2. u = t
        BY <3>2, <4>1 DEF Opener, Began, Current
      <4> QED
        BY <1>2, <4>1, <4>2 DEF Opener
    <3>4. s.db = 0
      BY <1>4, <3>3 DEF Open, HandleOK
    <3>5. \A d \in Main \ {b} : ~Open(bridge[d]) /\ bridge'[d] = bridge[d]
      BY <2>2, <2>10, <3>1 DEF Handles, OpenOK, Main
    <3>6. \A u \in Task : ~OpensIn(task[u])
      BY <2>10, <3>1, <3>3 DEF Handles, WaitsOK, OpensIn
    <3>7. \A u \in Task : ~OpensIn(task'[u])
      BY <2>5, <2>6, <3>6, RestFacts
    <3>8. DbOK'
      BY <1>5, <2>2, <2>10, <3>4, <3>5 DEF Handles, DbOK
    <3>9. RunsOK'
      <4> SUFFICES ASSUME NEW d \in Main, bridge'[d].started
                   PROVE  /\ bridge'[d].db > 0
                          /\ \A u \in Task : Began(task'[u]) /\ task'[u].b = d
                               => task'[u].sgen # bridge'[d].gen
        BY DEF RunsOK
      <4>1. d # b
        BY <1>5, <2>2, <3>1
      <4>2. bridge'[d] = bridge[d]
        BY <3>5, <4>1
      <4>3. \A u \in Task : Began(task'[u]) /\ task'[u].b = d =>
                              Began(task[u]) /\ task[u].b = d /\ task'[u].sgen = task[u].sgen
        BY <2>4, <2>5, <4>1, RestFacts
      <4> QED
        BY <2>10, <4>2, <4>3 DEF Handles, RunsOK
    <3>10. Opener(t)'
      BY <1>1, <2>4, <2>5, <2>6, <3>1 DEF Opener, Current
    <3>11. OpenOK'
      BY <1>1, <2>2, <3>1, <3>5, <3>10 DEF OpenOK
    <3>12. GoingOK'
      <4> SUFFICES ASSUME NEW u \in Task, Opener(u)'
                   PROVE  LET r == bridge'[host'.current] IN
                          /\ ~r.closed /\ (task'[u].pc # "prepare" => task'[u].hold = r.gen)
                          /\ task'[u].pc \notin {"prepare", "open"} => r.db > 0
        BY DEF GoingOK
      <4>1. u = t
        <5> SUFFICES ASSUME u # t PROVE FALSE
          OBVIOUS
        <5>1. Began(task[u]) /\ Same(task[u], task'[u])
          BY <2>5, RestFacts DEF Opener
        <5>2. IsActive(host, task[u].reg, task[u].gen)
          BY <1>1, <5>1 DEF Opener, Current, Same
        <5> QED
          BY <3>2, <5>1, <5>2 DEF Began
      <4> QED
        BY <1>1, <1>5, <2>2, <2>4, <2>5, <3>1, <4>1
    <3>13. WaitsOK' /\ StopFlag'
      BY <1>1, <3>1, <3>7 DEF WaitsOK, StopFlag, OpensIn
    <3> QED
      BY <3>8, <3>9, <3>11, <3>12, <3>13 DEF Handles
  <2> QED
    BY <2>9, <2>10 DEF Grows
<1> QED
  BY <1>6, <1>7

(* A start is over, with its bridge as it was or closed.                   *)
LEMMA OverPlain ==
  ASSUME Sound, Sound', Basics, NEW t \in Task, Began(task[t]), Rest(t), task'[t] = NoTask,
         disk' = disk, Sited(host, host'),
         NEW n, bridge' = [bridge EXCEPT ![task[t].b] = n],
         LET s == bridge[task[t].b] IN
         n.gen = s.gen /\ n.path = s.path /\ n.q = s.q /\ n.db \in {s.db, 0}
  PROVE  Basics'
<1> DEFINE b == task[t].b
           s == bridge[b]
<1>1. b \in Bridge /\ \A d \in Bridge : bridge[d].gen \in Nat /\ bridge[d].db \in Nat
  BY BeganFacts, BridgeFacts
<1>2. bridge'[b] = n /\ \A d \in Bridge \ {b} : bridge'[d] = bridge[d]
  BY <1>1, BridgeFacts
<1>3. NoTask.kind = "idle" /\ NoTask.b = 0 /\ NoTask.pc = "idle"
  BY DEF NoTask
<1>4. \A d \in Bridge :
        /\ bridge'[d].gen >= bridge[d].gen
        /\ bridge[d].path => bridge'[d].path
        /\ bridge'[d].path => bridge[d].path
        /\ bridge'[d].q = bridge[d].q
        /\ bridge'[d].db > 0 => bridge[d].db > 0
  BY <1>1, <1>2
<1>5. ASSUME NEW u \in Task
      PROVE  /\ Began(task'[u]) =>
                  /\ Began(task[u]) /\ Same(task[u], task'[u])
                  /\ task'[u].pc # "prepare" => task[u].pc # "prepare" \/ bridge'[task[u].b].path
             /\ Stops(task'[u]) =>
                  Stops(task[u]) /\ task'[u].b = task[u].b /\ host'.current = host.current
             /\ task'[u].pc = "fopen" /\ Starts(task'[u]) => task[u].pc = "fopen" /\ Starts(task[u])
             /\ task'[u].b \in {task[u].b, 0, Foreign, host.current, host'.current}
  <2>1. CASE u = t
    BY <1>3, <2>1 DEF Began, Starts, Stops
  <2>2. CASE u # t
    BY <2>2, RestFacts DEF Sited
  <2> QED
    BY <2>1, <2>2
<1>6. Building(host, host')
  BY DEF Building, Sited
<1>7. Plain
  BY <1>4, <1>5, <1>6 DEF Plain
<1> QED
  BY <1>7, PlainKeeps

LEMMA StartedGrows ==
  ASSUME Sound, Sound', Basics, NEW t \in Task, Started(t), MayRun(t)
  PROVE  Grows
<1> DEFINE c == task[t]
           b == c.b
           s == bridge[b]
           n == [s EXCEPT !.started = TRUE]
           br == [bridge EXCEPT ![b].started = TRUE]
           run == Running(host, br)
<1>1. /\ c.pc = "tail" /\ UNCHANGED <<disk, clock, ghost, left>>
      /\ \/ /\ Current(c) /\ bridge' = br
            /\ host' = Probe(host, c.reg, c.gen, run, FALSE)
            /\ task' = [task EXCEPT ![t] = NoTask]
         \/ GivesUp(t)
  BY DEF Started
<1>2. /\ Began(c) /\ b \in Bridge /\ b \in Main /\ s \in Memory(clock) /\ HandleOK(s)
      /\ bridge \in [Bridge -> Memory(clock)] /\ s.gen \in Nat /\ s.db \in Nat
      /\ c.reg \in Reg /\ Tame(s, s) /\ Starts(c)
  BY <1>1, FurtherBegan, BeganFacts, BridgeFacts DEF Further
<1>3. HostOK(host) /\ Fielded(host)
  BY ShapeComplete DEF Sound, HostOK
<1>4. NoTask.kind = "idle" /\ NoTask.b = 0 /\ NoTask.pc = "idle" /\ ~Began(NoTask)
      /\ ~OpensIn(NoTask)
  BY DEF NoTask, Began, Starts, OpensIn
<1>5. ASSUME Leases, Handles, Current(c)
      PROVE  /\ b = host.current /\ ~s.started /\ host.active.phase = "active"
             /\ c.sgen = s.gen /\ ~s.closed /\ s.db = s.gen /\ s.gen > 0 /\ Open(s)
             /\ \A u \in Task \ {t} : ~Opener(u)
             /\ \A d \in Main \ {b} : ~Open(bridge[d])
  <2>1. Opener(t)
    <3>1. Began(task[t]) /\ Current(task[t])
      BY <1>2, <1>5
    <3> QED
      BY <3>1 DEF Opener
  <2>2. /\ b = host.current /\ ~s.started /\ host.active.phase = "active"
        /\ c.sgen = s.gen /\ \A u \in Task \ {t} : ~Opener(u)
    BY <1>5, <2>1, OpenerFacts
  <2>3. ~s.closed /\ s.db > 0
    BY <1>1, <1>5, <2>1, <2>2 DEF Handles, GoingOK
  <2>4. s.db = s.gen
    BY <1>2, <1>5, <2>3 DEF Handles, DbOK
  <2>5. \A d \in Main \ {b} : ~Open(bridge[d])
    BY <1>5, <2>2 DEF Handles, OpenOK
  <2> QED
    BY <1>2, <2>2, <2>3, <2>4, <2>5 DEF Open
<1>6. CASE /\ Current(c) /\ bridge' = br
           /\ host' = Probe(host, c.reg, c.gen, run, FALSE)
           /\ task' = [task EXCEPT ![t] = NoTask]
  <2>1. bridge' = [bridge EXCEPT ![b] = n]
    BY <1>2, <1>6
  <2>2. /\ n.gen = s.gen /\ n.path = s.path /\ n.q = s.q /\ n.db = s.db /\ n.closed = s.closed
        /\ n.stopped = s.stopped
    BY <1>2 DEF Memory
  <2> HIDE DEF n, br, run
  <2>3. PICK no : no = FALSE
    OBVIOUS
  <2>4. host' = Probe(host, c.reg, c.gen, run, no)
    BY <1>6, <2>3
  <2>5. Sited(host, host') /\ host'.active = host.active
    BY <1>3, <2>4, ProbeSited
  <2>6. Rest(t) /\ task'[t] = NoTask
    BY <1>6, RestOne
  <2>7. Basics'
    BY <1>1, <1>2, <2>1, <2>2, <2>5, <2>6, OverPlain
  <2>8. bridge'[b] = n /\ \A d \in Bridge \ {b} : bridge'[d] = bridge[d]
    BY <1>2, <2>1
  <2>9. ASSUME Leases, Leases', Handles PROVE Handles'
    <3>1. DbOK'
      BY <2>2, <2>8, <2>9 DEF Handles, DbOK, Main
    <3>2. RunsOK'
      <4> SUFFICES ASSUME NEW d \in Main, bridge'[d].started
                   PROVE  /\ bridge'[d].db > 0
                          /\ \A u \in Task : Began(task'[u]) /\ task'[u].b = d
                               => task'[u].sgen # bridge'[d].gen
        BY DEF RunsOK
      <4>1. \A u \in Task : Began(task'[u]) =>
              u # t /\ Began(task[u]) /\ task'[u].b = task[u].b /\ task'[u].sgen = task[u].sgen
        BY <1>4, <2>6, RestFacts
      <4>2. CASE d # b
        <5>1. bridge'[d] = bridge[d]
          BY <2>8, <4>2 DEF Main
        <5> QED
          BY <2>9, <4>1, <5>1 DEF Handles, RunsOK
      <4>3. CASE d = b
        BY <1>2, <1>5, <1>6, <2>2, <2>8, <2>9, <4>1, <4>3 DEF Basics, ApartOK
      <4> QED
        BY <4>2, <4>3
    <3>3. bridge'[b].started
      <4>1. "started" \in DOMAIN s
        BY <1>2 DEF Memory
      <4> QED
        BY <2>8, <4>1 DEF n
    <3>4. OpenOK'
      BY <1>5, <1>6, <2>5, <2>8, <2>9, <3>3 DEF OpenOK, Sited, Main
    <3>5. WaitsOK'
      <4> SUFFICES ASSUME NEW u \in Task, OpensIn(task'[u])
                   PROVE  LET r == bridge'[host'.current] IN
                          /\ task'[u].b = host'.current /\ r.path
                          /\ host'.active.phase = "active" /\ Open(r) /\ task'[u].hold = r.gen
        BY DEF WaitsOK, OpensIn
      <4>1. u # t /\ OpensIn(task[u]) /\ task'[u].b = task[u].b /\ task'[u].hold = task[u].hold
        BY <1>4, <2>6, RestFacts
      <4>2. /\ task[u].b = host.current /\ s.path
            /\ host.active.phase = "active" /\ Open(s) /\ task[u].hold = s.gen
        BY <1>5, <1>6, <2>9, <4>1 DEF Handles, WaitsOK, OpensIn
      <4> QED
        BY <1>5, <1>6, <2>2, <2>5, <2>8, <2>9, <4>1, <4>2 DEF Sited, Open
    <3>6. \A u \in Task : ~Opener(u)'
      <4> SUFFICES ASSUME NEW u \in Task, Opener(u)' PROVE FALSE
        OBVIOUS
      <4>1. u # t /\ Began(task[u]) /\ Same(task[u], task'[u])
        BY <1>4, <2>6, RestFacts DEF Opener
      <4>2. Opener(u)
        BY <2>5, <4>1 DEF Opener, Current, IsActive, Owns, Same
      <4> QED
        BY <1>5, <1>6, <2>9, <4>1, <4>2
    <3>7. StopFlag' /\ GoingOK'
      BY <1>5, <1>6, <2>5, <2>9, <3>6 DEF StopFlag, GoingOK
    <3> QED
      BY <3>1, <3>2, <3>4, <3>5, <3>7 DEF Handles
  <2> QED
    BY <2>7, <2>9 DEF Grows
<1>7. CASE GivesUp(t) /\ ~Current(c)
  <2>1. Mild
    BY <1>1, <1>2, <1>7, ThrowsMild
  <2> QED
    BY <2>1, MildGrows
<1>8. CASE GivesUp(t) /\ Current(c)
  <2> DEFINE r == CloseGeneration(s, c.sgen)
  <2>1. /\ bridge' = [bridge EXCEPT ![b] = r] /\ host' = host
        /\ task' = [task EXCEPT ![t] = NoTask]
    BY <1>2, <1>8 DEF GivesUp
  <2>2. /\ r.gen = s.gen /\ r.path = s.path /\ r.q = s.q /\ r.db \in {s.db, 0}
        /\ r.started = s.started
        /\ c.sgen = s.gen => r.closed /\ r.db = 0
    BY <1>2 DEF CloseGeneration, Memory
  <2> HIDE DEF r
  <2>3. Rest(t) /\ task'[t] = NoTask /\ Sited(host, host')
    BY <2>1, RestOne DEF Sited
  <2>4. Basics'
    BY <1>1, <1>2, <2>1, <2>2, <2>3, OverPlain
  <2>5. bridge'[b] = r /\ \A d \in Bridge \ {b} : bridge'[d] = bridge[d]
    BY <1>2, <2>1
  <2>6. ASSUME Leases, Leases', Handles PROVE Handles'
    <3>1. /\ r.closed /\ r.db = 0 /\ ~r.started
      BY <1>5, <1>8, <2>2, <2>6
    <3>2. \A u \in Task : ~OpensIn(task[u])
      <4> SUFFICES ASSUME NEW u \in Task, OpensIn(task[u]) PROVE FALSE
        OBVIOUS
      <4>1. task[u].b = b /\ task[u].hold = s.gen
        BY <1>5, <1>8, <2>6 DEF Handles, WaitsOK, OpensIn
      <4>2. Due(u)
        BY <1>5, <1>8, <2>6, <4>1 DEF Due, OpensIn
      <4>3. ~Due(t) /\ b # Foreign
        BY <1>1, <1>2 DEF Due, Main
      <4> QED
        BY <4>2, <4>3 DEF MayRun, Idles
    <3>3. \A d \in Main : ~Open(bridge'[d])
      BY <1>5, <1>8, <2>5, <2>6, <3>1 DEF Open, Main
    <3>4. \A u \in Task : ~OpensIn(task'[u])
      BY <1>4, <2>3, <3>2, RestFacts
    <3>5. \A u \in Task : ~Opener(u)'
      <4> SUFFICES ASSUME NEW u \in Task, Opener(u)' PROVE FALSE
        OBVIOUS
      <4>1. u # t /\ Began(task[u]) /\ Same(task[u], task'[u])
        BY <1>4, <2>3, RestFacts DEF Opener
      <4>2. Opener(u)
        BY <2>1, <4>1 DEF Opener, Current, IsActive, Owns, Same
      <4> QED
        BY <1>5, <1>8, <2>6, <4>1, <4>2
    <3>6. DbOK'
      BY <2>5, <2>6, <3>1 DEF Handles, DbOK, Main
    <3>7. RunsOK'
      <4> SUFFICES ASSUME NEW d \in Main, bridge'[d].started
                   PROVE  /\ bridge'[d].db > 0
                          /\ \A u \in Task : Began(task'[u]) /\ task'[u].b = d
                               => task'[u].sgen # bridge'[d].gen
        BY DEF RunsOK
      <4>1. bridge'[d] = bridge[d]
        BY <2>5, <3>1 DEF Main
      <4>2. \A u \in Task : Began(task'[u]) =>
              Began(task[u]) /\ task'[u].b = task[u].b /\ task'[u].sgen = task[u].sgen
        BY <1>4, <2>3, RestFacts
      <4> QED
        BY <2>6, <4>1, <4>2 DEF Handles, RunsOK
    <3>8. OpenOK' /\ WaitsOK' /\ GoingOK' /\ StopFlag'
      BY <1>5, <1>8, <2>1, <2>6, <3>3, <3>4, <3>5
      DEF OpenOK, WaitsOK, GoingOK, StopFlag, OpensIn
    <3> QED
      BY <3>6, <3>7, <3>8 DEF Handles
  <2> QED
    BY <2>4, <2>6 DEF Grows
<1> QED
  BY <1>1, <1>6, <1>7, <1>8

-----------------------------------------------------------------------------
(* A service stops, the process dies.                                      *)

LEMMA CallsStopGrows ==
  ASSUME Sound, Sound', Basics, NEW t \in Task, NEW r \in Reg, CallsStop(t, r), Idles
  PROVE  Grows
<1> DEFINE c == task[t]
           g == host.cb[r]
           b == host.current
           s == bridge[b]
           n == [s EXCEPT !.stopped = TRUE, !.started = FALSE, !.chan = FALSE, !.timer = FALSE]
           rec == [NoTask EXCEPT !.kind = "stop", !.reg = r, !.gen = g, !.b = b]
           straight == n.db > 0 \/ n.closed \/ ~n.path
           x == [rec EXCEPT !.pc = "fopen", !.hold = n.gen]
<1>1. /\ c.pc = "idle" /\ IsActive(host, r, g) /\ clock' = clock
      /\ host' = Retiring(host, r) /\ bridge' = [bridge EXCEPT ![b] = n]
      /\ straight => Snapshots(t, rec, n.db > 0, disk, "close")
      /\ ~straight => task' = [task EXCEPT ![t] = x] /\ disk' = disk
  BY DEF CallsStop, CallsFlush, Free
<1>2. HostOK(host) /\ HostShape(host) /\ host.active.phase = "active"
  BY <1>1 DEF Sound, HostOK, IsActive
<1>3. b \in Main /\ b \in Bridge /\ g \in Nat
  BY <1>1, <1>2 DEF HostOK, Based, Living, Main, HostShape
<1>4. /\ s \in Memory(clock) /\ bridge \in [Bridge -> Memory(clock)] /\ disk \in Directory(clock)
      /\ s.gen \in Nat /\ s.db \in Nat
  BY <1>3, BridgeFacts DEF Sound, StoreTypes, DiskOK
<1>5. /\ n.gen = s.gen /\ ~n.started /\ n.path = s.path /\ n.closed = s.closed
      /\ n.db = s.db /\ n.q = s.q /\ n.stopped
  BY <1>4 DEF Memory
<1>6. /\ rec \in Call(clock) /\ rec.kind = "stop" /\ rec.b = b /\ rec.pc = "idle"
      /\ x.kind = "stop" /\ x.b = b /\ x.pc = "fopen" /\ x.hold = n.gen
  <2>1. rec \in Call(clock) /\ rec.kind = "stop" /\ rec.b = b /\ rec.pc = "idle"
    BY <1>2, <1>3, NoTaskType DEF Call, Sound, StoreTypes, NoTask
  <2> HIDE DEF rec, n
  <2> QED
    BY <2>1 DEF Call
<1> HIDE DEF n, x
<1>7. ~Began(c) /\ ~Stops(c) /\ c.b = c.b
  BY <1>1, NotClosing DEF Closer, Began
<1>8. CallOK(c, host) /\ \A u \in Task : ~Stops(task[u])
  BY <1>2 DEF Sound, CallsOK, CallOK, Stops
<1>9. Sited(host, host') /\ host'.active.phase = "stopping"
  <2>1. Sited(host, host') /\ host'.active = [host.active EXCEPT !.phase = "stopping"]
    BY <1>1, <1>2, RetiringSited
  <2>2. "phase" \in DOMAIN host.active
    BY <1>2 DEF HostShape, Owner
  <2> QED
    BY <2>1, <2>2
<1>10. /\ Rest(t) /\ task'[t].kind = "stop" /\ task'[t].b = b /\ disk'.ok = disk.ok
       /\ ~straight => task'[t] = x
  <2>1. CASE straight
    <3> HIDE DEF rec
    <3>1. PICK open : open <=> n.db > 0
      OBVIOUS
    <3>0. Snapshots(t, rec, n.db > 0, disk, "close")
      BY <1>1, <2>1
    <3>2. Snapshots(t, rec, open, disk, "close")
      BY <3>0, <3>1 DEF Snapshots
    <3>3. Rest(t) /\ (task'[t] = Goes(rec, "close") \/ Writer(b, rec, task'[t])) /\ disk'.ok = disk.ok
      BY <1>4, <1>6, <3>2, RestSnapshots, SnapshotsDisk
    <3>4. Goes(rec, "close").kind = "stop" /\ Goes(rec, "close").b = b
      BY <1>6 DEF Goes, Call
    <3> QED
      BY <1>6, <2>1, <3>3, <3>4 DEF Writer, Same
  <2>2. CASE ~straight
    <3> HIDE DEF rec
    <3> QED
      BY <1>1, <1>6, <2>2, RestOne
  <2> QED
    BY <2>1, <2>2
<1> HIDE DEF rec
<1>11. Stops(task'[t]) /\ ~Began(task'[t]) /\ ~Starts(task'[t])
  BY <1>10 DEF Stops, Began, Starts
<1>12. bridge'[b] = n /\ \A d \in Bridge \ {b} : bridge'[d] = bridge[d]
  BY <1>1, <1>3, <1>4
<1>13. Basics'
  <2>1. \A d \in Bridge : bridge[d].gen \in Nat /\ bridge[d].db \in Nat
    BY BridgeFacts
  <2>2. \A d \in Bridge :
          /\ bridge'[d].gen = bridge[d].gen /\ bridge'[d].path = bridge[d].path
          /\ bridge'[d].q = bridge[d].q /\ bridge'[d].db = bridge[d].db
    BY <1>5, <1>12
  <2>3. ASSUME NEW u \in Task
        PROVE  /\ Began(task'[u]) =>
                    /\ Began(task[u]) /\ Same(task[u], task'[u])
                    /\ task'[u].pc # "prepare" => task[u].pc # "prepare" \/ bridge'[task[u].b].path
               /\ Stops(task'[u]) => task'[u].b = host'.current
               /\ task'[u].pc = "fopen" /\ Starts(task'[u]) => task[u].pc = "fopen" /\ Starts(task[u])
               /\ task'[u].b \in {task[u].b, 0, Foreign, host.current, host'.current}
    <3>1. CASE u = t
      BY <1>9, <1>10, <1>11, <3>1 DEF Sited
    <3>2. CASE u # t
      BY <1>8, <1>10, <3>2, RestFacts
    <3> QED
      BY <3>1, <3>2
  <2>4. Building(host, host')
    BY <1>9 DEF Building, Sited
  <2>5. Plain
    BY <1>10, <2>1, <2>2, <2>3, <2>4 DEF Plain
  <2> QED
    BY <2>5, PlainKeeps
<1>14. ASSUME Leases, Leases', Handles PROVE Handles'
  <2>1. DbOK'
    BY <1>5, <1>12, <1>14 DEF Handles, DbOK, Main
  <2>2. RunsOK'
    <3> SUFFICES ASSUME NEW d \in Main, bridge'[d].started
                 PROVE  /\ bridge'[d].db > 0
                        /\ \A u \in Task : Began(task'[u]) /\ task'[u].b = d
                             => task'[u].sgen # bridge'[d].gen
      BY DEF RunsOK
    <3>1. bridge'[d] = bridge[d]
      BY <1>5, <1>12 DEF Main
    <3>2. \A u \in Task : Began(task'[u]) =>
            Began(task[u]) /\ task'[u].b = task[u].b /\ task'[u].sgen = task[u].sgen
      BY <1>10, <1>11, RestFacts
    <3> QED
      BY <1>14, <3>1, <3>2 DEF Handles, RunsOK
  <2>3. \A d \in Main \ {b} : ~Open(bridge[d]) /\ bridge'[d] = bridge[d]
    BY <1>12, <1>14 DEF Handles, OpenOK, Main
  <2>4. OpenOK'
    <3> SUFFICES ASSUME NEW d \in Main, Open(bridge'[d])
                 PROVE  d = host'.current /\ host'.active.phase = "stopping"
                        /\ \E u \in Task : Stops(task'[u])
      BY DEF OpenOK
    <3> QED
      BY <1>9, <1>11, <2>3 DEF Sited
  <2>5. WaitsOK'
    <3> SUFFICES ASSUME NEW u \in Task, OpensIn(task'[u])
                 PROVE  /\ task'[u].b = b /\ n.path /\ Stops(task'[t])
                        /\ task'[t].pc = "fopen" /\ task'[u].hold = n.gen
      BY <1>9, <1>12 DEF WaitsOK, OpensIn, Sited
    <3>1. CASE u # t
      <4>1. OpensIn(task[u]) /\ task'[u].b = task[u].b /\ task'[u].hold = task[u].hold
        BY <1>10, <3>1, RestFacts
      <4>2. task[u].b = b /\ s.path /\ Open(s) /\ task[u].hold = s.gen
        BY <1>2, <1>14, <4>1 DEF Handles, WaitsOK, OpensIn
      <4>3. s.db = 0
        <5> SUFFICES ASSUME s.db > 0 PROVE FALSE
          BY <1>4
        <5>1. Due(u)
          BY <1>3, <1>14, <4>1, <4>2 DEF Handles, DbOK, Due, OpensIn
        <5> QED
          BY <5>1 DEF Idles
      <4>4. ~straight
        BY <1>5, <4>2, <4>3 DEF Open
      <4> QED
        BY <1>5, <1>6, <1>10, <1>11, <4>1, <4>2, <4>4
    <3>2. CASE u = t
      <4>1. ~straight
        <5> SUFFICES ASSUME straight PROVE FALSE
          OBVIOUS
        <5>1. PICK open : open <=> n.db > 0
          OBVIOUS
        <5>2. Snapshots(t, rec, open, disk, "close")
          BY <1>1, <5>1 DEF Snapshots
        <5>3. task'[t] = Goes(rec, "close") \/ Writer(b, rec, task'[t])
          BY <1>6, <5>2, RestSnapshots
        <5>4. Goes(rec, "close").pc = "close"
          BY <1>6 DEF Goes, Call
        <5> QED
          BY <3>2, <5>3, <5>4 DEF Writer, OpensIn
      <4> QED
        BY <1>5, <1>6, <1>10, <1>11, <3>2, <4>1
    <3> QED
      BY <3>1, <3>2
  <2>6. StopFlag' /\ GoingOK'
    BY <1>5, <1>9, <1>12 DEF StopFlag, GoingOK, Opener, Current, IsActive, Sited
  <2> QED
    BY <2>1, <2>2, <2>4, <2>5, <2>6 DEF Handles
<1> QED
  BY <1>13, <1>14 DEF Grows

LEMMA StoppedGrows == ASSUME Sound, Sound', Basics, NEW t \in Task, Stopped(t) PROVE Grows
<1> DEFINE c == task[t]
           b == c.b
           s == bridge[b]
           n == CloseAny(s)
           word == IF c.pc = "close" THEN "resolved" ELSE "rejected"
           over == c.pc = "close"
<1>1. /\ c.pc \in {"close", "closefail"} /\ disk' = disk
      /\ bridge' = [bridge EXCEPT ![b] = n] /\ host' = Settled(host, c.reg, over)
      /\ task' = [u \in Task |->
           CASE u = t -> NoTask
             [] u # t /\ task[u].pc = "await" -> [task[u] EXCEPT !.pc = word]
             [] OTHER -> task[u]]
  BY DEF Stopped
<1>2. HostOK(host) /\ HostShape(host) /\ c \in Call(clock) /\ CallOK(c, host)
  BY DEF Sound, StoreTypes, TasksOK, CallsOK, HostOK
<1>3. Stops(c)
  <2>1. c.kind \in {"idle", "start", "channel", "stop", "save"}
    BY <1>2 DEF Call
  <2> QED
    BY <1>1, <1>2, <2>1 DEF CallOK, Stops, Waits, Inside
<1>4. /\ b \in Main /\ b \in Bridge /\ b = host.current /\ host.active.phase = "stopping"
      /\ \A u \in Task : Stops(task[u]) => u = t
  BY <1>2, <1>3 DEF CallOK, Stops, Main, Basics, StopsOK, Sound, OneStop
<1>5. /\ s \in Memory(clock) /\ bridge \in [Bridge -> Memory(clock)] /\ s.gen \in Nat /\ s.db \in Nat
  BY <1>4, BridgeFacts
<1>6. /\ n.gen = s.gen + 1 /\ n.closed /\ n.db = 0 /\ n.started = s.started
      /\ n.path = s.path /\ n.q = s.q
  BY <1>5 DEF CloseAny, Memory
<1> HIDE DEF n
<1>7. bridge'[b] = n /\ \A d \in Bridge \ {b} : bridge'[d] = bridge[d]
  BY <1>1, <1>4, <1>5
<1>8. /\ Sited(host, host') /\ host'.active.phase \in {"stopped", "failed"}
      /\ host'.active.phase = "stopped" => over
  <2>1. "phase" \in DOMAIN host.active
    BY <1>2 DEF HostShape, Owner
  <2>2. host'.active = [host.active EXCEPT !.phase = IF over THEN "stopped" ELSE "failed"]
    BY <1>1, <1>2 DEF HostShape, Settled
  <2>3. PICK fine : fine <=> over
    OBVIOUS
  <2>4. host' = Settled(host, c.reg, fine)
    BY <1>1, <2>3 DEF Settled
  <2> HIDE DEF over
  <2>5. Sited(host, host')
    BY <1>2, <2>4, SettledSited
  <2> QED
    BY <2>1, <2>2, <2>5
<1>9. NoTask.kind = "idle" /\ NoTask.b = 0 /\ NoTask.pc = "idle"
  BY DEF NoTask
<1>10. ASSUME NEW u \in Task
       PROVE  /\ Began(task'[u]) => Began(task[u]) /\ Same(task[u], task'[u]) /\ task'[u].pc = task[u].pc
              /\ ~Stops(task'[u])
              /\ task'[u].b \in {task[u].b, 0}
              /\ task'[u].pc = "fopen" => task'[u] = task[u]
  <2>1. CASE u = t
    BY <1>1, <1>9, <2>1 DEF Began, Stops, Starts
  <2>2. CASE u # t /\ task[u].pc = "await"
    <3>1. task'[u] = [task[u] EXCEPT !.pc = word] /\ word \in {"resolved", "rejected"}
      BY <1>1, <2>2
    <3> HIDE DEF word
    <3>2. task[u] \in Call(clock)
      BY DEF Sound, StoreTypes, TasksOK
    <3>3. task'[u].pc = word /\ task'[u].kind = task[u].kind /\ task'[u].b = task[u].b
      BY <3>1, <3>2 DEF Call
    <3> QED
      BY <1>4, <2>2, <3>1, <3>3 DEF Began, Inside, Stops
  <2>3. CASE u # t /\ task[u].pc # "await"
    <3>1. task'[u] = task[u]
      BY <1>1, <2>3
    <3> QED
      BY <1>4, <2>3, <3>1 DEF Same
  <2> QED
    BY <2>1, <2>2, <2>3
<1>11. Basics'
  <2>1. \A d \in Bridge : /\ bridge[d].gen \in Nat /\ bridge[d].db \in Nat
                          /\ bridge'[d].gen >= bridge[d].gen
                          /\ bridge'[d].path = bridge[d].path /\ bridge'[d].q = bridge[d].q
                          /\ bridge'[d].db > 0 => bridge[d].db > 0
    BY <1>5, <1>6, <1>7, BridgeFacts
  <2>2. Building(host, host')
    BY <1>8 DEF Building, Sited
  <2>3. ASSUME NEW u \in Task
        PROVE  /\ Began(task'[u]) =>
                    /\ Began(task[u]) /\ Same(task[u], task'[u])
                    /\ task'[u].pc # "prepare" => task[u].pc # "prepare" \/ bridge'[task[u].b].path
               /\ ~Stops(task'[u])
               /\ task'[u].pc = "fopen" /\ Starts(task'[u]) => task[u].pc = "fopen" /\ Starts(task[u])
               /\ task'[u].b \in {task[u].b, 0, Foreign, host.current, host'.current}
    BY <1>10
  <2>4. disk' = disk
    BY <1>1
  <2>5. Plain
    BY <2>1, <2>2, <2>3, <2>4 DEF Plain
  <2> QED
    BY <2>5, PlainKeeps
<1>12. ASSUME Leases, Leases', Handles PROVE Handles'
  <2>1. \A d \in Main : ~bridge[d].started
    BY <1>4, <1>12 DEF Leases, Owned
  <2>2. DbOK'
    BY <1>6, <1>7, <1>12 DEF Handles, DbOK, Main
  <2>3. RunsOK'
    BY <1>6, <1>7, <2>1 DEF RunsOK, Main
  <2>4. \A d \in Main : ~Open(bridge'[d])
    BY <1>4, <1>6, <1>7, <1>12 DEF Handles, OpenOK, Open, Main
  <2>5. WaitsOK'
    <3> SUFFICES ASSUME NEW u \in Task, OpensIn(task'[u])
                 PROVE  task'[u].b = b /\ n.path /\ host'.active.phase = "failed"
      <4>1. host'.current = b /\ bridge'[b].path = n.path
        BY <1>4, <1>7, <1>8 DEF Sited
      <4> HIDE DEF b, over
      <4> QED
        BY <4>1 DEF WaitsOK, OpensIn
    <3>1. OpensIn(task[u]) /\ task'[u].b = task[u].b
      BY <1>10 DEF OpensIn
    <3>2. task[u].b = b /\ s.path /\ c.pc # "close"
      <4>1. /\ task[u].b = host.current /\ bridge[host.current].path
            /\ \E v \in Task : Stops(task[v]) /\ task[v].pc \in {"closefail", "fopen"}
        BY <1>4, <1>12, <3>1 DEF Handles, WaitsOK, OpensIn
      <4> QED
        BY <1>4, <4>1
    <3> QED
      BY <1>6, <1>8, <3>1, <3>2
  <2>6. OpenOK' /\ StopFlag' /\ GoingOK'
    BY <1>8, <2>4 DEF OpenOK, StopFlag, GoingOK, Opener, Current, IsActive
  <2> QED
    BY <2>2, <2>3, <2>5, <2>6 DEF Handles
<1> QED
  BY <1>11, <1>12 DEF Grows

(* Nothing of this process is left.                                        *)
LEMMA NewProcess ==
  ASSUME NEW dd, NEW br, NEW ts,
         \A b \in Main : br[b] = FreshBridge,
         \A t \in Task : ts[t] = NoTask \/ (ts[t].kind = "save" /\ ts[t].b = Foreign),
         (\E b \in Bridge : br[b].db > 0) => dd.ok
  PROVE  /\ \A b \in Main : br[b].db = 0 /\ ~br[b].started /\ ~Open(br[b]) /\ ~br[b].path
                            /\ br[b].q = Empty /\ br[b].gen = 0
         /\ \A t \in Task : /\ ~Began(ts[t]) /\ ~Stops(ts[t]) /\ ~Starts(ts[t]) /\ ~OpensIn(ts[t])
                            /\ ts[t].b \in {0, Foreign}
         /\ FreshHost.active.phase = "none" /\ FreshHost.current = 0 /\ FreshHost.made = 0
<1>1. \A b \in Main : br[b].db = 0 /\ ~br[b].started /\ ~Open(br[b]) /\ ~br[b].path
                      /\ br[b].q = Empty /\ br[b].gen = 0
  BY DEF FreshBridge, Open
<1>2. NoTask.kind = "idle" /\ NoTask.b = 0 /\ NoTask.pc = "idle"
  BY DEF NoTask
<1> QED
  BY <1>1, <1>2 DEF Began, Stops, Starts, OpensIn, Main, FreshHost, NoOwner

LEMMA CrashGrows == ASSUME Sound, Sound', Basics, Crash PROVE Grows
<1>1. /\ bridge' = [b \in Bridge |-> IF b \in Main THEN FreshBridge ELSE bridge[b]]
      /\ task' = [t \in Task |->
                    IF task[t].kind = "save" /\ task[t].b = Foreign THEN task[t] ELSE NoTask]
      /\ disk' = disk /\ host' = FreshHost
  BY DEF Crash
<1>2. /\ \A b \in Main : bridge'[b] = FreshBridge
      /\ \A t \in Task : task'[t] = NoTask \/ (task'[t].kind = "save" /\ task'[t].b = Foreign)
  BY <1>1 DEF Main
<1>3. (\E b \in Bridge : bridge'[b].db > 0) => disk'.ok
  BY <1>1 DEF Basics, GoodDisk, FreshBridge
<1>4. /\ \A b \in Main : bridge'[b].db = 0 /\ ~bridge'[b].started /\ ~Open(bridge'[b]) /\ ~bridge'[b].path
                         /\ bridge'[b].q = Empty /\ bridge'[b].gen = 0
      /\ \A t \in Task : /\ ~Began(task'[t]) /\ ~Stops(task'[t]) /\ ~Starts(task'[t])
                         /\ ~OpensIn(task'[t]) /\ task'[t].b \in {0, Foreign}
      /\ host'.active.phase = "none" /\ host'.current = 0 /\ host'.made = 0
  BY <1>1, <1>2, <1>3, NewProcess
<1>5. Basics'
  <2>1. GensOK' /\ ApartOK' /\ PathOK' /\ StopsOK'
    BY <1>4 DEF GensOK, ApartOK, PathOK, StopsOK
  <2>2. GoodDisk'
    BY <1>3 DEF GoodDisk
  <2>3. UnbuiltOK'
    BY <1>4, PoolFacts DEF UnbuiltOK
  <2> QED
    BY <2>1, <2>2, <2>3 DEF Basics
<1>6. Handles'
  BY <1>4 DEF Handles, DbOK, RunsOK, OpenOK, WaitsOK, StopFlag, GoingOK, Opener, OpensIn
<1> QED
  BY <1>5, <1>6 DEF Grows

LEMMA HInitially == Init => HInv
<1> SUFFICES ASSUME Init PROVE HInv
  OBVIOUS
<1>1. IInv
  BY Initially
<1>2. /\ \A b \in Main : bridge[b] = FreshBridge
      /\ \A t \in Task : task[t] = NoTask
      /\ disk.ok /\ host = FreshHost
  BY DEF Init, Main, Disk0
<1>4. /\ \A b \in Main : bridge[b].db = 0 /\ ~bridge[b].started /\ ~Open(bridge[b]) /\ ~bridge[b].path
                         /\ bridge[b].q = Empty /\ bridge[b].gen = 0
      /\ \A t \in Task : /\ ~Began(task[t]) /\ ~Stops(task[t]) /\ ~Starts(task[t])
                         /\ ~OpensIn(task[t]) /\ task[t].b \in {0, Foreign}
      /\ host.active.phase = "none" /\ host.current = 0 /\ host.made = 0
  BY <1>2, NewProcess
<1>5. Basics
  <2>1. GensOK /\ ApartOK /\ PathOK /\ StopsOK
    BY <1>4 DEF GensOK, ApartOK, PathOK, StopsOK
  <2>2. GoodDisk
    BY <1>2 DEF GoodDisk
  <2>3. UnbuiltOK
    BY <1>4, PoolFacts DEF UnbuiltOK
  <2> QED
    BY <2>1, <2>2, <2>3 DEF Basics
<1>6. Handles
  BY <1>4 DEF Handles, DbOK, RunsOK, OpenOK, WaitsOK, StopFlag, GoingOK, Opener, OpensIn
<1> QED
  BY <1>1, <1>5, <1>6 DEF HInv

LEMMA StartStepGrows ==
  ASSUME Sound, Sound', Basics, NEW t \in Task, StartStep(t), MayRun(t)
  PROVE  Grows
<1>1. CASE Activates(t)
  BY <1>1, ActivatesGrows
<1>2. CASE Rejected(t)
  BY <1>2, RejectedMild, MildGrows
<1>3. CASE ChannelStarts(t)
  BY <1>3, ChannelStartsMild, MildGrows
<1>4. CASE BeginsStore(t)
  BY <1>4, BeginsStoreGrows
<1>5. CASE Prepares(t)
  BY <1>5, PreparesMild, MildGrows
<1>6. CASE Opening(t)
  BY <1>6, OpeningMild, MildGrows
<1>7. CASE Loads(t)
  BY <1>7, LoadsMild, MildGrows
<1>8. CASE CutoverFlushes(t)
  BY <1>8, CutoverFlushesMild, MildGrows
<1>9. CASE CutoverCounts(t) \/ CutoverMoves(t) \/ CutoverEnds(t) \/ Refreshes(t)
  BY <1>9, CutoverMild, MildGrows
<1>10. CASE Started(t)
  BY <1>10, StartedGrows
<1> QED
  BY <1>1, <1>2, <1>3, <1>4, <1>5, <1>6, <1>7, <1>8, <1>9, <1>10 DEF StartStep

LEMMA HostStepGrows == ASSUME Sound, Sound', Basics, HostStep, Idles PROVE Grows
<1>1. CASE \E r \in Reg, c \in Code : Register(r, c)
  BY <1>1, RegisterGrows
<1>2. CASE \E r \in Reg : ObservationFires(r)
  BY <1>2, ObservationMild, MildGrows
<1>3. CASE \E r \in Reg : ChannelStops(r)
  BY <1>3, ChannelStopsMild, MildGrows
<1>4. CASE \E t \in Task, r \in Reg :
             CallsStart(t, "start", r) \/ CallsStart(t, "channel", r) \/ CallsStop(t, r)
  <2>1. PICK t \in Task, r \in Reg :
               CallsStart(t, "start", r) \/ CallsStart(t, "channel", r) \/ CallsStop(t, r)
    BY <1>4
  <2>2. CASE CallsStop(t, r)
    BY <2>2, CallsStopGrows
  <2>3. CASE CallsStart(t, "start", r) \/ CallsStart(t, "channel", r)
    <3>1. PICK kind \in {"start", "channel"} : CallsStart(t, kind, r)
      BY <2>3
    <3> QED
      BY <3>1, CallsStartGrows
  <2> QED
    BY <2>1, <2>2, <2>3
<1> QED
  BY <1>1, <1>2, <1>3, <1>4 DEF HostStep

LEMMA NextGrows == ASSUME Sound, Sound', Basics, Next PROVE Grows
<1>1. CASE Idles /\ HostStep
  BY <1>1, HostStepGrows
<1>2. CASE \E t \in Task : MayRun(t) /\ TaskStep(t)
  <2>1. PICK t \in Task : MayRun(t) /\ TaskStep(t)
    BY <1>2
  <2>2. CASE StartStep(t)
    BY <2>1, <2>2, StartStepGrows
  <2>3. CASE FlushStep(t)
    <3>1. (FlushOpens(t, AfterFlush(task[t])) \/ JsonLands(t, AfterFlush(task[t]))) /\ host' = host
      BY <2>3 DEF FlushStep, AfterFlush
    <3> QED
      BY <3>1, FlushOpensMild, JsonLandsMild, MildGrows
  <2>4. CASE FlushFails(t)
    BY <2>4, FlushFailsMild, MildGrows
  <2>5. CASE Stopped(t)
    BY <2>5, StoppedGrows
  <2> QED
    BY <2>1, <2>2, <2>3, <2>4, <2>5 DEF TaskStep
<1>3. CASE \E b \in Bridge : DataStep(b)
  BY <1>3, DataStepMild, MildGrows
<1>4. CASE Crash
  BY <1>4, CrashGrows
<1>5. CASE Corrupt /\ UNCHANGED host
  BY <1>5, CorruptMild, MildGrows
<1> QED
  BY <1>1, <1>2, <1>3, <1>4, <1>5 DEF Next

LEMMA HStep == HInv /\ [Next]_vars => HInv'
<1> SUFFICES ASSUME HInv, [Next]_vars PROVE HInv'
  OBVIOUS
<1>1. IInv' /\ Sound /\ Sound' /\ Basics
  BY Step DEF HInv, IInv
<1>2. Grows /\ (ghost.stray => ghost'.stray)
  <2>1. CASE Next
    BY <1>1, <2>1, NextGrows, NextUpholds DEF Upheld
  <2>2. CASE UNCHANGED vars
    <3>1. Mild
      BY <1>1, <2>2, StutterMild DEF vars, Sited
    <3> QED
      BY <1>1, <2>2, <3>1, MildGrows DEF vars
  <2> QED
    BY <2>1, <2>2
<1> QED
  BY <1>1, <1>2 DEF HInv, IInv, Grows

LEMMA HInvariant == Spec => []HInv
BY HInitially, HStep, PTL DEF Spec


-----------------------------------------------------------------------------
(* Where a message may be found.                                           *)

(* Message m is queued somewhere in directory d, or in a bridge or a write *)
(* of it.                                                                  *)
Somewhere(d, m) ==
  \/ d.rows[m] = "queued" \/ d.json[m] = "queued" \/ d.legacy[m] = "queued"
  \/ \E i \in 1..Len(d.snaps) : d.snaps[i].rows[m] = "queued"
Stored(m) == Somewhere(disk, m)
Held(b, m) ==
  bridge[b].q[m] = "queued" \/ \E t \in Task : task[t].b = b /\ task[t].data[m] = "queued"

(* A message nobody has accepted is nowhere.                               *)
KnownOK ==
  /\ ghost.endSaved \subseteq ghost.ended /\ ghost.ended \subseteq ghost.known
  /\ \A m \in Msg \ ghost.known : ~Stored(m) /\ \A b \in Bridge : ~Held(b, m)

(* A message of another agent is where it was accepted and nowhere else.   *)
AloneOK ==
  \A b \in Bridge, m \in Msg \ ghost.back : m \notin Own(b) /\ bridge[b].q[m] = "queued" =>
    m \notin ghost.ended /\ ~Stored(m) /\ \A c \in Bridge \ {b} : ~Held(c, m)

ForeignOK ==
  \A m \in (ghost.endSaved \ ghost.back) \cap Own(Foreign) : bridge[Foreign].q[m] # "queued"

(* Only a write of the JSON file has a snapshot.                           *)
DataOK == \A t \in Task : task[t].pc \notin {"fwrite", "closefail"} => task[t].data = Empty

PInv == KnownOK /\ AloneOK /\ ForeignOK /\ DataOK

-----------------------------------------------------------------------------
(* Ends.                                                                   *)

ours == {m \in Msg : \E b \in Main : m \in Own(b)}
Gone == (ghost.endSaved \ ghost.back) \cap ours

(* The database the next opening finds, and the JSON file the next load    *)
(* reads.                                                                  *)
Rowed(d, m) == Opens(d) /\ Recovered(d).rows[m] = "queued"
Filed(d, m) == Opens(d) /\ d.jsonAt /\ d.json[m] = "queued" /\ Recovered(d).mode # "sqlite"
InRows(m) == Rowed(disk, m)
InJson(m) == Filed(disk, m)

(* A write of the JSON file that would bring message m back.               *)
Writing(c) == c.pc = "fwrite" /\ c.b \in Main
Writes(u) == Writing(task[u])
Returns(u, m) == Writes(u) /\ ~task[u].stale /\ task[u].data[m] = "queued"
Dirty(m) == InJson(m) \/ \E u \in Task : Returns(u, m)

(* A write that takes it out again, and was begun later.                   *)
Covers(w, m) ==
  Writes(w) /\ task[w].data[m] # "queued" /\ \A u \in Task : Returns(u, m) => w \in task[u].newer
Covered(m) ==
  \/ \E b \in Main : bridge[b].started /\ bridge[b].timer
  \/ \E w \in Task : Covers(w, m) /\ (Stops(task[w]) \/ \E b \in Main : bridge[b].started)

Away(m) ==
  /\ ~InRows(m)
  /\ host.current # 0 => bridge[host.current].q[m] # "queued"
  /\ Dirty(m) => Covered(m)

AllAway == \A m \in Gone : Away(m)
EInv == ~ghost.stray => AllAway

-----------------------------------------------------------------------------
(* Opening the database.                                                   *)

LEMMA OpenedHas ==
  ASSUME NEW n \in Nat, NEW d, DiskOK(d, n), NEW b, bridge[b].db > 0 \/ Opens(d),
         bridge[b].db > 0 => d.ok
  PROVE  LET o == Opened(d, b) IN
         /\ o.json = d.json /\ o.jsonAt = d.jsonAt /\ o.legacy = d.legacy /\ o.ok
         /\ \A m \in Msg : /\ Somewhere(o, m) => Somewhere(d, m)
                           /\ o.rows[m] = "queued" <=> Rowed(d, m)
                           /\ Rowed(o, m) <=> Rowed(d, m)
                           /\ Filed(o, m) <=> Filed(d, m)
         /\ o.mode = Recovered(d).mode /\ o.rows = Recovered(d).rows
<1>0. d \in Directory(n)
  BY DEF DiskOK
<1>1. CASE bridge[b].db > 0
  <2>1. Opened(d, b) = d /\ d.ok
    BY <1>1 DEF Opened
  <2>2. Recovered(d) = d /\ Opens(d)
    BY <2>1 DEF Recovered, Opens
  <2> QED
    BY <2>1, <2>2 DEF Rowed
<1>2. CASE ~(bridge[b].db > 0)
  <2> DEFINE e == Recovered(d)
             c == Snapshot(e)
             all == <<c>> \o e.snaps
             k == IF Len(all) < SnapKeep THEN Len(all) ELSE SnapKeep
             o == Opened(d, b)
  <2>1. d.snaps \in Seq(Copy(n)) /\ Opens(d)
    BY <1>0, <1>2 DEF Directory
  <2>2. /\ e.snaps = d.snaps /\ e.ok /\ e.json = d.json /\ e.jsonAt = d.jsonAt /\ e.legacy = d.legacy
        /\ {"rows", "mode", "snaps", "ok", "json", "jsonAt", "legacy"} \subseteq DOMAIN e
        /\ e.rows = d.rows \/ (d.snaps # <<>> /\ e.rows = d.snaps[1].rows)
    <3>1. CASE d.ok
      BY <1>0, <3>1 DEF Recovered, Directory
    <3>2. CASE ~d.ok
      <4>1. d.snaps # <<>> /\ Newest(d) = d.snaps[1]
        BY <2>1, <3>2 DEF Opens, Newest
      <4> QED
        BY <1>0, <3>2, <4>1 DEF Recovered, Directory
    <3> QED
      BY <3>1, <3>2
  <2>3. o = [e EXCEPT !.snaps = SubSeq(all, 1, k)]
    BY <1>2 DEF Opened, Rotated
  <2>4. c.rows = e.rows
    BY DEF Snapshot
  <2> HIDE DEF e, c
  <2>5. e.snaps \in Seq(Copy(n)) /\ Len(e.snaps) \in Nat
    BY <2>1, <2>2
  <2>6. Len(all) = Len(e.snaps) + 1 /\ all[1] = c
        /\ \A i \in 2..Len(all) : all[i] = e.snaps[i - 1]
    BY <2>5
  <2> HIDE DEF all
  <2>7. k \in Nat /\ k <= Len(all) /\ k >= 1
    BY <2>5, <2>6, StateStoreAssumption
  <2> HIDE DEF k
  <2>8. Len(SubSeq(all, 1, k)) = k /\ \A i \in 1..k : SubSeq(all, 1, k)[i] = all[i]
    BY <2>6, <2>7
  <2> DEFINE some == SubSeq(all, 1, k)
  <2> HIDE DEF some
  <2>9. /\ o.json = d.json /\ o.jsonAt = d.jsonAt /\ o.legacy = d.legacy /\ o.ok
        /\ o.rows = e.rows /\ o.mode = e.mode /\ o.snaps = some
    BY <2>2, <2>3 DEF some
  <2> HIDE DEF o
  <2>10. Recovered(o) = o /\ Opens(o)
    BY <2>9 DEF Recovered, Opens
  <2>11. ASSUME NEW m \in Msg, Somewhere(o, m) PROVE Somewhere(d, m)
    <3>1. CASE o.rows[m] = "queued"
      <4>1. CASE e.rows = d.rows
        BY <2>9, <3>1, <4>1 DEF Somewhere
      <4>2. CASE d.snaps # <<>> /\ e.rows = d.snaps[1].rows
        <5>1. 1 \in 1..Len(d.snaps)
          BY <2>1, <4>2
        <5> QED
          BY <2>9, <3>1, <4>2, <5>1 DEF Somewhere
      <4> QED
        BY <2>2, <4>1, <4>2
    <3>2. CASE o.json[m] = "queued" \/ o.legacy[m] = "queued"
      BY <2>9, <3>2 DEF Somewhere
    <3>3. ASSUME NEW i \in 1..Len(o.snaps), o.snaps[i].rows[m] = "queued" PROVE Somewhere(d, m)
      <4>1. i \in 1..k /\ all[i].rows[m] = "queued"
        BY <2>8, <2>9, <3>3 DEF some
      <4>2. CASE i = 1
        <5>1. o.rows[m] = "queued"
          BY <2>4, <2>6, <2>9, <4>1, <4>2
        <5> QED
          BY <3>1, <5>1
      <4>3. CASE i # 1
        <5>1. all[i] = e.snaps[i - 1] /\ i - 1 \in 1..Len(d.snaps)
          BY <2>2, <2>5, <2>6, <2>7, <4>1, <4>3
        <5> QED
          BY <2>2, <4>1, <5>1 DEF Somewhere
      <4> QED
        BY <4>2, <4>3
    <3> QED
      BY <2>11, <3>1, <3>2, <3>3 DEF Somewhere
  <2>12. \A m \in Msg : /\ o.rows[m] = "queued" <=> Rowed(d, m)
                        /\ Rowed(o, m) <=> Rowed(d, m)
                        /\ Filed(o, m) <=> Filed(d, m)
    BY <2>1, <2>9, <2>10 DEF Rowed, Filed, e
  <2> QED
    BY <2>9, <2>11, <2>12 DEF o, e
<1> QED
  BY <1>1, <1>2

-----------------------------------------------------------------------------
(* What a step does to the places where a message may be.                  *)

(* It brings messages from a bridge to the disk, from the disk to a bridge *)
(* of this process, and ends some.                                         *)
Spread ==
  /\ ghost'.known = ghost.known /\ ghost.ended \subseteq ghost'.ended
  /\ ghost.endSaved \subseteq ghost'.endSaved /\ ghost.back \subseteq ghost'.back
  /\ DataOK'
  /\ \A m \in Msg : Stored(m)' =>
       Stored(m) \/ \E b \in Bridge : Held(b, m) /\ (m \in Own(b) \/ m \in ghost'.back)
  /\ \A b \in Bridge, m \in Msg : bridge'[b].q[m] = "queued" =>
       \/ bridge[b].q[m] = "queued"
       \/ b \in Main /\ Stored(m) /\ (m \in Own(b) \/ m \in ghost'.back)
  /\ \A b \in Bridge, m \in Msg, t \in Task :
       task'[t].b = b /\ task'[t].data[m] = "queued" => Held(b, m)
  /\ \A m \in ghost'.ended \ ghost.ended :
       m \in Msg /\ \E b \in Bridge : bridge[b].q[m] = "queued" /\ bridge'[b].q[m] # "queued"
  /\ \A m \in ghost'.endSaved \ ghost.endSaved :
       m \in ghost'.ended /\ \E b \in Bridge :
         bridge'[b].q[m] # "queued" /\ (m \in Own(b) \/ bridge[b].q[m] = "queued")

LEMMA SpreadKeeps == ASSUME PInv, Spread PROVE PInv'
<1>1. ASSUME NEW b \in Bridge, NEW m \in Msg, Held(b, m)' PROVE Held(b, m) \/ Stored(m)
  BY <1>1 DEF Spread, Held
<1>2. KnownOK'
  <2>1. ghost'.endSaved \subseteq ghost'.ended
    BY DEF Spread, PInv, KnownOK
  <2>2. ghost'.ended \subseteq ghost'.known
    BY DEF Spread, PInv, KnownOK, Held
  <2>3. ASSUME NEW m \in Msg \ ghost'.known PROVE ~Stored(m)' /\ \A b \in Bridge : ~Held(b, m)'
    <3>1. ~Stored(m) /\ \A b \in Bridge : ~Held(b, m)
      BY <2>3 DEF Spread, PInv, KnownOK
    <3>2. ~Stored(m)'
      BY <3>1 DEF Spread
    <3> QED
      BY <1>1, <3>1, <3>2
  <2> QED
    BY <2>1, <2>2, <2>3 DEF KnownOK
<1>3. AloneOK'
  <2> SUFFICES ASSUME NEW b \in Bridge, NEW m \in Msg \ ghost'.back, m \notin Own(b),
                      bridge'[b].q[m] = "queued"
               PROVE  m \notin ghost'.ended /\ ~Stored(m)' /\ \A c \in Bridge \ {b} : ~Held(c, m)'
    BY DEF AloneOK, Own
  <2>1. bridge[b].q[m] = "queued" /\ m \notin ghost.back
    BY DEF Spread
  <2>2. m \notin ghost.ended /\ ~Stored(m) /\ \A c \in Bridge \ {b} : ~Held(c, m)
    BY <2>1 DEF PInv, AloneOK
  <2>3. m \notin ghost'.ended
    BY <2>2 DEF Spread, Held
  <2>4. ~Stored(m)'
    BY <2>2 DEF Spread
  <2> QED
    BY <1>1, <2>2, <2>3, <2>4
<1>4. ForeignOK'
  <2> SUFFICES ASSUME NEW m \in (ghost'.endSaved \ ghost'.back) \cap Own(Foreign),
                      bridge'[Foreign].q[m] = "queued"
               PROVE  FALSE
    BY DEF ForeignOK, Own
  <2>0. Foreign \in Bridge /\ Foreign \notin Main /\ m \in Msg
    BY ServiceAssumption DEF Main, Own
  <2>1. bridge[Foreign].q[m] = "queued" /\ m \notin ghost.back
    BY <2>0 DEF Spread
  <2>2. m \notin ghost.endSaved
    BY <2>1 DEF PInv, ForeignOK
  <2>3. PICK b \in Bridge : bridge'[b].q[m] # "queued" /\ (m \in Own(b) \/ bridge[b].q[m] = "queued")
    BY <2>2 DEF Spread
  <2>4. b # Foreign /\ m \notin Own(b)
    BY <2>3, ServiceAssumption DEF Own
  <2>5. ~Held(Foreign, m)
    BY <2>0, <2>1, <2>3, <2>4 DEF PInv, AloneOK
  <2> QED
    BY <2>1, <2>5 DEF Held
<1> QED
  BY <1>2, <1>3, <1>4 DEF PInv, Spread

-----------------------------------------------------------------------------
(* Steps that put no message anywhere.                                     *)

Bears(t) ==
  \/ task'[t].data = Empty
  \/ /\ task'[t].data = task[t].data /\ task'[t].b = task[t].b
     /\ task'[t].pc \in {"fwrite", "closefail"}

SameNews ==
  /\ ghost'.known = ghost.known /\ ghost'.ended = ghost.ended
  /\ ghost'.endSaved = ghost.endSaved /\ ghost.back \subseteq ghost'.back

Thin ==
  /\ SameNews
  /\ \A t \in Task : Bears(t)
  /\ \A b \in Bridge : bridge'[b].q \in {bridge[b].q, Empty}
  /\ \A m \in Msg : Stored(m)' => Stored(m)

LEMMA EmptyHas == \A m \in Msg : Empty[m] # "queued"
BY DEF Empty

LEMMA BearsKeep ==
  ASSUME \A t \in Task : Bears(t)
  PROVE  /\ DataOK'
         /\ \A b \in Bridge, m \in Msg, t \in Task :
              task'[t].b = b /\ task'[t].data[m] = "queued" => Held(b, m)
<1>1. DataOK'
  BY DEF Bears, DataOK
<1> QED
  BY <1>1, EmptyHas DEF Bears, Held

LEMMA ThinSpread == ASSUME Thin PROVE Spread
<1>1. \A b \in Bridge, m \in Msg : bridge'[b].q[m] = "queued" => bridge[b].q[m] = "queued"
  BY EmptyHas DEF Thin
<1> QED
  BY <1>1, BearsKeep DEF Thin, SameNews, Spread

LEMMA RestBears ==
  ASSUME DataOK, NEW t \in Task, Rest(t), Bears(t)
  PROVE  \A u \in Task : Bears(u)
BY DEF DataOK, Rest, Same, Bears

(* A call that is not writing goes on and writes nothing.                  *)
LEMMA OneBears ==
  ASSUME DataOK, NEW t \in Task, Rest(t),
         \/ task'[t].data = Empty
         \/ task[t].pc \notin {"fwrite", "closefail"} /\ task'[t].data = task[t].data
  PROVE  \A u \in Task : Bears(u)
BY RestBears DEF DataOK, Bears

(* A step keeps all messages where they belong.                            *)
Lasts == (PInv => PInv') /\ (Leases /\ Handles /\ AllAway /\ ~ghost'.stray => AllAway')

SameWrites ==
  \A u \in Task :
    /\ Writing(task'[u]) <=> Writing(task[u])
    /\ Writing(task[u]) =>
         /\ task'[u].data = task[u].data /\ task'[u].newer = task[u].newer
         /\ task'[u].stale = task[u].stale /\ (Stops(task[u]) => Stops(task'[u]))

SameTimers ==
  \A b \in Main : bridge[b].started => bridge'[b].started /\ (bridge[b].timer => bridge'[b].timer)

SameStore ==
  \A m \in Gone' : (Rowed(disk', m) => Rowed(disk, m)) /\ (Filed(disk', m) => Filed(disk, m))

Unmoved == SameWrites /\ SameTimers /\ SameStore /\ Building(host, host')

(* Message m stays covered, or nothing is there to be covered.             *)
LEMMA SameCover ==
  ASSUME SameWrites, SameTimers, NEW m \in Msg, Dirty(m) => Covered(m),
         Filed(disk', m) => Filed(disk, m)
  PROVE  (Dirty(m) => Covered(m))'
<1>1. \A u \in Task : Returns(u, m)' <=> Returns(u, m)
  BY DEF SameWrites, Returns, Writes
<1>2. Dirty(m)' => Dirty(m)
  BY <1>1 DEF Dirty, InJson
<1>3. \A w \in Task : Covers(w, m) => Covers(w, m)'
  BY <1>1 DEF SameWrites, Covers, Returns, Writes
<1>4. \A w \in Task : Covers(w, m) => (Stops(task[w]) => Stops(task'[w]))
  BY DEF SameWrites, Covers, Writes
<1>5. Covered(m) => Covered(m)'
  BY <1>3, <1>4 DEF SameTimers, Covered
<1> QED
  BY <1>2, <1>5

LEMMA CurrentAway ==
  ASSUME Sound, Basics, Building(host, host'), NEW m \in Msg,
         host.current # 0 => bridge[host.current].q[m] # "queued",
         \A b \in Bridge : bridge'[b].q[m] = "queued" => bridge[b].q[m] = "queued"
  PROVE  host'.current # 0 => bridge'[host'.current].q[m] # "queued"
<1>1. host.current \in Bridge \cup {0} /\ host.made \in Nat /\ Len(Pool) \in Nat
  BY ServiceAssumption DEF Sound, HostOK, HostShape, Main
<1>2. CASE host'.current = host.current
  BY <1>1, <1>2
<1>3. CASE host.made < Len(Pool) /\ host'.made = host.made + 1 /\ host'.current = Pool[host'.made]
  <2>1. host'.made \in 1..Len(Pool) /\ host'.made > host.made
    BY <1>1, <1>3
  <2>2. host'.current \in Bridge /\ bridge[host'.current].q = Empty
    BY <1>3, <2>1, PoolFacts DEF Basics, UnbuiltOK
  <2> QED
    BY <2>2, EmptyHas
<1> QED
  BY <1>2, <1>3 DEF Building

LEMMA AwayKeeps ==
  ASSUME Sound, Basics, SameWrites, SameTimers, Building(host, host'), NEW m \in Msg, Away(m),
         Rowed(disk', m) => Rowed(disk, m), Filed(disk', m) => Filed(disk, m),
         \A b \in Bridge : bridge'[b].q[m] = "queued" => bridge[b].q[m] = "queued"
  PROVE  Away(m)'
<1>1. (Dirty(m) => Covered(m))'
  BY SameCover DEF Away
<1>2. host'.current # 0 => bridge'[host'.current].q[m] # "queued"
  BY CurrentAway DEF Away
<1> QED
  BY <1>1, <1>2 DEF Away, InRows

LEMMA UnmovedLasts ==
  ASSUME Sound, Basics, Thin, Handles => Unmoved
  PROVE  Lasts
<1>1. PInv => PInv'
  BY ThinSpread, SpreadKeeps
<1>2. ASSUME Unmoved, AllAway, NEW m \in Gone' PROVE Away(m)'
  <2>1. m \in Gone /\ m \in Msg
    BY DEF Gone, ours, Own, Thin, SameNews
  <2>2. Away(m)
    BY <1>2, <2>1 DEF AllAway
  <2>3. (Rowed(disk', m) => Rowed(disk, m)) /\ (Filed(disk', m) => Filed(disk, m))
    BY <1>2 DEF Unmoved, SameStore
  <2>5. \A b \in Bridge : bridge'[b].q[m] = "queued" => bridge[b].q[m] = "queued"
    BY <2>1, EmptyHas DEF Thin
  <2> QED
    BY <1>2, <2>1, <2>2, <2>3, <2>5, AwayKeeps DEF Unmoved
<1> QED
  BY <1>1, <1>2 DEF Lasts, AllAway

(* One call that is not writing moves on, or ends.                         *)
LEMMA OneWrites ==
  ASSUME NEW t \in Task, \A u \in Task \ {t} : task'[u] = task[u],
         ~Writing(task[t]), ~Writing(task'[t])
  PROVE  SameWrites
BY DEF SameWrites

LEMMA OneCall ==
  ASSUME Sound, DataOK, NEW t \in Task, NEW x, task' = [task EXCEPT ![t] = x],
         task[t].pc \notin {"fwrite", "closefail"}, x.pc # "fwrite", x.data \in {Empty, task[t].data}
  PROVE  (\A u \in Task : Bears(u)) /\ SameWrites
<1>1. Rest(t) /\ task'[t] = x /\ \A u \in Task \ {t} : task'[u] = task[u]
  BY RestOne DEF Sound, StoreTypes, TasksOK
<1>2. \A u \in Task : Bears(u)
  BY <1>1, OneBears
<1>3. SameWrites
  BY <1>1, OneWrites DEF Writing
<1> QED
  BY <1>2, <1>3

(* The queue of a bridge, that a save is due and that its service runs.    *)
Carries(r, s) == r.q = s.q /\ (s.timer => r.timer) /\ (s.started => r.started)
SameMemory == \A b \in Bridge : Carries(bridge'[b], bridge[b])

LEMMA OneMemory ==
  ASSUME Sound, NEW b \in Bridge, NEW r, bridge' = [bridge EXCEPT ![b] = r], Carries(r, bridge[b])
  PROVE  SameMemory
BY BridgeFacts DEF SameMemory, Carries

LEMMA ClosingKeeps ==
  ASSUME Sound, NEW b \in Bridge, NEW s, DOMAIN s = DOMAIN bridge[b], Carries(s, bridge[b]), NEW g
  PROVE  Carries(CloseGeneration(s, g), bridge[b]) /\ Carries(CloseAny(s), bridge[b])
BY BridgeFacts DEF CloseGeneration, CloseAny, Carries

(* Calls that are not writing go on, nothing moves on the disk.            *)
LEMMA StillLasts ==
  ASSUME Sound, Basics, \A u \in Task : Bears(u), SameWrites, SameMemory, SameNews, disk' = disk,
         Building(host, host')
  PROVE  Lasts
<1>1. Thin
  BY DEF Thin, SameMemory, Carries, Stored
<1>2. Unmoved
  BY DEF Unmoved, SameTimers, SameMemory, Carries, SameStore, Main
<1> QED
  BY <1>1, <1>2, UnmovedLasts

LEMMA SameBridges == ASSUME bridge' = bridge PROVE SameMemory
BY DEF SameMemory, Carries
LEMMA SameCalls == ASSUME DataOK, task' = task PROVE (\A u \in Task : Bears(u)) /\ SameWrites
BY DEF DataOK, Bears, SameWrites
LEMMA SameGhost == ASSUME ghost' = ghost PROVE SameNews
BY DEF SameNews
LEMMA BreakNews == ASSUME Sound, NEW t \in Task, ghost' = NoteBreak(t) PROVE SameNews
BY BreakNotes DEF SameNews, Sound, StoreTypes
LEMMA SameBuilding == ASSUME host'.made = host.made, host'.current = host.current
                      PROVE Building(host, host')
BY DEF Building

LEMMA RegisterLasts ==
  ASSUME Sound, Basics, PInv, NEW r \in Reg, NEW c \in Code, Register(r, c)
  PROVE  Lasts
<1>1. bridge' = bridge /\ task' = task /\ disk' = disk /\ ghost' = ghost
  BY DEF Register, storeVars
<1>2. Building(host, host')
  <2> DEFINE run == Running(host, bridge)
  <2>1. PICK outcome \in Outcomes(host, r, c) :
              /\ CanBuild(host, ModeOf(host, Plan(host, r, c), c))
              /\ host' = Registered(host, r, c, outcome, Running(host, bridge))
    BY DEF Register
  <2> HIDE DEF run
  <2> QED
    BY <2>1, RegisteredBuilds DEF Sound, HostOK
<1> QED
  BY <1>1, <1>2, StillLasts, SameBridges, SameCalls, SameGhost DEF PInv

LEMMA OverCall == NoTask.pc = "idle" /\ NoTask.data = Empty /\ NoTask.b = 0 /\ NoTask.kind = "idle"
BY DEF NoTask

(* Everybody has left the writing of the JSON file who is at another step. *)
LEMMA ObtainsLasts ==
  ASSUME Sound, Basics, PInv, NEW t \in Task, NEW rec, Obtains(t, rec),
         task[t].pc \notin {"fwrite", "closefail"},
         "pc" \in DOMAIN rec, "data" \in DOMAIN rec, rec.data \in {Empty, task[t].data}, host.current \in Main
  PROVE  Lasts
<1> DEFINE r == rec.reg
           g == rec.gen
           on == IsActive(host, r, g)
           run == Running(host, bridge)
           x == [rec EXCEPT !.pc = "debug", !.b = host'.current]
           late == ~on /\ \E u \in Task \ {t} : task[u].kind = "start" /\ task[u].gen = g
<1>1. /\ host' = IF on THEN Resumed(host, r, g, run) ELSE Reactivated(host, r, g, run)
      /\ on \/ CanReactivate(host, r, g)
      /\ task' = [task EXCEPT ![t] = x]
      /\ ghost' = [ghost EXCEPT !.stray = @ \/ late]
      /\ bridge' = bridge /\ disk' = disk
  BY DEF Obtains
<1> HIDE DEF run, late
<1>2. HostOK(host) /\ HostShape(host) /\ Fielded(host)
  BY ShapeComplete DEF Sound, HostOK
<1>3. Sited(host, host')
  BY <1>1, <1>2, ResumedSited, ReactivatedSited
<1>4. x.pc = "debug" /\ x.data = rec.data
  <2> DEFINE y == [rec EXCEPT !.pc = "debug"]
             cur == host'.current
  <2>1. y.pc = "debug" /\ y.data = rec.data /\ "pc" \in DOMAIN y /\ "data" \in DOMAIN y
    OBVIOUS
  <2>2. x = [y EXCEPT !.b = cur]
    OBVIOUS
  <2> HIDE DEF y, cur, x
  <2> QED
    BY <2>1, <2>2
<1> HIDE DEF x
<1>5. (\A u \in Task : Bears(u)) /\ SameWrites
  BY <1>1, <1>4, OneCall DEF PInv
<1>6. SameNews
  BY <1>1 DEF SameNews, Sound, StoreTypes, GhostOK
<1> QED
  BY <1>1, <1>3, <1>5, <1>6, StillLasts, SameBridges, SameBuilding DEF Sited

LEMMA CallsStartLasts ==
  ASSUME Sound, Basics, PInv, NEW t \in Task, NEW kind, NEW r \in Reg, CallsStart(t, kind, r)
  PROVE  Lasts
<1> DEFINE g == host.cb[r]
           rec == [NoTask EXCEPT !.kind = kind, !.reg = r, !.gen = g, !.mode = host.mode]
           barrier == CASE host.retire = "open" -> "await"
                        [] host.retire = "failed" -> "rejected"
                        [] OTHER -> "resolved"
           x == [rec EXCEPT !.pc = barrier]
<1>1. /\ task[t].pc = "idle" /\ g > 0
      /\ \/ Obtains(t, rec)
         \/ /\ task' = [task EXCEPT ![t] = x]
            /\ UNCHANGED <<disk, bridge, clock, ghost, host>>
  BY DEF CallsStart, Free
<1>0. host.current \in Main
  BY <1>1 DEF Sound, HostOK, Based
<1>2. barrier \in {"await", "rejected", "resolved"}
  OBVIOUS
<1> HIDE DEF barrier
<1>3. "pc" \in DOMAIN rec /\ "data" \in DOMAIN rec /\ rec.data = Empty /\ x.pc = barrier /\ x.data = Empty
  BY DEF NoTask
<1> HIDE DEF rec, x
<1>4. CASE Obtains(t, rec)
  BY <1>0, <1>1, <1>3, <1>4, ObtainsLasts
<1>5. CASE /\ task' = [task EXCEPT ![t] = x]
           /\ UNCHANGED <<disk, bridge, clock, ghost, host>>
  <2>1. (\A u \in Task : Bears(u)) /\ SameWrites
    BY <1>1, <1>2, <1>3, <1>5, OneCall DEF PInv
  <2> QED
    BY <1>5, <2>1, StillLasts, SameBridges, SameBuilding, SameGhost
<1> QED
  BY <1>1, <1>4, <1>5

LEMMA ActivatesLasts ==
  ASSUME Sound, Basics, PInv, NEW t \in Task, Activates(t)
  PROVE  Lasts
<1> DEFINE c == task[t]
           r == c.reg
           g == c.gen
           run == Running(host, bridge)
           x == [c EXCEPT !.pc = "debug", !.b = host'.current]
<1>1. /\ c.pc = "resolved"
      /\ \/ /\ CanActivate(host, r, g) /\ CanBuild(host, c.mode)
            /\ \/ /\ host' = Activated(host, r, g, c.mode, run)
                  /\ task' = [task EXCEPT ![t] = x]
               \/ /\ host' = ActivationFailed(host, r)
                  /\ task' = [task EXCEPT ![t] = NoTask]
            /\ UNCHANGED <<disk, bridge, clock, ghost>>
         \/ Obtains(t, c)
         \/ task' = [task EXCEPT ![t] = NoTask] /\ UNCHANGED OnlyTask
  BY DEF Activates
<1>0. c.pc = "resolved"
  BY <1>1
<1>2. /\ HostOK(host) /\ HostShape(host) /\ c \in Call(clock) /\ {"pc", "b", "data"} \subseteq DOMAIN c
      /\ host.current \in Main
  <2>1. /\ HostOK(host) /\ HostShape(host) /\ c \in Call(clock) /\ CallOK(c, host)
    BY DEF Sound, StoreTypes, HostOK, TasksOK, CallsOK
  <2> QED
    BY <1>0, <2>1 DEF Call, CallOK, Inside
<1> HIDE DEF run
<1>3. x.pc = "debug" /\ x.data = c.data
  BY <1>2
<1> HIDE DEF x
<1>4. CASE Obtains(t, c)
  <2>1. "pc" \in DOMAIN c /\ "data" \in DOMAIN c
    BY <1>2
  <2> QED
    BY <1>0, <1>2, <1>4, <2>1, ObtainsLasts
<1>5. CASE task' = [task EXCEPT ![t] = NoTask] /\ UNCHANGED OnlyTask
  <2>1. (\A u \in Task : Bears(u)) /\ SameWrites
    BY <1>0, <1>5, OneCall, OverCall DEF PInv
  <2> QED
    BY <1>5, <2>1, StillLasts, SameBridges, SameBuilding, SameGhost DEF OnlyTask
<1>6. CASE /\ CanActivate(host, r, g) /\ CanBuild(host, c.mode)
           /\ \/ /\ host' = Activated(host, r, g, c.mode, run)
                 /\ task' = [task EXCEPT ![t] = x]
              \/ /\ host' = ActivationFailed(host, r)
                 /\ task' = [task EXCEPT ![t] = NoTask]
           /\ UNCHANGED <<disk, bridge, clock, ghost>>
  <2>1. Building(host, host')
    BY <1>2, <1>6, ActivatedBuilds, ActivationSited DEF Sited, Building
  <2>2. (\A u \in Task : Bears(u)) /\ SameWrites
    BY <1>0, <1>3, <1>6, OneCall, OverCall DEF PInv
  <2> QED
    BY <1>6, <2>1, <2>2, StillLasts, SameBridges, SameGhost
<1> QED
  BY <1>1, <1>4, <1>5, <1>6

-----------------------------------------------------------------------------
(* Steps that leave memory and disk alone.                                 *)

LEMMA MildBuilding == ASSUME Mild PROVE Building(host, host')
BY DEF Mild, Plain

(* The call ends, or goes on at another step.                              *)
LEMMA CallMoves ==
  ASSUME Sound, DataOK, NEW t \in Task, task[t].pc \notin {"fwrite", "closefail"},
         \/ task' = [task EXCEPT ![t] = NoTask]
         \/ \E next : next # "fwrite" /\ task' = [task EXCEPT ![t].pc = next]
  PROVE  (\A u \in Task : Bears(u)) /\ SameWrites
<1>1. CASE task' = [task EXCEPT ![t] = NoTask]
  BY <1>1, OneCall, OverCall
<1>2. ASSUME NEW next, next # "fwrite", task' = [task EXCEPT ![t].pc = next]
      PROVE  (\A u \in Task : Bears(u)) /\ SameWrites
  <2> DEFINE x == [task[t] EXCEPT !.pc = next]
  <2>1. task[t] \in Call(clock) /\ task \in [Task -> Call(clock)]
    BY DEF Sound, StoreTypes, TasksOK
  <2>2. task' = [task EXCEPT ![t] = x]
    BY <1>2, <2>1
  <2>3. x.pc = next /\ x.data = task[t].data
    BY <2>1 DEF Call
  <2> HIDE DEF x
  <2> QED
    BY <1>2, <2>2, <2>3, OneCall
<1> QED
  BY <1>1, <1>2

LEMMA RejectedLasts == ASSUME Sound, Basics, PInv, NEW t \in Task, Rejected(t) PROVE Lasts
<1>1. /\ task' = [task EXCEPT ![t] = NoTask] /\ task[t].pc = "rejected"
      /\ bridge' = bridge /\ disk' = disk /\ ghost' = ghost
  BY DEF Rejected, OnlyTask
<1>2. (\A u \in Task : Bears(u)) /\ SameWrites
  BY <1>1, CallMoves DEF PInv
<1> QED
  BY <1>1, <1>2, RejectedMild, MildBuilding, StillLasts, SameBridges, SameGhost

LEMMA ChannelStartsLasts ==
  ASSUME Sound, Basics, PInv, NEW t \in Task, ChannelStarts(t) PROVE Lasts
<1> DEFINE b == task[t].b
           on == CanStart(host, task[t].reg, task[t].gen)
           s == IF on THEN [bridge[b] EXCEPT !.chan = TRUE] ELSE bridge[b]
<1>1. /\ task[t].kind = "channel" /\ task[t].pc = "debug" /\ task' = [task EXCEPT ![t] = NoTask]
      /\ bridge' = (IF on THEN [bridge EXCEPT ![b].chan = TRUE] ELSE bridge)
      /\ disk' = disk /\ ghost' = ghost
  BY DEF ChannelStarts
<1>2. b \in Bridge
  BY <1>1 DEF Sound, CallsOK, CallOK, Main, Waits
<1>3. bridge' = [bridge EXCEPT ![b] = s] /\ Carries(s, bridge[b])
  BY <1>1, <1>2, BridgeFacts DEF Carries
<1> HIDE DEF s, on
<1>4. SameMemory
  BY <1>2, <1>3, OneMemory
<1>5. (\A u \in Task : Bears(u)) /\ SameWrites
  BY <1>1, CallMoves DEF PInv
<1> QED
  BY <1>1, <1>4, <1>5, ChannelStartsMild, MildBuilding, StillLasts, SameGhost

LEMMA ChannelStopsLasts ==
  ASSUME Sound, Basics, PInv, NEW r \in Reg, ChannelStops(r) PROVE Lasts
<1> DEFINE b == host.current
           s == [bridge[b] EXCEPT !.chan = FALSE]
<1>1. /\ bridge' = [bridge EXCEPT ![b].chan = FALSE] /\ IsStoppable(host, r, host.cb[r])
      /\ disk' = disk /\ ghost' = ghost /\ task' = task
  BY DEF ChannelStops
<1>2. b \in Bridge
  BY <1>1 DEF Sound, HostOK, Based, Living, IsStoppable, Main
<1>3. bridge' = [bridge EXCEPT ![b] = s] /\ Carries(s, bridge[b])
  BY <1>1, <1>2, BridgeFacts DEF Carries
<1> HIDE DEF s
<1>4. SameMemory
  BY <1>2, <1>3, OneMemory
<1> QED
  BY <1>1, <1>4, ChannelStopsMild, MildBuilding, StillLasts, SameGhost, SameCalls DEF PInv

LEMMA ObservationLasts ==
  ASSUME Sound, Basics, PInv, NEW r \in Reg, ObservationFires(r) PROVE Lasts
<1>1. bridge' = bridge /\ disk' = disk /\ ghost' = ghost /\ task' = task
  BY DEF ObservationFires, storeVars
<1> QED
  BY <1>1, ObservationMild, MildBuilding, StillLasts, SameGhost, SameCalls, SameBridges DEF PInv

LEMMA BeginsStoreLasts ==
  ASSUME Sound, Basics, PInv, NEW t \in Task, BeginsStore(t) PROVE Lasts
<1> DEFINE c == task[t]
           b == c.b
           n == BeginLifecycle(bridge[b])
           x == [c EXCEPT !.pc = "prepare", !.sgen = n.gen]
<1>1. /\ c.kind = "start" /\ c.pc = "debug" /\ disk' = disk /\ ghost' = ghost /\ host' = host
      /\ \/ /\ bridge' = [bridge EXCEPT ![b] = BeginLifecycle(@)]
            /\ task' = [task EXCEPT ![t].pc = "prepare", ![t].sgen = bridge'[b].gen]
         \/ bridge' = bridge /\ task' = [task EXCEPT ![t] = NoTask]
  BY DEF BeginsStore
<1>2. b \in Bridge /\ c \in Call(clock) /\ task \in [Task -> Call(clock)]
      /\ bridge \in [Bridge -> Memory(clock)]
  BY <1>1, BridgeFacts DEF Sound, StoreTypes, TasksOK, CallsOK, CallOK, Main, Waits
<1>3. CASE bridge' = bridge /\ task' = [task EXCEPT ![t] = NoTask]
  <2>1. (\A u \in Task : Bears(u)) /\ SameWrites
    BY <1>1, <1>3, CallMoves DEF PInv
  <2> QED
    BY <1>1, <1>3, <2>1, StillLasts, SameBridges, SameGhost, SameBuilding
<1>4. CASE /\ bridge' = [bridge EXCEPT ![b] = BeginLifecycle(@)]
           /\ task' = [task EXCEPT ![t].pc = "prepare", ![t].sgen = bridge'[b].gen]
  <2>1. bridge' = [bridge EXCEPT ![b] = n] /\ Carries(n, bridge[b])
    BY <1>2, <1>4 DEF BeginLifecycle, Memory, Carries
  <2>2. bridge'[b] = n
    BY <1>2, <2>1
  <2> HIDE DEF n
  <2>3. task' = [task EXCEPT ![t] = x] /\ x.pc = "prepare" /\ x.data = c.data
    BY <1>2, <1>4, <2>2 DEF Call
  <2> HIDE DEF x
  <2>4. (\A u \in Task : Bears(u)) /\ SameWrites
    BY <1>1, <2>3, OneCall DEF PInv
  <2>5. SameMemory
    BY <1>2, <2>1, OneMemory
  <2> QED
    BY <1>1, <2>4, <2>5, StillLasts, SameGhost, SameBuilding
<1> QED
  BY <1>1, <1>3, <1>4

(* A start that ends or goes on without a write keeps the memory.          *)
LEMMA EndingStart ==
  ASSUME Sound, DataOK, NEW t \in Task, task[t].pc \in Further, NEW s,
         DOMAIN s = DOMAIN bridge[task[t].b], Carries(s, bridge[task[t].b]),
         \/ GivesUp(t) \/ (\E stops \in BOOLEAN : Throws(t, stops))
         \/ \E next : next # "fwrite" /\ GoesOn(t, s, next)
  PROVE  SameMemory /\ (\A u \in Task : Bears(u)) /\ SameWrites
<1> DEFINE c == task[t]
           b == c.b
           g == c.sgen
<1>1. b \in Bridge /\ c.pc \notin {"fwrite", "closefail"} /\ bridge[b] \in Memory(clock)
      /\ Carries(bridge[b], bridge[b])
  BY FurtherBegan DEF Further, Carries
<1>2. Carries(CloseGeneration(s, g), bridge[b]) /\ Carries(CloseGeneration(bridge[b], g), bridge[b])
  BY <1>1, ClosingKeeps
<1>3. CASE GivesUp(t)
  <2> DEFINE r == CloseGeneration(bridge[b], g)
  <2>1. bridge' = [bridge EXCEPT ![b] = r] /\ task' = [task EXCEPT ![t] = NoTask]
    BY <1>1, <1>3, BridgeFacts DEF GivesUp
  <2> HIDE DEF r
  <2>2. SameMemory
    BY <1>1, <1>2, <2>1, OneMemory DEF r
  <2> QED
    BY <1>1, <2>1, <2>2, CallMoves
<1>4. ASSUME NEW stops \in BOOLEAN, Throws(t, stops)
      PROVE  SameMemory /\ (\A u \in Task : Bears(u)) /\ SameWrites
  <2> DEFINE w == [bridge[b] EXCEPT !.stopped = @ \/ stops]
             r == CloseGeneration(w, g)
  <2>1. bridge' = [bridge EXCEPT ![b] = r] /\ task' = [task EXCEPT ![t] = NoTask]
    BY <1>4 DEF Throws, Breaks
  <2>2. DOMAIN w = DOMAIN bridge[b] /\ Carries(w, bridge[b])
    BY <1>1 DEF Carries, Memory
  <2> HIDE DEF w
  <2>3. Carries(r, bridge[b])
    BY <1>1, <2>2, ClosingKeeps
  <2> HIDE DEF r
  <2>4. SameMemory
    BY <1>1, <2>1, <2>3, OneMemory
  <2> QED
    BY <1>1, <2>1, <2>4, CallMoves
<1>5. ASSUME NEW next, next # "fwrite", GoesOn(t, s, next)
      PROVE  SameMemory /\ (\A u \in Task : Bears(u)) /\ SameWrites
  <2> DEFINE r == CloseGeneration(s, g)
  <2>1. \/ bridge' = [bridge EXCEPT ![b] = s] /\ task' = [task EXCEPT ![t].pc = next]
        \/ bridge' = [bridge EXCEPT ![b] = r] /\ task' = [task EXCEPT ![t] = NoTask]
    BY <1>5 DEF GoesOn
  <2> HIDE DEF r
  <2>2. SameMemory
    BY <1>1, <1>2, <2>1, OneMemory DEF r
  <2> QED
    BY <1>1, <1>5, <2>1, <2>2, CallMoves
<1> QED
  BY <1>3, <1>4, <1>5

(* The same, and nothing comes onto the disk.                              *)
LEMMA CalmLasts ==
  ASSUME Sound, Basics, \A u \in Task : Bears(u), SameWrites, SameMemory, SameNews,
         Building(host, host'),
         \A m \in Msg : /\ Stored(m)' => Stored(m)
                        /\ m \in Gone' /\ Rowed(disk', m) => Rowed(disk, m)
                        /\ m \in Gone' /\ Filed(disk', m) => Filed(disk, m)
  PROVE  Lasts
<1>1. Thin
  BY DEF Thin, SameMemory, Carries
<1>2. Unmoved
  BY DEF Unmoved, SameTimers, SameMemory, Carries, SameStore, Main, Gone, ours
<1> QED
  BY <1>1, <1>2, UnmovedLasts

LEMMA CutoverLasts ==
  ASSUME Sound, Basics, PInv, NEW t \in Task,
         CutoverCounts(t) \/ CutoverMoves(t) \/ CutoverEnds(t) \/ Refreshes(t)
  PROVE  Lasts
<1> DEFINE c == task[t]
           s == bridge[c.b]
<1>1. c.pc \in {"cutcheck", "cutmove", "cutmode", "refresh"} /\ c.pc \in Further
      /\ c.pc \notin {"fwrite", "closefail"}
  BY DEF CutoverCounts, CutoverMoves, CutoverEnds, Refreshes, Further
<1>2. disk \in Directory(clock) /\ s \in Memory(clock) /\ Carries(s, s)
  BY <1>1, FurtherBegan DEF Sound, StoreTypes, DiskOK, Carries
<1>3. Building(host, host')
  BY CutoverMild, MildBuilding
<1>4. CASE CutoverThrows(t)
  <2>1. SameMemory /\ (\A u \in Task : Bears(u)) /\ SameWrites
    BY <1>1, <1>2, <1>4, EndingStart DEF CutoverThrows, PInv
  <2> QED
    BY <1>3, <1>4, <2>1, StillLasts, BreakNews DEF CutoverThrows
<1>5. CASE CutoverCounts(t)
  <2>1. \/ CutoverThrows(t)
        \/ /\ task' = [task EXCEPT ![t].pc = IF disk.mode = "sqlite" THEN "cutmode" ELSE "cutmove"]
           /\ bridge' = bridge /\ disk' = disk /\ ghost' = ghost
    BY <1>5 DEF CutoverCounts, OnlyTask
  <2>2. CASE /\ task' = [task EXCEPT ![t].pc = IF disk.mode = "sqlite" THEN "cutmode" ELSE "cutmove"]
             /\ bridge' = bridge /\ disk' = disk /\ ghost' = ghost
    <3>1. (\A u \in Task : Bears(u)) /\ SameWrites
      BY <1>1, <2>2, CallMoves DEF PInv
    <3> QED
      BY <1>3, <2>2, <3>1, StillLasts, SameGhost, SameBridges
  <2> QED
    BY <1>4, <2>1, <2>2
<1>6. CASE CutoverMoves(t)
  <2>1. /\ task' = [task EXCEPT ![t].pc = "cutmode"]
        /\ bridge' = bridge /\ disk' = [disk EXCEPT !.jsonAt = FALSE] /\ ghost' = ghost
    BY <1>6 DEF CutoverMoves
  <2>2. (\A u \in Task : Bears(u)) /\ SameWrites
    BY <1>1, <2>1, CallMoves DEF PInv
  <2>3. /\ disk'.rows = disk.rows /\ disk'.json = disk.json /\ disk'.legacy = disk.legacy
        /\ disk'.snaps = disk.snaps /\ disk'.ok = disk.ok /\ disk'.jsonAt = FALSE
    BY <1>2, <2>1 DEF Directory
  <2>4. Recovered(disk').rows = Recovered(disk).rows
    BY <1>2, <2>1, <2>3 DEF Recovered, Newest, Directory
  <2>5. \A m \in Msg : /\ Stored(m)' => Stored(m)
                       /\ Rowed(disk', m) => Rowed(disk, m)
                       /\ ~Filed(disk', m)
    BY <2>3, <2>4 DEF Stored, Somewhere, Rowed, Filed, Opens
  <2> QED
    BY <1>3, <2>1, <2>2, <2>5, CalmLasts, SameGhost, SameBridges
<1>7. CASE CutoverEnds(t)
  <2>1. CutoverThrows(t) \/ (disk' = [disk EXCEPT !.mode = "sqlite"] /\ GoesOn(t, s, "refresh")
                             /\ ghost' = ghost)
    BY <1>7 DEF CutoverEnds
  <2>2. CASE disk' = [disk EXCEPT !.mode = "sqlite"] /\ GoesOn(t, s, "refresh") /\ ghost' = ghost
    <3>1. SameMemory /\ (\A u \in Task : Bears(u)) /\ SameWrites
      BY <1>1, <1>2, <2>2, EndingStart DEF PInv
    <3>2. /\ disk'.rows = disk.rows /\ disk'.json = disk.json /\ disk'.legacy = disk.legacy
          /\ disk'.snaps = disk.snaps /\ disk'.ok = disk.ok /\ disk'.jsonAt = disk.jsonAt
          /\ disk'.mode = "sqlite"
      BY <1>2, <2>2 DEF Directory
    <3>3. Recovered(disk').rows = Recovered(disk).rows
      BY <1>2, <2>2, <3>2 DEF Recovered, Newest, Directory
    <3>4. Recovered(disk').mode \in {"sqlite", Recovered(disk).mode}
      <4>1. CASE disk.ok
        BY <3>2, <4>1 DEF Recovered
      <4>2. CASE ~disk.ok
        BY <1>2, <2>2, <3>2, <4>2 DEF Recovered, Newest, Directory
      <4> QED
        BY <4>1, <4>2
    <3>5. \A m \in Msg : /\ Stored(m)' => Stored(m)
                         /\ Rowed(disk', m) => Rowed(disk, m)
                         /\ Filed(disk', m) => Filed(disk, m)
      BY <3>2, <3>3, <3>4 DEF Stored, Somewhere, Rowed, Filed, Opens
    <3> QED
      BY <1>3, <2>2, <3>1, <3>5, CalmLasts, SameGhost
  <2> QED
    BY <1>4, <2>1, <2>2
<1>8. CASE Refreshes(t)
  <2> DEFINE r == [s EXCEPT !.stopped = IF Current(c) THEN FALSE ELSE @]
  <2>1. Carries(r, s) /\ DOMAIN r = DOMAIN s
    BY <1>2 DEF Carries, Memory
  <2>2. GoesOn(t, r, "tail") /\ disk' = disk /\ ghost' = ghost
    BY <1>8 DEF Refreshes
  <2> HIDE DEF r
  <2>3. SameMemory /\ (\A u \in Task : Bears(u)) /\ SameWrites
    BY <1>1, <2>1, <2>2, EndingStart DEF PInv
  <2> QED
    BY <1>3, <2>2, <2>3, StillLasts, SameGhost
<1> QED
  BY <1>5, <1>6, <1>7, <1>8

LEMMA StartedLasts == ASSUME Sound, Basics, PInv, NEW t \in Task, Started(t) PROVE Lasts
<1> DEFINE c == task[t]
           b == c.b
           s == bridge[b]
           n == [s EXCEPT !.started = TRUE]
           br == [bridge EXCEPT ![b].started = TRUE]
           run == Running(host, br)
<1>1. /\ c.pc = "tail" /\ disk' = disk /\ ghost' = ghost
      /\ \/ /\ bridge' = br
            /\ host' = Probe(host, c.reg, c.gen, run, FALSE)
            /\ task' = [task EXCEPT ![t] = NoTask]
         \/ GivesUp(t)
  BY DEF Started
<1>2. c.pc \in Further /\ c.pc \notin {"fwrite", "closefail"} /\ s \in Memory(clock) /\ Carries(s, s)
      /\ c.b \in Bridge
  BY <1>1, FurtherBegan DEF Further, Carries
<1>3. CASE GivesUp(t)
  <2>1. SameMemory /\ (\A u \in Task : Bears(u)) /\ SameWrites
    BY <1>2, <1>3, EndingStart DEF PInv
  <2>2. host' = host
    BY <1>3 DEF GivesUp
  <2> QED
    BY <1>1, <2>1, <2>2, StillLasts, SameGhost, SameBuilding
<1>4. CASE /\ bridge' = br
           /\ host' = Probe(host, c.reg, c.gen, run, FALSE)
           /\ task' = [task EXCEPT ![t] = NoTask]
  <2>1. bridge' = [bridge EXCEPT ![b] = n] /\ Carries(n, s)
    BY <1>2, <1>4, BridgeFacts DEF Carries
  <2> HIDE DEF n, br, run
  <2>2. SameMemory
    BY <1>2, <2>1, OneMemory
  <2>3. (\A u \in Task : Bears(u)) /\ SameWrites
    BY <1>2, <1>4, CallMoves DEF PInv
  <2>4. Building(host, host')
    <3>1. PICK no : no = FALSE
      OBVIOUS
    <3>2. host' = Probe(host, c.reg, c.gen, run, no)
      BY <1>4, <3>1
    <3>3. Fielded(host)
      BY ShapeComplete DEF Sound, HostOK
    <3> QED
      BY <3>2, <3>3, ProbeSited, SameBuilding DEF Sited
  <2> QED
    BY <1>1, <2>2, <2>3, <2>4, StillLasts, SameGhost
<1> QED
  BY <1>1, <1>3, <1>4

LEMMA StoppedLasts == ASSUME Sound, Basics, PInv, NEW t \in Task, Stopped(t) PROVE Lasts
<1> DEFINE c == task[t]
           b == c.b
           s == bridge[b]
           n == CloseAny(s)
           word == IF c.pc = "close" THEN "resolved" ELSE "rejected"
           over == c.pc = "close"
<1>1. /\ c.pc \in {"close", "closefail"} /\ disk' = disk /\ ghost' = ghost
      /\ bridge' = [bridge EXCEPT ![b] = CloseAny(@)]
      /\ host' = Settled(host, c.reg, over)
      /\ task' = [u \in Task |->
           CASE u = t -> NoTask
             [] u # t /\ task[u].pc = "await" -> [task[u] EXCEPT !.pc = word]
             [] OTHER -> task[u]]
  BY DEF Stopped
<1>2. /\ c \in Call(clock) /\ CallOK(c, host) /\ c.reg \in Reg /\ b \in Bridge /\ c.kind = "stop"
      /\ s \in Memory(clock)
  <2>1. c \in Call(clock) /\ CallOK(c, host)
    BY DEF Sound, StoreTypes, TasksOK, CallsOK
  <2>2. c.kind = "stop"
    BY <1>1, <2>1 DEF Call, CallOK, Waits, Inside
  <2> QED
    BY <2>1, <2>2, BridgeFacts DEF CallOK, Main
<1>3. bridge' = [bridge EXCEPT ![b] = n] /\ Carries(n, s)
  <2>1. Carries(s, s) /\ DOMAIN s = DOMAIN s
    BY DEF Carries
  <2> QED
    BY <1>1, <1>2, <2>1, BridgeFacts, ClosingKeeps
<1> HIDE DEF n
<1>4. SameMemory
  BY <1>2, <1>3, OneMemory
<1>5. PICK yes : yes = over
  OBVIOUS
<1>6. Building(host, host')
  <2>1. host' = Settled(host, c.reg, yes)
    BY <1>1, <1>5
  <2> QED
    BY <1>2, <2>1, SettledSited, SameBuilding DEF Sound, HostOK, Sited
<1>7. word \in {"resolved", "rejected"}
  OBVIOUS
<1> HIDE DEF word
<1>8. /\ task'[t] = NoTask
      /\ \A u \in Task \ {t} : \/ task'[u] = task[u]
                               \/ task[u].pc = "await" /\ task'[u] = [task[u] EXCEPT !.pc = word]
  BY <1>1
<1>9. \A u \in Task : task[u] \in Call(clock) /\ [task[u] EXCEPT !.pc = word].pc = word
                      /\ [task[u] EXCEPT !.pc = word].data = task[u].data
  BY DEF Sound, StoreTypes, TasksOK, Call
<1>10. \A u \in Task : Bears(u)
  <2> SUFFICES ASSUME NEW u \in Task PROVE Bears(u)
    OBVIOUS
  <2>1. CASE u = t
    BY <1>8, <2>1, OverCall DEF Bears
  <2>2. CASE u # t /\ task'[u] = task[u]
    BY <2>2 DEF Bears, PInv, DataOK
  <2>3. CASE u # t /\ task[u].pc = "await" /\ task'[u] = [task[u] EXCEPT !.pc = word]
    <3>1. task'[u].data = task[u].data
      BY <1>9, <2>3
    <3> QED
      BY <2>3, <3>1 DEF Bears, PInv, DataOK
  <2> QED
    BY <1>8, <2>1, <2>2, <2>3
<1>11. SameWrites
  <2> SUFFICES ASSUME NEW u \in Task
               PROVE  /\ Writing(task'[u]) <=> Writing(task[u])
                      /\ Writing(task[u]) => task'[u] = task[u]
    BY DEF SameWrites
  <2>1. CASE u = t
    BY <1>1, <1>8, <2>1, OverCall DEF Writing
  <2>2. CASE u # t /\ task'[u] = task[u]
    BY <2>2
  <2>3. CASE u # t /\ task[u].pc = "await" /\ task'[u] = [task[u] EXCEPT !.pc = word]
    <3>1. task'[u].pc = word
      BY <1>9, <2>3
    <3> QED
      BY <1>7, <2>3, <3>1 DEF Writing
  <2> QED
    BY <1>8, <2>1, <2>2, <2>3
<1> QED
  BY <1>1, <1>4, <1>6, <1>10, <1>11, StillLasts, SameGhost

LEMMA PreparesLasts == ASSUME Sound, Basics, PInv, NEW t \in Task, Prepares(t) PROVE Lasts
<1> DEFINE c == task[t]
           b == c.b
           s == [bridge[b] EXCEPT !.path = TRUE]
           h == IF s.db > 0 THEN s.db ELSE s.gen
           x == [c EXCEPT !.pc = "open", !.hold = h]
           old == Queued(disk.legacy)
<1>1. /\ c.pc = "prepare"
      /\ \/ /\ disk' = Migrated(disk)
            /\ ghost' = (IF disk.jsonAt THEN ghost ELSE [ghost EXCEPT !.back = @ \cup old])
            /\ \/ bridge' = [bridge EXCEPT ![b] = s] /\ task' = [task EXCEPT ![t] = x]
               \/ GivesUp(t)
         \/ Throws(t, FALSE) /\ disk' = disk /\ ghost' = ghost
  BY DEF Prepares
<1>2. c.pc \in Further /\ c.pc \notin {"fwrite", "closefail"} /\ b \in Bridge
      /\ c \in Call(clock) /\ bridge[b] \in Memory(clock) /\ Carries(bridge[b], bridge[b])
      /\ disk \in Directory(clock)
  BY <1>1, FurtherBegan DEF Further, Carries, Sound, StoreTypes, DiskOK
<1>3. Building(host, host')
  BY PreparesMild, MildBuilding
<1>4. PICK no \in BOOLEAN : no = FALSE
  OBVIOUS
<1>5. CASE Throws(t, FALSE) /\ disk' = disk /\ ghost' = ghost
  <2>1. Throws(t, no)
    BY <1>4, <1>5
  <2>2. SameMemory /\ (\A u \in Task : Bears(u)) /\ SameWrites
    BY <1>2, <2>1, EndingStart DEF PInv
  <2> QED
    BY <1>3, <1>5, <2>2, StillLasts, SameGhost
<1>6. CASE /\ disk' = Migrated(disk)
           /\ ghost' = (IF disk.jsonAt THEN ghost ELSE [ghost EXCEPT !.back = @ \cup old])
           /\ \/ bridge' = [bridge EXCEPT ![b] = s] /\ task' = [task EXCEPT ![t] = x]
              \/ GivesUp(t)
  <2>1. SameMemory /\ (\A u \in Task : Bears(u)) /\ SameWrites
    <3>1. CASE GivesUp(t)
      BY <1>2, <3>1, EndingStart DEF PInv
    <3>2. CASE bridge' = [bridge EXCEPT ![b] = s] /\ task' = [task EXCEPT ![t] = x]
      <4>1. Carries(s, bridge[b])
        BY <1>2 DEF Carries, Memory
      <4> HIDE DEF h
      <4>2. x.pc = "open" /\ x.data = c.data
        BY <1>2 DEF Call
      <4> HIDE DEF s, x
      <4>3. SameMemory
        BY <1>2, <3>2, <4>1, OneMemory
      <4> QED
        BY <1>2, <3>2, <4>2, <4>3, OneCall DEF PInv
    <3> QED
      BY <1>6, <3>1, <3>2
  <2>2. SameNews
    BY <1>6 DEF SameNews, Sound, StoreTypes, GhostOK
  <2>3. /\ disk'.rows = disk.rows /\ disk'.legacy = disk.legacy /\ disk'.snaps = disk.snaps
        /\ disk'.ok = disk.ok /\ disk'.json \in {disk.json, disk.legacy}
        /\ disk.jsonAt => disk' = disk
        /\ ~disk.jsonAt => disk'.json = disk.legacy \/ ~disk'.jsonAt
    BY <1>2, <1>6 DEF Migrated, Directory
  <2>4. Recovered(disk').rows = Recovered(disk).rows
    BY <1>2, <1>6, <2>3 DEF Recovered, Newest, Directory, Migrated
  <2>5. ASSUME NEW m \in Msg
        PROVE  /\ Stored(m)' => Stored(m)
               /\ Rowed(disk', m) => Rowed(disk, m)
               /\ m \in Gone' /\ Filed(disk', m) => Filed(disk, m)
    <3>1. Stored(m)' => Stored(m)
      BY <2>3 DEF Stored, Somewhere
    <3>2. Rowed(disk', m) => Rowed(disk, m)
      BY <2>3, <2>4 DEF Rowed, Opens
    <3>3. ASSUME m \in Gone', Filed(disk', m) PROVE Filed(disk, m)
      <4>1. CASE disk.jsonAt
        BY <2>3, <3>3, <4>1
      <4>2. CASE ~disk.jsonAt
        <5>1. disk.legacy[m] = "queued"
          BY <2>3, <3>3, <4>2 DEF Filed
        <5>2. ghost'.back = ghost.back \cup old /\ m \in old
          BY <1>6, <4>2, <5>1 DEF Sound, StoreTypes, GhostOK, Queued
        <5> QED
          BY <3>3, <5>2 DEF Gone
      <4> QED
        BY <4>1, <4>2
    <3> QED
      BY <3>1, <3>2, <3>3
  <2> QED
    BY <1>3, <2>1, <2>2, <2>5, CalmLasts
<1> QED
  BY <1>1, <1>5, <1>6

LEMMA OpeningLasts == ASSUME Sound, Basics, PInv, NEW t \in Task, Opening(t) PROVE Lasts
<1> DEFINE c == task[t]
           b == c.b
           s == bridge[b]
           usable == s.db = c.hold \/ Usable(s, c.hold)
           h == IF usable THEN c.hold ELSE 0
           x == [c EXCEPT !.pc = "read", !.hold = h]
           r == IF usable THEN [s EXCEPT !.db = c.hold] ELSE s
<1>1. /\ c.pc = "open" /\ ghost' = ghost
      /\ \/ Throws(t, TRUE) /\ disk' = disk
         \/ /\ usable => s.db # 0 \/ Opens(disk)
            /\ bridge' = IF usable THEN [bridge EXCEPT ![b].db = c.hold] ELSE bridge
            /\ disk' = IF usable THEN Opened(disk, b) ELSE disk
            /\ task' = [task EXCEPT ![t].pc = "read", ![t].hold = IF usable THEN @ ELSE 0]
  BY DEF Opening
<1>2. c.pc \in Further /\ c.pc \notin {"fwrite", "closefail"} /\ b \in Bridge
      /\ c \in Call(clock) /\ s \in Memory(clock) /\ Carries(s, s) /\ task \in [Task -> Call(clock)]
      /\ DiskOK(disk, clock) /\ s.db \in Nat /\ clock \in Nat
  BY <1>1, FurtherBegan, BridgeFacts DEF Further, Carries, Sound, StoreTypes
<1>3. Building(host, host')
  BY OpeningMild, MildBuilding
<1>4. PICK yes \in BOOLEAN : yes = TRUE
  OBVIOUS
<1>5. CASE Throws(t, TRUE) /\ disk' = disk
  <2>1. Throws(t, yes)
    BY <1>4, <1>5
  <2>2. SameMemory /\ (\A u \in Task : Bears(u)) /\ SameWrites
    BY <1>2, <2>1, EndingStart DEF PInv
  <2> QED
    BY <1>1, <1>3, <1>5, <2>2, StillLasts, SameGhost
<1>6. CASE /\ usable => s.db # 0 \/ Opens(disk)
           /\ bridge' = IF usable THEN [bridge EXCEPT ![b].db = c.hold] ELSE bridge
           /\ disk' = IF usable THEN Opened(disk, b) ELSE disk
           /\ task' = [task EXCEPT ![t].pc = "read", ![t].hold = IF usable THEN @ ELSE 0]
  <2>1. task' = [task EXCEPT ![t] = x]
    BY <1>2, <1>6
  <2>2. bridge' = [bridge EXCEPT ![b] = r]
    BY <1>2, <1>6, BridgeFacts
  <2>3. Carries(r, s)
    BY <1>2 DEF Carries, Memory
  <2> HIDE DEF r, h
  <2>4. x.pc = "read" /\ x.data = c.data
    BY <1>2 DEF Call
  <2> HIDE DEF x
  <2>5. SameMemory
    BY <1>2, <2>2, <2>3, OneMemory
  <2>6. (\A u \in Task : Bears(u)) /\ SameWrites
    BY <1>2, <2>1, <2>4, OneCall DEF PInv
  <2>7. ASSUME NEW m \in Msg
        PROVE  /\ Stored(m)' => Stored(m)
               /\ Rowed(disk', m) => Rowed(disk, m)
               /\ Filed(disk', m) => Filed(disk, m)
    <3>1. CASE ~usable
      BY <1>6, <3>1 DEF Stored
    <3>2. CASE usable
      <4>1. bridge[b].db > 0 \/ Opens(disk)
        BY <1>2, <1>6, <3>2
      <4>2. bridge[b].db > 0 => disk.ok
        BY <1>2 DEF Basics, GoodDisk
      <4>3. disk' = Opened(disk, b)
        BY <1>6, <3>2
      <4> HIDE DEF usable
      <4> QED
        BY <1>2, <4>1, <4>2, <4>3, OpenedHas DEF Stored
    <3> QED
      BY <3>1, <3>2
  <2> QED
    BY <1>1, <1>3, <2>5, <2>6, <2>7, CalmLasts, SameGhost
<1> QED
  BY <1>1, <1>5, <1>6

LEMMA CorruptLasts == ASSUME Sound, Basics, PInv, Corrupt, host' = host PROVE Lasts
<1> DEFINE kept == IF disk.snaps = <<>> THEN {}
                   ELSE Queued(Newest(disk).rows) \cup Queued(JsonRead(Newest(disk), disk))
           gone == Queued(disk.rows) \ kept
<1>1. /\ disk' = [disk EXCEPT !.ok = FALSE] /\ bridge' = bridge /\ task' = task
      /\ ghost' = [ghost EXCEPT !.lost = @ \cup gone, !.back = @ \cup kept]
  BY DEF Corrupt
<1>2. disk \in Directory(clock)
  BY DEF Sound, StoreTypes, DiskOK
<1>3. /\ disk'.rows = disk.rows /\ disk'.legacy = disk.legacy /\ disk'.snaps = disk.snaps
      /\ ~disk'.ok /\ disk'.json = disk.json /\ disk'.jsonAt = disk.jsonAt
  BY <1>1, <1>2 DEF Directory
<1> HIDE DEF kept, gone
<1>4. SameNews /\ ghost'.back = ghost.back \cup kept
  BY <1>1 DEF SameNews, Sound, StoreTypes, GhostOK
<1>5. ASSUME NEW m \in Msg
      PROVE  /\ Stored(m)' => Stored(m)
             /\ m \in Gone' /\ Rowed(disk', m) => Rowed(disk, m)
             /\ m \in Gone' /\ Filed(disk', m) => Filed(disk, m)
  <2>1. Stored(m)' => Stored(m)
    BY <1>3 DEF Stored, Somewhere
  <2>2. ASSUME Rowed(disk', m) \/ Filed(disk', m) PROVE m \in kept
    <3>1. disk.snaps # <<>>
      BY <1>3, <2>2 DEF Rowed, Filed, Opens
    <3>2. Recovered(disk').rows = Newest(disk).rows /\ Recovered(disk').mode = Newest(disk).mode
      BY <1>1, <1>2, <1>3 DEF Recovered, Newest, Directory
    <3>3. CASE Rowed(disk', m)
      BY <3>1, <3>2, <3>3 DEF Rowed, kept, Queued
    <3>4. CASE Filed(disk', m)
      BY <1>3, <3>1, <3>2, <3>4 DEF Filed, kept, Queued, JsonRead
    <3> QED
      BY <2>2, <3>3, <3>4
  <2> QED
    BY <1>4, <2>1, <2>2 DEF Gone
<1> QED
  BY <1>1, <1>4, <1>5, CalmLasts, SameBridges, SameCalls, SameBuilding DEF PInv

LEMMA SchedulingKeeps ==
  ASSUME NEW s, NEW r, Carries(r, s)
  PROVE  Carries(ScheduleSave(r), s)
BY DEF ScheduleSave, Carries

LEMMA ScenesLast ==
  ASSUME Sound, Basics, PInv, NEW b \in Bridge, host' = host,
         \/ SeeScene(b) \/ (\E a \in Agent : RemoveScene(b, a)) \/ MergeScenes(b)
  PROVE  Lasts
<1> DEFINE s == bridge[b]
<1>1. disk' = disk /\ task' = task /\ ghost' = ghost
  BY DEF SeeScene, RemoveScene, MergeScenes
<1>2. s \in Memory(clock) /\ bridge \in [Bridge -> Memory(clock)]
  BY BridgeFacts
<1>3. CASE SeeScene(b)
  <2> DEFINE now == clock'
             r == [s EXCEPT !.scenes[AgentOf[b]] = now]
             x == ScheduleSave(r)
  <2>1. bridge' = [bridge EXCEPT ![b] = x]
    BY <1>2, <1>3 DEF SeeScene
  <2>2. Carries(r, s)
    BY <1>2 DEF Carries, Memory
  <2> HIDE DEF r
  <2>3. Carries(x, s)
    BY <2>2, SchedulingKeeps
  <2> HIDE DEF x
  <2> QED
    BY <1>1, <2>1, <2>3, OneMemory, StillLasts, SameCalls, SameGhost, SameBuilding DEF PInv
<1>4. ASSUME NEW a \in Agent, RemoveScene(b, a) PROVE Lasts
  <2> DEFINE r == [s EXCEPT !.scenes[a] = 0]
             x == ScheduleSave(r)
  <2>1. bridge' = [bridge EXCEPT ![b] = x]
    BY <1>2, <1>4 DEF RemoveScene
  <2>2. Carries(r, s)
    BY <1>2 DEF Carries, Memory
  <2> HIDE DEF r
  <2>3. Carries(x, s)
    BY <2>2, SchedulingKeeps
  <2> HIDE DEF x
  <2> QED
    BY <1>1, <2>1, <2>3, OneMemory, StillLasts, SameCalls, SameGhost, SameBuilding DEF PInv
<1>5. CASE MergeScenes(b)
  <2> DEFINE newer == {a \in Agent : disk.scenes[a] > s.scenes[a]}
             merged == [a \in Agent |-> IF a \in newer THEN disk.scenes[a] ELSE s.scenes[a]]
             x == [s EXCEPT !.scenes = merged, !.index = merged]
  <2>0. bridge' = [bridge EXCEPT ![b].scenes = merged, ![b].index = merged]
    BY <1>5 DEF MergeScenes
  <2> HIDE DEF merged
  <2>1. bridge' = [bridge EXCEPT ![b] = x]
    BY <1>2, <2>0
  <2>2. Carries(x, s)
    BY <1>2 DEF Carries, Memory
  <2> HIDE DEF x
  <2> QED
    BY <1>1, <2>1, <2>2, OneMemory, StillLasts, SameCalls, SameGhost, SameBuilding DEF PInv
<1> QED
  BY <1>3, <1>4, <1>5

-----------------------------------------------------------------------------
(* Steps of the data.                                                      *)

LEMMA AcceptLasts ==
  ASSUME Sound, Basics, PInv, NEW b \in Bridge, NEW m0 \in Msg, Accept(b, m0), host' = host
  PROVE  Lasts
<1> DEFINE s == bridge[b]
           r == [s EXCEPT !.q[m0] = "queued"]
           x == ScheduleSave(r)
<1>1. /\ m0 \notin ghost.known /\ bridge' = [bridge EXCEPT ![b] = x]
      /\ disk' = disk /\ task' = task
      /\ ghost'.known = ghost.known \cup {m0} /\ ghost'.ended = ghost.ended
      /\ ghost'.endSaved = ghost.endSaved /\ ghost'.back = ghost.back
  BY BridgeFacts DEF Accept, Sound, StoreTypes, GhostOK
<1>2. /\ x.q = [s.q EXCEPT ![m0] = "queued"] /\ (s.timer => x.timer) /\ (s.started => x.started)
      /\ s.q \in Queue
  BY BridgeFacts DEF ScheduleSave, Memory
<1> HIDE DEF x, r
<1>3. \A c \in Bridge, m \in Msg \ {m0} : bridge'[c].q[m] = bridge[c].q[m]
  BY <1>1, <1>2, BridgeFacts DEF Queue
<1>4. \A c \in Bridge \ {b} : bridge'[c] = bridge[c]
  BY <1>1, BridgeFacts
<1>5. ~Stored(m0) /\ \A c \in Bridge : ~Held(c, m0)
  BY <1>1 DEF PInv, KnownOK
<1>6. m0 \notin ghost.ended /\ m0 \notin ghost.endSaved
  BY <1>1 DEF PInv, KnownOK
<1>7. PInv'
  <2>1. \A c \in Bridge, m \in Msg \ {m0} : Held(c, m)' <=> Held(c, m)
    BY <1>1, <1>3 DEF Held
  <2>2. \A c \in Bridge \ {b} : ~Held(c, m0)'
    BY <1>1, <1>4, <1>5 DEF Held
  <2>3. \A m \in Msg : Stored(m)' <=> Stored(m)
    BY <1>1 DEF Stored
  <2>4. KnownOK'
    BY <1>1, <2>1, <2>3 DEF PInv, KnownOK
  <2>5. AloneOK'
    <3> SUFFICES ASSUME NEW c \in Bridge, NEW m \in Msg \ ghost'.back, m \notin Own(c),
                        bridge'[c].q[m] = "queued"
                 PROVE  m \notin ghost'.ended /\ ~Stored(m)' /\ \A d \in Bridge \ {c} : ~Held(d, m)'
      BY DEF AloneOK, Own
    <3>1. CASE m = m0
      <4>1. c = b
        BY <1>4, <1>5, <3>1 DEF Held
      <4> QED
        BY <1>1, <1>5, <1>6, <2>2, <2>3, <3>1, <4>1
    <3>2. CASE m # m0
      BY <1>1, <1>3, <2>1, <2>3, <3>2 DEF PInv, AloneOK
    <3> QED
      BY <3>1, <3>2
  <2>6. ForeignOK'
    BY <1>1, <1>3, <1>6, ServiceAssumption DEF PInv, ForeignOK, Own
  <2>7. DataOK'
    BY <1>1 DEF PInv, DataOK
  <2> QED
    BY <2>4, <2>5, <2>6, <2>7 DEF PInv
<1>8. ASSUME AllAway, NEW m \in Gone' PROVE Away(m)'
  <2>1. m \in Gone /\ m \in Msg /\ m # m0
    BY <1>1, <1>6 DEF Gone, ours, Own
  <2>2. SameTimers
    BY <1>1, <1>2, <1>4, BridgeFacts DEF SameTimers, Main
  <2>3. SameWrites
    BY <1>1 DEF SameWrites
  <2> QED
    BY <1>1, <1>3, <1>8, <2>1, <2>2, <2>3, AwayKeeps, SameBuilding DEF AllAway
<1> QED
  BY <1>7, <1>8 DEF Lasts, AllAway

LEMMA EndsLasts ==
  ASSUME Sound, Basics, PInv, NEW b \in Bridge, NEW m0 \in Msg, NEW how \in {"no", "dead"},
         Ends(b, m0, how), host' = host
  PROVE  Lasts
<1> DEFINE s == bridge[b]
           r == [s EXCEPT !.q[m0] = how]
           x == ScheduleSave(r)
<1>1. /\ s.q[m0] = "queued" /\ bridge' = [bridge EXCEPT ![b] = x]
      /\ disk' = disk /\ task' = task
      /\ ghost'.known = ghost.known /\ ghost'.ended = ghost.ended \cup {m0}
      /\ ghost'.endSaved = ghost.endSaved /\ ghost'.back = ghost.back
  BY BridgeFacts DEF Ends, Sound, StoreTypes, GhostOK
<1>2. /\ x.q = [s.q EXCEPT ![m0] = how] /\ (s.timer => x.timer) /\ (s.started => x.started)
      /\ s.q \in Queue
  BY BridgeFacts DEF ScheduleSave, Memory
<1> HIDE DEF x, r
<1>3. /\ \A c \in Bridge, m \in Msg : bridge'[c].q[m] = "queued" => bridge[c].q[m] = "queued"
      /\ bridge'[b].q[m0] # "queued"
  BY <1>1, <1>2, BridgeFacts DEF Queue
<1>4. Spread
  <2>1. DataOK' /\ \A c \in Bridge, m \in Msg, t \in Task :
                      task'[t].b = c /\ task'[t].data[m] = "queued" => Held(c, m)
    BY <1>1, SameCalls, BearsKeep DEF PInv
  <2> QED
    BY <1>1, <1>3, <2>1 DEF Spread, Stored
<1>5. ASSUME AllAway, NEW m \in Gone' PROVE Away(m)'
  <2>1. m \in Gone /\ m \in Msg
    BY <1>1 DEF Gone, ours, Own
  <2>2. SameTimers
    BY <1>1, <1>2, BridgeFacts DEF SameTimers, Main
  <2>3. SameWrites
    BY <1>1 DEF SameWrites
  <2> QED
    BY <1>1, <1>3, <1>5, <2>1, <2>2, <2>3, AwayKeeps, SameBuilding DEF AllAway
<1> QED
  BY <1>4, <1>5, SpreadKeeps DEF Lasts, AllAway

LEMMA PurgeLasts ==
  ASSUME Sound, Basics, PInv, NEW b \in Bridge, NEW m0 \in Msg, Purge(b, m0), host' = host,
         b \in {host.current, Foreign}
  PROVE  Lasts
<1> DEFINE s == bridge[b]
           r == [s EXCEPT !.q[m0] = "no"]
           x == ScheduleSave(r)
           runs == s.started /\ ~s.stopped
<1>1. /\ s.q[m0] = "queued" /\ s.db > 0 /\ bridge' = [bridge EXCEPT ![b] = x]
      /\ disk' = [disk EXCEPT !.rows[m0] = "no"] /\ task' = task
      /\ ghost'.known = ghost.known /\ ghost'.ended = ghost.ended \cup {m0}
      /\ ghost'.endSaved = ghost.endSaved \cup {m0}
      /\ ghost'.back = (IF runs THEN ghost.back ELSE ghost.back \cup {m0})
  BY BridgeFacts DEF Purge, Sound, StoreTypes, GhostOK
<1>2. /\ x.q = [s.q EXCEPT ![m0] = "no"] /\ (s.timer => x.timer) /\ (s.started => x.started)
      /\ runs => x.timer /\ x.started
      /\ s.q \in Queue
  BY BridgeFacts DEF ScheduleSave, Memory
<1> HIDE DEF x, r, runs
<1>3. /\ \A c \in Bridge, m \in Msg : bridge'[c].q[m] = "queued" => bridge[c].q[m] = "queued"
      /\ bridge'[b].q[m0] # "queued" /\ bridge'[b] = x
      /\ \A c \in Bridge \ {b} : bridge'[c] = bridge[c]
  BY <1>1, <1>2, BridgeFacts DEF Queue
<1>4. /\ disk'.rows = [disk.rows EXCEPT ![m0] = "no"] /\ disk.rows \in Queue
      /\ disk'.json = disk.json /\ disk'.jsonAt = disk.jsonAt /\ disk'.legacy = disk.legacy
      /\ disk'.snaps = disk.snaps /\ disk'.ok = disk.ok /\ disk'.mode = disk.mode /\ disk.ok
  BY <1>1 DEF Sound, StoreTypes, DiskOK, Directory, Basics, GoodDisk
<1>5. /\ disk'.rows[m0] # "queued"
      /\ \A m \in Msg : disk'.rows[m] = "queued" => disk.rows[m] = "queued"
  BY <1>4 DEF Queue
<1>6. \A m \in Msg : Stored(m)' => Stored(m)
  BY <1>4, <1>5 DEF Stored, Somewhere
<1>7. Spread
  <2>1. DataOK' /\ \A c \in Bridge, m \in Msg, t \in Task :
                      task'[t].b = c /\ task'[t].data[m] = "queued" => Held(c, m)
    BY <1>1, SameCalls, BearsKeep DEF PInv
  <2>2. /\ ghost'.known = ghost.known /\ ghost.ended \subseteq ghost'.ended
        /\ ghost.endSaved \subseteq ghost'.endSaved /\ ghost.back \subseteq ghost'.back
    BY <1>1
  <2> QED
    BY <1>1, <1>3, <1>6, <2>1, <2>2 DEF Spread
<1>8. \A m \in Msg : /\ Rowed(disk, m) <=> disk.rows[m] = "queued"
                     /\ Rowed(disk', m) <=> disk'.rows[m] = "queued"
                     /\ Filed(disk', m) <=> Filed(disk, m)
  BY <1>4 DEF Rowed, Filed, Opens, Recovered
<1>9. ASSUME AllAway, NEW m \in Gone' PROVE Away(m)'
  <2>1. m \in Msg /\ m \notin ghost'.back
    BY DEF Gone, ours, Own
  <2>2. SameTimers
    BY <1>1, <1>2, BridgeFacts DEF SameTimers, Main
  <2>3. CASE m # m0
    <3>1. m \in Gone
      BY <1>1, <2>3 DEF Gone, ours, Own
    <3>2. SameWrites
      BY <1>1 DEF SameWrites
    <3> QED
      BY <1>1, <1>3, <1>5, <1>8, <1>9, <2>1, <2>2, <3>1, <3>2, AwayKeeps, SameBuilding DEF AllAway
  <2>4. CASE m = m0 /\ b # Foreign
    <3>1. b \in Main /\ b = host.current /\ runs
      BY <1>1, <2>1, <2>4 DEF Main
    <3>2. Covered(m)'
      BY <1>2, <1>3, <3>1 DEF Covered
    <3> QED
      BY <1>3, <1>5, <1>8, <2>4, <3>1, <3>2 DEF Away, InRows
  <2>5. CASE m = m0 /\ b = Foreign
    <3>1. m \notin Own(Foreign) /\ m \notin ghost.back
      BY <1>1, <2>1, <2>5, ServiceAssumption DEF Gone, ours, Own, Main
    <3>2. ~Stored(m) /\ \A c \in Bridge \ {Foreign} : ~Held(c, m)
      BY <1>1, <2>1, <2>5, <3>1 DEF PInv, AloneOK
    <3>3. ~Dirty(m)'
      <4>1. ~Filed(disk', m)
        BY <1>8, <2>1, <3>2 DEF Filed, Stored, Somewhere
      <4>2. \A u \in Task : ~Returns(u, m)'
        BY <1>1, <3>2 DEF Returns, Writes, Writing, Held, Main
      <4> QED
        BY <4>1, <4>2 DEF Dirty, InJson
    <3>4. host.current # 0 => bridge'[host.current].q[m] # "queued"
      <4>1. host.current # 0 => host.current \in Bridge \ {Foreign}
        BY DEF Sound, HostOK, HostShape, Main
      <4> QED
        BY <1>3, <2>1, <3>2, <4>1 DEF Held
    <3> QED
      BY <1>5, <1>8, <2>5, <3>3, <3>4 DEF Away, InRows
  <2> QED
    BY <2>3, <2>4, <2>5
<1> QED
  BY <1>7, <1>9, SpreadKeeps DEF Lasts, AllAway

LEMMA CrashLasts == ASSUME Sound, Basics, PInv, Crash PROVE Lasts
<1> DEFINE saving == \E b \in Main : \/ bridge[b].timer
                                     \/ \E t \in Task : task[t].b = b /\ task[t].pc \in {"fopen", "fwrite"}
           lost == {m \in ghost.known : ~OnDisk(m)}
           back == ghost.endSaved \cap Queued(disk.json)
<1>1. /\ bridge' = [b \in Bridge |-> IF b \in Main THEN FreshBridge ELSE bridge[b]]
      /\ task' = [t \in Task |->
                    IF task[t].kind = "save" /\ task[t].b = Foreign THEN task[t] ELSE NoTask]
      /\ disk' = disk /\ host' = FreshHost
      /\ ghost' = IF ~saving THEN ghost
                  ELSE [ghost EXCEPT !.lost = @ \cup lost, !.back = @ \cup back]
  BY DEF Crash, NoteCrash
<1> HIDE DEF lost, saving
<1>2. SameNews /\ (saving => ghost'.back = ghost.back \cup back)
  BY <1>1 DEF SameNews, Sound, StoreTypes, GhostOK
<1>3. \A b \in Bridge : bridge'[b].q \in {bridge[b].q, Empty}
  BY <1>1 DEF FreshBridge
<1>4. \A t \in Task : task'[t] = NoTask \/ (task'[t] = task[t] /\ task[t].b = Foreign)
  BY <1>1
<1>5. \A t \in Task : Bears(t)
  BY <1>4, OverCall DEF Bears, PInv, DataOK
<1>6. Thin
  BY <1>1, <1>2, <1>3, <1>5 DEF Thin, Stored
<1>7. ASSUME AllAway, NEW m \in Gone' PROVE Away(m)'
  <2>1. m \in Gone /\ m \in Msg /\ m \in ghost.endSaved /\ m \notin ghost'.back
    BY <1>2 DEF Gone, ours, Own, SameNews
  <2>2. Away(m)
    BY <1>7, <2>1 DEF AllAway
  <2>3. host'.current = 0
    BY <1>1 DEF FreshHost
  <2>4. \A u \in Task : ~Returns(u, m)'
    BY <1>4, OverCall DEF Returns, Writes, Writing, Main
  <2>5. ~Filed(disk', m)
    <3>1. CASE saving
      BY <1>1, <1>2, <2>1, <3>1 DEF Filed, Queued
    <3>2. CASE ~saving
      <4>1. ~Covered(m)
        BY <3>2 DEF saving, Covered, Covers, Writes, Writing
      <4> QED
        BY <1>1, <2>2, <4>1 DEF Away, Dirty, InJson
    <3> QED
      BY <3>1, <3>2
  <2>6. ~Rowed(disk', m)
    BY <1>1, <2>2 DEF Away, InRows
  <2> QED
    BY <2>3, <2>4, <2>5, <2>6 DEF Away, Dirty, InRows, InJson
<1> QED
  BY <1>6, <1>7, ThinSpread, SpreadKeeps DEF Lasts, AllAway

-----------------------------------------------------------------------------
(* Flushes.                                                                *)

(* The ends that a save of bridge b stores.                                *)
Saved(b, dual) ==
  {m \in Own(b) \cap ghost.ended : dual /\ bridge[b].loaded /\ bridge[b].q[m] # "queued"}

LEMMA SnapshotsNote ==
  ASSUME Sound, NEW t \in Task, NEW rec, NEW hasDb, NEW d, NEW next,
         Snapshots(t, rec, hasDb, d, next)
  PROVE  LET b == rec.b
             ends == Saved(b, hasDb /\ Dual(d))
         IN
         /\ ghost'.known = ghost.known /\ ghost'.ended = ghost.ended
         /\ ghost'.endSaved = ghost.endSaved \cup ends
         /\ ghost.back \subseteq ghost'.back
         /\ ~bridge[b].started /\ rec.kind # "stop" =>
              (ends \ ghost.endSaved) \cap Written \subseteq ghost'.back
<1> DEFINE b == rec.b
           dual == hasDb /\ Dual(d)
           writes == bridge[b].path /\ ~(hasDb /\ d.mode = "sqlite")
           ends == Saved(b, dual)
           early == {m \in (IF dual THEN Own(b) ELSE Msg) \cap (ghost.known \ ghost.ended) :
                       ~bridge[b].loaded /\ bridge[b].q[m] # "queued"}
           again == IF bridge[b].started \/ rec.kind = "stop" THEN {}
                    ELSE (ends \ ghost.endSaved) \cap Written
<1>1. ghost' = IF dual \/ writes
               THEN [ghost EXCEPT !.endSaved = @ \cup ends, !.lost = @ \cup early,
                                  !.back = @ \cup again]
               ELSE ghost
  BY DEF Snapshots, NoteSave, Saved
<1>2. ~dual => ends = {}
  BY DEF Saved
<1>3. ~bridge[b].started /\ rec.kind # "stop" => again = (ends \ ghost.endSaved) \cap Written
  OBVIOUS
<1> HIDE DEF early, again, ends, dual, writes
<1>4. DOMAIN ghost = {"known", "ended", "endSaved", "lost", "back", "stray"}
  BY DEF Sound, StoreTypes, GhostOK
<1>5. CASE dual \/ writes
  <2>1. /\ ghost'.known = ghost.known /\ ghost'.ended = ghost.ended
        /\ ghost'.endSaved = ghost.endSaved \cup ends /\ ghost'.back = ghost.back \cup again
    BY <1>1, <1>4, <1>5
  <2> QED
    BY <1>3, <2>1 DEF ends, dual
<1>6. CASE ~(dual \/ writes)
  <2>1. ghost' = ghost /\ ends = {}
    BY <1>1, <1>2, <1>6
  <2> QED
    BY <2>1 DEF ends, dual
<1> QED
  BY <1>5, <1>6

(* The calls that write: what becomes of them when t takes a snapshot.     *)
LEMMA SnapshotsCalls ==
  ASSUME Sound, NEW t \in Task, NEW rec \in Call(clock), NEW hasDb, NEW d, NEW next, next # "fwrite",
         Snapshots(t, rec, hasDb, d, next), ~Writing(task[t])
  PROVE  LET b == rec.b
             writes == bridge[b].path /\ ~(hasDb /\ d.mode = "sqlite")
         IN
         /\ IF writes THEN Writer(b, rec, task'[t]) ELSE task'[t] = Goes(rec, next)
         /\ \A u \in Task \ {t} :
              /\ Same(task[u], task'[u]) /\ task'[u].pc = task[u].pc /\ task'[u].data = task[u].data
              /\ task[u].pc = "fwrite" /\ writes => task'[u].newer = task[u].newer \cup {t}
                                                    /\ task'[u].stale = task[u].stale
              /\ task[u].pc = "fwrite" /\ ~writes => task'[u].stale = TRUE
<1> DEFINE b == rec.b
           dual == hasDb /\ Dual(d)
           saved == IF dual THEN SavedToSqlite(d, b) ELSE d
           writes == bridge[b].path /\ ~(hasDb /\ d.mode = "sqlite")
           times == IF dual THEN saved.scenes ELSE bridge[b].scenes
           writer == [rec EXCEPT !.pc = "fwrite", !.data = bridge[b].q, !.newer = {}, !.stale = FALSE,
                                 !.scenes = times]
<1>1. task' = [u \in Task |->
           CASE u = t -> IF writes THEN writer ELSE Goes(rec, next)
             [] u # t /\ task[u].pc = "fwrite" ->
                  IF writes THEN [task[u] EXCEPT !.newer = @ \cup {t}]
                  ELSE [task[u] EXCEPT !.stale = TRUE]
             [] OTHER -> task[u]]
  BY DEF Snapshots
<1> HIDE DEF times
<1>2. Writer(b, rec, writer)
  BY DEF Writer, Call, Same
<1> HIDE DEF writer
<1>3. IF writes THEN Writer(b, rec, task'[t]) ELSE task'[t] = Goes(rec, next)
  BY <1>1, <1>2
<1>4. \A u \in Task \ {t} :
        /\ task[u].pc # "fwrite" => task'[u] = task[u]
        /\ task[u].pc = "fwrite" /\ writes => task'[u] = [task[u] EXCEPT !.newer = @ \cup {t}]
        /\ task[u].pc = "fwrite" /\ ~writes => task'[u] = [task[u] EXCEPT !.stale = TRUE]
  BY <1>1
<1>5. \A u \in Task : task[u] \in Call(clock)
  BY DEF Sound, StoreTypes, TasksOK
<1> HIDE DEF writes
<1>6. ASSUME NEW u \in Task \ {t}
      PROVE  /\ Same(task[u], task'[u]) /\ task'[u].pc = task[u].pc /\ task'[u].data = task[u].data
             /\ task[u].pc = "fwrite" /\ writes => task'[u].newer = task[u].newer \cup {t}
                                                   /\ task'[u].stale = task[u].stale
             /\ task[u].pc = "fwrite" /\ ~writes => task'[u].stale = TRUE
  <2>1. CASE task[u].pc # "fwrite"
    BY <1>4, <2>1 DEF Same
  <2>2. CASE task[u].pc = "fwrite" /\ writes
    BY <1>4, <1>5, <2>2 DEF Same, Call
  <2>3. CASE task[u].pc = "fwrite" /\ ~writes
    BY <1>4, <1>5, <2>3 DEF Same, Call
  <2> QED
    BY <2>1, <2>2, <2>3
<1> QED
  BY <1>3, <1>6 DEF writes

LEMMA SnapshotsSpread ==
  ASSUME Sound, PInv, NEW t \in Task, NEW rec \in Call(clock), rec.b \in Bridge, rec.data = Empty,
         NEW hasDb, NEW d \in Directory(clock), NEW next, next # "fwrite",
         Snapshots(t, rec, hasDb, d, next), ~Writing(task[t]),
         \A m \in Msg : Somewhere(d, m) => Stored(m),
         \A c \in Bridge : bridge'[c].q = bridge[c].q
  PROVE  Spread
<1> DEFINE b == rec.b
<1>1. /\ disk'.json = d.json /\ disk'.legacy = d.legacy /\ disk'.snaps = d.snaps
      /\ disk'.rows = d.rows \/ disk'.rows = ScopedRows(d.rows, b, bridge[b].q)
  BY SnapshotsDisk
<1>2. Rest(t) /\ (task'[t] = Goes(rec, next) \/ Writer(b, rec, task'[t]))
  BY RestSnapshots
<1>3. task'[t].data # Empty => task'[t].b = b /\ task'[t].data = bridge[b].q /\ task'[t].pc = "fwrite"
  <2>1. Goes(rec, next).data = Empty
    BY OverCall DEF Goes, Call
  <2> QED
    BY <1>2, <2>1 DEF Writer, Same
<1>4. DataOK'
  BY <1>2, <1>3 DEF Rest, PInv, DataOK
<1>5. ASSUME NEW m \in Msg, Stored(m)'
      PROVE  Stored(m) \/ \E c \in Bridge : Held(c, m) /\ m \in Own(c)
  <2>1. CASE disk'.rows[m] = "queued"
    <3>1. CASE d.rows[m] = "queued"
      BY <3>1 DEF Somewhere
    <3>2. CASE d.rows[m] # "queued"
      BY <1>1, <2>1, <3>2 DEF ScopedRows, Held
    <3> QED
      BY <3>1, <3>2
  <2>2. CASE disk'.rows[m] # "queued"
    BY <1>1, <1>5, <2>2 DEF Stored, Somewhere
  <2> QED
    BY <2>1, <2>2
<1>6. ASSUME NEW c \in Bridge, NEW m \in Msg, NEW u \in Task,
             task'[u].b = c, task'[u].data[m] = "queued"
      PROVE  Held(c, m)
  <2>1. CASE u = t
    <3>1. task'[t].data # Empty
      BY <1>6, <2>1, EmptyHas
    <3> QED
      BY <1>3, <1>6, <2>1, <3>1 DEF Held
  <2>2. CASE u # t
    BY <1>2, <1>6, <2>2 DEF Rest, Same, Held
  <2> QED
    BY <2>1, <2>2
<1>7. /\ ghost'.known = ghost.known /\ ghost'.ended = ghost.ended
      /\ ghost'.endSaved = ghost.endSaved \cup Saved(b, hasDb /\ Dual(d))
      /\ ghost.back \subseteq ghost'.back
  BY SnapshotsNote
<1>8. \A m \in ghost'.endSaved \ ghost.endSaved :
        m \in ghost'.ended /\ m \in Own(b) /\ bridge'[b].q[m] # "queued"
  BY <1>7 DEF Saved
<1>9. /\ ghost'.known = ghost.known /\ ghost.ended \subseteq ghost'.ended
      /\ ghost.endSaved \subseteq ghost'.endSaved /\ ghost.back \subseteq ghost'.back
      /\ ghost'.ended \ ghost.ended = {}
  BY <1>7
<1> QED
  BY <1>4, <1>5, <1>6, <1>8, <1>9 DEF Spread

(* What a flush of the bridge of another agent leaves to the bridges of    *)
(* this process.                                                           *)
LEMMA SnapshotsForeign ==
  ASSUME Sound, PInv, AllAway, NEW t \in Task, NEW rec \in Call(clock), rec.b = Foreign,
         NEW hasDb, NEW d \in Directory(clock), NEW next, next # "fwrite",
         Snapshots(t, rec, hasDb, d, next), ~Writing(task[t]), hasDb => d.ok,
         \A m \in Msg : (Rowed(d, m) <=> Rowed(disk, m)) /\ (Filed(d, m) <=> Filed(disk, m)),
         host'.current = host.current, \A c \in Bridge : bridge'[c].q = bridge[c].q, SameTimers
  PROVE  AllAway'
<1> SUFFICES ASSUME NEW m \in Gone' PROVE Away(m)'
  BY DEF AllAway
<1> DEFINE writes == bridge[rec.b].path /\ ~(hasDb /\ d.mode = "sqlite")
<1>1. m \in Msg /\ m \in ours /\ m \notin Own(Foreign)
  BY ServiceAssumption DEF Gone, ours, Own, Main
<1>2. m \in Gone
  <2>1. /\ ghost'.endSaved = ghost.endSaved \cup Saved(Foreign, hasDb /\ Dual(d))
        /\ ghost.back \subseteq ghost'.back
    BY SnapshotsNote
  <2> QED
    BY <1>1, <2>1 DEF Gone, Saved
<1>3. Away(m)
  BY <1>2 DEF AllAway
<1>4. (Rowed(disk', m) <=> Rowed(disk, m)) /\ (Filed(disk', m) <=> Filed(disk, m))
  <2>1. CASE hasDb
    <3>0. /\ disk'.ok = d.ok /\ disk'.json = d.json /\ disk'.jsonAt = d.jsonAt
          /\ disk'.mode = d.mode
          /\ disk'.rows = d.rows \/ disk'.rows = ScopedRows(d.rows, rec.b, bridge[rec.b].q)
      BY SnapshotsDisk
    <3>1. /\ disk'.ok /\ d.ok /\ disk'.json = d.json /\ disk'.jsonAt = d.jsonAt
          /\ disk'.mode = d.mode /\ disk'.rows[m] = d.rows[m]
      BY <1>1, <2>1, <3>0 DEF ScopedRows
    <3>2. (Rowed(disk', m) <=> Rowed(d, m)) /\ (Filed(disk', m) <=> Filed(d, m))
      BY <3>1 DEF Rowed, Filed, Opens, Recovered
    <3> QED
      BY <1>1, <3>2
  <2>2. CASE ~hasDb
    <3>1. disk' = d
      BY <2>2 DEF Snapshots
    <3> QED
      BY <1>1, <3>1
  <2> QED
    BY <2>1, <2>2
<1>5. /\ IF writes THEN Writer(rec.b, rec, task'[t]) ELSE task'[t] = Goes(rec, next)
      /\ \A u \in Task \ {t} :
           /\ Same(task[u], task'[u]) /\ task'[u].pc = task[u].pc /\ task'[u].data = task[u].data
           /\ task[u].pc = "fwrite" /\ writes => task'[u].newer = task[u].newer \cup {t}
                                                 /\ task'[u].stale = task[u].stale
           /\ task[u].pc = "fwrite" /\ ~writes => task'[u].stale = TRUE
  BY SnapshotsCalls
<1> HIDE DEF writes
<1>6. ~Writing(task'[t])
  <2>1. ASSUME writes PROVE task'[t].b = Foreign
    BY <1>5, <2>1 DEF Writer, Same
  <2>2. ASSUME ~writes PROVE task'[t].b \in {Foreign, 0}
    BY <1>5, <2>2, OverCall DEF Goes, Call
  <2> QED
    BY <2>1, <2>2, ServiceAssumption DEF Writing, Main
<1>7. \A u \in Task : Returns(u, m)' => u # t /\ Returns(u, m) /\ task[u].newer \subseteq task'[u].newer
  <2> SUFFICES ASSUME NEW u \in Task, Returns(u, m)'
               PROVE  u # t /\ Returns(u, m) /\ task[u].newer \subseteq task'[u].newer
    OBVIOUS
  <2>1. Writing(task'[u]) /\ ~task'[u].stale /\ task'[u].data[m] = "queued"
    BY DEF Returns, Writes
  <2>2. u # t /\ Writing(task[u]) /\ task[u].pc = "fwrite"
    BY <1>5, <1>6, <2>1 DEF Writing, Same
  <2>3. writes
    BY <1>5, <2>1, <2>2
  <2> QED
    BY <1>5, <2>1, <2>2, <2>3 DEF Returns, Writes
<1>8. \A w \in Task : Covers(w, m) => Covers(w, m)' /\ (Stops(task[w]) => Stops(task'[w]))
  <2> SUFFICES ASSUME NEW w \in Task, Covers(w, m)
               PROVE  Covers(w, m)' /\ (Stops(task[w]) => Stops(task'[w]))
    OBVIOUS
  <2>1. w # t /\ Writing(task[w])
    BY DEF Covers, Writes
  <2>2. Writing(task'[w]) /\ task'[w].data = task[w].data /\ (Stops(task[w]) => Stops(task'[w]))
    BY <1>5, <2>1 DEF Writing, Same, Stops
  <2> QED
    BY <1>7, <2>2 DEF Covers, Writes
<1>9. (Dirty(m) => Covered(m))'
  <2>1. Dirty(m)' => Dirty(m)
    BY <1>4, <1>7 DEF Dirty, InJson
  <2>2. Covered(m) => Covered(m)'
    BY <1>8 DEF Covered, SameTimers
  <2> QED
    BY <1>3, <2>1, <2>2 DEF Away
<1>10. host'.current # 0 => bridge'[host'.current].q[m] # "queued"
  <2>1. host.current # 0 => host.current \in Bridge
    BY DEF Sound, HostOK, HostShape, Main
  <2> QED
    BY <1>3, <2>1 DEF Away
<1> QED
  BY <1>3, <1>4, <1>9, <1>10 DEF Away, InRows

(* A flush of the current bridge writes what takes the old ends out, or    *)
(* leaves no JSON file to be read.                                         *)
LEMMA SnapshotsMain ==
  ASSUME Sound, PInv, AllAway, NEW t \in Task, NEW rec \in Call(clock), rec.b \in Main,
         rec.b = host.current,
         NEW hasDb, NEW d \in Directory(clock), NEW next, next # "fwrite",
         Snapshots(t, rec, hasDb, d, next), ~Writing(task[t]), hasDb => d.ok,
         \A m \in Msg : (Rowed(d, m) <=> Rowed(disk, m)) /\ (Filed(d, m) <=> Filed(disk, m)),
         host'.current = host.current, \A c \in Bridge : bridge'[c].q = bridge[c].q,
         bridge[rec.b].path \/ (~hasDb /\ \A c \in Main : ~bridge[c].started),
         Stops(rec) \/ \A c \in Main : bridge[c].started => bridge'[c].started
  PROVE  AllAway'
<1> SUFFICES ASSUME NEW m \in Gone' PROVE Away(m)'
  BY DEF AllAway
<1> DEFINE b == rec.b
           writes == bridge[b].path /\ ~(hasDb /\ d.mode = "sqlite")
           dual == hasDb /\ Dual(d)
           ends == Saved(b, dual)
<1>1. m \in Msg /\ m \in ours /\ m \in Own(b) /\ b \in Bridge
  BY ServiceAssumption DEF Gone, ours, Own, Main
<1>2. /\ ghost'.endSaved = ghost.endSaved \cup ends /\ ghost.back \subseteq ghost'.back
      /\ ~bridge[b].started /\ rec.kind # "stop" => (ends \ ghost.endSaved) \cap Written \subseteq ghost'.back
  BY SnapshotsNote
<1>3. (m \in Gone /\ Away(m)) \/ (m \in ends \ ghost.endSaved)
  BY <1>1, <1>2 DEF Gone, AllAway
<1>4. bridge[b].q[m] # "queued"
  <2>1. CASE m \in Gone /\ Away(m)
    BY <1>1, <2>1, ServiceAssumption DEF Away
  <2>2. CASE m \in ends
    BY <2>2 DEF Saved
  <2> QED
    BY <1>3, <2>1, <2>2
<1>5. /\ IF writes THEN Writer(b, rec, task'[t]) ELSE task'[t] = Goes(rec, next)
      /\ \A u \in Task \ {t} :
           /\ Same(task[u], task'[u]) /\ task'[u].pc = task[u].pc /\ task'[u].data = task[u].data
           /\ task[u].pc = "fwrite" /\ writes => task'[u].newer = task[u].newer \cup {t}
                                                 /\ task'[u].stale = task[u].stale
           /\ task[u].pc = "fwrite" /\ ~writes => task'[u].stale = TRUE
  BY SnapshotsCalls
<1>6. /\ disk'.ok = d.ok /\ disk'.json = d.json /\ disk'.jsonAt = d.jsonAt /\ disk'.mode = d.mode
      /\ dual => disk'.rows = ScopedRows(d.rows, b, bridge[b].q)
      /\ ~dual => disk' = d
  <2>1. /\ disk'.ok = d.ok /\ disk'.json = d.json /\ disk'.jsonAt = d.jsonAt /\ disk'.mode = d.mode
        /\ dual => disk'.rows = ScopedRows(d.rows, b, bridge[b].q)
    BY SnapshotsDisk
  <2>2. ~dual => disk' = d
    BY DEF Snapshots
  <2> QED
    BY <2>1, <2>2
<1>7. ~dual => m \in Gone /\ Away(m)
  BY <1>3 DEF Saved
<1>8. ~Rowed(disk', m)
  <2>1. CASE dual
    <3>1. disk'.ok /\ disk'.rows[m] # "queued"
      BY <1>1, <1>4, <1>6, <2>1 DEF ScopedRows
    <3> QED
      BY <3>1 DEF Rowed, Recovered
  <2>2. CASE ~dual
    BY <1>1, <1>6, <1>7, <2>2 DEF Away, InRows
  <2> QED
    BY <2>1, <2>2
<1>9. Filed(disk', m) => Filed(disk, m)
  <2>1. CASE dual
    <3>1. disk'.ok /\ d.ok
      BY <1>6, <2>1
    <3>2. Filed(disk', m) => Filed(d, m)
      BY <1>6, <3>1 DEF Filed, Opens, Recovered
    <3> QED
      BY <1>1, <3>2
  <2>2. CASE ~dual
    BY <1>1, <1>6, <2>2
  <2> QED
    BY <2>1, <2>2
<1>10. host'.current # 0 => bridge'[host'.current].q[m] # "queued"
  BY <1>1, <1>4
<1> HIDE DEF dual, ends
<1>11. Dirty(m)' => Covered(m)'
  <2>1. CASE writes
    <3>1. Writes(t)' /\ task'[t].data[m] # "queued" /\ (Stops(rec) => Stops(task'[t]))
      BY <1>4, <1>5, <2>1 DEF Writer, Writes, Writing, Same, Stops
    <3>2. \A u \in Task : Returns(u, m)' => u # t /\ Returns(u, m) /\ task'[u].newer = task[u].newer \cup {t}
      <4> SUFFICES ASSUME NEW u \in Task, Returns(u, m)'
                   PROVE  u # t /\ Returns(u, m) /\ task'[u].newer = task[u].newer \cup {t}
        OBVIOUS
      <4>1. Writing(task'[u]) /\ ~task'[u].stale /\ task'[u].data[m] = "queued"
        BY DEF Returns, Writes
      <4>2. u # t /\ Writing(task[u]) /\ task[u].pc = "fwrite"
        BY <1>5, <3>1, <4>1 DEF Writing, Same
      <4> QED
        BY <1>5, <2>1, <4>1, <4>2 DEF Returns, Writes
    <3>3. Covers(t, m)'
      BY <3>1, <3>2 DEF Covers
    <3>4. CASE Stops(rec)
      BY <3>1, <3>3, <3>4 DEF Covered
    <3>5. CASE \E c \in Main : bridge[c].started /\ ~Stops(rec)
      BY <3>3, <3>5 DEF Covered
    <3>6. CASE ~Stops(rec) /\ \A c \in Main : ~bridge[c].started
      <4>1. Dirty(m)' => Dirty(m)
        BY <1>9, <3>2 DEF Dirty, InJson
      <4>2. CASE m \in Gone /\ Away(m)
        <5>1. SUFFICES ASSUME Dirty(m) PROVE Covered(m)'
          BY <4>1
        <5>2. PICK w \in Task : Covers(w, m) /\ Stops(task[w])
          BY <3>6, <4>2, <5>1 DEF Away, Covered
        <5>3. w # t /\ Writing(task[w])
          BY <5>2 DEF Covers, Writes
        <5>4. Writing(task'[w]) /\ task'[w].data = task[w].data /\ Stops(task'[w])
          BY <1>5, <5>2, <5>3 DEF Writing, Same, Stops
        <5>5. Covers(w, m)'
          BY <3>2, <5>2, <5>4 DEF Covers, Writes
        <5> QED
          BY <5>4, <5>5 DEF Covered
      <4>3. CASE m \in ends \ ghost.endSaved
        <5>1. m \notin Written
          BY <1>2, <3>6, <4>3 DEF Gone, Stops
        <5>2. ~Dirty(m)
          BY <1>1, <5>1 DEF Written, Queued, Dirty, InJson, Filed, Returns
        <5> QED
          BY <4>1, <5>2
      <4> QED
        BY <1>3, <4>2, <4>3
    <3> QED
      BY <3>4, <3>5, <3>6
  <2>2. CASE ~writes
    <3>1. ~Writing(task'[t])
      <4>1. task'[t] = Goes(rec, next)
        BY <1>5, <2>2
      <4> QED
        BY <4>1, OverCall DEF Goes, Call, Writing
    <3>2. \A u \in Task : ~Returns(u, m)'
      BY <1>5, <2>2, <3>1 DEF Returns, Writes, Writing
    <3>3. CASE hasDb /\ d.mode = "sqlite"
      <4>1. ~Filed(disk', m)
        BY <1>6, <3>3 DEF Filed, Recovered
      <4> QED
        BY <3>2, <4>1 DEF Dirty, InJson
    <3>4. CASE ~bridge[b].path
      <4>1. m \in Gone /\ Away(m)
        BY <1>7, <3>4 DEF dual
      <4>2. SUFFICES ASSUME Dirty(m) PROVE Covered(m)'
        BY <1>9, <3>2 DEF Dirty, InJson
      <4>3. PICK w \in Task : Covers(w, m) /\ Stops(task[w])
        BY <3>4, <4>1, <4>2 DEF Away, Covered
      <4>4. w # t /\ Writing(task[w])
        BY <4>3 DEF Covers, Writes
      <4>5. Writing(task'[w]) /\ task'[w].data = task[w].data /\ Stops(task'[w])
        BY <1>5, <4>3, <4>4 DEF Writing, Same, Stops
      <4>6. Covers(w, m)'
        BY <3>2, <4>3, <4>5 DEF Covers, Writes
      <4> QED
        BY <4>5, <4>6 DEF Covered
    <3> QED
      BY <2>2, <3>3, <3>4
  <2> QED
    BY <2>1, <2>2
<1> QED
  BY <1>8, <1>10, <1>11 DEF Away, InRows

(* A flush keeps the messages where they belong.                           *)
LEMMA SnapshotsLast ==
  ASSUME Sound, PInv, NEW t \in Task, NEW rec \in Call(clock), rec.b \in Bridge, rec.data = Empty,
         NEW hasDb, NEW d \in Directory(clock), NEW next, next # "fwrite",
         Snapshots(t, rec, hasDb, d, next), ~Writing(task[t]), hasDb => d.ok,
         \A m \in Msg : /\ Somewhere(d, m) => Stored(m)
                        /\ Rowed(d, m) <=> Rowed(disk, m)
                        /\ Filed(d, m) <=> Filed(disk, m),
         host'.current = host.current, \A c \in Bridge : bridge'[c].q = bridge[c].q,
         Leases /\ Handles =>
           /\ rec.b # Foreign => /\ rec.b = host.current
                                 /\ \/ bridge[rec.b].path
                                    \/ ~hasDb /\ \A c \in Main : ~bridge[c].started
           /\ Stops(rec) \/ \A c \in Main : bridge[c].started => bridge'[c].started
           /\ rec.b = Foreign => SameTimers
  PROVE  Lasts
<1>1. PInv'
  BY SnapshotsSpread, SpreadKeeps
<1>2. ASSUME Leases, Handles, AllAway PROVE AllAway'
  <2>1. CASE rec.b = Foreign
    BY <1>2, <2>1, SnapshotsForeign
  <2>2. CASE rec.b # Foreign
    <3>1. rec.b \in Main
      BY <2>2 DEF Main
    <3> QED
      BY <1>2, <2>2, <3>1, SnapshotsMain
  <2> QED
    BY <2>1, <2>2
<1> QED
  BY <1>1, <1>2 DEF Lasts

LEMMA SameDirectory ==
  \A m \in Msg : /\ Somewhere(disk, m) => Stored(m)
                 /\ Rowed(disk, m) <=> Rowed(disk, m)
                 /\ Filed(disk, m) <=> Filed(disk, m)
BY DEF Stored

LEMMA CutoverFlushesLasts ==
  ASSUME Sound, Basics, PInv, NEW t \in Task, CutoverFlushes(t)
  PROVE  Lasts
<1> DEFINE c == task[t]
           b == c.b
<1>1. c.pc = "cut" /\ c.pc \in Further /\ c.pc \notin {"fwrite", "closefail"}
  BY DEF CutoverFlushes, Further
<1>2. /\ Began(c) /\ b \in Main /\ b \in Bridge /\ b # Foreign /\ c \in Call(clock)
      /\ Carries(bridge[b], bridge[b]) /\ bridge[b].path /\ disk \in Directory(clock)
      /\ HandleOK(bridge[b]) /\ bridge[b].gen \in Nat
  <2>1. Began(c) /\ b \in Bridge /\ c \in Call(clock)
    BY <1>1, FurtherBegan
  <2> QED
    BY <1>1, <2>1, BeganFacts, BridgeFacts DEF Main, Carries, Basics, PathOK, Sound, StoreTypes, DiskOK
<1>3. CASE CutoverThrows(t)
  <2>1. SameMemory /\ (\A u \in Task : Bears(u)) /\ SameWrites
    BY <1>1, <1>2, <1>3, EndingStart DEF CutoverThrows, PInv
  <2>2. Building(host, host')
    BY CutoverFlushesMild, MildBuilding
  <2> QED
    BY <1>3, <2>1, <2>2, StillLasts, BreakNews DEF CutoverThrows
<1>4. CASE /\ Snapshots(t, c, TRUE, disk, "cutcheck") /\ UNCHANGED <<bridge, host>>
           /\ Holds(t)
  <2>1. PICK yes : yes = TRUE
    OBVIOUS
  <2>2. Snapshots(t, c, yes, disk, "cutcheck")
    BY <1>4, <2>1
  <2>3. bridge[b].db > 0 /\ bridge[b].db \in Nat /\ c.hold \in Nat
    BY <1>2, <1>4, BridgeFacts DEF Holds, Call
  <2>4. disk.ok
    BY <1>2, <2>3 DEF Basics, GoodDisk
  <2>5. Handles => b = host.current
    BY <1>2, <2>3 DEF Handles, OpenOK, Open, HandleOK
  <2>6. ~Writing(c) /\ c.data = Empty
    BY <1>1 DEF Writing, PInv, DataOK
  <2> QED
    BY <1>2, <1>4, <2>1, <2>2, <2>4, <2>5, <2>6, SameDirectory, SnapshotsLast
<1> QED
  BY <1>3, <1>4 DEF CutoverFlushes

LEMMA FlushOpensLasts ==
  ASSUME Sound, Basics, PInv, NEW t \in Task, FlushOpens(t, AfterFlush(task[t])), host' = host
  PROVE  Lasts
<1> DEFINE c == task[t]
           b == c.b
           s == bridge[b]
           next == AfterFlush(c)
           usable == Usable(s, c.hold)
           d == IF usable THEN Opened(disk, b) ELSE disk
<1>1. /\ c.pc = "fopen" /\ (usable => s.db > 0 \/ Opens(disk))
      /\ bridge' = (IF usable THEN [bridge EXCEPT ![b].db = c.hold] ELSE bridge)
      /\ Snapshots(t, c, usable, d, next)
  BY DEF FlushOpens
<1>2. /\ b \in Bridge /\ c \in Call(clock) /\ bridge \in [Bridge -> Memory(clock)]
      /\ DiskOK(disk, clock) /\ clock \in Nat /\ next # "fwrite"
  <2>1. next # "fwrite"
    BY DEF AfterFlush
  <2> QED
    BY <1>1, <2>1, FlushingCall, BridgeFacts DEF Sound, StoreTypes
<1>3. \A a \in Bridge : /\ bridge'[a].q = bridge[a].q /\ bridge'[a].started = bridge[a].started
                        /\ bridge'[a].timer = bridge[a].timer
  BY <1>1, <1>2 DEF Memory
<1>4. /\ d \in Directory(clock) /\ (usable => d.ok)
      /\ \A m \in Msg : /\ Somewhere(d, m) => Stored(m)
                        /\ Rowed(d, m) <=> Rowed(disk, m)
                        /\ Filed(d, m) <=> Filed(disk, m)
  <2>1. CASE ~usable
    BY <1>2, <2>1, SameDirectory DEF DiskOK
  <2>2. CASE usable
    <3>1. d = Opened(disk, b) /\ (s.db > 0 \/ Opens(disk)) /\ (s.db > 0 => disk.ok)
      BY <1>1, <1>2, <2>2 DEF Basics, GoodDisk
    <3>2. d \in Directory(clock)
      BY <1>2, <3>1, OpenedType DEF DiskOK
    <3> QED
      BY <1>2, <3>1, <3>2, OpenedHas DEF Stored
  <2> QED
    BY <2>1, <2>2
<1>5. PICK yes : yes <=> usable
  OBVIOUS
<1>6. Snapshots(t, c, yes, d, next)
  BY <1>1, <1>5 DEF Snapshots
<1> HIDE DEF d, usable, next
<1>7. ~Writing(c) /\ c.data = Empty
  BY <1>1 DEF Writing, PInv, DataOK
<1>8. Handles => (b # Foreign => b = host.current /\ s.path)
  BY <1>1, <1>2 DEF Handles, WaitsOK, Main
<1>9. SameTimers /\ \A a \in Main : bridge[a].started => bridge'[a].started
  BY <1>3 DEF SameTimers, Main
<1> QED
  BY <1>2, <1>3, <1>4, <1>5, <1>6, <1>7, <1>8, <1>9, SnapshotsLast

LEMMA SaveTimerLasts ==
  ASSUME Sound, Basics, PInv, NEW t \in Task, NEW b \in Bridge, Working(b), Free(t),
         SaveTimerFires(t, b), host' = host
  PROVE  Lasts
<1> DEFINE c == task[t]
           s == bridge[b]
           r == [s EXCEPT !.timer = FALSE]
           rec == [NoTask EXCEPT !.kind = "save", !.b = b]
           dropped == {m \in Queued(s.q) : ~OnDisk(m)}
           freed == ghost.endSaved \cap Written
<1>1. /\ c.pc = "idle" /\ bridge' = [bridge EXCEPT ![b].timer = FALSE]
      /\ b \in {Foreign, host.current}
  BY DEF SaveTimerFires, Working
<1>2. /\ s \in Memory(clock) /\ bridge \in [Bridge -> Memory(clock)] /\ disk \in Directory(clock)
      /\ s.db \in Nat
  BY BridgeFacts DEF Sound, StoreTypes, DiskOK
<1>3. bridge' = [bridge EXCEPT ![b] = r]
  BY <1>1, <1>2
<1>4. r.q = s.q /\ r.started = s.started /\ r.timer = FALSE
  BY <1>2 DEF Memory
<1> HIDE DEF r
<1>5. /\ \A a \in Bridge : bridge'[a].q = bridge[a].q /\ bridge'[a].started = bridge[a].started
      /\ \A a \in Bridge \ {b} : bridge'[a] = bridge[a]
  BY <1>2, <1>3, <1>4
<1>6. /\ rec \in Call(clock) /\ rec.kind = "save" /\ rec.b = b /\ rec.pc = "idle" /\ rec.data = Empty
      /\ ~Writing(c) /\ c.pc \notin {"fwrite", "closefail"}
  BY <1>1, NoTaskType DEF Call, Sound, StoreTypes, NoTask, Writing
<1>7. Building(host, host')
  BY SameBuilding
<1>8. CASE s.stopped
  <2>1. /\ disk' = disk /\ task' = task
        /\ ghost' = [ghost EXCEPT !.lost = @ \cup dropped, !.back = @ \cup freed]
    BY <1>8 DEF SaveTimerFires
  <2> HIDE DEF dropped
  <2>2. SameNews /\ ghost'.back = ghost.back \cup freed
    BY <2>1 DEF SameNews, Sound, StoreTypes, GhostOK
  <2>3. Thin
    BY <1>5, <2>1, <2>2, SameCalls DEF Thin, Stored, PInv
  <2>4. ASSUME AllAway, NEW m \in Gone' PROVE Away(m)'
    <3>1. m \in Gone /\ m \in Msg /\ m \notin Written
      BY <2>2 DEF Gone, ours, Own, SameNews
    <3>2. Away(m)
      BY <2>4, <3>1 DEF AllAway
    <3>3. ~Dirty(m)'
      BY <2>1, <3>1 DEF Written, Queued, Dirty, InJson, Filed, Returns, Writes
    <3>4. host'.current # 0 => bridge'[host'.current].q[m] # "queued"
      <4>1. host.current # 0 => host.current \in Bridge
        BY DEF Sound, HostOK, HostShape, Main
      <4> QED
        BY <1>5, <3>2, <4>1 DEF Away
    <3> QED
      BY <2>1, <3>2, <3>3, <3>4 DEF Away, InRows
  <2> QED
    BY <2>3, <2>4, ThinSpread, SpreadKeeps DEF Lasts, AllAway
<1>9. CASE ~s.stopped /\ (s.db > 0 \/ s.closed \/ ~s.path)
  <2>1. Snapshots(t, rec, s.db > 0, disk, "idle")
    BY <1>9 DEF SaveTimerFires, CallsFlush
  <2> HIDE DEF rec
  <2>2. PICK open : open <=> s.db > 0
    OBVIOUS
  <2>3. Snapshots(t, rec, open, disk, "idle")
    BY <2>1, <2>2 DEF Snapshots
  <2>4. open => disk.ok
    BY <2>2 DEF Basics, GoodDisk
  <2>5. ASSUME Leases, Handles, b # Foreign
        PROVE  b = host.current /\ (s.path \/ (~open /\ \A a \in Main : ~bridge[a].started))
    <3>1. b = host.current /\ b \in Main
      BY <1>1, <2>5 DEF Main
    <3>2. s.db > 0 => s.path
      BY <2>5, <3>1 DEF Handles, DbOK
    <3>3. \A a \in Main : bridge[a].started => a = b
      BY <2>5, <3>1 DEF Leases, Owned
    <3>4. s.started => s.db > 0
      BY <2>5, <3>1 DEF Handles, RunsOK
    <3> QED
      BY <2>2, <3>1, <3>2, <3>3, <3>4
  <2>6. \A a \in Main : bridge[a].started => bridge'[a].started
    BY <1>5 DEF Main
  <2>7. b = Foreign => SameTimers
    BY <1>5 DEF SameTimers, Main
  <2> QED
    BY <1>2, <1>5, <1>6, <2>3, <2>4, <2>5, <2>6, <2>7, SameDirectory, SnapshotsLast
<1>10. CASE ~s.stopped /\ ~(s.db > 0 \/ s.closed \/ ~s.path)
  <2> DEFINE x == [rec EXCEPT !.pc = "fopen", !.hold = s.gen]
  <2>1. task' = [task EXCEPT ![t] = x] /\ disk' = disk /\ ghost' = ghost
    BY <1>10 DEF SaveTimerFires, CallsFlush
  <2>2. x.pc = "fopen" /\ x.data = Empty
    BY <1>6 DEF Call
  <2> HIDE DEF x
  <2>3. (\A u \in Task : Bears(u)) /\ SameWrites
    BY <1>6, <2>1, <2>2, OneCall DEF PInv
  <2>4. Thin
    BY <1>5, <2>1, <2>3, SameGhost DEF Thin, Stored
  <2>5. Handles => SameTimers
    <3> SUFFICES ASSUME Handles, NEW a \in Main, bridge[a].started
                 PROVE  bridge'[a].started /\ (bridge[a].timer => bridge'[a].timer)
      BY DEF SameTimers
    <3>1. a # b
      BY <1>10 DEF Handles, RunsOK
    <3> QED
      BY <1>5, <3>1 DEF Main
  <2>6. SameStore
    BY <2>1 DEF SameStore
  <2> QED
    BY <1>7, <2>3, <2>4, <2>5, <2>6, UnmovedLasts DEF Unmoved
<1> QED
  BY <1>8, <1>9, <1>10

LEMMA CallsStopLasts ==
  ASSUME Sound, Basics, PInv, NEW t \in Task, NEW r \in Reg, CallsStop(t, r)
  PROVE  Lasts
<1> DEFINE c == task[t]
           g == host.cb[r]
           b == host.current
           s == bridge[b]
           n == [s EXCEPT !.stopped = TRUE, !.started = FALSE, !.chan = FALSE, !.timer = FALSE]
           rec == [NoTask EXCEPT !.kind = "stop", !.reg = r, !.gen = g, !.b = b]
           straight == n.db > 0 \/ n.closed \/ ~n.path
           x == [rec EXCEPT !.pc = "fopen", !.hold = n.gen]
<1>1. /\ c.pc = "idle" /\ IsActive(host, r, g) /\ clock' = clock
      /\ host' = Retiring(host, r) /\ bridge' = [bridge EXCEPT ![b] = n]
      /\ straight => Snapshots(t, rec, n.db > 0, disk, "close")
      /\ ~straight => task' = [task EXCEPT ![t] = x] /\ disk' = disk /\ ghost' = ghost
  BY DEF CallsStop, CallsFlush, Free
<1>2. HostOK(host) /\ HostShape(host) /\ host.active.phase = "active"
  BY <1>1 DEF Sound, HostOK, IsActive
<1>3. b \in Main /\ b \in Bridge /\ b # Foreign /\ g \in Nat
  BY <1>1, <1>2 DEF HostOK, Based, Living, Main, HostShape
<1>4. /\ s \in Memory(clock) /\ bridge \in [Bridge -> Memory(clock)] /\ disk \in Directory(clock)
      /\ s.db \in Nat
  BY <1>3, BridgeFacts DEF Sound, StoreTypes, DiskOK
<1>5. ~n.started /\ n.path = s.path /\ n.closed = s.closed /\ n.db = s.db /\ n.q = s.q
  BY <1>4 DEF Memory
<1>6. /\ rec \in Call(clock) /\ rec.kind = "stop" /\ rec.b = b /\ rec.pc = "idle" /\ rec.data = Empty
      /\ x.pc = "fopen" /\ x.data = Empty
  <2>1. rec \in Call(clock) /\ rec.kind = "stop" /\ rec.b = b /\ rec.pc = "idle" /\ rec.data = Empty
    BY <1>2, <1>3, NoTaskType DEF Call, Sound, StoreTypes, NoTask
  <2> HIDE DEF rec, n
  <2>2. x.pc = "fopen" /\ x.data = Empty
    BY <2>1 DEF Call
  <2> QED
    BY <2>1, <2>2
<1> HIDE DEF n, x
<1>7. ~Writing(c) /\ c.pc \notin {"fwrite", "closefail"}
  BY <1>1 DEF Writing
<1>8. Sited(host, host')
  BY <1>1, <1>2, RetiringSited
<1>9. /\ \A a \in Bridge : bridge'[a].q = bridge[a].q
      /\ \A a \in Bridge \ {b} : bridge'[a] = bridge[a]
  BY <1>1, <1>3, <1>4, <1>5
<1>10. CASE straight
  <2> HIDE DEF rec
  <2>1. PICK open : open <=> n.db > 0
    OBVIOUS
  <2>0. Snapshots(t, rec, n.db > 0, disk, "close")
    BY <1>1, <1>10
  <2> HIDE DEF straight
  <2>2. Snapshots(t, rec, open, disk, "close")
    BY <2>0, <2>1 DEF Snapshots
  <2>3. open => disk.ok
    BY <1>3, <1>5, <2>1 DEF Basics, GoodDisk
  <2>4. ASSUME Leases, Handles
        PROVE  s.path \/ (~open /\ \A a \in Main : ~bridge[a].started)
    <3>1. s.db > 0 => s.path
      BY <1>3, <2>4 DEF Handles, DbOK
    <3>2. \A a \in Main : bridge[a].started => a = b
      BY <2>4 DEF Leases, Owned
    <3>3. s.started => s.db > 0
      BY <1>3, <2>4 DEF Handles, RunsOK
    <3> QED
      BY <1>5, <2>1, <3>1, <3>2, <3>3
  <2>5. Stops(rec) /\ host'.current = host.current
    BY <1>6, <1>8 DEF Stops, Sited
  <2> QED
    BY <1>3, <1>4, <1>6, <1>7, <1>9, <2>2, <2>3, <2>4, <2>5, SameDirectory, SnapshotsLast
<1>11. CASE ~straight
  <2>1. (\A u \in Task : Bears(u)) /\ SameWrites
    BY <1>1, <1>6, <1>7, <1>11, OneCall DEF PInv
  <2>2. Thin
    BY <1>1, <1>9, <1>11, <2>1, SameGhost DEF Thin, Stored
  <2>3. Handles => SameTimers
    <3> SUFFICES ASSUME Handles, NEW a \in Main, bridge[a].started
                 PROVE  bridge'[a].started /\ (bridge[a].timer => bridge'[a].timer)
      BY DEF SameTimers
    <3>1. a # b
      BY <1>5, <1>11 DEF Handles, RunsOK
    <3> QED
      BY <1>9, <3>1 DEF Main
  <2>4. SameStore
    BY <1>1, <1>11 DEF SameStore
  <2>5. Building(host, host')
    BY <1>8, SameBuilding DEF Sited
  <2> QED
    BY <2>1, <2>2, <2>3, <2>4, <2>5, UnmovedLasts DEF Unmoved
<1> QED
  BY <1>10, <1>11

(* A write that lands, or fails, supersedes those that were begun before;  *)
(* those begun after it take out of the JSON file what it has put there.   *)
LEMMA SupersededCover ==
  ASSUME Sound, NEW t \in Task, NEW x, task' = Superseded(t, x), ~Writing(x), SameTimers,
         NEW m \in Msg, Dirty(m) => Covered(m), Filed(disk', m) => Returns(t, m)
  PROVE  (Dirty(m) => Covered(m))'
<1>1. /\ task'[t] = x
      /\ \A u \in Task \ {t} : /\ t \notin task[u].newer => task'[u] = task[u]
                               /\ Same(task[u], task'[u]) /\ task'[u].pc = task[u].pc
                               /\ task'[u].data = task[u].data
                               /\ t \in task[u].newer => task'[u].stale = TRUE
  <2>1. Rest(t) /\ task'[t] = x
    BY RestSuperseded
  <2>2. \A u \in Task \ {t} : t \notin task[u].newer => task'[u] = task[u]
    BY DEF Superseded
  <2>3. ASSUME NEW u \in Task \ {t}, t \in task[u].newer PROVE task'[u].stale = TRUE
    <3>1. task'[u] = [task[u] EXCEPT !.newer = @ \ {t}, !.stale = TRUE]
      BY <2>3 DEF Superseded
    <3>2. task[u] \in Call(clock)
      BY DEF Sound, StoreTypes, TasksOK
    <3> QED
      BY <3>1, <3>2 DEF Call
  <2> QED
    BY <2>1, <2>2, <2>3 DEF Rest
<1>2. \A u \in Task : Returns(u, m)' =>
        u # t /\ Returns(u, m) /\ t \notin task[u].newer /\ task'[u] = task[u]
  <2> SUFFICES ASSUME NEW u \in Task, Returns(u, m)'
               PROVE  u # t /\ Returns(u, m) /\ t \notin task[u].newer /\ task'[u] = task[u]
    OBVIOUS
  <2>1. Writing(task'[u]) /\ ~task'[u].stale /\ task'[u].data[m] = "queued"
    BY DEF Returns, Writes
  <2>2. u # t
    BY <1>1, <2>1
  <2>3. t \notin task[u].newer
    BY <1>1, <2>1, <2>2
  <2> QED
    BY <1>1, <2>1, <2>2, <2>3 DEF Returns, Writes
<1>3. SUFFICES ASSUME Dirty(m)' PROVE Covered(m)'
  OBVIOUS
<1>4. Covered(m)
  BY <1>2, <1>3 DEF Dirty, InJson
<1>5. CASE \E b \in Main : bridge[b].started /\ bridge[b].timer
  BY <1>5 DEF SameTimers, Covered
<1>6. ASSUME NEW w \in Task, Covers(w, m), Stops(task[w]) \/ \E b \in Main : bridge[b].started
      PROVE  Covered(m)'
  <2>1. w # t
    <3>1. CASE Filed(disk', m)
      BY <1>6, <3>1 DEF Covers, Returns
    <3>2. CASE ~Filed(disk', m)
      <4>1. PICK u \in Task : Returns(u, m)'
        BY <1>3, <3>2 DEF Dirty, InJson
      <4> QED
        BY <1>2, <1>6, <4>1 DEF Covers
    <3> QED
      BY <3>1, <3>2
  <2>2. Writing(task'[w]) /\ task'[w].data = task[w].data /\ (Stops(task[w]) => Stops(task'[w]))
    BY <1>1, <1>6, <2>1 DEF Covers, Writes, Writing, Same, Stops
  <2>3. Covers(w, m)'
    BY <1>2, <1>6, <2>2 DEF Covers, Writes
  <2>4. (\E b \in Main : bridge[b].started) => \E b \in Main : bridge'[b].started
    BY DEF SameTimers
  <2> QED
    BY <1>6, <2>2, <2>3, <2>4 DEF Covered
<1> QED
  BY <1>4, <1>5, <1>6 DEF Covered

LEMMA JsonLandsLasts ==
  ASSUME Sound, Basics, PInv, NEW t \in Task, JsonLands(t, AfterFlush(task[t])), host' = host
  PROVE  Lasts
<1> DEFINE c == task[t]
           b == c.b
           next == AfterFlush(c)
           e == [c EXCEPT !.data = Empty, !.scenes = NoScenes, !.newer = {}, !.stale = FALSE]
           x == Goes(e, next)
           old == {m \in Queued(c.data) : c.stale \/ m \notin Own(b)}
<1>1. /\ c.pc = "fwrite" /\ bridge' = bridge /\ task' = Superseded(t, x)
      /\ disk' = [disk EXCEPT !.json = c.data, !.jscenes = c.scenes, !.jsonAt = TRUE]
      /\ ghost' = [ghost EXCEPT !.back = @ \cup old]
  BY DEF JsonLands
<1>2. b \in Bridge /\ c \in Call(clock) /\ disk \in Directory(clock)
  BY <1>1, FlushingCall DEF Sound, StoreTypes, DiskOK
<1>3. /\ disk'.rows = disk.rows /\ disk'.legacy = disk.legacy /\ disk'.snaps = disk.snaps
      /\ disk'.ok = disk.ok /\ disk'.json = c.data
  BY <1>1, <1>2 DEF Directory
<1>4. Recovered(disk').rows = Recovered(disk).rows
  BY <1>1, <1>2, <1>3 DEF Recovered, Newest, Directory
<1>5. x.data = Empty /\ x.pc # "fwrite"
  <2>1. e.data = Empty /\ "pc" \in DOMAIN e /\ "data" \in DOMAIN e
    BY <1>2 DEF Call
  <2> HIDE DEF e
  <2>2. [e EXCEPT !.pc = next].data = Empty /\ [e EXCEPT !.pc = next].pc = next
    BY <2>1
  <2> QED
    BY <2>2, OverCall DEF Goes, AfterFlush
<1> HIDE DEF x
<1>6. Rest(t) /\ task'[t] = x
  BY <1>1, RestSuperseded
<1>7. \A u \in Task : Bears(u)
  BY <1>5, <1>6, RestBears DEF Bears, PInv
<1>8. SameNews /\ ghost'.back = ghost.back \cup old
  BY <1>1 DEF SameNews, Sound, StoreTypes, GhostOK
<1>9. ASSUME NEW m \in Msg, Stored(m)'
      PROVE  Stored(m) \/ \E a \in Bridge : Held(a, m) /\ (m \in Own(a) \/ m \in ghost'.back)
  <2>1. CASE c.data[m] = "queued"
    <3>1. Held(b, m)
      BY <2>1 DEF Held
    <3>2. m \in Own(b) \/ m \in ghost'.back
      BY <1>8, <2>1 DEF Queued
    <3> QED
      BY <1>2, <3>1, <3>2
  <2>2. CASE c.data[m] # "queued"
    BY <1>3, <1>9, <2>2 DEF Stored, Somewhere
  <2> QED
    BY <2>1, <2>2
<1>10. Spread
  BY <1>1, <1>7, <1>8, <1>9, BearsKeep DEF Spread, SameNews
<1>11. ASSUME AllAway, NEW m \in Gone' PROVE Away(m)'
  <2>1. m \in Gone /\ m \in Msg /\ m \in ours /\ m \notin ghost'.back
    BY <1>8 DEF Gone, ours, Own, SameNews
  <2>2. Away(m)
    BY <1>11, <2>1 DEF AllAway
  <2>3. Filed(disk', m) => Returns(t, m)
    <3> SUFFICES ASSUME c.data[m] = "queued" PROVE Returns(t, m)
      BY <1>3 DEF Filed
    <3>1. ~c.stale /\ m \in Own(b)
      BY <1>8, <2>1 DEF Queued
    <3>2. b # Foreign
      BY <2>1, <3>1, ServiceAssumption DEF ours, Own, Main
    <3> QED
      BY <1>1, <1>2, <3>1, <3>2 DEF Returns, Writes, Writing, Main
  <2>4. SameTimers
    BY <1>1 DEF SameTimers
  <2>5. ~Writing(x)
    BY <1>5 DEF Writing
  <2>6. (Dirty(m) => Covered(m))'
    BY <1>1, <2>1, <2>2, <2>3, <2>4, <2>5, SupersededCover DEF Away
  <2>7. ~Rowed(disk', m)
    BY <1>3, <1>4, <2>2 DEF Away, InRows, Rowed, Opens
  <2> QED
    BY <1>1, <2>2, <2>6, <2>7 DEF Away, InRows
<1> QED
  BY <1>10, <1>11, SpreadKeeps DEF Lasts, AllAway

LEMMA FlushFailsLasts ==
  ASSUME Sound, Basics, PInv, NEW t \in Task, FlushFails(t)
  PROVE  Lasts
<1> DEFINE c == task[t]
           b == c.b
           s == bridge[b]
           x == Goes(c, IF c.kind = "stop" THEN "closefail" ELSE "idle")
           freed == ghost.endSaved \cap Queued(disk.json)
<1>1. /\ c.pc \in {"fopen", "fwrite"} /\ task' = Superseded(t, x) /\ disk' = disk
      /\ IF c.kind = "start" THEN Breaks(t, TRUE) ELSE UNCHANGED <<bridge, host>>
      /\ ghost' = [NoteBreak(t) EXCEPT !.back = @ \cup freed]
  BY DEF FlushFails
<1>2. b \in Bridge /\ c \in Call(clock) /\ bridge \in [Bridge -> Memory(clock)] /\ s \in Memory(clock)
  <2>1. c.pc \in {"fopen", "fwrite", "cut"}
    BY <1>1
  <2> HIDE DEF x
  <2> QED
    BY <2>1, FlushingCall, BridgeFacts
<1>3. \/ x = NoTask
      \/ x.pc = "closefail" /\ x.data = c.data /\ x.b = c.b
  BY <1>2 DEF Goes, Call
<1> HIDE DEF x
<1>4. Rest(t) /\ task'[t] = x
  BY <1>1, RestSuperseded
<1>5. \A u \in Task : Bears(u)
  BY <1>3, <1>4, RestBears, OverCall DEF Bears, PInv
<1>6. SameNews /\ ghost'.back = ghost.back \cup freed
  BY <1>1, BreakNotes DEF SameNews, Sound, StoreTypes, GhostOK
<1>7. SameMemory
  <2>1. CASE c.kind = "start"
    <3> DEFINE w == [s EXCEPT !.stopped = @ \/ TRUE]
               r == CloseGeneration(w, c.sgen)
    <3>1. bridge' = [bridge EXCEPT ![b] = r]
      BY <1>1, <2>1 DEF Breaks
    <3>2. DOMAIN w = DOMAIN s /\ Carries(w, s)
      BY <1>2 DEF Carries, Memory
    <3> HIDE DEF w
    <3>3. Carries(r, s)
      BY <1>2, <3>2, ClosingKeeps
    <3> HIDE DEF r
    <3> QED
      BY <1>2, <3>1, <3>3, OneMemory
  <2>2. CASE c.kind # "start"
    BY <1>1, <2>2, SameBridges
  <2> QED
    BY <2>1, <2>2
<1>8. Thin
  BY <1>1, <1>5, <1>6, <1>7 DEF Thin, Stored, SameMemory, Carries
<1>9. ASSUME AllAway, NEW m \in Gone' PROVE Away(m)'
  <2>1. m \in Gone /\ m \in Msg /\ m \notin ghost'.back /\ m \in ghost.endSaved
    BY <1>6 DEF Gone, ours, Own, SameNews
  <2>2. Away(m)
    BY <1>9, <2>1 DEF AllAway
  <2>3. ~Filed(disk', m)
    BY <1>1, <1>6, <2>1 DEF Filed, Queued
  <2>4. SameTimers
    BY <1>7 DEF SameTimers, SameMemory, Carries, Main
  <2>5. ~Writing(x)
    BY <1>3, OverCall DEF Writing
  <2>6. (Dirty(m) => Covered(m))'
    BY <1>1, <2>1, <2>2, <2>3, <2>4, <2>5, SupersededCover DEF Away
  <2>7. host'.current # 0 => bridge'[host'.current].q[m] # "queued"
    <3>1. Building(host, host')
      BY FlushFailsMild, MildBuilding
    <3>2. \A a \in Bridge : bridge'[a].q[m] = "queued" => bridge[a].q[m] = "queued"
      BY <1>7 DEF SameMemory, Carries
    <3> QED
      BY <2>1, <2>2, <3>1, <3>2, CurrentAway DEF Away
  <2> QED
    BY <1>1, <2>2, <2>6, <2>7 DEF Away, InRows
<1> QED
  BY <1>8, <1>9, ThinSpread, SpreadKeeps DEF Lasts, AllAway

-----------------------------------------------------------------------------
(* A load.                                                                 *)

(* What a load takes is in the rows or in the JSON file, and what it       *)
(* writes into the rows is what it has taken.                              *)
LEMMA LoadTakes ==
  ASSUME NEW d \in Directory(clock), NEW b \in Bridge, NEW hasDb, NEW json, NEW m \in Msg,
         json[m] = "queued" => d.json[m] = "queued",
         LoadedQueue(d, b, hasDb, json)[m] = "queued"
  PROVE  /\ d.json[m] = "queued" \/ (d.rows[m] = "queued" /\ m \in Own(b))
         /\ m \in Own(b) \/ json[m] = "queued"
         /\ json[m] = "queued" \/ (d.rows[m] = "queued" /\ m \in Own(b))
BY DEF LoadedQueue, Merged

LEMMA AfterLoadHas ==
  ASSUME NEW d \in Directory(clock), NEW b \in Bridge, NEW q
  PROVE  LET e == AfterLoad(d, b, q) IN
         /\ e.json = d.json /\ e.jsonAt = d.jsonAt /\ e.legacy = d.legacy /\ e.snaps = d.snaps
         /\ e.ok = d.ok /\ (e.mode = "sqlite" <=> d.mode = "sqlite")
         /\ e.rows = q \/ e.rows = ScopedRows(d.rows, b, q)
BY DEF AfterLoad, Directory, Dual

LEMMA LoadsLasts == ASSUME Sound, Basics, PInv, NEW t \in Task, Loads(t) PROVE Lasts
<1> DEFINE c == task[t]
           b == c.b
           s == bridge[b]
           hasDb == c.hold > 0
           closed == hasDb /\ s.db # c.hold
           json == IF hasDb THEN JsonRead(disk, disk) ELSE IF disk.jsonAt THEN disk.json ELSE Empty
           q == LoadedQueue(disk, b, hasDb /\ ~closed, json)
           new == LoadedBridge(s, disk, hasDb /\ ~closed, q)
           stop == [new EXCEPT !.stopped = TRUE]
           next == IF left.cut THEN "cut" ELSE "refresh"
           late == ~Current(c)
           others == {m \in Queued(json) : m \notin Own(b)}
           again == {m \in ghost.endSaved \cap Queued(q) : late}
           dropped == {m \in Queued(bridge[b].q) \ Queued(q) : late}
<1>1. /\ c.pc = "read" /\ c.pc \in Further /\ c.pc \notin {"fwrite", "closefail"}
      /\ ghost' = [ghost EXCEPT !.back = @ \cup others \cup again, !.lost = @ \cup dropped]
  BY DEF Loads, Further, NoteLoad
<1>2. /\ Began(c) /\ b \in Bridge /\ b \in Main /\ c \in Call(clock) /\ s \in Memory(clock)
      /\ bridge \in [Bridge -> Memory(clock)] /\ task \in [Task -> Call(clock)]
      /\ disk \in Directory(clock) /\ c.hold \in Nat
  <2>1. Began(c) /\ c \in Call(clock)
    BY <1>1, FurtherBegan
  <2> QED
    BY <1>1, <2>1, FurtherBegan, BeganFacts DEF Sound, StoreTypes, DiskOK, Call
<1>3. SameNews /\ ghost'.back = ghost.back \cup others \cup again
  <2> HIDE DEF dropped, others, again
  <2> QED
    BY <1>1 DEF SameNews, Sound, StoreTypes, GhostOK
<1>4. /\ new.q = q /\ new.timer = s.timer /\ new.started = s.started /\ new.gen = s.gen
      /\ stop.q = q /\ stop.timer = s.timer /\ stop.started = s.started /\ stop.gen = s.gen
  BY <1>2 DEF LoadedBridge, Memory
<1>5. /\ \/ bridge' = [bridge EXCEPT ![b] = new]
         \/ bridge' = [bridge EXCEPT ![b] = CloseGeneration(new, c.sgen)]
         \/ bridge' = [bridge EXCEPT ![b] = CloseGeneration(stop, c.sgen)]
      /\ \/ task' = [task EXCEPT ![t] = NoTask]
         \/ task' = [task EXCEPT ![t].pc = next]
      /\ \/ disk' = disk
         \/ hasDb /\ ~closed /\ disk' = AfterLoad(disk, b, q)
  <2> HIDE DEF new, stop, next, q
  <2>1. CASE closed
    BY <2>1 DEF Loads, new, stop, q
  <2>2. CASE ~closed
    <3>1. disk' = (IF hasDb THEN AfterLoad(disk, b, q) ELSE disk) /\ GoesOn(t, new, next)
      BY <2>2 DEF Loads, new, next, q
    <3> QED
      BY <2>2, <3>1 DEF GoesOn
  <2> QED
    BY <2>1, <2>2
<1>6. (\A u \in Task : Bears(u)) /\ SameWrites
  <2>1. next # "fwrite"
    OBVIOUS
  <2> HIDE DEF next
  <2> QED
    BY <1>1, <1>5, <2>1, CallMoves DEF PInv
<1>7. /\ bridge'[b].q = q /\ bridge'[b].timer = s.timer /\ bridge'[b].started = s.started
      /\ \A a \in Bridge \ {b} : bridge'[a] = bridge[a]
  <2>1. \A r \in {new, stop} : LET k == CloseGeneration(r, c.sgen) IN
          k.q = r.q /\ k.timer = r.timer /\ k.started = r.started
    BY <1>2 DEF CloseGeneration, LoadedBridge, Memory
  <2> HIDE DEF new, stop, q
  <2> QED
    BY <1>2, <1>4, <1>5, <2>1
<1>8. \A m \in Msg : json[m] = "queued" => disk.json[m] = "queued"
  BY EmptyHas DEF JsonRead
<1>9. \A m \in Msg : q[m] = "queued" =>
        /\ disk.json[m] = "queued" \/ (disk.rows[m] = "queued" /\ m \in Own(b))
        /\ m \in Own(b) \/ json[m] = "queued"
        /\ json[m] = "queued" \/ (disk.rows[m] = "queued" /\ m \in Own(b))
  <2>1. PICK yes : yes <=> hasDb /\ ~closed
    OBVIOUS
  <2>2. q = LoadedQueue(disk, b, yes, json)
    BY <2>1 DEF LoadedQueue
  <2> HIDE DEF q, json
  <2> QED
    BY <1>2, <1>8, <2>2, LoadTakes
<1>10. \A m \in Msg : q[m] = "queued" => Stored(m) /\ (m \in Own(b) \/ m \in ghost'.back)
  BY <1>3, <1>9 DEF Stored, Somewhere, Queued
<1> HIDE DEF q, json, new, stop, next, others, again, dropped
<1>11. \A m \in Msg : Stored(m)' => Stored(m)
  <2>1. CASE disk' = disk
    BY <2>1 DEF Stored
  <2>2. CASE disk' = AfterLoad(disk, b, q)
    <3>1. /\ disk'.json = disk.json /\ disk'.legacy = disk.legacy /\ disk'.snaps = disk.snaps
          /\ disk'.rows = q \/ disk'.rows = ScopedRows(disk.rows, b, q)
      BY <1>2, <2>2, AfterLoadHas
    <3>2. \A m \in Msg : disk'.rows[m] = "queued" => disk.rows[m] = "queued" \/ q[m] = "queued"
      BY <3>1 DEF ScopedRows
    <3> QED
      BY <1>10, <3>1, <3>2 DEF Stored, Somewhere
  <2> QED
    BY <1>5, <2>1, <2>2
<1>12. Spread
  <2>1. DataOK' /\ \A a \in Bridge, m \in Msg, u \in Task :
                      task'[u].b = a /\ task'[u].data[m] = "queued" => Held(a, m)
    BY <1>6, BearsKeep
  <2>2. \A a \in Bridge, m \in Msg : bridge'[a].q[m] = "queued" =>
          \/ bridge[a].q[m] = "queued"
          \/ a \in Main /\ Stored(m) /\ (m \in Own(a) \/ m \in ghost'.back)
    BY <1>2, <1>7, <1>10
  <2> QED
    BY <1>3, <1>11, <2>1, <2>2 DEF Spread, SameNews
<1>13. ASSUME Leases, Handles, AllAway, NEW m \in Gone' PROVE Away(m)'
  <2>1. m \in Gone /\ m \in Msg /\ m \in Own(b) /\ m \notin ghost'.back /\ m \in ghost.endSaved
    BY <1>2, <1>3, ServiceAssumption DEF Gone, ours, Own, SameNews, Main
  <2>2. Away(m)
    BY <1>13, <2>1 DEF AllAway
  <2>3. q[m] # "queued"
    <3>1. CASE late
      BY <1>3, <2>1, <3>1 DEF again, Queued
    <3>2. CASE ~late
      <4>1. Opener(t)
        BY <1>2, <3>2 DEF Opener
      <4>2. b = host.current /\ ~s.started /\ host.active.phase = "active"
        BY <1>13, <4>1, OpenerFacts
      <4>3. c.hold = s.gen /\ s.db > 0 /\ s.db = s.gen
        BY <1>1, <1>2, <1>13, <4>1, <4>2 DEF Handles, GoingOK, DbOK
      <4>4. disk.ok
        BY <1>2, <4>3 DEF Basics, GoodDisk
      <4>5. \A a \in Main : ~bridge[a].started
        BY <1>13, <4>2 DEF Leases, Owned
      <4>6. \A u \in Task : ~Stops(task[u])
        BY <4>2 DEF Sound, CallsOK, CallOK, Stops
      <4>7. ~Dirty(m)
        BY <2>2, <4>5, <4>6 DEF Away, Covered
      <4>8. json[m] # "queued"
        BY <2>1, <4>3, <4>4, <4>7, EmptyHas DEF Dirty, InJson, Filed, Opens, Recovered, json, JsonRead
      <4>9. disk.rows[m] # "queued"
        BY <2>2, <4>4 DEF Away, InRows, Rowed, Opens, Recovered
      <4> QED
        BY <1>9, <2>1, <4>8, <4>9
    <3> QED
      BY <3>1, <3>2
  <2>4. SameTimers
    BY <1>7 DEF SameTimers, Main
  <2>5. \A a \in Bridge : bridge'[a].q[m] = "queued" => bridge[a].q[m] = "queued"
    BY <1>7, <2>3
  <2>6. (Rowed(disk', m) => Rowed(disk, m)) /\ (Filed(disk', m) => Filed(disk, m))
    <3>1. CASE disk' = disk
      BY <3>1
    <3>2. CASE hasDb /\ ~closed /\ disk' = AfterLoad(disk, b, q)
      <4>1. s.db > 0
        BY <3>2
      <4>2. disk.ok
        BY <1>2, <4>1 DEF Basics, GoodDisk
      <4>3. /\ disk'.json = disk.json /\ disk'.jsonAt = disk.jsonAt
            /\ disk'.ok = disk.ok /\ (disk'.mode = "sqlite" <=> disk.mode = "sqlite")
            /\ disk'.rows = q \/ disk'.rows = ScopedRows(disk.rows, b, q)
        BY <1>2, <3>2, AfterLoadHas
      <4>4. disk'.rows[m] # "queued"
        BY <2>1, <2>3, <4>3 DEF ScopedRows
      <4> QED
        BY <4>2, <4>3, <4>4 DEF Rowed, Filed, Opens, Recovered
    <3> QED
      BY <1>5, <3>1, <3>2
  <2>7. Building(host, host')
    BY LoadsMild, MildBuilding
  <2> QED
    BY <1>6, <2>1, <2>2, <2>4, <2>5, <2>6, <2>7, AwayKeeps
<1> QED
  BY <1>12, <1>13, SpreadKeeps DEF Lasts, AllAway

-----------------------------------------------------------------------------
(* Every step.                                                             *)

LEMMA StartStepLasts == ASSUME Sound, Basics, PInv, NEW t \in Task, StartStep(t) PROVE Lasts
<1>1. CASE Activates(t)
  BY <1>1, ActivatesLasts
<1>2. CASE Rejected(t)
  BY <1>2, RejectedLasts
<1>3. CASE ChannelStarts(t)
  BY <1>3, ChannelStartsLasts
<1>4. CASE BeginsStore(t)
  BY <1>4, BeginsStoreLasts
<1>5. CASE Prepares(t)
  BY <1>5, PreparesLasts
<1>6. CASE Opening(t)
  BY <1>6, OpeningLasts
<1>7. CASE Loads(t)
  BY <1>7, LoadsLasts
<1>8. CASE CutoverFlushes(t)
  BY <1>8, CutoverFlushesLasts
<1>9. CASE CutoverCounts(t) \/ CutoverMoves(t) \/ CutoverEnds(t) \/ Refreshes(t)
  BY <1>9, CutoverLasts
<1>10. CASE Started(t)
  BY <1>10, StartedLasts
<1> QED
  BY <1>1, <1>2, <1>3, <1>4, <1>5, <1>6, <1>7, <1>8, <1>9, <1>10 DEF StartStep

LEMMA HostStepLasts == ASSUME Sound, Basics, PInv, HostStep PROVE Lasts
<1>1. CASE \E r \in Reg, c \in Code : Register(r, c)
  BY <1>1, RegisterLasts
<1>2. CASE \E r \in Reg : ObservationFires(r)
  BY <1>2, ObservationLasts
<1>3. CASE \E r \in Reg : ChannelStops(r)
  BY <1>3, ChannelStopsLasts
<1>4. CASE \E t \in Task, r \in Reg :
             CallsStart(t, "start", r) \/ CallsStart(t, "channel", r) \/ CallsStop(t, r)
  <2>1. PICK t \in Task, r \in Reg :
               CallsStart(t, "start", r) \/ CallsStart(t, "channel", r) \/ CallsStop(t, r)
    BY <1>4
  <2>2. CASE CallsStop(t, r)
    BY <2>2, CallsStopLasts
  <2>3. CASE CallsStart(t, "start", r) \/ CallsStart(t, "channel", r)
    <3>1. PICK kind \in {"start", "channel"} : CallsStart(t, kind, r)
      BY <2>3
    <3> QED
      BY <3>1, CallsStartLasts
  <2> QED
    BY <2>1, <2>2, <2>3
<1> QED
  BY <1>1, <1>2, <1>3, <1>4 DEF HostStep

LEMMA DataStepLasts == ASSUME Sound, Basics, PInv, NEW b \in Bridge, DataStep(b) PROVE Lasts
<1>1. host' = host /\ Working(b) /\ b \in {host.current, Foreign}
  BY DEF DataStep, Working
<1>2. CASE \E m \in Msg : Accept(b, m)
  BY <1>1, <1>2, AcceptLasts
<1>3. CASE \E m \in Msg : Purge(b, m)
  BY <1>1, <1>3, PurgeLasts
<1>4. CASE \E m \in Msg : \E how \in left.ends : Ends(b, m, how)
  <2>1. PICK m \in Msg, how \in left.ends : Ends(b, m, how)
    BY <1>4
  <2>2. how \in {"no", "dead"}
    BY <2>1 DEF Sound, StoreTypes, LeftOK
  <2> QED
    BY <1>1, <2>1, <2>2, EndsLasts
<1>5. CASE SeeScene(b) \/ (\E a \in Agent : RemoveScene(b, a)) \/ MergeScenes(b)
  BY <1>1, <1>5, ScenesLast
<1>6. CASE \E t \in Task : Free(t) /\ SaveTimerFires(t, b)
  BY <1>1, <1>6, SaveTimerLasts
<1> QED
  BY <1>2, <1>3, <1>4, <1>5, <1>6 DEF DataStep

LEMMA NextLasts == ASSUME Sound, Basics, PInv, Next PROVE Lasts
<1>1. CASE Idles /\ HostStep
  BY <1>1, HostStepLasts
<1>2. CASE \E t \in Task : MayRun(t) /\ TaskStep(t)
  <2>1. PICK t \in Task : TaskStep(t)
    BY <1>2
  <2>2. CASE StartStep(t)
    BY <2>2, StartStepLasts
  <2>3. CASE FlushStep(t)
    <3>1. (FlushOpens(t, AfterFlush(task[t])) \/ JsonLands(t, AfterFlush(task[t]))) /\ host' = host
      BY <2>3 DEF FlushStep, AfterFlush
    <3> QED
      BY <3>1, FlushOpensLasts, JsonLandsLasts
  <2>4. CASE FlushFails(t)
    BY <2>4, FlushFailsLasts
  <2>5. CASE Stopped(t)
    BY <2>5, StoppedLasts
  <2> QED
    BY <2>1, <2>2, <2>3, <2>4, <2>5 DEF TaskStep
<1>3. CASE \E b \in Bridge : DataStep(b)
  BY <1>3, DataStepLasts
<1>4. CASE Crash
  BY <1>4, CrashLasts
<1>5. CASE Corrupt /\ UNCHANGED host
  BY <1>5, CorruptLasts
<1> QED
  BY <1>1, <1>2, <1>3, <1>4, <1>5 DEF Next

LEMMA StutterLasts == ASSUME Sound, Basics, PInv, UNCHANGED vars PROVE Lasts
<1>1. bridge' = bridge /\ task' = task /\ disk' = disk /\ ghost' = ghost /\ host' = host
  BY DEF vars
<1>2. (\A u \in Task : Bears(u)) /\ SameWrites /\ SameMemory /\ SameNews /\ Building(host, host')
  BY <1>1, SameBridges, SameCalls, SameGhost, SameBuilding DEF PInv
<1> QED
  BY <1>1, <1>2, StillLasts

-----------------------------------------------------------------------------
(* The invariant.                                                          *)

JInv == HInv /\ PInv /\ EInv

LEMMA JInitially == Init => JInv
<1> SUFFICES ASSUME Init PROVE JInv
  OBVIOUS
<1>1. HInv
  BY HInitially
<1>2. /\ \A b \in Bridge : bridge[b].q = Empty
      /\ \A t \in Task : task[t] = NoTask
      /\ ghost.known = left.old /\ ghost.ended = {} /\ ghost.endSaved = {} /\ ghost.back = {}
  BY DEF Init, FreshBridge
<1>3. NoTask.data = Empty
  BY DEF NoTask
<1>4. \A m \in Msg \ left.old : ~Stored(m)
  <2>1. /\ disk.rows = Empty \/ disk.rows = [m \in Msg |-> IF m \in left.old THEN "queued" ELSE "no"]
        /\ disk.legacy = Empty \/ disk.legacy = [m \in Msg |-> IF m \in left.old THEN "queued" ELSE "no"]
        /\ disk.json = [m \in Msg |-> IF m \in left.old THEN "queued" ELSE "no"]
        /\ disk.snaps = <<>>
    BY DEF Init, Disk0
  <2> QED
    BY <2>1, EmptyHas DEF Stored, Somewhere
<1>5. \A b \in Bridge, m \in Msg : ~Held(b, m)
  BY <1>2, <1>3, EmptyHas DEF Held
<1>6. PInv
  BY <1>2, <1>3, <1>4, <1>5, EmptyHas DEF PInv, KnownOK, AloneOK, ForeignOK, DataOK
<1>7. EInv
  BY <1>2 DEF EInv, AllAway, Gone
<1> QED
  BY <1>1, <1>6, <1>7 DEF JInv

LEMMA JStep == JInv /\ [Next]_vars => JInv'
<1> SUFFICES ASSUME JInv, [Next]_vars PROVE JInv'
  OBVIOUS
<1>1. HInv' /\ Sound /\ Basics /\ PInv /\ (~ghost.stray => Leases /\ Handles)
  BY HStep DEF JInv, HInv, IInv
<1>2. Lasts /\ (ghost.stray => ghost'.stray)
  BY <1>1, NextLasts, StutterLasts, NextUpholds DEF Upheld, vars
<1> QED
  BY <1>1, <1>2 DEF JInv, EInv, Lasts

(* A message whose end the database has is not pushed again: whatever the  *)
(* order in which the flushes of two agents, of a stop and of the timer    *)
(* write the database and the JSON file, it is not in the queue of a       *)
(* bridge that works, unless one of the ways back that ghost.back names    *)
(* was taken.                                                              *)
THEOREM ServiceEndStays == Spec => []EndStays
<1>1. JInv => EndStays
  <2> SUFFICES ASSUME JInv, ~ghost.stray, NEW b \in Bridge, Working(b),
                      NEW m \in Msg, bridge[b].q[m] = "queued", m \in ghost.endSaved,
                      m \notin ghost.back
               PROVE  FALSE
    BY DEF EndStays, Queued
  <2>1. PInv /\ AllAway /\ Sound
    BY DEF JInv, EInv, HInv, IInv
  <2>2. m \in Own(b)
    BY <2>1 DEF PInv, AloneOK, KnownOK
  <2>3. CASE b = Foreign
    BY <2>1, <2>2, <2>3 DEF PInv, ForeignOK
  <2>4. CASE b # Foreign
    <3>1. b \in Main /\ b = host.current /\ host.current # 0
      BY <2>4, ServiceAssumption DEF Main, Working
    <3>2. m \in Gone
      BY <2>2, <3>1 DEF Gone, ours
    <3> QED
      BY <2>1, <3>1, <3>2 DEF AllAway, Away
  <2> QED
    BY <2>3, <2>4
<1> QED
  BY <1>1, JInitially, JStep, PTL DEF Spec
=============================================================================
