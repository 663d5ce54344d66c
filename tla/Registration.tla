--------------------------- MODULE Registration ---------------------------
(***************************************************************************)
(* How a process decides which registration of the plugin owns the one     *)
(* bridge.  The host calls register() again and again, each time with its  *)
(* own registry; every call is planned, committed, may build or take over  *)
(* the bridge, declares the service and the channel whose callbacks carry  *)
(* the generation of the plan, and is completed or repaired.               *)
(*                                                                         *)
(* All of it is synchronous, so the operators here compute the next value  *)
(* of the record `host`; Service.tla has the actions.  The identity of the *)
(* api object and of its registry are one value (Reg), the module epoch,   *)
(* factory, version and paths of the code are one value (Code).            *)
(***************************************************************************)
EXTENDS Naturals, Sequences

CONSTANTS
  Reg,        \* registries
  Code,       \* bridge generations
  Pool,       \* the bridge objects a process can build, in this order
  MaxDecl     \* maxRegistryDeclarations

ASSUME RegistrationAssumption == MaxDecl \in Nat \ {0}

VARIABLE
  host        \* the lifecycle, the ledger of declarations, the callbacks

NoOwner == [gen |-> 0, reg |-> 0, code |-> 0, phase |-> "none"]
NoDecl == [code |-> 0, gen |-> 0, declared |-> FALSE, registration |-> "none",
           state |-> "none", obs |-> "none", timer |-> FALSE]

(* The process store before the first registration.  retire is the barrier *)
(* a successor waits for; cb[r] is the generation that the callbacks hold  *)
(* which registry r was given.                                             *)
FreshHost ==
  [next |-> 1, active |-> NoOwner, pending |-> NoOwner, mode |-> "reuse",
   retire |-> "none", decl |-> [r \in Reg |-> NoDecl], ledger |-> <<>>,
   cb |-> [r \in Reg |-> 0], current |-> 0, made |-> 0]

Owns(o, r, g) == o.reg = r /\ o.gen = g /\ o.gen > 0
IsActive(h, r, g) == Owns(h.active, r, g) /\ h.active.phase = "active"
IsStoppable(h, r, g) == Owns(h.active, r, g) /\ h.active.phase \in {"active", "stopping"}
CanStart(h, r, g) == h.decl[r].registration # "failed" /\ IsActive(h, r, g)

(* A gateway method of registry r reaches the current bridge.              *)
DispatchAllowed(h, r) ==
  IF h.decl[r] # NoDecl
  THEN /\ h.decl[r].state # "retired" /\ h.decl[r].registration # "failed"
       /\ h.active.phase # "failed"
  ELSE h.active = NoOwner

-----------------------------------------------------------------------------
(* The observation of a registry: diagnostics that poll until service and  *)
(* channel are both seen running.                                          *)

(* Mutant of Retired: the timer is cleared, the observation is not ended.  *)
Untimed(d) == [d EXCEPT !.timer = FALSE]

Retired(d) ==
  [d EXCEPT !.obs = IF @ = "none" THEN @ ELSE "retired", !.timer = FALSE]

(* evaluateRegistryRuntimeObservation and the timer that follows from it;  *)
(* late: the deadline has passed.                                          *)
Probe(h, r, g, running, late) ==
  LET d == h.decl[r]
      live == d.registration = "complete" /\ d.state = "active" /\ IsActive(h, r, g)
      obs == IF d.obs = "retired" \/ ~live THEN "retired"
             ELSE IF d.obs = "ready" \/ running THEN "ready"
             ELSE IF late \/ d.obs = "polling" THEN "polling" ELSE "awaiting"
  IN IF d.gen # g \/ d.obs = "none" THEN h
     ELSE [h EXCEPT !.decl[r] = [d EXCEPT !.obs = obs,
                                          !.timer = obs \in {"awaiting", "polling"}]]

StartObservation(h, r, g, reset, running) ==
  LET d == h.decl[r] IN
  IF d.gen # g \/ d.registration # "complete" \/ d.state # "active"
     \/ (~reset /\ d.obs # "none")
  THEN h
  ELSE Probe([h EXCEPT !.decl[r].obs = "awaiting"], r, g, running, FALSE)

-----------------------------------------------------------------------------
(* Planning.                                                               *)

(* planLifecycleAdoption: a registration that meets a running one changes  *)
(* nothing, one that meets a stopping one waits for it, one that meets a   *)
(* stopped one takes over.                                                 *)
Adoption(h, r, c) ==
  LET a == h.active
      p == h.pending
  IN IF a = NoOwner THEN "initialize"
     ELSE IF a.phase = "failed" THEN "reject"
     ELSE IF p # NoOwner THEN IF p.reg = r /\ p.code = c THEN "duplicate" ELSE "reject"
     ELSE IF a.reg = r THEN IF a.code = c THEN "duplicate" ELSE "reject"
     ELSE IF a.phase = "active" THEN "duplicate"
     ELSE IF a.phase = "stopping" THEN "defer" ELSE "takeover"

(* planLifecycle: what the ledger says of the registry comes first.        *)
Plan(h, r, c) ==
  LET d == h.decl[r] IN
  IF d # NoDecl /\ (d.code # c \/ d.registration \in {"failed", "pending"})
  THEN "reject" ELSE Adoption(h, r, c)

(* The oldest declarations over the limit go, the owners' stay.            *)
Prune(h) ==
  LET owners == {h.active.reg, h.pending.reg}
      extra == Len(h.ledger) - MaxDecl
      loose == SelectSeq(h.ledger, LAMBDA r : r \notin owners)
      n == IF extra <= 0 THEN 0 ELSE IF extra < Len(loose) THEN extra ELSE Len(loose)
      gone == {loose[i] : i \in 1..n}
  IN [h EXCEPT !.ledger = SelectSeq(@, LAMBDA r : r \notin gone),
               !.decl = [r \in Reg |-> IF r \in gone THEN NoDecl ELSE @[r]]]

Entered(h, r) == IF h.decl[r] # NoDecl THEN h.ledger ELSE Append(h.ledger, r)

(* commitLifecycle.                                                        *)
Commit(h, kind, r, c) ==
  LET new == [gen |-> h.next, reg |-> r, code |-> c, phase |-> "active"]
      a == h.active
      d == h.decl[r]
      Declared(state) == [d EXCEPT !.code = c, !.gen = h.next, !.registration = "pending",
                                   !.state = state, !.obs = "none", !.timer = FALSE]
  IN Prune(
     CASE kind \in {"initialize", "takeover"} ->
            [h EXCEPT !.next = @ + 1, !.active = new, !.pending = NoOwner, !.retire = "none",
               !.ledger = Entered(h, r),
               !.decl = [s \in Reg |->
                  CASE s = r -> Declared("active")
                    [] s # r /\ @[s] # NoDecl -> [Retired(@[s]) EXCEPT !.state = "retired"]
                    [] OTHER -> NoDecl]]
       [] kind = "defer" ->
            [h EXCEPT !.next = @ + 1, !.pending = new,
               !.mode = IF a.code = c THEN "reuse" ELSE "replace",
               !.ledger = Entered(h, r), !.decl[r] = Declared("shadow")]
       [] kind = "duplicate" /\ d = NoDecl ->
            [h EXCEPT !.ledger = Entered(h, r), !.decl[r] = Declared("shadow")]
       [] kind = "duplicate" /\ d # NoDecl ->
            [h EXCEPT !.decl[r].state =
               IF r = a.reg /\ a.phase # "stopped" THEN "active"
               ELSE IF r = h.pending.reg THEN "shadow" ELSE @]
       [] OTHER -> h)

-----------------------------------------------------------------------------
(* Adoption of the bridge, declaration, completion, repair.                *)

(* adoptBridgeSingleton: a new object, or the one there is.                *)
Builds(h, mode) == h.current = 0 \/ mode \in {"create", "replace"}
CanBuild(h, mode) == Builds(h, mode) => h.made < Len(Pool)
Adopt(h, mode) ==
  IF Builds(h, mode)
  THEN [h EXCEPT !.made = @ + 1, !.current = Pool[h.made + 1]] ELSE h

ModeOf(h, kind, c) ==
  CASE kind = "initialize" -> "create"
    [] kind = "takeover" /\ h.active.code # c -> "replace"
    [] OTHER -> "reuse"

(* The service and the channel are declared once for each entry of the     *)
(* ledger; callbacks that exist keep the generation they were made with.   *)
Declare(h, r, g) ==
  IF h.decl[r].declared THEN h
  ELSE [h EXCEPT !.decl[r].declared = TRUE, !.decl[r].gen = g, !.cb[r] = g]

(* markRegistryRegistrationComplete.                                       *)
Complete(h, r, running) ==
  LET done == [h EXCEPT !.decl[r].registration = "complete"] IN
  IF h.decl[r].state = "active"
  THEN StartObservation(done, r, h.decl[r].gen, FALSE, running) ELSE done

(* recoverLifecycleRegistration: the registration threw.                   *)
Recover(h, kind, r, g) ==
  LET freed == CASE kind \in {"initialize", "takeover"} /\ Owns(h.active, r, g) ->
                      [h EXCEPT !.active.phase = "stopped", !.pending = NoOwner,
                                !.retire = "none"]
                 [] kind = "defer" /\ Owns(h.pending, r, g) -> [h EXCEPT !.pending = NoOwner]
                 [] OTHER -> h
  IN IF h.decl[r] # NoDecl /\ h.decl[r].gen = g
     THEN [freed EXCEPT !.decl[r] = [Retired(@) EXCEPT !.registration = "failed",
                                                       !.state = "retired"]]
     ELSE freed

(* register() of registry r with code c.  It goes through, or it throws    *)
(* when the bridge is built, or later, when something is declared.         *)
Registered(h, r, c, outcome, running) ==
  LET kind == Plan(h, r, c)
      g == h.next
      planned == Commit(h, kind, r, c)
      mode == ModeOf(h, kind, c)
      adopted == IF kind \in {"initialize", "takeover"} THEN Adopt(planned, mode) ELSE planned
      declared == IF kind \in {"initialize", "takeover", "defer"}
                  THEN Declare(adopted, r, g) ELSE adopted
  IN CASE outcome = "adopt" -> Recover(planned, kind, r, g)
       [] outcome = "late" -> Recover(declared, kind, r, g)
       [] kind = "reject" -> Prune(declared)
       [] OTHER -> Prune(Complete(declared, r, running))

Outcomes(h, r, c) ==
  LET kind == Plan(h, r, c) IN
  {"ok", "late"} \cup
  (IF kind \in {"initialize", "takeover"} /\ Builds(h, ModeOf(h, kind, c))
   THEN {"adopt"} ELSE {})

-----------------------------------------------------------------------------
(* The callbacks of the service move the lifecycle.                        *)

(* beginRetirement.                                                        *)
Retiring(h, r) ==
  [h EXCEPT !.active.phase = "stopping", !.retire = "open", !.decl[r] = Retired(@)]

(* settleRetirement: the barrier opens, with the outcome of the stop.      *)
Settled(h, r, ok) ==
  LET p == h.pending.reg
      failedToo == ~ok /\ h.pending # NoOwner /\ p # r
      d == [Retired(h.decl[r]) EXCEPT !.state = IF ok /\ h.pending # NoOwner /\ p = r
                                                THEN "shadow" ELSE "retired"]
  IN [h EXCEPT !.active.phase = IF ok THEN "stopped" ELSE "failed",
        !.retire = IF ok THEN "ok" ELSE "failed",
        !.decl = [s \in Reg |-> CASE s = r -> d
                                  [] s # r /\ s = p /\ failedToo -> [Retired(@[s]) EXCEPT !.state = "retired"]
                                  [] OTHER -> @[s]]]

(* failLifecycleStart: only the running owner of the generation fails.     *)
FailedStart(h, r, g) ==
  IF ~IsActive(h, r, g) THEN h
  ELSE [h EXCEPT !.active.phase = "failed",
                 !.decl[r] = [Retired(@) EXCEPT !.state = "retired"]]

(* A start of the running owner goes on with the current bridge.           *)
Resumed(h, r, g, running) ==
  StartObservation([h EXCEPT !.decl[r].state = "active"], r, g, FALSE, running)

(* activatePendingLifecycle and the adoption that follows it.              *)
CanActivate(h, r, g) == Owns(h.pending, r, g) /\ h.active.phase = "stopped"
Activated(h, r, g, mode, running) ==
  LET owner == [h EXCEPT !.active = h.pending, !.pending = NoOwner, !.retire = "none",
                         !.decl[r].state = "active"]
  IN StartObservation(Adopt(owner, mode), r, g, TRUE, running)

(* The bridge of the successor could not be built.                         *)
ActivationFailed(h, r) ==
  [h EXCEPT !.active = [h.pending EXCEPT !.phase = "failed"], !.pending = NoOwner,
            !.retire = "none",
            !.decl[r] = [Retired(@) EXCEPT !.registration = "failed", !.state = "retired"]]

(* reactivateStoppedLifecycle: the host starts a stopped service again.    *)
CanReactivate(h, r, g) ==
  h.pending = NoOwner /\ Owns(h.active, r, g) /\ h.active.phase = "stopped"
Reactivated(h, r, g, running) ==
  StartObservation(Adopt([h EXCEPT !.active.phase = "active", !.decl[r].state = "active"],
                         "reuse"), r, g, TRUE, running)
=============================================================================
