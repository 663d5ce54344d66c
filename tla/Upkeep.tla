------------------------------- MODULE Upkeep -------------------------------
(***************************************************************************)
(* What the maintenance commands make of a scene row and of the host's     *)
(* session for it: the readings, the verdicts and the conditional delete.  *)
(* Stamps up to old are quiet (older than the 72 hours, or the number of   *)
(* days the operator gave).  A look is what one inspection noted of a row: *)
(* its stamp, and what the host said of the session.                       *)
(***************************************************************************)
EXTENDS Scenes

(* A session of the host: its generation, its last write, the last real    *)
(* interaction (0 for none).                                               *)
Session == [id : Nat, upd : Nat, act : Nat, archived : BOOLEAN]
NoSession == [id |-> 0, upd |-> 0, act |-> 0, archived |-> FALSE]
Key(o, x) == <<o, x>>
Owned(s) == s[1] # Unowned

Look == [at : Nat, node : {"none", "unknown", "alive", "archived", "missing"},
         id : Nat, upd : Nat, act : Nat, unread : BOOLEAN]
NoLook == [at |-> 0, node |-> "none", id |-> 0, upd |-> 0, act |-> 0, unread |-> FALSE]

(* The first glance takes the row's stamp; then the host's list of         *)
(* sessions is read, its clock if the list cannot be trusted, or nothing.  *)
Glance(row) == [NoLook EXCEPT !.at = row.at, !.node = "unknown"]
ByIndex(l, session) ==
  IF session = NoSession THEN [l EXCEPT !.node = "missing"]
  ELSE [l EXCEPT !.node = IF session.archived THEN "archived" ELSE "alive",
                 !.id = session.id, !.upd = session.upd, !.act = session.act]
ByClock(l, session) == [l EXCEPT !.upd = session.upd]
Unreadable(l) == [l EXCEPT !.unread = TRUE]

Latest(upd, act) == IF act # 0 THEN act ELSE upd
Activity(l) == IF l.node = "missing" THEN 0 ELSE Latest(l.upd, l.act)

RowQuiet(l, old) == l.at <= old
SessionQuiet(l, old) == Activity(l) <= old
Anomaly(l) == l.node \in {"missing", "archived"}
Stale(l, old) == ~l.unread /\ (Anomaly(l) \/ (RowQuiet(l, old) /\ SessionQuiet(l, old)))

(* Whether the row has a session to delete, and whether anything is known  *)
(* of it that the delete can be made conditional on.                       *)
NeedsDelete(s, l) == Owned(s) /\ l.node # "missing"
Guarded(l) == l.node \in {"alive", "archived"} \/ l.upd # 0

(* A command aimed at one scene goes through only if all its rows are      *)
(* stale, or by force.                                                     *)
Targets(rows, cmd) ==
  {s \in Slot : s[2] = cmd.scene /\ rows[s] # NoRow /\ cmd.agent \in {"any", s[1]}}
Unverified(s, l) == l.unread \/ (NeedsDelete(s, l) /\ ~Guarded(l))
Chosen(look, cmd, old) ==
  LET targets == {s \in Slot : look[s] # NoLook}
      refused == \E s \in targets : Unverified(s, look[s]) \/ ~Stale(look[s], old)
  IN IF refused /\ ~cmd.force THEN {} ELSE targets

(* The batch takes each quiet row by itself, oldest first.                 *)
QuietEnough(l, old, force) ==
  /\ RowQuiet(l, old)
  /\ IF l.unread THEN force ELSE Anomaly(l) \/ SessionQuiet(l, old)
Candidates(look, cmd, old) ==
  {s \in Slot : /\ look[s] # NoLook
                /\ QuietEnough(look[s], old, cmd.force)
                /\ cmd.force \/ ~NeedsDelete(s, look[s]) \/ Guarded(look[s])}
Oldest(look, todo) == {s \in todo : \A r \in todo : look[s].at <= look[r].at}

(* Mutant of StillMatches: any row will do.                                *)
StillThere(rows, s, l) == rows[s] # NoRow

(* Whether the row is still the one that was looked at.                    *)
StillMatches(rows, s, l) == rows[s] # NoRow /\ rows[s].at = l.at

(* Mutant of Expected: only the generation is compared.                    *)
SameSession(session, l) == l.node \in {"alive", "archived"} => session.id = l.id

(* What the delete asks the host to check: the generation if it was read,  *)
(* and the last write.                                                     *)
Expected(session, l) ==
  /\ l.node \in {"alive", "archived"} => session.id = l.id
  /\ l.upd # 0 => session.upd = l.upd

(* The scenes without rows: only theirs is the client's gate cleared.      *)
Vacant(rows, scenes) == {x \in scenes : Owners(rows, x) = {}}

(* The sessions whose artifacts go with a row: its own, or those of every  *)
(* agent for a row without an owner.                                       *)
Artifacts(s) == IF Owned(s) THEN {s} ELSE {Key(a, s[2]) : a \in Agent}

(* The client's gate of a scene: open or not, and since when (0: no gate). *)
Gate == [on : BOOLEAN, rev : Nat]
NoGate == [on |-> FALSE, rev |-> 0]
Leftover(g, old) == ~(g.on /\ g.rev > old)

(* /bncr sessions prune: quiet sessions of the readable agents.            *)
QuietSessions(sess, agents, old) ==
  {s \in DOMAIN sess : s[1] \in agents /\ sess[s] # NoSession
                       /\ Latest(sess[s].upd, sess[s].act) <= old}
=============================================================================
