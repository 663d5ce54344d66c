--------------------------- MODULE InboundProofs ---------------------------
(***************************************************************************)
(* Proofs about Inbound for any chats, agents, messages and scenarios.     *)
(*                                                                         *)
(* First what the operators of Scenes make of a registry: whatever they    *)
(* write carries the stamp of the write, and they open a scene only for an *)
(* administrator.  Then what every step makes of the stores and of the     *)
(* task that takes it, and from these summaries the invariants.            *)
(***************************************************************************)
EXTENDS Inbound, TLAPS

Registry == [Slot -> Row \cup {NoRow}]

(* A row that lets somebody in who is not an administrator.                *)
Opens(x, row) == row.status = "allowed" /\ Effective(x, row) = "allowed"
OpenTo(reg, x) == \E o \in Owner : Opens(x, reg[<<o, x>>])

(* The rows that a write changes are deleted, or stamped.                  *)
Stamped(reg, new, at) ==
  /\ new \in Registry
  /\ \A s \in Slot : new[s] \in {reg[s], NoRow} \/ new[s].at = at

(* No scene outside of S is open that was not open before.                 *)
OpensOnly(reg, new, S) == \A x \in Scene \ S : OpenTo(new, x) => OpenTo(reg, x)

-----------------------------------------------------------------------------
(* The registry.                                                           *)

LEMMA RowShape ==
  ASSUME NEW r \in Row
  PROVE  /\ r # NoRow
         /\ \A stamp \in Nat :
              /\ [r EXCEPT !.at = stamp] \in Row
              /\ [r EXCEPT !.at = stamp].at = stamp
              /\ [r EXCEPT !.at = stamp].status = r.status
              /\ [r EXCEPT !.at = stamp].approved = r.approved
BY DEF Row, NoRow

LEMMA SlotOf ==
  ASSUME NEW o, NEW x
  PROVE  <<o, x>> \in Slot <=> o \in Owner /\ x \in Scene
BY DEF Slot

LEMMA AgentsOwn ==
  ASSUME NEW x, NEW admin
  PROVE  /\ FallbackAgent(x, admin) \in Agent
         /\ \A o \in Owner : ForcedOwner(x, admin, o) \in Owner
         /\ Agent \subseteq Owner /\ Unowned \in Owner /\ Own \subseteq Slot
BY SceneAssumption DEF FallbackAgent, ForcedOwner, Owner, Own, Slot

LEMMA OwnersHold ==
  ASSUME NEW reg \in Registry, NEW x \in Scene, NEW o \in Owners(reg, x)
  PROVE  o \in Owner /\ <<o, x>> \in Slot /\ reg[<<o, x>>] \in Row
BY DEF Owners, Registry, Slot

LEMMA FoundHold ==
  ASSUME NEW reg, NEW x, NEW a
  PROVE  /\ Found(reg, x, a) \subseteq Owners(reg, x)
         /\ Newest(reg, x) \subseteq Owners(reg, x)
         /\ \A o \in Found(reg, x, a) : Found(reg, x, a) = {o}
BY DEF Found, Newest

(* A row that is moved or written anew.                                    *)
LEMMA SetRowOK ==
  ASSUME NEW reg \in Registry, NEW x \in Scene, NEW o \in Owner, NEW from \in Owner,
         NEW row \in Row, NEW stamp \in Nat, row.at = stamp, NEW S,
         Opens(x, row) => x \in S \/ OpenTo(reg, x)
  PROVE  /\ Stamped(reg, SetRow(reg, x, o, row, from), stamp)
         /\ OpensOnly(reg, SetRow(reg, x, o, row, from), S)
<1> DEFINE new == SetRow(reg, x, o, row, from)
<1>1. <<o, x>> \in Slot /\ <<from, x>> \in Slot
  BY DEF Slot
<1>2. /\ new \in Registry
      /\ \A s \in Slot : new[s] = IF s = <<o, x>> THEN row
                                  ELSE IF s = <<from, x>> THEN NoRow ELSE reg[s]
  BY <1>1 DEF SetRow, Registry
<1> HIDE DEF new
<1>3. Stamped(reg, new, stamp)
  BY <1>2 DEF Stamped
<1>4. ASSUME NEW y \in Scene \ S, OpenTo(new, y) PROVE OpenTo(reg, y)
  <2>1. PICK p \in Owner : Opens(y, new[<<p, y>>])
    BY <1>4 DEF OpenTo
  <2>2. <<p, y>> \in Slot
    BY <1>4, <2>1 DEF Slot
  <2>3. CASE <<p, y>> = <<o, x>>
    <3>1. y = x
      BY <2>3
    <3>2. Opens(x, row)
      BY <1>2, <2>1, <2>2, <2>3, <3>1
    <3> QED
      BY <1>4, <3>1, <3>2
  <2>4. CASE <<p, y>> # <<o, x>> /\ <<p, y>> = <<from, x>>
    BY <1>2, <2>1, <2>2, <2>4 DEF Opens, NoRow
  <2>5. CASE <<p, y>> # <<o, x>> /\ <<p, y>> # <<from, x>>
    BY <1>2, <2>1, <2>2, <2>5 DEF OpenTo
  <2> QED
    BY <2>3, <2>4, <2>5
<1> QED
  BY <1>3, <1>4 DEF OpensOnly, new

(* A delete leaves every other row as it was.                              *)
LEMMA HitHolds ==
  ASSUME NEW reg \in Registry, NEW x \in Scene, NEW o, NEW k \in Hit(reg, x, o)
  PROVE  <<k, x>> \in Slot
BY FoundHold, OwnersHold DEF Hit

LEMMA DeleteRowOK ==
  ASSUME NEW reg \in Registry, NEW x \in Scene, NEW o, NEW new \in DeleteRow(reg, x, o),
         NEW stamp, NEW S
  PROVE  Stamped(reg, new, stamp) /\ OpensOnly(reg, new, S)
<1>1. PICK k \in Hit(reg, x, o) : new = [reg EXCEPT ![<<k, x>>] = NoRow]
  BY DEF DeleteRow
<1>2. new \in Registry /\ \A s \in Slot : new[s] = IF s = <<k, x>> THEN NoRow ELSE reg[s]
  <2>1. <<k, x>> \in Slot
    BY <1>1, HitHolds
  <2> QED
    BY <1>1, <2>1 DEF Registry
<1>3. ASSUME NEW y \in Scene, OpenTo(new, y) PROVE OpenTo(reg, y)
  <2>1. PICK p \in Owner : Opens(y, new[<<p, y>>])
    BY <1>3 DEF OpenTo
  <2>2. <<p, y>> \in Slot
    BY <2>1 DEF Slot
  <2> QED
    BY <1>2, <2>1, <2>2 DEF OpenTo, Opens, NoRow
<1> QED
  BY <1>2, <1>3 DEF Stamped, OpensOnly

(* Rows of one scene that are written where they are.                      *)
Written(reg, x, scope, f, stamp, S) ==
  /\ DOMAIN f = scope \X {x}
  /\ \A s \in scope \X {x} : /\ f[s] \in Row /\ f[s].at = stamp
                             /\ Opens(x, f[s]) => x \in S \/ OpenTo(reg, x)

LEMMA RewriteOK ==
  ASSUME NEW reg \in Registry, NEW x \in Scene, NEW scope \in SUBSET Owner, NEW f,
         NEW stamp \in Nat, NEW S, Written(reg, x, scope, f, stamp, S)
  PROVE  /\ Stamped(reg, Rewrite(reg, f), stamp)
         /\ OpensOnly(reg, Rewrite(reg, f), S)
<1> DEFINE new == Rewrite(reg, f)
<1>1. DOMAIN f = scope \X {x}
  BY DEF Written
<1>2. \A s \in scope \X {x} : f[s] \in Row /\ f[s].at = stamp
  BY DEF Written
<1>3. \A s \in scope \X {x} : Opens(x, f[s]) => x \in S \/ OpenTo(reg, x)
  BY DEF Written
<1>4. /\ new \in Registry
      /\ \A s \in Slot : new[s] = IF s \in scope \X {x} THEN f[s] ELSE reg[s]
  BY <1>1, <1>2 DEF Rewrite, Registry
<1> HIDE DEF new
<1>5. ASSUME NEW y \in Scene \ S, OpenTo(new, y) PROVE OpenTo(reg, y)
  <2>1. PICK p \in Owner : Opens(y, new[<<p, y>>])
    BY <1>5 DEF OpenTo
  <2>2. <<p, y>> \in Slot
    BY <2>1 DEF Slot
  <2>3. CASE <<p, y>> \in scope \X {x}
    <3>1. y = x /\ new[<<p, y>>] = f[<<p, y>>]
      BY <1>4, <2>2, <2>3
    <3>2. Opens(x, f[<<p, y>>])
      BY <2>1, <3>1
    <3> QED
      BY <1>3, <1>5, <2>3, <3>1, <3>2
  <2>4. CASE <<p, y>> \notin scope \X {x}
    BY <1>4, <2>1, <2>2, <2>4 DEF OpenTo
  <2> QED
    BY <2>3, <2>4
<1> QED
  BY <1>2, <1>4, <1>5 DEF Stamped, OpensOnly, new

LEMMA SameRowsOK ==
  ASSUME NEW reg \in Registry, NEW stamp, NEW S
  PROVE  Stamped(reg, reg, stamp) /\ OpensOnly(reg, reg, S)
BY DEF Stamped, OpensOnly

LEMMA InheritedOK ==
  ASSUME NEW reg \in Registry, NEW x \in Scene, NEW row \in Row,
         NEW r \in Inherited(reg, x, row)
  PROVE  r \in Row /\ r.at = row.at /\ r.status = row.status /\ r.approved = row.approved
<1>1. CASE Owners(reg, x) = {}
  BY <1>1 DEF Inherited
<1>2. CASE Owners(reg, x) # {}
  <2>1. PICK o \in Newest(reg, x) :
          r = [row EXCEPT !.mode = IF reg[<<o, x>>].mode = "none" THEN @ ELSE reg[<<o, x>>].mode,
                          !.setting = reg[<<o, x>>].setting]
    BY <1>2 DEF Inherited
  <2>2. reg[<<o, x>>] \in Row
    BY OwnersHold, FoundHold
  <2> QED
    BY <2>1, <2>2 DEF Row
<1> QED
  BY <1>1, <1>2

LEMMA FreshRowOK ==
  ASSUME NEW x, NEW status \in {"allowed", "pending", "denied"}, NEW stamp \in Nat
  PROVE  LET r == FreshRow(x, status, stamp) IN
         r \in Row /\ r.at = stamp /\ r.status = status
BY DEF FreshRow, Row, Mode

(* A message opens a row only in a group, and only that of an              *)
(* administrator; it lets nobody else in where the row did not.            *)
LEMMA TouchedOK ==
  ASSUME NEW x, NEW admin \in BOOLEAN, NEW row \in Row, NEW stamp \in Nat
  PROVE  LET r == Touched(x, admin, row, stamp) IN
         /\ r \in Row /\ r.at = stamp
         /\ Opens(x, r) => Opens(x, row) \/ (admin /\ row.status # "allowed")
         /\ ~admin /\ r.status = "allowed" => Opens(x, row)
<1> DEFINE p == [row EXCEPT !.at = stamp,
                            !.mode = IF x \notin Direct /\ @ = "none" THEN "admin" ELSE @]
<1>1. p \in Row /\ p.at = stamp /\ p.status = row.status /\ p.approved = row.approved
  BY DEF Row, Mode
<1> HIDE DEF p
<1>2. CASE x \notin Direct /\ p.status = "denied" /\ admin
  <2>1. Touched(x, admin, row, stamp) = [p EXCEPT !.status = "allowed", !.approved = TRUE]
    BY <1>2 DEF Touched, p
  <2> QED
    BY <1>1, <1>2, <2>1 DEF Row
<1>3. CASE x \in Direct /\ ~admin
  <2>1. Touched(x, admin, row, stamp) = [p EXCEPT !.status = Effective(x, p)]
    BY <1>3 DEF Touched, p
  <2>2. Effective(x, p) \in {"allowed", "pending", "denied"}
    BY <1>1 DEF Effective, Row
  <2> QED
    BY <1>1, <1>3, <2>1, <2>2 DEF Row, Opens, Effective
<1>4. CASE ~(x \notin Direct /\ p.status = "denied" /\ admin) /\ ~(x \in Direct /\ ~admin)
  <2>1. Touched(x, admin, row, stamp) = p
    BY <1>4 DEF Touched, p
  <2> QED
    BY <1>1, <1>4, <2>1 DEF Opens, Effective
<1> QED
  BY <1>2, <1>3, <1>4

(* The decision on a message.                                              *)
Shut(reg, x, a) == \A o \in Found(reg, x, a) : reg[<<o, x>>].status # "allowed"
Unlocked(reg, x, admin, a, d) ==
  IF admin /\ d.row.status = "allowed" /\ Shut(reg, x, a) THEN {x} ELSE {}

LEMMA DecisionsOK ==
  ASSUME NEW reg \in Registry, NEW x \in Scene, NEW admin \in BOOLEAN, NEW a, NEW stamp \in Nat,
         NEW d \in Decisions(reg, x, admin, a, stamp)
  PROVE  /\ Stamped(reg, d.rows, stamp)
         /\ OpensOnly(reg, d.rows, Unlocked(reg, x, admin, a, d))
         /\ ~admin /\ d.row.status = "allowed" => OpenTo(reg, x) /\ OpenTo(d.rows, x)
         /\ d.agent \in Agent
         /\ d.row.mode \in Mode
<1> DEFINE S == Unlocked(reg, x, admin, a, d)
<1>1. CASE Found(reg, x, a) = {}
  <2> DEFINE status == IF admin THEN "allowed" ELSE IF x \in Direct THEN "pending" ELSE "denied"
             owner == IF admin THEN FallbackAgent(x, admin) ELSE Unowned
  <2>1. PICK row \in Inherited(reg, x, FreshRow(x, status, stamp)) :
          d = [rows |-> [reg EXCEPT ![<<owner, x>>] = row], row |-> row,
               agent |-> FallbackAgent(x, admin)]
    BY <1>1 DEF Decisions
  <2>2. row \in Row /\ row.at = stamp /\ row.status = status
    BY InheritedOK, FreshRowOK
  <2>3. owner \in Owner
    BY AgentsOwn DEF Owner
  <2>4. d.rows = SetRow(reg, x, owner, row, owner)
    BY <2>1, <2>3 DEF SetRow, Registry, Slot
  <2>5. d.row = row /\ d.agent \in Agent
    BY <2>1, AgentsOwn
  <2>6. Opens(x, row) => x \in S
    BY <1>1, <2>2, <2>5 DEF Opens, Unlocked, Shut
  <2>7. ~(~admin /\ d.row.status = "allowed")
    BY <2>2, <2>5
  <2> HIDE DEF S, status, owner
  <2>8. /\ Stamped(reg, SetRow(reg, x, owner, row, owner), stamp)
        /\ OpensOnly(reg, SetRow(reg, x, owner, row, owner), S)
    BY <2>2, <2>3, <2>6, SetRowOK
  <2> QED
    BY <2>2, <2>4, <2>5, <2>7, <2>8 DEF S, Row
<1>2. CASE Found(reg, x, a) # {}
  <2>1. PICK o \in Found(reg, x, a) :
          d = [rows |-> SetRow(reg, x, ForcedOwner(x, admin, o),
                               Touched(x, admin, reg[<<o, x>>], stamp), o),
               row |-> Touched(x, admin, reg[<<o, x>>], stamp),
               agent |-> IF ForcedOwner(x, admin, o) = Unowned THEN FallbackAgent(x, admin)
                         ELSE ForcedOwner(x, admin, o)]
    BY <1>2 DEF Decisions
  <2>2. o \in Owner /\ reg[<<o, x>>] \in Row /\ Found(reg, x, a) = {o}
    BY OwnersHold, FoundHold
  <2> DEFINE owner == ForcedOwner(x, admin, o)
             row == Touched(x, admin, reg[<<o, x>>], stamp)
  <2>3. owner \in Owner /\ d.agent \in Agent
    BY <2>1, <2>2, AgentsOwn DEF Owner
  <2>4. /\ row \in Row /\ row.at = stamp
        /\ Opens(x, row) => Opens(x, reg[<<o, x>>]) \/ (admin /\ reg[<<o, x>>].status # "allowed")
        /\ ~admin /\ row.status = "allowed" => Opens(x, reg[<<o, x>>])
    BY <2>2, TouchedOK
  <2>5. d.row = row /\ d.rows = SetRow(reg, x, owner, row, o)
    BY <2>1
  <2>6. Opens(x, row) => x \in S \/ OpenTo(reg, x)
    BY <2>2, <2>4, <2>5 DEF OpenTo, Opens, Unlocked, Shut
  <2>7. ~admin /\ d.row.status = "allowed" => OpenTo(reg, x) /\ Opens(x, row)
    <3>1. ~admin /\ row.status = "allowed" => Effective(x, row) = "allowed"
      <4>1. CASE x \in Direct /\ ~admin /\ row.status = "allowed"
        <5>1. reg[<<o, x>>].approved = TRUE
          BY <2>2, <2>4, <4>1 DEF Opens, Effective, Row
        <5>2. row.approved = TRUE
          BY <2>2, <4>1, <5>1 DEF Touched, Row
        <5> QED
          BY <4>1, <5>2 DEF Effective
      <4> QED
        BY <4>1 DEF Effective
    <3> QED
      BY <2>2, <2>4, <2>5, <3>1 DEF OpenTo, Opens
  <2> HIDE DEF S, row, owner
  <2>8. /\ Stamped(reg, SetRow(reg, x, owner, row, o), stamp)
        /\ OpensOnly(reg, SetRow(reg, x, owner, row, o), S)
    BY <2>2, <2>3, <2>4, <2>6, SetRowOK
  <2>9. d.rows[<<owner, x>>] = row
    <3>1. <<owner, x>> \in Slot
      BY <2>3 DEF Slot
    <3> QED
      BY <2>5, <3>1 DEF SetRow, Registry
  <2> QED
    BY <2>3, <2>4, <2>5, <2>7, <2>8, <2>9 DEF S, OpenTo, Row
<1> QED
  BY <1>1, <1>2

LEMMA ScopeHolds ==
  ASSUME NEW reg \in Registry, NEW cmd, cmd.scene \in Scene, NEW who
  PROVE  /\ Scope(reg, cmd, who) \subseteq Owners(reg, cmd.scene)
         /\ Looked(reg, cmd.scene, who) \subseteq Owners(reg, cmd.scene)
         /\ \A s \in Scope(reg, cmd, who) \X {cmd.scene} :
              s[1] \in Owners(reg, cmd.scene) /\ s = <<s[1], cmd.scene>> /\ reg[s] \in Row
BY FoundHold, OwnersHold DEF Scope, Looked

(* A command writes with its stamp and opens at most the scene that an     *)
(* administrator's "allow" names.                                          *)
Opened(cmd, reg, new) == IF cmd.kind = "allow" /\ new # reg THEN {cmd.scene} ELSE {}

LEMMA AllowOK ==
  ASSUME NEW reg \in Registry, NEW cmd, cmd.scene \in Scene, cmd.kind = "allow", NEW who,
         NEW stamp \in Nat, NEW new \in Allow(reg, cmd, who, stamp)
  PROVE  Stamped(reg, new, stamp) /\ OpensOnly(reg, new, Opened(cmd, reg, new))
<1> DEFINE x == cmd.scene
           scope == Scope(reg, cmd, who)
           opened(r) == [r EXCEPT !.status = "allowed", !.approved = TRUE, !.at = stamp]
<1>1. CASE new = reg
  BY <1>1, SameRowsOK
<1>2. CASE new # reg
  <2>0. Opened(cmd, reg, new) = {x}
    BY <1>2 DEF Opened
  <2>1. scope \subseteq Owner
    BY ScopeHolds, OwnersHold
  <2>2. ASSUME NEW r \in Row PROVE opened(r) \in Row /\ opened(r).at = stamp
    BY DEF Row
  <2>3. CASE scope = {Unowned} /\ new = SetRow(reg, x, FallbackAgent(x, TRUE),
                                              opened(reg[<<Unowned, x>>]), Unowned)
    <3>1. reg[<<Unowned, x>>] \in Row /\ FallbackAgent(x, TRUE) \in Owner /\ Unowned \in Owner
      BY <2>3, ScopeHolds, OwnersHold, AgentsOwn
    <3> DEFINE row == opened(reg[<<Unowned, x>>])
    <3>2. row \in Row /\ row.at = stamp
      BY <2>2, <3>1
    <3> HIDE DEF row
    <3> QED
      BY <2>0, <2>3, <3>1, <3>2, SetRowOK DEF row
  <2>4. CASE new = Rewrite(reg, [s \in scope \X {x} |-> opened(reg[s])])
    <3> DEFINE f == [s \in scope \X {x} |-> opened(reg[s])]
    <3>1. \A s \in scope \X {x} : f[s] \in Row /\ f[s].at = stamp
      BY <2>2, ScopeHolds
    <3>2. DOMAIN f = scope \X {x}
      OBVIOUS
    <3>3. x \in Scene /\ x \in {x}
      OBVIOUS
    <3> HIDE DEF f, scope, x
    <3>4. Written(reg, x, scope, f, stamp, {x})
      BY <3>1, <3>2 DEF Written
    <3>5. /\ Stamped(reg, Rewrite(reg, f), stamp)
          /\ OpensOnly(reg, Rewrite(reg, f), {x})
      BY <2>1, <3>3, <3>4, RewriteOK
    <3> QED
      BY <2>0, <2>4, <3>5 DEF f, x
  <2>5. \/ scope = {Unowned} /\ new = SetRow(reg, x, FallbackAgent(x, TRUE),
                                             opened(reg[<<Unowned, x>>]), Unowned)
        \/ new = Rewrite(reg, [s \in scope \X {x} |-> opened(reg[s])])
    BY <1>2 DEF Allow
  <2> QED
    BY <2>3, <2>4, <2>5
<1> QED
  BY <1>1, <1>2

LEMMA DenyOK ==
  ASSUME NEW reg \in Registry, NEW cmd, cmd.scene \in Scene, NEW who, NEW stamp \in Nat,
         NEW new \in Deny(reg, cmd, who, stamp)
  PROVE  Stamped(reg, new, stamp) /\ OpensOnly(reg, new, {})
<1> DEFINE x == cmd.scene
           scope == Scope(reg, cmd, who)
           f == [s \in scope \X {x} |->
                   [reg[s] EXCEPT !.status = "denied", !.approved = FALSE, !.at = stamp]]
<1>1. new = Rewrite(reg, f)
  BY DEF Deny
<1>2. scope \subseteq Owner
  BY ScopeHolds, OwnersHold
<1>3. \A s \in scope \X {x} : f[s] \in Row /\ f[s].at = stamp /\ ~Opens(x, f[s])
  <2>1. ASSUME NEW r \in Row
        PROVE  LET d == [r EXCEPT !.status = "denied", !.approved = FALSE, !.at = stamp] IN
               d \in Row /\ d.at = stamp /\ d.status = "denied"
    BY DEF Row
  <2> QED
    BY <2>1, ScopeHolds DEF Opens
<1>4. DOMAIN f = scope \X {x} /\ x \in Scene
  OBVIOUS
<1> HIDE DEF f, scope, x
<1>5. Written(reg, x, scope, f, stamp, {})
  BY <1>3, <1>4 DEF Written
<1> QED
  BY <1>1, <1>2, <1>4, <1>5, RewriteOK

LEMMA RevokeOK ==
  ASSUME NEW reg \in Registry, NEW cmd, cmd.scene \in Scene, NEW who, NEW stamp \in Nat,
         NEW new \in Revoke(reg, cmd, who)
  PROVE  Stamped(reg, new, stamp) /\ OpensOnly(reg, new, {})
<1> DEFINE x == cmd.scene
           key(o) == IF o # Unowned THEN o ELSE who.agent
<1>1. CASE new = reg
  BY <1>1, SameRowsOK
<1>2. CASE new # reg
  <2>1. PICK o \in Owners(reg, x) : new \in DeleteRow(reg, x, key(o))
    BY <1>2 DEF Revoke
  <2> HIDE DEF key
  <2> QED
    BY <2>1, DeleteRowOK
<1> QED
  BY <1>1, <1>2

LEMMA BindOK ==
  ASSUME NEW reg \in Registry, NEW cmd, cmd.scene \in Scene, NEW who, NEW stamp \in Nat,
         NEW new \in Bind(reg, cmd, who, stamp)
  PROVE  Stamped(reg, new, stamp) /\ OpensOnly(reg, new, {})
<1> DEFINE x == cmd.scene
<1>1. CASE new = reg
  BY <1>1, SameRowsOK
<1>2. CASE new # reg
  <2>1. PICK o \in Looked(reg, x, who) :
          /\ cmd.agent \in Agent
          /\ new = SetRow(reg, x, cmd.agent, [reg[<<o, x>>] EXCEPT !.at = stamp], o)
    BY <1>2 DEF Bind
  <2>2. o \in Owner /\ reg[<<o, x>>] \in Row /\ cmd.agent \in Owner
    BY <2>1, ScopeHolds, OwnersHold, AgentsOwn
  <2> DEFINE row == [reg[<<o, x>>] EXCEPT !.at = stamp]
  <2>3. /\ row \in Row /\ row.at = stamp
        /\ Opens(x, row) => OpenTo(reg, x)
    BY <2>2, RowShape DEF Opens, Effective, OpenTo
  <2>4. new = SetRow(reg, x, cmd.agent, row, o)
    BY <2>1
  <2> HIDE DEF row
  <2> QED
    BY <2>2, <2>3, <2>4, SetRowOK
<1> QED
  BY <1>1, <1>2

LEMMA SettingsOK ==
  ASSUME NEW reg \in Registry, NEW cmd, cmd.scene \in Scene, NEW who, NEW stamp \in Nat,
         NEW new,
         \/ cmd.value \in Mode /\ new \in SetMode(reg, cmd, who, stamp)
         \/ cmd.value \in {"none", "set"} /\ new \in SetSetting(reg, cmd, who, stamp)
  PROVE  Stamped(reg, new, stamp) /\ OpensOnly(reg, new, {})
<1> DEFINE x == cmd.scene
           scope == Scope(reg, cmd, who)
<1>1. scope \subseteq Owner
  BY ScopeHolds, OwnersHold
<1>2. \A s \in scope \X {x} : s[1] \in Owner /\ s = <<s[1], x>> /\ reg[s] \in Row
  BY ScopeHolds, OwnersHold
<1>3. ASSUME NEW f, DOMAIN f = scope \X {x}, new = Rewrite(reg, f),
             \A s \in scope \X {x} : /\ f[s] \in Row /\ f[s].at = stamp
                                     /\ f[s].status = reg[s].status
                                     /\ f[s].approved = reg[s].approved
      PROVE  Stamped(reg, new, stamp) /\ OpensOnly(reg, new, {})
  <2>1. \A s \in scope \X {x} : Opens(x, f[s]) => OpenTo(reg, x)
    BY <1>2, <1>3 DEF Opens, Effective, OpenTo
  <2> HIDE DEF scope, x
  <2>2. Written(reg, x, scope, f, stamp, {})
    BY <1>3, <2>1 DEF Written
  <2> QED
    BY <1>1, <1>3, <2>2, RewriteOK DEF x
<1>4. CASE cmd.value \in Mode /\ new \in SetMode(reg, cmd, who, stamp) /\ new # reg
  <2> DEFINE f == [s \in scope \X {x} |-> [reg[s] EXCEPT !.mode = cmd.value, !.at = stamp]]
  <2>1. new = Rewrite(reg, f)
    BY <1>4 DEF SetMode
  <2>2. \A s \in scope \X {x} : /\ f[s] \in Row /\ f[s].at = stamp
                                /\ f[s].status = reg[s].status
                                /\ f[s].approved = reg[s].approved
    BY <1>2, <1>4 DEF Row
  <2>3. DOMAIN f = scope \X {x}
    OBVIOUS
  <2> HIDE DEF f, scope
  <2> QED
    BY <1>3, <2>1, <2>2, <2>3
<1>5. CASE cmd.value \in {"none", "set"} /\ new \in SetSetting(reg, cmd, who, stamp) /\ new # reg
  <2> DEFINE f == [s \in scope \X {x} |-> [reg[s] EXCEPT !.setting = cmd.value, !.at = stamp]]
  <2>1. new = Rewrite(reg, f)
    BY <1>5 DEF SetSetting
  <2>2. \A s \in scope \X {x} : /\ f[s] \in Row /\ f[s].at = stamp
                                /\ f[s].status = reg[s].status
                                /\ f[s].approved = reg[s].approved
    BY <1>2, <1>5 DEF Row
  <2>3. DOMAIN f = scope \X {x}
    OBVIOUS
  <2> HIDE DEF f, scope
  <2> QED
    BY <1>3, <2>1, <2>2, <2>3
<1> QED
  BY <1>4, <1>5, SameRowsOK

LEMMA CommandedOK ==
  ASSUME NEW reg \in Registry, NEW cmd, cmd.scene \in Scene, cmd.kind \in SceneCommands,
         cmd.kind = "mode" => cmd.value \in Mode,
         cmd.kind = "setting" => cmd.value \in {"none", "set"},
         NEW who, who.admin \in BOOLEAN, NEW stamp \in Nat,
         NEW new \in Commanded(reg, cmd, who, stamp)
  PROVE  Stamped(reg, new, stamp) /\ OpensOnly(reg, new, Opened(cmd, reg, new))
<1>1. CASE cmd.kind # "setting" /\ ~who.admin
  BY <1>1, SameRowsOK DEF Commanded
<1>2. CASE cmd.kind = "allow" /\ who.admin
  BY <1>2, AllowOK DEF Commanded
<1>3. CASE cmd.kind = "deny" /\ who.admin
  BY <1>3, DenyOK DEF Commanded, Opened
<1>4. CASE cmd.kind = "revoke" /\ who.admin
  BY <1>4, RevokeOK DEF Commanded, Opened
<1>5. CASE cmd.kind = "bind" /\ who.admin
  BY <1>5, BindOK DEF Commanded, Opened
<1>6. CASE cmd.kind = "mode" /\ who.admin
  BY <1>6, SettingsOK DEF Commanded, Opened
<1>7. CASE cmd.kind = "setting"
  BY <1>7, SettingsOK DEF Commanded, Opened
<1> QED
  BY <1>1, <1>2, <1>3, <1>4, <1>5, <1>6, <1>7 DEF SceneCommands

-----------------------------------------------------------------------------
(* The calls under way.                                                    *)

Answers == {"none", "reply", "context", "record"}
Call == [pc : Pcs, m : Message \cup {NoMessage}, agent : Agent \cup {"none"}, answer : Answers,
         win : Nat, old : Nat, look : [Slot -> Look], todo : SUBSET Slot, row : Slot \cup {<<>>},
         gone : SUBSET Scene, woken : SUBSET Slot, dirty : SUBSET Slot]

(* Before anything is looked at; while rows are held against their looks;  *)
(* while sessions are.                                                     *)
Early == {"idle", "gate", "admitted", "native", "prepared", "queued", "turn", "reading",
          "command", "resetting"}
Holding == {"deleting", "deleted", "purging", "dropping"}
Pruning == {"inspecting", "loop"} \cup Holding
Sweeping == {"sweep", "sweeping"}

(* What call r knows of the registry R and the sessions S at time c: a row *)
(* that was written since is gone or newer than the look, and so is a      *)
(* session.                                                                *)
RowKnown(r, s, R, c) ==
  /\ r.look[s].at <= c
  /\ s \in r.woken => R[s] = NoRow \/ R[s].at > r.look[s].at
SessKnown(r, s, S, c) ==
  /\ r.look[s].upd <= c
  /\ r.look[s].node \in {"alive", "archived"} => r.look[s].upd # 0
  /\ s \in r.dirty => s \in Own /\ (S[s] = NoSession \/ S[s].upd > r.look[s].upd)
CallOK(r, R, S, c) ==
  /\ r.pc # "idle" => r.m \in Message
  /\ r.pc \notin {"idle", "gate"} => r.agent \in Agent
  /\ r.pc \in Early => r.look = [s \in Slot |-> NoLook] /\ r.woken = {} /\ r.dirty = {}
  /\ r.pc = "inspecting" => \A s \in r.todo : r.look[s].node = "unknown"
  /\ r.pc \in Holding => r.row \in Slot
  /\ r.pc \in Sweeping => r.todo \subseteq Own
  /\ r.pc = "sweeping" => r.row \in Own
  /\ r.pc \in Pruning => \A s \in Slot : RowKnown(r, s, R, c)
  /\ r.pc \in Pruning \cup Sweeping => \A s \in Slot : SessKnown(r, s, S, c)

(* Nothing in the stores is younger than the clock.                        *)
Stores ==
  /\ rows \in Registry /\ sess \in [Own -> Session] /\ clock \in Nat
  /\ \A s \in Slot : rows[s].at <= clock
  /\ \A s \in Own : sess[s] = NoSession \/ sess[s].upd \in 1..clock
Calls == task \in [Task -> Call] /\ \A t \in Task : CallOK(task[t], rows, sess, clock)
Known == Stores /\ old \in Nat /\ Calls

(* A step deletes, or writes with a stamp that nothing had before.         *)
Signed(old_sess, new, at) ==
  /\ new \in [Own -> Session]
  /\ \A s \in Own : new[s] \in {old_sess[s], NoSession} \/ new[s].upd = at
Writes ==
  /\ clock' \in {clock, clock + 1}
  /\ Stamped(rows, rows', clock + 1) /\ Signed(sess, sess', clock + 1)
  /\ clock' = clock => /\ \A s \in Slot : rows'[s] \in {rows[s], NoRow}
                       /\ \A s \in Own : sess'[s] \in {sess[s], NoSession}

(* What a step makes of the call that takes it, and of the others.         *)
OthersHear(t) ==
  /\ task' = [u \in Task |-> task'[u]]
  /\ \A u \in Task \ {t} : task'[u] \in {task[u], News(task[u], WroteRows, WroteSess)}
Moves(t) ==
  /\ Writes /\ OthersHear(t)
  /\ task'[t] \in Call /\ CallOK(task'[t], rows', sess', clock')

LEMMA IdleOK ==
  /\ Idle \in Call
  /\ \A R, S, c : CallOK(Idle, R, S, c)
<1>1. NoLook \in Look
  BY DEF NoLook, Look
<1>2. Idle \in Call
  BY <1>1 DEF Idle, Call, Pcs, Answers
<1>3. ASSUME NEW R, NEW S, NEW c PROVE CallOK(Idle, R, S, c)
  BY DEF CallOK, Idle, Early, Holding, Sweeping, Pruning
<1> QED
  BY <1>2, <1>3

LEMMA AtShape ==
  ASSUME NEW r \in Call, NEW p \in Pcs
  PROVE  LET q == [r EXCEPT !.pc = p] IN
         /\ q \in Call /\ q.pc = p /\ q.m = r.m /\ q.agent = r.agent /\ q.answer = r.answer
         /\ q.win = r.win /\ q.old = r.old /\ q.look = r.look /\ q.todo = r.todo
         /\ q.row = r.row /\ q.gone = r.gone /\ q.woken = r.woken /\ q.dirty = r.dirty
BY DEF Call

LEMMA NewsShape ==
  ASSUME NEW r \in Call, NEW wrote, NEW touched
  PROVE  LET q == News(r, wrote, touched) IN
         /\ q \in Call /\ q.pc = r.pc /\ q.m = r.m /\ q.agent = r.agent /\ q.answer = r.answer
         /\ q.win = r.win /\ q.old = r.old /\ q.look = r.look /\ q.todo = r.todo
         /\ q.row = r.row /\ q.gone = r.gone
         /\ q.woken = r.woken \cup {s \in wrote \cap Slot : r.look[s] # NoLook}
         /\ q.dirty = r.dirty \cup {s \in touched \cap Slot : r.look[s] # NoLook}
<1> DEFINE looked == {s \in Slot : r.look[s] # NoLook}
<1>1. /\ r.woken \cup (wrote \cap looked) \in SUBSET Slot
      /\ r.dirty \cup (touched \cap looked) \in SUBSET Slot
  BY DEF Call
<1>2. News(r, wrote, touched) = [r EXCEPT !.woken = r.woken \cup (wrote \cap looked),
                                          !.dirty = r.dirty \cup (touched \cap looked)]
  BY DEF News, Call
<1> QED
  BY <1>1, <1>2 DEF Call

LEMMA DoneShape ==
  ASSUME NEW t \in Task, task[t] \in Call, NEW s \in Slot, NEW p \in Pcs
  PROVE  LET q == Done(t, s, p)
             r == task[t] IN
         /\ q \in Call /\ q.pc = p /\ q.m = r.m /\ q.agent = r.agent
         /\ q.look = [r.look EXCEPT ![s] = NoLook] /\ q.todo = r.todo \ {s}
         /\ q.woken = r.woken \ {s} /\ q.dirty = r.dirty \ {s} /\ q.gone = r.gone
<1>1. NoLook \in Look
  BY DEF NoLook, Look
<1> DEFINE r == task[t]
<1>2. /\ r.todo \ {s} \in SUBSET Slot /\ r.woken \ {s} \in SUBSET Slot
      /\ r.dirty \ {s} \in SUBSET Slot /\ [r.look EXCEPT ![s] = NoLook] \in [Slot -> Look]
  BY <1>1 DEF Call
<1>3. Done(t, s, p) = [r EXCEPT !.pc = p, !.todo = r.todo \ {s}, !.row = <<>>,
                                !.look = [r.look EXCEPT ![s] = NoLook],
                                !.woken = r.woken \ {s}, !.dirty = r.dirty \ {s}]
  BY DEF Done, Call
<1> QED
  BY <1>2, <1>3 DEF Call

(* What is known stays so when the stores are written.                     *)
LEMMA WritesKnown ==
  ASSUME Stores, Writes, NEW r \in Call, NEW s \in Slot
  PROVE  /\ RowKnown(r, s, rows, clock) => RowKnown(r, s, rows', clock')
         /\ SessKnown(r, s, sess, clock) => SessKnown(r, s, sess', clock')
<1>1. r.look[s] \in Look /\ r.look[s].at \in Nat /\ r.look[s].upd \in Nat
  BY DEF Call, Look
<1>2. clock \in Nat /\ clock' \in Nat /\ clock <= clock'
  BY DEF Stores, Writes
<1>3. RowKnown(r, s, rows, clock) => RowKnown(r, s, rows', clock')
  BY <1>1, <1>2 DEF RowKnown, Writes, Stamped, Stores, Registry
<1>4. SessKnown(r, s, sess, clock) => SessKnown(r, s, sess', clock')
  BY <1>1, <1>2 DEF SessKnown, Writes, Signed, Stores
<1> QED
  BY <1>3, <1>4

LEMMA KeptOK ==
  ASSUME Stores, Writes, NEW r \in Call, CallOK(r, rows, sess, clock)
  PROVE  CallOK(r, rows', sess', clock')
BY WritesKnown DEF CallOK

LEMMA HeardOK ==
  ASSUME Stores, Writes, NEW r \in Call, CallOK(r, rows, sess, clock)
  PROVE  /\ News(r, WroteRows, WroteSess) \in Call
         /\ CallOK(News(r, WroteRows, WroteSess), rows', sess', clock')
<1> DEFINE q == News(r, WroteRows, WroteSess)
<1>1. /\ q \in Call /\ q.pc = r.pc /\ q.m = r.m /\ q.agent = r.agent /\ q.look = r.look
      /\ q.todo = r.todo /\ q.row = r.row
      /\ q.woken = r.woken \cup {s \in WroteRows \cap Slot : r.look[s] # NoLook}
      /\ q.dirty = r.dirty \cup {s \in WroteSess \cap Slot : r.look[s] # NoLook}
  BY NewsShape
<1> HIDE DEF q
<1>2. ASSUME NEW s \in Slot, RowKnown(r, s, rows, clock)
      PROVE  RowKnown(q, s, rows', clock')
  <2>1. RowKnown(r, s, rows', clock')
    BY <1>2, WritesKnown
  <2>2. ASSUME s \in WroteRows PROVE rows'[s] = NoRow \/ rows'[s].at > r.look[s].at
    <3>1. r.look[s].at \in Nat /\ clock \in Nat /\ r.look[s].at <= clock
      BY <1>2 DEF Call, Look, RowKnown, Stores
    <3> QED
      BY <2>2, <3>1 DEF WroteRows, Writes, Stamped
  <2> QED
    BY <1>1, <2>1, <2>2 DEF RowKnown
<1>3. ASSUME NEW s \in Slot, SessKnown(r, s, sess, clock)
      PROVE  SessKnown(q, s, sess', clock')
  <2>1. SessKnown(r, s, sess', clock')
    BY <1>3, WritesKnown
  <2>2. ASSUME s \in WroteSess
        PROVE  s \in Own /\ (sess'[s] = NoSession \/ sess'[s].upd > r.look[s].upd)
    <3>1. r.look[s].upd \in Nat /\ clock \in Nat /\ r.look[s].upd <= clock
      BY <1>3 DEF Call, Look, SessKnown, Stores
    <3> QED
      BY <2>2, <3>1 DEF WroteSess, Writes, Signed
  <2> QED
    BY <1>1, <2>1, <2>2 DEF SessKnown
<1>4. r.look = [s \in Slot |-> NoLook] => q.woken = r.woken /\ q.dirty = r.dirty
  BY <1>1
<1>5. CallOK(q, rows', sess', clock')
  BY <1>1, <1>2, <1>3, <1>4 DEF CallOK
<1> QED
  BY <1>1, <1>5 DEF q

LEMMA StoresKept ==
  ASSUME Stores, Writes
  PROVE  Stores'
<1>1. clock' \in Nat /\ clock <= clock'
  BY DEF Stores, Writes
<1>2. rows' \in Registry /\ sess' \in [Own -> Session]
  BY DEF Writes, Stamped, Signed
<1>3. ASSUME NEW s \in Slot PROVE rows'[s].at <= clock'
  <2>1. rows[s].at \in Nat
    BY DEF Stores, Registry, Row, NoRow
  <2> QED
    BY <1>1, <2>1 DEF Stores, Writes, Stamped, NoRow
<1>4. ASSUME NEW s \in Own PROVE sess'[s] = NoSession \/ sess'[s].upd \in 1..clock'
  BY <1>1 DEF Stores, Writes, Signed
<1> QED
  BY <1>1, <1>2, <1>3, <1>4 DEF Stores

LEMMA CallsKept ==
  ASSUME Known, NEW t \in Task, Moves(t)
  PROVE  Stores' /\ Calls'
<1>1. Stores'
  BY StoresKept DEF Known, Moves
<1>2. ASSUME NEW u \in Task PROVE task'[u] \in Call /\ CallOK(task'[u], rows', sess', clock')
  <2>1. CASE u = t
    BY <2>1 DEF Moves
  <2>2. CASE u # t
    <3>1. task[u] \in Call /\ CallOK(task[u], rows, sess, clock)
      BY DEF Known, Calls
    <3>2. task'[u] \in {task[u], News(task[u], WroteRows, WroteSess)}
      BY <2>2 DEF Moves, OthersHear
    <3> QED
      BY <3>1, <3>2, KeptOK, HeardOK DEF Known, Moves
  <2> QED
    BY <2>1, <2>2
<1>3. task' \in [Task -> Call]
  BY <1>2 DEF Moves, OthersHear
<1> QED
  BY <1>1, <1>2, <1>3 DEF Calls

-----------------------------------------------------------------------------
(* How steps write and move.                                               *)

LEMMA SilentOK ==
  ASSUME Stores, UNCHANGED <<rows, sess, clock>>
  PROVE  Writes
BY DEF Stores, Writes, Stamped, Signed

LEMMA SessionWrites ==
  ASSUME Stores, NEW s
  PROVE  /\ Signed(sess, sess, clock + 1)
         /\ s \in Own => /\ Signed(sess, Recorded(s), clock + 1)
                         /\ Signed(sess, Interacted(s), clock + 1)
                         /\ Signed(sess, Renewed(s), clock + 1)
                         /\ Signed(sess, [sess EXCEPT ![s] = NoSession], clock + 1)
                         /\ Signed(sess, [Recorded(s) EXCEPT ![s].archived = ~@], clock + 1)
<1>1. /\ sess \in [Own -> Session] /\ clock + 1 \in Nat /\ Stamp = clock + 1
      /\ NoSession \in Session
  BY DEF Stores, Stamp, NoSession, Session
<1>2. ASSUME NEW v \in Session, v.upd = clock + 1 \/ v = NoSession, s \in Own
      PROVE  Signed(sess, [sess EXCEPT ![s] = v], clock + 1)
  BY <1>1, <1>2 DEF Signed
<1>3. CASE s \in Own
  <2>1. Existing(s) \in Session
    BY <1>1, <1>3 DEF Existing, Session, NoSession
  <2> DEFINE e == Existing(s)
             r == [e EXCEPT !.upd = Stamp]
  <2>2. r \in Session /\ r.upd = clock + 1
    BY <1>1, <2>1 DEF Session
  <2>3. [e EXCEPT !.upd = Stamp, !.act = Stamp] \in Session
        /\ [e EXCEPT !.upd = Stamp, !.act = Stamp].upd = clock + 1
    BY <1>1, <2>1 DEF Session
  <2>4. [NoSession EXCEPT !.id = Stamp, !.upd = Stamp] \in Session
        /\ [NoSession EXCEPT !.id = Stamp, !.upd = Stamp].upd = clock + 1
    BY <1>1 DEF Session, NoSession
  <2>5. [r EXCEPT !.archived = ~r.archived] \in Session
        /\ [r EXCEPT !.archived = ~r.archived].upd = clock + 1
    BY <2>2 DEF Session
  <2> HIDE DEF e, r
  <2>6. Recorded(s) = [sess EXCEPT ![s] = r]
    BY DEF Recorded, r, e
  <2>7. [Recorded(s) EXCEPT ![s].archived = ~@] =
          [sess EXCEPT ![s] = [r EXCEPT !.archived = ~r.archived]]
    BY <1>1, <1>3, <2>6
  <2>8. Interacted(s) = [sess EXCEPT ![s] = [e EXCEPT !.upd = Stamp, !.act = Stamp]]
    BY DEF Interacted, e
  <2>9. Renewed(s) = [sess EXCEPT ![s] = [NoSession EXCEPT !.id = Stamp, !.upd = Stamp]]
    BY DEF Renewed
  <2>10. Signed(sess, sess, clock + 1)
    BY <1>1 DEF Signed
  <2>11. Signed(sess, Recorded(s), clock + 1)
    BY <1>2, <1>3, <2>2, <2>6
  <2>12. Signed(sess, Interacted(s), clock + 1)
    BY <1>2, <1>3, <2>3, <2>8
  <2>13. Signed(sess, Renewed(s), clock + 1)
    BY <1>2, <1>3, <2>4, <2>9
  <2>14. Signed(sess, [sess EXCEPT ![s] = NoSession], clock + 1)
    BY <1>1, <1>2, <1>3
  <2>15. Signed(sess, [Recorded(s) EXCEPT ![s].archived = ~@], clock + 1)
    BY <1>2, <1>3, <2>5, <2>7
  <2> QED
    BY <2>10, <2>11, <2>12, <2>13, <2>14, <2>15
<1> QED
  BY <1>1, <1>3 DEF Signed

LEMMA TickOK ==
  ASSUME Stores, Tick, Stamped(rows, rows', clock + 1), Signed(sess, sess', clock + 1)
  PROVE  Writes
BY DEF Stores, Tick, Writes

LEMMA BecomesOK ==
  ASSUME NEW t \in Task, NEW r, Known,
         \/ Becomes(t, r)
         \/ task' = [task EXCEPT ![t] = r]
  PROVE  OthersHear(t) /\ task'[t] = r
<1>1. CASE Becomes(t, r)
  BY <1>1 DEF Becomes, OthersHear
<1>2. CASE task' = [task EXCEPT ![t] = r]
  BY <1>2 DEF OthersHear, Known, Calls
<1> QED
  BY <1>1, <1>2

(* A call that goes on to another place before it looks at anything, or    *)
(* when it has nothing left to hold.                                       *)
LEMMA AtOK ==
  ASSUME NEW r \in Call, NEW R, NEW S, NEW c, CallOK(r, R, S, c), r.pc \notin {"idle", "gate"},
         NEW p \in Pcs,
         \/ r.pc \in Early /\ p \in Early
         \/ p \in {"reply", "clearing", "listed"}
  PROVE  /\ [r EXCEPT !.pc = p] \in Call
         /\ \A R2, S2, c2 : CallOK([r EXCEPT !.pc = p], R2, S2, c2)
<1> DEFINE q == [r EXCEPT !.pc = p]
<1>1. /\ q \in Call /\ q.pc = p /\ q.m = r.m /\ q.agent = r.agent /\ q.look = r.look
      /\ q.todo = r.todo /\ q.row = r.row /\ q.woken = r.woken /\ q.dirty = r.dirty
  BY AtShape
<1> HIDE DEF q
<1>2. ASSUME NEW R2, NEW S2, NEW c2 PROVE CallOK(q, R2, S2, c2)
  BY <1>1 DEF CallOK, Early, Holding, Pruning, Sweeping
<1> QED
  BY <1>1, <1>2 DEF q

LEMMA MineOwn ==
  ASSUME Known, NEW t \in Task, task[t].pc \notin {"idle", "gate"}
  PROVE  /\ task[t] \in Call /\ task[t].m \in Message /\ task[t].agent \in Agent
         /\ task[t].m.scene \in Scene /\ Mine(t) \in Own
         /\ CallOK(task[t], rows, sess, clock)
BY InboundAssumption DEF Known, Calls, CallOK, Mine, Key, Own

LEMMA PcsHold ==
  /\ Early \subseteq Pcs /\ Holding \subseteq Pcs /\ Pruning \subseteq Pcs /\ Sweeping \subseteq Pcs
  /\ {"reply", "clearing", "listed"} \subseteq Pcs
BY DEF Early, Holding, Pruning, Sweeping, Pcs

LEMMA GoesOn ==
  ASSUME Known, Writes, NEW t \in Task, NEW r,
         Becomes(t, r) \/ task' = [task EXCEPT ![t] = r],
         \/ r = Idle
         \/ /\ task[t].pc \notin {"idle", "gate"}
            /\ \E p \in Pcs : /\ r = At(t, p)
                              /\ (task[t].pc \in Early /\ p \in Early)
                                   \/ p \in {"reply", "clearing", "listed"}
  PROVE  Moves(t)
<1>1. OthersHear(t) /\ task'[t] = r
  BY BecomesOK
<1>2. r \in Call /\ CallOK(r, rows', sess', clock')
  <2>1. CASE r = Idle
    BY <2>1, IdleOK
  <2>2. CASE r # Idle
    BY <2>2, MineOwn, AtOK DEF At
  <2> QED
    BY <2>1, <2>2
<1> QED
  BY <1>1, <1>2 DEF Moves

(* Steps that write neither the registry nor a session.                    *)
LEMMA QuietSteps ==
  ASSUME Known, NEW t \in Task,
         \/ Refuse(t) \/ RejectStop(t) \/ NativeEnds(t) \/ RunChat(t) \/ Queue(t) \/ RunLocal(t)
         \/ NotAllowed(t) \/ ResetRefused(t)
  PROVE  Moves(t)
<1>1. Writes
  BY SilentOK DEF Known, Refuse, RejectStop, NativeEnds, RunChat, Queue, RunLocal, NotAllowed,
     ResetRefused, store
<1>2. CASE Refuse(t) \/ RejectStop(t) \/ ResetRefused(t)
  BY <1>1, <1>2, GoesOn DEF Refuse, RejectStop, ResetRefused
<1>3. CASE NativeEnds(t)
  <2>1. task' = [task EXCEPT ![t] = Idle] \/ task' = [task EXCEPT ![t] = At(t, "prepared")]
    BY <1>3 DEF NativeEnds
  <2> QED
    BY <1>1, <1>3, <2>1, GoesOn DEF NativeEnds, Early, Pcs
<1>4. CASE RunChat(t)
  BY <1>1, <1>4, GoesOn DEF RunChat, Early, Pcs
<1>5. CASE Queue(t)
  BY <1>1, <1>5, GoesOn DEF Queue, Early, Pcs
<1>6. CASE RunLocal(t)
  BY <1>1, <1>6, GoesOn DEF RunLocal, Early, Pcs
<1>7. CASE NotAllowed(t)
  BY <1>1, <1>7, GoesOn DEF NotAllowed, Early, Pcs
<1> QED
  BY <1>2, <1>3, <1>4, <1>5, <1>6, <1>7

(* Steps that write the session of their message.                          *)
LEMMA SessionSteps ==
  ASSUME Known, NEW t \in Task,
         \/ RunNative(t) \/ OnlyRecord(t) \/ TurnBegins(t) \/ TurnEnds(t) \/ Reset(t)
         \/ ResetEnds(t) \/ Reply(t)
  PROVE  Moves(t)
<1>1. task[t].pc \in Pcs \ {"idle", "gate"}
  BY DEF RunNative, OnlyRecord, TurnBegins, TurnEnds, Reset, Resets, ResetEnds, Reply, Pcs
<1>2. Mine(t) \in Own
  BY <1>1, MineOwn
<1>3. Stamped(rows, rows', clock + 1)
  <2>1. rows' = rows
    BY DEF RunNative, OnlyRecord, TurnBegins, TurnEnds, Reset, ResetEnds, Reply
  <2> QED
    BY <2>1 DEF Known, Stores, Stamped
<1>4. Signed(sess, sess', clock + 1)
  <2>1. sess' \in {sess, Recorded(Mine(t)), Interacted(Mine(t)), Renewed(Mine(t))}
    BY DEF RunNative, OnlyRecord, TurnBegins, TurnEnds, Reset, ResetEnds, Reply
  <2> QED
    BY <1>2, <2>1, SessionWrites DEF Known
<1>5. Writes
  <2>1. Tick
    BY DEF RunNative, OnlyRecord, TurnBegins, TurnEnds, Reset, ResetEnds, Reply
  <2> QED
    BY <1>3, <1>4, <2>1, TickOK DEF Known
<1>6. CASE OnlyRecord(t) \/ TurnEnds(t) \/ ResetEnds(t) \/ Reply(t)
  BY <1>5, <1>6, GoesOn DEF OnlyRecord, TurnEnds, ResetEnds, Reply
<1>7. CASE RunNative(t)
  BY <1>1, <1>5, <1>7, GoesOn DEF RunNative, Early, Pcs
<1>8. CASE TurnBegins(t)
  BY <1>1, <1>5, <1>8, GoesOn DEF TurnBegins, Early, Pcs
<1>9. CASE Reset(t)
  BY <1>1, <1>5, <1>9, GoesOn DEF Reset, Resets, Early, Pcs
<1> QED
  BY <1>6, <1>7, <1>8, <1>9

(* A message comes in.                                                     *)
LEMMA ReceiveMoves ==
  ASSUME Known, NEW t \in Task, NEW m \in Message, Receive(t, m), window \in [Keys -> Nat]
  PROVE  Moves(t)
<1>1. Writes
  BY SilentOK DEF Known, Receive, store
<1>2. CASE task' = task
  <2>1. task'[t] \in Call /\ CallOK(task'[t], rows', sess', clock')
    BY <1>1, <1>2, KeptOK DEF Known, Calls
  <2>2. OthersHear(t)
    BY <1>2 DEF OthersHear, Known, Calls
  <2> QED
    BY <1>1, <2>1, <2>2 DEF Moves
<1>3. CASE task' # task
  <2> DEFINE r == [Idle EXCEPT !.pc = "gate", !.m = m, !.win = window[m.key]]
  <2>1. task' = [task EXCEPT ![t] = r]
    BY <1>3 DEF Receive
  <2>2. m.key \in Keys
    BY DEF Keys
  <2>3. /\ r \in Call /\ r.pc = "gate" /\ r.m \in Message /\ r.look = Idle.look
        /\ r.woken = Idle.woken /\ r.dirty = Idle.dirty
    BY <2>2, IdleOK DEF Call, Pcs
  <2> HIDE DEF r
  <2>4. CallOK(r, rows', sess', clock')
    BY <2>3 DEF CallOK, Idle, Early, Holding, Pruning, Sweeping
  <2> QED
    BY <1>1, <2>1, <2>3, <2>4, BecomesOK DEF Moves
<1> QED
  BY <1>2, <1>3

(* The registry decides on it.                                             *)
LEMMA AdmitMoves ==
  ASSUME Known, NEW t \in Task, Admit(t)
  PROVE  Moves(t)
<1> DEFINE m == task[t].m
<1>1. /\ task[t] \in Call /\ CallOK(task[t], rows, sess, clock) /\ task[t].pc = "gate"
      /\ m \in Message /\ m.scene \in Scene /\ m.admin \in BOOLEAN
      /\ rows \in Registry /\ Stamp \in Nat /\ Stamp = clock + 1
  BY InboundAssumption DEF Known, Calls, CallOK, Admit, Stores, Stamp
<1>2. PICK a \in Proposed(m) : \E d \in Decisions(rows, m.scene, m.admin, a, Stamp) :
        /\ rows' = d.rows /\ UNCHANGED sess
        /\ Becomes(t, IF d.row.status = "allowed"
                      THEN [task[t] EXCEPT !.pc = "admitted", !.agent = d.agent,
                                           !.answer = Answer(m, d.row.mode)]
                      ELSE Idle)
  BY DEF Admit
<1>3. PICK d \in Decisions(rows, m.scene, m.admin, a, Stamp) :
        /\ rows' = d.rows /\ UNCHANGED sess
        /\ Becomes(t, IF d.row.status = "allowed"
                      THEN [task[t] EXCEPT !.pc = "admitted", !.agent = d.agent,
                                           !.answer = Answer(m, d.row.mode)]
                      ELSE Idle)
  BY <1>2
<1>4. Stamped(rows, d.rows, Stamp) /\ d.agent \in Agent
  BY <1>1, DecisionsOK
<1>5. Writes
  BY <1>1, <1>3, <1>4, TickOK, SessionWrites DEF Known, Admit
<1>6. CASE d.row.status # "allowed"
  BY <1>3, <1>5, <1>6, GoesOn
<1>7. CASE d.row.status = "allowed"
  <2> DEFINE r == [task[t] EXCEPT !.pc = "admitted", !.agent = d.agent,
                                  !.answer = Answer(m, d.row.mode)]
  <2>1. Answer(m, d.row.mode) \in Answers
    BY DEF Answer, Answers
  <2>2. /\ r \in Call /\ r.pc = "admitted" /\ r.m = m /\ r.agent = d.agent
        /\ r.look = task[t].look /\ r.woken = task[t].woken /\ r.dirty = task[t].dirty
    BY <1>1, <1>4, <2>1 DEF Call, Pcs
  <2>3. Becomes(t, r)
    BY <1>3, <1>7
  <2> HIDE DEF r
  <2>4. CallOK(r, rows', sess', clock')
    BY <1>1, <1>4, <2>2 DEF CallOK, Early, Holding, Pruning, Sweeping
  <2> QED
    BY <1>5, <2>2, <2>3, <2>4, BecomesOK DEF Moves
<1> QED
  BY <1>6, <1>7

(* Rows of other processes come in, and those of a command.                *)
LEMMA RefreshRows ==
  ASSUME Known, NEW s \in Own, NEW status \in {"allowed", "denied"}
  PROVE  LET new == [rows EXCEPT ![s] = FreshRow(s[2], status, Stamp)] IN
         /\ Stamped(rows, new, clock + 1)
         /\ OpensOnly(rows, new, IF status = "allowed" THEN {s[2]} ELSE {})
<1>1. /\ s = <<s[1], s[2]>> /\ s[1] \in Owner /\ s[2] \in Scene /\ s \in Slot
  BY DEF Own, Slot, Owner
<1> DEFINE row == FreshRow(s[2], status, Stamp)
<1>2. Stamp = clock + 1 /\ Stamp \in Nat /\ rows \in Registry
  BY DEF Known, Stores, Stamp
<1>3. row \in Row /\ row.at = clock + 1 /\ row.status = status
  BY <1>2, FreshRowOK
<1>4. [rows EXCEPT ![s] = row] = SetRow(rows, s[2], s[1], row, s[1])
  BY <1>1, <1>2 DEF SetRow, Registry
<1>5. Opens(s[2], row) => s[2] \in (IF status = "allowed" THEN {s[2]} ELSE {})
  BY <1>3 DEF Opens
<1> HIDE DEF row
<1> QED
  BY <1>1, <1>2, <1>3, <1>4, <1>5, SetRowOK DEF row

LEMMA RefreshMoves ==
  ASSUME Known, NEW t \in Task, Refresh(t)
  PROVE  Moves(t)
<1>1. task[t].pc = "reading" /\ Becomes(t, At(t, "command")) /\ sess' = sess
  BY DEF Refresh, store
<1>2. CASE UNCHANGED <<rows, clock, left, ghost>>
  BY <1>1, <1>2, SilentOK, GoesOn DEF Known, Early, Pcs
<1>3. CASE Tick /\ \E s \in Own, status \in {"allowed", "denied"} :
                     rows' = [rows EXCEPT ![s] = FreshRow(s[2], status, Stamp)]
  <2>1. Stamped(rows, rows', clock + 1)
    BY <1>3, RefreshRows
  <2>2. Writes
    BY <1>1, <1>3, <2>1, TickOK, SessionWrites DEF Known
  <2> QED
    BY <1>1, <2>2, GoesOn DEF Early, Pcs
<1> QED
  BY <1>2, <1>3 DEF Refresh

LEMMA CommandRows ==
  ASSUME Known, NEW m \in Message, m.cmd.kind \in SceneCommands, NEW a,
         NEW new \in Commanded(rows, m.cmd, [admin |-> m.admin, scene |-> m.scene, agent |-> a], Stamp)
  PROVE  Stamped(rows, new, clock + 1) /\ OpensOnly(rows, new, Opened(m.cmd, rows, new))
<1> DEFINE who == [admin |-> m.admin, scene |-> m.scene, agent |-> a]
<1>1. /\ m.cmd.scene \in Scene /\ who.admin \in BOOLEAN
      /\ m.cmd.kind = "mode" => m.cmd.value \in Mode
      /\ m.cmd.kind = "setting" => m.cmd.value \in {"none", "set"}
  BY InboundAssumption
<1>2. Stamp = clock + 1 /\ Stamp \in Nat /\ rows \in Registry
  BY DEF Known, Stores, Stamp
<1>3. new \in Commanded(rows, m.cmd, who, Stamp)
  OBVIOUS
<1> HIDE DEF who
<1> QED
  BY <1>1, <1>2, <1>3, CommandedOK

LEMMA SceneCommandMoves ==
  ASSUME Known, NEW t \in Task, SceneCommand(t)
  PROVE  Moves(t)
<1> DEFINE m == task[t].m
<1>1. /\ task[t].pc = "command" /\ Becomes(t, At(t, "reply")) /\ sess' = sess /\ Tick
      /\ m.cmd.kind \in SceneCommands
  BY DEF SceneCommand, store, Cmd
<1>2. m \in Message
  BY <1>1, MineOwn
<1>3. PICK a : rows' \in Commanded(rows, m.cmd, [admin |-> m.admin, scene |-> m.scene, agent |-> a], Stamp)
  BY DEF SceneCommand
<1>4. Stamped(rows, rows', clock + 1)
  BY <1>1, <1>2, <1>3, CommandRows
<1>5. Writes
  BY <1>1, <1>4, TickOK, SessionWrites DEF Known
<1> QED
  BY <1>1, <1>5, GoesOn DEF Pcs

-----------------------------------------------------------------------------
(* The prune and the sweep.                                                *)

(* A reading is not of the future, and one of a session knows its stamp.   *)
LEMMA ReadingOK ==
  ASSUME NEW l \in Look, NEW c \in Nat, NEW v \in Session, v = NoSession \/ v.upd \in 1..c,
         NEW read,
         \/ read = ByIndex(l, v)
         \/ read \in {ByClock(l, v), Unreadable(l)} /\ l.node = "unknown"
  PROVE  /\ read \in Look /\ read.at = l.at
         /\ read.upd <= c \/ read.upd = l.upd
         /\ read.node \in {"alive", "archived"} => read.upd # 0
<1>1. CASE read = ByIndex(l, v) /\ v = NoSession
  BY <1>1 DEF ByIndex, Look
<1>2. CASE read = ByIndex(l, v) /\ v # NoSession
  <2>1. v.upd # 0 /\ v.upd <= c
    BY <1>2
  <2> QED
    BY <1>2, <2>1 DEF ByIndex, Look, Session
<1>3. CASE read = ByClock(l, v) /\ read # ByIndex(l, v)
  BY <1>3 DEF ByClock, Look, Session, NoSession, ByIndex
<1>4. CASE read = Unreadable(l) /\ read # ByIndex(l, v)
  BY <1>4 DEF Unreadable, Look, ByIndex
<1> QED
  BY <1>1, <1>2, <1>3, <1>4

LEMMA DoneOK ==
  ASSUME NEW t \in Task, task[t] \in Call, NEW R, NEW S, NEW c \in Nat,
         CallOK(task[t], R, S, c), NEW s \in Slot, NEW p,
         \/ task[t].pc \in Pruning \ {"inspecting"} /\ p = "loop"
         \/ task[t].pc \in Sweeping /\ p = "sweep"
  PROVE  Done(t, s, p) \in Call /\ CallOK(Done(t, s, p), R, S, c)
<1> DEFINE r == task[t]
           q == Done(t, s, p)
<1>1. p \in Pcs
  BY DEF Pcs
<1>2. /\ q \in Call /\ q.pc = p /\ q.m = r.m /\ q.agent = r.agent
      /\ q.look = [r.look EXCEPT ![s] = NoLook] /\ q.todo = r.todo \ {s}
      /\ q.woken = r.woken \ {s} /\ q.dirty = r.dirty \ {s}
  BY <1>1, DoneShape
<1>3. r.look \in [Slot -> Look]
  BY DEF Call
<1> HIDE DEF q
<1>4. ASSUME NEW u \in Slot PROVE u # s => q.look[u] = r.look[u]
  BY <1>2, <1>3
<1>5. q.look[s] = NoLook
  BY <1>2, <1>3
<1>6. ASSUME NEW u \in Slot, RowKnown(r, u, R, c) PROVE RowKnown(q, u, R, c)
  BY <1>2, <1>4, <1>5, <1>6 DEF RowKnown, NoLook
<1>7. ASSUME NEW u \in Slot, SessKnown(r, u, S, c) PROVE SessKnown(q, u, S, c)
  BY <1>2, <1>4, <1>5, <1>7 DEF SessKnown, NoLook
<1>8. r.m \in Message /\ r.agent \in Agent
  BY DEF CallOK, Pruning, Holding, Sweeping
<1>9. ASSUME r.pc \in Pruning \ {"inspecting"}, p = "loop" PROVE CallOK(q, R, S, c)
  <2>1. \A u \in Slot : RowKnown(q, u, R, c) /\ SessKnown(q, u, S, c)
    BY <1>6, <1>7, <1>9 DEF CallOK
  <2> QED
    BY <1>2, <1>8, <1>9, <2>1 DEF CallOK, Early, Holding, Pruning, Sweeping
<1>10. ASSUME r.pc \in Sweeping, p = "sweep" PROVE CallOK(q, R, S, c)
  <2>1. \A u \in Slot : SessKnown(q, u, S, c)
    BY <1>7, <1>10 DEF CallOK
  <2>2. q.todo \subseteq Own
    BY <1>2, <1>10 DEF CallOK
  <2> QED
    BY <1>2, <1>8, <1>10, <2>1, <2>2 DEF CallOK, Early, Holding, Pruning, Sweeping
<1> QED
  BY <1>2, <1>9, <1>10 DEF q

(* The rows are looked at, then their sessions one by one.                 *)
LEMMA InspectMoves ==
  ASSUME Known, NEW t \in Task, Inspect(t)
  PROVE  Moves(t)
<1> DEFINE targets == IF Cmd(t).kind = "prune" THEN Targets(rows, Cmd(t))
                      ELSE {s \in Slot : rows[s] # NoRow}
           look == [s \in Slot |-> IF s \in targets THEN Glance(rows[s]) ELSE NoLook]
           todo == {s \in targets : Owned(s)}
           r == [task[t] EXCEPT !.pc = "inspecting", !.old = old, !.look = look, !.todo = todo]
<1>1. Writes
  BY SilentOK DEF Known, Inspect, store
<1>2. task[t].pc = "command" /\ targets \subseteq Slot
  BY DEF Inspect, Targets
<1>3. task' = [task EXCEPT ![t] = IF targets = {} THEN At(t, "reply") ELSE r]
  BY DEF Inspect
<1>4. CASE targets = {}
  BY <1>1, <1>2, <1>3, <1>4, GoesOn DEF Pcs
<1>5. CASE targets # {}
  <2>1. ASSUME NEW s \in Slot
        PROVE  /\ look[s] \in Look /\ look[s].at <= clock /\ look[s].upd = 0
               /\ look[s].node \in {"unknown", "none"}
               /\ s \in targets => look[s].node = "unknown"
    <3>1. rows[s].at \in Nat /\ rows[s].at <= clock /\ clock \in Nat
      BY DEF Known, Stores, Registry, Row, NoRow
    <3>2. LET l == Glance(rows[s]) IN
          l \in Look /\ l.at = rows[s].at /\ l.upd = 0 /\ l.node = "unknown"
      BY <3>1 DEF Glance, NoLook, Look
    <3>3. NoLook \in Look /\ NoLook.at = 0 /\ NoLook.upd = 0 /\ NoLook.node = "none"
      BY DEF NoLook, Look
    <3>4. look[s] = IF s \in targets THEN Glance(rows[s]) ELSE NoLook
      OBVIOUS
    <3> HIDE DEF look, targets
    <3> QED
      BY <3>1, <3>2, <3>3, <3>4
  <2>2. /\ task[t] \in Call /\ task[t].m \in Message /\ task[t].agent \in Agent
        /\ task[t].woken = {} /\ task[t].dirty = {} /\ old \in Nat /\ clock \in Nat
    BY <1>2, MineOwn DEF CallOK, Early, Known, Stores
  <2>3. look \in [Slot -> Look]
    BY <2>1
  <2>4. todo \subseteq targets
    OBVIOUS
  <2> HIDE DEF look, targets, todo
  <2>5. /\ r \in Call /\ r.pc = "inspecting" /\ r.m = task[t].m /\ r.agent = task[t].agent
        /\ r.look = look /\ r.todo = todo /\ r.woken = {} /\ r.dirty = {}
    BY <1>2, <2>2, <2>3, <2>4 DEF Call, Pcs
  <2> HIDE DEF r
  <2>6. CallOK(r, rows, sess, clock)
    <3>1. \A s \in Slot : RowKnown(r, s, rows, clock) /\ SessKnown(r, s, sess, clock)
      BY <2>1, <2>2, <2>5 DEF RowKnown, SessKnown
    <3>2. \A s \in r.todo : r.look[s].node = "unknown"
      BY <1>2, <2>1, <2>4, <2>5
    <3> QED
      BY <2>2, <2>5, <3>1, <3>2 DEF CallOK, Early, Holding, Pruning, Sweeping
  <2>7. CallOK(r, rows', sess', clock')
    BY <1>1, <2>5, <2>6, KeptOK DEF Known
  <2> QED
    BY <1>1, <1>3, <1>5, <2>5, <2>7, BecomesOK DEF Moves
<1> QED
  BY <1>4, <1>5

LEMMA ReadSessionMoves ==
  ASSUME Known, NEW t \in Task, NEW s \in Own, ReadSession(t, s)
  PROVE  Moves(t)
<1> DEFINE l == task[t].look[s]
           none == \A x \in Scene : sess[<<s[1], x>>] = NoSession
<1>1. Writes
  BY SilentOK DEF Known, ReadSession, store
<1>2. /\ task[t].pc = "inspecting" /\ s \in task[t].todo /\ s \in Slot
      /\ task[t] \in Call /\ task[t].m \in Message /\ task[t].agent \in Agent
      /\ CallOK(task[t], rows, sess, clock)
      /\ l \in Look /\ sess[s] \in Session /\ clock \in Nat
      /\ sess[s] = NoSession \/ sess[s].upd \in 1..clock
  BY MineOwn, AgentsOwn DEF ReadSession, Call, Known, Stores
<1>3. l.node = "unknown"
  BY <1>2 DEF CallOK
<1>4. PICK read \in {ByIndex(l, sess[s]), ByClock(l, sess[s]), Unreadable(l)} :
        task' = [task EXCEPT ![t].look[s] = read, ![t].todo = @ \ {s}, ![t].dirty = @ \ {s}]
  BY DEF ReadSession
<1>5. /\ read \in Look /\ read.at = l.at
      /\ read.upd <= clock \/ read.upd = l.upd
      /\ read.node \in {"alive", "archived"} => read.upd # 0
  BY <1>2, <1>3, <1>4, ReadingOK
<1> DEFINE look == [task[t].look EXCEPT ![s] = read]
           todo == task[t].todo \ {s}
           dirty == task[t].dirty \ {s}
           r == [task[t] EXCEPT !.look = look, !.todo = todo, !.dirty = dirty]
<1>6. task' = [task EXCEPT ![t] = r]
  BY <1>2, <1>4 DEF Known, Calls, Call
<1>7. /\ look \in [Slot -> Look] /\ look[s] = read
      /\ \A u \in Slot : u # s => look[u] = task[t].look[u]
  BY <1>2, <1>5 DEF Call
<1>8. /\ r \in Call /\ r.pc = "inspecting" /\ r.m = task[t].m /\ r.agent = task[t].agent
      /\ r.look = look /\ r.todo = todo /\ r.woken = task[t].woken /\ r.dirty = dirty
  BY <1>2, <1>7 DEF Call
<1> HIDE DEF r, look
<1>9. ASSUME NEW u \in Slot
      PROVE  RowKnown(r, u, rows, clock) /\ SessKnown(r, u, sess, clock)
  <2>1. RowKnown(task[t], u, rows, clock) /\ SessKnown(task[t], u, sess, clock)
    BY <1>2 DEF CallOK, Pruning
  <2> QED
    BY <1>5, <1>7, <1>8, <2>1 DEF RowKnown, SessKnown
<1>10. \A u \in r.todo : r.look[u].node = "unknown"
  <2>1. r.todo \subseteq Slot
    BY <1>8 DEF Call
  <2> QED
    BY <1>2, <1>7, <1>8, <2>1 DEF CallOK
<1>11. CallOK(r, rows, sess, clock)
  BY <1>2, <1>8, <1>9, <1>10 DEF CallOK, Early, Holding, Pruning, Sweeping
<1>12. CallOK(r, rows', sess', clock')
  BY <1>1, <1>8, <1>11, KeptOK DEF Known
<1> QED
  BY <1>1, <1>6, <1>8, <1>12, BecomesOK DEF Moves

(* A call that holds on to its looks.                                      *)
LEMMA HoldOK ==
  ASSUME NEW r, NEW R, NEW S, NEW c, CallOK(r, R, S, c), r.pc \in Pruning,
         NEW q, q.pc \in Pruning \ {"inspecting"}, q.m = r.m, q.agent = r.agent,
         q.look = r.look, q.woken = r.woken, q.dirty = r.dirty,
         q.pc \in Holding => q.row \in Slot
  PROVE  CallOK(q, R, S, c)
<1>1. \A s \in Slot : RowKnown(q, s, R, c) /\ SessKnown(q, s, S, c)
  BY DEF CallOK, RowKnown, SessKnown
<1> QED
  BY <1>1 DEF CallOK, Early, Holding, Pruning, Sweeping

LEMMA PruningCall ==
  ASSUME Known, NEW t \in Task, task[t].pc \in Pruning
  PROVE  /\ task[t] \in Call /\ CallOK(task[t], rows, sess, clock)
         /\ task[t].todo \subseteq Slot /\ task[t].pc \notin {"idle", "gate"}
         /\ task[t].pc \in Holding => task[t].row \in Slot
BY DEF Known, Calls, CallOK, Call, Pruning, Holding

LEMMA JudgeMoves ==
  ASSUME Known, NEW t \in Task, Judge(t)
  PROVE  Moves(t)
<1>1. Writes
  BY SilentOK DEF Known, Judge, store
<1>2. task[t].pc = "inspecting" /\ task[t].pc \in Pruning
  BY DEF Judge, Pruning
<1>3. task[t] \in Call /\ CallOK(task[t], rows, sess, clock)
  BY <1>2, PruningCall
<1>4. PICK verdict \in SUBSET Slot :
        task' = [task EXCEPT ![t].pc = IF verdict = {} THEN "reply" ELSE "loop", ![t].todo = verdict]
  <2>1. /\ Chosen(task[t].look, Cmd(t), task[t].old) \in SUBSET Slot
        /\ Candidates(task[t].look, Cmd(t), task[t].old) \in SUBSET Slot
    BY DEF Chosen, Candidates
  <2> QED
    BY <2>1 DEF Judge
<1> DEFINE r == [task[t] EXCEPT !.pc = IF verdict = {} THEN "reply" ELSE "loop", !.todo = verdict]
<1>5. task' = [task EXCEPT ![t] = r]
  BY <1>3, <1>4 DEF Known, Calls, Call
<1>6. /\ r \in Call /\ r.pc = (IF verdict = {} THEN "reply" ELSE "loop") /\ r.m = task[t].m
      /\ r.agent = task[t].agent /\ r.look = task[t].look /\ r.woken = task[t].woken
      /\ r.dirty = task[t].dirty
  BY <1>3 DEF Call, Pcs
<1> HIDE DEF r
<1>7. CallOK(r, rows, sess, clock)
  <2>1. CASE verdict = {}
    BY <1>2, <1>3, <1>6, <2>1 DEF CallOK, Early, Holding, Pruning, Sweeping
  <2>2. CASE verdict # {}
    BY <1>2, <1>3, <1>6, <2>2, HoldOK DEF Pruning, Holding
  <2> QED
    BY <2>1, <2>2
<1>8. CallOK(r, rows', sess', clock')
  BY <1>1, <1>6, <1>7, KeptOK DEF Known
<1> QED
  BY <1>1, <1>5, <1>6, <1>8, BecomesOK DEF Moves

(* A row is taken up, or left alone.                                       *)
LEMMA RowEnds ==
  ASSUME Known, Writes, NEW t \in Task, NEW s \in Slot, NEW p,
         \/ task[t].pc \in Pruning \ {"inspecting"} /\ p = "loop"
         \/ task[t].pc \in Sweeping /\ p = "sweep",
         Becomes(t, Done(t, s, p)) \/ task' = [task EXCEPT ![t] = Done(t, s, p)]
  PROVE  Moves(t)
<1>1. task[t] \in Call /\ CallOK(task[t], rows, sess, clock)
  BY DEF Known, Calls
<1>2. CallOK(task[t], rows', sess', clock') /\ clock' \in Nat
  BY <1>1, KeptOK DEF Known, Writes, Stores
<1>3. Done(t, s, p) \in Call /\ CallOK(Done(t, s, p), rows', sess', clock')
  BY <1>1, <1>2, DoneOK
<1> QED
  BY <1>3, BecomesOK DEF Moves

LEMMA RowHeld ==
  ASSUME Known, Writes, NEW t \in Task, task[t].pc \in Holding, NEW p \in Holding,
         Becomes(t, At(t, p)) \/ task' = [task EXCEPT ![t] = At(t, p)]
  PROVE  Moves(t)
<1>1. task[t].pc \in Pruning /\ p \in Pruning \ {"inspecting"} /\ p \in Pcs
  BY PcsHold DEF Pruning, Holding
<1>2. /\ task[t] \in Call /\ CallOK(task[t], rows, sess, clock) /\ task[t].row \in Slot
  BY <1>1, PruningCall
<1> DEFINE r == [task[t] EXCEPT !.pc = p]
<1>3. /\ r \in Call /\ r.pc = p /\ r.m = task[t].m /\ r.agent = task[t].agent
      /\ r.look = task[t].look /\ r.woken = task[t].woken /\ r.dirty = task[t].dirty
      /\ r.row = task[t].row
  BY <1>1, <1>2, AtShape
<1>4. r = At(t, p)
  BY DEF At
<1> HIDE DEF r
<1>5. CallOK(r, rows, sess, clock)
  BY <1>1, <1>2, <1>3, HoldOK
<1>6. CallOK(r, rows', sess', clock')
  BY <1>3, <1>5, KeptOK DEF Known
<1> QED
  BY <1>3, <1>4, <1>6, BecomesOK DEF Moves

LEMMA PickMoves ==
  ASSUME Known, NEW t \in Task, Pick(t)
  PROVE  Moves(t)
<1>1. Writes
  BY SilentOK DEF Known, Pick, store
<1>2. task[t].pc = "loop" /\ task[t].pc \in Pruning
  BY DEF Pick, Pruning
<1>3. task[t] \in Call /\ CallOK(task[t], rows, sess, clock) /\ task[t].todo \subseteq Slot
  BY <1>2, PruningCall
<1>4. PICK s \in Slot :
        task' = [task EXCEPT ![t] = IF Matches(t, s) THEN [task[t] EXCEPT !.pc = "deleting", !.row = s]
                                    ELSE Done(t, s, "loop")]
  BY <1>3 DEF Pick, Oldest
<1>5. CASE ~Matches(t, s)
  BY <1>1, <1>2, <1>4, <1>5, RowEnds
<1>6. CASE Matches(t, s)
  <2> DEFINE r == [task[t] EXCEPT !.pc = "deleting", !.row = s]
  <2>1. /\ r \in Call /\ r.pc = "deleting" /\ r.m = task[t].m /\ r.agent = task[t].agent
        /\ r.look = task[t].look /\ r.woken = task[t].woken /\ r.dirty = task[t].dirty
        /\ r.row = s
    BY <1>3 DEF Call, Pcs
  <2>2. task' = [task EXCEPT ![t] = r]
    BY <1>4, <1>6
  <2> HIDE DEF r
  <2>3. CallOK(r, rows, sess, clock)
    BY <1>2, <1>3, <2>1, HoldOK DEF Pruning, Holding
  <2>4. CallOK(r, rows', sess', clock')
    BY <1>1, <2>1, <2>3, KeptOK DEF Known
  <2> QED
    BY <1>1, <2>1, <2>2, <2>4, BecomesOK DEF Moves
<1> QED
  BY <1>5, <1>6

LEMMA DeleteSessionMoves ==
  ASSUME Known, NEW t \in Task, DeleteSession(t)
  PROVE  Moves(t)
<1> DEFINE s == task[t].row
           l == task[t].look[s]
           ok == sess[s] # NoSession /\ Expected(sess[s], l)
<1>1. task[t].pc = "deleting" /\ task[t].pc \in Pruning /\ task[t].pc \in Holding
  BY DEF DeleteSession, Pruning, Holding
<1>2. task[t] \in Call /\ s \in Slot
  BY <1>1, PruningCall
<1>3. UNCHANGED <<rows, clock>> /\ sess' \in {sess, [sess EXCEPT ![s] = NoSession]}
  BY DEF DeleteSession
<1>4. Writes
  <2>1. sess \in [Own -> Session] /\ clock \in Nat /\ NoSession \in Session
    BY DEF Known, Stores, NoSession, Session
  <2>2. /\ sess' \in [Own -> Session]
        /\ \A u \in Own : sess'[u] \in {sess[u], NoSession}
    BY <1>3, <2>1
  <2> QED
    BY <1>3, <2>1, <2>2 DEF Known, Stores, Writes, Stamped, Signed
<1>5. Becomes(t, At(t, "deleted")) \/ Becomes(t, Done(t, s, "loop"))
  BY DEF DeleteSession
<1> HIDE DEF s
<1> QED
  BY <1>1, <1>2, <1>4, <1>5, RowEnds, RowHeld DEF Holding

LEMMA PurgeMoves ==
  ASSUME Known, NEW t \in Task, Purge(t) \/ PurgeEnds(t)
  PROVE  Moves(t)
<1>1. Writes
  BY SilentOK DEF Known, Purge, PurgeEnds, store
<1>2. task[t].pc \in {"deleted", "purging"} /\ task[t].pc \in Pruning /\ task[t].pc \in Holding
  BY DEF Purge, PurgeEnds, Pruning, Holding
<1>3. task[t] \in Call /\ task[t].row \in Slot
  BY <1>2, PruningCall
<1>4. \/ task' = [task EXCEPT ![t] = At(t, "purging")]
      \/ task' = [task EXCEPT ![t] = At(t, "dropping")]
      \/ task' = [task EXCEPT ![t] = Done(t, task[t].row, "loop")]
  BY DEF Purge, PurgeEnds
<1> QED
  BY <1>1, <1>2, <1>3, <1>4, RowEnds, RowHeld DEF Holding

LEMMA DropMoves ==
  ASSUME Known, NEW t \in Task, Drop(t)
  PROVE  Moves(t)
<1> DEFINE s == task[t].row
           q == Done(t, s, "loop")
           r == [q EXCEPT !.gone = @ \cup {s[2]}]
<1>1. task[t].pc = "dropping" /\ task[t].pc \in Pruning /\ task[t].pc \in Holding
  BY DEF Drop, Pruning, Holding
<1>2. task[t] \in Call /\ CallOK(task[t], rows, sess, clock) /\ s \in Slot
  BY <1>1, PruningCall
<1>3. s = <<s[1], s[2]>> /\ s[1] \in Owner /\ s[2] \in Scene
  BY <1>2 DEF Slot
<1>4. /\ UNCHANGED <<sess, clock>>
      /\ \/ rows' \in DeleteRow(rows, s[2], s[1]) /\ Becomes(t, r)
         \/ rows' = rows /\ Becomes(t, q)
  BY DEF Drop
<1>5. Writes
  <2>1. rows \in Registry /\ sess \in [Own -> Session] /\ clock \in Nat
    BY DEF Known, Stores
  <2>2. rows' \in Registry /\ \A u \in Slot : rows'[u] \in {rows[u], NoRow}
    <3>1. CASE rows' = rows
      BY <2>1, <3>1
    <3>2. CASE rows' \in DeleteRow(rows, s[2], s[1])
      <4>1. PICK o \in Owner, x \in Scene : s = <<o, x>>
        BY <1>3
      <4>2. rows' \in DeleteRow(rows, x, o)
        BY <3>2, <4>1
      <4>3. PICK k \in Hit(rows, x, o) : rows' = [rows EXCEPT ![<<k, x>>] = NoRow]
        BY <4>2 DEF DeleteRow
      <4>4. /\ rows' \in Registry
            /\ \A u \in Slot : rows'[u] = IF u = <<k, x>> THEN NoRow ELSE rows[u]
        <5>1. <<k, x>> \in Slot
          BY <2>1, <4>1, <4>3, HitHolds
        <5> QED
          BY <2>1, <4>3, <5>1 DEF Registry
      <4> QED
        BY <4>4
    <3> QED
      BY <1>4, <3>1, <3>2
  <2> QED
    BY <1>4, <2>1, <2>2 DEF Writes, Stamped, Signed
<1>6. CASE Becomes(t, q)
  BY <1>1, <1>2, <1>5, <1>6, RowEnds
<1>7. CASE Becomes(t, r)
  <2>1. CallOK(task[t], rows', sess', clock') /\ clock' \in Nat
    BY <1>2, <1>5, KeptOK DEF Known, Writes, Stores
  <2>2. q \in Call /\ CallOK(q, rows', sess', clock')
    BY <1>1, <1>2, <2>1, DoneOK
  <2>3. q.pc = "loop"
    BY <1>2 DEF Done, Call
  <2>4. Becomes(t, [q EXCEPT !.gone = @ \cup {s[2]}])
    BY <1>7
  <2> HIDE DEF q
  <2> DEFINE v == [q EXCEPT !.gone = @ \cup {s[2]}]
  <2>5. /\ v \in Call /\ v.pc = "loop" /\ v.m = q.m /\ v.agent = q.agent /\ v.look = q.look
        /\ v.woken = q.woken /\ v.dirty = q.dirty
    BY <1>3, <2>2, <2>3 DEF Call
  <2> HIDE DEF v
  <2>6. CallOK(v, rows', sess', clock')
    BY <2>2, <2>3, <2>5, HoldOK DEF Pruning, Holding
  <2> QED
    BY <1>5, <2>4, <2>5, <2>6, BecomesOK DEF Moves, v
<1> QED
  BY <1>4, <1>6, <1>7

(* The client's gates.                                                     *)
LEMMA LooseMoves ==
  ASSUME Known, Writes, NEW t \in Task, task[t].pc \notin {"idle", "gate"},
         NEW r, task' = [task EXCEPT ![t] = r], r \in Call, r.pc \in {"reply", "clearing", "listed"},
         r.m = task[t].m, r.agent = task[t].agent
  PROVE  Moves(t)
<1>1. r.m \in Message /\ r.agent \in Agent
  BY MineOwn
<1>2. CallOK(r, rows', sess', clock')
  BY <1>1 DEF CallOK, Early, Holding, Pruning, Sweeping
<1> QED
  BY <1>2, BecomesOK DEF Moves

LEMMA GateSteps ==
  ASSUME Known, NEW t \in Task,
         \/ AskToClear(t) \/ ClientAnswers(t) \/ CallFails(t) \/ AskForGates(t) \/ JudgeGate(t)
  PROVE  Moves(t)
<1>1. Writes
  BY SilentOK DEF Known, AskToClear, ClientAnswers, CallFails, AskForGates, JudgeGate, store
<1>2. task[t].pc \in Pcs \ {"idle", "gate"}
  BY DEF AskToClear, ClientAnswers, CallFails, AskForGates, JudgeGate, Pcs
<1>3. task[t] \in Call /\ task[t].gone \subseteq Scene /\ Cmd(t).scene \in Scene
  BY <1>2, MineOwn, InboundAssumption DEF Call, Cmd
<1>4. PICK p \in {"reply", "clearing", "listed"}, gone \in SUBSET Scene :
        task' = [task EXCEPT ![t].pc = p, ![t].gone = gone]
  <2>1. CASE AskToClear(t)
    <3>1. Vacant(rows, task[t].gone) \in SUBSET Scene
      BY <1>3 DEF Vacant
    <3> QED
      BY <2>1, <3>1 DEF AskToClear
  <2>2. CASE ClientAnswers(t)
    BY <2>2 DEF ClientAnswers
  <2>3. CASE CallFails(t)
    BY <2>3 DEF CallFails
  <2>4. CASE AskForGates(t)
    <3> DEFINE p == IF Owners(rows, Cmd(t).scene) = {} THEN "listed" ELSE "reply"
    <3>1. task' = [task EXCEPT ![t].pc = p]
      BY <2>4 DEF AskForGates
    <3>2. p \in {"reply", "clearing", "listed"}
      OBVIOUS
    <3> HIDE DEF p
    <3>3. [task EXCEPT ![t].pc = p] = [task EXCEPT ![t].pc = p, ![t].gone = task[t].gone]
      <4>1. [task[t] EXCEPT !.pc = p] = [task[t] EXCEPT !.pc = p, !.gone = task[t].gone]
        BY <1>3 DEF Call
      <4> QED
        BY <4>1 DEF Known, Calls
    <3> QED
      BY <1>3, <3>1, <3>2, <3>3
  <2>5. CASE JudgeGate(t)
    <3> DEFINE x == Cmd(t).scene
               go == gate[x] # NoGate /\ (Leftover(gate[x], old) \/ Cmd(t).force) /\ Owners(rows, x) = {}
    <3>1. task' = [task EXCEPT ![t].pc = IF go THEN "clearing" ELSE "reply",
                               ![t].gone = IF go THEN {x} ELSE {}]
      BY <2>5 DEF JudgeGate
    <3> HIDE DEF go
    <3> QED
      BY <1>3, <3>1
  <2> QED
    BY <2>1, <2>2, <2>3, <2>4, <2>5
<1> DEFINE r == [task[t] EXCEPT !.pc = p, !.gone = gone]
<1>5. task' = [task EXCEPT ![t] = r]
  BY <1>3, <1>4 DEF Known, Calls, Call
<1>6. r \in Call /\ r.pc = p /\ r.m = task[t].m /\ r.agent = task[t].agent
  BY <1>3 DEF Call, Pcs
<1> HIDE DEF r
<1> QED
  BY <1>1, <1>2, <1>5, <1>6, LooseMoves

(* The sweep of host sessions.                                             *)
LEMMA ListMoves ==
  ASSUME Known, NEW t \in Task, ListSessions(t)
  PROVE  Moves(t)
<1>1. Writes
  BY SilentOK DEF Known, ListSessions, store
<1>2. task[t].pc = "command"
  BY DEF ListSessions
<1>3. /\ task[t] \in Call /\ task[t].m \in Message /\ task[t].agent \in Agent /\ old \in Nat
      /\ task[t].look = [s \in Slot |-> NoLook] /\ task[t].woken = {} /\ task[t].dirty = {}
      /\ clock \in Nat
  BY <1>2, MineOwn DEF CallOK, Early, Known, Stores
<1>4. PICK quiet \in SUBSET Own :
        task' = [task EXCEPT ![t].pc = IF quiet = {} THEN "reply" ELSE "sweep",
                             ![t].todo = quiet, ![t].old = old]
  <2>1. \A agents : QuietSessions(sess, agents, old) \in SUBSET Own
    BY DEF QuietSessions, Known, Stores
  <2> QED
    BY <2>1 DEF ListSessions
<1> DEFINE p == IF quiet = {} THEN "reply" ELSE "sweep"
           r == [task[t] EXCEPT !.pc = p, !.todo = quiet, !.old = old]
<1>5. task' = [task EXCEPT ![t] = r]
  BY <1>3, <1>4 DEF Known, Calls, Call
<1>6. p \in {"reply", "sweep"} /\ p \in Pcs
  BY DEF Pcs
<1> HIDE DEF p
<1>7. /\ r \in Call /\ r.pc = p /\ r.m = task[t].m /\ r.agent = task[t].agent /\ r.todo = quiet
      /\ r.look = task[t].look /\ r.woken = {} /\ r.dirty = {}
  BY <1>3, <1>6, AgentsOwn DEF Call
<1> HIDE DEF r
<1>8. \A s \in Slot : SessKnown(r, s, sess, clock)
  BY <1>3, <1>7 DEF SessKnown, NoLook
<1>9. CallOK(r, rows, sess, clock)
  BY <1>3, <1>6, <1>7, <1>8 DEF CallOK, Early, Holding, Pruning, Sweeping
<1>10. CallOK(r, rows', sess', clock')
  BY <1>1, <1>7, <1>9, KeptOK DEF Known
<1> QED
  BY <1>1, <1>5, <1>7, <1>10, BecomesOK DEF Moves

LEMMA ReadAgainMoves ==
  ASSUME Known, NEW t \in Task, NEW s \in Own, ReadAgain(t, s)
  PROVE  Moves(t)
<1>1. Writes
  BY SilentOK DEF Known, ReadAgain, store
<1>2. task[t].pc = "sweep" /\ s \in task[t].todo /\ s \in Slot
  BY AgentsOwn DEF ReadAgain
<1>3. /\ task[t] \in Call /\ task[t].m \in Message /\ task[t].agent \in Agent
      /\ CallOK(task[t], rows, sess, clock) /\ sess[s] \in Session /\ clock \in Nat
      /\ sess[s] = NoSession \/ sess[s].upd \in 1..clock
  BY <1>2, MineOwn DEF Known, Stores
<1> DEFINE read == ByIndex(NoLook, sess[s])
           look == [task[t].look EXCEPT ![s] = read]
           dirty == task[t].dirty \ {s}
           r == [task[t] EXCEPT !.pc = "sweeping", !.row = s, !.dirty = dirty, !.look = look]
<1>4. NoLook \in Look /\ NoLook.upd = 0
  BY DEF NoLook, Look
<1>5. /\ read \in Look /\ read.upd <= clock
      /\ read.node \in {"alive", "archived"} => read.upd # 0
  BY <1>3, <1>4, ReadingOK
<1>6. task' = [task EXCEPT ![t] = Done(t, s, "sweep")] \/ task' = [task EXCEPT ![t] = r]
  <2>1. [task[t] EXCEPT !.pc = "sweeping", !.row = s, !.dirty = @ \ {s},
                        !.look[s] = ByIndex(NoLook, sess[s])] = r
    BY <1>3 DEF Call
  <2> HIDE DEF r
  <2> QED
    BY <2>1 DEF ReadAgain
<1>7. CASE task' = [task EXCEPT ![t] = Done(t, s, "sweep")]
  BY <1>1, <1>2, <1>7, RowEnds DEF Sweeping
<1>8. CASE task' = [task EXCEPT ![t] = r]
  <2> HIDE DEF read
  <2>1. /\ look \in [Slot -> Look] /\ look[s] = read
        /\ \A u \in Slot : u # s => look[u] = task[t].look[u]
    BY <1>2, <1>3, <1>5 DEF Call
  <2> HIDE DEF look
  <2>2. /\ r \in Call /\ r.pc = "sweeping" /\ r.m = task[t].m /\ r.agent = task[t].agent
        /\ r.look = look /\ r.dirty = dirty /\ r.row = s /\ r.todo = task[t].todo
    BY <1>2, <1>3, <2>1 DEF Call, Pcs
  <2> HIDE DEF r
  <2>3. ASSUME NEW u \in Slot PROVE SessKnown(r, u, sess, clock)
    <3>1. SessKnown(task[t], u, sess, clock)
      BY <1>2, <1>3 DEF CallOK, Sweeping
    <3> QED
      BY <1>5, <2>1, <2>2, <3>1 DEF SessKnown
  <2>4. r.todo \subseteq Own
    BY <1>2, <1>3, <2>2 DEF CallOK, Sweeping
  <2>5. CallOK(r, rows, sess, clock)
    BY <1>3, <2>2, <2>3, <2>4 DEF CallOK, Early, Holding, Pruning, Sweeping
  <2>6. CallOK(r, rows', sess', clock')
    BY <1>1, <2>2, <2>5, KeptOK DEF Known
  <2> QED
    BY <1>1, <1>8, <2>2, <2>6, BecomesOK DEF Moves
<1> QED
  BY <1>6, <1>7, <1>8

LEMMA SweepMoves ==
  ASSUME Known, NEW t \in Task, SweepSession(t)
  PROVE  Moves(t)
<1> DEFINE s == task[t].row
<1>1. task[t].pc = "sweeping" /\ task[t].pc \in Sweeping
  BY DEF SweepSession, Sweeping
<1>2. task[t] \in Call /\ s \in Own /\ s \in Slot
  BY <1>1, AgentsOwn DEF Known, Calls, CallOK
<1>3. UNCHANGED <<rows, clock>> /\ sess' \in {sess, [sess EXCEPT ![s] = NoSession]}
  BY DEF SweepSession
<1>4. Writes
  <2>1. sess \in [Own -> Session] /\ clock \in Nat /\ NoSession \in Session
    BY DEF Known, Stores, NoSession, Session
  <2>2. /\ sess' \in [Own -> Session]
        /\ \A u \in Own : sess'[u] \in {sess[u], NoSession}
    BY <1>3, <2>1
  <2> QED
    BY <1>3, <2>1, <2>2 DEF Known, Stores, Writes, Stamped, Signed
<1>5. Becomes(t, Done(t, s, "sweep"))
  BY DEF SweepSession
<1> HIDE DEF s
<1> QED
  BY <1>1, <1>2, <1>4, <1>5, RowEnds

LEMMA SweepEndsMoves ==
  ASSUME Known, NEW t \in Task, SweepEnds(t)
  PROVE  Moves(t)
<1>1. Writes
  BY SilentOK DEF Known, SweepEnds, store
<1> QED
  BY <1>1, GoesOn DEF SweepEnds, Pcs

(* Every step of a call keeps what the calls know.                         *)
LEMMA TaskMoves ==
  ASSUME Known, window \in [Keys -> Nat], NEW t \in Task, TaskSteps(t)
  PROVE  Moves(t)
BY QuietSteps, SessionSteps, ReceiveMoves, AdmitMoves, RefreshMoves, SceneCommandMoves,
   InspectMoves, ReadSessionMoves, JudgeMoves, PickMoves, DeleteSessionMoves, PurgeMoves,
   DropMoves, GateSteps, ListMoves, ReadAgainMoves, SweepMoves, SweepEndsMoves DEF TaskSteps

World == \/ ClientIsLate \/ TimePasses
         \/ \E k \in Keys : WindowEnds(k)
         \/ \E s \in Own : HostActs(s)
         \/ \E x \in Scene : GateOpens(x)

LEMMA WorldMoves ==
  ASSUME Known, World
  PROVE  /\ Writes
         /\ task' = [u \in Task |-> task'[u]]
         /\ \A u \in Task : task'[u] \in {task[u], News(task[u], WroteRows, WroteSess)}
<1>1. CASE ClientIsLate \/ TimePasses \/ \E k \in Keys : WindowEnds(k)
  <2>1. Writes
    BY <1>1, SilentOK DEF Known, ClientIsLate, TimePasses, WindowEnds, store
  <2>2. task' = task
    BY <1>1 DEF ClientIsLate, TimePasses, WindowEnds
  <2> QED
    BY <2>1, <2>2 DEF Known, Calls
<1>2. CASE \E x \in Scene : GateOpens(x)
  <2>1. Tick /\ rows' = rows /\ sess' = sess /\ task' = task
    BY <1>2 DEF GateOpens, store
  <2>2. Stamped(rows, rows', clock + 1)
    BY <2>1 DEF Known, Stores, Stamped
  <2>3. Writes
    BY <2>1, <2>2, TickOK, SessionWrites DEF Known
  <2> QED
    BY <2>1, <2>3 DEF Known, Calls
<1>3. CASE \E s \in Own : HostActs(s)
  <2>1. PICK s \in Own : HostActs(s)
    BY <1>3
  <2>2. /\ Tick /\ rows' = rows /\ Others
        /\ sess' \in {Interacted(s), [Recorded(s) EXCEPT ![s].archived = ~@],
                      [sess EXCEPT ![s] = NoSession]}
    BY <2>1 DEF HostActs
  <2>3. Stamped(rows, rows', clock + 1)
    BY <2>2 DEF Known, Stores, Stamped
  <2>4. Signed(sess, sess', clock + 1)
    BY <2>2, SessionWrites DEF Known
  <2>5. Writes
    BY <2>2, <2>3, <2>4, TickOK DEF Known
  <2> QED
    BY <2>2, <2>5 DEF Others
<1> QED
  BY <1>1, <1>2, <1>3 DEF World

LEMMA NextCases ==
  ASSUME Next
  PROVE  (\E t \in Task : TaskSteps(t)) \/ World
BY DEF Next, World

LEMMA KnownKept ==
  ASSUME Known, window \in [Keys -> Nat], [Next]_vars
  PROVE  Known'
<1>1. CASE \E t \in Task : TaskSteps(t)
  <2>1. PICK t \in Task : TaskSteps(t)
    BY <1>1
  <2>2. Moves(t)
    BY <2>1, TaskMoves
  <2>3. old' = old
    BY <2>1 DEF TaskSteps, Receive, Refuse, Admit, RejectStop, RunNative, NativeEnds, RunChat,
       OnlyRecord, Queue, TurnBegins, TurnEnds, RunLocal, Refresh, SceneCommand, NotAllowed,
       ResetRefused, Reset, ResetEnds, Reply, Inspect, Judge, Pick, DeleteSession, Purge, PurgeEnds,
       Drop, AskToClear, ClientAnswers, CallFails, AskForGates, JudgeGate, ListSessions,
       SweepSession, SweepEnds, ReadSession, ReadAgain
  <2> QED
    BY <2>2, <2>3, CallsKept DEF Known
<1>2. CASE World
  <2>1. /\ Writes /\ task' = [u \in Task |-> task'[u]]
        /\ \A u \in Task : task'[u] \in {task[u], News(task[u], WroteRows, WroteSess)}
    BY <1>2, WorldMoves
  <2>2. Stores'
    BY <2>1, StoresKept DEF Known
  <2>3. ASSUME NEW u \in Task PROVE task'[u] \in Call /\ CallOK(task'[u], rows', sess', clock')
    BY <2>1, KeptOK, HeardOK DEF Known, Calls
  <2>4. task' \in [Task -> Call]
    BY <2>1, <2>3
  <2>5. old' \in Nat
    BY <1>2 DEF World, ClientIsLate, TimePasses, WindowEnds, HostActs, GateOpens, Known, Stores
  <2> QED
    BY <2>2, <2>3, <2>4, <2>5 DEF Known, Calls
<1>3. CASE UNCHANGED vars
  BY <1>3 DEF vars, dedupe, store, client, Known, Stores, Calls
<1> QED
  BY <1>1, <1>2, <1>3, NextCases

-----------------------------------------------------------------------------
(* The other variables.                                                    *)

Senders == {m.from : m \in Message}
Sent == [key : Keys, win : Nat, copy : {m.copy : m \in Message}, admin : BOOLEAN, open : BOOLEAN]
Ghosts == [sent : SUBSET Sent, open : SUBSET Scene, admins : SUBSET Senders]
Rest ==
  /\ art \in [Own -> BOOLEAN] /\ hist \in [Scene -> BOOLEAN]
  /\ gate \in [Scene -> Gate] /\ late \subseteq Scene
  /\ seen \in [Keys -> BOOLEAN] /\ window \in [Keys -> Nat]
  /\ elevated \subseteq Senders /\ ghost \in Ghosts

(* Routes, histories and gates after a step of call t.                     *)
Traces(t) ==
  /\ \/ art' = art
     \/ art' = [art EXCEPT ![Mine(t)] = TRUE]
     \/ art' = [s \in Own |-> art[s] /\ s \notin Artifacts(task[t].row)]
  /\ hist' = hist \/ \E x : \E b \in BOOLEAN : hist' = [hist EXCEPT ![x] = b]
  /\ gate' \in {gate, Cleared(task[t].gone)} /\ late' \in {late, late \cup task[t].gone}

(* Most steps leave the acceptance of messages and the rights alone.       *)
Plain(t) ==
  /\ UNCHANGED <<rows, seen, window, elevated, ghost>>
  /\ task[t].pc # "native" /\ task'[t].pc \notin {"gate", "native"}
  /\ Traces(t)

PlainStep(t) ==
  \/ Refuse(t) \/ RejectStop(t) \/ RunChat(t) \/ OnlyRecord(t) \/ Queue(t) \/ TurnBegins(t)
  \/ TurnEnds(t) \/ RunLocal(t) \/ NotAllowed(t) \/ ResetRefused(t) \/ Reset(t) \/ ResetEnds(t)
  \/ Reply(t) \/ Inspect(t) \/ Judge(t) \/ Pick(t) \/ DeleteSession(t) \/ Purge(t) \/ PurgeEnds(t)
  \/ AskToClear(t) \/ ClientAnswers(t) \/ CallFails(t) \/ AskForGates(t) \/ JudgeGate(t)
  \/ ListSessions(t) \/ SweepSession(t) \/ SweepEnds(t)
  \/ \E s \in Own : ReadSession(t, s) \/ ReadAgain(t, s)

LEMMA PcOf ==
  ASSUME Known, NEW t \in Task
  PROVE  /\ Idle.pc = "idle"
         /\ \A p : At(t, p).pc = p
         /\ \A s, p : Done(t, s, p).pc = p /\ [Done(t, s, p) EXCEPT !.gone = @ \cup {s[2]}].pc = p
         /\ \A q : \/ Becomes(t, q)
                   \/ task' = [task EXCEPT ![t] = q]
                   => task'[t].pc = q.pc
<1>1. task[t] \in Call /\ task \in [Task -> Call]
  BY DEF Known, Calls
<1>2. \A p : At(t, p).pc = p
  BY <1>1 DEF At, Call
<1>3. \A s, p : Done(t, s, p).pc = p /\ [Done(t, s, p) EXCEPT !.gone = @ \cup {s[2]}].pc = p
  BY <1>1 DEF Done, Call
<1>4. ASSUME NEW q, Becomes(t, q) \/ task' = [task EXCEPT ![t] = q] PROVE task'[t].pc = q.pc
  BY <1>1, <1>4 DEF Becomes
<1> QED
  BY <1>2, <1>3, <1>4 DEF Idle

(* Where a step leads.                                                     *)
LEMMA Places ==
  ASSUME Known, NEW t \in Task
  PROVE  /\ PlainStep(t) => task'[t].pc \notin {"gate", "native"}
         /\ PlainStep(t) /\ task'[t].pc = "clearing" => AskToClear(t) \/ JudgeGate(t)
<1>0. task[t] \in Call /\ task \in [Task -> Call]
  BY DEF Known, Calls
<1> DEFINE Safe == Pcs \ {"gate", "native", "clearing"}
<1>1. Refuse(t) \/ RejectStop(t) \/ RunChat(t) \/ OnlyRecord(t) => task'[t].pc \in Safe
  BY PcOf DEF Refuse, RejectStop, RunChat, OnlyRecord, Pcs
<1>2. Queue(t) \/ TurnBegins(t) \/ TurnEnds(t) \/ RunLocal(t) => task'[t].pc \in Safe
  BY PcOf DEF Queue, TurnBegins, TurnEnds, RunLocal, Pcs
<1>3. NotAllowed(t) \/ ResetRefused(t) \/ Reset(t) \/ ResetEnds(t) \/ Reply(t) => task'[t].pc \in Safe
  BY PcOf DEF NotAllowed, ResetRefused, Reset, ResetEnds, Reply, Pcs
<1>4. ASSUME Inspect(t) PROVE task'[t].pc \in Safe
  <2>1. task'[t].pc \in {"reply", "inspecting"}
    BY <1>0, <1>4 DEF Inspect, At, Call
  <2> QED
    BY <2>1 DEF Pcs
<1>5. ASSUME Judge(t) PROVE task'[t].pc \in Safe
  <2>1. PICK v : task' = [task EXCEPT ![t].pc = IF v = {} THEN "reply" ELSE "loop", ![t].todo = v]
    BY <1>5 DEF Judge
  <2>2. task'[t].pc \in {"reply", "loop"}
    BY <1>0, <2>1 DEF Call
  <2> QED
    BY <2>2 DEF Pcs
<1>6. ASSUME ListSessions(t) PROVE task'[t].pc \in Safe
  <2>1. PICK v : task' = [task EXCEPT ![t].pc = IF v = {} THEN "reply" ELSE "sweep",
                                      ![t].todo = v, ![t].old = old]
    BY <1>6 DEF ListSessions
  <2>2. task'[t].pc \in {"reply", "sweep"}
    BY <1>0, <2>1 DEF Call
  <2> QED
    BY <2>2 DEF Pcs
<1>7. ASSUME Pick(t) PROVE task'[t].pc \in Safe
  <2>1. PICK s : \/ task' = [task EXCEPT ![t] = [task[t] EXCEPT !.pc = "deleting", !.row = s]]
                \/ task' = [task EXCEPT ![t] = Done(t, s, "loop")]
    BY <1>7 DEF Pick
  <2> DEFINE q == [task[t] EXCEPT !.pc = "deleting", !.row = s]
  <2>2. q.pc = "deleting"
    BY <1>0 DEF Call
  <2>3. task' = [task EXCEPT ![t] = q] \/ task' = [task EXCEPT ![t] = Done(t, s, "loop")]
    BY <2>1
  <2> HIDE DEF q
  <2>4. task'[t].pc \in {"deleting", "loop"}
    BY <2>2, <2>3, PcOf
  <2> QED
    BY <2>4 DEF Pcs
<1>8. Purge(t) \/ PurgeEnds(t) \/ SweepEnds(t) => task'[t].pc \in Safe
  BY PcOf DEF Purge, PurgeEnds, SweepEnds, Pcs
<1>9. ASSUME DeleteSession(t) \/ SweepSession(t) PROVE task'[t].pc \in Safe
  <2>1. \/ Becomes(t, At(t, "deleted"))
        \/ \E p \in {"loop", "sweep"} : Becomes(t, Done(t, task[t].row, p))
    BY <1>9 DEF DeleteSession, SweepSession
  <2> QED
    BY <2>1, PcOf DEF Pcs
<1>10. ClientAnswers(t) \/ CallFails(t) \/ AskForGates(t) => task'[t].pc \in Safe
  BY <1>0 DEF ClientAnswers, CallFails, AskForGates, Pcs, Call
<1>11. AskToClear(t) => task'[t].pc \in {"reply", "clearing"}
  BY <1>0 DEF AskToClear, Call
<1>12. JudgeGate(t) => task'[t].pc \in {"reply", "clearing"}
  BY <1>0 DEF JudgeGate, Call
<1>13. ASSUME NEW s \in Own, ReadSession(t, s) PROVE task'[t].pc \in Safe
  <2>1. task[t].pc = "inspecting" /\ \E read :
          task' = [task EXCEPT ![t].look[s] = read, ![t].todo = @ \ {s}, ![t].dirty = @ \ {s}]
    BY <1>13 DEF ReadSession
  <2>2. task'[t].pc = "inspecting"
    BY <1>0, <2>1 DEF Call
  <2> QED
    BY <2>2 DEF Pcs
<1>14. ASSUME NEW s \in Own, ReadAgain(t, s) PROVE task'[t].pc \in Safe
  <2> DEFINE fresh == [task[t] EXCEPT !.pc = "sweeping", !.row = s, !.dirty = @ \ {s},
                                      !.look[s] = ByIndex(NoLook, sess[s])]
  <2>1. task' = [task EXCEPT ![t] = Done(t, s, "sweep")] \/ task' = [task EXCEPT ![t] = fresh]
    BY <1>14 DEF ReadAgain
  <2>2. fresh.pc = "sweeping"
    BY <1>0 DEF Call
  <2> HIDE DEF fresh
  <2> QED
    BY <2>1, <2>2, PcOf DEF Pcs
<1> QED
  BY <1>1, <1>2, <1>3, <1>4, <1>5, <1>7, <1>8, <1>9, <1>10, <1>11, <1>12, <1>13, <1>14, <1>6
  DEF PlainStep

LEMMA PlainSteps ==
  ASSUME Known, NEW t \in Task, PlainStep(t), hist \in [Scene -> BOOLEAN]
  PROVE  Plain(t)
<1>1. UNCHANGED <<rows, seen, window, elevated, ghost>> /\ task[t].pc # "native"
  BY DEF PlainStep, Resets, Refuse, RejectStop, RunChat, OnlyRecord, Queue, TurnBegins, TurnEnds,
     RunLocal, NotAllowed, ResetRefused, Reset, ResetEnds, Reply, Inspect, Judge, Pick,
     DeleteSession, Purge, PurgeEnds, AskToClear, ClientAnswers, CallFails, AskForGates, JudgeGate,
     ListSessions, SweepSession, SweepEnds, ReadSession, ReadAgain, dedupe, store, client
<1>2. /\ gate' \in {gate, Cleared(task[t].gone)} /\ late' \in {late, late \cup task[t].gone}
      /\ \/ art' = art
         \/ art' = [art EXCEPT ![Mine(t)] = TRUE]
         \/ art' = [s \in Own |-> art[s] /\ s \notin Artifacts(task[t].row)]
  BY DEF PlainStep, Refuse, RejectStop, RunChat, OnlyRecord, Queue, TurnBegins, TurnEnds,
     RunLocal, NotAllowed, ResetRefused, Reset, ResetEnds, Reply, Inspect, Judge, Pick,
     DeleteSession, Purge, PurgeEnds, AskToClear, ClientAnswers, CallFails, AskForGates, JudgeGate,
     ListSessions, SweepSession, SweepEnds, ReadSession, ReadAgain, dedupe, store, client, Remember
<1>3. \/ OnlyRecord(t) \/ hist' = hist
      \/ \E x : \E b \in BOOLEAN : hist' = [hist EXCEPT ![x] = b]
  BY DEF PlainStep, Refuse, RejectStop, RunChat, Queue, TurnBegins, TurnEnds,
     RunLocal, NotAllowed, ResetRefused, Reset, ResetEnds, Reply, Inspect, Judge, Pick,
     DeleteSession, Purge, PurgeEnds, AskToClear, ClientAnswers, CallFails, AskForGates, JudgeGate,
     ListSessions, SweepSession, SweepEnds, ReadSession, ReadAgain, store
<1>4. OnlyRecord(t) => \E x : \E b \in BOOLEAN : hist' = [hist EXCEPT ![x] = b]
  <2> SUFFICES ASSUME OnlyRecord(t) PROVE \E x : \E b \in BOOLEAN : hist' = [hist EXCEPT ![x] = b]
    OBVIOUS
  <2> DEFINE x == task[t].m.scene
             b == hist[x] \/ task[t].answer = "context"
  <2>1. x \in Scene
    BY MineOwn DEF OnlyRecord
  <2>2. hist' = [hist EXCEPT ![x] = b] /\ b \in BOOLEAN
    BY <2>1 DEF OnlyRecord
  <2> HIDE DEF x, b
  <2> QED
    BY <2>2
<1> QED
  BY <1>1, <1>2, <1>3, <1>4, Places DEF Plain, Traces

(* A prune and a sweep delete nothing that was written since they looked:  *)
(* the row would not match, the host would refuse.                         *)
LEMMA AwakeStep ==
  ASSUME Known, NEW t \in Task, task[t].pc \in {"dropping", "purging"}, Matches(t, task[t].row)
  PROVE  task[t].row \notin task[t].woken
<1> DEFINE s == task[t].row
<1>1. task[t].pc \in Pruning /\ task[t].pc \in Holding
  BY DEF Pruning, Holding
<1>2. task[t] \in Call /\ CallOK(task[t], rows, sess, clock) /\ s \in Slot
  BY <1>1, PruningCall
<1>3. RowKnown(task[t], s, rows, clock)
  BY <1>1, <1>2 DEF CallOK
<1>4. rows[s] # NoRow /\ rows[s].at = task[t].look[s].at /\ rows[s].at \in Nat
  BY <1>2 DEF Matches, StillMatches, Known, Stores, Registry, Row, NoRow
<1> QED
  BY <1>3, <1>4 DEF RowKnown

LEMMA SpareStep ==
  ASSUME Known, NEW t \in Task, task[t].pc \in {"deleting", "sweeping"},
         Guarded(task[t].look[task[t].row]),
         sess[task[t].row] # NoSession, Expected(sess[task[t].row], task[t].look[task[t].row])
  PROVE  task[t].row \notin task[t].dirty
<1> DEFINE s == task[t].row
           l == task[t].look[s]
<1>1. task[t] \in Call /\ CallOK(task[t], rows, sess, clock)
  BY DEF Known, Calls
<1>2. s \in Slot
  BY <1>1, AgentsOwn DEF CallOK, Holding
<1>3. SessKnown(task[t], s, sess, clock)
  BY <1>1, <1>2 DEF CallOK, Pruning, Sweeping, Holding
<1>4. l.upd # 0 /\ l.upd \in Nat
  BY <1>1, <1>2, <1>3 DEF SessKnown, Guarded, Call, Look
<1>5. sess[s].upd = l.upd
  BY <1>4 DEF Expected
<1> QED
  BY <1>3, <1>4, <1>5 DEF SessKnown

LEMMA OthersStay ==
  ASSUME Known, NEW t \in Task, OthersHear(t), NEW u \in Task \ {t}
  PROVE  task'[u].pc = task[u].pc /\ task'[u].m = task[u].m /\ task'[u].win = task[u].win
BY NewsShape DEF Known, Calls, OthersHear

(* Who can be where: the steps that act on what a call holds.              *)
LEMMA Actors ==
  ASSUME NEW t \in Task, TaskSteps(t)
  PROVE  /\ task[t].pc = "dropping" => Drop(t)
         /\ task[t].pc = "purging" => PurgeEnds(t)
         /\ task[t].pc = "deleting" => DeleteSession(t)
         /\ task[t].pc = "sweeping" => SweepSession(t)
BY DEF TaskSteps, Free, Resets, Receive, Refuse, Admit, RejectStop, RunNative, NativeEnds, RunChat,
   OnlyRecord, Queue, TurnBegins, TurnEnds, RunLocal, Refresh, SceneCommand, NotAllowed,
   ResetRefused, Reset, ResetEnds, Reply, Inspect, Judge, Pick, Purge, PurgeEnds,
   AskToClear, ClientAnswers, CallFails, AskForGates, JudgeGate, ListSessions,
   SweepEnds, ReadSession, ReadAgain, Drop, DeleteSession, SweepSession

(* A gate is cleared only for scenes that have no row then.                *)
LEMMA Clearing ==
  ASSUME Known, NEW t \in Task, TaskSteps(t), task[t].pc # "clearing", task'[t].pc = "clearing"
  PROVE  \A x \in task'[t].gone : Owners(rows, x) = {}
<1>0. task[t] \in Call /\ task \in [Task -> Call]
  BY DEF Known, Calls
<1>1. CASE AskToClear(t)
  <2>1. task'[t].gone = Vacant(rows, task[t].gone)
    BY <1>0, <1>1 DEF AskToClear, Call
  <2> QED
    BY <2>1 DEF Vacant
<1>2. CASE JudgeGate(t)
  <2> DEFINE x == Cmd(t).scene
             go == gate[x] # NoGate /\ (Leftover(gate[x], old) \/ Cmd(t).force) /\ Owners(rows, x) = {}
  <2>1. task' = [task EXCEPT ![t].pc = IF go THEN "clearing" ELSE "reply",
                             ![t].gone = IF go THEN {x} ELSE {}]
    BY <1>2 DEF JudgeGate
  <2>2. go => Owners(rows, x) = {}
    OBVIOUS
  <2> HIDE DEF go, x
  <2>3. task'[t].gone = IF go THEN {x} ELSE {}
    BY <1>0, <2>1 DEF Call
  <2> QED
    BY <2>2, <2>3
<1>3. CASE PlainStep(t) /\ ~AskToClear(t) /\ ~JudgeGate(t)
  BY <1>3, Places
<1>4. CASE \E m \in Message : Receive(t, m)
  <2>1. PICK m : Receive(t, m)
    BY <1>4
  <2> DEFINE q == [Idle EXCEPT !.pc = "gate", !.m = m, !.win = window[m.key]]
  <2>2. q.pc = "gate"
    BY DEF Idle
  <2>3. task' = task \/ task' = [task EXCEPT ![t] = q]
    BY <2>1 DEF Receive
  <2> HIDE DEF q
  <2> QED
    BY <2>2, <2>3, PcOf
<1>5. CASE RunNative(t) \/ NativeEnds(t) \/ Refresh(t) \/ SceneCommand(t)
  <2>1. \E p \in {"native", "prepared", "command", "reply", "idle"} : task'[t].pc = p
    <3>1. CASE NativeEnds(t)
      <4>1. task' = [task EXCEPT ![t] = Idle] \/ task' = [task EXCEPT ![t] = At(t, "prepared")]
        BY <3>1 DEF NativeEnds
      <4> QED
        BY <4>1, PcOf
    <3>2. CASE RunNative(t) \/ Refresh(t) \/ SceneCommand(t)
      BY <3>2, PcOf DEF RunNative, Refresh, SceneCommand
    <3> QED
      BY <1>5, <3>1, <3>2
  <2> QED
    BY <2>1
<1>6. CASE Admit(t)
  <2>1. \A a, b : [task[t] EXCEPT !.pc = "admitted", !.agent = a, !.answer = b].pc = "admitted"
    BY <1>0 DEF Call
  <2>2. \/ Becomes(t, Idle)
        \/ \E a, b : Becomes(t, [task[t] EXCEPT !.pc = "admitted", !.agent = a, !.answer = b])
    BY <1>6 DEF Admit
  <2>3. CASE Becomes(t, Idle)
    BY <2>3, PcOf
  <2>4. CASE \E a, b : Becomes(t, [task[t] EXCEPT !.pc = "admitted", !.agent = a, !.answer = b])
    <3>1. PICK q : Becomes(t, q) /\ q.pc = "admitted"
      BY <2>1, <2>4
    <3> QED
      BY <3>1, PcOf
  <2> QED
    BY <2>2, <2>3, <2>4
<1>7. CASE Drop(t)
  <2> DEFINE q == Done(t, task[t].row, "loop")
             v == [q EXCEPT !.gone = @ \cup {task[t].row[2]}]
  <2>1. Becomes(t, q) \/ Becomes(t, v)
    BY <1>7 DEF Drop
  <2>2. q.pc = "loop" /\ v.pc = "loop"
    BY PcOf
  <2> HIDE DEF q, v
  <2> QED
    BY <2>1, <2>2, PcOf
<1> QED
  BY <1>1, <1>2, <1>3, <1>4, <1>5, <1>6, <1>7 DEF TaskSteps, PlainStep

(* The row a prune deletes: the one it judged, if that has an owner, else  *)
(* the newest of its scene.                                                *)
LEMMA DropHits ==
  ASSUME Known, NEW t \in Task, Drop(t), rows' # rows
  PROVE  \A s \in WroteRows :
           \/ s = task[t].row
           \/ ~Owned(task[t].row) /\ s[2] = task[t].row[2] /\ s[1] \in Newest(rows, s[2])
<1>1. task[t].pc \in Pruning /\ task[t].pc \in Holding
  BY DEF Drop, Pruning, Holding
<1>2. task[t].row \in Slot /\ rows \in Registry
  BY <1>1, PruningCall DEF Known, Stores
<1>3. PICK o \in Owner, x \in Scene : task[t].row = <<o, x>>
  BY <1>2 DEF Slot
<1>4. rows' \in DeleteRow(rows, x, o) /\ Matches(t, <<o, x>>)
  BY <1>3 DEF Drop
<1>5. PICK k \in Hit(rows, x, o) : rows' = [rows EXCEPT ![<<k, x>>] = NoRow]
  BY <1>4 DEF DeleteRow
<1>6. \A s \in WroteRows : s = <<k, x>>
  BY <1>2, <1>5 DEF WroteRows, Registry
<1>7. o # Unowned => k = o
  <2>1. rows[<<o, x>>] # NoRow
    BY <1>4 DEF Matches, StillMatches
  <2>2. o \in Owners(rows, x)
    BY <2>1 DEF Owners
  <2> QED
    BY <1>5, <2>2 DEF Hit, Found
<1>8. o = Unowned => k \in Newest(rows, x)
  BY <1>5 DEF Hit
<1> QED
  BY <1>3, <1>6, <1>7, <1>8 DEF Owned

LEMMA AwakeOK ==
  ASSUME Known, window \in [Keys -> Nat], NEW t \in Task, TaskSteps(t), NEW u \in Task
  PROVE  LET r == task[u] IN
         /\ r.pc = "dropping" /\ rows' # rows /\ task'[u].pc = "loop" =>
              /\ r.row \notin r.woken
              /\ \A s \in WroteRows :
                   s = r.row \/ (~Owned(r.row) /\ s[2] = r.row[2] /\ s[1] \in Newest(rows, s[2]))
         /\ r.pc = "purging" /\ <<art, hist>>' # <<art, hist>> /\ task'[u].pc = "dropping" =>
              r.row \notin r.woken
         /\ r.pc # "clearing" /\ task'[u].pc = "clearing" =>
              \A x \in task'[u].gone : Owners(rows, x) = {}
<1>1. CASE u # t
  <2>1. task'[u].pc = task[u].pc
    BY <1>1, TaskMoves, OthersStay DEF Moves
  <2> QED
    BY <2>1
<1>2. CASE u = t
  <2>1. CASE task[t].pc = "dropping"
    <3>1. Drop(t) /\ (rows' # rows => Matches(t, task[t].row))
      BY <2>1, Actors DEF Drop
    <3>2. rows' # rows =>
            \A s \in WroteRows :
              \/ s = task[t].row
              \/ ~Owned(task[t].row) /\ s[2] = task[t].row[2] /\ s[1] \in Newest(rows, s[2])
      BY <2>1, <3>1, DropHits
    <3> QED
      BY <1>2, <2>1, <3>1, <3>2, AwakeStep, Clearing
  <2>2. CASE task[t].pc = "purging"
    <3>1. PurgeEnds(t) /\ (<<art, hist>>' # <<art, hist>> => Matches(t, task[t].row))
      BY <2>2, Actors DEF PurgeEnds
    <3> QED
      BY <1>2, <2>2, <3>1, AwakeStep, Clearing
  <2>3. CASE task[t].pc \notin {"dropping", "purging"}
    BY <1>2, <2>3, Clearing
  <2> QED
    BY <2>1, <2>2, <2>3
<1> QED
  BY <1>1, <1>2

LEMMA SparedOK ==
  ASSUME Known, window \in [Keys -> Nat], NEW t \in Task, TaskSteps(t), NEW u \in Task
  PROVE  LET r == task[u] IN
         r.pc \in {"deleting", "sweeping"} /\ task'[u].pc # r.pc /\ sess' # sess
           /\ Guarded(r.look[r.row]) => r.row \notin r.dirty
<1>1. CASE u # t
  <2>1. task'[u].pc = task[u].pc
    BY <1>1, TaskMoves, OthersStay DEF Moves
  <2> QED
    BY <2>1
<1>2. CASE u = t
  <2>1. CASE task[t].pc = "deleting"
    <3>1. /\ DeleteSession(t)
          /\ sess' # sess => /\ sess[task[t].row] # NoSession
                             /\ Expected(sess[task[t].row], task[t].look[task[t].row])
      BY <2>1, Actors DEF DeleteSession
    <3> QED
      BY <1>2, <2>1, <3>1, SpareStep
  <2>2. CASE task[t].pc = "sweeping"
    <3>1. /\ SweepSession(t)
          /\ sess' # sess => /\ sess[task[t].row] # NoSession
                             /\ Expected(sess[task[t].row], task[t].look[task[t].row])
      BY <2>2, Actors DEF SweepSession
    <3> QED
      BY <1>2, <2>2, <3>1, SpareStep
  <2> QED
    BY <1>2, <2>1, <2>2
<1> QED
  BY <1>1, <1>2

LEMMA WorldSpares ==
  ASSUME Known, World, NEW u \in Task
  PROVE  task'[u].pc = task[u].pc /\ task'[u].m = task[u].m /\ task'[u].win = task[u].win
BY WorldMoves, NewsShape DEF Known, Calls

-----------------------------------------------------------------------------
(* The types of the other variables.                                       *)

LEMMA GhostShape ==
  ASSUME ghost \in Ghosts
  PROVE  /\ ghost.sent \subseteq Sent /\ ghost.open \subseteq Scene /\ ghost.admins \subseteq Senders
         /\ \A reg, open : open \subseteq Scene =>
              LET g == [ghost EXCEPT !.open = StillOpen(reg, open)] IN
              /\ g \in Ghosts /\ g.open = StillOpen(reg, open)
              /\ g.sent = ghost.sent /\ g.admins = ghost.admins
         /\ \A reg, open, sent : open \subseteq Scene /\ sent \subseteq Sent =>
              LET g == [ghost EXCEPT !.open = StillOpen(reg, open), !.sent = sent] IN
              /\ g \in Ghosts /\ g.open = StillOpen(reg, open)
              /\ g.sent = sent /\ g.admins = ghost.admins
         /\ \A admins : admins \subseteq Senders =>
              LET g == [ghost EXCEPT !.admins = admins] IN
              /\ g \in Ghosts /\ g.open = ghost.open
              /\ g.sent = ghost.sent /\ g.admins = admins
<1>1. \A reg, open : open \subseteq Scene => StillOpen(reg, open) \subseteq Scene
  BY DEF StillOpen
<1> QED
  BY <1>1 DEF Ghosts

LEMMA PlainTypes ==
  ASSUME Known, Rest, NEW t \in Task, Plain(t)
  PROVE  Rest'
<1>1. art' \in [Own -> BOOLEAN]
  BY DEF Plain, Traces, Rest
<1>2. hist' \in [Scene -> BOOLEAN]
  BY DEF Plain, Traces, Rest
<1>3. task[t].gone \subseteq Scene
  BY DEF Known, Calls, Call
<1>4. gate' \in [Scene -> Gate]
  <2>1. NoGate \in Gate
    BY DEF NoGate, Gate
  <2>2. gate' = gate \/ gate' = [x \in Scene |-> IF x \in task[t].gone THEN NoGate ELSE gate[x]]
    BY DEF Plain, Traces, Cleared
  <2> QED
    BY <2>1, <2>2 DEF Rest
<1>5. late' \subseteq Scene
  BY <1>3 DEF Plain, Traces, Rest
<1> QED
  BY <1>1, <1>2, <1>4, <1>5 DEF Plain, Rest

(* A message is handed on with the window it came in.                      *)
LEMMA AdmitTypes ==
  ASSUME Known, Rest, NEW t \in Task, Admit(t)
  PROVE  \E sent, open :
           /\ ghost' = [ghost EXCEPT !.open = StillOpen(rows', open), !.sent = sent]
           /\ open \subseteq Scene /\ sent \subseteq Sent
           /\ \A x \in Scene : OpenTo(rows', x) => OpenTo(rows, x) \/ x \in open
           /\ ghost.open \subseteq open
           /\ \A a \in sent \ ghost.sent :
                /\ a.key = task[t].m.key /\ a.win = task[t].win /\ a.copy = task[t].m.copy
                /\ ~a.admin => OpenTo(rows, task[t].m.scene)
                /\ a.open <=> task[t].m.scene \in open
           /\ \A a, b \in sent \ ghost.sent : a = b
<1> DEFINE m == task[t].m
           x == m.scene
<1>1. /\ task[t] \in Call /\ task[t].pc = "gate" /\ m \in Message /\ x \in Scene
      /\ m.admin \in BOOLEAN /\ m.key \in Keys /\ task[t].win \in Nat
      /\ rows \in Registry /\ Stamp \in Nat
  BY InboundAssumption DEF Known, Calls, CallOK, Admit, Stores, Stamp, Keys, Call
<1>2. PICK a \in Proposed(m) : \E d \in Decisions(rows, x, m.admin, a, Stamp) :
        LET in == d.row.status = "allowed"
            shut == \A o \in Found(rows, x, a) : rows[<<o, x>>].status # "allowed"
            open == ghost.open \cup (IF m.admin /\ in /\ shut THEN {x} ELSE {})
            sent == [key |-> m.key, win |-> task[t].win, copy |-> m.copy, admin |-> m.admin,
                     open |-> x \in open]
        IN /\ rows' = d.rows
           /\ ghost' = [ghost EXCEPT !.open = StillOpen(d.rows, open),
                                     !.sent = IF in THEN @ \cup {sent} ELSE @]
  BY DEF Admit
<1>3. PICK d \in Decisions(rows, x, m.admin, a, Stamp) :
        LET in == d.row.status = "allowed"
            shut == \A o \in Found(rows, x, a) : rows[<<o, x>>].status # "allowed"
            open == ghost.open \cup (IF m.admin /\ in /\ shut THEN {x} ELSE {})
            sent == [key |-> m.key, win |-> task[t].win, copy |-> m.copy, admin |-> m.admin,
                     open |-> x \in open]
        IN /\ rows' = d.rows
           /\ ghost' = [ghost EXCEPT !.open = StillOpen(d.rows, open),
                                     !.sent = IF in THEN @ \cup {sent} ELSE @]
  BY <1>2
<1> DEFINE in == d.row.status = "allowed"
           open == ghost.open \cup Unlocked(rows, x, m.admin, a, d)
           new == [key |-> m.key, win |-> task[t].win, copy |-> m.copy, admin |-> m.admin,
                   open |-> x \in open]
           sent == IF in THEN ghost.sent \cup {new} ELSE ghost.sent
<1>4. /\ OpensOnly(rows, d.rows, Unlocked(rows, x, m.admin, a, d))
      /\ ~m.admin /\ in => OpenTo(rows, x)
  BY <1>1, DecisionsOK
<1>5. ghost' = [ghost EXCEPT !.open = StillOpen(rows', open), !.sent = sent]
  BY <1>3 DEF Rest, Ghosts, Unlocked, Shut
<1>6. open \subseteq Scene /\ ghost.open \subseteq open
  BY <1>1, GhostShape DEF Rest, Unlocked
<1>7. new \in Sent
  BY <1>1 DEF Sent
<1>8. sent \subseteq Sent
  BY <1>7, GhostShape DEF Rest
<1>9. \A y \in Scene : OpenTo(rows', y) => OpenTo(rows, y) \/ y \in open
  BY <1>3, <1>4 DEF OpensOnly
<1>10. /\ \A b \in sent \ ghost.sent : b = new /\ in
       /\ new.key = m.key /\ new.win = task[t].win /\ new.copy = m.copy
       /\ new.admin = m.admin /\ new.open = (x \in open)
  OBVIOUS
<1> HIDE DEF new
<1> HIDE DEF open, in, sent
<1>11. \A b \in sent \ ghost.sent :
         /\ b.key = m.key /\ b.win = task[t].win /\ b.copy = m.copy
         /\ ~b.admin => OpenTo(rows, x)
         /\ b.open <=> x \in open
  BY <1>4, <1>10
<1>12. \A b, c \in sent \ ghost.sent : b = c
  BY <1>10
<1> QED
  BY <1>5, <1>6, <1>8, <1>9, <1>11, <1>12

(* A step that changes the registry without a message opens only what the  *)
(* ghost knows of.                                                         *)
GhostOpens ==
  \E open : /\ ghost' = [ghost EXCEPT !.open = StillOpen(rows', open)]
            /\ open \subseteq Scene /\ ghost.open \subseteq open
            /\ \A x \in Scene : OpenTo(rows', x) => OpenTo(rows, x) \/ x \in open
Elsewhere(t) ==
  /\ UNCHANGED <<seen, window, art, hist, gate, late, elevated>>
  /\ task[t].pc # "native" /\ task'[t].pc \notin {"gate", "native"}

LEMMA OpenSteps ==
  ASSUME Known, Rest, NEW t \in Task, Refresh(t) \/ SceneCommand(t) \/ Drop(t)
  PROVE  Elsewhere(t) /\ (UNCHANGED <<rows, ghost>> \/ GhostOpens)
<1>0. ghost.open \subseteq Scene /\ ghost \in Ghosts
  BY GhostShape DEF Rest
<1>1. CASE Refresh(t)
  <2>1. Elsewhere(t)
    BY <1>1, PcOf DEF Refresh, Elsewhere, dedupe, store, client
  <2>2. CASE ~UNCHANGED <<rows, ghost>>
    <3>1. PICK s \in Own, status \in {"allowed", "denied"} :
            /\ rows' = [rows EXCEPT ![s] = FreshRow(s[2], status, Stamp)]
            /\ ghost' = [ghost EXCEPT !.open =
                           StillOpen(rows', IF status = "allowed" THEN @ \cup {s[2]} ELSE @)]
      BY <1>1, <2>2 DEF Refresh
    <3> DEFINE open == ghost.open \cup (IF status = "allowed" THEN {s[2]} ELSE {})
    <3>2. s[2] \in Scene
      BY DEF Own
    <3>3. OpensOnly(rows, rows', IF status = "allowed" THEN {s[2]} ELSE {})
      BY <3>1, RefreshRows
    <3>4. \A x \in Scene : OpenTo(rows', x) => OpenTo(rows, x) \/ x \in open
      BY <3>3 DEF OpensOnly
    <3>5. open \subseteq Scene /\ ghost.open \subseteq open
      BY <1>0, <3>2
    <3>6. (IF status = "allowed" THEN ghost.open \cup {s[2]} ELSE ghost.open) = open
      OBVIOUS
    <3>7. ghost' = [ghost EXCEPT !.open = StillOpen(rows', open)]
      BY <1>0, <3>1, <3>6 DEF Ghosts
    <3> HIDE DEF open
    <3> QED
      BY <2>1, <3>4, <3>5, <3>7 DEF GhostOpens
  <2> QED
    BY <2>1, <2>2
<1>2. CASE SceneCommand(t)
  <2> DEFINE m == task[t].m
             open == ghost.open \cup Opened(m.cmd, rows, rows')
  <2>1. Elsewhere(t)
    BY <1>2, PcOf DEF SceneCommand, Elsewhere, dedupe, store, client
  <2>2. m \in Message /\ m.cmd.kind \in SceneCommands /\ m.cmd.scene \in Scene
    BY <1>2, MineOwn, InboundAssumption DEF SceneCommand, Cmd
  <2>3. PICK a : /\ rows' \in Commanded(rows, m.cmd, [admin |-> m.admin, scene |-> m.scene, agent |-> a], Stamp)
                 /\ ghost' = [ghost EXCEPT !.open = StillOpen(rows',
                      IF m.cmd.kind = "allow" /\ rows' # rows THEN @ \cup {m.cmd.scene} ELSE @)]
    BY <1>2 DEF SceneCommand
  <2>4. OpensOnly(rows, rows', Opened(m.cmd, rows, rows'))
    BY <2>2, <2>3, CommandRows
  <2>5. \A x \in Scene : OpenTo(rows', x) => OpenTo(rows, x) \/ x \in open
    BY <2>4 DEF OpensOnly
  <2>6. open \subseteq Scene /\ ghost.open \subseteq open
    BY <1>0, <2>2 DEF Opened
  <2>7. ghost' = [ghost EXCEPT !.open = StillOpen(rows', open)]
    <3>1. (IF m.cmd.kind = "allow" /\ rows' # rows THEN ghost.open \cup {m.cmd.scene}
           ELSE ghost.open) = open
      BY DEF Opened
    <3> QED
      BY <1>0, <2>3, <3>1 DEF Ghosts
  <2> HIDE DEF open
  <2> QED
    BY <2>1, <2>5, <2>6, <2>7 DEF GhostOpens
<1>3. CASE Drop(t)
  <2> DEFINE s == task[t].row
             q == Done(t, s, "loop")
             v == [q EXCEPT !.gone = @ \cup {s[2]}]
  <2>1. Becomes(t, q) \/ Becomes(t, v)
    BY <1>3 DEF Drop
  <2>2. q.pc = "loop" /\ v.pc = "loop"
    BY PcOf
  <2>3. task'[t].pc = "loop"
    <3> HIDE DEF q, v
    <3> QED
      BY <2>1, <2>2, PcOf
  <2>4. Elsewhere(t)
    BY <1>3, <2>3 DEF Drop, Elsewhere, dedupe, client
  <2>5. CASE ~UNCHANGED <<rows, ghost>>
    <3>1. /\ rows' \in DeleteRow(rows, s[2], s[1])
          /\ ghost' = [ghost EXCEPT !.open = StillOpen(rows', ghost.open)]
      BY <1>3, <2>5 DEF Drop
    <3>2. task[t].pc \in Pruning /\ task[t].pc \in Holding
      BY <1>3 DEF Drop, Pruning, Holding
    <3>3. s \in Slot /\ s[1] \in Owner /\ s[2] \in Scene /\ rows \in Registry
      BY <3>2, PruningCall DEF Slot, Known, Stores
    <3>4. OpensOnly(rows, rows', {})
      BY <3>1, <3>3, DeleteRowOK
    <3> QED
      BY <1>0, <2>4, <3>1, <3>4 DEF GhostOpens, OpensOnly
  <2> QED
    BY <2>4, <2>5
<1> QED
  BY <1>1, <1>2, <1>3

LEMMA TaskCases ==
  ASSUME NEW t \in Task, TaskSteps(t)
  PROVE  \/ PlainStep(t) \/ Admit(t) \/ RunNative(t) \/ NativeEnds(t)
         \/ Refresh(t) \/ SceneCommand(t) \/ Drop(t)
         \/ \E m \in Message : Receive(t, m)
BY DEF TaskSteps, PlainStep

LEMMA NativeTypes ==
  ASSUME Known, Rest, NEW t \in Task, RunNative(t) \/ NativeEnds(t)
  PROVE  /\ Rest' /\ UNCHANGED <<rows, seen, window>>
         /\ ghost'.sent = ghost.sent /\ ghost'.open = ghost.open
         /\ task'[t].pc # "gate"
<1>1. /\ task[t].m.from \in Senders /\ ghost \in Ghosts /\ ghost.admins \subseteq Senders
  <2>1. task[t].pc \notin {"idle", "gate"}
    BY DEF RunNative, NativeEnds
  <2> QED
    BY <2>1, MineOwn, GhostShape DEF Senders, Rest
<1>2. art' \in [Own -> BOOLEAN]
  BY DEF RunNative, NativeEnds, Remember, Rest
<1>3. UNCHANGED <<rows, seen, window, hist, gate, late>>
  BY DEF RunNative, NativeEnds, dedupe
<1>4. elevated' \subseteq Senders
  BY <1>1 DEF RunNative, NativeEnds, Rest
<1>5. ghost' \in Ghosts /\ ghost'.sent = ghost.sent /\ ghost'.open = ghost.open
  <2>1. CASE ghost' = ghost
    BY <1>1, <2>1
  <2>2. CASE ghost' # ghost
    <3>1. ghost' = [ghost EXCEPT !.admins = ghost.admins \cup {task[t].m.from}]
      BY <1>1, <2>2 DEF RunNative, NativeEnds, Ghosts
    <3>2. ghost.admins \cup {task[t].m.from} \subseteq Senders
      BY <1>1
    <3> QED
      BY <1>1, <3>1, <3>2, GhostShape
  <2> QED
    BY <2>1, <2>2
<1>6. task'[t].pc \in {"native", "prepared", "idle"}
  <2>1. CASE RunNative(t)
    BY <2>1, PcOf DEF RunNative
  <2>2. CASE NativeEnds(t)
    <3>1. task' = [task EXCEPT ![t] = Idle] \/ task' = [task EXCEPT ![t] = At(t, "prepared")]
      BY <2>2 DEF NativeEnds
    <3> QED
      BY <3>1, PcOf
  <2> QED
    BY <2>1, <2>2
<1> QED
  BY <1>2, <1>3, <1>4, <1>5, <1>6 DEF Rest

LEMMA WorldTypes ==
  ASSUME Known, Rest, World
  PROVE  Rest' /\ UNCHANGED <<rows, elevated, ghost>>
<1>1. UNCHANGED <<rows, elevated, ghost, art, hist>>
  BY DEF World, ClientIsLate, TimePasses, WindowEnds, HostActs, GateOpens, store, client
<1>2. NoGate \in Gate /\ Stamp \in Nat /\ [on |-> TRUE, rev |-> Stamp] \in Gate
  BY DEF NoGate, Gate, Known, Stores, Stamp
<1>3. gate' \in [Scene -> Gate]
  BY <1>2 DEF World, ClientIsLate, TimePasses, WindowEnds, HostActs, GateOpens, client, Rest, Cleared
<1>4. late' \subseteq Scene
  BY DEF World, ClientIsLate, TimePasses, WindowEnds, HostActs, GateOpens, client, Rest
<1>5. seen' \in [Keys -> BOOLEAN] /\ window' \in [Keys -> Nat]
  <2>1. CASE TimePasses
    BY <2>1 DEF TimePasses, Rest
  <2>2. CASE \E k \in Keys : WindowEnds(k)
    <3>1. PICK k \in Keys : /\ seen' = [seen EXCEPT ![k] = FALSE]
                            /\ window' = [window EXCEPT ![k] = window[k] + 1]
      BY <2>2 DEF WindowEnds
    <3>2. window[k] + 1 \in Nat
      BY DEF Rest
    <3> QED
      BY <3>1, <3>2 DEF Rest
  <2>3. CASE ClientIsLate \/ (\E s \in Own : HostActs(s)) \/ \E x \in Scene : GateOpens(x)
    BY <2>3 DEF ClientIsLate, HostActs, GateOpens, dedupe, Rest
  <2> QED
    BY <2>1, <2>2, <2>3 DEF World
<1> QED
  BY <1>1, <1>3, <1>4, <1>5 DEF Rest

LEMMA RestKept ==
  ASSUME Known, Rest, [Next]_vars
  PROVE  Rest'
<1>1. CASE \E t \in Task : TaskSteps(t)
  <2>1. PICK t \in Task : TaskSteps(t)
    BY <1>1
  <2>2. CASE PlainStep(t)
    BY <2>2, PlainSteps, PlainTypes DEF Rest
  <2>3. CASE Admit(t)
    <3>1. UNCHANGED <<seen, window, art, hist, gate, late, elevated>>
      BY <2>3 DEF Admit, dedupe, client
    <3>2. ghost' \in Ghosts
      <4>1. PICK sent, open :
              /\ ghost' = [ghost EXCEPT !.open = StillOpen(rows', open), !.sent = sent]
              /\ open \subseteq Scene /\ sent \subseteq Sent
        BY <2>3, AdmitTypes
      <4> QED
        BY <4>1, GhostShape DEF Rest
    <3> QED
      BY <3>1, <3>2 DEF Rest
  <2>4. CASE RunNative(t) \/ NativeEnds(t)
    BY <2>4, NativeTypes
  <2>5. CASE Refresh(t) \/ SceneCommand(t) \/ Drop(t)
    <3>1. CASE GhostOpens
      <4>1. PICK open : /\ ghost' = [ghost EXCEPT !.open = StillOpen(rows', open)]
                        /\ open \subseteq Scene
        BY <3>1 DEF GhostOpens
      <4> QED
        BY <2>5, <4>1, OpenSteps, GhostShape DEF Rest, Elsewhere
    <3> QED
      BY <2>5, <3>1, OpenSteps DEF Rest, Elsewhere, GhostOpens
  <2>6. CASE \E m \in Message : Receive(t, m)
    BY <2>6 DEF Receive, Rest, store, client
  <2> QED
    BY <2>1, <2>2, <2>3, <2>4, <2>5, <2>6, TaskCases
<1>2. CASE World
  BY <1>2, WorldTypes
<1>3. CASE UNCHANGED vars
  BY <1>3 DEF vars, dedupe, store, client, Rest
<1> QED
  BY <1>1, <1>2, <1>3, NextCases

-----------------------------------------------------------------------------
(* Types, and the two properties of steps.                                 *)

Typed == Known /\ Rest

LEMMA TypedInit ==
  ASSUME Init
  PROVE  Typed
<1>1. PICK i \in DOMAIN Bounds :
        /\ rows = Bounds[i].rows /\ sess = Bounds[i].sess
        /\ ghost = [sent |-> {}, open |-> Bounds[i].open, admins |-> {}]
  BY DEF Init
<1>2. /\ rows \in Registry /\ sess \in [Own -> Session] /\ ghost.open \subseteq Scene
      /\ \A s \in Slot : rows[s].at <= 2
      /\ \A s \in Own : sess[s] = NoSession \/ sess[s].upd \in 1..2
  BY <1>1, ScenarioAssumption DEF Registry, Own
<1>3. Stores
  BY <1>2 DEF Init, Stores
<1>4. Calls
  BY IdleOK DEF Init, Calls
<1>5. ghost \in Ghosts
  BY <1>1, <1>2 DEF Ghosts
<1>6. NoGate \in Gate
  BY DEF NoGate, Gate
<1> QED
  BY <1>3, <1>4, <1>5, <1>6 DEF Init, Typed, Known, Rest

LEMMA TypedKept ==
  ASSUME Typed, [Next]_vars
  PROVE  Typed'
BY KnownKept, RestKept DEF Typed, Rest

LEMMA TypedTypes ==
  ASSUME Typed
  PROVE  TypeOK
BY DEF Typed, Known, Stores, Calls, Call, Rest, Senders, TypeOK, Registry

(* However messages, commands, prunes and the host's interface interleave, *)
(* every row, session, gate and call keeps its type: in particular the     *)
(* records a prune holds across its awaits name real rows and scenes.      *)
THEOREM InboundTypeOK == Spec => []TypeOK
<1>1. Init => Typed
  BY TypedInit
<1>2. Typed /\ [Next]_vars => Typed'
  BY TypedKept
<1>3. Typed => TypeOK
  BY TypedTypes
<1> QED
  BY <1>1, <1>2, <1>3, PTL DEF Spec

(* A prune goes through with a row only if nobody wrote it since it was    *)
(* inspected: every writer takes a later stamp, and the row is compared    *)
(* again after every await.  Then the routes, queue and history under it   *)
(* go, and the row itself if it has an owner: no other row is deleted for  *)
(* it.  For a row without owner the code deletes the newest of its scene,  *)
(* whoever owns that one and whoever has just written it, and nothing      *)
(* else.  A gate is only cleared for a scene without a row at that time.   *)
THEOREM PruneSparesAwake == Spec => AwakeSpared
<1> DEFINE Awake ==
      \A t \in Task :
        LET r == task[t] IN
        /\ r.pc = "dropping" /\ rows' # rows /\ task'[t].pc = "loop" =>
             /\ r.row \notin r.woken
             /\ \A s \in WroteRows :
                  s = r.row \/ (~Owned(r.row) /\ s[2] = r.row[2] /\ s[1] \in Newest(rows, s[2]))
        /\ r.pc = "purging" /\ <<art, hist>>' # <<art, hist>> /\ task'[t].pc = "dropping" =>
             r.row \notin r.woken
        /\ r.pc # "clearing" /\ task'[t].pc = "clearing" =>
             \A x \in task'[t].gone : Owners(rows, x) = {}
<1>1. Init => Typed
  BY TypedInit
<1>2. Typed /\ [Next]_vars => Typed'
  BY TypedKept
<1>3. Typed /\ [Next]_vars => [Awake]_vars
  <2> SUFFICES ASSUME Typed, Next PROVE Awake
    OBVIOUS
  <2>1. CASE \E t \in Task : TaskSteps(t)
    BY <2>1, AwakeOK DEF Typed, Rest
  <2>2. CASE World
    BY <2>2, WorldSpares DEF Typed
  <2> QED
    BY <2>1, <2>2, NextCases
<1> QED
  BY <1>1, <1>2, <1>3, PTL DEF Spec, AwakeSpared

(* A session is deleted only as the prune or the sweep last read it: the   *)
(* expectation that goes with the delete fails after any write.            *)
THEOREM PruneSparesSessions == Spec => SessionSpared
<1> DEFINE Spared ==
      \A t \in Task :
        LET r == task[t] IN
        r.pc \in {"deleting", "sweeping"} /\ task'[t].pc # r.pc /\ sess' # sess
          /\ Guarded(r.look[r.row]) => r.row \notin r.dirty
<1>1. Init => Typed
  BY TypedInit
<1>2. Typed /\ [Next]_vars => Typed'
  BY TypedKept
<1>3. Typed /\ [Next]_vars => [Spared]_vars
  <2> SUFFICES ASSUME Typed, Next PROVE Spared
    OBVIOUS
  <2>1. CASE \E t \in Task : TaskSteps(t)
    BY <2>1, SparedOK DEF Typed, Rest
  <2>2. CASE World
    BY <2>2, WorldSpares DEF Typed
  <2> QED
    BY <2>1, <2>2, NextCases
<1> QED
  BY <1>1, <1>2, <1>3, PTL DEF Spec, SessionSpared

-----------------------------------------------------------------------------
(* Repeated messages.                                                      *)

Gated(t) == task[t].pc = "gate"
(* A window that is spent, or one whose mark still stands.                 *)
Taken(k, w, win, marks) == w <= win[k] /\ (w = win[k] => marks[k])
Same(k, w, l, v) == k = l /\ w = v

(* Whoever is at the gate, or was handed on, took the window it came in,   *)
(* and each window was taken once.                                         *)
Marked ==
  /\ \A t \in Task : Gated(t) => Taken(task[t].m.key, task[t].win, window, seen)
  /\ \A a \in ghost.sent : Taken(a.key, a.win, window, seen)
  /\ \A t, u \in Task : Gated(t) /\ Gated(u) /\ t # u =>
       ~Same(task[t].m.key, task[t].win, task[u].m.key, task[u].win)
  /\ \A t \in Task : Gated(t) => \A a \in ghost.sent : ~Same(task[t].m.key, task[t].win, a.key, a.win)
  /\ DispatchedOnce

(* The gate and the messages handed on stay as they are, or only the gate  *)
(* loses a call.                                                           *)
GateKept ==
  /\ ghost'.sent = ghost.sent
  /\ \A t \in Task : Gated(t)' => Gated(t) /\ task'[t].m = task[t].m /\ task'[t].win = task[t].win

LEMMA GateTypes ==
  ASSUME Typed
  PROVE  /\ \A k \in Keys : window[k] \in Nat /\ seen[k] \in BOOLEAN
         /\ \A t \in Task : Gated(t) => task[t].m \in Message /\ task[t].m.key \in Keys /\ task[t].win \in Nat
         /\ \A a \in ghost.sent : a.key \in Keys /\ a.win \in Nat
<1>1. \A k \in Keys : window[k] \in Nat /\ seen[k] \in BOOLEAN
  BY DEF Typed, Rest
<1>2. \A t \in Task : Gated(t) => task[t].m \in Message /\ task[t].m.key \in Keys /\ task[t].win \in Nat
  BY DEF Typed, Known, Calls, CallOK, Call, Gated, Keys
<1>3. \A a \in ghost.sent : a.key \in Keys /\ a.win \in Nat
  BY GhostShape DEF Typed, Rest, Sent
<1> QED
  BY <1>1, <1>2, <1>3

LEMMA MarkedKept ==
  ASSUME Typed, Marked, GateKept,
         \A k \in Keys, w \in Nat : Taken(k, w, window, seen) => Taken(k, w, window', seen')
  PROVE  Marked'
<1>1. \A t \in Task : Gated(t)' => Taken(task'[t].m.key, task'[t].win, window', seen')
  BY GateTypes DEF Marked, GateKept
<1>2. \A a \in ghost'.sent : Taken(a.key, a.win, window', seen')
  BY GateTypes DEF Marked, GateKept
<1>3. DispatchedOnce'
  BY DEF Marked, GateKept, DispatchedOnce
<1> QED
  BY <1>1, <1>2, <1>3 DEF Marked, GateKept, Gated

LEMMA TakenKept ==
  ASSUME Typed, NEW k \in Keys, NEW w \in Nat, Taken(k, w, window, seen),
         \/ UNCHANGED <<seen, window>>
         \/ TimePasses
         \/ \E l \in Keys : WindowEnds(l)
  PROVE  Taken(k, w, window', seen')
<1>1. window[k] \in Nat
  BY GateTypes
<1>2. CASE TimePasses
  BY <1>1, <1>2 DEF TimePasses, Taken
<1>3. CASE \E l \in Keys : WindowEnds(l)
  <2>1. PICK l \in Keys : /\ seen[l] /\ seen' = [seen EXCEPT ![l] = FALSE]
                          /\ window' = [window EXCEPT ![l] = window[l] + 1]
    BY <1>3 DEF WindowEnds
  <2>2. CASE k = l
    <3>1. window'[k] = window[k] + 1 /\ seen'[k] = FALSE
      BY <2>1, <2>2 DEF Typed, Rest
    <3> QED
      BY <1>1, <3>1 DEF Taken
  <2>3. CASE k # l
    <3>1. window'[k] = window[k] /\ seen'[k] = seen[k]
      BY <2>1, <2>3 DEF Typed, Rest
    <3> QED
      BY <3>1 DEF Taken
  <2> QED
    BY <2>2, <2>3
<1> QED
  BY <1>2, <1>3 DEF Taken

(* A call that is not at the gate afterwards takes nothing from it.        *)
LEMMA GateLeft ==
  ASSUME Typed, NEW t \in Task, OthersHear(t), ghost'.sent = ghost.sent,
         task'[t].pc # "gate"
  PROVE  GateKept
BY OthersStay DEF GateKept, Gated, Typed

LEMMA MarkReceive ==
  ASSUME Typed, Marked, NEW t \in Task, NEW m \in Message, Receive(t, m)
  PROVE  Marked'
<1>1. /\ seen' = [seen EXCEPT ![m.key] = TRUE] /\ window' = window /\ ghost' = ghost
      /\ m.key \in Keys /\ window \in [Keys -> Nat] /\ seen \in [Keys -> BOOLEAN]
  BY DEF Receive, Typed, Rest, Keys
<1>2. ASSUME NEW k \in Keys, NEW w \in Nat, Taken(k, w, window, seen) PROVE Taken(k, w, window', seen')
  BY <1>1, <1>2 DEF Taken
<1>3. CASE seen[m.key]
  <2>1. task' = task
    BY <1>3 DEF Receive
  <2>2. GateKept
    BY <1>1, <2>1 DEF GateKept, Gated
  <2> QED
    BY <1>2, <2>2, MarkedKept
<1>4. CASE ~seen[m.key]
  <2> DEFINE r == [Idle EXCEPT !.pc = "gate", !.m = m, !.win = window[m.key]]
  <2>1. task' = [task EXCEPT ![t] = r] /\ task[t].pc = "idle"
    BY <1>4 DEF Receive, Free
  <2>2. r.pc = "gate" /\ r.m = m /\ r.win = window[m.key]
    BY DEF Idle
  <2> HIDE DEF r
  <2>3. /\ task'[t].pc = "gate" /\ task'[t].m = m /\ task'[t].win = window[m.key]
        /\ \A u \in Task \ {t} : task'[u] = task[u]
    BY <2>1, <2>2 DEF Typed, Known, Calls
  <2>4. ASSUME NEW k \in Keys, NEW w \in Nat, Taken(k, w, window, seen)
        PROVE  ~Same(k, w, m.key, window[m.key])
    BY <1>4, <2>4 DEF Taken, Same
  <2>5. Taken(m.key, window[m.key], window', seen')
    BY <1>1 DEF Taken
  <2>6. \A u \in Task : Gated(u)' => Taken(task'[u].m.key, task'[u].win, window', seen')
    <3> SUFFICES ASSUME NEW u \in Task, Gated(u)' PROVE Taken(task'[u].m.key, task'[u].win, window', seen')
      OBVIOUS
    <3>1. CASE u = t
      BY <1>1, <2>3, <2>5, <3>1 DEF Taken
    <3>2. CASE u # t
      BY <1>2, <2>3, <3>2, GateTypes DEF Marked, Gated
    <3> QED
      BY <3>1, <3>2
  <2>7. \A a \in ghost'.sent : Taken(a.key, a.win, window', seen')
    BY <1>1, <1>2, GateTypes DEF Marked
  <2>8. \A u, v \in Task : Gated(u)' /\ Gated(v)' /\ u # v =>
          ~Same(task'[u].m.key, task'[u].win, task'[v].m.key, task'[v].win)
    <3> SUFFICES ASSUME NEW u \in Task, NEW v \in Task, Gated(u)', Gated(v)', u # v
                 PROVE  ~Same(task'[u].m.key, task'[u].win, task'[v].m.key, task'[v].win)
      OBVIOUS
    <3>1. CASE u # t /\ v # t
      BY <2>3, <3>1 DEF Marked, Gated
    <3>2. CASE u = t
      <4>1. Gated(v) /\ Taken(task[v].m.key, task[v].win, window, seen)
        BY <2>3, <3>2 DEF Marked, Gated
      <4>2. ~Same(task[v].m.key, task[v].win, m.key, window[m.key])
        BY <2>4, <4>1, GateTypes
      <4> QED
        BY <2>3, <3>2, <4>2 DEF Same
    <3>3. CASE v = t
      <4>1. Gated(u) /\ Taken(task[u].m.key, task[u].win, window, seen)
        BY <2>3, <3>3 DEF Marked, Gated
      <4>2. ~Same(task[u].m.key, task[u].win, m.key, window[m.key])
        BY <2>4, <4>1, GateTypes
      <4> QED
        BY <2>3, <3>3, <4>2 DEF Same
    <3> QED
      BY <3>1, <3>2, <3>3
  <2>9. \A u \in Task : Gated(u)' => \A a \in ghost'.sent :
          ~Same(task'[u].m.key, task'[u].win, a.key, a.win)
    <3> SUFFICES ASSUME NEW u \in Task, Gated(u)', NEW a \in ghost.sent
                 PROVE  ~Same(task'[u].m.key, task'[u].win, a.key, a.win)
      BY <1>1
    <3>1. CASE u = t
      <4>1. ~Same(a.key, a.win, m.key, window[m.key])
        BY <2>4, GateTypes DEF Marked
      <4> QED
        BY <2>3, <3>1, <4>1 DEF Same
    <3>2. CASE u # t
      BY <2>3, <3>2 DEF Marked, Gated
    <3> QED
      BY <3>1, <3>2
  <2>10. DispatchedOnce'
    BY <1>1 DEF Marked, DispatchedOnce
  <2> QED
    BY <2>6, <2>7, <2>8, <2>9, <2>10 DEF Marked
<1> QED
  BY <1>3, <1>4

LEMMA MarkAdmit ==
  ASSUME Typed, Marked, NEW t \in Task, Admit(t)
  PROVE  Marked'
<1>1. PICK sent, open :
        /\ ghost' = [ghost EXCEPT !.open = StillOpen(rows', open), !.sent = sent]
        /\ open \subseteq Scene /\ sent \subseteq Sent
        /\ \A a \in sent \ ghost.sent :
             a.key = task[t].m.key /\ a.win = task[t].win /\ a.copy = task[t].m.copy
  BY AdmitTypes DEF Typed
<1>2. ghost'.sent = sent
  BY <1>1 DEF Typed, Rest, Ghosts
<1>3. Gated(t) /\ UNCHANGED <<seen, window>>
  BY DEF Admit, Gated, dedupe
<1>4. OthersHear(t) /\ task'[t].pc # "gate"
  <2>1. Moves(t)
    BY AdmitMoves DEF Typed
  <2>2. \A a, b : [task[t] EXCEPT !.pc = "admitted", !.agent = a, !.answer = b].pc = "admitted"
    BY DEF Typed, Known, Calls, Call
  <2>3. \/ Becomes(t, Idle)
        \/ \E a, b : Becomes(t, [task[t] EXCEPT !.pc = "admitted", !.agent = a, !.answer = b])
    BY DEF Admit
  <2>4. CASE Becomes(t, Idle)
    BY <2>1, <2>4, PcOf DEF Typed, Moves
  <2>5. CASE \E a, b : Becomes(t, [task[t] EXCEPT !.pc = "admitted", !.agent = a, !.answer = b])
    <3>1. PICK q : Becomes(t, q) /\ q.pc = "admitted"
      BY <2>2, <2>5
    <3> QED
      BY <2>1, <3>1, PcOf DEF Typed, Moves
  <2> QED
    BY <2>3, <2>4, <2>5
<1>5. \A u \in Task : Gated(u)' => u # t /\ Gated(u) /\ task'[u].m = task[u].m /\ task'[u].win = task[u].win
  BY <1>4, OthersStay DEF Gated, Typed
<1>6. \A u \in Task : Gated(u)' => Taken(task'[u].m.key, task'[u].win, window', seen')
  BY <1>3, <1>5 DEF Marked, Taken
<1>7. \A a \in sent : Taken(a.key, a.win, window', seen')
  BY <1>1, <1>3 DEF Marked, Taken
<1>8. \A u \in Task : Gated(u)' => \A a \in sent : ~Same(task'[u].m.key, task'[u].win, a.key, a.win)
  BY <1>1, <1>3, <1>5 DEF Marked, Same
<1>9. \A a, b \in sent : a.key = b.key /\ a.win = b.win => a.copy = b.copy
  BY <1>1, <1>3 DEF Marked, Same, DispatchedOnce
<1> QED
  BY <1>2, <1>5, <1>6, <1>7, <1>8, <1>9 DEF Marked, DispatchedOnce, Gated

LEMMA MarkedNext ==
  ASSUME Typed, Marked, [Next]_vars
  PROVE  Marked'
<1>1. CASE \E t \in Task : TaskSteps(t)
  <2>1. PICK t \in Task : TaskSteps(t)
    BY <1>1
  <2>2. OthersHear(t)
    BY <2>1, TaskMoves DEF Typed, Rest, Moves
  <2>3. CASE \E m \in Message : Receive(t, m)
    BY <2>3, MarkReceive
  <2>4. CASE Admit(t)
    BY <2>4, MarkAdmit
  <2>5. CASE \/ PlainStep(t) \/ RunNative(t) \/ NativeEnds(t)
             \/ Refresh(t) \/ SceneCommand(t) \/ Drop(t)
    <3>1. ghost'.sent = ghost.sent /\ task'[t].pc # "gate" /\ UNCHANGED <<seen, window>>
      <4>1. CASE PlainStep(t)
        BY <4>1, PlainSteps DEF Typed, Rest, Plain
      <4>2. CASE RunNative(t) \/ NativeEnds(t)
        BY <4>2, NativeTypes DEF Typed
      <4>3. CASE Refresh(t) \/ SceneCommand(t) \/ Drop(t)
        <5>1. Elsewhere(t) /\ (UNCHANGED <<rows, ghost>> \/ GhostOpens)
          BY <4>3, OpenSteps DEF Typed
        <5>2. CASE GhostOpens
          <6>1. PICK open : ghost' = [ghost EXCEPT !.open = StillOpen(rows', open)]
            BY <5>2 DEF GhostOpens
          <6> QED
            BY <5>1, <6>1 DEF Elsewhere, Typed, Rest, Ghosts
        <5> QED
          BY <5>1, <5>2 DEF Elsewhere
      <4> QED
        BY <2>5, <4>1, <4>2, <4>3
    <3>2. GateKept
      BY <2>2, <3>1, GateLeft
    <3> QED
      BY <3>1, <3>2, TakenKept, MarkedKept
  <2> QED
    BY <2>1, <2>3, <2>4, <2>5, TaskCases
<1>2. CASE World
  <2>1. GateKept
    BY <1>2, WorldSpares, WorldTypes DEF Typed, GateKept, Gated
  <2>2. \/ UNCHANGED <<seen, window>>
        \/ TimePasses
        \/ \E l \in Keys : WindowEnds(l)
    BY <1>2 DEF World, ClientIsLate, HostActs, GateOpens, dedupe
  <2> QED
    BY <2>1, <2>2, TakenKept, MarkedKept
<1>3. CASE UNCHANGED vars
  <2>1. GateKept
    BY <1>3 DEF vars, GateKept, Gated
  <2>2. UNCHANGED <<seen, window>>
    BY <1>3 DEF vars, dedupe
  <2> QED
    BY <2>1, <2>2, TakenKept, MarkedKept
<1> QED
  BY <1>1, <1>2, <1>3, NextCases

(* Of the copies of a message that arrive within one window at most one is *)
(* handed on, because it is marked as seen before the first await.         *)
THEOREM MessageOnce == Spec => []DispatchedOnce
<1>1. Init => Typed /\ Marked
  <2>1. Init => Marked
    BY DEF Init, Marked, Gated, Idle, DispatchedOnce
  <2> QED
    BY <2>1, TypedInit
<1>2. Typed /\ Marked /\ [Next]_vars => (Typed /\ Marked)'
  BY TypedKept, MarkedNext
<1>3. Marked => DispatchedOnce
  BY DEF Marked
<1> QED
  BY <1>1, <1>2, <1>3, PTL DEF Spec

-----------------------------------------------------------------------------
(* Who is let in.                                                          *)

AtNative(t) == task[t].pc = "native"

(* An open scene is one that an administrator opened; an administrator     *)
(* whose native command runs is known as one.                              *)
Rights ==
  /\ \A x \in Scene : OpenTo(rows, x) => x \in ghost.open
  /\ \A t \in Task : AtNative(t) /\ task[t].m.admin => task[t].m.from \in ghost.admins
  /\ Authorised

(* The steps that leave the native commands alone.                         *)
NativeKept ==
  /\ elevated' = elevated /\ ghost'.admins = ghost.admins
  /\ \A t \in Task : (AtNative(t)' <=> AtNative(t)) /\ (AtNative(t) => task'[t].m = task[t].m)

LEMMA NativeStays ==
  ASSUME Typed, NEW t \in Task, OthersHear(t), elevated' = elevated,
         ghost'.admins = ghost.admins, task[t].pc # "native", task'[t].pc # "native"
  PROVE  NativeKept
BY OthersStay DEF NativeKept, AtNative, Typed

LEMMA RightsKept ==
  ASSUME Rights, NativeKept,
         \A x \in Scene : OpenTo(rows', x) => x \in ghost'.open,
         \A a \in ghost'.sent : a.admin \/ a.open
  PROVE  Rights'
<1>1. \A t \in Task : AtNative(t)' /\ task'[t].m.admin => task'[t].m.from \in ghost'.admins
  BY DEF Rights, NativeKept
<1>2. \A p \in elevated' \ ghost'.admins : \E t \in Task : task'[t].pc = "native" /\ task'[t].m.from = p
  BY DEF Rights, NativeKept, Authorised, AtNative
<1> QED
  BY <1>1, <1>2 DEF Rights, Authorised

LEMMA StillOpenOK ==
  ASSUME Rights, NEW new, NEW open, ghost.open \subseteq open,
         \A x \in Scene : OpenTo(new, x) => OpenTo(rows, x) \/ x \in open,
         NEW x \in Scene, OpenTo(new, x)
  PROVE  x \in StillOpen(new, open)
<1>1. x \in open
  BY DEF Rights
<1>2. \E o \in Owner : new[<<o, x>>].status = "allowed"
  BY DEF OpenTo, Opens
<1> QED
  BY <1>1, <1>2 DEF StillOpen

LEMMA RightsInit ==
  ASSUME Init
  PROVE  Rights
<1>1. PICK i \in DOMAIN Bounds :
        /\ rows = Bounds[i].rows
        /\ ghost = [sent |-> {}, open |-> Bounds[i].open, admins |-> {}]
  BY DEF Init
<1>2. ASSUME NEW x \in Scene, OpenTo(rows, x) PROVE x \in ghost.open
  <2>1. PICK o \in Owner : Opens(x, rows[<<o, x>>])
    BY <1>2 DEF OpenTo
  <2>2. <<o, x>> \in Slot
    BY DEF Slot
  <2>3. /\ rows[<<o, x>>].status = "allowed" /\ Effective(x, rows[<<o, x>>]) = "allowed"
        /\ <<o, x>>[2] = x
    BY <2>1 DEF Opens
  <2>4. x \in Bounds[i].open \/ Effective(x, rows[<<o, x>>]) = "pending"
    BY <1>1, <2>2, <2>3, ScenarioAssumption
  <2> QED
    BY <1>1, <2>3, <2>4
<1>3. \A t \in Task : ~AtNative(t)
  BY DEF Init, Idle, AtNative
<1>4. Authorised
  BY <1>1 DEF Init, Authorised
<1> QED
  BY <1>2, <1>3, <1>4 DEF Rights

(* The answer to a message rests on rows that somebody opened.             *)
LEMMA RightsAdmit ==
  ASSUME Typed, Rights, NEW t \in Task, Admit(t)
  PROVE  Rights'
<1>1. PICK sent, open :
        /\ ghost' = [ghost EXCEPT !.open = StillOpen(rows', open), !.sent = sent]
        /\ open \subseteq Scene /\ sent \subseteq Sent
        /\ \A x \in Scene : OpenTo(rows', x) => OpenTo(rows, x) \/ x \in open
        /\ ghost.open \subseteq open
        /\ \A a \in sent \ ghost.sent :
             /\ ~a.admin => OpenTo(rows, task[t].m.scene)
             /\ a.open <=> task[t].m.scene \in open
  BY AdmitTypes DEF Typed
<1>2. ghost'.sent = sent /\ ghost'.open = StillOpen(rows', open) /\ ghost'.admins = ghost.admins
  BY <1>1 DEF Typed, Rest, Ghosts
<1>3. OthersHear(t) /\ task'[t].pc # "native"
  <2>1. Moves(t)
    BY AdmitMoves DEF Typed
  <2>2. \A a, b : [task[t] EXCEPT !.pc = "admitted", !.agent = a, !.answer = b].pc = "admitted"
    BY DEF Typed, Known, Calls, Call
  <2>3. \/ Becomes(t, Idle)
        \/ \E a, b : Becomes(t, [task[t] EXCEPT !.pc = "admitted", !.agent = a, !.answer = b])
    BY DEF Admit
  <2>4. CASE Becomes(t, Idle)
    BY <2>1, <2>4, PcOf DEF Typed, Moves
  <2>5. CASE \E a, b : Becomes(t, [task[t] EXCEPT !.pc = "admitted", !.agent = a, !.answer = b])
    <3>1. PICK q : Becomes(t, q) /\ q.pc = "admitted"
      BY <2>2, <2>5
    <3> QED
      BY <2>1, <3>1, PcOf DEF Typed, Moves
  <2> QED
    BY <2>3, <2>4, <2>5
<1>4. task[t].m.scene \in Scene
  <2>1. task[t].m \in Message
    BY DEF Admit, Typed, Known, Calls, CallOK
  <2> QED
    BY <2>1, InboundAssumption
<1>5. NativeKept
  <2>1. elevated' = elevated /\ task[t].pc # "native"
    BY DEF Admit, client
  <2> QED
    BY <1>2, <1>3, <2>1, NativeStays
<1>6. \A x \in Scene : OpenTo(rows', x) => x \in ghost'.open
  BY <1>1, <1>2, StillOpenOK
<1>7. \A a \in ghost'.sent : a.admin \/ a.open
  <2>1. \A a \in ghost.sent : a.admin \/ a.open
    BY DEF Rights, Authorised
  <2>2. \A a \in sent \ ghost.sent : a.admin \/ a.open
    BY <1>1, <1>4 DEF Rights
  <2> QED
    BY <1>2, <2>1, <2>2
<1> QED
  BY <1>5, <1>6, <1>7, RightsKept

(* A sender is an owner from the start of a native command to its end.     *)
LEMMA RightsNative ==
  ASSUME Typed, Rights, NEW t \in Task, OthersHear(t), RunNative(t) \/ NativeEnds(t)
  PROVE  Rights'
<1>1. /\ UNCHANGED rows /\ ghost'.sent = ghost.sent /\ ghost'.open = ghost.open
      /\ task[t] \in Call /\ task \in [Task -> Call] /\ ghost \in Ghosts
  BY NativeTypes DEF Typed, Known, Calls, Rest
<1>2. \A u \in Task \ {t} : (AtNative(u)' <=> AtNative(u)) /\ task'[u].m = task[u].m
  BY OthersStay DEF AtNative, Typed
<1>3. \A x \in Scene : OpenTo(rows', x) => x \in ghost'.open
  BY <1>1 DEF Rights
<1>4. \A a \in ghost'.sent : a.admin \/ a.open
  BY <1>1 DEF Rights, Authorised
<1>5. CASE RunNative(t)
  <2> DEFINE q == At(t, "native")
  <2>1. q.pc = "native" /\ q.m = task[t].m /\ Becomes(t, q)
    BY <1>1, <1>5 DEF RunNative, At, Call, Becomes
  <2> HIDE DEF q
  <2>2. task'[t] = q
    BY <2>1 DEF Becomes
  <2>3. elevated' = elevated \cup {task[t].m.from}
    BY <1>5 DEF RunNative
  <2>4. ghost.admins \subseteq ghost'.admins /\ (task[t].m.admin => task[t].m.from \in ghost'.admins)
    BY <1>1, <1>5 DEF RunNative, Ghosts
  <2>5. \A u \in Task : AtNative(u)' /\ task'[u].m.admin => task'[u].m.from \in ghost'.admins
    BY <1>2, <2>1, <2>2, <2>4 DEF Rights
  <2>6. \A p \in elevated' \ ghost'.admins : \E u \in Task : task'[u].pc = "native" /\ task'[u].m.from = p
    <3> SUFFICES ASSUME NEW p \in elevated' \ ghost'.admins
                 PROVE  \E u \in Task : task'[u].pc = "native" /\ task'[u].m.from = p
      OBVIOUS
    <3>1. CASE p = task[t].m.from
      BY <2>1, <2>2, <3>1
    <3>2. CASE p # task[t].m.from
      <4>1. PICK u \in Task : task[u].pc = "native" /\ task[u].m.from = p
        BY <2>3, <2>4, <3>2 DEF Rights, Authorised
      <4>2. u # t
        BY <3>2, <4>1
      <4> QED
        BY <1>2, <4>1, <4>2 DEF AtNative
    <3> QED
      BY <3>1, <3>2
  <2> QED
    BY <1>3, <1>4, <2>5, <2>6 DEF Rights, Authorised
<1>6. CASE NativeEnds(t)
  <2>1. task'[t].pc # "native" /\ task[t].pc = "native" /\ ghost' = ghost
    <3>1. task' = [task EXCEPT ![t] = Idle] \/ task' = [task EXCEPT ![t] = At(t, "prepared")]
      BY <1>6 DEF NativeEnds
    <3>2. task'[t].pc \in {"idle", "prepared"}
      BY <3>1, PcOf DEF Typed
    <3> QED
      BY <1>6, <3>2 DEF NativeEnds
  <2>2. elevated' \subseteq elevated /\ (task[t].m.from \in elevated' => task[t].m.admin)
    BY <1>6 DEF NativeEnds
  <2>3. \A u \in Task : AtNative(u)' /\ task'[u].m.admin => task'[u].m.from \in ghost'.admins
    BY <1>2, <2>1 DEF Rights, AtNative
  <2>4. \A p \in elevated' \ ghost'.admins : \E u \in Task : task'[u].pc = "native" /\ task'[u].m.from = p
    <3> SUFFICES ASSUME NEW p \in elevated' \ ghost'.admins
                 PROVE  \E u \in Task : task'[u].pc = "native" /\ task'[u].m.from = p
      OBVIOUS
    <3>1. PICK u \in Task : task[u].pc = "native" /\ task[u].m.from = p
      BY <2>1, <2>2 DEF Rights, Authorised
    <3>2. u # t
      BY <2>1, <2>2, <3>1 DEF Rights, AtNative
    <3> QED
      BY <1>2, <3>1, <3>2 DEF AtNative
  <2> QED
    BY <1>3, <1>4, <2>3, <2>4 DEF Rights, Authorised
<1> QED
  BY <1>5, <1>6

LEMMA RightsNext ==
  ASSUME Typed, Rights, [Next]_vars
  PROVE  Rights'
<1>0. ghost \in Ghosts /\ \A a \in ghost.sent : a.admin \/ a.open
  BY DEF Typed, Rest, Rights, Authorised
<1>1. CASE \E t \in Task : TaskSteps(t)
  <2>1. PICK t \in Task : TaskSteps(t)
    BY <1>1
  <2>2. OthersHear(t)
    BY <2>1, TaskMoves DEF Typed, Rest, Moves
  <2>3. CASE \E m \in Message : Receive(t, m)
    <3>1. PICK m \in Message : Receive(t, m)
      BY <2>3
    <3> DEFINE r == [Idle EXCEPT !.pc = "gate", !.m = m, !.win = window[m.key]]
    <3>2. /\ UNCHANGED <<rows, elevated, ghost>> /\ task[t].pc = "idle"
          /\ task' = task \/ task' = [task EXCEPT ![t] = r]
      BY <3>1 DEF Receive, client, Free
    <3>3. r.pc = "gate"
      BY DEF Idle
    <3> HIDE DEF r
    <3>4. task'[t].pc \in {"idle", "gate"}
      BY <3>2, <3>3 DEF Typed, Known, Calls
    <3>5. NativeKept
      BY <2>2, <3>2, <3>4, NativeStays
    <3> QED
      BY <1>0, <3>2, <3>5, RightsKept DEF Rights
  <2>4. CASE Admit(t)
    BY <2>4, RightsAdmit
  <2>5. CASE RunNative(t) \/ NativeEnds(t)
    BY <2>2, <2>5, RightsNative
  <2>6. CASE PlainStep(t)
    <3>1. Plain(t)
      BY <2>6, PlainSteps DEF Typed, Rest
    <3>2. NativeKept
      BY <2>2, <3>1, NativeStays DEF Plain
    <3> QED
      BY <1>0, <3>1, <3>2, RightsKept DEF Plain, Rights
  <2>7. CASE Refresh(t) \/ SceneCommand(t) \/ Drop(t)
    <3>1. Elsewhere(t) /\ (UNCHANGED <<rows, ghost>> \/ GhostOpens)
      BY <2>7, OpenSteps DEF Typed
    <3>2. /\ ghost'.sent = ghost.sent /\ ghost'.admins = ghost.admins
          /\ \A x \in Scene : OpenTo(rows', x) => x \in ghost'.open
      <4>1. CASE UNCHANGED <<rows, ghost>>
        BY <4>1 DEF Rights
      <4>2. CASE GhostOpens
        <5>1. PICK open : /\ ghost' = [ghost EXCEPT !.open = StillOpen(rows', open)]
                          /\ open \subseteq Scene /\ ghost.open \subseteq open
                          /\ \A x \in Scene : OpenTo(rows', x) => OpenTo(rows, x) \/ x \in open
          BY <4>2 DEF GhostOpens
        <5>2. /\ ghost'.sent = ghost.sent /\ ghost'.admins = ghost.admins
              /\ ghost'.open = StillOpen(rows', open)
          BY <1>0, <5>1 DEF Ghosts
        <5> QED
          BY <5>1, <5>2, StillOpenOK
      <4> QED
        BY <3>1, <4>1, <4>2
    <3>3. NativeKept
      BY <2>2, <3>1, <3>2, NativeStays DEF Elsewhere
    <3> QED
      BY <1>0, <3>2, <3>3, RightsKept
  <2> QED
    BY <2>1, <2>3, <2>4, <2>5, <2>6, <2>7, TaskCases
<1>2. CASE World
  <2>1. UNCHANGED <<rows, elevated, ghost>>
    BY <1>2, WorldTypes DEF Typed
  <2>2. NativeKept
    BY <1>2, <2>1, WorldSpares DEF Typed, NativeKept, AtNative
  <2> QED
    BY <1>0, <2>1, <2>2, RightsKept DEF Rights
<1>3. CASE UNCHANGED vars
  <2>1. UNCHANGED <<rows, elevated, ghost, task>>
    BY <1>3 DEF vars, client
  <2>2. NativeKept
    BY <2>1 DEF NativeKept, AtNative
  <2> QED
    BY <1>0, <2>1, <2>2, RightsKept DEF Rights
<1> QED
  BY <1>1, <1>2, <1>3, NextCases

(* Whatever messages, commands and maintenance interleave: a message of    *)
(* somebody who is not an administrator is handed on only in a scene that  *)
(* an administrator opened and that none has closed since, and a sender    *)
(* counts as an owner only during a native command of their own.           *)
THEOREM SendersAuthorised == Spec => []Authorised
<1>1. Init => Typed /\ Rights
  BY TypedInit, RightsInit
<1>2. Typed /\ Rights /\ [Next]_vars => (Typed /\ Rights)'
  BY TypedKept, RightsNext
<1>3. Rights => Authorised
  BY DEF Rights
<1> QED
  BY <1>1, <1>2, <1>3, PTL DEF Spec
=============================================================================
