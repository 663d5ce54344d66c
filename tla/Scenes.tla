------------------------------- MODULE Scenes -------------------------------
(***************************************************************************)
(* The scene registry: one row per chat (scene) and agent that serves it,  *)
(* or one row without an owner.  A row says whether the chat is admitted   *)
(* and how groups are answered.  The operators below are what the code     *)
(* does to the registry in one turn of its event loop: the decision on a   *)
(* message, and the commands of administrators and of private chats.  A    *)
(* registry is a function from slots to rows; newer rows have larger       *)
(* stamps.                                                                 *)
(***************************************************************************)
EXTENDS Naturals, FiniteSets

CONSTANTS
  Scene,         \* the chats
  Direct,        \* those with one person, the others are groups
  Agent,         \* the agents this host has
  AdminAgent,    \* serves the private chats of administrators
  PublicAgent,   \* serves everybody else
  RouteAgent     \* the agent to which the host routes a chat

Unowned == "unowned"

ASSUME SceneAssumption ==
  /\ Direct \subseteq Scene
  /\ {AdminAgent, PublicAgent} \subseteq Agent
  /\ RouteAgent \in [Scene -> Agent]
  /\ Unowned \notin Agent

Owner == Agent \cup {Unowned}
Slot == Owner \X Scene
Mode == {"none", "admin", "all", "mention", "hybrid"}

(* A row; setting stands for the settings that are written to every row of *)
(* a scene alike: history limit and flush, media, name and group.          *)
Row == [status : {"allowed", "pending", "denied"}, approved : BOOLEAN, mode : Mode,
        setting : {"none", "set"}, at : Nat]
NoRow == [status |-> "none", approved |-> FALSE, mode |-> "none", setting |-> "none", at |-> 0]

Owners(rows, x) == {o \in Owner : rows[<<o, x>>] # NoRow}

(* Rows written in one turn carry the same stamp: either may be taken for  *)
(* the newest.                                                             *)
Newest(rows, x) ==
  {o \in Owners(rows, x) : \A p \in Owners(rows, x) : rows[<<p, x>>].at <= rows[<<o, x>>].at}

(* The rows an agent may find its scene in: its own before the unowned     *)
(* one, never a row of another agent.                                      *)
Found(rows, x, a) ==
  IF a \in Owners(rows, x) THEN {a} ELSE Owners(rows, x) \cap {Unowned}

(* The agents that may serve a scene: the proposed one if it finds a row,  *)
(* else the owner of the newest row.                                       *)
Servers(rows, x, agent) ==
  LET held == Newest(rows, x) \ {Unowned} IN
  IF Found(rows, x, agent) # {} \/ held = {} THEN {agent} ELSE held

(* Writes a row and gives up the slot it came from.                        *)
SetRow(rows, x, o, row, from) == [rows EXCEPT ![<<from, x>>] = NoRow, ![<<o, x>>] = row]

(* The row a delete hits.  It is given a scene and an agent, not a row,    *)
(* and looks the row up again: without an agent it is the newest of the    *)
(* scene, whoever owns it.                                                 *)
Hit(rows, x, o) == IF o = Unowned THEN Newest(rows, x) ELSE Found(rows, x, o)

(* Mutant of DeleteRow: only the status is taken back.                     *)
HalfDeleted(rows, x, o) == {[rows EXCEPT ![<<k, x>>].status = "none"] : k \in Hit(rows, x, o)}

(* What deleting by scene and agent may leave of the registry.             *)
DeleteRow(rows, x, o) == {[rows EXCEPT ![<<k, x>>] = NoRow] : k \in Hit(rows, x, o)}

(* A row that was once allowed by itself counts as pending.                *)
Effective(x, row) ==
  IF x \in Direct /\ row.status = "allowed" /\ ~row.approved THEN "pending" ELSE row.status

FreshRow(x, status, stamp) ==
  [status |-> status, approved |-> status = "allowed",
   mode |-> IF x \in Direct THEN "none" ELSE "admin", setting |-> "none", at |-> stamp]

(* A new row takes the settings of the newest row of its scene.            *)
Inherited(rows, x, row) ==
  IF Owners(rows, x) = {} THEN {row}
  ELSE {[row EXCEPT !.mode = IF rows[<<o, x>>].mode = "none" THEN @ ELSE rows[<<o, x>>].mode,
                    !.setting = rows[<<o, x>>].setting] : o \in Newest(rows, x)}

-----------------------------------------------------------------------------
(* The decision on a message.                                              *)

(* In a private chat the agent of administrators never serves others.      *)
ForcedOwner(x, admin, o) ==
  IF x \in Direct /\ ~admin /\ o \in {Unowned, AdminAgent} THEN PublicAgent ELSE o

FallbackAgent(x, admin) == IF x \in Direct /\ admin THEN AdminAgent ELSE PublicAgent

(* Mutant of Touched: what was allowed once stays allowed.                 *)
KeptOpen(x, admin, row, stamp) ==
  LET r == [row EXCEPT !.at = stamp,
                       !.mode = IF x \notin Direct /\ @ = "none" THEN "admin" ELSE @] IN
  IF x \notin Direct /\ r.status = "denied" /\ admin
  THEN [r EXCEPT !.status = "allowed", !.approved = TRUE] ELSE r

(* The row after a message that found it: a private chat that nobody       *)
(* approved goes back to pending, a group is opened by an administrator.   *)
Touched(x, admin, row, stamp) ==
  LET r == [row EXCEPT !.at = stamp,
                       !.mode = IF x \notin Direct /\ @ = "none" THEN "admin" ELSE @] IN
  CASE x \notin Direct /\ r.status = "denied" /\ admin ->
         [r EXCEPT !.status = "allowed", !.approved = TRUE]
    [] x \in Direct /\ ~admin -> [r EXCEPT !.status = Effective(x, r)]
    [] OTHER -> r

(* What may be decided on a message of scene x served by agent a.          *)
Decisions(rows, x, admin, a, stamp) ==
  LET found == Found(rows, x, a)
      status == IF admin THEN "allowed" ELSE IF x \in Direct THEN "pending" ELSE "denied"
      owner == IF admin THEN FallbackAgent(x, admin) ELSE Unowned
      known == {[rows |-> SetRow(rows, x, ForcedOwner(x, admin, o),
                                 Touched(x, admin, rows[<<o, x>>], stamp), o),
                 row |-> Touched(x, admin, rows[<<o, x>>], stamp),
                 agent |-> IF ForcedOwner(x, admin, o) = Unowned THEN FallbackAgent(x, admin)
                           ELSE ForcedOwner(x, admin, o)] : o \in found}
      new == {[rows |-> [rows EXCEPT ![<<owner, x>>] = row], row |-> row,
               agent |-> FallbackAgent(x, admin)] :
                row \in Inherited(rows, x, FreshRow(x, status, stamp))}
  IN IF found = {} THEN new ELSE known

(* Whether the agent answers, or the message is only kept as context.      *)
Answered(x, mode, admin, mention, native) ==
  \/ x \in Direct
  \/ mode = "all"
  \/ admin /\ native
  \/ admin /\ mode \in {"none", "admin", "hybrid"}
  \/ mention /\ mode \in {"mention", "hybrid"}
Accumulated(x, mode, admin, mention, native) ==
  Answered(x, mode, admin, mention, native) \/ mode \in {"mention", "hybrid"}

-----------------------------------------------------------------------------
(* Commands.  who says who gives a command: an administrator or not, in    *)
(* which scene, served by which agent.  cmd names a kind, a scene, an      *)
(* agent or "any", and a value.                                            *)

(* The rows a command may touch: an administrator's reaches all rows of    *)
(* the scene unless it names one, anyone else's only the agent's own.      *)
Scope(rows, cmd, who) ==
  LET wanted == IF cmd.agent = "any" THEN Owner ELSE {cmd.agent} IN
  Owners(rows, cmd.scene) \cap wanted \cap (IF who.admin THEN Owner ELSE {who.agent})

(* The row an administrator's command starts from.                         *)
Looked(rows, x, who) ==
  IF Found(rows, x, who.agent) # {} THEN Found(rows, x, who.agent) ELSE Newest(rows, x)

(* Writes the rows of some slots.                                          *)
Rewrite(rows, new) == [s \in Slot |-> IF s \in DOMAIN new THEN new[s] ELSE rows[s]]

(* A single row without an owner is claimed; several are only allowed.     *)
Allow(rows, cmd, who, stamp) ==
  LET x == cmd.scene
      scope == Scope(rows, cmd, who)
      opened(r) == [r EXCEPT !.status = "allowed", !.approved = TRUE, !.at = stamp]
  IN IF Looked(rows, x, who) = {} \/ scope = {} THEN {rows}
     ELSE IF scope = {Unowned}
     THEN {SetRow(rows, x, FallbackAgent(x, TRUE), opened(rows[<<Unowned, x>>]), Unowned)}
     ELSE {Rewrite(rows, [s \in scope \X {x} |-> opened(rows[s])])}

Deny(rows, cmd, who, stamp) ==
  {Rewrite(rows, [s \in Scope(rows, cmd, who) \X {cmd.scene} |->
     [rows[s] EXCEPT !.status = "denied", !.approved = FALSE, !.at = stamp]])}

(* One row goes.  Without a name it is the only one, or any of them when   *)
(* one agent and nobody own the scene; the row of the agent that serves    *)
(* the command goes for one without an owner.                              *)
Revoke(rows, cmd, who) ==
  LET x == cmd.scene
      named == IF cmd.agent = "any" THEN Owners(rows, x) ELSE Owners(rows, x) \cap {cmd.agent}
      key(o) == IF o # Unowned THEN o ELSE who.agent
      refused == cmd.agent = "any" /\ Cardinality(Owners(rows, x) \ {Unowned}) > 1
  IN IF refused \/ named = {} THEN {rows}
     ELSE UNION {DeleteRow(rows, x, key(o)) : o \in named}

(* The row moves to another agent, unless that one has a row already.      *)
Bind(rows, cmd, who, stamp) ==
  LET x == cmd.scene
      free(o) == cmd.agent = o \/ cmd.agent \notin Owners(rows, x)
  IN IF Looked(rows, x, who) = {} \/ cmd.agent \notin Agent THEN {rows}
     ELSE {IF free(o)
           THEN SetRow(rows, x, cmd.agent, [rows[<<o, x>>] EXCEPT !.at = stamp], o)
           ELSE rows : o \in Looked(rows, x, who)}

SetMode(rows, cmd, who, stamp) ==
  {IF cmd.scene \in Direct THEN rows
   ELSE Rewrite(rows, [s \in Scope(rows, cmd, who) \X {cmd.scene} |->
          [rows[s] EXCEPT !.mode = cmd.value, !.at = stamp]])}

(* Settings: anybody for their own private chat, administrators for all.   *)
MaySet(cmd, who) == who.admin \/ (who.scene \in Direct /\ cmd.scene = who.scene)
SetSetting(rows, cmd, who, stamp) ==
  {IF ~MaySet(cmd, who) THEN rows
   ELSE Rewrite(rows, [s \in Scope(rows, cmd, who) \X {cmd.scene} |->
          [rows[s] EXCEPT !.setting = cmd.value, !.at = stamp]])}

(* What a command may leave the registry as; all but the settings are for  *)
(* administrators.                                                         *)
SceneCommands == {"allow", "deny", "revoke", "bind", "mode", "setting"}
Commanded(rows, cmd, who, stamp) ==
  CASE cmd.kind # "setting" /\ ~who.admin -> {rows}
    [] cmd.kind = "allow" /\ who.admin -> Allow(rows, cmd, who, stamp)
    [] cmd.kind = "deny" /\ who.admin -> Deny(rows, cmd, who, stamp)
    [] cmd.kind = "revoke" /\ who.admin -> Revoke(rows, cmd, who)
    [] cmd.kind = "bind" /\ who.admin -> Bind(rows, cmd, who, stamp)
    [] cmd.kind = "mode" /\ who.admin -> SetMode(rows, cmd, who, stamp)
    [] cmd.kind = "setting" -> SetSetting(rows, cmd, who, stamp)
=============================================================================
