----------------------------- MODULE MCInbound -----------------------------
(* Small instances of Inbound: a private chat d that the host routes to    *)
(* the agent of administrators, a group g that it routes to the other one, *)
(* and one scenario of messages and events for each kind of trouble.       *)
EXTENDS Inbound

CONSTANTS d, g, main, pub, ann, bob

MCRoute == [x \in Scene |-> IF x = d THEN main ELSE pub]

Say(kind) == [kind |-> kind, scene |-> g, agent |-> "any", force |-> FALSE, value |-> "none"]
On(kind, x, agent) == [Say(kind) EXCEPT !.scene = x, !.agent = agent]
By(key, from, x, cmd) ==
  [key |-> key, copy |-> 1, scene |-> x, from |-> from, admin |-> from = ann, mention |-> FALSE, cmd |-> cmd]

Ask(x) == By("ask", bob, x, Say("chat"))
Again(x) == [Ask(x) EXCEPT !.copy = 2]
Third(x) == [Ask(x) EXCEPT !.copy = 3]
Tell(cmd) == By("tell", ann, d, cmd)
Also(cmd) == By("also", ann, g, cmd)
Own1(cmd) == By("own1", bob, d, cmd)
Own2(cmd) == By("own2", bob, d, cmd)

NoRows == [s \in Slot |-> NoRow]
Plain(x) == FreshRow(x, "allowed", 1)
ForAll == [Plain(g) EXCEPT !.mode = "all"]
Shut(x) == FreshRow(x, "denied", 1)
Legacy == [Plain(d) EXCEPT !.approved = FALSE]
Held(r, o, x) == [NoRows EXCEPT ![<<o, x>>] = r]

NoSessions == [s \in Own |-> NoSession]
Used == [id |-> 1, upd |-> 1, act |-> 1, archived |-> FALSE]
Busy(S) == [s \in Own |-> IF s \in S THEN Used ELSE NoSession]

None == [rows |-> Held(ForAll, pub, g), sess |-> NoSessions, open |-> {g},
         left |-> [msgs |-> {}, refuse |-> FALSE, fails |-> 0, merges |-> 0, ages |-> 0, expires |-> 0,
                   host |-> 0, gates |-> 0]]

(* A message that is sent three times.                                     *)
Repeating == [None EXCEPT !.left.msgs = {Ask(g), Again(g), Third(g)}, !.left.refuse = TRUE, !.left.expires = 1]
(* Private chats that wait for approval, or lost theirs.                   *)
Approving == [None EXCEPT !.left.msgs = {Ask(d), Again(d), Also(On("allow", d, "any"))},
                          !.rows = NoRows, !.open = {}, !.left.expires = 1]
Losing == [None EXCEPT !.left.msgs = {Ask(d), Own1([On("setting", d, "any") EXCEPT !.value = "set"]),
                                 Also(On("allow", d, pub))},
                       !.rows = Held(Legacy, main, d), !.open = {}]
Closing == [None EXCEPT !.left.msgs = {Ask(d), Also(On("deny", d, "any")), Own1(Say("native"))},
                        !.rows = Held(Plain(d), pub, d), !.open = {d}]
(* Groups that are opened, moved and taken over.                           *)
Moving == [None EXCEPT !.left.msgs = {Ask(g), Tell(On("bind", g, main)), Also(On("revoke", g, pub))},
                       !.rows = [Held(ForAll, pub, g) EXCEPT ![<<Unowned, g>>] = Shut(g)]]
Modes == [None EXCEPT !.left.msgs = {[Ask(g) EXCEPT !.mention = TRUE], Again(g),
                                Also([On("mode", g, "any") EXCEPT !.value = "hybrid"])},
                      !.rows = NoRows, !.open = {}, !.left.merges = 1, !.left.expires = 1]
(* Prunes against messages, the host's interface and failures.             *)
Pruning == [None EXCEPT !.left.msgs = {Ask(g), Tell(On("prune", g, "any"))}, !.sess = Busy({<<pub, g>>}),
                        !.left.ages = 1, !.left.host = 1, !.left.fails = 1]
Forcing == [Pruning EXCEPT !.left.msgs = {Ask(g), Tell([On("prune", g, pub) EXCEPT !.force = TRUE])},
                           !.left.ages = 0, !.left.host = 0, !.left.fails = 2]
Shared == [Pruning EXCEPT !.left.msgs = {Ask(g), Tell(On("prune", g, "any"))},
                          !.rows = [Held(ForAll, pub, g) EXCEPT ![<<Unowned, g>>] = ForAll,
                                    ![<<main, g>>] = ForAll],
                          !.sess = Busy({<<pub, g>>, <<main, g>>}), !.left.host = 0, !.left.fails = 0]
Batch == [Shared EXCEPT !.left.msgs = {Ask(g), Tell(Say("pruneAll"))},
                        !.rows = [Held(ForAll, pub, g) EXCEPT ![<<main, g>>] = ForAll], !.left.fails = 1]
Sweeping == [Pruning EXCEPT !.left.msgs = {Ask(g), Tell(Say("sweep"))}, !.sess = Busy({<<pub, g>>, <<main, g>>})]
Gates == [None EXCEPT !.left.msgs = {Ask(g), Tell(Say("pruneState"))}, !.rows = NoRows, !.open = {},
                      !.left.gates = 2, !.left.ages = 1, !.left.fails = 1]
(* Native commands of one sender at the same time, stops and resets.       *)
Natives == [None EXCEPT !.left.msgs = {Own1(Say("native")), Own2(Say("native")), Tell(Say("native"))},
                        !.rows = Held(Plain(d), pub, d), !.open = {d}]
Stopping == [None EXCEPT !.left.msgs = {Ask(g), Also(Say("stop")), Tell(Say("stopnow"))}]
Resetting == [None EXCEPT !.left.msgs = {Ask(g), By("own1", bob, g, Say("reset")), Also(Say("reset"))}]

MCBounds == <<Repeating, Approving, Losing, Closing, Moving, Modes, Pruning, Forcing, Shared, Batch,
              Sweeping, Gates, Natives, Stopping, Resetting>>
MCMessage == UNION {MCBounds[i].left.msgs : i \in DOMAIN MCBounds}
MCTask == 1..2
=============================================================================
