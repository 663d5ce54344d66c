----------------------------- MODULE MCService -----------------------------
(* Small instances of Service: two bridges of agent x in the process under *)
(* test, one of agent y in another process, and one scenario of bounds for *)
(* each kind of trouble.                                                   *)
EXTENDS Service

CONSTANTS b1, b2, f1, x, y, m1, m2, m3, r1, r2, r3

MCAgentOf == [b \in Bridge |-> IF b = f1 THEN y ELSE x]
MCMsgAgent == [m \in Msg |-> IF m = m3 THEN y ELSE x]
MCPool == <<b1, b2>>
MCTask == 1..3

None == [regs |-> 1, apis |-> {<<r1, "old">>}, polls |-> 0, overlap |-> FALSE, calls |-> 2,
         starts |-> 0, stops |-> 0, chans |-> 0, fails |-> 0, crashes |-> 0,
         purges |-> 0, scenes |-> 0, merges |-> 0, corrupts |-> 0, cut |-> FALSE, ends |-> {"no"},
         msgs |-> {}, old |-> {}, foreign |-> FALSE, found |-> "fresh"]

(* Three registries with two versions of the code.                         *)
Registering == [None EXCEPT !.regs = 3, !.apis = {<<r1, "old">>, <<r1, "new">>, <<r2, "new">>, <<r3, "old">>},
                            !.starts = 2, !.stops = 1]
Succeeding == [None EXCEPT !.regs = 2, !.apis = {<<r1, "old">>, <<r2, "new">>}, !.starts = 2, !.stops = 2,
                           !.fails = 1, !.old = {m1}, !.found = "dual"]
Observing == [None EXCEPT !.regs = 2, !.overlap = TRUE, !.apis = {<<r1, "old">>, <<r2, "old">>},
                          !.starts = 2, !.stops = 1, !.chans = 1, !.polls = 1]
(* Starts and stops of one registry around a queue that is there.          *)
Restarting == [None EXCEPT !.starts = 2, !.stops = 2, !.calls = 3, !.msgs = {m1}, !.old = {m2},
                           !.found = "dual"]
Failing == [None EXCEPT !.starts = 2, !.stops = 2, !.calls = 3, !.old = {m2}, !.fails = 1, !.purges = 1,
                        !.found = "dual"]
Dying == [None EXCEPT !.regs = 2, !.starts = 2, !.stops = 1, !.crashes = 1, !.msgs = {m1},
                      !.old = {m2}, !.found = "dual"]
(* One bridge is started again and again, and a start that is over ends    *)
(* late, or is the one that fails.                                         *)
Reusing == [None EXCEPT !.regs = 2, !.apis = {<<r1, "old">>, <<r2, "old">>}, !.starts = 3, !.stops = 2,
                        !.calls = 3, !.old = {m1}, !.found = "dual"]
Breaking == [None EXCEPT !.regs = 2, !.starts = 2, !.calls = 3, !.fails = 1, !.crashes = 1, !.msgs = {m1},
                         !.found = "dual"]
(* A JSON file without a database, then the cutover.                       *)
Cutting == [None EXCEPT !.regs = 2, !.starts = 2, !.stops = 1, !.crashes = 1, !.cut = TRUE,
                        !.old = {m1, m3}, !.found = "json", !.ends = {"no", "dead"}]
Halting == [None EXCEPT !.starts = 1, !.crashes = 1, !.fails = 1, !.cut = TRUE, !.msgs = {m2}, !.found = "json"]
Upgrading == [None EXCEPT !.starts = 2, !.stops = 1, !.old = {m1}, !.found = "json"]
(* The other agent's process works on the same directory.                  *)
Sharing == [None EXCEPT !.starts = 2, !.stops = 1, !.msgs = {m3}, !.old = {m1}, !.foreign = TRUE,
                        !.found = "dual"]
Scenes == [None EXCEPT !.starts = 1, !.scenes = 3, !.merges = 1, !.foreign = TRUE,
                       !.found = "dual"]
Damaged == [None EXCEPT !.starts = 2, !.stops = 1, !.corrupts = 1, !.msgs = {m1},
                        !.old = {m2}, !.found = "dual"]
MCBounds == {Registering, Succeeding, Observing, Restarting, Failing, Dying, Reusing, Breaking, Cutting, Halting,
             Upgrading, Sharing, Scenes, Damaged}
=============================================================================
