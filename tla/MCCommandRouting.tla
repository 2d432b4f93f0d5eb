-------------------------- MODULE MCCommandRouting --------------------------
(* CommandRouting for TLC.  A behaviour starts with no instance loaded, or   *)
(* (a state such a behaviour reaches) after the first loads, with a as the   *)
(* hub and the nodes connected; c has a token in the second case only.  One  *)
(* entry per mix: does it start settled, the instances, the loads together,  *)
(* the commands and their classes, is there something else that may take the *)
(* port, are there stops and crashes, and do connections of nodes come up.   *)
EXTENDS CommandRouting, TLC

CONSTANTS a, b, c

MCInsts == {a, b, c}

Settled(nodes) ==
    LET on == [m \in Managers |-> m[2] = 1 /\ m[1] \in nodes]
        dials == [NoThread EXCEPT !.pc = "done", !.mode = "client", !.hint = "client", !.token = TRUE]
        serves == [NoThread EXCEPT !.pc = "done", !.mode = "server"]
    IN
    /\ foreign = FALSE /\ loopback = {} /\ stopping = {} /\ stopped = {}
    /\ listener = {<<a, 1>>} /\ up = {m \in Managers : on[m]} /\ node = on
    /\ decide = [m \in Managers |-> IF on[m] THEN dials
                                    ELSE IF m = <<a, 1>> THEN serves ELSE NoThread]
    /\ hub = [m \in Managers |-> IF m = <<a, 1>> THEN "shared" ELSE "none"]
    /\ current = [i \in Insts |-> IF i \in {a} \cup nodes THEN 1 ELSE 0]
    /\ role = [i \in Insts |-> IF i = a THEN "server" ELSE "client"]
    /\ token = [i \in Insts |-> i # a]
    /\ NothingTyped

MCInit == (Init /\ ~token[c]) \/ Settled({b}) \/ Settled({b, c})
MCSpec == MCInit /\ [][Next]_vars

Mixes == {<<TRUE, {a, b}, 4, 0, {}, FALSE, TRUE, FALSE>>,       \* everybody reloads
          <<FALSE, {a}, 2, 0, {}, TRUE, TRUE, FALSE>>,          \* a slow decision
          <<FALSE, {a, b}, 2, 0, {}, TRUE, TRUE, FALSE>>,       \* two that start
          <<FALSE, {a, b}, 2, 1, Kinds, FALSE, FALSE, TRUE>>,   \* typed while deciding
          <<TRUE, {a, b}, 2, 2, Kinds, FALSE, FALSE, TRUE>>,    \* two commands
          <<TRUE, {a, b}, 3, 1, Kinds, FALSE, TRUE, TRUE>>,     \* a command and a reload
          <<TRUE, {a, b, c}, 3, 1, {"cluster"}, FALSE, FALSE, TRUE>>}

Typed == {k \in Cmds : cmd[k].pc # "none"}
Within(m) ==
    /\ token[c] = m[1]
    /\ \A n \in Managers : At(n, "none") \/ n[1] \in m[2]
    /\ Cardinality({n \in Managers : ~At(n, "none")}) <= m[3]
    /\ Cardinality(Typed) <= m[4] /\ \A k \in Typed : cmd[k].kind \in m[5]
    /\ foreign => m[6]
    /\ stopping # {} => m[7]
    /\ up # {} => m[8] \/ stopping = {}
OneMix == \E m \in Mixes : Within(m)
=============================================================================
