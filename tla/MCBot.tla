------------------------------- MODULE MCBot -------------------------------
(* The bot for TLC: the threads that start, stop and replace its process    *)
(* (BotProcess), or one controller's tasks (BotController).  They share     *)
(* nothing, so a behaviour is one of the two.  One entry per mix: the       *)
(* threads that run, and how many processes start and die; one per load:    *)
(* tasks delegated, stops typed, and how often the model replies.           *)
EXTENDS BotProcess, BotController, TLC

CONSTANTS boot, reload1, reload2, claim, unload, repair,
          t1, t2, t3, s1, s2, p, q

MCPlayerOf == t1 :> p @@ t2 :> q @@ t3 :> q @@ s1 :> p @@ s2 :> q

Mixes == {<<{boot, reload1, unload}, 2, 1>>,            \* the process dies
          <<{boot, reload1, reload2}, 3, 0>>,           \* one reload after another
          <<{boot, reload1, claim}, 3, 0>>,             \* the hub moves meanwhile
          <<{boot, claim, unload}, 3, 0>>,
          <<{boot, reload1, repair, unload}, 3, 0>>,    \* the packages are repaired
          <<{boot, claim, repair, unload}, 3, 0>>,
          <<{boot, repair, unload}, 3, 1>>}             \* ... of one that died

\* Tasks delegated and stops typed.
Loads == {<<{t1, t2, t3}, {s1}, 2>>, <<{t1, t2}, {s1, s2}, 3>>}

Within(m) ==
    /\ {t \in Threads : pc[t] # "idle"} \subseteq m[1]
    /\ started <= m[2] /\ deaths <= m[3]
Loaded(m) ==
    /\ {t \in Tasks : fate[t] # "new"} \subseteq m[1]
    /\ {s \in Stops : stop[s].pc # "typed"} \subseteq m[2]
    /\ replies <= m[3]
OneMix == (\E m \in Mixes : Within(m)) /\ \E m \in Loads : Loaded(m)

Quiet == /\ fate = [t \in Tasks |-> "new"] /\ loop = "idle" /\ ~stopping /\ replies = 0
         /\ \A s \in Stops : stop[s].pc = "typed"

MCInit == Init /\ BotInit
MCNext == \/ Quiet /\ ProcNext /\ UNCHANGED botVars
          \/ pc = [t \in Threads |-> "idle"] /\ ~serverUp /\ ~enabled
             /\ BotNext /\ UNCHANGED vars
Spec == MCInit /\ [][MCNext]_<<vars, botVars>>
=============================================================================
