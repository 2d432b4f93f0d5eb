---------------------------- MODULE RoleDecision ----------------------------
(***************************************************************************)
(* Which instance is the hub: instances of one machine whose websocket.uri *)
(* names the same address (cluster/cross_server.py, and __init__.py from   *)
(* _read_cross_server_role to _stop_cross_server).                         *)
(*                                                                         *)
(* Every load makes a manager and a thread that decides the role, builds   *)
(* the link, and remembers the role.  stop() comes from the                *)
(* thread that unloads or restarts the link and waits two seconds for the  *)
(* decision at most, so a decision may outlive its load, beside the next   *)
(* one.  A manager is <<instance, load>>.                                  *)
(***************************************************************************)
EXTENDS Naturals, FiniteSets

CONSTANTS
    Insts,
    Forced,         \* instances with websocket.force_server
    MaxLoads        \* bound: loads of each instance

ASSUME LoadsBound == MaxLoads \in Nat \ {0}
ASSUME ForcedAreInstances == Forced \subseteq Insts

\* The identity and the role file are what an earlier server process left.
VARIABLES
    foreign,        \* something that is not GamesAI listens on the address
    listener,       \* managers whose hub listens on the address (one at most)
    loopback,       \* managers whose hub listens on 127.0.0.1 for the bot
    decide,         \* per manager: its thread, and the mode it settled on
    hub, node,      \* the manager's own references
    up,             \* managers whose node is connected to the hub
    stopping,       \* _stopping
    stopped,        \* managers whose stop() has taken hub and node
    current,        \* per instance: the load of _cross_server, or 0
    role,           \* the role file
    token           \* the instance has an identity

roleVars == <<foreign, listener, loopback, decide, hub, node, up, stopping, stopped,
              current, role, token>>

Managers == Insts \X (1..MaxLoads)
Modes == {"local", "server", "client"}
NoThread == [pc |-> "none", mode |-> "local", hint |-> "none", token |-> FALSE, moved |-> FALSE]
Of(i) == <<i, current[i]>>
Is(m) == current[m[1]] = m[2]                   \* _cross_server is manager
Free == listener = {} /\ ~foreign
Loads(i) == Cardinality({g \in 1..MaxLoads : decide[<<i, g>>].pc # "none"})

RoleInit ==
    /\ foreign = FALSE /\ listener = {} /\ loopback = {} /\ up = {}
    /\ decide = [m \in Managers |-> NoThread]
    /\ hub = [m \in Managers |-> "none"] /\ node = [m \in Managers |-> FALSE]
    /\ stopping = {} /\ stopped = {}
    /\ current = [i \in Insts |-> 0]
    /\ token \in [Insts -> BOOLEAN]
    /\ role = [i \in Insts |-> IF token[i] THEN "client" ELSE "none"]

At(m, pc) == decide[m].pc = pc
\* Sockets that close: without a hub on the address nobody is connected to it,
\* and a hub keeps one connection of a name, the newest.
Close(hubs, locals, nodes) ==
    /\ listener' = listener \ hubs /\ loopback' = loopback \ locals
    /\ up' = IF listener \ hubs = {} THEN {} ELSE up \ nodes
Connect(m) == up' = {n \in up : n[1] # m[1]} \cup {m}
Goto(m, pc) == decide' = [decide EXCEPT ![m].pc = pc]

-----------------------------------------------------------------------------
(* A load, and its thread up to the decision.                              *)

\* _start_cross_server.  The manager before it has been stopped.
Load(i) ==
    LET m == <<i, Loads(i) + 1>> IN
    /\ current[i] = 0 /\ Loads(i) < MaxLoads
    /\ \A g \in 1..Loads(i) : <<i, g>> \in stopped
    /\ current' = [current EXCEPT ![i] = m[2]]
    /\ decide' = [decide EXCEPT ![m].pc = "probe", ![m].token = token[i]]
    /\ UNCHANGED <<foreign, listener, loopback, hub, node, up, stopping, stopped, role, token>>

ThreadOnly == UNCHANGED <<foreign, listener, loopback, hub, node, up, stopping, stopped,
                          current, role, token>>

\* The role file is read, then the address is asked: a hub answers, something
\* else does, or nothing.  (Only an older decision of the same instance writes
\* the file in between; it might as well write it later.)  A former client asks
\* again until its grace period is over, which is any time here.
Probe(m) ==
    /\ At(m, "probe")
    /\ LET hint == role[m[1]]
           next == IF m[1] \in Forced THEN "free?"
                   ELSE IF listener # {} THEN "dial" ELSE IF foreign THEN "local"
                   ELSE IF decide[m].token /\ hint # "server" THEN "enrolled" ELSE "free?"
       IN decide' = [decide EXCEPT ![m].hint = hint, ![m].pc = next]
    /\ ThreadOnly

\* Mutant: an enrolled instance may become the hub like any other.
EnrolledMayBind(m) == At(m, "enrolled") /\ Goto(m, "free?") /\ ThreadOnly

\* An enrolled instance that was not the hub leaves a free port alone ...
EnrolledStaysClient(m) ==
    /\ At(m, "enrolled")
    /\ IF Free THEN Goto(m, "dial")
       ELSE decide' = [decide EXCEPT ![m].pc = "free?", ![m].moved = TRUE]
    /\ ThreadOnly

\* ... the second is_port_available decides between the hub and local mode.
DecideFree(m) ==
    /\ At(m, "free?")
    /\ Goto(m, IF Free THEN "bind" ELSE "local")
    /\ ThreadOnly

-----------------------------------------------------------------------------
(* Building the link.  A stop that came first ends the thread in local     *)
(* mode.  Each part is built, _abandon tests for a stop again, and then    *)
(* the reference is assigned under the lock.                               *)

StopRequested(m) ==
    /\ decide[m].pc \in {"bind", "dial", "local"} /\ m \in stopping
    /\ Goto(m, "report")
    /\ ThreadOnly

Building(m, pc) == At(m, pc) /\ m \notin stopping

\* Mutant: hub.start's failure is taken for a hub.
BindUnchecked(m) ==
    /\ Building(m, "bind") /\ Goto(m, "bound")
    /\ listener' = IF Free THEN {m} ELSE listener
    /\ UNCHANGED <<foreign, loopback, hub, node, up, stopping, stopped, current, role, token>>

Bind(m) ==
    /\ Building(m, "bind")
    /\ IF Free THEN listener' = {m} /\ Goto(m, "bound")
       ELSE Goto(m, "local") /\ UNCHANGED listener
    /\ UNCHANGED <<foreign, loopback, hub, node, up, stopping, stopped, current, role, token>>

BindLoopback(m) ==
    /\ Building(m, "local")
    /\ loopback' = loopback \cup {m} /\ Goto(m, "boundlocal")
    /\ UNCHANGED <<foreign, listener, hub, node, up, stopping, stopped, current, role, token>>

\* A hub knows the tokens of its own table; what an instance holds was made by the
\* hub of another one (node claim), so its own never takes it.
Accepted(m) == decide[m].token /\ \E h \in listener : h[1] # m[1]

\* node.start: the link comes up, or fails and is retried by an enrolled node;
\* a node without a token, or with one the hub does not know, stays local.
StartNode(m) ==
    /\ Building(m, "dial")
    /\ \/ Accepted(m) /\ Connect(m) /\ Goto(m, "dialled")
       \/ decide[m].token /\ Goto(m, "dialled") /\ UNCHANGED up
       \/ (decide[m].token => listener # {}) /\ Goto(m, "local") /\ UNCHANGED up
    /\ UNCHANGED <<foreign, listener, loopback, hub, node, stopping, stopped,
                   current, role, token>>

Abandon(m) ==
    /\ decide[m].pc \in {"bound", "boundlocal", "dialled"}
    /\ IF m \in stopping
       THEN Goto(m, "report") /\ Close({m}, {m}, {m})
       ELSE /\ Goto(m, CASE At(m, "bound") -> "assign"
                         [] At(m, "boundlocal") -> "assignlocal"
                         [] OTHER -> "assignnode")
            /\ UNCHANGED <<listener, loopback, up>>
    /\ UNCHANGED <<foreign, hub, node, stopping, stopped, current, role, token>>

Assign(m) ==
    /\ decide[m].pc \in {"assign", "assignlocal", "assignnode"}
    /\ hub' = [hub EXCEPT ![m] = CASE At(m, "assign") -> "shared"
                                   [] At(m, "assignlocal") -> "loopback" [] OTHER -> @]
    /\ node' = [node EXCEPT ![m] = @ \/ At(m, "assignnode")]
    /\ decide' = [decide EXCEPT ![m].pc = "report",
                                ![m].mode = CASE At(m, "assign") -> "server"
                                              [] At(m, "assignlocal") -> "local"
                                              [] OTHER -> "client"]
    /\ UNCHANGED <<foreign, listener, loopback, up, stopping, stopped, current, role, token>>

\* _decide goes on only while this manager is the instance's ...
Report(m) ==
    /\ At(m, "report")
    /\ Goto(m, IF Is(m) THEN "remember" ELSE "done")
    /\ ThreadOnly

\* ... and remembers its role without asking again.
Remember(m) ==
    /\ At(m, "remember") /\ Goto(m, "done")
    /\ role' = [role EXCEPT ![m[1]] = decide[m].mode]
    /\ UNCHANGED <<foreign, listener, loopback, hub, node, up, stopping, stopped, current, token>>

-----------------------------------------------------------------------------
(* Stopping, restarting, and what happens around an instance.              *)

\* _stop_cross_server up to stop()'s first line; node claim and node forget
\* change the identity and stop the link in one command.
StopBegins(i) ==
    /\ current[i] # 0
    /\ current' = [current EXCEPT ![i] = 0]
    /\ stopping' = stopping \cup {Of(i)}
    /\ UNCHANGED <<foreign, listener, loopback, decide, hub, node, up, stopped, role>>

Unload(i) == StopBegins(i) /\ UNCHANGED token
Claim(i) == /\ ~token[i] /\ \E m \in listener : m[1] # i
            /\ StopBegins(i) /\ token' = [token EXCEPT ![i] = TRUE]
Forget(i) == token[i] /\ StopBegins(i) /\ token' = [token EXCEPT ![i] = FALSE]

\* hub and node are taken under the lock and stopped.
StopTakes(m) ==
    /\ m \in stopping \ stopped
    /\ stopped' = stopped \cup {m}
    /\ hub' = [hub EXCEPT ![m] = "none"] /\ node' = [node EXCEPT ![m] = FALSE]
    /\ Close({n \in {m} : hub[n] = "shared"}, {n \in {m} : hub[n] = "loopback"},
             {n \in {m} : node[n]})
    /\ UNCHANGED <<foreign, decide, stopping, current, role, token>>

\* The process of an instance dies, with every thread and socket of it.
Crash(i) ==
    LET mine == {m \in Managers : m[1] = i} IN
    /\ current[i] # 0
    /\ Close(mine, mine, mine)
    /\ decide' = [m \in Managers |-> IF m \in mine /\ decide[m].pc # "none"
                                     THEN [decide[m] EXCEPT !.pc = "done"] ELSE decide[m]]
    /\ hub' = [m \in Managers |-> IF m \in mine THEN "none" ELSE hub[m]]
    /\ node' = [m \in Managers |-> node[m] /\ m \notin mine]
    /\ stopping' = stopping \cup {m \in mine : decide[m].pc # "none"}
    /\ stopped' = stopped \cup {m \in mine : decide[m].pc # "none"}
    /\ current' = [current EXCEPT ![i] = 0]
    /\ UNCHANGED <<foreign, role, token>>

Foreign == /\ foreign' = ~foreign /\ listener = {}
           /\ UNCHANGED <<listener, loopback, decide, hub, node, up, stopping, stopped,
                          current, role, token>>

\* The node's own loop: it reconnects while there is a hub, and links break.
Reconnect(m) ==
    /\ node[m] /\ m \notin up /\ Accepted(m) /\ Connect(m)
    /\ UNCHANGED <<foreign, listener, loopback, decide, hub, node, stopping, stopped,
                   current, role, token>>

Break(m) ==
    /\ m \in up /\ up' = up \ {m}
    /\ UNCHANGED <<foreign, listener, loopback, decide, hub, node, stopping, stopped,
                   current, role, token>>

RoleStep ==
    \/ \E i \in Insts : Load(i) \/ Unload(i) \/ Claim(i) \/ Forget(i)
    \/ \E m \in Managers :
          \/ Probe(m) \/ EnrolledStaysClient(m) \/ DecideFree(m) \/ StopRequested(m)
          \/ Bind(m) \/ BindLoopback(m) \/ StartNode(m) \/ Abandon(m) \/ Assign(m)
          \/ Report(m) \/ Remember(m) \/ StopTakes(m) \/ Reconnect(m) \/ Break(m)
    \/ Foreign

-----------------------------------------------------------------------------
(* Properties of the roles.                                                *)

RoleTypeOK ==
    /\ foreign \in BOOLEAN /\ listener \subseteq Managers /\ Cardinality(listener) <= 1
    /\ {loopback, up, stopping, stopped} \subseteq SUBSET Managers
    /\ decide \in [Managers -> [pc : {"none", "probe", "enrolled", "free?",
                       "bind", "bound", "assign", "local", "boundlocal", "assignlocal", "dial",
                       "dialled", "assignnode", "report", "remember", "done"},
                       mode : Modes, hint : Modes \cup {"none"}, token : BOOLEAN, moved : BOOLEAN]]
    /\ hub \in [Managers -> {"none", "shared", "loopback"}] /\ node \in [Managers -> BOOLEAN]
    /\ current \in [Insts -> 0..MaxLoads] /\ token \in [Insts -> BOOLEAN]
    /\ role \in [Insts -> Modes \cup {"none"}]

\* An enrolled node that the role file knows as a client never listens on the
\* hub's address, over reloads, crashes and whatever the other instances do,
\* unless the port was freed between the two looks at it (decide_mode).
ClientsStayClients ==
    \A m \in listener :
        decide[m].token /\ m[1] \notin Forced /\ ~decide[m].moved => decide[m].hint = "server"

\* The same with nothing excused: "an enrolled instance never takes the hub role"
\* unless its own role memory says server.
EnrolledNeverHub ==
    \A m \in listener : decide[m].token /\ m[1] \notin Forced => decide[m].hint = "server"

\* Of the loaded instances whose decision is over, each has the link its mode
\* says: the hub it serves, the node that dials, or the loopback hub of the bot.
RoleMatchesLink ==
    \A i \in Insts :
        LET m == Of(i) IN
        current[i] # 0 /\ decide[m].pc \in {"remember", "done"} =>
            /\ decide[m].mode = "server" <=> hub[m] = "shared"
            /\ decide[m].mode = "client" <=> node[m]
            /\ hub[m] = "shared" <=> m \in listener
            /\ hub[m] = "loopback" <=> m \in loopback

\* What an unload leaves behind once its decision is over: no listener.
NoListenerLeft ==
    \A m \in stopped : At(m, "done") => m \notin listener \cup loopback \cup up
=============================================================================
