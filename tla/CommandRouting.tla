--------------------------- MODULE CommandRouting ---------------------------
(***************************************************************************)
(* Where a typed command runs and who sees its answer (__init__.py, from   *)
(* _raw_command to _on_cross_message, and the session registry of          *)
(* cluster/ws_command.py), over instances whose roles change underneath.   *)
(*                                                                         *)
(* A command of the hub's class runs on the hub; a cluster command runs on *)
(* the hub and is broadcast to every node.  The thread that routes reads   *)
(* the role and the link several times; what it hands over runs on a       *)
(* thread of the instance that gets it.  Every command has one answer.     *)
(***************************************************************************)
EXTENDS RoleDecision, Sequences, SequencesExt

CONSTANTS
    Cmds,           \* commands a user types
    MaxSessions     \* MAX_SESSIONS of the registry

ASSUME SessionsBound == MaxSessions \in Nat \ {0}

VARIABLES
    cmd,            \* per command: its thread, where it was typed, its class, its session
    session,        \* per instance: _sessions, the oldest first
    minted,         \* per instance: _counter
    wire,           \* frames under way between the hub and its nodes
    job,            \* threads that run a command of another instance
    ran,            \* per command and instance: how often its handler ran
    shown,          \* answers shown: <<whose command, where, to whose typist>>
    toolRan         \* routed tool calls that ran: <<whose command, where>>

routeVars == <<cmd, session, minted, wire, job, ran, shown, toolRan>>
vars == <<roleVars, routeVars>>

Kinds == {"server", "cluster"}
NoCmd == [pc |-> "none", at |-> "nowhere", kind |-> "server", sid |-> <<>>]

NothingTyped ==
    /\ cmd = [c \in Cmds |-> NoCmd]
    /\ session = [i \in Insts |-> <<>>] /\ minted = [i \in Insts |-> 0]
    /\ wire = {} /\ job = {}
    /\ ran = [c \in Cmds |-> [i \in Insts |-> 0]] /\ shown = {}
    /\ toolRan = {}

Init == RoleInit /\ NothingTyped

\* What a thread of an instance reads of its link.
Linked(i) == current[i] # 0
HasHub(i) == Linked(i) /\ hub[Of(i)] # "none"
IsClient(i) == Linked(i) /\ decide[Of(i)].mode = "client"
Connected(i) == /\ Linked(i)
                /\ IF HasHub(i) THEN Of(i) \in listener \cup loopback
                   ELSE node[Of(i)] /\ Of(i) \in up

-----------------------------------------------------------------------------
(* Sessions.                                                               *)

\* Mutant: every instance counts from one.
SessionIdUntagged(i) == <<"", minted[i] + 1>>

\* The registry's random tag makes an id unique in the cluster.
SessionId(i) == <<i, minted[i] + 1>>

\* SessionRegistry.new: sweeping after the insert drops what is too old (any
\* number of the oldest) and what is beyond the cap.
NewSession(i, c) ==
    LET all == Append(session[i], [sid |-> SessionId(i), cmd |-> c])
    IN \E n \in 0..(Len(all) - 1) :
          /\ Len(all) - n <= MaxSessions
          /\ session' = [session EXCEPT ![i] = SubSeq(all, n + 1, Len(all))]
          /\ minted' = [minted EXCEPT ![i] = @ + 1]

\* SessionRegistry.get
Typists(i, sid) == {s.cmd : s \in {t \in ToSet(session[i]) : t.sid = sid}}
Show(c, i, sid) == shown' = shown \cup {<<c, i, d>> : d \in Typists(i, sid)}

-----------------------------------------------------------------------------
(* The thread of a typed command: _route's dispatch.                       *)

CmdAt(c, pc) == cmd[c].pc = pc
CmdGoto(c, pc) == cmd' = [cmd EXCEPT ![c].pc = pc]
NewThread(i, c) == [cmd |-> c, at |-> i, sid |-> cmd[c].sid, pc |-> "run",
                    told |-> "nothing"]

Type(c, i, kind) ==
    /\ CmdAt(c, "none") /\ Linked(i)
    /\ cmd' = [cmd EXCEPT ![c] = [NoCmd EXCEPT !.pc = "typed", !.at = i, !.kind = kind]]
    /\ UNCHANGED <<roleVars, session, minted, wire, job, ran, shown, toolRan>>

\* _should_forward
ShouldForward(c) ==
    /\ CmdAt(c, "typed")
    /\ LET i == cmd[c].at IN CmdGoto(c, IF IsClient(i) /\ Connected(i) THEN "forward" ELSE "link")
    /\ UNCHANGED <<roleVars, session, minted, wire, job, ran, shown, toolRan>>

\* _client_link_is_down asks again; the refusal is one line to the typist.
ClientLinkIsDown(c) ==
    /\ CmdAt(c, "link")
    /\ LET i == cmd[c].at IN CmdGoto(c, IF IsClient(i) /\ ~Connected(i) THEN "refused" ELSE "run")
    /\ UNCHANGED <<roleVars, session, minted, wire, job, ran, shown, toolRan>>

RunHere(c) ==
    /\ CmdAt(c, "run")
    /\ ran' = [ran EXCEPT ![c][cmd[c].at] = @ + 1]
    /\ CmdGoto(c, IF cmd[c].kind = "cluster" THEN "fan" ELSE "over")
    /\ UNCHANGED <<roleVars, session, minted, wire, job, shown, toolRan>>

\* Frames of a broadcast by instance i.  Only a hub on the shared address has
\* peers that run commands.
Broadcast(i, c, sid) ==
    {[type |-> "exec", cmd |-> c, sid |-> sid, via |-> m, dir |-> "down", to |-> m[1]] :
        m \in {n \in up : HasHub(i) /\ Of(i) \in listener}}

FanOut(c) ==
    /\ CmdAt(c, "fan")
    /\ LET i == cmd[c].at IN
       IF HasHub(i)
       THEN /\ NewSession(i, c)
            /\ cmd' = [cmd EXCEPT ![c].pc = "over", ![c].sid = SessionId(i)]
            /\ wire' = wire \cup Broadcast(i, c, SessionId(i))
       ELSE CmdGoto(c, "over") /\ UNCHANGED <<session, minted, wire>>
    /\ UNCHANGED <<roleVars, job, ran, shown, toolRan>>

\* _forward_command up to the session ...
ForwardOpens(c) ==
    /\ CmdAt(c, "forward")
    /\ NewSession(cmd[c].at, c)
    /\ cmd' = [cmd EXCEPT ![c].pc = "send", ![c].sid = SessionId(cmd[c].at)]
    /\ UNCHANGED <<roleVars, wire, job, ran, shown, toolRan>>

\* ... and its second half.  An instance that became the hub meanwhile hands the
\* command to its own _on_cross_message.
ForwardSends(c) ==
    /\ CmdAt(c, "send")
    /\ LET i == cmd[c].at  sid == cmd[c].sid IN
       CASE ~Connected(i) ->
              /\ session' = [session EXCEPT ![i] = RemoveFirst(@, [sid |-> sid, cmd |-> c])]
              /\ CmdGoto(c, "refused") /\ UNCHANGED <<wire, job>>
         [] Connected(i) /\ ~HasHub(i) ->
              /\ wire' = wire \cup {[type |-> "command", cmd |-> c, sid |-> sid,
                                     via |-> Of(i), dir |-> "up", to |-> i]}
              /\ CmdGoto(c, "over") /\ UNCHANGED <<session, job>>
         [] OTHER ->
              /\ job' = job \cup {NewThread(i, c)}
              /\ wire' = IF cmd[c].kind = "cluster" THEN wire \cup Broadcast(i, c, sid) ELSE wire
              /\ CmdGoto(c, "over") /\ UNCHANGED session
    /\ UNCHANGED <<roleVars, minted, ran, shown, toolRan>>

-----------------------------------------------------------------------------
(* The other instances: _on_cross_message on a link thread, and the        *)
(* threads it starts.                                                      *)

\* The hub runs a command that a node handed over, and lets every node run a
\* cluster command, the one that typed it included.
HubReads(f) ==
    /\ f \in wire /\ f.dir = "up" /\ f.type = "command"
    /\ \E m \in listener :
          /\ job' = job \cup {NewThread(m[1], f.cmd)}
          /\ wire' = (wire \ {f}) \cup
                     (IF cmd[f.cmd].kind = "cluster" THEN Broadcast(m[1], f.cmd, f.sid) ELSE {})
    /\ UNCHANGED <<roleVars, cmd, session, minted, ran, shown, toolRan>>

NodeReads(f) ==
    /\ f \in wire /\ f.dir = "down" /\ f.type = "exec"
    /\ wire' = wire \ {f}
    /\ job' = job \cup {NewThread(f.to, f.cmd)}
    /\ UNCHANGED <<roleVars, cmd, session, minted, ran, shown, toolRan>>

\* Mutant: the source of a remote command tells its line, so it fans out too.
RunJobAndFanOut(j) ==
    /\ j \in job /\ j.pc = "run"
    /\ ran' = [ran EXCEPT ![j.cmd][j.at] = @ + 1]
    /\ job' = (job \ {j}) \cup {[j EXCEPT !.pc = "answer"]}
    /\ wire' = IF cmd[j.cmd].kind = "cluster"
               THEN wire \cup Broadcast(j.at, j.cmd, j.sid) ELSE wire
    /\ UNCHANGED <<roleVars, cmd, session, minted, shown, toolRan>>

\* _run_remote_command.  Its source has no line of its own: it is neither
\* forwarded nor fanned out.
RunJob(j) ==
    /\ j \in job /\ j.pc = "run"
    /\ ran' = [ran EXCEPT ![j.cmd][j.at] = @ + 1]
    /\ job' = (job \ {j}) \cup {[j EXCEPT !.pc = "answer"]}
    /\ UNCHANGED <<roleVars, cmd, session, minted, wire, shown, toolRan>>

\* A frame towards instance t, from instance i or through the hub at i.
Towards(type, i, t, c, sid) ==
    LET vias == IF HasHub(i) THEN {n \in up : Of(i) \in listener /\ n[1] = t}
                ELSE {n \in up : Linked(i) /\ n = Of(i) /\ node[n]}
    IN {[type |-> type, cmd |-> c, sid |-> sid, via |-> n,
         dir |-> IF HasHub(i) THEN "down" ELSE "up", to |-> t] : n \in vias}

\* _local_sink: whoever knows the session shows the answer, anybody else sends
\* it to the instance that asked.
Answer(j) ==
    /\ j \in job /\ j.pc = "answer" /\ job' = job \ {j}
    /\ Show(j.cmd, j.at, j.sid)
    /\ wire' = IF Typists(j.at, j.sid) # {} THEN wire
               ELSE wire \cup Towards("reply", j.at, cmd[j.cmd].at, j.cmd, j.sid)
    /\ UNCHANGED <<roleVars, cmd, session, minted, ran, toolRan>>

\* A frame for an instance, at the hub: for the hub itself, or for another node.
HubRelays(f) ==
    /\ f \in wire /\ f.dir = "up" /\ f.type \in {"reply", "tool"}
    /\ \E m \in listener :
          IF f.to = m[1]
          THEN f.type = "reply" /\ Show(f.cmd, f.to, f.sid) /\ wire' = wire \ {f}
          ELSE /\ wire' = (wire \ {f}) \cup
                  {[f EXCEPT !.via = n, !.dir = "down"] : n \in {k \in up : k[1] = f.to}}
               /\ UNCHANGED shown
    /\ UNCHANGED <<roleVars, cmd, session, minted, job, ran, toolRan>>

\* _render_remote_reply
RenderRemoteReply(f) ==
    /\ f \in wire /\ f.dir = "down" /\ f.type = "reply"
    /\ wire' = wire \ {f} /\ Show(f.cmd, f.to, f.sid)
    /\ UNCHANGED <<roleVars, cmd, session, minted, job, ran, toolRan>>

-----------------------------------------------------------------------------
(* A tool call of the AI round that a command started on the hub, routed   *)
(* back to the instance that typed it (dispatch_tool_call).                *)

Becomes(j, pc, told) == job' = (job \ {j}) \cup {[j EXCEPT !.pc = pc, !.told = told]}

\* route_remote_tool_call up to its send: without a link, or for the hub's own
\* name, the model is told that the tool was not executed.
RouteTool(j) ==
    /\ j \in job /\ j.pc = "answer" /\ j.told = "nothing" /\ cmd[j.cmd].kind = "server"
    /\ IF Connected(j.at) /\ cmd[j.cmd].at # j.at
       THEN Becomes(j, "send", "nothing") ELSE Becomes(j, "answer", "not executed")
    /\ UNCHANGED <<roleVars, cmd, session, minted, wire, ran, shown, toolRan>>

SendTool(j) ==
    /\ j \in job /\ j.pc = "send"
    /\ LET frames == Towards("tool", j.at, cmd[j.cmd].at, j.cmd, j.sid) IN
       /\ wire' = wire \cup frames
       /\ IF frames # {} THEN Becomes(j, "wait", "nothing")
          ELSE Becomes(j, "answer", "not executed")
    /\ UNCHANGED <<roleVars, cmd, session, minted, ran, shown, toolRan>>

\* _execute_remote_tool at the other end: a hub refuses.  The reply may get lost
\* (RemoteCall).
ExecuteTool(f) ==
    /\ f \in wire /\ f.type = "tool" /\ wire' = wire \ {f}
    /\ f.dir = "down" \/ \E m \in listener : m[1] = f.to
    /\ LET refused == Linked(f.to) /\ decide[Of(f.to)].mode = "server" IN
       /\ toolRan' = IF refused THEN toolRan ELSE toolRan \cup {<<f.cmd, f.to>>}
       /\ \/ UNCHANGED job
          \/ \E j \in job : /\ j.cmd = f.cmd /\ j.pc = "wait"
                            /\ Becomes(j, "answer", IF refused THEN "not executed" ELSE "result")
    /\ UNCHANGED <<roleVars, cmd, session, minted, ran, shown>>

\* Mutant: no answer is taken for no execution.
ToolNotExecuted(j) ==
    /\ j \in job /\ j.pc = "wait" /\ Becomes(j, "answer", "not executed")
    /\ UNCHANGED <<roleVars, cmd, session, minted, wire, ran, shown, toolRan>>

\* The timeout, or a link that drops: an unknown outcome.
ToolUnknown(j) ==
    /\ j \in job /\ j.pc = "wait" /\ Becomes(j, "answer", "unknown")
    /\ UNCHANGED <<roleVars, cmd, session, minted, wire, ran, shown, toolRan>>

-----------------------------------------------------------------------------
\* What a step of the roles does to the commands: frames of a connection that
\* closed are lost, an unload clears the sessions, a dead process has no threads.
LinkFollows(dead) ==
    LET left == {i \in Insts : current[i] # 0 /\ current'[i] = 0} IN
    /\ wire' = {f \in wire : f.via \in up' /\ listener' = listener}
    /\ session' = [i \in Insts |-> IF i \in left THEN <<>> ELSE session[i]]
    /\ cmd' = [c \in Cmds |-> IF cmd[c].at \in dead /\ ~CmdAt(c, "none")
                              THEN [cmd[c] EXCEPT !.pc = "over"] ELSE cmd[c]]
    /\ job' = {j \in job : j.at \notin dead}
    /\ UNCHANGED <<minted, ran, shown, toolRan>>

Next ==
    \/ RoleStep /\ LinkFollows({})
    \/ \E i \in Insts : Crash(i) /\ LinkFollows({i})
    \/ \E c \in Cmds :
          \/ \E i \in Insts, kind \in Kinds : Type(c, i, kind)
          \/ ShouldForward(c) \/ ClientLinkIsDown(c) \/ RunHere(c) \/ FanOut(c)
          \/ ForwardOpens(c) \/ ForwardSends(c)
    \/ \E f \in wire : HubReads(f) \/ NodeReads(f) \/ HubRelays(f) \/ RenderRemoteReply(f)
                        \/ ExecuteTool(f)
    \/ \E j \in job : \/ RunJob(j) \/ Answer(j)
                      \/ RouteTool(j) \/ SendTool(j) \/ ToolUnknown(j)

Spec == Init /\ [][Next]_vars

-----------------------------------------------------------------------------
(* Properties.                                                             *)

Frames == [type : {"command", "exec", "reply", "tool"}, cmd : Cmds, sid : Insts \X Nat,
           via : Managers, dir : {"up", "down"}, to : Insts]

TypeOK ==
    /\ RoleTypeOK
    /\ \A c \in Cmds : /\ cmd[c].pc \in {"none", "typed", "link", "run", "fan", "forward",
                                         "send", "over", "refused"}
                       /\ cmd[c].at \in Insts \cup {"nowhere"} /\ cmd[c].kind \in Kinds
    /\ \A i \in Insts : Len(session[i]) <= MaxSessions
    /\ minted \in [Insts -> Nat] /\ wire \subseteq Frames
    /\ \A f \in wire : f.via \in up
    /\ \A c \in Cmds : ran[c] \in [Insts -> Nat]

\* However the roles change while it is under way, a command's handler runs at
\* most once on an instance, a command of the hub's class on one instance only,
\* and a command that was refused nowhere (_route, _fan_out_cluster).
RunsOnce ==
    \A c \in Cmds :
        /\ \A i \in Insts : ran[c][i] <= 1
        /\ cmd[c].kind = "server" => Cardinality({i \in Insts : ran[c][i] > 0}) <= 1
        /\ CmdAt(c, "refused") => \A i \in Insts : ran[c][i] = 0

\* An answer is only ever shown to who typed the command, although every
\* instance shows what carries a session id it knows (SessionRegistry).
AnswersStayWithTheTypist ==
    \A a \in shown : a[1] = a[3] /\ cmd[a[1]].at = a[2]

\* A routed tool runs where the command was typed and nowhere else, and never if
\* the model was told that it was not executed (route_remote_tool_call).
ToolsRunAtHome ==
    /\ \A t \in toolRan : t[2] = cmd[t[1]].at
    /\ \A j \in job : j.told = "not executed" => <<j.cmd, cmd[j.cmd].at>> \notin toolRan

\* "A client whose link is down has nothing to hand them to and must not run
\* them with its own state" (_route): no client decides to run one itself.
ClientNeverRunsOwn ==
    [][\A c \in Cmds : CmdAt(c, "link") /\ IsClient(cmd[c].at) => cmd'[c].pc # "run"]_vars
=============================================================================
