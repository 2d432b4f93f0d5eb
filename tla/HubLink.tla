------------------------------- MODULE HubLink -------------------------------
(***************************************************************************)
(* The cross-server link: the hub (CrossServerHub), the node of every      *)
(* other server (CrossServerNode), and the calls that wait for a reply.    *)
(*                                                                         *)
(*   the hub    one thread per connection (_handler): handshake, register, *)
(*              serve frames, unregister; callers of its own; stop()       *)
(*   a node     one link thread (_run): dial, handshake, session, retry;   *)
(*              callers of its own; stop(), and a new node after it        *)
(*   the wire   two queues per connection, and for each end whether it     *)
(*              still believes in it                                       *)
(*                                                                         *)
(* A connection breaks at one end first; the other end sends into nothing  *)
(* until it notices.  Frames that an end has not read when it leaves are   *)
(* lost.  Tokens are the subject of the enrolment: every hello here is     *)
(* accepted.  Every server has a name of its own, the hub included.        *)
(***************************************************************************)
EXTENDS Naturals, Sequences

CONSTANTS
    Nodes,          \* the servers that dial the hub
    Hub, None,
    Calls,          \* send(..., wait=True), each made at most once
    MaxLinks,       \* bound: connections one node makes
    MaxBreaks,      \* bound: connections that break by themselves
    MaxLives        \* bound: node objects one server builds

Conns   == Nodes \X (1..MaxLinks)       \* a node's connections, in order
Node(c) == c[1]
Replies == {"ran", "refused"}
Answers == Replies \cup {"unknown"}

ASSUME NamesDiffer == Hub \notin Nodes /\ None \notin Nodes \cup {Hub} \cup Conns \cup Answers
ASSUME LinkBounds  == MaxLinks \in Nat /\ MaxBreaks \in Nat /\ MaxLives \in Nat \ {0}

VARIABLES
    hub,            \* "up", "cleared" or "aborted" (inside stop()), "down"
    peers,          \* _peers of the hub: the connection of each name
    handler,        \* where the hub's thread of a connection is
    listed, unsent, \* _push_peers: who is listed, who is still to be told
    hubPending,     \* _pending of the hub
    toClose,        \* connections that stop() took out of the table
    previous,       \* the connection a newly registered one has to close
    link,           \* where a node's link thread is
    dialled,        \* how many connections a node has made
    linked,         \* its _conn is set (to the newest connection)
    nodePeers,      \* its _peers
    nodePending,    \* its _pending
    fatal,          \* its _fatal is set
    stopping,       \* its _stopping is set
    life, lastRid,  \* which node object it is, and that object's _rid
    hubUp, nodeUp,  \* each end still believes in the connection
    closed4003,     \* the node's end was closed with CLOSE_REPLACED
    up, down,       \* frames under way to the hub, and to the node
    call,           \* where a caller is inside send()
    from, to,       \* its server and its target
    via,            \* the connection it took
    madeBy, rid,    \* the node object it belongs to, and its request_id
    box,            \* the reply slot; None until something was put in
    answer,         \* what send() returned
    runs,           \* how often the handler at the target ran it
    \* The rest only records the past; no action reads it.
    breaks,         \* connections broken so far
    replaced,       \* connections that a newer one has taken over
    crossed,        \* calls that were given the reply to another one
    overlapped      \* two lists of peers were on their way at once

hubVars  == <<hub, peers, handler, listed, unsent, hubPending, toClose,
              previous>>
nodeVars == <<link, dialled, linked, nodePeers, nodePending, fatal, stopping,
              life, lastRid>>
wireVars == <<hubUp, nodeUp, closed4003, up, down>>
callVars == <<call, from, to, via, madeBy, rid, box, answer, runs>>
pastVars == <<breaks, replaced, crossed, overlapped>>
vars == <<hubVars, nodeVars, wireVars, callVars, pastVars>>

Cur(n) == <<n, dialled[n]>>             \* the newest connection of a node
Online == {n \in Nodes : peers[n] # None}

Frames ==
    {<<"ack", S>> : S \in SUBSET Nodes} \cup {<<"list", S>> : S \in SUBSET Nodes}
      \cup {<<"call", k>> : k \in Calls}
      \cup {<<"reply", k, a>> : k \in Calls, a \in Replies}

Pushing == {"push", "byePush"}
Init ==
    /\ hub = "up"
    /\ peers = [n \in Nodes |-> None]
    /\ handler = [c \in Conns |-> "none"]
    /\ listed = [c \in Conns |-> {}]
    /\ unsent = [c \in Conns |-> {}]
    /\ hubPending = {}
    /\ toClose = {}
    /\ previous = [c \in Conns |-> None]
    /\ link = [n \in Nodes |-> "off"]
    /\ dialled = [n \in Nodes |-> 0]
    /\ linked = [n \in Nodes |-> FALSE]
    /\ nodePeers = [n \in Nodes |-> {}]
    /\ nodePending = [n \in Nodes |-> {}]
    /\ fatal = [n \in Nodes |-> FALSE]
    /\ stopping = [n \in Nodes |-> FALSE]
    /\ life = [n \in Nodes |-> 1]
    /\ lastRid = [n \in Nodes |-> 0]
    /\ hubUp = [c \in Conns |-> FALSE]
    /\ nodeUp = [c \in Conns |-> FALSE]
    /\ closed4003 = {}
    /\ up = [c \in Conns |-> <<>>]
    /\ down = [c \in Conns |-> <<>>]
    /\ call = [k \in Calls |-> "new"]
    /\ from = [k \in Calls |-> None]
    /\ to = [k \in Calls |-> None]
    /\ via = [k \in Calls |-> None]
    /\ madeBy = [k \in Calls |-> 0]
    /\ rid = [k \in Calls |-> 0]
    /\ box = [k \in Calls |-> None]
    /\ answer = [k \in Calls |-> None]
    /\ runs = [k \in Calls |-> 0]
    /\ breaks = 0
    /\ replaced = {}
    /\ crossed = {}
    /\ overlapped = FALSE

\* send() of either end: nothing reaches an end that has left.
SendDown(q, c, f) == IF hubUp[c] /\ nodeUp[c] THEN [q EXCEPT ![c] = Append(@, f)] ELSE q
SendUp(q, c, f)   == IF hubUp[c] /\ nodeUp[c] THEN [q EXCEPT ![c] = Append(@, f)] ELSE q

\* Mutation: a call whose link dropped is reported as failed.
WokenAsFailed(K) == [k \in Calls |-> IF k \in K THEN "refused" ELSE box[k]]

\* _abort_pending: take the calls out and wake them, the outcome is unknown.
Woken(K) == [k \in Calls |-> IF k \in K THEN "unknown" ELSE box[k]]

-----------------------------------------------------------------------------
(* The hub's thread of a connection: _handler. *)

At(c, from_) == handler[c] = from_
Step(c, l) == handler' = [handler EXCEPT ![c] = l]

\* The hello was read and accepted: the name now means this connection.
Register(c) ==
    LET had == peers[Node(c)]
    IN  /\ At(c, "hello")
        /\ hubUp[c]
        /\ peers' = [peers EXCEPT ![Node(c)] = c]
        /\ previous' = [previous EXCEPT ![c] = had]
        /\ replaced' = IF had = None THEN replaced ELSE replaced \cup {had}
        /\ Step(c, IF had = None THEN "ack" ELSE "replace")
        /\ UNCHANGED <<hub, listed, unsent, hubPending, toClose, nodeVars, wireVars,
                       callVars, breaks, crossed, overlapped>>

\* The lock is free again: close the connection that had the name.
CloseReplaced(c) ==
    LET had == previous[c]
    IN  /\ At(c, "replace")
        /\ hubUp' = [hubUp EXCEPT ![had] = FALSE]
        /\ closed4003' = IF hubUp[had] /\ nodeUp[had] THEN closed4003 \cup {had} ELSE closed4003
        /\ previous' = [previous EXCEPT ![c] = None]
        /\ Step(c, "ack")
        /\ UNCHANGED <<hub, peers, listed, unsent, hubPending, toClose, nodeVars, nodeUp,
                       up, down, callVars, pastVars>>

\* The client never sent its hello.
NoHello(c) ==
    /\ At(c, "hello")
    /\ ~hubUp[c]
    /\ Step(c, "done")
    /\ UNCHANGED <<hub, peers, listed, unsent, hubPending, toClose, previous, nodeVars,
                   wireVars, callVars, pastVars>>

SendAck(c) ==
    /\ At(c, "ack")
    /\ down' = SendDown(down, c, <<"ack", Online \ {Node(c)}>>)
    /\ Step(c, "list")
    /\ UNCHANGED <<hub, peers, listed, unsent, hubPending, toClose, previous, nodeVars,
                   hubUp, nodeUp, up, closed4003, callVars, pastVars>>

\* Where the thread goes on when it has told everybody.
AfterPush(c) == IF handler[c] \in {"list", "push"} THEN "serve" ELSE "done"

\* _push_peers, first half: under the lock, who is online.
ListPeers(c) ==
    /\ handler[c] \in {"list", "bye"}
    /\ listed' = [listed EXCEPT ![c] = Online]
    /\ unsent' = [unsent EXCEPT ![c] = {peers[n] : n \in Online}]
    /\ overlapped' = (overlapped \/ \E d \in Conns : handler[d] \in Pushing)
    /\ Step(c, CASE Online = {}    -> AfterPush(c)
                 [] At(c, "list") -> "push"
                 [] OTHER         -> "byePush")
    /\ UNCHANGED <<hub, peers, hubPending, toClose, previous, nodeVars, wireVars, callVars,
                   breaks, replaced, crossed>>

\* Second half: tell them one by one, the lock is free.
PushList(c, d) ==
    /\ handler[c] \in Pushing
    /\ d \in unsent[c]
    /\ down' = SendDown(down, d, <<"list", listed[c] \ {Node(d)}>>)
    /\ unsent' = [unsent EXCEPT ![c] = @ \ {d}]
    /\ IF unsent[c] = {d}
       THEN Step(c, AfterPush(c)) /\ listed' = [listed EXCEPT ![c] = {}]
       ELSE UNCHANGED <<handler, listed>>
    /\ UNCHANGED <<hub, peers, hubPending, toClose, previous, nodeVars, hubUp, nodeUp, up,
                   closed4003, callVars, pastVars>>

\* A node's call: the hub runs it itself, relays it, or answers that it knows
\* no such target.
ServeCall(c, k) ==
    LET d == IF to[k] = Hub THEN None ELSE peers[to[k]]
        rest == [up EXCEPT ![c] = Tail(@)]
    IN  /\ At(c, "serve")
        /\ up[c] # <<>> /\ Head(up[c]) = <<"call", k>>
        /\ up' = rest
        /\ IF to[k] = Hub
           THEN /\ runs' = [runs EXCEPT ![k] = @ + 1]
                /\ down' = SendDown(down, c, <<"reply", k, "ran">>)
           ELSE /\ down' = IF d # None /\ hubUp[d]
                           THEN SendDown(down, d, <<"call", k>>)
                           ELSE SendDown(down, c, <<"reply", k, "refused">>)
                /\ UNCHANGED runs
        /\ UNCHANGED <<hubVars, nodeVars, hubUp, nodeUp, closed4003, call, from, to, via,
                       madeBy, rid, box, answer, pastVars>>

\* A node's reply: wake the hub's own caller, or pass it on to the server that
\* asked.  A late one finds nobody.
ServeReply(c, k) ==
    /\ At(c, "serve")
    /\ up[c] # <<>> /\ Head(up[c]) = <<"reply", k, "ran">>
    /\ up' = [up EXCEPT ![c] = Tail(@)]
    /\ IF from[k] = Hub
       THEN /\ box' = IF k \in hubPending THEN [box EXCEPT ![k] = "ran"] ELSE box
            /\ UNCHANGED down
       ELSE /\ down' = IF peers[from[k]] = None THEN down
                       ELSE SendDown(down, peers[from[k]], Head(up[c]))
            /\ UNCHANGED box
    /\ UNCHANGED <<hubVars, nodeVars, hubUp, nodeUp, closed4003, call, from, to, via, madeBy,
                   rid, answer, runs, pastVars>>

\* Mutation: the name is given up by any connection that had it.
LeaveAnyway(c) ==
    /\ At(c, "serve")
    /\ ~hubUp[c]
    /\ peers' = [peers EXCEPT ![Node(c)] = None]
    /\ Step(c, "left")
    /\ up' = [up EXCEPT ![c] = <<>>]
    /\ UNCHANGED <<hub, listed, unsent, hubPending, toClose, previous, nodeVars, hubUp,
                   nodeUp, down, closed4003, callVars, pastVars>>

\* The connection is over.  Only the one that still has the name gives it up
\* and goes on to wake the callers.
Leave(c) ==
    /\ At(c, "serve")
    /\ ~hubUp[c]
    /\ IF peers[Node(c)] = c
       THEN peers' = [peers EXCEPT ![Node(c)] = None] /\ Step(c, "left")
       ELSE UNCHANGED peers /\ Step(c, "done")
    /\ up' = [up EXCEPT ![c] = <<>>]
    /\ UNCHANGED <<hub, listed, unsent, hubPending, toClose, previous, nodeVars, hubUp,
                   nodeUp, down, closed4003, callVars, pastVars>>

\* Mutation: nobody is woken when a peer leaves.
AbortPeerForgets(c) ==
    /\ At(c, "left")
    /\ Step(c, "bye")
    /\ UNCHANGED <<hub, peers, listed, unsent, hubPending, toClose, previous, nodeVars, wireVars,
                   callVars, pastVars>>

\* Mutation: the other servers are not told that a peer left.
AbortPeerSilently(c) ==
    LET doomed == {k \in hubPending : to[k] = Node(c)}
    IN  /\ At(c, "left")
        /\ box' = Woken(doomed)
        /\ hubPending' = hubPending \ doomed
        /\ Step(c, "done")
        /\ UNCHANGED <<hub, peers, listed, unsent, toClose, previous, nodeVars, wireVars,
                       call, from, to, via, madeBy, rid, answer, runs, pastVars>>

\* Everybody who waits for this name, on whichever connection.
AbortPeer(c) ==
    LET doomed == {k \in hubPending : to[k] = Node(c)}
    IN  /\ At(c, "left")
        /\ box' = Woken(doomed)
        /\ hubPending' = hubPending \ doomed
        /\ Step(c, "bye")
        /\ UNCHANGED <<hub, peers, listed, unsent, toClose, previous, nodeVars, wireVars,
                       call, from, to, via, madeBy, rid, answer, runs, pastVars>>

(* stop() of the hub. *)

HubStops ==
    /\ hub = "up"
    /\ hub' = "cleared"
    /\ toClose' = {peers[n] : n \in Online}
    /\ peers' = [n \in Nodes |-> None]
    /\ UNCHANGED <<handler, listed, unsent, hubPending, previous, nodeVars, wireVars,
                   callVars, pastVars>>

HubAborts ==
    /\ hub = "cleared"
    /\ hub' = "aborted"
    /\ box' = Woken(hubPending)
    /\ hubPending' = {}
    /\ UNCHANGED <<peers, handler, listed, unsent, toClose, previous, nodeVars, wireVars,
                   call, from, to, via, madeBy, rid, answer, runs, pastVars>>

HubCloses(c) ==
    /\ hub = "aborted"
    /\ c \in toClose
    /\ hubUp' = [hubUp EXCEPT ![c] = FALSE]
    /\ toClose' = toClose \ {c}
    /\ UNCHANGED <<hub, peers, handler, listed, unsent, hubPending, previous, nodeVars,
                   nodeUp, up, down, closed4003, callVars, pastVars>>

HubEnds ==
    /\ hub = "aborted"
    /\ toClose = {}
    /\ hub' = "down"
    /\ UNCHANGED <<peers, handler, listed, unsent, hubPending, toClose, previous, nodeVars,
                   wireVars, callVars, pastVars>>

-----------------------------------------------------------------------------
(* The link thread of a node: _run. *)

\* start(): the thread of a node object begins.
Start(n) ==
    /\ link[n] = "off"
    /\ link' = [link EXCEPT ![n] = "away"]
    /\ UNCHANGED <<hubVars, dialled, linked, nodePeers, nodePending, fatal, stopping,
                   life, lastRid, wireVars, callVars, pastVars>>

\* Connect and send hello; the hub starts a thread for the connection.
Dial(n) ==
    LET c == <<n, dialled[n] + 1>>
    IN  /\ link[n] = "away"
        /\ ~stopping[n]
        /\ hub = "up"
        /\ dialled[n] < MaxLinks
        /\ dialled' = [dialled EXCEPT ![n] = @ + 1]
        /\ link' = [link EXCEPT ![n] = "hello"]
        /\ Step(c, "hello")
        /\ hubUp' = [hubUp EXCEPT ![c] = TRUE]
        /\ nodeUp' = [nodeUp EXCEPT ![c] = TRUE]
        /\ UNCHANGED <<hub, peers, listed, unsent, hubPending, toClose, previous, linked,
                       nodePeers, nodePending, fatal, stopping, life, lastRid,
                       up, down, closed4003, callVars, pastVars>>

\* _handshake, the first frame is the hello_ack.
ReadAck(n) ==
    LET c == Cur(n)
    IN  /\ link[n] = "hello"
        /\ down[c] # <<>> /\ Head(down[c])[1] = "ack"
        /\ linked' = [linked EXCEPT ![n] = TRUE]
        /\ nodePeers' = [nodePeers EXCEPT ![n] = Head(down[c])[2]]
        /\ down' = [down EXCEPT ![c] = Tail(@)]
        /\ link' = [link EXCEPT ![n] = "session"]
        /\ UNCHANGED <<hubVars, dialled, nodePending, fatal, stopping, life, lastRid,
                       hubUp, nodeUp, up, closed4003, callVars, pastVars>>

\* The frames are dropped with the connection; _conn and _peers are reset.
Drops(n) ==
    /\ nodeUp' = [nodeUp EXCEPT ![Cur(n)] = FALSE]
    /\ down' = [down EXCEPT ![Cur(n)] = <<>>]
    /\ linked' = [linked EXCEPT ![n] = FALSE]
    /\ nodePeers' = [nodePeers EXCEPT ![n] = {}]
    /\ link' = [link EXCEPT ![n] = "lost"]

\* Any other first frame ends the link for good.
ReadUnexpected(n) ==
    /\ link[n] = "hello"
    /\ down[Cur(n)] # <<>> /\ Head(down[Cur(n)])[1] # "ack"
    /\ fatal' = [fatal EXCEPT ![n] = TRUE]
    /\ Drops(n)
    /\ UNCHANGED <<hubVars, dialled, nodePending, stopping, life, lastRid, hubUp,
                   closed4003, up, callVars, pastVars>>

\* The connection closed, before the hello_ack or in the session; _note_close.
LoseLink(n) ==
    /\ link[n] \in {"hello", "session"}
    /\ ~nodeUp[Cur(n)]
    /\ fatal' = [fatal EXCEPT ![n] = @ \/ Cur(n) \in closed4003]
    /\ Drops(n)
    /\ UNCHANGED <<hubVars, dialled, nodePending, stopping, life, lastRid, hubUp,
                   closed4003, up, callVars, pastVars>>

\* Mutation: one lost connection, and the node gives up.
AbortNodeGivesUp(n) ==
    /\ link[n] = "lost"
    /\ box' = Woken(nodePending[n])
    /\ nodePending' = [nodePending EXCEPT ![n] = {}]
    /\ link' = [link EXCEPT ![n] = "ended"]
    /\ UNCHANGED <<hubVars, dialled, linked, nodePeers, fatal, stopping, life,
                   lastRid, wireVars, call, from, to, via, madeBy, rid, answer,
                   runs, pastVars>>

\* The end of the attempt: wake the callers; retry unless there is no point.
AbortNode(n) ==
    /\ link[n] = "lost"
    /\ box' = Woken(nodePending[n])
    /\ nodePending' = [nodePending EXCEPT ![n] = {}]
    /\ link' = [link EXCEPT ![n] = IF fatal[n] \/ stopping[n] THEN "ended" ELSE "away"]
    /\ UNCHANGED <<hubVars, dialled, linked, nodePeers, fatal, stopping, life,
                   lastRid, wireVars, call, from, to, via, madeBy, rid, answer,
                   runs, pastVars>>

\* stop() before an attempt: the loop ends.
StopsTrying(n) ==
    /\ link[n] = "away"
    /\ stopping[n]
    /\ link' = [link EXCEPT ![n] = "ended"]
    /\ UNCHANGED <<hubVars, dialled, linked, nodePeers, nodePending, fatal, stopping,
                   life, lastRid, wireVars, callVars, pastVars>>

(* _on_frame in the session. *)

ReadList(n) ==
    LET c == Cur(n)
    IN  /\ link[n] = "session"
        /\ down[c] # <<>> /\ Head(down[c])[1] = "list"
        /\ nodePeers' = [nodePeers EXCEPT ![n] = Head(down[c])[2]]
        /\ down' = [down EXCEPT ![c] = Tail(@)]
        /\ UNCHANGED <<hubVars, link, dialled, linked, nodePending, fatal, stopping,
                       life, lastRid, hubUp, nodeUp, up, closed4003, callVars, pastVars>>

ReadCall(n, k) ==
    LET c == Cur(n)
    IN  /\ link[n] = "session"
        /\ down[c] # <<>> /\ Head(down[c]) = <<"call", k>>
        /\ runs' = [runs EXCEPT ![k] = @ + 1]
        /\ down' = [down EXCEPT ![c] = Tail(@)]
        /\ up' = SendUp(up, c, <<"reply", k, "ran">>)
        /\ UNCHANGED <<hubVars, nodeVars, hubUp, nodeUp, closed4003, call, from, to, via, madeBy,
                       rid, box, answer, pastVars>>

\* _resolve_pending: whoever waits under that request_id.
ReadReply(n, k, a) ==
    LET c == Cur(n)
        found == {j \in nodePending[n] : rid[j] = rid[k]}
    IN  /\ link[n] = "session"
        /\ down[c] # <<>> /\ Head(down[c]) = <<"reply", k, a>>
        /\ box' = [j \in Calls |-> IF j \in found THEN a ELSE box[j]]
        /\ crossed' = crossed \cup {j \in found \ {k} : call[j] # "over"}
        /\ down' = [down EXCEPT ![c] = Tail(@)]
        /\ UNCHANGED <<hubVars, nodeVars, hubUp, nodeUp, up, closed4003, call, from, to, via,
                       madeBy, rid, answer, runs, breaks, replaced, overlapped>>

\* stop() of a node: only the connection that the handshake has handed over is
\* closed; the callers are woken either way.
NodeStops(n) ==
    /\ link[n] # "off"
    /\ ~stopping[n]
    /\ stopping' = [stopping EXCEPT ![n] = TRUE]
    /\ nodeUp' = IF linked[n] THEN [nodeUp EXCEPT ![Cur(n)] = FALSE] ELSE nodeUp
    /\ linked' = [linked EXCEPT ![n] = FALSE]
    /\ box' = Woken(nodePending[n])
    /\ nodePending' = [nodePending EXCEPT ![n] = {}]
    /\ UNCHANGED <<hubVars, link, dialled, nodePeers, fatal, life, lastRid, hubUp,
                   up, down, closed4003, call, from, to, via, madeBy, rid, answer, runs, pastVars>>

\* The server reloads the plugin, or claims a token: a new node object.
Restart(n) ==
    /\ stopping[n]
    /\ link[n] = "ended"
    /\ life[n] < MaxLives
    /\ life' = [life EXCEPT ![n] = @ + 1]
    /\ lastRid' = [lastRid EXCEPT ![n] = 0]
    /\ nodePending' = [nodePending EXCEPT ![n] = {}]
    /\ fatal' = [fatal EXCEPT ![n] = FALSE]
    /\ stopping' = [stopping EXCEPT ![n] = FALSE]
    /\ link' = [link EXCEPT ![n] = "off"]
    /\ UNCHANGED <<hubVars, dialled, linked, nodePeers, wireVars, callVars, pastVars>>

-----------------------------------------------------------------------------
(* The wire. *)

Breaks(c) ==
    /\ breaks < MaxBreaks
    /\ hubUp[c] /\ nodeUp[c]
    /\ breaks' = breaks + 1
    /\ \/ hubUp' = [hubUp EXCEPT ![c] = FALSE] /\ UNCHANGED nodeUp
       \/ nodeUp' = [nodeUp EXCEPT ![c] = FALSE] /\ UNCHANGED hubUp
    /\ UNCHANGED <<hubVars, nodeVars, up, down, closed4003, callVars, replaced, crossed, overlapped>>

\* The other end learns it, from a close frame or from pings without answer.
Notices(c) ==
    /\ hubUp[c] # nodeUp[c]
    /\ hubUp' = [hubUp EXCEPT ![c] = FALSE]
    /\ nodeUp' = [nodeUp EXCEPT ![c] = FALSE]
    /\ UNCHANGED <<hubVars, nodeVars, up, down, closed4003, callVars, pastVars>>

-----------------------------------------------------------------------------
(* A caller inside send(..., wait=True). *)

\* The hub looks the connection up; an unknown target is answered at once.
HubCalls(k, t) ==
    /\ call[k] = "new"
    /\ from' = [from EXCEPT ![k] = Hub]
    /\ to' = [to EXCEPT ![k] = t]
    /\ via' = [via EXCEPT ![k] = peers[t]]
    /\ IF peers[t] = None
       THEN /\ call' = [call EXCEPT ![k] = "over"]
            /\ answer' = [answer EXCEPT ![k] = "refused"]
       ELSE /\ call' = [call EXCEPT ![k] = "looked"]
            /\ UNCHANGED answer
    /\ UNCHANGED <<hubVars, nodeVars, wireVars, madeBy, rid, box, runs, pastVars>>

\* A node reads its _conn and takes the next request_id of its object.
NodeCalls(k, n, t) ==
    /\ call[k] = "new"
    /\ from' = [from EXCEPT ![k] = n]
    /\ to' = [to EXCEPT ![k] = t]
    /\ IF linked[n]
       THEN /\ call' = [call EXCEPT ![k] = "looked"]
            /\ via' = [via EXCEPT ![k] = Cur(n)]
            /\ madeBy' = [madeBy EXCEPT ![k] = life[n]]
            /\ lastRid' = [lastRid EXCEPT ![n] = @ + 1]
            /\ rid' = [rid EXCEPT ![k] = lastRid[n] + 1]
            /\ UNCHANGED answer
       ELSE /\ call' = [call EXCEPT ![k] = "over"]
            /\ answer' = [answer EXCEPT ![k] = "refused"]
            /\ UNCHANGED <<via, madeBy, lastRid, rid>>
    /\ UNCHANGED <<hubVars, link, dialled, linked, nodePeers, nodePending, fatal,
                   stopping, life, wireVars, box, runs, pastVars>>

\* Enter the table of waiting calls (of an object that may be stopped by now).
Enlist(k) ==
    /\ call[k] = "looked"
    /\ call' = [call EXCEPT ![k] = "listed"]
    /\ IF from[k] = Hub
       THEN hubPending' = hubPending \cup {k} /\ UNCHANGED nodePending
       ELSE /\ nodePending' = IF madeBy[k] = life[from[k]]
                              THEN [nodePending EXCEPT ![from[k]] = @ \cup {k}]
                              ELSE nodePending
            /\ UNCHANGED hubPending
    /\ UNCHANGED <<hub, peers, handler, listed, unsent, toClose, previous, link, dialled, linked,
                   nodePeers, fatal, stopping, life, lastRid, wireVars, from, to,
                   via, madeBy, rid, box, answer, runs, pastVars>>

Transmit(k) ==
    /\ call[k] = "listed"
    /\ IF from[k] = Hub
       THEN hubUp[via[k]] /\ down' = SendDown(down, via[k], <<"call", k>>) /\ UNCHANGED up
       ELSE nodeUp[via[k]] /\ up' = SendUp(up, via[k], <<"call", k>>) /\ UNCHANGED down
    /\ call' = [call EXCEPT ![k] = "waiting"]
    /\ UNCHANGED <<hubVars, nodeVars, hubUp, nodeUp, closed4003, from, to, via, madeBy, rid, box,
                   answer, runs, pastVars>>

\* Mutation: the call stays in the table of the hub.
ReturnsListed(k, a) ==
    /\ call' = [call EXCEPT ![k] = "over"]
    /\ answer' = [answer EXCEPT ![k] = a]
    /\ UNCHANGED <<hubVars, link, dialled, linked,
                   nodePeers, fatal, stopping, life, lastRid, wireVars, from, to,
                   via, madeBy, rid, box, runs, pastVars>>

\* The end of send(); the hub always takes the call out of its table.
Returns(k, a) ==
    /\ call' = [call EXCEPT ![k] = "over"]
    /\ answer' = [answer EXCEPT ![k] = a]
    /\ hubPending' = hubPending \ {k}
    /\ UNCHANGED <<hub, peers, handler, listed, unsent, toClose, previous, link, dialled, linked,
                   nodePeers, fatal, stopping, life, lastRid, wireVars, from, to,
                   via, madeBy, rid, box, runs, pastVars>>

Unlist(k) == nodePending' = [n \in Nodes |-> nodePending[n] \ {k}]

\* The connection is closed, or the frame is over the limit.  A node leaves the
\* call in its table.
TransmitFails(k) ==
    /\ call[k] = "listed"
    /\ Returns(k, "refused")
    /\ UNCHANGED nodePending

Answered(k) ==
    /\ call[k] = "waiting"
    /\ box[k] # None
    /\ Returns(k, box[k])
    /\ Unlist(k)

TimesOut(k) ==
    /\ call[k] = "waiting"
    /\ box[k] = None
    /\ Returns(k, "unknown")
    /\ Unlist(k)

-----------------------------------------------------------------------------
HandlerSteps(c) ==
    \/ Register(c) \/ CloseReplaced(c) \/ NoHello(c) \/ SendAck(c) \/ ListPeers(c)
    \/ \E d \in Conns : PushList(c, d)
    \/ \E k \in Calls : ServeCall(c, k) \/ ServeReply(c, k)
    \/ Leave(c) \/ AbortPeer(c)

LinkSteps(n) ==
    \/ Dial(n) \/ ReadAck(n) \/ ReadUnexpected(n) \/ LoseLink(n) \/ AbortNode(n)
    \/ StopsTrying(n) \/ ReadList(n)
    \/ \E k \in Calls : ReadCall(n, k) \/ \E a \in Replies : ReadReply(n, k, a)

CallerSteps(k) == Enlist(k) \/ Transmit(k) \/ TransmitFails(k) \/ Answered(k)

HubStopping == HubAborts \/ (\E c \in Conns : HubCloses(c)) \/ HubEnds

(* What nobody has to do: stop, restart, break, ask, give up. *)
Events ==
    \/ HubStops
    \/ \E n \in Nodes : Start(n) \/ NodeStops(n) \/ Restart(n)
    \/ \E c \in Conns : Breaks(c)
    \/ \E k \in Calls :
          \/ \E t \in Nodes : HubCalls(k, t)
          \/ \E n \in Nodes : \E t \in (Nodes \ {n}) \cup {Hub} : NodeCalls(k, n, t)
          \/ TimesOut(k)

\* At rest: nobody has to do anything.
Resting ==
    /\ hub \in {"up", "down"}
    /\ \A c \in Conns : handler[c] \in {"none", "serve", "done"} /\ hubUp[c] = nodeUp[c]
    /\ \A n \in Nodes :
          \/ link[n] \in {"off", "session", "ended"}
          \/ link[n] = "away" /\ (hub # "up" \/ dialled[n] = MaxLinks)
    /\ \A k \in Calls : call[k] \in {"new", "over"}
    /\ UNCHANGED vars

Next ==
    \/ \E c \in Conns : HandlerSteps(c) \/ Notices(c)
    \/ \E n \in Nodes : LinkSteps(n)
    \/ \E k \in Calls : CallerSteps(k)
    \/ HubStopping
    \/ Events
    \/ Resting

Spec == Init /\ [][Next]_vars

\* Every thread runs, and the library tells each end that a connection is gone.
FairSpec ==
    /\ Spec
    /\ \A c \in Conns : WF_vars(HandlerSteps(c)) /\ WF_vars(Notices(c))
    /\ \A n \in Nodes : WF_vars(LinkSteps(n))
    /\ \A k \in Calls : WF_vars(CallerSteps(k))
    /\ WF_vars(HubStopping)

-----------------------------------------------------------------------------
(* Properties. *)

Serving == {"replace", "ack", "list", "push", "serve"}
HandlerPCs == Serving \cup {"none", "hello", "left", "bye", "byePush", "done"}

\* The types of all variables; no call runs twice.
TypeOK ==
    /\ hub \in {"up", "cleared", "aborted", "down"}
    /\ peers \in [Nodes -> Conns \cup {None}]
    /\ handler \in [Conns -> HandlerPCs]
    /\ listed \in [Conns -> SUBSET Nodes] /\ unsent \in [Conns -> SUBSET Conns]
    /\ hubPending \subseteq Calls /\ toClose \subseteq Conns
    /\ previous \in [Conns -> Conns \cup {None}]
    /\ link \in [Nodes -> {"off", "away", "hello", "session", "lost", "ended"}]
    /\ dialled \in [Nodes -> 0..MaxLinks]
    /\ linked \in [Nodes -> BOOLEAN] /\ fatal \in [Nodes -> BOOLEAN]
    /\ stopping \in [Nodes -> BOOLEAN]
    /\ nodePeers \in [Nodes -> SUBSET Nodes]
    /\ nodePending \in [Nodes -> SUBSET Calls]
    /\ life \in [Nodes -> 1..MaxLives] /\ lastRid \in [Nodes -> Nat]
    /\ hubUp \in [Conns -> BOOLEAN] /\ nodeUp \in [Conns -> BOOLEAN]
    /\ up \in [Conns -> Seq(Frames)] /\ down \in [Conns -> Seq(Frames)]
    /\ call \in [Calls -> {"new", "looked", "listed", "waiting", "over"}]
    /\ from \in [Calls -> Nodes \cup {Hub, None}] /\ to \in [Calls -> Nodes \cup {Hub, None}]
    /\ via \in [Calls -> Conns \cup {None}]
    /\ madeBy \in [Calls -> 0..MaxLives] /\ rid \in [Calls -> Nat]
    /\ box \in [Calls -> Answers \cup {None}] /\ answer \in [Calls -> Answers \cup {None}]
    /\ runs \in [Calls -> {0, 1}]
    /\ breaks \in 0..MaxBreaks
    /\ replaced \subseteq Conns /\ closed4003 \subseteq Conns
    /\ crossed \subseteq Calls /\ overlapped \in BOOLEAN

\* How far send() is, and what it returned.  A call that was given the reply to
\* another one counts as not knowing; see RepliesMatch.
Stage == [k \in Calls |-> CASE call[k] = "new"  -> "new"
                            [] call[k] = "over" -> "over"
                            [] OTHER            -> "open"]
Outcome == [k \in Calls |-> CASE answer[k] = None                    -> "none"
                              [] answer[k] # None /\ k \in crossed -> "unknown"
                              [] OTHER                             -> answer[k]]
Promise == INSTANCE RemoteCall WITH stage <- Stage, outcome <- Outcome

\* The promise of RemoteCall, kept: whatever breaks, is replaced or stopped, a
\* call runs at most once, and "it ran" and "it was refused" are true, also of
\* what happens afterwards.
CallsKeepPromise == Promise!Spec

\* _handler: a connection the hub still believes in belongs to its name, or a
\* newer one or stop() is about to close it -- no server is served behind the
\* table's back -- and a name stands for a connection of its own whose thread is
\* serving it.
TableMatchesThreads ==
    /\ \A c \in Conns :
          handler[c] \in Serving /\ hubUp[c]
             => \/ peers[Node(c)] = c
                \/ \E d \in Conns : previous[d] = c
                \/ c \in toClose
    /\ \A n \in Nodes : peers[n] # None =>
          /\ Node(peers[n]) = n
          /\ handler[peers[n]] \in Serving

\* send: whoever waits with an empty slot is in the table of its side, where the
\* reply or an abort finds it, and the hub's table holds no call that is over.
WaitingCanBeWoken ==
    /\ \A k \in Calls : call[k] = "waiting" /\ box[k] = None =>
          IF from[k] = Hub THEN k \in hubPending ELSE k \in nodePending[from[k]]
    /\ \A k \in hubPending : from[k] = Hub /\ call[k] \in {"listed", "waiting"}

\* _push_peers: at rest every connected server knows who else is online -- if
\* no two threads of the hub told them at the same time.
ListIsCurrent(n) ==
    (/\ \A c \in Conns : handler[c] \in {"none", "hello", "serve", "done"}
     /\ hub = "up"
     /\ link[n] = "session" /\ peers[n] = Cur(n)
     /\ nodeUp[Cur(n)] /\ hubUp[Cur(n)]
     /\ \A i \in 1..Len(down[Cur(n)]) : down[Cur(n)][i][1] # "list")
    => nodePeers[n] = Online \ {n}
ListsAreCurrent == ~overlapped => \A n \in Nodes : ListIsCurrent(n)

\* _abort_pending: when a peer drops, the hub's callers that wait for it wake up,
\* without the help of their timeouts -- unless a newer connection took the name
\* over, or the hub is being stopped.
DroppedPeerWakes ==
    \A k \in Calls :
        (call[k] = "waiting" /\ from[k] = Hub /\ ~hubUp[via[k]])
            ~> (call[k] = "over" \/ via[k] \in replaced \/ hub # "up")

\* _run: a node that wants a link gets one while the hub is up, as the peer of
\* its name and with the ack read, or gives up for a reason it reports.
Reconnects ==
    \A n \in Nodes :
        (hub = "up" /\ link[n] # "off" /\ ~stopping[n])
            ~> \/ linked[n] /\ peers[n] = Cur(n)
               \/ fatal[n] \/ stopping[n] \/ hub # "up"

(* What the repository says, and the code does not keep. *)

\* "Every other failure (hub down, network gone, hub restarted) is retried with
\* backoff": no node gives up in a cluster where every token is valid.
OnlyRefusalsAreFatal == \A n \in Nodes : ~fatal[n]

\* "matched by request_id": a reply is given to the call it answers.
RepliesMatch == crossed = {}

\* "Close the link and join the thread": a stopped node holds no connection.
StoppedHoldsNoLink == \A n \in Nodes : stopping[n] => ~linked[n]
=============================================================================
