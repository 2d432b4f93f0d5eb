--------------------------- MODULE HubLinkProofs ---------------------------
(***************************************************************************)
(* Theorems about HubLink, for any number of servers, calls, connections,  *)
(* breaks and node objects.                                                *)
(***************************************************************************)
EXTENDS HubLink, TLAPS

-----------------------------------------------------------------------------
(* The table of the hub. *)

\* The types the table depends on.
TableTypes ==
    /\ peers \in [Nodes -> Conns \cup {None}]
    /\ handler \in [Conns -> HandlerPCs]
    /\ previous \in [Conns -> Conns \cup {None}]
    /\ hubUp \in [Conns -> BOOLEAN]
    /\ toClose \subseteq Conns
    /\ dialled \in [Nodes -> 0..MaxLinks]

\* What TableMatchesThreads needs to be inductive: a thread remembers the
\* connection it replaces exactly as long as it has to close it, stop() finds
\* nothing left to close, and a connection that was not made has no thread.
TableInv ==
    /\ TableTypes
    /\ TableMatchesThreads
    /\ \A c \in Conns : previous[c] # None <=> handler[c] = "replace"
    /\ hub = "up" => toClose = {}
    /\ \A n \in Nodes : \A i \in 1..MaxLinks :
          i > dialled[n] => handler[<<n, i>>] = "none"

tableVars == <<hub, peers, handler, previous, hubUp, toClose, dialled>>

\* A hub that has just started: an empty table, no threads (__init__).
LEMMA TableInit == Init => TableInv
<1> SUFFICES ASSUME Init PROVE TableInv
  OBVIOUS
<1> USE NamesDiffer, LinkBounds DEF Init
<1>1. TableTypes
  BY DEF TableTypes, HandlerPCs, Serving
<1>2. TableMatchesThreads
  BY DEF TableMatchesThreads, Serving
<1>3. \A n \in Nodes : \A i \in 1..MaxLinks : handler[<<n, i>>] = "none"
  BY DEF Conns
<1> QED
  BY <1>1, <1>2, <1>3 DEF TableInv

\* Whatever leaves the table and its threads alone leaves the invariant alone.
LEMMA TableUntouched == TableInv /\ UNCHANGED tableVars => TableInv'
  BY DEF TableInv, TableTypes, TableMatchesThreads, tableVars

\* A thread of the hub takes a step in its handler.
LEMMA TableHandlerSteps ==
    ASSUME TableInv, NEW c \in Conns, HandlerSteps(c)
    PROVE  TableInv'
<1> USE NamesDiffer DEF HandlerSteps
<1>1. CASE Register(c)
  BY <1>1 DEF Register, At, Step, TableInv, TableTypes, TableMatchesThreads, Serving,
     HandlerPCs, Node, Conns, wireVars, nodeVars
<1>2. CASE CloseReplaced(c)
  BY <1>2 DEF CloseReplaced, At, Step, TableInv, TableTypes, TableMatchesThreads, Serving,
     HandlerPCs, Node, Conns, wireVars, nodeVars
<1>3. CASE NoHello(c)
  BY <1>3 DEF NoHello, At, Step, TableInv, TableTypes, TableMatchesThreads, Serving,
     HandlerPCs, Node, Conns, wireVars, nodeVars
<1>4. CASE SendAck(c)
  BY <1>4 DEF SendAck, At, Step, TableInv, TableTypes, TableMatchesThreads, Serving,
     HandlerPCs, Node, Conns, wireVars, nodeVars
<1>5. CASE ListPeers(c)
  BY <1>5 DEF ListPeers, AfterPush, At, Step, TableInv, TableTypes, TableMatchesThreads, Serving,
     HandlerPCs, Node, Conns, wireVars, nodeVars
<1>6. ASSUME NEW d \in Conns, PushList(c, d)
      PROVE  TableInv'
  <2>1. UNCHANGED <<hub, peers, previous, hubUp, toClose, dialled>>
    BY <1>6 DEF PushList, nodeVars
  <2>2. handler' = handler \/ (handler[c] = "push" /\ Step(c, "serve"))
                           \/ (handler[c] = "byePush" /\ Step(c, "done"))
    BY <1>6 DEF PushList, Pushing, AfterPush
  <2> QED
    BY <2>1, <2>2 DEF Step, TableInv, TableTypes, TableMatchesThreads, Serving, HandlerPCs,
       Node, Conns
<1>7. ASSUME NEW k \in Calls, ServeCall(c, k) \/ ServeReply(c, k)
      PROVE  TableInv'
  BY <1>7, TableUntouched DEF ServeCall, ServeReply, hubVars, nodeVars, tableVars
<1>8. CASE Leave(c)
  <2>1. /\ handler[c] = "serve" /\ ~hubUp[c]
        /\ UNCHANGED <<hub, previous, hubUp, toClose, dialled>>
    BY <1>8 DEF Leave, At, nodeVars
  <2>2. CASE peers[Node(c)] = c
    <3>1. /\ peers' = [peers EXCEPT ![Node(c)] = None]
          /\ Step(c, "left")
      BY <1>8, <2>2 DEF Leave
    <3> QED
      BY <2>1, <2>2, <3>1 DEF Step, TableInv, TableTypes, TableMatchesThreads, Serving,
         HandlerPCs, Node, Conns
  <2>3. CASE peers[Node(c)] # c
    <3>1. UNCHANGED peers /\ Step(c, "done")
      BY <1>8, <2>3 DEF Leave
    <3> QED
      BY <2>1, <2>3, <3>1 DEF Step, TableInv, TableTypes, TableMatchesThreads, Serving,
         HandlerPCs, Node, Conns
  <2> QED
    BY <2>2, <2>3
<1>9. CASE AbortPeer(c)
  BY <1>9 DEF AbortPeer, At, Step, TableInv, TableTypes, TableMatchesThreads, Serving,
     HandlerPCs, Node, Conns, wireVars, nodeVars
<1>10. QED
  BY <1>1, <1>2, <1>3, <1>4, <1>5, <1>6, <1>7, <1>8, <1>9

\* stop() of the hub, a new connection and a connection that breaks.
LEMMA TableOtherSteps ==
    ASSUME TableInv,
           \/ HubStops \/ HubStopping
           \/ \E n \in Nodes : Dial(n)
           \/ \E c \in Conns : Breaks(c) \/ Notices(c)
    PROVE  TableInv'
<1> USE NamesDiffer, LinkBounds
<1>1. CASE HubStops
  <2>1. /\ hub = "up" /\ hub' # "up"
        /\ toClose = {} /\ toClose' = {peers[n] : n \in Online}
        /\ peers' = [n \in Nodes |-> None]
        /\ UNCHANGED <<handler, previous, hubUp, dialled>>
    BY <1>1 DEF HubStops, TableInv, nodeVars, wireVars
  <2>2. TableTypes'
    BY <2>1 DEF Online, TableInv, TableTypes
  <2>3. ASSUME NEW c \in Conns, peers[Node(c)] = c PROVE c \in toClose'
    <3>1. Node(c) \in Online
      BY <2>3 DEF Online, Node, Conns
    <3> QED
      BY <2>1, <2>3, <3>1
  <2>4. TableMatchesThreads'
    BY <2>1, <2>3 DEF TableInv, TableMatchesThreads
  <2> QED
    BY <2>1, <2>2, <2>4 DEF TableInv
<1>2. CASE HubAborts
  BY <1>2 DEF HubAborts, TableInv, TableTypes, TableMatchesThreads, nodeVars, wireVars
<1>3. ASSUME NEW c \in Conns, HubCloses(c)
      PROVE  TableInv'
  BY <1>3 DEF HubCloses, TableInv, TableTypes, TableMatchesThreads, Node, nodeVars
<1>4. CASE HubEnds
  BY <1>4 DEF HubEnds, TableInv, TableTypes, TableMatchesThreads, nodeVars, wireVars
<1>5. ASSUME NEW n \in Nodes, Dial(n)
      PROVE  TableInv'
  <2> DEFINE i == dialled[n] + 1
             c == <<n, i>>
  <2>1. c \in Conns /\ handler[c] = "none" /\ Node(c) = n
    BY <1>5 DEF Dial, TableInv, TableTypes, Conns, Node
  <2>2. /\ handler' = [handler EXCEPT ![c] = "hello"]
        /\ hubUp' = [hubUp EXCEPT ![c] = TRUE]
        /\ dialled' = [dialled EXCEPT ![n] = i]
        /\ UNCHANGED <<hub, peers, previous, toClose>>
    BY <1>5 DEF Dial, Step
  <2>3. TableTypes'
    BY <1>5, <2>1, <2>2 DEF Dial, TableInv, TableTypes, HandlerPCs
  <2>4. TableMatchesThreads'
    <3>1. handler'[c] = "hello" /\ \A d \in Conns \ {c} : handler'[d] = handler[d] /\ hubUp'[d] = hubUp[d]
      BY <2>1, <2>2 DEF TableInv, TableTypes
    <3>2. TableMatchesThreads /\ handler[c] \notin Serving /\ handler'[c] \notin Serving
      BY <2>1, <3>1 DEF TableInv, Serving
    <3> HIDE DEF c
    <3> QED
      BY <2>1, <2>2, <3>1, <3>2 DEF TableMatchesThreads
  <2>5. /\ \A d \in Conns : previous'[d] # None <=> handler'[d] = "replace"
        /\ hub' = "up" => toClose' = {}
    BY <2>1, <2>2 DEF TableInv, TableTypes
  <2>6. \A m \in Nodes : \A j \in 1..MaxLinks : j > dialled'[m] => handler'[<<m, j>>] = "none"
    <3> SUFFICES ASSUME NEW m \in Nodes, NEW j \in 1..MaxLinks, j > dialled'[m]
                 PROVE  handler'[<<m, j>>] = "none"
      OBVIOUS
    <3>1. <<m, j>> \in Conns /\ <<m, j>> # c /\ j > dialled[m]
      BY <2>2 DEF TableInv, TableTypes, Conns
    <3> QED
      BY <2>2, <3>1 DEF TableInv, TableTypes
  <2> QED
    BY <2>3, <2>4, <2>5, <2>6 DEF TableInv
<1>6. ASSUME NEW c \in Conns, Breaks(c) \/ Notices(c)
      PROVE  TableInv'
  <2>1. UNCHANGED <<hub, peers, handler, previous, toClose, dialled>>
    BY <1>6 DEF Breaks, Notices, hubVars, nodeVars
  <2>2. hubUp' = hubUp \/ hubUp' = [hubUp EXCEPT ![c] = FALSE]
    BY <1>6 DEF Breaks, Notices
  <2>3. hubUp' \in [Conns -> BOOLEAN] /\ \A d \in Conns : hubUp'[d] => hubUp[d]
    BY <2>2 DEF TableInv, TableTypes
  <2> QED
    BY <2>1, <2>3 DEF TableInv, TableTypes, TableMatchesThreads
<1> QED
  BY <1>1, <1>2, <1>3, <1>4, <1>5, <1>6 DEF HubStopping

\* The other link steps, the callers and the events leave the table alone.
LEMMA TableNext == TableInv /\ [Next]_vars => TableInv'
<1> SUFFICES ASSUME TableInv, [Next]_vars PROVE TableInv'
  OBVIOUS
<1>1. ASSUME NEW n \in Nodes, LinkSteps(n), ~Dial(n)
      PROVE  UNCHANGED tableVars
  BY <1>1 DEF LinkSteps, ReadAck, ReadUnexpected, LoseLink, AbortNode, StopsTrying, ReadList,
     ReadCall, ReadReply, tableVars, hubVars, nodeVars, wireVars
<1>2. ASSUME NEW k \in Calls, CallerSteps(k)
      PROVE  UNCHANGED tableVars
  BY <1>2 DEF CallerSteps, Enlist, Transmit, TransmitFails, Answered, Returns,
     tableVars, hubVars, nodeVars, wireVars
<1>3. ASSUME Events, ~HubStops, ~ \E c \in Conns : Breaks(c)
      PROVE  UNCHANGED tableVars
  BY <1>3 DEF Events, Start, NodeStops, Restart, HubCalls, NodeCalls, TimesOut, Returns,
     tableVars, hubVars, nodeVars, wireVars
<1>4. Resting \/ UNCHANGED vars => UNCHANGED tableVars
  BY DEF Resting, vars, tableVars, hubVars, nodeVars, wireVars
<1> QED
  BY <1>1, <1>2, <1>3, <1>4, TableHandlerSteps, TableOtherSteps, TableUntouched
     DEF Next

\* The hub serves nobody behind the back of its table, and every name in the
\* table is a connection of that server with a thread that serves it.
THEOREM TableAlwaysMatches == Spec => []TableMatchesThreads
<1>1. TableInv => TableMatchesThreads
  BY DEF TableInv
<1> QED
  BY <1>1, TableInit, TableNext, PTL DEF Spec

-----------------------------------------------------------------------------
(* The tables of waiting calls. *)

WaitTypes ==
    /\ call \in [Calls -> {"new", "looked", "listed", "waiting", "over"}]
    /\ from \in [Calls -> Nodes \cup {Hub, None}]
    /\ via \in [Calls -> Conns \cup {None}]
    /\ madeBy \in [Calls -> 0..MaxLives]
    /\ box \in [Calls -> Answers \cup {None}]
    /\ hubPending \subseteq Calls
    /\ nodePending \in [Nodes -> SUBSET Calls]
    /\ nodeUp \in [Conns -> BOOLEAN]
    /\ linked \in [Nodes -> BOOLEAN]
    /\ link \in [Nodes -> {"off", "away", "hello", "session", "lost", "ended"}]
    /\ dialled \in [Nodes -> 0..MaxLinks]
    /\ life \in [Nodes -> 1..MaxLives]

\* A node only believes in the newest connection, and only its link thread's;
\* _conn is set in a session only.
LinkInv ==
    /\ \A c \in Conns : nodeUp[c] => /\ c = Cur(Node(c))
                                     /\ link[Node(c)] \in {"hello", "session"}
    /\ \A n \in Nodes : /\ linked[n] => link[n] = "session"
                        /\ link[n] \in {"hello", "session"} => dialled[n] > 0

\* A node's call is under way on a connection of that node.  As long as that
\* connection lives, the call belongs to the present node object, and once it
\* waits the link thread has an abort ahead of it.
CallInv ==
    \A k \in Calls : call[k] \in {"looked", "listed", "waiting"} =>
        \/ from[k] = Hub
        \/ /\ from[k] \in Nodes
           /\ via[k] \in Conns /\ Node(via[k]) = from[k]
           /\ via[k][2] <= dialled[from[k]]
           /\ nodeUp[via[k]] => madeBy[k] = life[from[k]]
           /\ link[from[k]] = "hello" => via[k] # Cur(from[k])
           /\ call[k] = "waiting" /\ box[k] = None =>
                 via[k] = Cur(from[k]) /\ link[from[k]] \in {"session", "lost"}

\* Who has listed a call finds it listed, unless it was woken or its node object
\* is gone; nothing is in the slot of a call that was never listed.
ListedInv ==
    /\ \A k \in Calls : call[k] = "listed" /\ box[k] = None =>
          IF from[k] = Hub THEN k \in hubPending
          ELSE nodeUp[via[k]] => k \in nodePending[from[k]]

WaitInv == WaitTypes /\ LinkInv /\ CallInv /\ ListedInv /\ WaitingCanBeWoken

waitVars == <<call, from, via, madeBy, box, hubPending, nodePending, nodeUp, linked, link,
              dialled, life>>

\* Nobody waits when the first server starts.
LEMMA WaitInit == Init => WaitInv
<1> SUFFICES ASSUME Init PROVE WaitInv
  OBVIOUS
<1> USE NamesDiffer, LinkBounds DEF Init
<1>1. WaitTypes
  BY DEF WaitTypes
<1>2. LinkInv /\ CallInv /\ ListedInv /\ WaitingCanBeWoken
  BY DEF LinkInv, CallInv, ListedInv, WaitingCanBeWoken, Node, Conns
<1> QED
  BY <1>1, <1>2 DEF WaitInv

\* Whatever leaves callers, tables of calls and link threads alone keeps WaitInv.
LEMMA WaitUntouched == WaitInv /\ UNCHANGED waitVars => WaitInv'
  BY DEF WaitInv, WaitTypes, LinkInv, CallInv, ListedInv, WaitingCanBeWoken, waitVars, Cur, Node

\* Filling reply slots is harmless, and so is taking the calls they belong to out
\* of the tables: _resolve_pending, _abort_pending.
LEMMA SlotsFilled ==
    ASSUME WaitInv,
           UNCHANGED <<call, from, via, madeBy, nodeUp, linked, link, dialled, life>>,
           box' \in [Calls -> Answers \cup {None}],
           hubPending' \subseteq hubPending,
           nodePending' \in [Nodes -> SUBSET Calls],
           \A k \in Calls : box'[k] = None =>
               /\ box[k] = None
               /\ k \in hubPending => k \in hubPending'
               /\ \A n \in Nodes : k \in nodePending[n] => k \in nodePending'[n]
    PROVE  WaitInv'
<1>1. WaitTypes' /\ LinkInv'
  BY DEF WaitInv, WaitTypes, LinkInv, Cur, Node
<1>2. CallInv'
  BY DEF WaitInv, CallInv, Cur, Node
<1>3. ASSUME NEW k \in Calls, call[k] \in {"listed", "waiting"}
      PROVE  from[k] = Hub \/ from[k] \in Nodes
  BY <1>3 DEF WaitInv, CallInv
<1>4. ListedInv' /\ WaitingCanBeWoken'
  BY <1>3 DEF WaitInv, WaitTypes, ListedInv, WaitingCanBeWoken
<1> QED
  BY <1>1, <1>2, <1>4 DEF WaitInv

\* What _abort_pending puts into the slots is an answer.
LEMMA WokenSlots ==
    ASSUME NEW K, box \in [Calls -> Answers \cup {None}]
    PROVE  /\ Woken(K) \in [Calls -> Answers \cup {None}]
           /\ \A k \in Calls : Woken(K)[k] = None => k \notin K /\ box[k] = None
  BY NamesDiffer DEF Woken, Answers

\* The threads of the hub.
LEMMA WaitHubSteps ==
    ASSUME WaitInv,
           (\E c \in Conns : HandlerSteps(c)) \/ HubStops \/ HubStopping
    PROVE  WaitInv'
<1>0. box \in [Calls -> Answers \cup {None}] /\ nodePending \in [Nodes -> SUBSET Calls]
  BY DEF WaitInv, WaitTypes
<1>1. ASSUME NEW c \in Conns, NEW k \in Calls, ServeReply(c, k)
      PROVE  WaitInv'
  <2>1. box' = box \/ box' = [box EXCEPT ![k] = "ran"]
    BY <1>1 DEF ServeReply
  <2>2. UNCHANGED <<call, from, via, madeBy, nodeUp, linked, link, dialled, life, hubPending,
                    nodePending>>
    BY <1>1 DEF ServeReply, hubVars, nodeVars
  <2>3. /\ box' \in [Calls -> Answers \cup {None}]
        /\ \A j \in Calls : box'[j] = None => box[j] = None
    BY <1>0, <2>1, NamesDiffer DEF Answers, Replies
  <2> QED
    BY <1>0, <2>2, <2>3, SlotsFilled
<1>2. ASSUME NEW c \in Conns, AbortPeer(c)
      PROVE  WaitInv'
  <2> DEFINE doomed == {k \in hubPending : to[k] = Node(c)}
  <2>1. box' = Woken(doomed) /\ hubPending' = hubPending \ doomed
    BY <1>2 DEF AbortPeer
  <2>2. UNCHANGED <<call, from, via, madeBy, nodeUp, linked, link, dialled, life, nodePending>>
    BY <1>2 DEF AbortPeer, nodeVars, wireVars
  <2> HIDE DEF doomed
  <2> QED
    BY <1>0, <2>1, <2>2, WokenSlots, SlotsFilled
<1>3. CASE HubAborts
  <2>1. box' = Woken(hubPending) /\ hubPending' = {}
    BY <1>3 DEF HubAborts
  <2>2. UNCHANGED <<call, from, via, madeBy, nodeUp, linked, link, dialled, life, nodePending>>
    BY <1>3 DEF HubAborts, nodeVars, wireVars
  <2> QED
    BY <1>0, <2>1, <2>2, WokenSlots, SlotsFilled
<1>4. ASSUME NEW c \in Conns,
             HandlerSteps(c), ~AbortPeer(c), ~ \E k \in Calls : ServeReply(c, k)
      PROVE  UNCHANGED waitVars
  BY <1>4 DEF HandlerSteps, Register, CloseReplaced, NoHello, SendAck, ListPeers, PushList,
     ServeCall, Leave, waitVars, hubVars, nodeVars, wireVars, callVars
<1>5. HubStops \/ HubEnds \/ (\E c \in Conns : HubCloses(c)) => UNCHANGED waitVars
  BY DEF HubStops, HubEnds, HubCloses, waitVars, nodeVars, wireVars, callVars
<1> QED
  BY <1>1, <1>2, <1>3, <1>4, <1>5, WaitUntouched DEF HubStopping, HandlerSteps

\* The link thread of a node, without the frames it only reads.
LEMMA WaitDial ==
    ASSUME WaitInv, NEW n \in Nodes, Dial(n)
    PROVE  WaitInv'
<1> DEFINE i == dialled[n] + 1
           c == <<n, i>>
<1> USE LinkBounds
<1>1. /\ c \in Conns /\ Node(c) = n
      /\ i \in 1..MaxLinks /\ link[n] = "away"
  BY DEF Dial, WaitInv, WaitTypes, Conns, Node
<1>2. /\ dialled' = [dialled EXCEPT ![n] = i]
      /\ link' = [link EXCEPT ![n] = "hello"]
      /\ nodeUp' = [nodeUp EXCEPT ![c] = TRUE]
      /\ UNCHANGED <<call, from, via, madeBy, box, hubPending, nodePending, linked, life>>
  BY DEF Dial, callVars
<1>3. WaitTypes'
  BY <1>1, <1>2 DEF WaitInv, WaitTypes
<1>4. \A m \in Nodes : Cur(m)' = IF m = n THEN c ELSE Cur(m)
  BY <1>2 DEF Cur, WaitInv, WaitTypes
<1>5. \A d \in Conns : nodeUp[d] => Node(d) # n
  BY <1>1 DEF WaitInv, LinkInv
<1>6. LinkInv'
  <2>1. ASSUME NEW d \in Conns, nodeUp'[d]
        PROVE  d = Cur(Node(d))' /\ link'[Node(d)] \in {"hello", "session"}
    <3>1. CASE d = c
      BY <1>1, <1>2, <1>4, <3>1 DEF WaitInv, WaitTypes
    <3>2. CASE d # c
      <4>1. nodeUp[d] /\ Node(d) # n /\ Node(d) \in Nodes
        BY <1>2, <1>5, <2>1, <3>2 DEF WaitInv, WaitTypes, Node, Conns
      <4> QED
        BY <1>2, <1>4, <4>1 DEF WaitInv, LinkInv, WaitTypes
    <3> QED
      BY <3>1, <3>2
  <2>2. \A m \in Nodes : /\ linked'[m] => link'[m] = "session"
                         /\ link'[m] \in {"hello", "session"} => dialled'[m] > 0
    BY <1>1, <1>2 DEF WaitInv, LinkInv, WaitTypes
  <2> QED
    BY <2>1, <2>2 DEF LinkInv
<1>7. \A k \in Calls : call[k] \in {"looked", "listed", "waiting"} =>
          from[k] = Hub \/ via[k] # c
  BY <1>1 DEF WaitInv, CallInv, WaitTypes
<1>8. CallInv'
  <2> SUFFICES ASSUME NEW k \in Calls, call[k] \in {"looked", "listed", "waiting"}, from[k] # Hub
               PROVE  /\ from[k] \in Nodes
                      /\ via[k] \in Conns /\ Node(via[k]) = from[k]
                      /\ via[k][2] <= dialled'[from[k]]
                      /\ nodeUp'[via[k]] => madeBy[k] = life[from[k]]
                      /\ link'[from[k]] = "hello" => via[k] # Cur(from[k])'
                      /\ call[k] = "waiting" /\ box[k] = None =>
                            via[k] = Cur(from[k])' /\ link'[from[k]] \in {"session", "lost"}
    BY <1>2 DEF CallInv, Node
  <2>1. /\ from[k] \in Nodes
        /\ via[k] \in Conns /\ Node(via[k]) = from[k]
        /\ via[k][2] <= dialled[from[k]]
        /\ nodeUp[via[k]] => madeBy[k] = life[from[k]]
        /\ link[from[k]] = "hello" => via[k] # Cur(from[k])
        /\ call[k] = "waiting" /\ box[k] = None =>
              via[k] = Cur(from[k]) /\ link[from[k]] \in {"session", "lost"}
    BY DEF WaitInv, CallInv
  <2>2. via[k] # c
    BY <1>7
  <2>3. via[k][2] <= dialled'[from[k]]
    BY <1>2, <2>1 DEF WaitInv, WaitTypes, Conns
  <2> QED
    BY <1>1, <1>2, <1>4, <2>1, <2>2, <2>3 DEF WaitInv, WaitTypes
<1>9. ListedInv' /\ WaitingCanBeWoken'
  BY <1>2, <1>7 DEF WaitInv, WaitTypes, CallInv, ListedInv, WaitingCanBeWoken
<1> QED
  BY <1>3, <1>6, <1>8, <1>9 DEF WaitInv

\* The handshake succeeded.
LEMMA WaitReadAck ==
    ASSUME WaitInv, NEW n \in Nodes, ReadAck(n)
    PROVE  WaitInv'
<1>1. /\ link[n] = "hello"
      /\ linked' = [linked EXCEPT ![n] = TRUE]
      /\ link' = [link EXCEPT ![n] = "session"]
      /\ UNCHANGED <<call, from, via, madeBy, box, hubPending, nodePending, nodeUp, dialled, life>>
  BY DEF ReadAck, hubVars, callVars
<1>2. \A m \in Nodes : Cur(m)' = Cur(m)
  BY <1>1 DEF Cur
<1>3. WaitTypes' /\ LinkInv'
  BY <1>1, <1>2 DEF WaitInv, WaitTypes, LinkInv, Node, Conns, Cur
<1>4. CallInv'
  BY <1>1, <1>2 DEF WaitInv, WaitTypes, CallInv, Node
<1>5. ListedInv' /\ WaitingCanBeWoken'
  BY <1>1 DEF WaitInv, WaitTypes, ListedInv, WaitingCanBeWoken
<1> QED
  BY <1>3, <1>4, <1>5 DEF WaitInv

\* The link is gone: the frames stop, the callers are woken next.
LEMMA WaitLosesLink ==
    ASSUME WaitInv, NEW n \in Nodes, ReadUnexpected(n) \/ LoseLink(n)
    PROVE  WaitInv'
<1>1. /\ link[n] \in {"hello", "session"}
      /\ linked' = [linked EXCEPT ![n] = FALSE]
      /\ link' = [link EXCEPT ![n] = "lost"]
      /\ nodeUp' = [nodeUp EXCEPT ![Cur(n)] = FALSE]
      /\ UNCHANGED <<call, from, via, madeBy, box, hubPending, nodePending, dialled, life>>
  BY DEF ReadUnexpected, LoseLink, Drops, hubVars, callVars
<1>2. \A m \in Nodes : Cur(m)' = Cur(m)
  BY <1>1 DEF Cur
<1>3. /\ nodeUp' \in [Conns -> BOOLEAN]
      /\ \A c \in Conns : nodeUp'[c] => nodeUp[c] /\ c # Cur(n)
  BY <1>1 DEF WaitInv, WaitTypes
<1>4. WaitTypes' /\ LinkInv'
  BY <1>1, <1>2, <1>3 DEF WaitInv, WaitTypes, LinkInv, Node, Conns
<1>5. CallInv'
  BY <1>1, <1>2, <1>3 DEF WaitInv, WaitTypes, CallInv, Node
<1>6. ListedInv' /\ WaitingCanBeWoken'
  BY <1>1, <1>3 DEF WaitInv, WaitTypes, CallInv, ListedInv, WaitingCanBeWoken
<1> QED
  BY <1>4, <1>5, <1>6 DEF WaitInv

\* A node wakes its callers: the link was lost, or it is stopped.
LEMMA WaitNodeWakes ==
    ASSUME WaitInv, NEW n \in Nodes, AbortNode(n) \/ NodeStops(n)
    PROVE  WaitInv'
<1>1. /\ box' = Woken(nodePending[n])
      /\ nodePending' = [nodePending EXCEPT ![n] = {}]
      /\ UNCHANGED <<call, from, via, madeBy, hubPending, dialled, life>>
  BY DEF AbortNode, NodeStops, hubVars
<1>2. /\ link' \in [Nodes -> {"off", "away", "hello", "session", "lost", "ended"}]
      /\ \A m \in Nodes : link'[m] # link[m] =>
            m = n /\ link[m] = "lost" /\ link'[m] \in {"away", "ended"}
  BY DEF AbortNode, NodeStops, WaitInv, WaitTypes
<1>3. /\ nodeUp' \in [Conns -> BOOLEAN] /\ \A c \in Conns : nodeUp'[c] => nodeUp[c]
      /\ linked' \in [Nodes -> BOOLEAN] /\ \A m \in Nodes : linked'[m] => linked[m]
  BY DEF AbortNode, NodeStops, WaitInv, WaitTypes, wireVars
<1>4. /\ box' \in [Calls -> Answers \cup {None}]
      /\ \A k \in Calls : box'[k] = None => k \notin nodePending[n] /\ box[k] = None
  BY <1>1, WokenSlots DEF WaitInv, WaitTypes
<1>5. \A m \in Nodes : Cur(m)' = Cur(m)
  BY <1>1 DEF Cur
<1>6. WaitTypes'
  BY <1>1, <1>2, <1>3, <1>4 DEF WaitInv, WaitTypes
<1>7. LinkInv'
  <2>1. \A c \in Conns : Node(c) \in Nodes
    BY DEF Conns, Node
  <2> QED
    BY <1>1, <1>2, <1>3, <1>5, <2>1 DEF WaitInv, LinkInv, Node
<1>8. CallInv'
  <2> SUFFICES ASSUME NEW k \in Calls, call[k] \in {"looked", "listed", "waiting"}, from[k] # Hub
               PROVE  /\ from[k] \in Nodes
                      /\ via[k] \in Conns /\ Node(via[k]) = from[k]
                      /\ via[k][2] <= dialled[from[k]]
                      /\ nodeUp'[via[k]] => madeBy[k] = life[from[k]]
                      /\ link'[from[k]] = "hello" => via[k] # Cur(from[k])
                      /\ call[k] = "waiting" /\ box'[k] = None =>
                            via[k] = Cur(from[k]) /\ link'[from[k]] \in {"session", "lost"}
    BY <1>1, <1>5 DEF CallInv, Node
  <2>1. /\ from[k] \in Nodes
        /\ via[k] \in Conns /\ Node(via[k]) = from[k]
        /\ via[k][2] <= dialled[from[k]]
        /\ nodeUp[via[k]] => madeBy[k] = life[from[k]]
        /\ link[from[k]] = "hello" => via[k] # Cur(from[k])
        /\ call[k] = "waiting" /\ box[k] = None =>
              via[k] = Cur(from[k]) /\ link[from[k]] \in {"session", "lost"}
    BY DEF WaitInv, CallInv
  <2>2. call[k] = "waiting" /\ box'[k] = None => from[k] # n
    BY <1>4 DEF WaitInv, WaitingCanBeWoken
  <2> QED
    BY <1>2, <1>3, <1>4, <2>1, <2>2
<1>9. ListedInv' /\ WaitingCanBeWoken'
  BY <1>1, <1>3, <1>4 DEF WaitInv, WaitTypes, CallInv, ListedInv, WaitingCanBeWoken
<1> QED
  BY <1>6, <1>7, <1>8, <1>9 DEF WaitInv

\* A node that is not connected starts, gives up, or is replaced by a new object.
LEMMA WaitIdleNode ==
    ASSUME WaitInv, NEW n \in Nodes, Start(n) \/ StopsTrying(n) \/ Restart(n)
    PROVE  WaitInv'
<1>1. /\ link[n] \in {"off", "away", "ended"}
      /\ link' \in [Nodes -> {"off", "away", "hello", "session", "lost", "ended"}]
      /\ link'[n] \in {"off", "away", "ended"}
      /\ \A m \in Nodes \ {n} : link'[m] = link[m]
      /\ UNCHANGED <<call, from, via, madeBy, box, hubPending, nodeUp, linked, dialled>>
  BY DEF Start, StopsTrying, Restart, WaitInv, WaitTypes, hubVars, wireVars, callVars
<1>2. /\ life' \in [Nodes -> 1..MaxLives]
      /\ nodePending' \in [Nodes -> SUBSET Calls]
      /\ \A m \in Nodes \ {n} : life'[m] = life[m] /\ nodePending'[m] = nodePending[m]
  BY LinkBounds DEF Start, StopsTrying, Restart, WaitInv, WaitTypes
<1>3. \A m \in Nodes : Cur(m)' = Cur(m)
  BY <1>1 DEF Cur
<1>4. /\ \A c \in Conns : nodeUp[c] => Node(c) # n
      /\ \A k \in Calls : call[k] = "waiting" /\ box[k] = None => from[k] # n
  BY <1>1, NamesDiffer DEF WaitInv, LinkInv, CallInv
<1>5. WaitTypes'
  BY <1>1, <1>2 DEF WaitInv, WaitTypes
<1>6. LinkInv'
  <2>1. \A c \in Conns : Node(c) \in Nodes
    BY DEF Conns, Node
  <2> QED
    BY <1>1, <1>3, <1>4, <2>1 DEF WaitInv, LinkInv, Node
<1>7. CallInv'
  BY <1>1, <1>2, <1>3, <1>4 DEF WaitInv, CallInv, Node
<1>8. ListedInv' /\ WaitingCanBeWoken'
  BY <1>1, <1>2, <1>4 DEF WaitInv, WaitTypes, CallInv, ListedInv, WaitingCanBeWoken
<1> QED
  BY <1>5, <1>6, <1>7, <1>8 DEF WaitInv

\* A connection that is lost at an end, or at both.
LEMMA WaitBreaks ==
    ASSUME WaitInv, NEW c \in Conns, Breaks(c) \/ Notices(c)
    PROVE  WaitInv'
<1>1. UNCHANGED <<call, from, via, madeBy, box, hubPending, nodePending, linked, link, dialled,
                  life>>
  BY DEF Breaks, Notices, hubVars, nodeVars, callVars
<1>2. nodeUp' \in [Conns -> BOOLEAN] /\ \A d \in Conns : nodeUp'[d] => nodeUp[d]
  BY DEF Breaks, Notices, WaitInv, WaitTypes
<1>3. WaitTypes' /\ LinkInv'
  BY <1>1, <1>2 DEF WaitInv, WaitTypes, LinkInv, Cur, Node
<1>4. CallInv' /\ ListedInv' /\ WaitingCanBeWoken'
  BY <1>1, <1>2 DEF WaitInv, WaitTypes, CallInv, ListedInv, WaitingCanBeWoken, Cur, Node
<1> QED
  BY <1>3, <1>4 DEF WaitInv

\* A caller takes a connection: the hub's of the table, a node's _conn.
LEMMA WaitNewCall ==
    ASSUME WaitInv, TableTypes, NEW k \in Calls,
           \/ \E t \in Nodes : HubCalls(k, t)
           \/ \E n \in Nodes : \E t \in (Nodes \ {n}) \cup {Hub} : NodeCalls(k, n, t)
    PROVE  WaitInv'
<1>1. /\ call[k] = "new" /\ k \notin hubPending
      /\ call' \in [Calls -> {"new", "looked", "listed", "waiting", "over"}]
      /\ call'[k] \in {"looked", "over"}
      /\ \A j \in Calls \ {k} : call'[j] = call[j]
      /\ UNCHANGED <<box, hubPending, nodePending, nodeUp, linked, link, dialled, life>>
  BY DEF HubCalls, NodeCalls, WaitInv, WaitTypes, WaitingCanBeWoken, hubVars, nodeVars, wireVars
<1>2. /\ from' \in [Calls -> Nodes \cup {Hub, None}]
      /\ madeBy' \in [Calls -> 0..MaxLives]
      /\ \A j \in Calls \ {k} : from'[j] = from[j] /\ via'[j] = via[j] /\ madeBy'[j] = madeBy[j]
  BY LinkBounds DEF HubCalls, NodeCalls, WaitInv, WaitTypes
<1>3. \A n \in Nodes : linked[n] => Cur(n) \in Conns /\ Node(Cur(n)) = n /\ Cur(n)[2] = dialled[n]
  BY LinkBounds DEF WaitInv, WaitTypes, LinkInv, Cur, Conns, Node
<1>4. via' \in [Calls -> Conns \cup {None}]
  BY <1>3 DEF HubCalls, NodeCalls, WaitInv, WaitTypes, TableTypes
<1>5. WaitTypes' /\ LinkInv'
  BY <1>1, <1>2, <1>4 DEF WaitInv, WaitTypes, LinkInv, Cur, Node
<1>6. \A n \in Nodes : Cur(n)' = Cur(n)
  BY <1>1 DEF Cur
<1>7. call'[k] = "looked" =>
        \/ from'[k] = Hub
        \/ \E n \in Nodes : /\ from'[k] = n /\ linked[n]
                            /\ via'[k] = Cur(n) /\ madeBy'[k] = life[n]
  BY <1>1 DEF HubCalls, NodeCalls, WaitInv, WaitTypes
<1>8. CallInv'
  <2>1. CASE call'[k] = "looked" /\ from'[k] # Hub
    <3>1. PICK n \in Nodes : /\ from'[k] = n /\ linked[n]
                             /\ via'[k] = Cur(n) /\ madeBy'[k] = life[n]
      BY <1>7, <2>1
    <3>2. link[n] = "session" /\ dialled[n] \in Nat
      BY <3>1 DEF WaitInv, WaitTypes, LinkInv
    <3> QED
      BY <1>1, <1>2, <1>3, <1>6, <2>1, <3>1, <3>2 DEF WaitInv, CallInv, Node
  <2>2. CASE call'[k] # "looked" \/ from'[k] = Hub
    BY <1>1, <1>2, <1>6, <2>2 DEF WaitInv, CallInv, Node
  <2> QED
    BY <2>1, <2>2
<1>9. ListedInv'
  BY <1>1, <1>2 DEF WaitInv, ListedInv
<1>10. WaitingCanBeWoken'
  <2>1. \A j \in hubPending : j \in Calls \ {k}
    BY <1>1 DEF WaitInv, WaitTypes
  <2> QED
    BY <1>1, <1>2, <2>1 DEF WaitInv, WaitingCanBeWoken
<1> QED
  BY <1>5, <1>8, <1>9, <1>10 DEF WaitInv

\* A caller enters the table of its side, if its node object still is the present one.
LEMMA WaitEnlist ==
    ASSUME WaitInv, NEW k \in Calls, Enlist(k)
    PROVE  WaitInv'
<1>1. /\ call[k] = "looked"
      /\ call' = [call EXCEPT ![k] = "listed"]
      /\ UNCHANGED <<from, via, madeBy, box, nodeUp, linked, link, dialled, life>>
  BY DEF Enlist, wireVars
<1>2. /\ hubPending' = IF from[k] = Hub THEN hubPending \cup {k} ELSE hubPending
      /\ nodePending' = IF from[k] # Hub /\ madeBy[k] = life[from[k]]
                        THEN [nodePending EXCEPT ![from[k]] = @ \cup {k}] ELSE nodePending
  BY DEF Enlist
<1>3. \/ from[k] = Hub
      \/ from[k] \in Nodes /\ (nodeUp[via[k]] => madeBy[k] = life[from[k]])
  BY <1>1 DEF WaitInv, CallInv
<1>4. WaitTypes' /\ LinkInv'
  BY <1>1, <1>2, <1>3 DEF WaitInv, WaitTypes, LinkInv, Cur, Node
<1>5. CallInv'
  BY <1>1 DEF WaitInv, WaitTypes, CallInv, Cur, Node
<1>6. \A n \in Nodes : nodePending[n] \subseteq nodePending'[n]
  BY <1>2, <1>3 DEF WaitInv, WaitTypes
<1>7. ListedInv' /\ WaitingCanBeWoken'
  <2>1. from[k] # Hub /\ nodeUp[via[k]] => k \in nodePending'[from[k]]
    BY <1>2, <1>3 DEF WaitInv, WaitTypes
  <2>2. \A j \in Calls : call[j] \in {"listed", "waiting"} => from[j] = Hub \/ from[j] \in Nodes
    BY DEF WaitInv, CallInv
  <2>3. \A j \in Calls \ {k} : call'[j] = call[j]
    BY <1>1 DEF WaitInv, WaitTypes
  <2>4. call'[k] = "listed"
    BY <1>1 DEF WaitInv, WaitTypes
  <2>5. ListedInv'
    BY <1>1, <1>2, <1>6, <2>1, <2>2, <2>3, <2>4 DEF WaitInv, ListedInv
  <2>6. WaitingCanBeWoken'
    BY <1>1, <1>2, <1>6, <2>2, <2>3, <2>4 DEF WaitInv, WaitingCanBeWoken
  <2> QED
    BY <2>5, <2>6
<1> QED
  BY <1>4, <1>5, <1>7 DEF WaitInv

\* A frame that could be sent went out on the connection of the running session, and
\* its call is still listed: everything that ends the session closes that connection.
LEMMA WaitTransmit ==
    ASSUME WaitInv, NEW k \in Calls, Transmit(k)
    PROVE  WaitInv'
<1>1. /\ call[k] = "listed"
      /\ call' = [call EXCEPT ![k] = "waiting"]
      /\ from[k] # Hub => nodeUp[via[k]]
      /\ UNCHANGED <<from, via, madeBy, box, hubPending, nodePending, nodeUp, linked, link,
                     dialled, life>>
  BY DEF Transmit, hubVars, nodeVars
<1>2. /\ call'[k] = "waiting"
      /\ \A j \in Calls \ {k} : call'[j] = call[j]
  BY <1>1 DEF WaitInv, WaitTypes
<1>3. from[k] # Hub => via[k] = Cur(from[k]) /\ link[from[k]] = "session"
  BY <1>1 DEF WaitInv, CallInv, LinkInv
<1>4. WaitTypes' /\ LinkInv'
  BY <1>1 DEF WaitInv, WaitTypes, LinkInv, Cur, Node
<1>5. CallInv'
  BY <1>1, <1>2, <1>3 DEF WaitInv, CallInv, Cur, Node
<1>6. ListedInv' /\ WaitingCanBeWoken'
  BY <1>1, <1>2 DEF WaitInv, ListedInv, WaitingCanBeWoken
<1> QED
  BY <1>4, <1>5, <1>6 DEF WaitInv

\* send() ends and takes the call out; the entry a node leaves behind harms nobody.
LEMMA WaitReturns ==
    ASSUME WaitInv, NEW k \in Calls, TransmitFails(k) \/ Answered(k) \/ TimesOut(k)
    PROVE  WaitInv'
<1>1. /\ call' = [call EXCEPT ![k] = "over"]
      /\ hubPending' = hubPending \ {k}
      /\ UNCHANGED <<from, via, madeBy, box, nodeUp, linked, link, dialled, life>>
  BY DEF TransmitFails, Answered, TimesOut, Returns, wireVars
<1>2. /\ nodePending' \in [Nodes -> SUBSET Calls]
      /\ \A n \in Nodes : nodePending[n] \ {k} \subseteq nodePending'[n]
  BY DEF TransmitFails, Answered, TimesOut, Unlist, WaitInv, WaitTypes
<1>3. /\ call'[k] = "over"
      /\ \A j \in Calls \ {k} : call'[j] = call[j]
  BY <1>1 DEF WaitInv, WaitTypes
<1>4. WaitTypes' /\ LinkInv'
  BY <1>1, <1>2 DEF WaitInv, WaitTypes, LinkInv, Cur, Node
<1>5. CallInv'
  BY <1>1, <1>3 DEF WaitInv, CallInv, Cur, Node
<1>6. ListedInv' /\ WaitingCanBeWoken'
  BY <1>1, <1>2, <1>3 DEF WaitInv, CallInv, ListedInv, WaitingCanBeWoken
<1> QED
  BY <1>4, <1>5, <1>6 DEF WaitInv

\* Every step keeps WaitInv; the connection a caller of the hub takes comes from the
\* table, hence TableInv.
LEMMA WaitNext == WaitInv /\ TableInv /\ [Next]_vars => WaitInv'
<1> SUFFICES ASSUME WaitInv, TableInv, [Next]_vars PROVE WaitInv'
  OBVIOUS
<1>1. ASSUME NEW n \in Nodes, LinkSteps(n)
      PROVE  WaitInv'
  <2>1. ASSUME NEW k \in Calls, NEW a \in Replies, ReadReply(n, k, a)
        PROVE  WaitInv'
    <3>1. /\ box' \in [Calls -> Answers \cup {None}]
          /\ \A j \in Calls : box'[j] = None => box[j] = None
      BY <2>1, NamesDiffer DEF ReadReply, WaitInv, WaitTypes, Answers
    <3>2. UNCHANGED <<call, from, via, madeBy, nodeUp, linked, link, dialled, life, hubPending,
                      nodePending>>
      BY <2>1 DEF ReadReply, hubVars, nodeVars
    <3> QED
      BY <3>1, <3>2, SlotsFilled DEF WaitInv, WaitTypes
  <2>2. ReadList(n) \/ (\E k \in Calls : ReadCall(n, k)) => UNCHANGED waitVars
    BY DEF ReadList, ReadCall, waitVars, hubVars, nodeVars, wireVars, callVars
  <2> QED
    BY <1>1, <2>1, <2>2, WaitUntouched, WaitDial, WaitReadAck, WaitLosesLink, WaitNodeWakes,
       WaitIdleNode DEF LinkSteps
<1>2. ASSUME NEW k \in Calls, CallerSteps(k)
      PROVE  WaitInv'
  BY <1>2, WaitEnlist, WaitTransmit, WaitReturns DEF CallerSteps
<1>3. CASE Events
  BY <1>3, WaitHubSteps, WaitIdleNode, WaitNodeWakes, WaitBreaks, WaitNewCall, WaitReturns
     DEF Events, TableInv
<1>4. ASSUME NEW c \in Conns, HandlerSteps(c) \/ Notices(c)
      PROVE  WaitInv'
  BY <1>4, WaitHubSteps, WaitBreaks
<1>5. Resting \/ UNCHANGED vars => UNCHANGED waitVars
  BY DEF Resting, vars, waitVars, hubVars, nodeVars, wireVars, callVars
<1> QED
  BY <1>1, <1>2, <1>3, <1>4, <1>5, WaitHubSteps, WaitUntouched DEF Next

\* A caller that waits with an empty slot is in the table where a reply, a lost
\* link or a stop finds it, whatever was replaced or restarted meanwhile; the
\* hub's table holds no call that is over.
THEOREM WaitingAlwaysListed == Spec => []WaitingCanBeWoken
<1>1. WaitInv => WaitingCanBeWoken
  BY DEF WaitInv
<1> QED
  BY <1>1, TableInit, TableNext, WaitInit, WaitNext, PTL DEF Spec

-----------------------------------------------------------------------------
(* The queues of the wire. *)

Asking(k)     == <<"call", k>>
Telling(k, a) == <<"reply", k, a>>

\* A frame is in no queue of q, or in one place of one queue at most.
Absent(q, f) == \A c \in Conns : \A i \in 1..Len(q[c]) : q[c][i] # f
Single(q, f) ==
    \A c, d \in Conns : \A i \in 1..Len(q[c]) : \A j \in 1..Len(q[d]) :
        q[c][i] = f /\ q[d][j] = f => c = d /\ i = j

Queues == [Conns -> Seq(Frames)]

\* What becomes of the queues in a step: r holds nothing new but for the frame
\* new, which goes to one queue's end.
Fewer(q, r) == \A f \in Frames : (Absent(q, f) => Absent(r, f)) /\ (Single(q, f) => Single(r, f))
Sent(q, r, new) ==
    /\ \A f \in Frames \ {new} : (Absent(q, f) => Absent(r, f)) /\ (Single(q, f) => Single(r, f))
    /\ Absent(q, new) => Single(r, new)

\* A queue that was read, and one that an end has left.
Read(q, r, c) == r = [q EXCEPT ![c] = Tail(@)]
Left(q, r, c) == r = [q EXCEPT ![c] = << >>]

LEMMA FramesOfACall ==
    ASSUME NEW k \in Calls
    PROVE  /\ Asking(k) \in Frames /\ \A a \in Replies : Telling(k, a) \in Frames
           /\ \A j \in Calls : Asking(j) = Asking(k) => j = k
           /\ \A j \in Calls : \A a \in Replies : Asking(j) # Telling(k, a)
           /\ \A j \in Calls : \A a, b \in Replies : Telling(j, b) = Telling(k, a) => j = k /\ b = a
           /\ \A S \in SUBSET Nodes : \A l \in {"ack", "list"} :
                 /\ <<l, S>> \in Frames /\ Asking(k) # <<l, S>>
                 /\ \A a \in Replies : Telling(k, a) # <<l, S>>
<1> USE DEF Frames, Asking, Telling
<1>1. ASSUME NEW a \in Replies PROVE Telling(k, a)[1] = "reply" /\ Telling(k, a)[2] = k /\ Telling(k, a)[3] = a
  OBVIOUS
<1>2. Asking(k)[1] = "call" /\ Asking(k)[2] = k
  OBVIOUS
<1> QED
  BY <1>1, <1>2

LEMMA TailPlaces ==
    ASSUME NEW s \in Seq(Frames), s # << >>
    PROVE  /\ Len(s) \in Nat \ {0} /\ Tail(s) \in Seq(Frames) /\ Len(Tail(s)) = Len(s) - 1
           /\ Head(s) = s[1] /\ s[1] \in Frames
           /\ \A i \in 1..(Len(s) - 1) : Tail(s)[i] = s[i + 1]
  OBVIOUS

LEMMA QueueShortens ==
    ASSUME NEW q \in Queues, NEW c \in Conns, q[c] # << >>,
           NEW r, Read(q, r, c)
    PROVE  /\ r \in Queues /\ Fewer(q, r) /\ Head(q[c]) \in Frames
           /\ Single(q, Head(q[c])) => Absent(r, Head(q[c]))
<1>1. /\ q[c] \in Seq(Frames) /\ Len(q[c]) \in Nat \ {0} /\ r \in Queues
      /\ \A d \in Conns \ {c} : r[d] = q[d]
      /\ r[c] = Tail(q[c]) /\ \A d \in Conns : q[d] \in Seq(Frames) /\ Len(q[d]) \in Nat
  BY DEF Queues, Read
<1>2. /\ Len(r[c]) = Len(q[c]) - 1 /\ Head(q[c]) = q[c][1] /\ q[c][1] \in Frames
      /\ \A i \in 1..Len(r[c]) : i + 1 \in 1..Len(q[c]) /\ i + 1 # 1 /\ r[c][i] = q[c][i + 1]
  <2>1. Len(r[c]) = Len(q[c]) - 1 /\ Head(q[c]) = q[c][1] /\ q[c][1] \in Frames
    BY <1>1, TailPlaces
  <2>2. ASSUME NEW i \in 1..Len(r[c]) PROVE i + 1 \in 1..Len(q[c]) /\ i + 1 # 1 /\ r[c][i] = q[c][i + 1]
    <3>1. i \in 1..(Len(q[c]) - 1)
      BY <2>1
    <3> QED BY <1>1, <3>1, TailPlaces
  <2> QED BY <2>1, <2>2
<1> DEFINE Was(d, i) == IF d = c THEN i + 1 ELSE i
<1>3. ASSUME NEW d \in Conns, NEW i \in 1..Len(r[d])
      PROVE  /\ Was(d, i) \in 1..Len(q[d]) /\ r[d][i] = q[d][Was(d, i)]
             /\ d = c => Was(d, i) # 1
  <2>1. CASE d = c
    BY <1>2, <2>1
  <2>2. CASE d # c
    BY <1>1, <2>2
  <2> QED BY <2>1, <2>2
<1> HIDE DEF Was
<1>4. ASSUME NEW f, Absent(q, f) PROVE Absent(r, f)
  BY <1>4, <1>3 DEF Absent
<1>5. ASSUME NEW f, Single(q, f) PROVE Single(r, f)
  <2> SUFFICES ASSUME NEW d \in Conns, NEW e \in Conns, NEW i \in 1..Len(r[d]), NEW j \in 1..Len(r[e]),
                      r[d][i] = f, r[e][j] = f
               PROVE  d = e /\ i = j
    BY DEF Single
  <2>1. q[d][Was(d, i)] = f /\ q[e][Was(e, j)] = f
    BY <1>3
  <2>2. d = e /\ Was(d, i) = Was(e, j)
    BY <1>3, <1>5, <2>1 DEF Single
  <2> QED BY <2>2 DEF Was
<1>6. ASSUME Single(q, Head(q[c])), NEW d \in Conns, NEW i \in 1..Len(r[d]), r[d][i] = Head(q[c])
      PROVE  FALSE
  <2>1. q[d][Was(d, i)] = Head(q[c]) /\ q[c][1] = Head(q[c]) /\ 1 \in 1..Len(q[c])
    BY <1>1, <1>2, <1>3, <1>6
  <2>2. d = c /\ Was(d, i) = 1
    BY <1>3, <1>6, <2>1 DEF Single
  <2> QED BY <1>3, <2>2
<1> QED
  BY <1>1, <1>2, <1>4, <1>5, <1>6 DEF Fewer, Absent

LEMMA QueueEmpties ==
    ASSUME NEW q \in Queues, NEW c \in Conns, NEW r, Left(q, r, c)
    PROVE  r \in Queues /\ Fewer(q, r)
<1>1. /\ r \in Queues /\ Len(r[c]) = 0 /\ \A d \in Conns \ {c} : r[d] = q[d]
  BY DEF Queues, Left
<1>2. \A d \in Conns : \A i \in 1..Len(r[d]) : d # c
  BY <1>1
<1> QED
  BY <1>1, <1>2 DEF Fewer, Absent, Single

LEMMA QueueGrows ==
    ASSUME NEW q \in Queues, NEW c, NEW f \in Frames,
           NEW r, r = [q EXCEPT ![c] = Append(@, f)] \/ r = q
    PROVE  r \in Queues /\ Sent(q, r, f)
<1>1. CASE r = q \/ c \notin Conns
  <2>1. r = q
    BY <1>1 DEF Queues
  <2> QED BY <2>1 DEF Sent, Absent, Single
<1>2. CASE c \in Conns /\ r = [q EXCEPT ![c] = Append(@, f)]
  <2>1. /\ q[c] \in Seq(Frames) /\ Len(q[c]) \in Nat /\ r \in Queues
        /\ \A d \in Conns \ {c} : r[d] = q[d] /\ Len(r[d]) = Len(q[d])
        /\ r[c] = Append(q[c], f)
    BY <1>2 DEF Queues
  <2>2. /\ Len(r[c]) = Len(q[c]) + 1 /\ r[c][Len(q[c]) + 1] = f
        /\ \A i \in 1..Len(q[c]) : r[c][i] = q[c][i]
    BY <2>1
  <2>3. ASSUME NEW d \in Conns, NEW i \in 1..Len(r[d])
        PROVE  \/ d = c /\ i = Len(q[c]) + 1 /\ r[d][i] = f
               \/ i \in 1..Len(q[d]) /\ r[d][i] = q[d][i]
    BY <2>1, <2>2
  <2>4. ASSUME NEW g \in Frames \ {f} PROVE (Absent(q, g) => Absent(r, g)) /\ (Single(q, g) => Single(r, g))
    BY <2>3 DEF Absent, Single
  <2>5. ASSUME Absent(q, f) PROVE Single(r, f)
    BY <2>3, <2>5 DEF Absent, Single
  <2> QED BY <2>1, <2>4, <2>5 DEF Sent
<1> QED BY <1>1, <1>2

-----------------------------------------------------------------------------
(* The calls on the wire. *)

FrameTypes ==
    /\ up \in Queues /\ down \in Queues
    /\ listed \in [Conns -> SUBSET Nodes]
    /\ runs \in [Calls -> Nat]
    /\ answer \in [Calls -> Answers \cup {None}]
    /\ crossed \subseteq Calls

Nowhere(f) == Absent(up, f) /\ Absent(down, f)

\* Nothing of the call can be carried out any more, and nothing was.
NeverRuns(k) == Nowhere(Asking(k)) /\ runs[k] = 0 /\ call[k] \in {"waiting", "over"}

\* The frame of a call exists once at most, from its transmission until it is
\* carried out.
CallFrames(k) ==
    /\ Single(up, Asking(k)) /\ Single(down, Asking(k))
    /\ Absent(up, Asking(k)) \/ Absent(down, Asking(k))
    /\ runs[k] \in {0, 1}
    /\ ~Nowhere(Asking(k)) => call[k] \in {"waiting", "over"} /\ runs[k] = 0
    /\ runs[k] = 1 => Nowhere(Asking(k)) /\ call[k] \in {"waiting", "over"}

\* A reply under way is true, and so is what a caller was told, or will be.
Honest(k) ==
    /\ ~Nowhere(Telling(k, "ran")) => runs[k] = 1
    /\ ~Nowhere(Telling(k, "refused")) => NeverRuns(k)
    /\ k \notin crossed =>
          /\ call[k] # "over" /\ box[k] = "ran" => runs[k] = 1
          /\ call[k] # "over" /\ box[k] = "refused" => NeverRuns(k)
          /\ answer[k] = "ran" => runs[k] = 1
          /\ answer[k] = "refused" => Nowhere(Asking(k)) /\ runs[k] = 0
    /\ answer[k] # None <=> call[k] = "over"

\* Only a call that was made is in the table of a node, or got a reply.
Made ==
    /\ \A n \in Nodes : \A k \in nodePending[n] : call[k] # "new"
    /\ \A k \in crossed : call[k] # "new"

PromiseInv == FrameTypes /\ Made /\ \A k \in Calls : CallFrames(k) /\ Honest(k)

promiseVars == <<up, down, listed, runs, answer, crossed, call, nodePending, box>>

\* Nothing was asked when the first server starts.
LEMMA PromiseInit == Init => PromiseInv
<1> SUFFICES ASSUME Init PROVE PromiseInv
  OBVIOUS
<1>1. FrameTypes
  BY DEF Init, FrameTypes, Queues
<1>2. \A f : Nowhere(f) /\ Single(up, f) /\ Single(down, f)
  <2>1. \A c \in Conns : Len(up[c]) = 0 /\ Len(down[c]) = 0
    BY DEF Init
  <2> QED BY <2>1 DEF Nowhere, Absent, Single
<1>3. Made
  BY DEF Init, Made
<1>4. ASSUME NEW k \in Calls PROVE CallFrames(k) /\ Honest(k)
  <2>1. call[k] = "new" /\ runs[k] = 0 /\ answer[k] = None /\ box[k] = None
    BY DEF Init
  <2>2. /\ Nowhere(Asking(k)) /\ Nowhere(Telling(k, "ran")) /\ Nowhere(Telling(k, "refused"))
        /\ Single(up, Asking(k)) /\ Single(down, Asking(k))
    BY <1>2
  <2>3. CallFrames(k)
    BY <2>1, <2>2 DEF CallFrames, Nowhere
  <2>4. Honest(k)
    BY <2>1, <2>2, NamesDiffer DEF Honest, Answers, Replies
  <2> QED BY <2>3, <2>4
<1> QED
  BY <1>1, <1>3, <1>4 DEF PromiseInv

\* Whatever leaves the wire and the callers alone keeps the promise.
LEMMA PromiseUntouched == PromiseInv /\ UNCHANGED promiseVars => PromiseInv'
<1> SUFFICES ASSUME PromiseInv, UNCHANGED promiseVars PROVE PromiseInv'
  OBVIOUS
<1>1. FrameTypes' /\ Made'
  BY DEF promiseVars, PromiseInv, FrameTypes, Made
<1>2. \A f : Nowhere(f)' = Nowhere(f)
  BY DEF promiseVars, Nowhere, Absent
<1> QED
  BY <1>1, <1>2 DEF promiseVars, PromiseInv, CallFrames, Honest, NeverRuns

\* A step that brings no frame of the call.
FramesOf(k) == {Asking(k), Telling(k, "ran"), Telling(k, "refused")}
Quiet(k) ==
    \A f \in FramesOf(k) :
        /\ Absent(up, f) => Absent(up, f)'
        /\ Single(up, f) => Single(up, f)'
        /\ Absent(down, f) => Absent(down, f)'
        /\ Single(down, f) => Single(down, f)'

LEMMA QuietQueues ==
    ASSUME NEW k \in Calls,
           \/ up' = up \/ Fewer(up, up')
           \/ \E f \in Frames \ FramesOf(k) : Sent(up, up', f),
           \/ down' = down \/ Fewer(down, down')
           \/ \E f \in Frames \ FramesOf(k) : Sent(down, down', f)
    PROVE  Quiet(k)
<1>1. FramesOf(k) \subseteq Frames
  BY FramesOfACall DEF FramesOf, Replies
<1>2. \A f \in FramesOf(k) : (Absent(up, f) => Absent(up', f)) /\ (Single(up, f) => Single(up', f))
  BY <1>1 DEF Fewer, Sent
<1>3. \A f \in FramesOf(k) : (Absent(down, f) => Absent(down', f)) /\ (Single(down, f) => Single(down', f))
  BY <1>1 DEF Fewer, Sent
<1> QED
  BY <1>2, <1>3 DEF Quiet, Absent, Single

\* A call that a step brings no frame of, does not run and does not answer.
LEMMA QuietCall ==
    ASSUME PromiseInv, NEW k \in Calls, Quiet(k),
           runs'[k] = runs[k], call'[k] = call[k], answer'[k] = answer[k],
           k \in crossed => k \in crossed',
           k \in crossed' \/ call[k] = "over" \/ box'[k] = box[k] \/ box'[k] = "unknown"
    PROVE  CallFrames(k)' /\ Honest(k)'
<1>1. /\ Nowhere(Asking(k)) => Nowhere(Asking(k))'
      /\ Nowhere(Telling(k, "ran")) => Nowhere(Telling(k, "ran"))'
      /\ Nowhere(Telling(k, "refused")) => Nowhere(Telling(k, "refused"))'
      /\ Single(up, Asking(k)) => Single(up, Asking(k))'
      /\ Single(down, Asking(k)) => Single(down, Asking(k))'
      /\ Absent(up, Asking(k)) => Absent(up, Asking(k))'
      /\ Absent(down, Asking(k)) => Absent(down, Asking(k))'
  BY DEF Quiet, FramesOf, Nowhere
<1>2. CallFrames(k) /\ Honest(k)
  BY DEF PromiseInv
<1>3. CallFrames(k)'
  BY <1>1, <1>2 DEF CallFrames
<1>4. NeverRuns(k) => NeverRuns(k)'
  BY <1>1 DEF NeverRuns
<1> QED
  BY <1>1, <1>2, <1>3, <1>4 DEF Honest

\* A step that does nothing with calls but to lose their frames, to wake them and to
\* take them out of the tables.
LEMMA QuietStep ==
    ASSUME PromiseInv, FrameTypes',
           UNCHANGED <<runs, answer, call, crossed>>,
           \A n \in Nodes : nodePending'[n] \subseteq nodePending[n],
           \A k \in Calls : Quiet(k) /\ (box'[k] = box[k] \/ box'[k] = "unknown")
    PROVE  PromiseInv'
<1>1. Made'
  BY DEF PromiseInv, Made
<1>2. ASSUME NEW k \in Calls PROVE CallFrames(k)' /\ Honest(k)'
  BY QuietCall
<1> QED
  BY <1>1, <1>2 DEF PromiseInv

\* What _send_frame of either end does to the queues.
LEMMA Sendings ==
    ASSUME FrameTypes, NEW c, NEW f \in Frames
    PROVE  /\ SendDown(down, c, f) \in Queues /\ Sent(down, SendDown(down, c, f), f)
           /\ SendUp(up, c, f) \in Queues /\ Sent(up, SendUp(up, c, f), f)
<1>1. SendDown(down, c, f) = down \/ SendDown(down, c, f) = [down EXCEPT ![c] = Append(@, f)]
  BY DEF SendDown
<1>2. SendUp(up, c, f) = up \/ SendUp(up, c, f) = [up EXCEPT ![c] = Append(@, f)]
  BY DEF SendUp
<1> HIDE DEF SendDown, SendUp
<1> QED
  BY <1>1, <1>2, QueueGrows DEF FrameTypes

\* A list of servers is no frame of a call.
LEMMA ListsAreQuiet ==
    ASSUME NEW l \in {"ack", "list"}, NEW S \in SUBSET Nodes
    PROVE  <<l, S>> \in Frames /\ \A k \in Calls : <<l, S>> \notin FramesOf(k)
<1>1. <<l, S>> \in Frames
  BY DEF Frames
<1> QED
  BY <1>1, FramesOfACall DEF FramesOf, Replies

\* The threads of the hub tell the servers who is online.
LEMMA PromiseLists ==
    ASSUME PromiseInv, TableTypes, NEW c \in Conns,
           SendAck(c) \/ ListPeers(c) \/ \E d \in Conns : PushList(c, d)
    PROVE  PromiseInv'
<1>1. UNCHANGED <<up, runs, answer, crossed, call, nodePending, box>>
  BY DEF SendAck, ListPeers, PushList, nodeVars, wireVars, callVars, pastVars
<1>2. Online \subseteq Nodes /\ listed \in [Conns -> SUBSET Nodes]
  BY DEF Online, PromiseInv, FrameTypes
<1>3. listed' \in [Conns -> SUBSET Nodes]
  BY <1>2 DEF SendAck, ListPeers, PushList
<1>4. \/ down' = down
      \/ \E l \in {"ack", "list"}, S \in SUBSET Nodes, d \in Conns : down' = SendDown(down, d, <<l, S>>)
  BY <1>2 DEF SendAck, ListPeers, PushList, wireVars
<1>5. FrameTypes' /\ \A k \in Calls : Quiet(k)
  <2>1. CASE down' = down
    BY <1>1, <1>3, <2>1, QuietQueues DEF PromiseInv, FrameTypes
  <2>2. ASSUME NEW l \in {"ack", "list"}, NEW S \in SUBSET Nodes, NEW d \in Conns,
               down' = SendDown(down, d, <<l, S>>)
        PROVE  FrameTypes' /\ \A k \in Calls : Quiet(k)
    <3>1. down' \in Queues /\ Sent(down, down', <<l, S>>)
      BY <2>2, Sendings, ListsAreQuiet DEF PromiseInv
    <3>2. FrameTypes'
      BY <1>1, <1>3, <3>1 DEF PromiseInv, FrameTypes
    <3>3. \A k \in Calls : Quiet(k)
      BY <1>1, <3>1, QuietQueues, ListsAreQuiet
    <3> QED BY <3>2, <3>3
  <2> QED BY <1>4, <2>1, <2>2
<1> QED
  BY <1>1, <1>5, QuietStep

\* An end leaves, or reads a list: frames get fewer.
LEMMA PromiseFewer ==
    ASSUME PromiseInv, WaitInv,
           \/ \E c \in Conns : Leave(c)
           \/ \E n \in Nodes : ReadAck(n) \/ ReadUnexpected(n) \/ LoseLink(n) \/ ReadList(n)
    PROVE  PromiseInv'
<1>1. UNCHANGED <<runs, answer, crossed, call, nodePending, box, listed>>
  BY DEF Leave, ReadAck, ReadUnexpected, LoseLink, ReadList, hubVars, nodeVars, callVars, pastVars
<1>2. up \in Queues /\ down \in Queues
  BY DEF PromiseInv, FrameTypes
<1>3. up' \in Queues /\ down' \in Queues /\ (up' = up \/ Fewer(up, up')) /\ (down' = down \/ Fewer(down, down'))
  <2>1. ASSUME NEW c \in Conns, Leave(c)
        PROVE  up' \in Queues /\ Fewer(up, up') /\ down' = down
    <3>1. Left(up, up', c) /\ down' = down
      BY <2>1 DEF Leave, Left
    <3> QED BY <1>2, <3>1, QueueEmpties
  <2>2. ASSUME NEW n \in Nodes, ReadAck(n) \/ ReadUnexpected(n) \/ LoseLink(n) \/ ReadList(n)
        PROVE  down' \in Queues /\ Fewer(down, down') /\ up' = up
    <3>1. up' = up
      BY <2>2 DEF ReadAck, ReadUnexpected, LoseLink, ReadList, wireVars
    <3>2. Cur(n) \in Conns
      <4>1. link[n] \in {"hello", "session"}
        BY <2>2 DEF ReadAck, ReadUnexpected, LoseLink, ReadList
      <4> QED BY <4>1, LinkBounds DEF WaitInv, WaitTypes, LinkInv, Cur, Conns
    <3>3. \/ Left(down, down', Cur(n))
          \/ down[Cur(n)] # << >> /\ Read(down, down', Cur(n))
      BY <2>2 DEF ReadAck, ReadUnexpected, LoseLink, Drops, ReadList, Left, Read
    <3> QED BY <1>2, <3>1, <3>2, <3>3, QueueEmpties, QueueShortens
  <2> QED BY <1>2, <2>1, <2>2
<1>4. FrameTypes'
  BY <1>1, <1>3 DEF PromiseInv, FrameTypes
<1>5. \A k \in Calls : Quiet(k)
  BY <1>3, QuietQueues
<1> QED
  BY <1>1, <1>4, <1>5, QuietStep

\* Callers are woken: _abort_pending of the hub or of a node, stop(), a new node object.
LEMMA PromiseWakes ==
    ASSUME PromiseInv, WaitTypes,
           \/ HubAborts
           \/ \E c \in Conns : AbortPeer(c)
           \/ \E n \in Nodes : AbortNode(n) \/ NodeStops(n) \/ Restart(n)
    PROVE  PromiseInv'
<1>1. UNCHANGED <<up, down, listed, runs, answer, crossed, call>>
  BY DEF HubAborts, AbortPeer, AbortNode, NodeStops, Restart, hubVars, nodeVars, wireVars, callVars,
     pastVars
<1>2. \A k \in Calls : box'[k] = box[k] \/ box'[k] = "unknown"
  BY DEF HubAborts, AbortPeer, AbortNode, NodeStops, Restart, callVars, Woken
<1>3. \A n \in Nodes : nodePending'[n] \subseteq nodePending[n]
  BY DEF WaitTypes, HubAborts, AbortPeer, AbortNode, NodeStops, Restart, nodeVars
<1>4. FrameTypes'
  BY <1>1 DEF PromiseInv, FrameTypes
<1>5. \A k \in Calls : Quiet(k)
  BY <1>1, QuietQueues
<1> QED
  BY <1>1, <1>2, <1>3, <1>4, <1>5, QuietStep

\* A frame of a call is carried out, answered or passed on; every other call is quiet.
LEMMA OtherCalls ==
    ASSUME PromiseInv, FrameTypes', NEW k \in Calls,
           UNCHANGED <<call, answer, nodePending>>,
           \A j \in Calls \ {k} : runs'[j] = runs[j],
           \A j \in crossed' \ crossed : call[j] # "new",
           crossed \subseteq crossed',
           \A j \in Calls \ {k} :
              Quiet(j) /\ (j \in crossed' \/ call[j] = "over" \/ box'[j] = box[j]),
           CallFrames(k)' /\ Honest(k)'
    PROVE  PromiseInv'
<1>1. Made'
  BY DEF PromiseInv, Made
<1>2. ASSUME NEW j \in Calls PROVE CallFrames(j)' /\ Honest(j)'
  BY QuietCall
<1> QED
  BY <1>1, <1>2 DEF PromiseInv

\* The frames of one call are no frames of another.
LEMMA FramesApart ==
    ASSUME NEW k \in Calls, NEW j \in Calls \ {k}, NEW f \in FramesOf(k)
    PROVE  f \in Frames \ FramesOf(j)
  BY FramesOfACall DEF FramesOf, Replies

\* The frame of a call is taken off the wire, and another one of the call, or the
\* frame itself, goes on.
LEMMA FrameTaken ==
    ASSUME NEW k \in Calls, NEW f \in FramesOf(k),
           call'[k] \in {"waiting", "over"}, answer'[k] # None <=> call'[k] = "over",
           runs'[k] = IF f = Telling(k, "ran") THEN 1 ELSE 0,
           k \notin crossed' =>
              ~(call'[k] # "over" /\ box'[k] \in Replies) /\ answer'[k] \notin Replies,
           \A g \in FramesOf(k) \ {f} : Absent(up', g) /\ Absent(down', g),
           \/ Absent(up', f) /\ Single(down', f)
           \/ Absent(down', f) /\ Single(up', f)
    PROVE  CallFrames(k)' /\ Honest(k)'
<1>1. \A g : /\ Absent(up, g)' <=> Absent(up', g)
             /\ Absent(down, g)' <=> Absent(down', g)
             /\ Single(up, g)' <=> Single(up', g)
             /\ Single(down, g)' <=> Single(down', g)
             /\ Absent(up', g) => Single(up', g)
             /\ Absent(down', g) => Single(down', g)
  BY DEF Absent, Single
<1>2. /\ Asking(k) # Telling(k, "ran") /\ Asking(k) # Telling(k, "refused")
      /\ Telling(k, "ran") # Telling(k, "refused")
  BY FramesOfACall DEF Replies
<1>3. CallFrames(k)'
  BY <1>1, <1>2 DEF CallFrames, Nowhere, FramesOf
<1>4. Honest(k)'
  BY <1>1, <1>2 DEF Honest, NeverRuns, Nowhere, FramesOf, Replies
<1> QED
  BY <1>3, <1>4

\* The hub reads the frame of a call: it is served, relayed or refused.
LEMMA PromiseServeCall ==
    ASSUME PromiseInv, NEW c \in Conns, NEW k \in Calls, ServeCall(c, k)
    PROVE  PromiseInv'
<1>1. /\ up[c] # << >> /\ Head(up[c]) = Asking(k) /\ Read(up, up', c)
      /\ UNCHANGED <<call, answer, nodePending, box, crossed, listed>>
  BY DEF ServeCall, Asking, Read, hubVars, nodeVars, pastVars
<1>2. PICK f \in FramesOf(k) :
        /\ \E d : down' = SendDown(down, d, f)
        /\ \/ f = Telling(k, "ran") /\ runs' = [runs EXCEPT ![k] = @ + 1]
           \/ f \in {Asking(k), Telling(k, "refused")} /\ runs' = runs
  BY DEF ServeCall, FramesOf, Asking, Telling
<1>3. f \in Frames /\ FramesOf(k) \subseteq Frames
  BY FramesOfACall DEF FramesOf, Replies
<1>4. /\ up' \in Queues /\ Fewer(up, up')
      /\ Single(up, Asking(k)) => Absent(up', Asking(k))
      /\ down' \in Queues /\ Sent(down, down', f)
  BY <1>1, <1>2, <1>3, QueueShortens, Sendings DEF PromiseInv, FrameTypes
<1>5. /\ runs' \in [Calls -> Nat] /\ \A j \in Calls \ {k} : runs'[j] = runs[j]
      /\ f = Telling(k, "ran") => runs'[k] = runs[k] + 1
      /\ f # Telling(k, "ran") => runs'[k] = runs[k]
  BY <1>2, FramesOfACall DEF PromiseInv, FrameTypes, Replies
<1>6. FrameTypes'
  BY <1>1, <1>4, <1>5 DEF PromiseInv, FrameTypes
<1>7. \A j \in Calls \ {k} : Quiet(j)
  BY <1>2, <1>4, QuietQueues, FramesApart
<1>8. /\ ~Nowhere(Asking(k)) /\ Absent(down, Asking(k)) /\ Absent(up', Asking(k))
      /\ call[k] \in {"waiting", "over"} /\ runs[k] = 0
      /\ Nowhere(Telling(k, "ran")) /\ Nowhere(Telling(k, "refused"))
      /\ k \notin crossed =>
            /\ ~(call[k] # "over" /\ box[k] \in Replies)
            /\ answer[k] \notin Replies
  <2>1. up[c][1] = Asking(k) /\ 1 \in 1..Len(up[c])
    BY <1>1, TailPlaces DEF PromiseInv, FrameTypes, Queues
  <2>2. ~Absent(up, Asking(k))
    BY <2>1 DEF Absent
  <2> QED BY <1>4, <2>2 DEF PromiseInv, CallFrames, Honest, Nowhere, NeverRuns, Replies
<1>9. /\ \A g \in FramesOf(k) \ {f} : Absent(up', g) /\ Absent(down', g)
      /\ Absent(up', f) /\ Single(down', f)
  <2>1. \A g \in FramesOf(k) : Absent(up', g) /\ Absent(down, g)
    BY <1>3, <1>4, <1>8 DEF Fewer, FramesOf, Nowhere
  <2>2. \A g \in FramesOf(k) \ {f} : Absent(down', g)
    BY <1>3, <1>4, <2>1 DEF Sent
  <2> QED BY <1>2, <1>4, <2>1, <2>2 DEF Sent
<1>10. /\ call'[k] \in {"waiting", "over"}
       /\ answer'[k] # None <=> call'[k] = "over"
       /\ runs'[k] = IF f = Telling(k, "ran") THEN 1 ELSE 0
       /\ k \notin crossed' =>
             ~(call'[k] # "over" /\ box'[k] \in Replies) /\ answer'[k] \notin Replies
  BY <1>1, <1>5, <1>8 DEF PromiseInv, Honest
<1>11. CallFrames(k)' /\ Honest(k)'
  BY <1>2, <1>9, <1>10, FrameTaken
<1> QED
  BY <1>1, <1>5, <1>6, <1>7, <1>11, OtherCalls

\* A node reads the frame of a call: it runs, and the reply goes back.
LEMMA PromiseReadCall ==
    ASSUME PromiseInv, WaitInv, NEW n \in Nodes, NEW k \in Calls, ReadCall(n, k)
    PROVE  PromiseInv'
<1> DEFINE f == Telling(k, "ran")
<1>1. /\ down[Cur(n)] # << >> /\ Head(down[Cur(n)]) = Asking(k) /\ Read(down, down', Cur(n))
      /\ runs' = [runs EXCEPT ![k] = @ + 1]
      /\ up' = SendUp(up, Cur(n), f)
      /\ UNCHANGED <<call, answer, nodePending, box, crossed, listed>>
  BY DEF ReadCall, Asking, Telling, Read, hubVars, nodeVars, pastVars
<1>2. Cur(n) \in Conns
  BY LinkBounds DEF ReadCall, WaitInv, WaitTypes, LinkInv, Cur, Conns
<1>3. f \in FramesOf(k) /\ f \in Frames /\ FramesOf(k) \subseteq Frames /\ f # Asking(k)
  BY FramesOfACall DEF FramesOf, Replies
<1> HIDE DEF f
<1>4. /\ down' \in Queues /\ Fewer(down, down')
      /\ Single(down, Asking(k)) => Absent(down', Asking(k))
      /\ up' \in Queues /\ Sent(up, up', f)
  BY <1>1, <1>2, <1>3, QueueShortens, Sendings DEF PromiseInv, FrameTypes
<1>5. runs' \in [Calls -> Nat] /\ runs'[k] = runs[k] + 1 /\ \A j \in Calls \ {k} : runs'[j] = runs[j]
  BY <1>1 DEF PromiseInv, FrameTypes
<1>6. FrameTypes'
  BY <1>1, <1>4, <1>5 DEF PromiseInv, FrameTypes
<1>7. \A j \in Calls \ {k} : Quiet(j)
  BY <1>3, <1>4, QuietQueues, FramesApart
<1>8. /\ ~Nowhere(Asking(k)) /\ Absent(up, Asking(k)) /\ Absent(down', Asking(k))
      /\ call[k] \in {"waiting", "over"} /\ runs[k] = 0
      /\ Nowhere(Telling(k, "ran")) /\ Nowhere(Telling(k, "refused"))
      /\ k \notin crossed =>
            /\ ~(call[k] # "over" /\ box[k] \in Replies)
            /\ answer[k] \notin Replies
  <2>1. down[Cur(n)][1] = Asking(k) /\ 1 \in 1..Len(down[Cur(n)])
    BY <1>1, <1>2, TailPlaces DEF PromiseInv, FrameTypes, Queues
  <2>2. ~Absent(down, Asking(k))
    BY <1>2, <2>1 DEF Absent
  <2> QED BY <1>4, <2>2 DEF PromiseInv, CallFrames, Honest, Nowhere, NeverRuns, Replies
<1>9. /\ \A g \in FramesOf(k) \ {f} : Absent(up', g) /\ Absent(down', g)
      /\ Absent(down', f) /\ Single(up', f)
  <2>1. \A g \in FramesOf(k) : Absent(down', g) /\ Absent(up, g)
    BY <1>3, <1>4, <1>8 DEF Fewer, FramesOf, Nowhere
  <2>2. \A g \in FramesOf(k) \ {f} : Absent(up', g)
    BY <1>3, <1>4, <2>1 DEF Sent
  <2> QED BY <1>3, <1>4, <2>1, <2>2 DEF Sent
<1>10. /\ call'[k] \in {"waiting", "over"}
       /\ answer'[k] # None <=> call'[k] = "over"
       /\ runs'[k] = 1
       /\ k \notin crossed' =>
             ~(call'[k] # "over" /\ box'[k] \in Replies) /\ answer'[k] \notin Replies
  BY <1>1, <1>5, <1>8 DEF PromiseInv, Honest
<1>11. CallFrames(k)' /\ Honest(k)'
  BY <1>3, <1>9, <1>10, FrameTaken DEF f
<1> QED
  BY <1>1, <1>5, <1>6, <1>7, <1>11, OtherCalls

\* The hub reads a reply: the caller gets it, or it goes to the server that asked.
LEMMA PromiseServeReply ==
    ASSUME PromiseInv, WaitTypes, NEW c \in Conns, NEW k \in Calls, ServeReply(c, k)
    PROVE  PromiseInv'
<1> DEFINE f == Telling(k, "ran")
<1>1. /\ up[c] # << >> /\ Head(up[c]) = f /\ Read(up, up', c)
      /\ box' = box \/ box' = [box EXCEPT ![k] = "ran"]
      /\ down' = down \/ \E d : down' = SendDown(down, d, f)
      /\ UNCHANGED <<call, answer, nodePending, runs, crossed, listed>>
  BY DEF ServeReply, Telling, Read, hubVars, nodeVars, pastVars
<1>2. f \in FramesOf(k) /\ f \in Frames /\ FramesOf(k) \subseteq Frames
      /\ f # Asking(k) /\ f # Telling(k, "refused")
  BY FramesOfACall DEF FramesOf, Replies
<1> HIDE DEF f
<1>3. /\ up' \in Queues /\ Fewer(up, up')
      /\ down' \in Queues /\ (down' = down \/ Sent(down, down', f))
  BY <1>1, <1>2, QueueShortens, Sendings DEF PromiseInv, FrameTypes
<1>4. FrameTypes'
  BY <1>1, <1>3 DEF PromiseInv, FrameTypes
<1>5. \A j \in Calls \ {k} : Quiet(j)
  BY <1>2, <1>3, QuietQueues, FramesApart
<1>6. runs[k] = 1 /\ CallFrames(k) /\ Honest(k)
  <2>1. up[c][1] = f /\ 1 \in 1..Len(up[c])
    BY <1>1, TailPlaces DEF PromiseInv, FrameTypes, Queues
  <2>2. ~Absent(up, f)
    BY <2>1 DEF Absent
  <2> QED BY <2>2 DEF PromiseInv, Honest, Nowhere, f
<1>7. /\ \A g \in FramesOf(k) : Absent(up, g) => Absent(up', g)
      /\ \A g \in FramesOf(k) : Single(up, g) => Single(up', g)
      /\ \A g \in FramesOf(k) \ {f} : Absent(down, g) => Absent(down', g)
      /\ \A g \in FramesOf(k) \ {f} : Single(down, g) => Single(down', g)
  BY <1>2, <1>3 DEF Fewer, Sent
<1>8. Nowhere(Asking(k)) /\ Nowhere(Telling(k, "refused")) /\ call[k] \in {"waiting", "over"}
  BY <1>6 DEF CallFrames, Honest, NeverRuns
<1>9. /\ Absent(up', Asking(k)) /\ Absent(down', Asking(k))
      /\ Absent(up', Telling(k, "refused")) /\ Absent(down', Telling(k, "refused"))
  BY <1>2, <1>7, <1>8 DEF FramesOf, Nowhere
<1>10. Nowhere(Asking(k))' /\ Nowhere(Telling(k, "refused"))' /\ Single(up, Asking(k))' /\ Single(down, Asking(k))'
  BY <1>9 DEF Nowhere, Absent, Single
<1>11. CallFrames(k)'
  BY <1>1, <1>6, <1>8, <1>10 DEF CallFrames, Nowhere
<1>12. /\ box'[k] = box[k] \/ box'[k] = "ran"
       /\ \A j \in Calls \ {k} : box'[j] = box[j]
  BY <1>1 DEF WaitTypes
<1>13. Honest(k)'
  <2>1. k \notin crossed /\ call[k] # "over" => box'[k] # "refused"
    BY <1>6, <1>12 DEF Honest, NeverRuns
  <2> QED BY <1>1, <1>6, <1>10, <2>1 DEF Honest
<1> QED
  BY <1>1, <1>4, <1>5, <1>11, <1>13, <1>12, OtherCalls

\* A node reads a reply: whoever waits under its request_id gets it.
LEMMA PromiseReadReply ==
    ASSUME PromiseInv, WaitInv, NEW n \in Nodes, NEW k \in Calls, NEW a \in Replies, ReadReply(n, k, a)
    PROVE  PromiseInv'
<1> DEFINE found == {j \in nodePending[n] : rid[j] = rid[k]}
           f == Telling(k, a)
<1>1. /\ down[Cur(n)] # << >> /\ Head(down[Cur(n)]) = f /\ Read(down, down', Cur(n))
      /\ box' = [j \in Calls |-> IF j \in found THEN a ELSE box[j]]
      /\ crossed' = crossed \cup {j \in found \ {k} : call[j] # "over"}
      /\ UNCHANGED <<call, answer, nodePending, runs, up, listed>>
  BY DEF ReadReply, Telling, Read, hubVars, nodeVars, pastVars
<1>2. Cur(n) \in Conns
  BY LinkBounds DEF ReadReply, WaitInv, WaitTypes, LinkInv, Cur, Conns
<1>3. found \subseteq Calls /\ \A j \in found : call[j] # "new"
  BY DEF WaitInv, WaitTypes, PromiseInv, Made
<1> HIDE DEF found, f
<1>4. down' \in Queues /\ Fewer(down, down')
  BY <1>1, <1>2, QueueShortens DEF PromiseInv, FrameTypes
<1>5. FrameTypes'
  BY <1>1, <1>3, <1>4 DEF PromiseInv, FrameTypes
<1>6. \A j \in Calls : Quiet(j)
  BY <1>1, <1>4, QuietQueues
<1>7. CallFrames(k) /\ Honest(k) /\ ~Nowhere(f)
  <2>1. down[Cur(n)][1] = f /\ 1 \in 1..Len(down[Cur(n)])
    BY <1>1, <1>2, TailPlaces DEF PromiseInv, FrameTypes, Queues
  <2> QED BY <1>2, <2>1 DEF PromiseInv, Nowhere, Absent
<1>8. (a = "ran" => runs[k] = 1) /\ (a = "refused" => NeverRuns(k))
  BY <1>7 DEF Honest, f
<1>9. CallFrames(k)' /\ Honest(k)'
  <2>1. /\ Nowhere(Asking(k)) => Nowhere(Asking(k))'
        /\ Nowhere(Telling(k, "ran")) => Nowhere(Telling(k, "ran"))'
        /\ Nowhere(Telling(k, "refused")) => Nowhere(Telling(k, "refused"))'
        /\ Single(up, Asking(k)) => Single(up, Asking(k))'
        /\ Single(down, Asking(k)) => Single(down, Asking(k))'
        /\ Absent(up, Asking(k)) => Absent(up, Asking(k))'
        /\ Absent(down, Asking(k)) => Absent(down, Asking(k))'
    BY <1>6 DEF Quiet, FramesOf, Nowhere
  <2>2. CallFrames(k)'
    BY <1>1, <1>7, <2>1 DEF CallFrames
  <2>3. NeverRuns(k) => NeverRuns(k)'
    BY <1>1, <2>1 DEF NeverRuns
  <2>4. /\ box'[k] = a \/ box'[k] = box[k]
        /\ k \notin crossed' => k \notin crossed
    BY <1>1
  <2>5. Honest(k)'
    BY <1>1, <1>7, <1>8, <2>1, <2>3, <2>4 DEF Honest, Replies
  <2> QED BY <2>2, <2>5
<1>10. \A j \in Calls \ {k} : j \in crossed' \/ call[j] = "over" \/ box'[j] = box[j]
  BY <1>1
<1> QED
  BY <1>1, <1>3, <1>5, <1>6, <1>9, <1>10, OtherCalls

\* A caller asks: the hub of its table, a node of its _conn.
LEMMA PromiseNewCall ==
    ASSUME PromiseInv, WaitTypes, NEW k \in Calls,
           \/ \E t \in Nodes : HubCalls(k, t)
           \/ \E n \in Nodes : \E t \in (Nodes \ {n}) \cup {Hub} : NodeCalls(k, n, t)
    PROVE  PromiseInv'
<1>1. /\ call[k] = "new"
      /\ UNCHANGED <<up, down, listed, runs, crossed, nodePending, box>>
      /\ \/ call' = [call EXCEPT ![k] = "looked"] /\ answer' = answer
         \/ call' = [call EXCEPT ![k] = "over"] /\ answer' = [answer EXCEPT ![k] = "refused"]
  BY DEF HubCalls, NodeCalls, hubVars, nodeVars, wireVars, callVars, pastVars
<1>2. /\ \A j \in Calls \ {k} : call'[j] = call[j] /\ answer'[j] = answer[j]
      /\ \/ call'[k] = "looked" /\ answer'[k] = answer[k]
         \/ call'[k] = "over" /\ answer'[k] = "refused"
  BY <1>1 DEF WaitTypes, PromiseInv, FrameTypes
<1>3. FrameTypes' /\ Made'
  BY <1>1, <1>2 DEF WaitTypes, PromiseInv, FrameTypes, Made, Answers, Replies
<1>4. \A j \in Calls : Quiet(j)
  BY <1>1, QuietQueues
<1>5. \A j \in Calls \ {k} : CallFrames(j)' /\ Honest(j)'
  BY <1>1, <1>2, <1>4, QuietCall
<1>6. \A f : Nowhere(f) <=> Nowhere(f)'
  BY <1>1 DEF Nowhere, Absent
<1>7. CallFrames(k) /\ Honest(k) /\ k \notin crossed
  BY <1>1 DEF PromiseInv, Made
<1>8. /\ Nowhere(Asking(k)) /\ Nowhere(Telling(k, "ran")) /\ Nowhere(Telling(k, "refused"))
      /\ runs[k] = 0 /\ box[k] \notin Replies /\ answer[k] = None
  BY <1>1, <1>7 DEF CallFrames, Honest, NeverRuns, Replies
<1>9. CallFrames(k)'
  BY <1>1, <1>6, <1>7, <1>8 DEF CallFrames, Nowhere
<1>10. Honest(k)'
  BY <1>1, <1>2, <1>6, <1>8, NamesDiffer DEF Honest, Answers, Replies
<1> QED
  BY <1>3, <1>5, <1>9, <1>10 DEF PromiseInv

\* A caller enters the table.
LEMMA PromiseEnlist ==
    ASSUME PromiseInv, WaitInv, NEW k \in Calls, Enlist(k)
    PROVE  PromiseInv'
<1>1. /\ call[k] = "looked" /\ call' = [call EXCEPT ![k] = "listed"]
      /\ UNCHANGED <<up, down, listed, runs, crossed, answer, box>>
  BY DEF Enlist, wireVars, pastVars
<1>2. call'[k] = "listed" /\ \A j \in Calls \ {k} : call'[j] = call[j]
  BY <1>1 DEF WaitInv, WaitTypes
<1>3. \A n \in Nodes : nodePending'[n] \subseteq nodePending[n] \cup {k}
  BY DEF Enlist, WaitInv, WaitTypes
<1>4. FrameTypes' /\ Made'
  BY <1>1, <1>2, <1>3 DEF WaitInv, WaitTypes, PromiseInv, FrameTypes, Made
<1>5. \A j \in Calls : Quiet(j)
  BY <1>1, QuietQueues
<1>6. \A j \in Calls \ {k} : CallFrames(j)' /\ Honest(j)'
  BY <1>1, <1>2, <1>5, QuietCall
<1>7. \A f : Nowhere(f) <=> Nowhere(f)'
  BY <1>1 DEF Nowhere, Absent
<1>8. CallFrames(k) /\ Honest(k)
  BY DEF PromiseInv
<1>9. CallFrames(k)'
  BY <1>1, <1>2, <1>7, <1>8 DEF CallFrames, Nowhere
<1>10. Honest(k)'
  BY <1>1, <1>2, <1>7, <1>8 DEF Honest, NeverRuns
<1> QED
  BY <1>4, <1>6, <1>9, <1>10 DEF PromiseInv

\* The only step that puts a call on the wire.
LEMMA PromiseTransmit ==
    ASSUME PromiseInv, WaitTypes, NEW k \in Calls, Transmit(k)
    PROVE  PromiseInv'
<1> DEFINE f == Asking(k)
<1>1. /\ call[k] = "listed" /\ call' = [call EXCEPT ![k] = "waiting"]
      /\ \/ down' = SendDown(down, via[k], f) /\ up' = up
         \/ up' = SendUp(up, via[k], f) /\ down' = down
      /\ UNCHANGED <<listed, runs, crossed, answer, box, nodePending>>
  BY DEF Transmit, Asking, hubVars, nodeVars, pastVars
<1>2. call'[k] = "waiting" /\ \A j \in Calls \ {k} : call'[j] = call[j]
  BY <1>1 DEF WaitTypes
<1>3. f \in FramesOf(k) /\ f \in Frames /\ FramesOf(k) \subseteq Frames
      /\ f # Telling(k, "ran") /\ f # Telling(k, "refused")
  BY FramesOfACall DEF FramesOf, Replies
<1> HIDE DEF f
<1>4. /\ up' \in Queues /\ down' \in Queues
      /\ \/ Sent(down, down', f) /\ up' = up
         \/ Sent(up, up', f) /\ down' = down
  BY <1>1, <1>3, Sendings DEF PromiseInv, FrameTypes
<1>5. FrameTypes' /\ Made'
  BY <1>1, <1>2, <1>4 DEF WaitTypes, PromiseInv, FrameTypes, Made
<1>6. \A j \in Calls \ {k} : Quiet(j)
  BY <1>3, <1>4, QuietQueues, FramesApart
<1>7. \A j \in Calls \ {k} : CallFrames(j)' /\ Honest(j)'
  BY <1>1, <1>2, <1>6, QuietCall
<1>8. CallFrames(k) /\ Honest(k)
  BY DEF PromiseInv
<1>9. /\ Nowhere(Asking(k)) /\ Nowhere(Telling(k, "ran")) /\ Nowhere(Telling(k, "refused"))
      /\ runs[k] = 0 /\ answer[k] = None
      /\ k \notin crossed => box[k] \notin Replies
  BY <1>1, <1>8 DEF CallFrames, Honest, NeverRuns, Replies
<1>10. /\ \A g \in FramesOf(k) \ {f} : Absent(up', g) /\ Absent(down', g)
       /\ \/ Absent(up', f) /\ Single(down', f)
          \/ Absent(down', f) /\ Single(up', f)
  BY <1>3, <1>4, <1>9 DEF Sent, Nowhere, FramesOf, f
<1>11. /\ call'[k] \in {"waiting", "over"}
       /\ answer'[k] # None <=> call'[k] = "over"
       /\ runs'[k] = 0
       /\ k \notin crossed' =>
             ~(call'[k] # "over" /\ box'[k] \in Replies) /\ answer'[k] \notin Replies
  BY <1>1, <1>2, <1>9, NamesDiffer DEF Answers, Replies
<1>12. CallFrames(k)' /\ Honest(k)'
  BY <1>3, <1>10, <1>11, FrameTaken
<1> QED
  BY <1>5, <1>7, <1>12 DEF PromiseInv

\* send() ends: with the reply, with nothing, or before the frame left.
LEMMA PromiseReturns ==
    ASSUME PromiseInv, WaitTypes, NEW k \in Calls, TransmitFails(k) \/ Answered(k) \/ TimesOut(k)
    PROVE  /\ PromiseInv'
           /\ k \notin crossed /\ answer'[k] = "ran" => runs[k] = 1
           /\ k \notin crossed /\ answer'[k] = "refused" => runs[k] = 0
           /\ answer'[k] \in Answers
<1>1. /\ call[k] \in {"listed", "waiting"} /\ call' = [call EXCEPT ![k] = "over"]
      /\ UNCHANGED <<up, down, listed, runs, crossed, box>>
      /\ \A n \in Nodes : nodePending'[n] \subseteq nodePending[n]
  BY DEF TransmitFails, Answered, TimesOut, Returns, Unlist, wireVars, pastVars
<1>2. /\ answer' \in [Calls -> Answers \cup {None}]
      /\ \A j \in Calls \ {k} : answer'[j] = answer[j]
      /\ \/ call[k] = "listed" /\ answer'[k] = "refused"
         \/ call[k] = "waiting" /\ answer'[k] = box[k] /\ box[k] \in Answers
         \/ answer'[k] = "unknown"
  BY DEF TransmitFails, Answered, TimesOut, Returns, WaitTypes, PromiseInv, FrameTypes, Answers, Replies
<1>3. call'[k] = "over" /\ \A j \in Calls \ {k} : call'[j] = call[j]
  BY <1>1 DEF WaitTypes
<1>4. FrameTypes' /\ Made'
  BY <1>1, <1>2, <1>3 DEF WaitTypes, PromiseInv, FrameTypes, Made
<1>5. \A j \in Calls : Quiet(j)
  BY <1>1, QuietQueues
<1>6. \A j \in Calls \ {k} : CallFrames(j)' /\ Honest(j)'
  BY <1>1, <1>2, <1>3, <1>5, QuietCall
<1>7. \A f : Nowhere(f) <=> Nowhere(f)'
  BY <1>1 DEF Nowhere, Absent
<1>8. CallFrames(k) /\ Honest(k)
  BY DEF PromiseInv
<1>9. CallFrames(k)'
  BY <1>1, <1>3, <1>7, <1>8 DEF CallFrames, Nowhere
<1>10. k \notin crossed =>
          /\ answer'[k] = "ran" => runs[k] = 1
          /\ answer'[k] = "refused" => Nowhere(Asking(k)) /\ runs[k] = 0
  BY <1>1, <1>2, <1>8 DEF CallFrames, Honest, NeverRuns
<1>11. answer'[k] \in Answers /\ answer'[k] # None
  BY <1>2, NamesDiffer DEF Answers, Replies
<1>12. Honest(k)'
  <2>1. NeverRuns(k) => NeverRuns(k)'
    BY <1>1, <1>3, <1>7 DEF NeverRuns
  <2> QED BY <1>1, <1>3, <1>7, <1>8, <1>10, <1>11, <2>1 DEF Honest
<1> QED
  BY <1>4, <1>6, <1>9, <1>10, <1>11, <1>12 DEF PromiseInv

\* Every step keeps the promise.
LEMMA PromiseNext == PromiseInv /\ WaitInv /\ TableInv /\ [Next]_vars => PromiseInv'
<1> SUFFICES ASSUME PromiseInv, WaitInv, TableInv, [Next]_vars PROVE PromiseInv'
  OBVIOUS
<1> USE DEF WaitInv, TableInv
<1>1. ASSUME NEW c \in Conns, HandlerSteps(c)
      PROVE  PromiseInv'
  <2>1. Register(c) \/ CloseReplaced(c) \/ NoHello(c) => UNCHANGED promiseVars
    BY DEF Register, CloseReplaced, NoHello, promiseVars, nodeVars, wireVars, callVars, pastVars
  <2> QED
    BY <1>1, <2>1, PromiseUntouched, PromiseLists, PromiseFewer, PromiseWakes, PromiseServeCall,
       PromiseServeReply DEF HandlerSteps
<1>2. ASSUME NEW n \in Nodes, LinkSteps(n)
      PROVE  PromiseInv'
  <2>1. Dial(n) \/ StopsTrying(n) => UNCHANGED promiseVars
    BY DEF Dial, StopsTrying, promiseVars, hubVars, wireVars, callVars, pastVars
  <2> QED
    BY <1>2, <2>1, PromiseUntouched, PromiseFewer, PromiseWakes, PromiseReadCall, PromiseReadReply
       DEF LinkSteps
<1>3. ASSUME NEW k \in Calls, CallerSteps(k)
      PROVE  PromiseInv'
  BY <1>3, PromiseEnlist, PromiseTransmit, PromiseReturns DEF CallerSteps
<1>4. CASE HubStopping
  <2>1. HubEnds \/ (\E c \in Conns : HubCloses(c)) => UNCHANGED promiseVars
    BY DEF HubEnds, HubCloses, promiseVars, nodeVars, wireVars, callVars, pastVars
  <2> QED BY <1>4, <2>1, PromiseUntouched, PromiseWakes DEF HubStopping
<1>5. CASE Events
  <2>1. HubStops \/ (\E n \in Nodes : Start(n)) \/ (\E c \in Conns : Breaks(c)) => UNCHANGED promiseVars
    BY DEF HubStops, Start, Breaks, promiseVars, hubVars, nodeVars, wireVars, callVars, pastVars
  <2> QED
    BY <1>5, <2>1, PromiseUntouched, PromiseWakes, PromiseNewCall, PromiseReturns DEF Events
<1>6. ASSUME NEW c \in Conns, Notices(c)
      PROVE  UNCHANGED promiseVars
  BY <1>6 DEF Notices, promiseVars, hubVars, nodeVars, wireVars, callVars, pastVars
<1>7. Resting \/ UNCHANGED vars => UNCHANGED promiseVars
  BY DEF Resting, vars, promiseVars, hubVars, nodeVars, wireVars, callVars, pastVars
<1> QED
  BY <1>1, <1>2, <1>3, <1>4, <1>5, <1>6, <1>7, PromiseUntouched DEF Next

\* The caller's view of a call: how far it is, and how it ended.
LEMMA PromiseSeen ==
    ASSUME NEW k \in Calls
    PROVE  /\ Stage[k] = IF call[k] \in {"new", "over"} THEN call[k] ELSE "open"
           /\ Outcome[k] = IF answer[k] = None THEN "none"
                           ELSE IF k \in crossed THEN "unknown" ELSE answer[k]
  BY DEF Stage, Outcome

\* A step that runs no call and ends none is seen by nobody.
LEMMA PromiseStutters ==
    ASSUME UNCHANGED <<runs, answer>>, call' = call \/ Stage' = Stage,
           \A k \in crossed : k \in crossed',
           \A k \in crossed' \ crossed : answer[k] = None
    PROVE  UNCHANGED Promise!vars
<1>1. Stage' = Stage
  BY DEF Stage
<1>2. crossed' = crossed \/ \A k \in Calls : k \in crossed' => k \in crossed \/ answer[k] = None
  OBVIOUS
<1>3. Outcome' = Outcome
  BY DEF Outcome
<1> QED
  BY <1>1, <1>3 DEF Promise!vars

\* A call is carried out: by the hub, or by the node that reads its frame.
LEMMA PromiseRuns ==
    ASSUME PromiseInv, WaitInv, NEW k \in Calls,
           (\E c \in Conns : ServeCall(c, k)) \/ (\E n \in Nodes : ReadCall(n, k))
    PROVE  Promise!Run(k) \/ UNCHANGED Promise!vars
<1>1. UNCHANGED <<call, answer, crossed>>
  BY DEF ServeCall, ReadCall, hubVars, nodeVars, pastVars
<1>2. Stage' = Stage /\ Outcome' = Outcome
  BY <1>1 DEF Stage, Outcome
<1>3. ~Nowhere(Asking(k))
  <2>1. ASSUME NEW c \in Conns, ServeCall(c, k) PROVE ~Absent(up, Asking(k))
    <3>1. up[c] # << >> /\ Head(up[c]) = Asking(k) /\ up[c] \in Seq(Frames)
      BY <2>1 DEF ServeCall, Asking, PromiseInv, FrameTypes, Queues
    <3>2. up[c][1] = Asking(k) /\ 1 \in 1..Len(up[c])
      BY <3>1, TailPlaces
    <3> QED BY <3>2 DEF Absent
  <2>2. ASSUME NEW n \in Nodes, ReadCall(n, k) PROVE ~Absent(down, Asking(k))
    <3>1. Cur(n) \in Conns
      BY <2>2, LinkBounds DEF ReadCall, WaitInv, WaitTypes, LinkInv, Cur, Conns
    <3>2. down[Cur(n)] # << >> /\ Head(down[Cur(n)]) = Asking(k) /\ down[Cur(n)] \in Seq(Frames)
      BY <2>2, <3>1 DEF ReadCall, Asking, PromiseInv, FrameTypes, Queues
    <3>3. down[Cur(n)][1] = Asking(k) /\ 1 \in 1..Len(down[Cur(n)])
      BY <3>2, TailPlaces
    <3> QED BY <3>1, <3>3 DEF Absent
  <2> QED BY <2>1, <2>2 DEF Nowhere
<1>4. /\ call[k] \in {"waiting", "over"} /\ runs[k] = 0
      /\ k \notin crossed => answer[k] # "refused"
  BY <1>3 DEF PromiseInv, CallFrames, Honest
<1>5. Stage[k] # "new" /\ Outcome[k] # "refused"
  BY <1>4, PromiseSeen
<1>6. runs' = runs \/ runs' = [runs EXCEPT ![k] = 1]
  BY <1>4 DEF ServeCall, ReadCall, PromiseInv, FrameTypes
<1> QED
  BY <1>2, <1>4, <1>5, <1>6 DEF Promise!Run, Promise!vars

\* send() looks a connection up, or finds that there is none.
LEMMA PromiseAsks ==
    ASSUME PromiseInv, WaitInv, NEW k \in Calls,
           \/ \E t \in Nodes : HubCalls(k, t)
           \/ \E n \in Nodes : \E t \in (Nodes \ {n}) \cup {Hub} : NodeCalls(k, n, t)
    PROVE  Promise!Ask(k) \/ Promise!End(k, "refused")
<1>1. /\ call[k] = "new"
      /\ UNCHANGED <<runs, crossed>>
      /\ \/ call' = [call EXCEPT ![k] = "looked"] /\ answer' = answer
         \/ call' = [call EXCEPT ![k] = "over"] /\ answer' = [answer EXCEPT ![k] = "refused"]
  BY DEF HubCalls, NodeCalls, callVars, pastVars
<1>2. runs[k] = 0 /\ k \notin crossed /\ Stage[k] = "new"
  BY <1>1, PromiseSeen DEF PromiseInv, Made, CallFrames
<1>3. CASE call' = [call EXCEPT ![k] = "looked"] /\ answer' = answer
  <2>1. Stage' = [Stage EXCEPT ![k] = "open"]
    BY <1>3 DEF Stage, WaitInv, WaitTypes
  <2>2. Outcome' = Outcome
    BY <1>1, <1>3 DEF Outcome
  <2> QED BY <1>1, <1>2, <2>1, <2>2 DEF Promise!Ask
<1>4. CASE call' = [call EXCEPT ![k] = "over"] /\ answer' = [answer EXCEPT ![k] = "refused"]
  <2>1. Stage' = [Stage EXCEPT ![k] = "over"]
    BY <1>4 DEF Stage, WaitInv, WaitTypes
  <2>2. Outcome' = [Outcome EXCEPT ![k] = "refused"]
    BY <1>1, <1>2, <1>4, NamesDiffer DEF Outcome, PromiseInv, FrameTypes, Answers, Replies
  <2> QED BY <1>1, <1>2, <2>1, <2>2 DEF Promise!End
<1> QED BY <1>1, <1>3, <1>4

\* send() ends, and what it returns is true.
LEMMA PromiseEnds ==
    ASSUME PromiseInv, WaitInv, NEW k \in Calls, TransmitFails(k) \/ Answered(k) \/ TimesOut(k)
    PROVE  \E o \in Promise!Outcomes \ {"none"} : Promise!End(k, o)
<1>1. /\ call[k] \in {"listed", "waiting"} /\ call' = [call EXCEPT ![k] = "over"]
      /\ UNCHANGED <<runs, crossed>>
      /\ answer' = [answer EXCEPT ![k] = answer'[k]]
  BY DEF TransmitFails, Answered, TimesOut, Returns, pastVars, PromiseInv, FrameTypes
<1>2. /\ k \notin crossed /\ answer'[k] = "ran" => runs[k] = 1
      /\ k \notin crossed /\ answer'[k] = "refused" => runs[k] = 0
      /\ answer'[k] \in Answers
  BY PromiseReturns DEF WaitInv
<1> DEFINE o == IF k \in crossed THEN "unknown" ELSE answer'[k]
<1>3. Stage[k] = "open" /\ Stage' = [Stage EXCEPT ![k] = "over"]
  BY <1>1 DEF Stage, WaitInv, WaitTypes
<1>4. Outcome' = [Outcome EXCEPT ![k] = o]
  BY <1>1, <1>2, NamesDiffer DEF Outcome, PromiseInv, FrameTypes, Answers, Replies
<1>5. o \in Promise!Outcomes \ {"none"} /\ (o = "ran" => runs[k] = 1) /\ (o = "refused" => runs[k] = 0)
  BY <1>2 DEF Promise!Outcomes, Answers, Replies
<1> HIDE DEF o
<1> QED BY <1>1, <1>3, <1>4, <1>5 DEF Promise!End

\* Every step is one of the promise, or seen by nobody.
LEMMA PromiseSteps == PromiseInv /\ WaitInv /\ [Next]_vars => [Promise!Next]_(Promise!vars)
<1> SUFFICES ASSUME PromiseInv, WaitInv, [Next]_vars
             PROVE  Promise!Next \/ UNCHANGED Promise!vars
  OBVIOUS
<1>1. ASSUME UNCHANGED <<runs, answer, call, crossed>> PROVE UNCHANGED Promise!vars
  BY <1>1, PromiseStutters
<1>2. ASSUME NEW c \in Conns, HandlerSteps(c)
      PROVE  UNCHANGED <<runs, answer, call, crossed>> \/ \E k \in Calls : ServeCall(c, k)
  BY <1>2 DEF HandlerSteps, Register, CloseReplaced, NoHello, SendAck, ListPeers, PushList,
     ServeReply, Leave, AbortPeer, callVars, pastVars
<1>3. ASSUME NEW n \in Nodes, LinkSteps(n)
      PROVE  \/ UNCHANGED <<runs, answer, call, crossed>>
             \/ \E k \in Calls : ReadCall(n, k) \/ \E a \in Replies : ReadReply(n, k, a)
  BY <1>3 DEF LinkSteps, Dial, ReadAck, ReadUnexpected, LoseLink, AbortNode, StopsTrying, ReadList,
     callVars, pastVars
<1>4. ASSUME NEW n \in Nodes, NEW k \in Calls, NEW a \in Replies, ReadReply(n, k, a)
      PROVE  UNCHANGED Promise!vars
  <2>1. /\ UNCHANGED <<runs, answer, call>>
        /\ crossed' = crossed \cup {j \in {i \in nodePending[n] : rid[i] = rid[k]} \ {k} : call[j] # "over"}
    BY <1>4 DEF ReadReply
  <2>2. \A j \in crossed' \ crossed : j \in Calls /\ call[j] # "over"
    BY <2>1 DEF WaitInv, WaitTypes
  <2>3. \A j \in crossed' \ crossed : answer[j] = None
    BY <2>2 DEF PromiseInv, Honest
  <2> QED BY <2>1, <2>3, PromiseStutters
<1>5. ASSUME NEW k \in Calls, Enlist(k) \/ Transmit(k)
      PROVE  UNCHANGED Promise!vars
  <2>1. /\ UNCHANGED <<runs, answer, crossed>>
        /\ call[k] \in {"looked", "listed"}
        /\ call' = [call EXCEPT ![k] = "listed"] \/ call' = [call EXCEPT ![k] = "waiting"]
    BY <1>5 DEF Enlist, Transmit, pastVars
  <2>2. Stage' = Stage
    BY <2>1 DEF Stage, WaitInv, WaitTypes
  <2> QED BY <2>1, <2>2, PromiseStutters
<1>6. ASSUME NEW k \in Calls, CallerSteps(k), ~Enlist(k), ~Transmit(k)
      PROVE  \E o \in Promise!Outcomes \ {"none"} : Promise!End(k, o)
  BY <1>6, PromiseEnds DEF CallerSteps
<1>7. CASE HubStopping
  BY <1>7 DEF HubStopping, HubAborts, HubCloses, HubEnds, callVars, pastVars, Promise!vars, Stage, Outcome
<1>8. ASSUME Events
      PROVE  \/ UNCHANGED <<runs, answer, call, crossed>>
             \/ \E k \in Calls :
                   \/ Promise!Ask(k) \/ Promise!End(k, "refused")
                   \/ \E o \in Promise!Outcomes \ {"none"} : Promise!End(k, o)
  <2>1. HubStops \/ (\E n \in Nodes : Start(n) \/ NodeStops(n) \/ Restart(n)) \/ (\E c \in Conns : Breaks(c))
           => UNCHANGED <<runs, answer, call, crossed>>
    BY DEF HubStops, Start, NodeStops, Restart, Breaks, callVars, pastVars
  <2> QED BY <1>8, <2>1, PromiseAsks, PromiseEnds DEF Events
<1>9. (\E c \in Conns : Notices(c)) \/ Resting \/ UNCHANGED vars => UNCHANGED <<runs, answer, call, crossed>>
  BY DEF Notices, Resting, vars, callVars, pastVars
<1>10. "refused" \in Promise!Outcomes \ {"none"}
  BY DEF Promise!Outcomes
<1> QED
  BY <1>1, <1>2, <1>3, <1>4, <1>5, <1>6, <1>7, <1>8, <1>9, <1>10, PromiseRuns DEF Next, Promise!Next

\* Whatever breaks, is replaced, stopped or restarted: every call runs at most once, ends
\* at most once, and a caller that is told "ran" or "refused" is told the truth, for ever.
THEOREM PromiseAlwaysKept == Spec => CallsKeepPromise
<1>1. Init => Promise!Init
  BY DEF Init, Promise!Init, Stage, Outcome
<1> QED
  BY <1>1, TableInit, TableNext, WaitInit, WaitNext, PromiseInit, PromiseNext, PromiseSteps, PTL
     DEF Spec, CallsKeepPromise, Promise!Spec
-----------------------------------------------------------------------------
(* The rest of the types. *)

OtherTypes ==
    /\ hub \in {"up", "cleared", "aborted", "down"}
    /\ unsent \in [Conns -> SUBSET Conns]
    /\ nodePeers \in [Nodes -> SUBSET Nodes]
    /\ fatal \in [Nodes -> BOOLEAN] /\ stopping \in [Nodes -> BOOLEAN]
    /\ lastRid \in [Nodes -> Nat] /\ rid \in [Calls -> Nat]
    /\ to \in [Calls -> Nodes \cup {Hub, None}]
    /\ breaks \in 0..MaxBreaks
    /\ replaced \subseteq Conns /\ closed4003 \subseteq Conns
    /\ overlapped \in BOOLEAN

otherVars == <<hub, unsent, nodePeers, fatal, stopping, lastRid, rid, to, breaks, replaced,
               closed4003, overlapped>>

LEMMA OtherInit == Init => OtherTypes
<1>1. 0 \in 0..MaxBreaks
  BY LinkBounds
<1> SUFFICES ASSUME Init PROVE OtherTypes
  OBVIOUS
<1>2. hub = "up" /\ overlapped = FALSE /\ breaks = 0 /\ replaced = {} /\ closed4003 = {}
  BY DEF Init
<1>3. unsent \in [Conns -> SUBSET Conns] /\ nodePeers \in [Nodes -> SUBSET Nodes]
  BY DEF Init
<1>4. fatal \in [Nodes -> BOOLEAN] /\ stopping \in [Nodes -> BOOLEAN] /\ lastRid \in [Nodes -> Nat]
  BY DEF Init
<1>5. rid \in [Calls -> Nat] /\ to \in [Calls -> Nodes \cup {Hub, None}]
  BY DEF Init
<1> QED
  BY <1>1, <1>2, <1>3, <1>4, <1>5 DEF OtherTypes

\* What a frame that tells a node who is online says, is a set of servers.
LEMMA ToldServers ==
    ASSUME FrameTypes, NEW c \in Conns, down[c] # << >>, Head(down[c])[1] \in {"ack", "list"}
    PROVE  Head(down[c])[2] \in SUBSET Nodes
<1>1. Head(down[c]) \in Frames
  BY TailPlaces DEF FrameTypes, Queues
<1> QED BY <1>1 DEF Frames

\* The threads of the hub, and stop() of it.
LEMMA OtherHubSteps ==
    ASSUME OtherTypes, TableInv, (\E c \in Conns : HandlerSteps(c)) \/ HubStops \/ HubStopping
    PROVE  OtherTypes'
<1> USE NamesDiffer DEF OtherTypes
<1>1. ASSUME NEW c \in Conns, Register(c) PROVE OtherTypes'
  BY <1>1 DEF Register, TableInv, TableTypes, Node, Conns, nodeVars, wireVars, callVars
<1>2. ASSUME NEW c \in Conns, CloseReplaced(c) PROVE OtherTypes'
  <2>1. previous[c] \in Conns
    BY <1>2 DEF CloseReplaced, At, TableInv, TableTypes
  <2> QED BY <1>2, <2>1 DEF CloseReplaced, nodeVars, callVars, pastVars
<1>3. ASSUME NEW c \in Conns, ListPeers(c) PROVE OtherTypes'
  <2>1. {peers[n] : n \in Online} \subseteq Conns
    BY DEF Online, TableInv, TableTypes
  <2>2. unsent' \in [Conns -> SUBSET Conns] /\ overlapped' \in BOOLEAN
    BY <1>3, <2>1 DEF ListPeers
  <2> QED BY <1>3, <2>2 DEF ListPeers, nodeVars, wireVars, callVars
<1>4. ASSUME NEW c \in Conns, NEW d \in Conns, PushList(c, d) PROVE OtherTypes'
  <2>1. unsent' \in [Conns -> SUBSET Conns]
    BY <1>4 DEF PushList
  <2> QED BY <1>4, <2>1 DEF PushList, nodeVars, callVars, pastVars
<1>5. ASSUME NEW c \in Conns,
             \/ NoHello(c) \/ SendAck(c) \/ Leave(c) \/ AbortPeer(c)
             \/ \E k \in Calls : ServeCall(c, k) \/ ServeReply(c, k)
      PROVE  UNCHANGED otherVars
  BY <1>5 DEF NoHello, SendAck, Leave, AbortPeer, ServeCall, ServeReply, otherVars, hubVars, nodeVars,
     wireVars, callVars, pastVars
<1>6. HubStops \/ HubStopping => hub' \in {"up", "cleared", "aborted", "down"}
  BY DEF HubStops, HubStopping, HubAborts, HubCloses, HubEnds
<1>7. HubStops \/ HubStopping => UNCHANGED <<unsent, nodePeers, fatal, stopping, lastRid, rid, to, breaks,
                                            replaced, closed4003, overlapped>>
  BY DEF HubStops, HubStopping, HubAborts, HubCloses, HubEnds, nodeVars, wireVars, callVars, pastVars
<1>8. UNCHANGED otherVars => OtherTypes'
  BY DEF otherVars
<1> QED
  BY <1>1, <1>2, <1>3, <1>4, <1>5, <1>6, <1>7, <1>8 DEF HandlerSteps

\* The link threads and the wire.
LEMMA OtherLinkSteps ==
    ASSUME OtherTypes, WaitInv, FrameTypes, NEW n \in Nodes,
           LinkSteps(n) \/ Start(n) \/ NodeStops(n) \/ Restart(n)
    PROVE  OtherTypes'
<1> USE DEF OtherTypes
<1>1. CASE ReadAck(n) \/ ReadList(n)
  <2>1. Cur(n) \in Conns
    BY <1>1, LinkBounds DEF ReadAck, ReadList, WaitInv, WaitTypes, LinkInv, Cur, Conns
  <2>2. Head(down[Cur(n)])[2] \in SUBSET Nodes
    BY <1>1, <2>1, ToldServers DEF ReadAck, ReadList
  <2>3. nodePeers' \in [Nodes -> SUBSET Nodes]
    BY <1>1, <2>2 DEF ReadAck, ReadList
  <2> QED BY <1>1, <2>3 DEF ReadAck, ReadList, hubVars, callVars, pastVars
<1>2. CASE ReadUnexpected(n) \/ LoseLink(n)
  BY <1>2 DEF ReadUnexpected, LoseLink, Drops, hubVars, callVars, pastVars
<1>3. CASE NodeStops(n)
  <2>1. stopping' \in [Nodes -> BOOLEAN] /\ UNCHANGED <<hubVars, nodePeers, fatal, lastRid, closed4003, to, rid, pastVars>>
    BY <1>3 DEF NodeStops
  <2> QED BY <2>1 DEF hubVars, pastVars
<1>4. CASE Restart(n)
  <2>1. /\ stopping' \in [Nodes -> BOOLEAN] /\ fatal' \in [Nodes -> BOOLEAN] /\ lastRid' \in [Nodes -> Nat]
        /\ UNCHANGED <<hubVars, nodePeers, wireVars, callVars, pastVars>>
    BY <1>4 DEF Restart
  <2> QED BY <2>1 DEF hubVars, wireVars, callVars, pastVars
<1>5. CASE \/ Dial(n) \/ AbortNode(n) \/ StopsTrying(n) \/ Start(n)
           \/ \E k \in Calls : ReadCall(n, k) \/ \E a \in Replies : ReadReply(n, k, a)
  <2>1. UNCHANGED otherVars
    BY <1>5 DEF Dial, AbortNode, StopsTrying, Start, ReadCall, ReadReply, otherVars, hubVars, nodeVars,
       wireVars, callVars, pastVars
  <2> QED BY <2>1 DEF otherVars
<1> QED
  BY <1>1, <1>2, <1>3, <1>4, <1>5 DEF LinkSteps

LEMMA OtherNext == OtherTypes /\ TableInv /\ WaitInv /\ PromiseInv /\ [Next]_vars => OtherTypes'
<1> SUFFICES ASSUME OtherTypes, TableInv, WaitInv, PromiseInv, [Next]_vars PROVE OtherTypes'
  OBVIOUS
<1>1. ASSUME NEW k \in Calls, CallerSteps(k) \/ TimesOut(k) PROVE UNCHANGED otherVars
  BY <1>1 DEF CallerSteps, Enlist, Transmit, TransmitFails, Answered, TimesOut, Returns, otherVars,
     hubVars, nodeVars, wireVars, callVars, pastVars
<1>2. ASSUME NEW k \in Calls, NEW t \in Nodes, HubCalls(k, t) PROVE OtherTypes'
  BY <1>2 DEF HubCalls, OtherTypes, hubVars, nodeVars, wireVars, callVars, pastVars
<1>3. ASSUME NEW k \in Calls, NEW n \in Nodes, NEW t \in (Nodes \ {n}) \cup {Hub}, NodeCalls(k, n, t)
      PROVE  OtherTypes'
  BY <1>3 DEF NodeCalls, OtherTypes, hubVars, nodeVars, wireVars, callVars, pastVars
<1>4. ASSUME NEW c \in Conns, Breaks(c) PROVE OtherTypes'
  BY <1>4, LinkBounds DEF Breaks, OtherTypes, hubVars, nodeVars, callVars
<1>5. (\E c \in Conns : Notices(c)) \/ Resting \/ UNCHANGED vars => UNCHANGED otherVars
  BY DEF Notices, Resting, vars, otherVars, hubVars, nodeVars, wireVars, callVars, pastVars
<1>6. UNCHANGED otherVars => OtherTypes'
  BY DEF OtherTypes, otherVars
<1> QED
  BY <1>1, <1>2, <1>3, <1>4, <1>5, <1>6, OtherHubSteps, OtherLinkSteps DEF Next, Events, PromiseInv

\* All variables keep their types, and no call runs twice.
THEOREM LinkTypes == Spec => []TypeOK
<1> DEFINE Inv == TableInv /\ WaitInv /\ PromiseInv /\ OtherTypes
<1>1. Init => Inv
  BY TableInit, WaitInit, PromiseInit, OtherInit
<1>2. Inv /\ [Next]_vars => Inv'
  BY TableNext, WaitNext, PromiseNext, OtherNext
<1>3. Inv => TypeOK
  <2> SUFFICES ASSUME Inv PROVE TypeOK
    OBVIOUS
  <2>1. runs \in [Calls -> {0, 1}]
    BY DEF PromiseInv, FrameTypes, CallFrames
  <2> QED BY <2>1 DEF TypeOK, TableInv, TableTypes, WaitInv, WaitTypes, PromiseInv, FrameTypes,
             OtherTypes, Queues
<1> HIDE DEF Inv
<1> QED
  BY <1>1, <1>2, <1>3, PTL DEF Spec
-----------------------------------------------------------------------------
(* Who is online: the lists on their way. *)

Told == {"ack", "list"}

NoAck(q)  == \A i \in 1..Len(q) : q[i][1] # "ack"
OneAck(q) == \A i, j \in 1..Len(q) : q[i][1] = "ack" /\ q[j][1] = "ack" => i = j

\* What the frames of q will have said, when all of them are read.
NothingTold(q)   == \A i \in 1..Len(q) : q[i][1] \notin Told
NewestTold(q, S) ==
    \E i \in 1..Len(q) : /\ q[i][1] \in Told /\ q[i][2] = S
                         /\ \A j \in 1..Len(q) : j > i => q[j][1] \notin Told

\* A connection gets one ack, and a session has read it.
Early == {"none", "hello", "replace", "ack"}
AckInv ==
    /\ \A c \in Conns : OneAck(down[c]) /\ (handler[c] \in Early => NoAck(down[c]))
    /\ \A n \in Nodes : link[n] = "session" => handler[Cur(n)] \notin Early /\ NoAck(down[Cur(n)])

\* A thread of the hub is about to look who is online.
ListAhead == \E c \in Conns : handler[c] \in {"replace", "ack", "list", "left", "bye"}

\* A server whose connection stands, and one that knows who is online as soon as it
\* has read its frames.
Registered(n) == n \in Online /\ peers[n] = Cur(n) /\ hubUp[Cur(n)] /\ nodeUp[Cur(n)]
Sees(n) ==
    \/ NewestTold(down[Cur(n)], Online \ {n})
    \/ nodePeers[n] = Online \ {n} /\ link[n] = "session" /\ NothingTold(down[Cur(n)])

\* As long as no two threads tell at once: one thread tells, it tells what is so, and
\* whoever is registered knows, will be told, or somebody is about to look again.
TellInv ==
    /\ \A c, d \in Conns : handler[c] \in Pushing /\ handler[d] \in Pushing => c = d
    /\ \A c \in Conns : handler[c] \in Pushing => ListAhead \/ listed[c] = Online
    /\ \A n \in Nodes : Registered(n) =>
          \/ ListAhead
          \/ \E c \in Conns : handler[c] \in Pushing /\ Cur(n) \in unsent[c]
          \/ Sees(n)

ListInv == AckInv /\ (hub = "up" /\ ~overlapped => TellInv)

LEMMA FrameKinds ==
    ASSUME NEW k \in Calls, NEW S
    PROVE  /\ Asking(k)[1] \notin Told
           /\ \A a \in Replies : Telling(k, a)[1] \notin Told
           /\ <<"list", S>>[1] = "list" /\ <<"list", S>>[2] = S
           /\ <<"ack", S>>[1] = "ack" /\ <<"ack", S>>[2] = S
  BY DEF Asking, Telling, Told

\* A frame is added at the end.
LEMMA TellsMore ==
    ASSUME NEW s \in Seq(Frames), NEW f \in Frames, NEW S
    PROVE  LET t == Append(s, f) IN
           /\ f[1] # "ack" => (NoAck(s) => NoAck(t)) /\ (OneAck(s) => OneAck(t))
           /\ NoAck(s) => OneAck(t)
           /\ f[1] \notin Told => /\ NothingTold(s) => NothingTold(t)
                                  /\ NewestTold(s, S) => NewestTold(t, S)
           /\ f[1] \in Told /\ f[2] = S => NewestTold(t, S)
<1> DEFINE t == Append(s, f)
<1>1. /\ Len(s) \in Nat /\ Len(t) = Len(s) + 1 /\ t[Len(s) + 1] = f
      /\ \A i \in 1..Len(s) : t[i] = s[i]
  OBVIOUS
<1> HIDE DEF t
<1>2. \A i \in 1..Len(t) : (i \in 1..Len(s) /\ t[i] = s[i]) \/ (i = Len(s) + 1 /\ t[i] = f)
  BY <1>1
<1>3. ASSUME f[1] # "ack" PROVE (NoAck(s) => NoAck(t)) /\ (OneAck(s) => OneAck(t))
  BY <1>2, <1>3 DEF NoAck, OneAck
<1>4. NoAck(s) => OneAck(t)
  BY <1>2 DEF NoAck, OneAck
<1>5. ASSUME f[1] \notin Told, NothingTold(s) PROVE NothingTold(t)
  BY <1>2, <1>5 DEF NothingTold
<1>6. ASSUME f[1] \notin Told, NewestTold(s, S) PROVE NewestTold(t, S)
  <2>1. PICK i \in 1..Len(s) : /\ s[i][1] \in Told /\ s[i][2] = S
                               /\ \A j \in 1..Len(s) : j > i => s[j][1] \notin Told
    BY <1>6 DEF NewestTold
  <2>2. i \in 1..Len(t) /\ t[i] = s[i]
    BY <1>1
  <2>3. \A j \in 1..Len(t) : j > i => t[j][1] \notin Told
    BY <1>2, <1>6, <2>1
  <2> QED BY <2>1, <2>2, <2>3 DEF NewestTold
<1>7. ASSUME f[1] \in Told, f[2] = S PROVE NewestTold(t, S)
  <2>1. Len(s) + 1 \in 1..Len(t) /\ t[Len(s) + 1] = f /\ \A j \in 1..Len(t) : ~(j > Len(s) + 1)
    BY <1>1
  <2> QED BY <1>7, <2>1 DEF NewestTold
<1> QED
  BY <1>3, <1>4, <1>5, <1>6, <1>7 DEF t

\* The first frame is read.
LEMMA TellsRest ==
    ASSUME NEW s \in Seq(Frames), s # << >>, NEW S
    PROVE  /\ NoAck(s) => NoAck(Tail(s))
           /\ OneAck(s) => OneAck(Tail(s))
           /\ OneAck(s) /\ Head(s)[1] = "ack" => NoAck(Tail(s))
           /\ Head(s)[1] = "ack" => ~NoAck(s)
           /\ NothingTold(s) => NothingTold(Tail(s)) /\ Head(s)[1] \notin Told
           /\ NewestTold(s, S) => \/ NewestTold(Tail(s), S)
                                  \/ /\ Head(s)[1] \in Told /\ Head(s)[2] = S
                                     /\ NothingTold(Tail(s))
<1> DEFINE t == Tail(s)
<1>1. /\ Len(s) \in Nat \ {0} /\ Len(t) = Len(s) - 1 /\ Head(s) = s[1]
      /\ \A i \in 1..(Len(s) - 1) : t[i] = s[i + 1]
  BY TailPlaces
<1> HIDE DEF t
<1>2. \A i \in 1..Len(t) : i + 1 \in 1..Len(s) /\ i + 1 # 1 /\ t[i] = s[i + 1]
  BY <1>1
<1>3. NoAck(s) => NoAck(t)
  BY <1>2 DEF NoAck
<1>4. ASSUME OneAck(s), NEW i \in 1..Len(t), NEW j \in 1..Len(t), t[i][1] = "ack", t[j][1] = "ack"
      PROVE  i = j
  <2>1. i + 1 = j + 1
    BY <1>2, <1>4 DEF OneAck
  <2> QED BY <2>1
<1>5. OneAck(s) /\ Head(s)[1] = "ack" => NoAck(t)
  <2>1. 1 \in 1..Len(s)
    BY <1>1
  <2> QED BY <1>1, <1>2, <2>1 DEF OneAck, NoAck
<1>6. Head(s)[1] = "ack" => ~NoAck(s)
  <2>1. 1 \in 1..Len(s)
    BY <1>1
  <2> QED BY <1>1, <2>1 DEF NoAck
<1>7. NothingTold(s) => NothingTold(t) /\ Head(s)[1] \notin Told
  <2>1. 1 \in 1..Len(s)
    BY <1>1
  <2> QED BY <1>1, <1>2, <2>1 DEF NothingTold
<1>8. ASSUME NewestTold(s, S), ~(Head(s)[1] \in Told /\ Head(s)[2] = S /\ NothingTold(t))
      PROVE  NewestTold(t, S)
  <2>1. PICK i \in 1..Len(s) : /\ s[i][1] \in Told /\ s[i][2] = S
                               /\ \A j \in 1..Len(s) : j > i => s[j][1] \notin Told
    BY <1>8 DEF NewestTold
  <2>2. i # 1
    <3>1. CASE i = 1
      <4>1. \A j \in 1..Len(t) : j + 1 > i
        BY <3>1
      <4>2. NothingTold(t)
        BY <1>2, <2>1, <4>1 DEF NothingTold
      <4> QED BY <1>1, <1>8, <2>1, <3>1, <4>2
    <3> QED BY <3>1
  <2>3. i - 1 \in 1..Len(t) /\ t[i - 1] = s[i]
    <3>1. i - 1 \in 1..Len(t) /\ (i - 1) + 1 = i
      BY <1>1, <2>2
    <3> QED BY <1>2, <3>1
  <2>4. ASSUME NEW j \in 1..Len(t), j > i - 1 PROVE t[j][1] \notin Told
    <3>1. j + 1 \in 1..Len(s) /\ j + 1 > i /\ t[j] = s[j + 1]
      BY <1>2, <2>4
    <3> QED BY <2>1, <3>1
  <2> QED BY <2>1, <2>3, <2>4 DEF NewestTold
<1> QED
  BY <1>3, <1>4, <1>5, <1>6, <1>7, <1>8 DEF t, OneAck

\* What a step does to the frames for the nodes, as far as they tell anything: nothing,
\* whatever frames of calls come and go.
SameTold(q, r) ==
    \A c \in Conns :
        /\ NoAck(q[c]) => NoAck(r[c])
        /\ OneAck(q[c]) => OneAck(r[c])
        /\ NothingTold(q[c]) => NothingTold(r[c])
        /\ \A S : NewestTold(q[c], S) => NewestTold(r[c], S)

LEMMA CallsTellNothing ==
    ASSUME FrameTypes, NEW d, NEW f \in Frames, f[1] \notin Told
    PROVE  SameTold(down, SendDown(down, d, f))
<1>1. CASE SendDown(down, d, f) = down \/ d \notin Conns
  BY <1>1 DEF SameTold, SendDown, FrameTypes, Queues
<1>2. CASE d \in Conns /\ SendDown(down, d, f) # down
  <2>1. /\ down[d] \in Seq(Frames) /\ SendDown(down, d, f)[d] = Append(down[d], f)
        /\ \A c \in Conns \ {d} : SendDown(down, d, f)[c] = down[c]
    BY <1>2 DEF SendDown, FrameTypes, Queues
  <2>2. f[1] # "ack"
    BY DEF Told
  <2> HIDE DEF SendDown
  <2> QED BY <2>1, <2>2, TellsMore DEF SameTold
<1> QED BY <1>1, <1>2

LEMMA ReadTellsNothing ==
    ASSUME FrameTypes, NEW c \in Conns, down[c] # << >>, Head(down[c])[1] \notin Told,
           Read(down, down', c)
    PROVE  SameTold(down, down')
<1>1. /\ down[c] \in Seq(Frames) /\ down'[c] = Tail(down[c])
      /\ \A d \in Conns \ {c} : down'[d] = down[d]
  BY DEF FrameTypes, Queues, Read
<1> QED
  BY <1>1, TellsRest DEF SameTold

listVars == <<hub, peers, handler, listed, unsent, dialled, link, nodePeers, hubUp, nodeUp, down,
              overlapped>>

\* Connections may break, calls come and go, link threads without a connection do what
\* they do: nobody has to be told.
LEMMA ListQuiet ==
    ASSUME ListInv, WaitInv, TableInv, UNCHANGED <<peers, handler, listed, unsent, dialled, nodePeers, overlapped>>,
           hub' = "up" => hub = "up",
           SameTold(down, down') \/ down' = down,
           \A c \in Conns : (hubUp'[c] => hubUp[c]) /\ (nodeUp'[c] => nodeUp[c]),
           \A n \in Nodes : link'[n] = "session" <=> link[n] = "session"
    PROVE  ListInv'
<1>1. SameTold(down, down')
  BY DEF SameTold
<1>2. \A n \in Nodes : Cur(n)' = Cur(n)
  BY DEF Cur
<1>3. Online' = Online /\ (ListAhead <=> ListAhead')
  BY DEF Online, ListAhead
<1>4. \A n \in Nodes : Registered(n)' => Cur(n) \in Conns /\ Registered(n)
  <2>1. \A n \in Nodes : n \in Online /\ peers[n] = Cur(n) => Cur(n) \in Conns
    BY DEF TableInv, TableTypes, Online
  <2> QED BY <1>2, <1>3, <2>1 DEF Registered
<1>5. \A n \in Nodes : link[n] = "session" => Cur(n) \in Conns
  BY LinkBounds DEF WaitInv, WaitTypes, LinkInv, Cur, Conns
<1>6. AckInv'
  BY <1>1, <1>2, <1>5 DEF ListInv, AckInv, SameTold
<1>7. ASSUME NEW n \in Nodes, Registered(n)', Sees(n) PROVE Sees(n)'
  BY <1>1, <1>2, <1>3, <1>4, <1>7 DEF Sees, SameTold
<1>8. TellInv => TellInv'
  BY <1>2, <1>3, <1>4, <1>7 DEF TellInv
<1> QED
  BY <1>6, <1>8 DEF ListInv

\* The first server has just started: nobody is registered.
LEMMA ListInit == Init => ListInv
<1> SUFFICES ASSUME Init PROVE ListInv
  OBVIOUS
<1>1. \A c \in Conns : handler[c] = "none" /\ OneAck(down[c]) /\ NoAck(down[c])
  BY DEF Init, OneAck, NoAck
<1>2. \A n \in Nodes : link[n] = "off" /\ n \notin Online
  BY DEF Init, Online
<1> QED
  BY <1>1, <1>2 DEF ListInv, AckInv, TellInv, Registered, Pushing

\* A thread that registered a server, saw one leave or has just sent the ack will look
\* who is online; until it has, there is nothing to show.
LEMMA ListComes ==
    ASSUME ListInv, UNCHANGED <<link, dialled, overlapped>>, NEW c \in Conns, NEW l,
           Step(c, l), l \in {"replace", "ack", "list", "left", "bye"},
           handler[c] \notin Pushing, handler \in [Conns -> HandlerPCs],
           AckInv', hub' = hub, listed' = listed
    PROVE  ListInv'
<1>1. /\ handler'[c] = l /\ \A d \in Conns \ {c} : handler'[d] = handler[d]
  BY DEF Step
<1>2. ListAhead'
  BY <1>1 DEF ListAhead
<1>3. \A d \in Conns : handler'[d] \in Pushing => handler[d] \in Pushing
  BY <1>1 DEF Pushing
<1> QED
  BY <1>2, <1>3 DEF ListInv, TellInv

\* _handler: registering, closing the replaced connection, the ack, and leaving.
LEMMA ListHandler ==
    ASSUME ListInv, WaitInv, TableInv, FrameTypes, NEW c \in Conns,
           Register(c) \/ CloseReplaced(c) \/ SendAck(c) \/ AbortPeer(c)
           \/ (Leave(c) /\ peers[Node(c)] = c)
    PROVE  ListInv'
<1>1. /\ UNCHANGED <<hub, link, dialled, overlapped, listed>>
      /\ handler \in [Conns -> HandlerPCs]
  BY DEF Register, CloseReplaced, SendAck, AbortPeer, Leave, nodeVars, pastVars, TableInv, TableTypes
<1>2. \A n \in Nodes : Cur(n)' = Cur(n)
  BY <1>1 DEF Cur
<1>3. \A n \in Nodes : link[n] = "session" => Cur(n) \in Conns
  BY LinkBounds DEF WaitInv, WaitTypes, LinkInv, Cur, Conns
<1>4. CASE SendAck(c)
  <2> DEFINE f == <<"ack", Online \ {Node(c)}>>
  <2>1. /\ handler[c] = "ack" /\ Step(c, "list")
        /\ down' = SendDown(down, c, f)
    BY <1>4 DEF SendAck, At
  <2>2. f \in Frames
    <3>1. Online \ {Node(c)} \in SUBSET Nodes
      BY DEF Online
    <3> QED BY <3>1, ListsAreQuiet
  <2> HIDE DEF f
  <2>3. /\ down'[c] = down[c] \/ down'[c] = Append(down[c], f)
        /\ down[c] \in Seq(Frames) /\ \A d \in Conns \ {c} : down'[d] = down[d]
    BY <2>1 DEF SendDown, FrameTypes, Queues
  <2>4. handler'[c] = "list" /\ \A d \in Conns \ {c} : handler'[d] = handler[d]
    BY <1>1, <2>1 DEF Step
  <2>5. OneAck(down'[c])
    BY <2>1, <2>2, <2>3, TellsMore DEF ListInv, AckInv, Early
  <2>6. \A n \in Nodes : link[n] = "session" => Cur(n) # c
    BY <2>1 DEF ListInv, AckInv, Early
  <2>7. AckInv'
    BY <1>1, <1>2, <1>3, <2>3, <2>4, <2>5, <2>6 DEF ListInv, AckInv, Early
  <2> QED
    BY <1>1, <2>1, <2>7, ListComes DEF Pushing
<1>5. CASE ~SendAck(c)
  <2>1. /\ down' = down
        /\ \E l \in {"replace", "ack", "left", "bye"} :
              Step(c, l) /\ (l \in Early => handler[c] \in Early)
        /\ handler[c] \notin Pushing
    BY <1>5 DEF Register, CloseReplaced, AbortPeer, Leave, At, wireVars, Early, Pushing
  <2>2. PICK l \in {"replace", "ack", "left", "bye"} :
              Step(c, l) /\ (l \in Early => handler[c] \in Early)
    BY <2>1
  <2>3. handler'[c] = l /\ \A d \in Conns \ {c} : handler'[d] = handler[d]
    BY <1>1, <2>2 DEF Step
  <2>4. AckInv'
    BY <1>1, <1>2, <1>3, <2>1, <2>2, <2>3 DEF ListInv, AckInv
  <2> QED
    BY <1>1, <2>1, <2>2, <2>4, ListComes
<1> QED BY <1>4, <1>5

\* A thread ends that nothing is expected of.
LEMMA ListDone ==
    ASSUME ListInv, WaitInv, TableInv, NEW c \in Conns,
           NoHello(c) \/ (Leave(c) /\ peers[Node(c)] # c)
    PROVE  ListInv'
<1>1. /\ UNCHANGED <<hub, peers, listed, unsent, dialled, link, nodePeers, hubUp, nodeUp, down, overlapped>>
      /\ handler[c] \in {"hello", "serve"} /\ Step(c, "done")
  BY DEF NoHello, Leave, At, nodeVars, wireVars, pastVars
<1>2. handler'[c] = "done" /\ \A d \in Conns \ {c} : handler'[d] = handler[d]
  BY <1>1 DEF Step, TableInv, TableTypes
<1>3. \A n \in Nodes : Cur(n)' = Cur(n) /\ (link[n] = "session" => Cur(n) \in Conns)
  BY <1>1, LinkBounds DEF WaitInv, WaitTypes, LinkInv, Cur, Conns
<1>4. AckInv'
  BY <1>1, <1>2, <1>3 DEF ListInv, AckInv, Early
<1>5. /\ Online' = Online /\ (ListAhead => ListAhead')
      /\ \A d \in Conns : handler'[d] \in Pushing <=> handler[d] \in Pushing
  BY <1>1, <1>2 DEF Online, ListAhead, Pushing
<1>6. \A n \in Nodes : (Registered(n)' => Registered(n)) /\ (Sees(n) => Sees(n)')
  BY <1>1, <1>3, <1>5 DEF Registered, Sees
<1>7. TellInv => TellInv'
  BY <1>1, <1>3, <1>5, <1>6 DEF TellInv
<1> QED
  BY <1>1, <1>4, <1>7 DEF ListInv

\* _push_peers, first half: the list is what is so, and everybody registered is on it.
LEMMA ListLooks ==
    ASSUME ListInv, WaitInv, TableInv, FrameTypes, OtherTypes, NEW c \in Conns, ListPeers(c)
    PROVE  ListInv'
<1>1. /\ UNCHANGED <<hub, peers, dialled, link, nodePeers, hubUp, nodeUp, down>>
      /\ handler[c] \in {"list", "bye"}
      /\ overlapped' = (overlapped \/ \E d \in Conns : handler[d] \in Pushing)
      /\ \E l \in {"serve", "done", "push", "byePush"} :
            Step(c, l) /\ (Online # {} => l \in Pushing)
      /\ listed' = [listed EXCEPT ![c] = Online]
      /\ unsent' = [unsent EXCEPT ![c] = {peers[n] : n \in Online}]
  BY DEF ListPeers, AfterPush, At, nodeVars, wireVars, Pushing
<1>2. PICK l \in {"serve", "done", "push", "byePush"} : Step(c, l) /\ (Online # {} => l \in Pushing)
  BY <1>1
<1>3. handler'[c] = l /\ \A d \in Conns \ {c} : handler'[d] = handler[d]
  BY <1>2 DEF Step, TableInv, TableTypes
<1>4. \A n \in Nodes : Cur(n)' = Cur(n) /\ (link[n] = "session" => Cur(n) \in Conns)
  BY <1>1, LinkBounds DEF WaitInv, WaitTypes, LinkInv, Cur, Conns
<1>5. AckInv'
  BY <1>1, <1>2, <1>3, <1>4 DEF ListInv, AckInv, Early
<1>6. Online' = Online
  BY <1>1 DEF Online
<1>7. ASSUME ~overlapped' PROVE TellInv'
  <2>1. \A d \in Conns : handler'[d] \in Pushing => d = c
    BY <1>1, <1>3, <1>7
  <2>2. listed'[c] = Online /\ unsent'[c] = {peers[n] : n \in Online}
    BY <1>1 DEF FrameTypes, OtherTypes
  <2>3. ASSUME NEW n \in Nodes, Registered(n)'
        PROVE  \E b \in Conns : handler'[b] \in Pushing /\ Cur(n)' \in unsent'[b]
    <3>1. n \in Online /\ peers[n] = Cur(n)'
      BY <1>1, <1>6, <2>3 DEF Registered
    <3> QED BY <1>2, <1>3, <2>2, <3>1
  <2> QED BY <1>6, <2>1, <2>2, <2>3 DEF TellInv
<1> QED
  BY <1>5, <1>7 DEF ListInv

\* _push_peers, second half: one server is told.
LEMMA ListTells ==
    ASSUME ListInv, WaitInv, TableInv, FrameTypes, OtherTypes,
           NEW c \in Conns, NEW d \in Conns, PushList(c, d)
    PROVE  ListInv'
<1> DEFINE f == <<"list", listed[c] \ {Node(d)}>>
<1>1. /\ UNCHANGED <<hub, peers, dialled, link, nodePeers, hubUp, nodeUp, overlapped>>
      /\ handler[c] \in Pushing /\ d \in unsent[c]
      /\ down' = SendDown(down, d, f)
      /\ unsent' = [unsent EXCEPT ![c] = @ \ {d}]
      /\ \/ unsent[c] = {d} /\ \E l \in {"serve", "done"} : Step(c, l)
         \/ unsent[c] # {d} /\ UNCHANGED <<handler, listed>>
      /\ \A b \in Conns \ {c} : listed'[b] = listed[b]
  BY DEF PushList, AfterPush, nodeVars, FrameTypes, OtherTypes, pastVars
<1>2. /\ \A b \in Conns \ {c} : handler'[b] = handler[b] /\ unsent'[b] = unsent[b]
      /\ handler'[c] = handler[c] \/ handler'[c] \in {"serve", "done"}
      /\ unsent[c] # {d} => handler'[c] = handler[c] /\ listed'[c] = listed[c]
      /\ unsent[c] = {d} => handler'[c] \in {"serve", "done"}
      /\ unsent'[c] = unsent[c] \ {d}
  BY <1>1 DEF Step, TableInv, TableTypes, OtherTypes
<1>3. f \in Frames /\ f[1] = "list" /\ f[2] = listed[c] \ {Node(d)} /\ f[1] # "ack" /\ f[1] \in Told
  <2>1. listed[c] \ {Node(d)} \in SUBSET Nodes
    BY DEF FrameTypes
  <2> QED BY <2>1, ListsAreQuiet DEF Told
<1> HIDE DEF f
<1>4. /\ \A b \in Conns \ {d} : down'[b] = down[b]
      /\ down[d] \in Seq(Frames)
      /\ down'[d] = Append(down[d], f) \/ (down'[d] = down[d] /\ ~(hubUp[d] /\ nodeUp[d]))
  BY <1>1 DEF SendDown, FrameTypes, Queues
<1>5. \A n \in Nodes : Cur(n)' = Cur(n) /\ (link[n] = "session" => Cur(n) \in Conns)
  BY <1>1, LinkBounds DEF WaitInv, WaitTypes, LinkInv, Cur, Conns
<1>6. (NoAck(down[d]) => NoAck(down'[d])) /\ (OneAck(down[d]) => OneAck(down'[d]))
  BY <1>3, <1>4, TellsMore
<1>7. AckInv'
  BY <1>1, <1>2, <1>4, <1>5, <1>6 DEF ListInv, AckInv, Early, Pushing
<1>8. Online' = Online /\ (ListAhead => ListAhead')
  BY <1>1, <1>2 DEF Online, ListAhead, Pushing
<1>9. ASSUME TellInv PROVE TellInv'
  <2>1. \A a, b \in Conns : handler'[a] \in Pushing /\ handler'[b] \in Pushing => a = b
    BY <1>2, <1>9 DEF TellInv, Pushing
  <2>2. \A b \in Conns : handler'[b] \in Pushing => ListAhead' \/ listed'[b] = Online'
    BY <1>1, <1>2, <1>8, <1>9 DEF TellInv, Pushing
  <2>3. ASSUME NEW n \in Nodes, Registered(n)', ~ListAhead'
        PROVE  \/ \E b \in Conns : handler'[b] \in Pushing /\ Cur(n)' \in unsent'[b]
               \/ Sees(n)'
    <3>1. /\ Registered(n) /\ ~ListAhead /\ Cur(n) \in Conns
          /\ listed[c] = Online /\ hubUp[Cur(n)] /\ nodeUp[Cur(n)]
      BY <1>1, <1>5, <1>8, <1>9, <2>3 DEF Registered, TellInv, TableInv, TableTypes, Online
    <3>2. CASE d = Cur(n)
      <4>1. Node(d) = n
        BY <3>2 DEF Cur, Node
      <4>2. f[2] = Online \ {n} /\ down'[d] = Append(down[d], f) /\ down[d] \in Seq(Frames)
        BY <1>3, <1>4, <3>1, <3>2, <4>1
      <4>3. NewestTold(Append(down[d], f), Online \ {n})
        BY <1>3, <4>2, TellsMore
      <4> QED BY <1>5, <1>8, <3>2, <4>2, <4>3 DEF Sees
    <3>3. CASE d # Cur(n) /\ \E b \in Conns : handler[b] \in Pushing /\ Cur(n) \in unsent[b]
      <4>1. Cur(n) \in unsent[c]
        BY <1>1, <1>9, <3>3 DEF TellInv
      <4>2. Cur(n) \in unsent'[c] /\ unsent[c] # {d}
        BY <1>2, <3>3, <4>1
      <4> QED BY <1>1, <1>2, <1>5, <4>2
    <3>4. CASE d # Cur(n) /\ Sees(n)
      <4>1. down'[Cur(n)] = down[Cur(n)]
        BY <1>4, <3>1, <3>4
      <4> QED BY <1>1, <1>5, <1>8, <3>4, <4>1 DEF Sees
    <3> QED BY <1>9, <3>1, <3>2, <3>3, <3>4 DEF TellInv
  <2> QED BY <2>1, <2>2, <2>3 DEF TellInv
<1> QED
  BY <1>1, <1>7, <1>9 DEF ListInv

\* A node reads the ack or a list: it knows what the frame says.
LEMMA ListRead ==
    ASSUME ListInv, WaitInv, TableInv, FrameTypes, OtherTypes,
           NEW n \in Nodes, ReadAck(n) \/ ReadList(n)
    PROVE  ListInv'
<1> DEFINE c == Cur(n)
           s == down[c]
<1>1. /\ UNCHANGED <<hub, peers, handler, listed, unsent, dialled, hubUp, nodeUp, overlapped>>
      /\ link[n] \in {"hello", "session"}
      /\ s # << >> /\ Head(s)[1] \in Told
      /\ link[n] = "session" => link' = link
      /\ link[n] = "hello" => Head(s)[1] = "ack" /\ link' = [link EXCEPT ![n] = "session"]
      /\ nodePeers' = [nodePeers EXCEPT ![n] = Head(s)[2]]
      /\ down' = [down EXCEPT ![c] = Tail(@)]
  BY DEF ReadAck, ReadList, hubVars, pastVars, Told
<1>2. c \in Conns /\ s \in Seq(Frames)
  BY <1>1, LinkBounds DEF WaitInv, WaitTypes, LinkInv, Cur, Conns, FrameTypes, Queues
<1>3. /\ \A m \in Nodes : Cur(m)' = Cur(m) /\ (link[m] = "session" => Cur(m) \in Conns)
      /\ \A m \in Nodes \ {n} : Cur(m) # c
  BY <1>1, LinkBounds DEF WaitInv, WaitTypes, LinkInv, Cur, Conns
<1>4. /\ down'[c] = Tail(s) /\ \A b \in Conns \ {c} : down'[b] = down[b]
      /\ nodePeers'[n] = Head(s)[2] /\ \A m \in Nodes \ {n} : nodePeers'[m] = nodePeers[m]
      /\ link'[n] = "session" /\ \A m \in Nodes \ {n} : link'[m] = link[m]
  BY <1>1, <1>2 DEF FrameTypes, OtherTypes, Queues, WaitInv, WaitTypes
<1> HIDE DEF c, s
<1>5. /\ NoAck(s) => NoAck(Tail(s))
      /\ OneAck(s) => OneAck(Tail(s))
      /\ OneAck(s) /\ Head(s)[1] = "ack" => NoAck(Tail(s))
      /\ Head(s)[1] = "ack" => ~NoAck(s)
      /\ ~NothingTold(s)
  BY <1>1, <1>2, TellsRest
<1>6. OneAck(s) /\ (handler[c] \in Early => NoAck(s)) /\ (link[n] = "session" => handler[c] \notin Early /\ NoAck(s))
  BY <1>2 DEF ListInv, AckInv, c, s
<1>7. handler[c] \notin Early /\ NoAck(Tail(s))
  BY <1>1, <1>5, <1>6
<1>8. AckInv'
  <2>1. \A b \in Conns : OneAck(down'[b]) /\ (handler'[b] \in Early => NoAck(down'[b]))
    BY <1>1, <1>4, <1>5, <1>6, <1>7 DEF ListInv, AckInv
  <2>2. ASSUME NEW m \in Nodes, link'[m] = "session"
        PROVE  handler'[Cur(m)'] \notin Early /\ NoAck(down'[Cur(m)'])
    <3>1. CASE m = n
      BY <1>1, <1>3, <1>4, <1>7, <3>1 DEF c
    <3>2. CASE m # n
      BY <1>1, <1>3, <1>4, <2>2, <3>2 DEF ListInv, AckInv
    <3> QED BY <3>1, <3>2
  <2> QED BY <2>1, <2>2 DEF AckInv
<1>9. Online' = Online /\ (ListAhead <=> ListAhead')
  BY <1>1 DEF Online, ListAhead
<1>10. ASSUME NEW m \in Nodes, Registered(m)', Sees(m) PROVE Registered(m) /\ Sees(m)'
  <2>1. Registered(m) /\ Cur(m) \in Conns
    BY <1>1, <1>3, <1>9, <1>10 DEF Registered, TableInv, TableTypes, Online
  <2>2. CASE m = n
    <3>1. NewestTold(s, Online \ {n})
      BY <1>5, <1>10, <2>2 DEF Sees, c, s
    <3>2. \/ NewestTold(Tail(s), Online \ {n})
          \/ Head(s)[2] = Online \ {n} /\ NothingTold(Tail(s))
      BY <1>1, <1>2, <3>1, TellsRest
    <3>3. Cur(n)' = c /\ down'[c] = Tail(s) /\ nodePeers'[n] = Head(s)[2] /\ link'[n] = "session"
      BY <1>3, <1>4 DEF c
    <3>4. Sees(n)'
      BY <1>9, <3>2, <3>3 DEF Sees
    <3> QED BY <2>1, <2>2, <3>4
  <2>3. CASE m # n
    <3>1. down'[Cur(m)] = down[Cur(m)]
      BY <1>3, <1>4, <2>1, <2>3
    <3>2. Cur(m)' = Cur(m) /\ nodePeers'[m] = nodePeers[m] /\ link'[m] = link[m]
      BY <1>3, <1>4, <2>3
    <3>3. Sees(m)'
      BY <1>9, <1>10, <3>1, <3>2 DEF Sees
    <3> QED BY <2>1, <3>3
  <2> QED BY <2>1, <2>2, <2>3
<1>11. \A m \in Nodes : Registered(m)' => Registered(m)
  BY <1>1, <1>3, <1>9 DEF Registered
<1>12. TellInv => TellInv'
  BY <1>1, <1>3, <1>9, <1>10, <1>11 DEF TellInv
<1> QED
  BY <1>1, <1>8, <1>12 DEF ListInv

\* A server dials: its new connection is not in the table yet.
LEMMA ListDial ==
    ASSUME ListInv, WaitInv, TableInv, NEW n \in Nodes, Dial(n)
    PROVE  ListInv'
<1> DEFINE c == <<n, dialled[n] + 1>>
<1>1. /\ UNCHANGED <<hub, peers, listed, unsent, nodePeers, down, overlapped>>
      /\ link[n] = "away" /\ dialled[n] < MaxLinks /\ dialled[n] \in Nat
      /\ dialled' = [dialled EXCEPT ![n] = @ + 1]
      /\ link' = [link EXCEPT ![n] = "hello"]
      /\ Step(c, "hello")
      /\ hubUp' = [hubUp EXCEPT ![c] = TRUE]
      /\ nodeUp' = [nodeUp EXCEPT ![c] = TRUE]
  BY DEF Dial, pastVars, TableInv, TableTypes
<1>2. c \in Conns /\ handler[c] = "none" /\ Node(c) = n
  BY <1>1, LinkBounds DEF TableInv, TableTypes, Conns, Node
<1>3. /\ Cur(n)' = c /\ \A m \in Nodes \ {n} : Cur(m)' = Cur(m) /\ Cur(m) # c
      /\ \A m \in Nodes : link[m] = "session" => m # n /\ Cur(m) \in Conns
  BY <1>1, LinkBounds DEF WaitInv, WaitTypes, LinkInv, Cur, Conns
<1> HIDE DEF c
<1>4. /\ handler'[c] = "hello" /\ \A d \in Conns \ {c} : handler'[d] = handler[d]
      /\ link'[n] = "hello" /\ \A m \in Nodes \ {n} : link'[m] = link[m]
      /\ \A d \in Conns \ {c} : hubUp'[d] = hubUp[d] /\ nodeUp'[d] = nodeUp[d]
  BY <1>1, <1>2 DEF Step, WaitInv, WaitTypes, TableInv, TableTypes
<1>5. AckInv'
  <2>1. \A d \in Conns : OneAck(down'[d]) /\ (handler'[d] \in Early => NoAck(down'[d]))
    BY <1>1, <1>2, <1>4 DEF ListInv, AckInv, Early
  <2>2. ASSUME NEW m \in Nodes, link'[m] = "session"
        PROVE  handler'[Cur(m)'] \notin Early /\ NoAck(down'[Cur(m)'])
    <3>1. m # n /\ link[m] = "session"
      BY <1>4, <2>2
    <3> QED BY <1>1, <1>3, <1>4, <3>1 DEF ListInv, AckInv
  <2> QED BY <2>1, <2>2 DEF AckInv
<1>6. /\ Online' = Online /\ (ListAhead <=> ListAhead')
      /\ \A d \in Conns : handler'[d] \in Pushing <=> handler[d] \in Pushing
  BY <1>1, <1>2, <1>4 DEF Online, ListAhead, Pushing
<1>7. ASSUME NEW m \in Nodes, Registered(m)'
      PROVE  Registered(m) /\ Cur(m)' = Cur(m) /\ (Sees(m) => Sees(m)')
  <2>1. m \in Online /\ peers[m] = Cur(m)' /\ peers[m] \in Conns
    BY <1>1, <1>6, <1>7 DEF Registered, Online, TableInv, TableTypes
  <2>2. peers[m] # c
    BY <1>2, <2>1 DEF Online, TableInv, TableMatchesThreads, Serving
  <2>3. m # n
    BY <1>3, <2>1, <2>2
  <2>4. Cur(m)' = Cur(m) /\ Cur(m) # c /\ Cur(m) \in Conns /\ link'[m] = link[m]
    BY <1>3, <1>4, <2>1, <2>3
  <2>5. Registered(m)
    BY <1>4, <1>7, <2>1, <2>4 DEF Registered
  <2> QED BY <1>1, <1>6, <2>4, <2>5 DEF Sees
<1>8. TellInv => TellInv'
  BY <1>1, <1>6, <1>7 DEF TellInv
<1> QED
  BY <1>1, <1>5, <1>8 DEF ListInv

\* A node drops its connection and the frames on it.
LEMMA ListDrops ==
    ASSUME ListInv, WaitInv, TableInv, FrameTypes, OtherTypes, NEW n \in Nodes, ReadUnexpected(n) \/ LoseLink(n)
    PROVE  ListInv'
<1>1. /\ UNCHANGED <<hub, peers, handler, listed, unsent, dialled, hubUp, overlapped>>
      /\ link[n] \in {"hello", "session"}
      /\ nodeUp' = [nodeUp EXCEPT ![Cur(n)] = FALSE]
      /\ down' = [down EXCEPT ![Cur(n)] = << >>]
      /\ link' = [link EXCEPT ![n] = "lost"]
      /\ nodePeers' = [nodePeers EXCEPT ![n] = {}]
  BY DEF ReadUnexpected, LoseLink, Drops, hubVars, pastVars
<1>2. /\ Cur(n) \in Conns
      /\ \A m \in Nodes : Cur(m)' = Cur(m) /\ (link[m] = "session" => Cur(m) \in Conns)
      /\ \A m \in Nodes \ {n} : Cur(m) # Cur(n)
  BY <1>1, LinkBounds DEF WaitInv, WaitTypes, LinkInv, Cur, Conns
<1>3. /\ down'[Cur(n)] = << >> /\ \A d \in Conns \ {Cur(n)} : down'[d] = down[d]
      /\ ~nodeUp'[Cur(n)] /\ \A d \in Conns : nodeUp'[d] => nodeUp[d]
      /\ link'[n] = "lost" /\ \A m \in Nodes \ {n} : link'[m] = link[m] /\ nodePeers'[m] = nodePeers[m]
  BY <1>1, <1>2 DEF FrameTypes, OtherTypes, Queues, WaitInv, WaitTypes
<1>4. NoAck(<< >>) /\ OneAck(<< >>)
  BY DEF NoAck, OneAck
<1>5. AckInv'
  <2>1. \A d \in Conns : OneAck(down'[d]) /\ (handler'[d] \in Early => NoAck(down'[d]))
    BY <1>1, <1>3, <1>4 DEF ListInv, AckInv
  <2>2. ASSUME NEW m \in Nodes, link'[m] = "session"
        PROVE  handler'[Cur(m)'] \notin Early /\ NoAck(down'[Cur(m)'])
    <3>1. m # n /\ link[m] = "session"
      BY <1>3, <2>2
    <3> QED BY <1>1, <1>2, <1>3, <3>1 DEF ListInv, AckInv
  <2> QED BY <2>1, <2>2 DEF AckInv
<1>6. Online' = Online /\ (ListAhead <=> ListAhead')
  BY <1>1 DEF Online, ListAhead
<1>7. ASSUME NEW m \in Nodes, Registered(m)'
      PROVE  Registered(m) /\ (Sees(m) => Sees(m)')
  <2>1. m # n
    BY <1>2, <1>3, <1>7 DEF Registered
  <2>2. m \in Online /\ peers[m] = Cur(m) /\ Cur(m) \in Conns
    BY <1>1, <1>2, <1>6, <1>7 DEF Registered, Online, TableInv, TableTypes
  <2>3. Registered(m)
    BY <1>1, <1>2, <1>3, <1>7, <2>2 DEF Registered
  <2>4. down'[Cur(m)] = down[Cur(m)]
    BY <1>2, <1>3, <2>1, <2>2
  <2> QED BY <1>2, <1>3, <1>6, <2>1, <2>3, <2>4 DEF Sees
<1>8. TellInv => TellInv'
  BY <1>1, <1>2, <1>6, <1>7 DEF TellInv
<1> QED
  BY <1>1, <1>5, <1>8 DEF ListInv

\* Frames of calls come and go.
LEMMA ListCalls ==
    ASSUME ListInv, WaitInv, TableInv, FrameTypes, NEW k \in Calls,
           \/ \E c \in Conns : ServeCall(c, k) \/ ServeReply(c, k)
           \/ \E n \in Nodes : ReadCall(n, k) \/ \E a \in Replies : ReadReply(n, k, a)
           \/ Transmit(k)
    PROVE  ListInv'
<1>1. UNCHANGED <<hub, peers, handler, listed, unsent, dialled, link, nodePeers, hubUp, nodeUp, overlapped>>
  BY DEF ServeCall, ServeReply, ReadCall, ReadReply, Transmit, hubVars, nodeVars, pastVars
<1>2. SameTold(down, down') \/ down' = down
  <2>1. CASE (\E c \in Conns : ServeCall(c, k) \/ ServeReply(c, k)) \/ Transmit(k)
    <3>1. \/ down' = down
          \/ \E d : \/ down' = SendDown(down, d, Asking(k))
                    \/ \E a \in Replies : down' = SendDown(down, d, Telling(k, a))
      BY <2>1 DEF ServeCall, ServeReply, Transmit, Asking, Telling, Replies
    <3>2. /\ Asking(k) \in Frames /\ Asking(k)[1] \notin Told
          /\ \A a \in Replies : Telling(k, a) \in Frames /\ Telling(k, a)[1] \notin Told
      BY FramesOfACall, FrameKinds
    <3> QED BY <3>1, <3>2, CallsTellNothing
  <2>2. ASSUME NEW n \in Nodes, ReadCall(n, k) \/ \E a \in Replies : ReadReply(n, k, a)
        PROVE  SameTold(down, down')
    <3>1. Cur(n) \in Conns
      BY <2>2, LinkBounds DEF ReadCall, ReadReply, WaitInv, WaitTypes, LinkInv, Cur, Conns
    <3>2. /\ down[Cur(n)] # << >> /\ Read(down, down', Cur(n))
          /\ Head(down[Cur(n)]) = Asking(k) \/ \E a \in Replies : Head(down[Cur(n)]) = Telling(k, a)
      BY <2>2 DEF ReadCall, ReadReply, Asking, Telling, Read
    <3>3. Head(down[Cur(n)])[1] \notin Told
      BY <3>2, FrameKinds
    <3> QED BY <3>1, <3>2, <3>3, ReadTellsNothing
  <2> QED BY <2>1, <2>2
<1> QED
  BY <1>1, <1>2, ListQuiet

\* stop() of the hub: nobody is told any more.
LEMMA ListHubStops ==
    ASSUME ListInv, HubStops
    PROVE  ListInv'
<1>1. hub' = "cleared" /\ UNCHANGED <<handler, dialled, link, down>>
  BY DEF HubStops, nodeVars, wireVars
<1>2. AckInv'
  BY <1>1 DEF ListInv, AckInv, Cur
<1> QED
  BY <1>1, <1>2 DEF ListInv

LEMMA ListNext ==
    ListInv /\ TableInv /\ WaitInv /\ PromiseInv /\ OtherTypes /\ [Next]_vars => ListInv'
<1> SUFFICES ASSUME ListInv, TableInv, WaitInv, PromiseInv, OtherTypes, [Next]_vars PROVE ListInv'
  OBVIOUS
<1>1. FrameTypes
  BY DEF PromiseInv
<1>2. ASSUME NEW c \in Conns, HandlerSteps(c) PROVE ListInv'
  BY <1>1, <1>2, ListHandler, ListDone, ListLooks, ListTells, ListCalls DEF HandlerSteps
<1>3. ASSUME NEW n \in Nodes,
             AbortNode(n) \/ StopsTrying(n) \/ Start(n) \/ NodeStops(n) \/ Restart(n)
      PROVE  ListInv'
  <2>1. UNCHANGED <<hub, peers, handler, listed, unsent, dialled, nodePeers, hubUp, overlapped, down>>
    BY <1>3 DEF AbortNode, StopsTrying, Start, NodeStops, Restart, hubVars, wireVars, pastVars
  <2>2. \A m \in Nodes : link'[m] = "session" <=> link[m] = "session"
    BY <1>3 DEF AbortNode, StopsTrying, Start, NodeStops, Restart, WaitInv, WaitTypes
  <2>3. \A c \in Conns : nodeUp'[c] => nodeUp[c]
    BY <1>3 DEF AbortNode, StopsTrying, Start, NodeStops, Restart, wireVars, WaitInv, WaitTypes
  <2> QED BY <2>1, <2>2, <2>3, ListQuiet
<1>4. ASSUME NEW n \in Nodes, LinkSteps(n) PROVE ListInv'
  BY <1>1, <1>3, <1>4, ListDial, ListRead, ListDrops, ListCalls DEF LinkSteps
<1>5. ASSUME NEW c \in Conns, Breaks(c) \/ Notices(c) PROVE ListInv'
  <2>1. UNCHANGED <<hub, peers, handler, listed, unsent, dialled, nodePeers, link, overlapped, down>>
    BY <1>5 DEF Breaks, Notices, hubVars, nodeVars, pastVars
  <2>2. \A d \in Conns : (hubUp'[d] => hubUp[d]) /\ (nodeUp'[d] => nodeUp[d])
    BY <1>5 DEF Breaks, Notices, WaitInv, WaitTypes, TableInv, TableTypes
  <2> QED BY <2>1, <2>2, ListQuiet
<1>6. ASSUME HubStopping PROVE ListInv'
  <2>1. UNCHANGED <<peers, handler, listed, unsent, dialled, nodePeers, nodeUp, link, overlapped, down>>
    BY <1>6 DEF HubStopping, HubAborts, HubCloses, HubEnds, nodeVars, wireVars, pastVars
  <2>2. hub' # "up" \/ hub' = hub
    BY <1>6 DEF HubStopping, HubAborts, HubCloses, HubEnds
  <2>3. \A d \in Conns : hubUp'[d] => hubUp[d]
    BY <1>6 DEF HubStopping, HubAborts, HubCloses, HubEnds, wireVars, TableInv, TableTypes
  <2> QED BY <2>1, <2>2, <2>3, ListQuiet
<1>7. ASSUME NEW k \in Calls,
             \/ Enlist(k) \/ TransmitFails(k) \/ Answered(k) \/ TimesOut(k)
             \/ \E t \in Nodes : HubCalls(k, t)
             \/ \E n \in Nodes : \E t \in (Nodes \ {n}) \cup {Hub} : NodeCalls(k, n, t)
      PROVE  UNCHANGED listVars
  BY <1>7 DEF Enlist, TransmitFails, Answered, TimesOut, Returns, HubCalls, NodeCalls, listVars, hubVars,
     nodeVars, wireVars, pastVars
<1>8. Resting \/ UNCHANGED vars => UNCHANGED listVars
  BY DEF Resting, vars, listVars, hubVars, nodeVars, wireVars, pastVars
<1>9. UNCHANGED listVars => ListInv'
  BY ListQuiet DEF listVars
<1> QED
  BY <1>1, <1>2, <1>3, <1>4, <1>5, <1>6, <1>7, <1>8, <1>9, ListHubStops, ListCalls
     DEF Next, CallerSteps, Events

\* With all frames read, every connected server knows exactly who else is online, unless
\* two threads of the hub told the servers at the same time.
THEOREM ListsAlwaysCurrent == Spec => []ListsAreCurrent
<1> DEFINE Inv == TableInv /\ WaitInv /\ PromiseInv /\ OtherTypes /\ ListInv
<1>1. Init => Inv
  BY TableInit, WaitInit, PromiseInit, OtherInit, ListInit
<1>2. Inv /\ [Next]_vars => Inv'
  BY TableNext, WaitNext, PromiseNext, OtherNext, ListNext
<1>3. Inv => ListsAreCurrent
  <2> SUFFICES ASSUME Inv, ~overlapped, NEW n \in Nodes,
                      \A c \in Conns : handler[c] \in {"none", "hello", "serve", "done"},
                      hub = "up", link[n] = "session", peers[n] = Cur(n),
                      nodeUp[Cur(n)], hubUp[Cur(n)],
                      \A i \in 1..Len(down[Cur(n)]) : down[Cur(n)][i][1] # "list"
               PROVE  nodePeers[n] = Online \ {n}
    BY DEF ListsAreCurrent, ListIsCurrent
  <2>1. Cur(n) \in Conns
    BY LinkBounds DEF WaitInv, WaitTypes, LinkInv, Cur, Conns
  <2>2. Registered(n) /\ ~ListAhead /\ \A c \in Conns : handler[c] \notin Pushing
    BY <2>1, NamesDiffer DEF Registered, Online, ListAhead, Pushing
  <2>3. Sees(n)
    BY <2>2 DEF ListInv, TellInv
  <2>4. NoAck(down[Cur(n)])
    BY DEF ListInv, AckInv
  <2> QED BY <2>3, <2>4 DEF Sees, NewestTold, NoAck, Told
<1> HIDE DEF Inv
<1> QED
  BY <1>1, <1>2, <1>3, PTL DEF Spec
=============================================================================
