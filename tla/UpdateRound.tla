----------------------------- MODULE UpdateRound -----------------------------
(***************************************************************************)
(* One update of the cluster is a round of the hub                         *)
(* (update/update_round.py):                                               *)
(*                                                                         *)
(*   self_update               a full round: the hub orders its nodes,     *)
(*                             waits for them, and replaces itself last    *)
(*   _catch_up_round           the same for nodes that missed it, without  *)
(*                             the hub                                     *)
(*   _order_cluster_update     who is ordered, and what the ack says       *)
(*   _wait_for_cluster_update  until all are settled, then until they are  *)
(*                             back on the new version                     *)
(*   _on_update_order, _node_update_worker      the node's side            *)
(*                                                                         *)
(* Nodes and hub are connected by links that break at any time, and that   *)
(* an unload closes in order.  How an archive is replaced is the subject   *)
(* of ArchiveSwap: here the swap of a plugin ends on the new version, on   *)
(* the old one, or with the plugin left out.  Deadlines may run out at any *)
(* time.                                                                   *)
(***************************************************************************)
EXTENDS Naturals, Sequences, FiniteSets

CONSTANTS
    Nodes,          \* the hub's enrolled nodes
    Newest,         \* the newest version; the hub starts on an older one
    Release,        \* the newest release that the catalogue holds
    MaxRounds,      \* bound: rounds of the hub
    MaxBreaks       \* bound: broken links

ASSUME ReleaseIsAVersion == Newest \in Nat /\ Release \in 2..Newest
ASSUME RoundBounds == MaxRounds \in Nat \ {0} /\ MaxBreaks \in Nat

Versions == 1..Newest
Unknown == 0                    \* a node that is not registered, or did not say
Rounds == 1..MaxRounds

(* _STAGE_RANK; "none" is a node that the round does not order. *)
StageRank == [none |-> 0, pending |-> 0, timeout |-> 1, unsupported |-> 2,
              accepted |-> 3, staged |-> 4, failed |-> 4, stale |-> 5]
Stages == DOMAIN StageRank

VARIABLES
    pc,             \* the hub's thread that holds update_lock, or "idle"
    hubUp,          \* the hub's plugin is loaded and listens
    hubVersion,
    round,          \* _update_round and what its thread knows: id, version, full
    stage,          \* per node: entry["stage"] of the round
    already,        \* nodes that acknowledged with entry["already"]
    snap,           \* the versions read when the round began
    todo,           \* candidates not yet ordered
    cur,            \* the node whose ack is awaited
    slot,           \* what the awaited call came back with
    watched,        \* pending of the rejoin loop, as of its last poll
    catchup,        \* a catch-up thread has not tried the lock yet
    recent,         \* _last_catchup is less than a minute ago
    reg,            \* per node: the version its registration announced, or Unknown
    online,         \* names with a registration
    nodeVersion,    \* per node: the version that is loaded, or last was
    legacy,         \* nodes of a build without update orders
    link,           \* per node: "up", "down", or "off" while the plugin is unloaded
    worker,         \* per node: where its update thread stands
    job,            \* per node: the round and the version it works on
    down,           \* per node: orders on their way to it
    upward,         \* per node: acks and reports on their way to the hub
    breaks,         \* how many links broke
    excused,        \* history: nodes the round stopped waiting for
    blind           \* history: nodes ever ordered without knowing their version

hubVars == <<pc, hubUp, hubVersion, round, stage, already, snap, todo, cur, slot, watched>>
catchVars == <<catchup, recent>>
regVars == <<reg, online>>
nodeVars == <<nodeVersion, worker, job>>
netVars == <<link, down, upward>>
vars == <<hubVars, catchVars, regVars, nodeVars, netVars, legacy, breaks, excused, blind>>

NoRound == [id |-> 0, version |-> Unknown, full |-> FALSE]
Orders == [id : Rounds, version : Versions]
NoJob == [id |-> 0, version |-> Unknown]
Acks == {"accepted", "already", "refused"}
Frames == [kind : {"ack"}, id : Rounds, says : Acks]
            \cup [kind : {"report"}, id : Rounds, says : {"staged", "failed"}]

TypeOK ==
    /\ pc \in {"idle", "pick", "order", "ack", "stages", "rejoin", "apply", "swap"}
    /\ hubUp \in BOOLEAN
    /\ hubVersion \in Versions
    /\ round \in [id : 0..MaxRounds, version : Versions \cup {Unknown}, full : BOOLEAN]
    /\ stage \in [Nodes -> Stages]
    /\ already \in SUBSET Nodes
    /\ snap \in [Nodes -> Versions \cup {Unknown}]
    /\ todo \in SUBSET Nodes
    /\ cur \in SUBSET Nodes /\ Cardinality(cur) <= 1
    /\ slot \in Acks \cup {"none", "dropped"}
    /\ watched \in SUBSET Nodes
    /\ catchup \in BOOLEAN
    /\ recent \in BOOLEAN
    /\ reg \in [Nodes -> Versions \cup {Unknown}]
    /\ online \in SUBSET Nodes
    /\ nodeVersion \in [Nodes -> Versions]
    /\ legacy \in SUBSET Nodes
    /\ link \in [Nodes -> {"up", "down", "off"}]
    /\ worker \in [Nodes -> {"none", "staging", "install", "swap"}]
    /\ job \in [Nodes -> Orders \cup {NoJob}]
    /\ down \in [Nodes -> Seq(Orders)]
    /\ upward \in [Nodes -> Seq(Frames)]
    /\ breaks \in 0..MaxBreaks
    /\ excused \in SUBSET Nodes
    /\ blind \in SUBSET Nodes

NothingRead == [n \in Nodes |-> Unknown]

(* What the hello frame of a node says about its version: builds without   *)
(* update orders say nothing.                                              *)
Announces(n) == IF n \in legacy THEN Unknown ELSE nodeVersion[n]

(* The hub has just been loaded on the first version; its nodes connect.   *)
Init ==
    /\ pc = "idle" /\ hubUp = TRUE /\ hubVersion = 1
    /\ round = NoRound
    /\ stage = [n \in Nodes |-> "none"]
    /\ already = {} /\ todo = {} /\ cur = {} /\ watched = {}
    /\ snap = NothingRead
    /\ slot = "none"
    /\ catchup = FALSE /\ recent = FALSE
    /\ nodeVersion \in [Nodes -> {1, Newest}]
    /\ legacy \in SUBSET {n \in Nodes : nodeVersion[n] = 1}
    /\ online = {} /\ reg = NothingRead
    /\ link = [n \in Nodes |-> "down"]
    /\ worker = [n \in Nodes |-> "none"]
    /\ job = [n \in Nodes |-> NoJob]
    /\ down = [n \in Nodes |-> <<>>]
    /\ upward = [n \in Nodes |-> <<>>]
    /\ breaks = 0
    /\ excused = {} /\ blind = {}

-----------------------------------------------------------------------------
(* The stage of a node. *)

Advanced(st, n, s) ==
    IF StageRank[s] > StageRank[st[n]] THEN [st EXCEPT ![n] = s] ELSE st

AdvancedWhatever(n, s) == [stage EXCEPT ![n] = s]

(* _set_node_stage: a stage never moves backwards. *)
SetNodeStage(n, s) == Advanced(stage, n, s)

(* The waiter of a node is woken by every stage but these. *)
Settled(n) == stage[n] \notin {"pending", "accepted", "timeout"}

-----------------------------------------------------------------------------
(* A round begins. *)

(* peer_versions is read, and _update_round is replaced. *)
BeginRound(version, full) ==
    /\ round.id < MaxRounds
    /\ round' = [id |-> round.id + 1, version |-> version, full |-> full]
    /\ stage' = [n \in Nodes |-> "none"]
    /\ already' = {} /\ excused' = {} /\ watched' = {}
    /\ snap' = reg
    /\ pc' = "pick"
    /\ UNCHANGED <<hubUp, hubVersion, todo, cur, slot>>

(* self_update on a hub that serves: prepare was successful. *)
StartFullRound ==
    /\ pc = "idle" /\ hubUp
    /\ Release > hubVersion
    /\ BeginRound(Release, TRUE)
    /\ UNCHANGED <<catchVars, regVars, nodeVars, netVars, legacy, breaks, blind>>

(* _catch_up_round: it gives way to a round that holds the lock, and ends  *)
(* where the hub's own version is in no catalogue or cannot be read.       *)
StartCatchUp ==
    /\ catchup
    /\ catchup' = FALSE
    /\ \/ pc = "idle" /\ hubVersion <= Release /\ BeginRound(hubVersion, FALSE)
       \/ UNCHANGED <<hubVars, excused>>
    /\ UNCHANGED <<recent, regVars, nodeVars, netVars, legacy, breaks, blind>>

HubOnly == UNCHANGED <<catchVars, regVars, nodeVars, legacy, breaks>>

AfterRound == IF round.full THEN "apply" ELSE "idle"

Candidates == {n \in online : snap[n] = Unknown \/ snap[n] < round.version}

PickFrom(cands) ==
    /\ pc = "pick"
    /\ todo' = cands
    /\ pc' = IF cands = {} THEN AfterRound ELSE "order"
    /\ snap' = IF cands = {} THEN NothingRead ELSE snap
    /\ UNCHANGED <<hubUp, hubVersion, round, stage, already, cur, slot, watched>>
    /\ UNCHANGED <<netVars, excused, blind>> /\ HubOnly

(* The peers are read after their versions: a node that registers between  *)
(* the two is a candidate of unknown version.                              *)
PickCandidates == PickFrom(Candidates)

(* The next candidate: peer_supports, and send with its look-up.  A frame  *)
(* for a link that has just broken goes nowhere.                           *)
OrderNode(n) ==
    /\ pc = "order" /\ n \in todo
    /\ todo' = todo \ {n}
    /\ LET order == [id |-> round.id, version |-> round.version] IN
       \/ /\ n \notin online \/ n \in legacy
          /\ stage' = [stage EXCEPT ![n] = "unsupported"]
          /\ UNCHANGED <<pc, cur, slot, netVars, blind>>
       \/ /\ n \in online \ legacy
          /\ stage' = [stage EXCEPT ![n] = "pending"]
          /\ pc' = "ack" /\ cur' = {n} /\ slot' = "none"
          /\ down' = [down EXCEPT ![n] = IF link[n] = "up" THEN Append(@, order) ELSE @]
          /\ blind' = IF snap[n] = Unknown THEN blind \cup {n} ELSE blind
          /\ UNCHANGED <<link, upward>>
       \/ /\ n \notin legacy /\ link[n] # "up"
          /\ stage' = [stage EXCEPT ![n] = "failed"]
          /\ UNCHANGED <<pc, cur, slot, netVars, blind>>
    /\ UNCHANGED <<hubUp, hubVersion, round, already, snap, watched, excused>> /\ HubOnly

AckStage == [accepted |-> "accepted", already |-> "staged", refused |-> "failed",
             none |-> "timeout", dropped |-> "failed"]

(* What _order_cluster_update makes of the reply, or of none after         *)
(* _UPDATE_ACK_TIMEOUT; _ack_failure_stage takes every other error for a   *)
(* failure, also that of a dropped link.                                   *)
HandleReply ==
    /\ pc = "ack"
    /\ \E n \in cur :
          /\ stage' = SetNodeStage(n, AckStage[slot])
          /\ already' = IF slot = "already" THEN already \cup {n} ELSE already
          /\ excused' = IF slot = "dropped" THEN excused \cup {n} ELSE excused
    /\ pc' = "order" /\ cur' = {} /\ slot' = "none"
    /\ UNCHANGED <<hubUp, hubVersion, round, snap, todo, watched>>
    /\ UNCHANGED <<netVars, blind>> /\ HubOnly

OrdersDone ==
    /\ pc = "order" /\ todo = {}
    /\ pc' = "stages"
    /\ snap' = NothingRead
    /\ UNCHANGED <<hubUp, hubVersion, round, stage, already, todo, cur, slot, watched>>
    /\ UNCHANGED <<netVars, excused, blind>> /\ HubOnly

-----------------------------------------------------------------------------
(* _wait_for_cluster_update, _report_cluster_update *)

Ordered == {n \in Nodes : stage[n] # "none"}

(* Every event is set. *)
WaitNodesSettled ==
    /\ pc = "stages"
    /\ \A n \in Ordered : Settled(n)
    /\ pc' = "rejoin"
    /\ UNCHANGED <<hubUp, hubVersion, round, stage, already, snap, todo, cur, slot, watched>>
    /\ UNCHANGED <<netVars, excused, blind>> /\ HubOnly

(* _UPDATE_STAGE_DEADLINE: "timeout" for the rest, which an "accepted"     *)
(* outranks.                                                               *)
StageDeadline ==
    LET late == {n \in Ordered : ~Settled(n)} IN
    /\ pc = "stages" /\ late # {}
    /\ stage' = [n \in Nodes |-> IF n \in late THEN SetNodeStage(n, "timeout")[n] ELSE stage[n]]
    /\ excused' = excused \cup late
    /\ pc' = "rejoin"
    /\ UNCHANGED <<hubUp, hubVersion, round, already, snap, todo, cur, slot, watched>>
    /\ UNCHANGED <<netVars, blind>> /\ HubOnly

(* What the summary of the round counts as ready. *)
Ready == {n \in Ordered : stage[n] = "staged"}

NotBackAnyVersion == {n \in Ordered \ already :
                        stage[n] \in {"staged", "timeout"} /\ n \notin online}

(* Ordered nodes that are not back on the new version; "accepted" ones are *)
(* not among them.                                                         *)
NotBack == {n \in Ordered \ already :
              stage[n] \in {"staged", "timeout"} /\ reg[n] # round.version}

Poll ==
    /\ pc = "rejoin"
    /\ watched' = NotBack
    /\ pc' = IF NotBack = {} THEN AfterRound ELSE "rejoin"
    /\ UNCHANGED <<hubUp, hubVersion, round, stage, already, snap, todo, cur, slot>>
    /\ UNCHANGED <<netVars, excused, blind>> /\ HubOnly

(* _UPDATE_REJOIN_DEADLINE *)
RejoinDeadline ==
    /\ pc = "rejoin" /\ watched # {}
    /\ stage' = [n \in Nodes |-> IF n \in watched THEN SetNodeStage(n, "stale")[n] ELSE stage[n]]
    /\ excused' = excused \cup watched
    /\ pc' = AfterRound /\ watched' = {}
    /\ UNCHANGED <<hubUp, hubVersion, round, already, snap, todo, cur, slot>>
    /\ UNCHANGED <<netVars, blind>> /\ HubOnly

(* apply_archive fails before the unload. *)
HubKept ==
    /\ pc = "apply"
    /\ pc' = "idle" /\ round' = [round EXCEPT !.full = FALSE]
    /\ UNCHANGED <<hubUp, hubVersion, stage, already, snap, todo, cur, slot, watched>>
    /\ UNCHANGED <<netVars, excused, blind>> /\ HubOnly

(* The unload of the hub closes every link. *)
HubUnloads ==
    /\ pc = "apply"
    /\ pc' = "swap" /\ hubUp' = FALSE
    /\ online' = {} /\ reg' = [n \in Nodes |-> Unknown]
    /\ link' = [n \in Nodes |-> IF link[n] = "up" THEN "down" ELSE link[n]]
    /\ down' = [n \in Nodes |-> <<>>] /\ upward' = [n \in Nodes |-> <<>>]
    /\ catchup' = FALSE
    /\ UNCHANGED <<hubVersion, round, stage, already, snap, todo, cur, slot, watched>>
    /\ UNCHANGED <<recent, nodeVars, legacy, breaks, excused, blind>>

(* The new build is loaded, or the old one again: a new instance without   *)
(* a round.  Only the number of rounds so far is kept, to tell ids apart.  *)
HubLoads ==
    /\ pc = "swap"
    /\ pc' = "idle" /\ hubUp' = TRUE
    /\ hubVersion' \in {hubVersion, round.version}
    /\ round' = [NoRound EXCEPT !.id = round.id]
    /\ stage' = [n \in Nodes |-> "none"]
    /\ already' = {} /\ watched' = {} /\ excused' = {}
    /\ recent' = FALSE
    /\ UNCHANGED <<snap, todo, cur, slot>>
    /\ UNCHANGED <<catchup, regVars, nodeVars, netVars, legacy, breaks, blind>>

-----------------------------------------------------------------------------
(* The thread of a node's connection at the hub. *)

NotHubThread == UNCHANGED <<pc, hubUp, hubVersion, round, already, snap, todo, cur, watched>>

ReportedForAnyRound(n, f) == stage[n] # "none"

(* _on_update_result: the sender has an entry in the round it reports for. *)
ReportCounts(n, f) == f.id = round.id /\ stage[n] # "none"

ReadFrameAsReply(n) ==
    /\ n \in online /\ upward[n] # <<>>
    /\ slot' = IF pc = "ack" /\ cur = {n} /\ slot = "none" THEN Head(upward[n]).says ELSE slot
    /\ upward' = [upward EXCEPT ![n] = Tail(@)]
    /\ NotHubThread
    /\ UNCHANGED <<stage, link, down, catchVars, regVars, nodeVars, legacy, breaks, excused, blind>>

(* A reply wakes the caller that waits for it; a report is recorded. *)
ReadFrame(n) ==
    /\ n \in online /\ upward[n] # <<>>
    /\ LET f == Head(upward[n]) IN
       IF f.kind = "ack"
       THEN /\ slot' = IF pc = "ack" /\ cur = {n} /\ f.id = round.id /\ slot = "none"
                       THEN f.says ELSE slot
            /\ UNCHANGED stage
       ELSE /\ stage' = IF ReportCounts(n, f) THEN SetNodeStage(n, f.says) ELSE stage
            /\ UNCHANGED slot
    /\ upward' = [upward EXCEPT ![n] = Tail(@)]
    /\ NotHubThread
    /\ UNCHANGED <<link, down, catchVars, regVars, nodeVars, legacy, breaks, excused, blind>>

(* The node's link is gone and everything it sent is read: the caller that *)
(* waits for it is woken.                                                  *)
Unregister(n) ==
    /\ n \in online /\ link[n] # "up" /\ upward[n] = <<>>
    /\ online' = online \ {n}
    /\ reg' = [reg EXCEPT ![n] = Unknown]
    /\ slot' = IF pc = "ack" /\ cur = {n} /\ slot = "none" THEN "dropped" ELSE slot
    /\ NotHubThread
    /\ UNCHANGED <<stage, catchVars, nodeVars, netVars, legacy, breaks, excused, blind>>

(* _handler registers the node and calls _on_peer_registered: one catch-up *)
(* thread at most per minute.  What an older link still carried is lost.   *)
Register(n) ==
    /\ hubUp /\ link[n] = "down"
    /\ link' = [link EXCEPT ![n] = "up"]
    /\ down' = [down EXCEPT ![n] = <<>>] /\ upward' = [upward EXCEPT ![n] = <<>>]
    /\ online' = online \cup {n}
    /\ reg' = [reg EXCEPT ![n] = Announces(n)]
    /\ LET behind == n \notin legacy /\ nodeVersion[n] < hubVersion IN
       IF behind /\ ~recent
       THEN catchup' = TRUE /\ recent' = TRUE
       ELSE UNCHANGED catchVars
    /\ NotHubThread
    /\ UNCHANGED <<stage, slot, nodeVars, legacy, breaks, excused, blind>>

(* _UPDATE_CATCHUP_INTERVAL, far longer than the start of a thread.        *)
MinutePasses ==
    /\ recent /\ ~catchup
    /\ recent' = FALSE
    /\ UNCHANGED <<hubVars, catchup, regVars, nodeVars, netVars, legacy, breaks, excused, blind>>

-----------------------------------------------------------------------------
(* A node. *)

NodeOnly == UNCHANGED <<hubVars, catchVars, regVars, legacy, breaks, excused, blind>>

Sent(n, kind, id, says) ==
    IF link[n] = "up" THEN [upward EXCEPT ![n] = Append(@, [kind |-> kind, id |-> id, says |-> says])]
    ELSE upward

(* _on_update_order, on the link thread: the ack goes out at once, and the *)
(* work gets a thread of its own.  _update_rounds_seen is left out: a hub  *)
(* orders a node once in a round.                                          *)
ReadOrder(n) ==
    /\ link[n] = "up" /\ down[n] # <<>>
    /\ LET o == Head(down[n])
           starts == o.version # nodeVersion[n] /\ worker[n] = "none"
           says == CASE o.version = nodeVersion[n] -> "already"
                     [] starts -> "accepted"
                     [] OTHER -> "refused"
       IN /\ upward' = Sent(n, "ack", o.id, says)
          /\ IF starts
             THEN /\ worker' = [worker EXCEPT ![n] = "staging"]
                  /\ job' = [job EXCEPT ![n] = o]
             ELSE UNCHANGED <<worker, job>>
    /\ down' = [down EXCEPT ![n] = Tail(@)]
    /\ UNCHANGED <<link, nodeVersion>> /\ NodeOnly

WorkEnds(n) == worker' = [worker EXCEPT ![n] = "none"] /\ job' = [job EXCEPT ![n] = NoJob]

(* prepare: "staged" is reported before the swap, where the link is up. *)
Prepare(n) ==
    /\ worker[n] = "staging" /\ link[n] # "off"
    /\ \/ /\ upward' = Sent(n, "report", job[n].id, "staged")
          /\ worker' = [worker EXCEPT ![n] = "install"]
          /\ UNCHANGED job
       \/ upward' = Sent(n, "report", job[n].id, "failed") /\ WorkEnds(n)
    /\ UNCHANGED <<link, down, nodeVersion>> /\ NodeOnly

(* apply_archive fails before the unload. *)
NodeKept(n) ==
    /\ worker[n] = "install"
    /\ upward' = Sent(n, "report", job[n].id, "failed")
    /\ WorkEnds(n)
    /\ UNCHANGED <<link, down, nodeVersion>> /\ NodeOnly

(* The unload closes the link in order: what was sent arrives. *)
NodeUnloads(n) ==
    /\ worker[n] = "install"
    /\ worker' = [worker EXCEPT ![n] = "swap"]
    /\ link' = [link EXCEPT ![n] = "off"]
    /\ down' = [down EXCEPT ![n] = <<>>]
    /\ UNCHANGED <<upward, nodeVersion, job>> /\ NodeOnly

(* The new build comes up, or the old one again: that may take until an    *)
(* operator loads it.  Nothing is reported any more.                       *)
NodeLoads(n) ==
    /\ worker[n] = "swap"
    /\ \E v \in {nodeVersion[n], job[n].version} : nodeVersion' = [nodeVersion EXCEPT ![n] = v]
    /\ link' = [link EXCEPT ![n] = "down"]
    /\ WorkEnds(n)
    /\ UNCHANGED <<down, upward>> /\ NodeOnly

(* The network drops a link: what was on it is lost. *)
LinkBreaks(n) ==
    /\ link[n] = "up" /\ breaks < MaxBreaks
    /\ breaks' = breaks + 1
    /\ link' = [link EXCEPT ![n] = "down"]
    /\ down' = [down EXCEPT ![n] = <<>>] /\ upward' = [upward EXCEPT ![n] = <<>>]
    /\ UNCHANGED <<hubVars, catchVars, regVars, nodeVars, legacy, excused, blind>>

-----------------------------------------------------------------------------
(* The hub's thread that runs a round. *)
RoundStep ==
    \/ PickCandidates
    \/ \E n \in Nodes : OrderNode(n)
    \/ HandleReply \/ OrdersDone
    \/ WaitNodesSettled \/ Poll
    \/ HubKept \/ HubUnloads \/ HubLoads

Deadlines == StageDeadline \/ RejoinDeadline

ConnectionStep(n) == ReadFrame(n) \/ Unregister(n) \/ Register(n)
NodeStep(n) ==
    \/ ReadOrder(n) \/ Prepare(n) \/ NodeKept(n) \/ NodeUnloads(n) \/ NodeLoads(n)

(* Nobody is doing anything; the next release is far. *)
Resting ==
    /\ pc = "idle" /\ hubUp /\ online = Nodes
    /\ \A n \in Nodes : worker[n] = "none" /\ down[n] = <<>> /\ upward[n] = <<>>
    /\ UNCHANGED vars

Next ==
    \/ Resting
    \/ StartFullRound \/ StartCatchUp
    \/ RoundStep \/ Deadlines \/ MinutePasses
    \/ \E n \in Nodes : ConnectionStep(n) \/ NodeStep(n) \/ LinkBreaks(n)

Spec == Init /\ [][Next]_vars

-----------------------------------------------------------------------------
(* Properties. *)

(* A node that is at work on the order of the hub's round, or has it on    *)
(* its way.                                                                *)
AtWork(n) == round.id # 0 /\ worker[n] # "none" /\ job[n].id = round.id
Underway(n) == link[n] = "up" /\ \E i \in DOMAIN down[n] : down[n][i].id = round.id

(* The hub goes last: it does not unload while a node works on its order,  *)
(* or has the order on its way, unless a deadline ran out for that node or *)
(* its link dropped while the ack was awaited.                             *)
HubGoesLast ==
    [][(hubUp /\ ~hubUp') =>
         \A n \in Nodes \ excused : ~AtWork(n) /\ ~Underway(n)]_vars

(* "Only failed and unsupported are settled" (_wait_for_cluster_update):   *)
(* when the hub unloads, a node that works on its order was watched until  *)
(* the rejoin deadline ran out.                                            *)
HubWaitsForAll ==
    [][(hubUp /\ ~hubUp') => \A n \in Nodes : AtWork(n) => stage[n] = "stale"]_vars

(* A node that the summary counts as ready runs the version of the round:  *)
(* the acknowledgement, the report and the reconnect arrive in any order,  *)
(* from this round and from earlier ones.                                  *)
ReadyRunsTheVersion ==
    [][pc = "rejoin" /\ pc' # "rejoin" =>
         \A n \in Ready \ excused' : nodeVersion[n] = round.version]_vars

(* No node is pushed backwards: an order never replaces a build by an      *)
(* older one, unless the hub did not know the node's version.              *)
NeverBackwards ==
    [][\A n \in Nodes \ blind : nodeVersion'[n] >= nodeVersion[n]]_vars

(* A verdict on a node is final: within a round, what is known about it    *)
(* only improves, whatever order the frames and the deadlines come in.     *)
StagesAdvance ==
    [][round'.id = round.id /\ hubUp' = hubUp =>
         \A n \in Nodes : StageRank[stage'[n]] >= StageRank[stage[n]]]_vars
=============================================================================
