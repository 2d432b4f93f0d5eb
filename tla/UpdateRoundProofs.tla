-------------------------- MODULE UpdateRoundProofs --------------------------
(***************************************************************************)
(* Theorems about UpdateRound, for any number of nodes, rounds and broken  *)
(* links.                                                                  *)
(***************************************************************************)
EXTENDS UpdateRound, FiniteSetTheorems, TLAPS

-----------------------------------------------------------------------------
(* The stages. *)

LEMMA StageNames ==
    Stages = {"none", "pending", "timeout", "unsupported", "accepted",
              "staged", "failed", "stale"}
  BY DEF Stages, StageRank

LEMMA Ranks ==
    /\ StageRank["none"] = 0 /\ StageRank["pending"] = 0
    /\ StageRank["timeout"] = 1 /\ StageRank["unsupported"] = 2
    /\ StageRank["accepted"] = 3 /\ StageRank["staged"] = 4
    /\ StageRank["failed"] = 4 /\ StageRank["stale"] = 5
  BY DEF StageRank

LEMMA RankIsNat == \A s \in Stages : StageRank[s] \in Nat
  BY StageNames, Ranks

\* _set_node_stage: the rank never falls, and other nodes are left alone.
LEMMA SetNodeStageAdvances ==
    ASSUME stage \in [Nodes -> Stages], NEW n \in Nodes, NEW s \in Stages
    PROVE  /\ SetNodeStage(n, s) \in [Nodes -> Stages]
           /\ \A m \in Nodes : StageRank[SetNodeStage(n, s)[m]] >= StageRank[stage[m]]
           /\ \A m \in Nodes \ {n} : SetNodeStage(n, s)[m] = stage[m]
  BY RankIsNat DEF SetNodeStage, Advanced

LEMMA AckStages == \A a \in Acks \cup {"none", "dropped"} : AckStage[a] \in Stages
  BY StageNames DEF Acks, AckStage
-----------------------------------------------------------------------------
(* Types. *)

HubTypes ==
    /\ pc \in {"idle", "pick", "order", "ack", "stages", "rejoin", "apply", "swap"}
    /\ hubUp \in BOOLEAN
    /\ hubVersion \in Versions
    /\ round \in [id : 0..MaxRounds, version : Versions \cup {Unknown}, full : BOOLEAN]
    /\ stage \in [Nodes -> Stages]
    /\ already \in SUBSET Nodes
    /\ snap \in [Nodes -> Versions \cup {Unknown}]
    /\ todo \in SUBSET Nodes
    /\ cur \in SUBSET Nodes
    /\ slot \in Acks \cup {"none", "dropped"}
    /\ watched \in SUBSET Nodes
    /\ catchup \in BOOLEAN
    /\ recent \in BOOLEAN
    /\ reg \in [Nodes -> Versions \cup {Unknown}]
    /\ online \in SUBSET Nodes
    /\ breaks \in 0..MaxBreaks
    /\ excused \in SUBSET Nodes
    /\ blind \in SUBSET Nodes

NodeTypes ==
    /\ nodeVersion \in [Nodes -> Versions]
    /\ legacy \in SUBSET Nodes
    /\ link \in [Nodes -> {"up", "down", "off"}]
    /\ worker \in [Nodes -> {"none", "staging", "install", "swap"}]
    /\ job \in [Nodes -> Orders \cup {NoJob}]
    /\ down \in [Nodes -> Seq(Orders)]
    /\ upward \in [Nodes -> Seq(Frames)]

\* What the types and the stages need to be inductive: a thread that runs a
\* round, or a worker, knows what it orders or installs; the candidates that
\* are not ordered yet have no stage; at most one ack is awaited; a hub that
\* is swapped is down.
RoundOrder ==
    /\ pc # "idle" => round.id \in Rounds /\ round.version \in Versions
    /\ \A n \in Nodes : worker[n] # "none" => job[n] \in Orders
    /\ pc = "swap" => ~hubUp
    /\ pc = "pick" => \A n \in Nodes : stage[n] = "none"
    /\ pc \in {"order", "ack"} => \A n \in todo : stage[n] = "none"
    /\ cur # {} => pc = "ack" /\ \E n \in Nodes \ todo : cur = {n}

RoundInv == HubTypes /\ NodeTypes /\ RoundOrder


LEMMA RoundInit == Init => RoundInv
<1> SUFFICES ASSUME Init PROVE RoundInv
  OBVIOUS
<1>1. HubTypes
  <2>1. 1 \in Versions /\ 0 \in 0..MaxRounds /\ 0 \in 0..MaxBreaks
    BY ReleaseIsAVersion, RoundBounds DEF Versions
  <2>2. round \in [id : 0..MaxRounds, version : Versions \cup {Unknown}, full : BOOLEAN]
    BY <2>1 DEF Init, NoRound
  <2>3. stage \in [Nodes -> Stages]
    BY StageNames DEF Init
  <2>4. NothingRead \in [Nodes -> Versions \cup {Unknown}]
    BY DEF NothingRead
  <2> QED
    BY <2>1, <2>2, <2>3, <2>4 DEF Init, HubTypes
<1>2. NodeTypes
  BY ReleaseIsAVersion DEF Init, NodeTypes, Versions
<1>3. RoundOrder
  BY DEF Init, RoundOrder, NoRound
<1> QED
  BY <1>1, <1>2, <1>3 DEF RoundInv

LEMMA StartFullRoundKeeps ==
    ASSUME RoundInv, StartFullRound
    PROVE  RoundInv'
<1> USE StageNames, RoundBounds, ReleaseIsAVersion
<1> USE DEF StartFullRound, BeginRound, hubVars, catchVars, regVars, nodeVars, netVars, vars
<1>1. HubTypes'
  BY AckStages, SetNodeStageAdvances DEF RoundInv, HubTypes, NodeTypes, RoundOrder, Rounds, Versions, Unknown, Acks, Frames
<1>2. NodeTypes'
  BY DEF RoundInv, NodeTypes
<1>3. RoundOrder'
  BY AckStages, SetNodeStageAdvances DEF RoundInv, HubTypes, NodeTypes, RoundOrder, Orders, NoJob, Rounds, Versions
<1> QED
  BY <1>1, <1>2, <1>3 DEF RoundInv

LEMMA StartCatchUpKeeps ==
    ASSUME RoundInv, StartCatchUp
    PROVE  RoundInv'
<1> USE DEF hubVars, catchVars, regVars, nodeVars, netVars
<1>1. NodeTypes'
  BY DEF StartCatchUp, RoundInv, NodeTypes
<1>2. CASE pc = "idle" /\ BeginRound(hubVersion, FALSE)
  <2>1. round' \in [id : Rounds, version : Versions, full : BOOLEAN]
    BY <1>2, RoundBounds DEF BeginRound, RoundInv, HubTypes, Rounds
  <2>2. HubTypes'
    <3>1. round' \in [id : 0..MaxRounds, version : Versions \cup {Unknown}, full : BOOLEAN]
      BY <2>1, RoundBounds DEF Rounds
    <3>2. stage' \in [Nodes -> Stages]
      BY <1>2, StageNames DEF BeginRound
    <3> QED
      BY <1>2, <3>1, <3>2 DEF StartCatchUp, BeginRound, RoundInv, HubTypes
  <2>3. RoundOrder'
    BY <1>2, <2>1 DEF StartCatchUp, BeginRound, RoundInv, RoundOrder
  <2> QED
    BY <1>1, <2>2, <2>3 DEF RoundInv
<1>3. CASE UNCHANGED <<hubVars, excused>>
  <2>1. HubTypes'
    BY <1>3 DEF StartCatchUp, RoundInv, HubTypes
  <2>2. RoundOrder'
    BY <1>3 DEF StartCatchUp, RoundInv, RoundOrder
  <2> QED
    BY <1>1, <2>1, <2>2 DEF RoundInv
<1> QED
  BY <1>2, <1>3 DEF StartCatchUp

LEMMA PickCandidatesKeeps ==
    ASSUME RoundInv, PickCandidates
    PROVE  RoundInv'
<1> USE StageNames, RoundBounds, ReleaseIsAVersion
<1> USE DEF PickCandidates, PickFrom, Candidates, AfterRound, HubOnly, NothingRead, hubVars, catchVars, regVars, nodeVars, netVars, vars
<1>1. HubTypes'
  BY AckStages, SetNodeStageAdvances DEF RoundInv, HubTypes, NodeTypes, RoundOrder, Rounds, Versions, Unknown, Acks, Frames
<1>2. NodeTypes'
  BY DEF RoundInv, NodeTypes
<1>3. RoundOrder'
  BY AckStages, SetNodeStageAdvances DEF RoundInv, HubTypes, NodeTypes, RoundOrder, Orders, NoJob, Rounds, Versions
<1> QED
  BY <1>1, <1>2, <1>3 DEF RoundInv

LEMMA OrderNodeKeeps ==
    ASSUME RoundInv, NEW n \in Nodes, OrderNode(n)
    PROVE  RoundInv'
<1> DEFINE order == [id |-> round.id, version |-> round.version]
<1> USE DEF catchVars, regVars, nodeVars, netVars, HubOnly
<1>1. order \in Orders
  BY DEF OrderNode, RoundInv, RoundOrder, Orders
<1>2. \E s \in {"unsupported", "pending", "failed"} : stage' = [stage EXCEPT ![n] = s]
  BY DEF OrderNode
<1>3. /\ stage' \in [Nodes -> Stages]
      /\ \A m \in Nodes \ {n} : stage'[m] = stage[m]
  BY <1>2, StageNames DEF RoundInv, HubTypes
<1>4. CASE UNCHANGED <<pc, cur, slot, netVars, blind>>
  <2>1. HubTypes' /\ NodeTypes'
    BY <1>3, <1>4 DEF OrderNode, RoundInv, HubTypes, NodeTypes
  <2>2. RoundOrder'
    BY <1>3, <1>4 DEF OrderNode, RoundInv, HubTypes, RoundOrder
  <2> QED
    BY <2>1, <2>2 DEF RoundInv
<1>5. CASE /\ pc' = "ack" /\ cur' = {n} /\ slot' = "none"
           /\ down' = [down EXCEPT ![n] = IF link[n] = "up" THEN Append(@, order) ELSE @]
           /\ blind' = IF snap[n] = Unknown THEN blind \cup {n} ELSE blind
           /\ UNCHANGED <<link, upward>>
  <2>1. down' \in [Nodes -> Seq(Orders)]
    BY <1>1, <1>5 DEF RoundInv, NodeTypes
  <2>2. HubTypes'
    BY <1>3, <1>5 DEF OrderNode, RoundInv, HubTypes
  <2>3. NodeTypes'
    BY <1>5, <2>1 DEF OrderNode, RoundInv, NodeTypes
  <2>4. RoundOrder'
    BY <1>3, <1>5 DEF OrderNode, RoundInv, HubTypes, RoundOrder
  <2> QED
    BY <2>2, <2>3, <2>4 DEF RoundInv
<1> QED
  BY <1>4, <1>5 DEF OrderNode

LEMMA HandleReplyKeeps ==
    ASSUME RoundInv, HandleReply
    PROVE  RoundInv'
<1> USE DEF catchVars, regVars, nodeVars, netVars, HubOnly
<1>1. PICK n \in cur :
          /\ stage' = SetNodeStage(n, AckStage[slot])
          /\ already' = IF slot = "already" THEN already \cup {n} ELSE already
          /\ excused' = IF slot = "dropped" THEN excused \cup {n} ELSE excused
  BY DEF HandleReply
<1>2. n \in Nodes \ todo
  BY <1>1 DEF RoundInv, RoundOrder
<1>3. AckStage[slot] \in Stages
  BY AckStages DEF RoundInv, HubTypes
<1>4. /\ stage' \in [Nodes -> Stages]
      /\ \A m \in Nodes \ {n} : stage'[m] = stage[m]
  BY <1>1, <1>2, <1>3, SetNodeStageAdvances DEF RoundInv, HubTypes
<1>5. HubTypes'
  BY <1>1, <1>2, <1>4 DEF HandleReply, RoundInv, HubTypes
<1>6. NodeTypes'
  BY DEF HandleReply, RoundInv, NodeTypes
<1>7. RoundOrder'
  BY <1>2, <1>4 DEF HandleReply, RoundInv, HubTypes, RoundOrder
<1> QED
  BY <1>5, <1>6, <1>7 DEF RoundInv

LEMMA OrdersDoneKeeps ==
    ASSUME RoundInv, OrdersDone
    PROVE  RoundInv'
<1> USE StageNames, RoundBounds, ReleaseIsAVersion
<1> USE DEF OrdersDone, HubOnly, NothingRead, hubVars, catchVars, regVars, nodeVars, netVars, vars
<1>1. HubTypes'
  BY AckStages, SetNodeStageAdvances DEF RoundInv, HubTypes, NodeTypes, RoundOrder, Rounds, Versions, Unknown, Acks, Frames
<1>2. NodeTypes'
  BY DEF RoundInv, NodeTypes
<1>3. RoundOrder'
  BY AckStages, SetNodeStageAdvances DEF RoundInv, HubTypes, NodeTypes, RoundOrder, Orders, NoJob, Rounds, Versions
<1> QED
  BY <1>1, <1>2, <1>3 DEF RoundInv

LEMMA WaitNodesSettledKeeps ==
    ASSUME RoundInv, WaitNodesSettled
    PROVE  RoundInv'
<1> USE StageNames, RoundBounds, ReleaseIsAVersion
<1> USE DEF WaitNodesSettled, HubOnly, hubVars, catchVars, regVars, nodeVars, netVars, vars
<1>1. HubTypes'
  BY AckStages, SetNodeStageAdvances DEF RoundInv, HubTypes, NodeTypes, RoundOrder, Rounds, Versions, Unknown, Acks, Frames
<1>2. NodeTypes'
  BY DEF RoundInv, NodeTypes
<1>3. RoundOrder'
  BY AckStages, SetNodeStageAdvances DEF RoundInv, HubTypes, NodeTypes, RoundOrder, Orders, NoJob, Rounds, Versions
<1> QED
  BY <1>1, <1>2, <1>3 DEF RoundInv

LEMMA StageDeadlineKeeps ==
    ASSUME RoundInv, StageDeadline
    PROVE  RoundInv'
<1> USE StageNames, RoundBounds, ReleaseIsAVersion
<1> USE DEF StageDeadline, HubOnly, Ordered, hubVars, catchVars, regVars, nodeVars, netVars, vars
<1>1. HubTypes'
  BY AckStages, SetNodeStageAdvances DEF RoundInv, HubTypes, NodeTypes, RoundOrder, Rounds, Versions, Unknown, Acks, Frames
<1>2. NodeTypes'
  BY DEF RoundInv, NodeTypes
<1>3. RoundOrder'
  BY AckStages, SetNodeStageAdvances DEF RoundInv, HubTypes, NodeTypes, RoundOrder, Orders, NoJob, Rounds, Versions
<1> QED
  BY <1>1, <1>2, <1>3 DEF RoundInv

LEMMA PollKeeps ==
    ASSUME RoundInv, Poll
    PROVE  RoundInv'
<1> USE StageNames, RoundBounds, ReleaseIsAVersion
<1> USE DEF Poll, HubOnly, NotBack, Ordered, AfterRound, hubVars, catchVars, regVars, nodeVars, netVars, vars
<1>1. HubTypes'
  BY AckStages, SetNodeStageAdvances DEF RoundInv, HubTypes, NodeTypes, RoundOrder, Rounds, Versions, Unknown, Acks, Frames
<1>2. NodeTypes'
  BY DEF RoundInv, NodeTypes
<1>3. RoundOrder'
  BY AckStages, SetNodeStageAdvances DEF RoundInv, HubTypes, NodeTypes, RoundOrder, Orders, NoJob, Rounds, Versions
<1> QED
  BY <1>1, <1>2, <1>3 DEF RoundInv

LEMMA RejoinDeadlineKeeps ==
    ASSUME RoundInv, RejoinDeadline
    PROVE  RoundInv'
<1> USE StageNames, RoundBounds, ReleaseIsAVersion
<1> USE DEF RejoinDeadline, HubOnly, AfterRound, hubVars, catchVars, regVars, nodeVars, netVars, vars
<1>1. HubTypes'
  BY AckStages, SetNodeStageAdvances DEF RoundInv, HubTypes, NodeTypes, RoundOrder, Rounds, Versions, Unknown, Acks, Frames
<1>2. NodeTypes'
  BY DEF RoundInv, NodeTypes
<1>3. RoundOrder'
  BY AckStages, SetNodeStageAdvances DEF RoundInv, HubTypes, NodeTypes, RoundOrder, Orders, NoJob, Rounds, Versions
<1> QED
  BY <1>1, <1>2, <1>3 DEF RoundInv

LEMMA HubKeptKeeps ==
    ASSUME RoundInv, HubKept
    PROVE  RoundInv'
<1> USE StageNames, RoundBounds, ReleaseIsAVersion
<1> USE DEF HubKept, HubOnly, hubVars, catchVars, regVars, nodeVars, netVars, vars
<1>1. HubTypes'
  BY AckStages, SetNodeStageAdvances DEF RoundInv, HubTypes, NodeTypes, RoundOrder, Rounds, Versions, Unknown, Acks, Frames
<1>2. NodeTypes'
  BY DEF RoundInv, NodeTypes
<1>3. RoundOrder'
  BY AckStages, SetNodeStageAdvances DEF RoundInv, HubTypes, NodeTypes, RoundOrder, Orders, NoJob, Rounds, Versions
<1> QED
  BY <1>1, <1>2, <1>3 DEF RoundInv

LEMMA HubUnloadsKeeps ==
    ASSUME RoundInv, HubUnloads
    PROVE  RoundInv'
<1> USE StageNames, RoundBounds, ReleaseIsAVersion
<1> USE DEF HubUnloads, hubVars, catchVars, regVars, nodeVars, netVars, vars
<1>1. HubTypes'
  BY AckStages, SetNodeStageAdvances DEF RoundInv, HubTypes, NodeTypes, RoundOrder, Rounds, Versions, Unknown, Acks, Frames
<1>2. NodeTypes'
  BY DEF RoundInv, NodeTypes
<1>3. RoundOrder'
  BY AckStages, SetNodeStageAdvances DEF RoundInv, HubTypes, NodeTypes, RoundOrder, Orders, NoJob, Rounds, Versions
<1> QED
  BY <1>1, <1>2, <1>3 DEF RoundInv

LEMMA HubLoadsKeeps ==
    ASSUME RoundInv, HubLoads
    PROVE  RoundInv'
<1> USE DEF catchVars, regVars, nodeVars, netVars
<1>1. round' \in [id : 0..MaxRounds, version : Versions \cup {Unknown}, full : BOOLEAN]
  <2>1. round.id \in 0..MaxRounds
    BY DEF RoundInv, HubTypes
  <2>2. round' = [id |-> round.id, version |-> Unknown, full |-> FALSE]
    BY DEF HubLoads, NoRound
  <2> QED
    BY <2>1, <2>2
<1>2. hubVersion' \in Versions
  BY DEF HubLoads, RoundInv, HubTypes, RoundOrder
<1>3. HubTypes'
  BY <1>1, <1>2, StageNames DEF HubLoads, RoundInv, HubTypes
<1>4. NodeTypes'
  BY DEF HubLoads, RoundInv, NodeTypes
<1>5. RoundOrder'
  BY DEF HubLoads, RoundInv, RoundOrder
<1> QED
  BY <1>3, <1>4, <1>5 DEF RoundInv

LEMMA MinutePassesKeeps ==
    ASSUME RoundInv, MinutePasses
    PROVE  RoundInv'
<1> USE StageNames, RoundBounds, ReleaseIsAVersion
<1> USE DEF MinutePasses, hubVars, catchVars, regVars, nodeVars, netVars, vars
<1>1. HubTypes'
  BY AckStages, SetNodeStageAdvances DEF RoundInv, HubTypes, NodeTypes, RoundOrder, Rounds, Versions, Unknown, Acks, Frames
<1>2. NodeTypes'
  BY DEF RoundInv, NodeTypes
<1>3. RoundOrder'
  BY AckStages, SetNodeStageAdvances DEF RoundInv, HubTypes, NodeTypes, RoundOrder, Orders, NoJob, Rounds, Versions
<1> QED
  BY <1>1, <1>2, <1>3 DEF RoundInv

\* A frame that is read is one of those that were sent.
LEMMA HeadOfFrames ==
    ASSUME NodeTypes, NEW n \in Nodes, upward[n] # <<>>
    PROVE  /\ Head(upward[n]) \in Frames
           /\ [upward EXCEPT ![n] = Tail(@)] \in [Nodes -> Seq(Frames)]
  BY DEF NodeTypes

LEMMA ReadFrameKeeps ==
    ASSUME RoundInv, NEW n \in Nodes, ReadFrame(n)
    PROVE  RoundInv'
<1> DEFINE f == Head(upward[n])
<1> USE DEF catchVars, regVars, nodeVars, NotHubThread
<1>1. /\ f \in Frames
      /\ upward' \in [Nodes -> Seq(Frames)]
  BY HeadOfFrames DEF ReadFrame, RoundInv
<1>2. /\ f.kind = "ack" => f.says \in Acks
      /\ f.kind # "ack" => f.says \in Stages
  BY <1>1, StageNames DEF Frames
<1>3. slot' \in Acks \cup {"none", "dropped"}
  BY <1>2 DEF ReadFrame, RoundInv, HubTypes
<1>4. /\ stage' \in [Nodes -> Stages]
      /\ \A m \in Nodes : stage[m] = "none" => stage'[m] = "none"
  <2>1. CASE stage' = stage
    BY <2>1 DEF RoundInv, HubTypes
  <2>2. CASE f.kind # "ack" /\ ReportCounts(n, f) /\ stage' = SetNodeStage(n, f.says)
    <3>1. stage \in [Nodes -> Stages] /\ stage[n] # "none"
      BY <2>2 DEF RoundInv, HubTypes, ReportCounts
    <3>2. f.says \in Stages
      BY <1>2, <2>2
    <3> HIDE DEF f
    <3> QED
      BY <2>2, <3>1, <3>2, SetNodeStageAdvances
  <2> QED
    BY <2>1, <2>2 DEF ReadFrame
<1>5. HubTypes'
  BY <1>3, <1>4 DEF ReadFrame, RoundInv, HubTypes
<1>6. NodeTypes'
  BY <1>1 DEF ReadFrame, RoundInv, NodeTypes
<1>7. RoundOrder'
  BY <1>4 DEF ReadFrame, RoundInv, HubTypes, RoundOrder
<1> QED
  BY <1>5, <1>6, <1>7 DEF RoundInv

LEMMA UnregisterKeeps ==
    ASSUME RoundInv, NEW n \in Nodes, Unregister(n)
    PROVE  RoundInv'
<1> USE StageNames, RoundBounds, ReleaseIsAVersion
<1> USE DEF Unregister, NotHubThread, hubVars, catchVars, regVars, nodeVars, netVars, vars
<1>1. HubTypes'
  BY AckStages, SetNodeStageAdvances DEF RoundInv, HubTypes, NodeTypes, RoundOrder, Rounds, Versions, Unknown, Acks, Frames
<1>2. NodeTypes'
  BY DEF RoundInv, NodeTypes
<1>3. RoundOrder'
  BY AckStages, SetNodeStageAdvances DEF RoundInv, HubTypes, NodeTypes, RoundOrder, Orders, NoJob, Rounds, Versions
<1> QED
  BY <1>1, <1>2, <1>3 DEF RoundInv

LEMMA RegisterKeeps ==
    ASSUME RoundInv, NEW n \in Nodes, Register(n)
    PROVE  RoundInv'
<1> USE DEF hubVars, catchVars, nodeVars, NotHubThread
<1>1. Announces(n) \in Versions \cup {Unknown}
  BY DEF Announces, RoundInv, NodeTypes
<1>2. catchup' \in BOOLEAN /\ recent' \in BOOLEAN
  BY DEF Register, RoundInv, HubTypes
<1>3. HubTypes'
  BY <1>1, <1>2 DEF Register, RoundInv, HubTypes
<1>4. NodeTypes'
  BY DEF Register, RoundInv, NodeTypes
<1>5. RoundOrder'
  BY DEF Register, RoundInv, RoundOrder
<1> QED
  BY <1>3, <1>4, <1>5 DEF RoundInv

\* What a node sends is a frame.
LEMMA SentAcks ==
    ASSUME NodeTypes, NEW n \in Nodes, NEW id \in Rounds, NEW says \in Acks
    PROVE  Sent(n, "ack", id, says) \in [Nodes -> Seq(Frames)]
<1>1. [kind |-> "ack", id |-> id, says |-> says] \in Frames
  BY DEF Frames
<1> QED
  BY <1>1 DEF Sent, NodeTypes

LEMMA SentReports ==
    ASSUME NodeTypes, NEW n \in Nodes, NEW id \in Rounds, NEW says \in {"staged", "failed"}
    PROVE  Sent(n, "report", id, says) \in [Nodes -> Seq(Frames)]
<1>1. [kind |-> "report", id |-> id, says |-> says] \in Frames
  BY DEF Frames
<1> QED
  BY <1>1 DEF Sent, NodeTypes

LEMMA ReadOrderKeeps ==
    ASSUME RoundInv, NEW n \in Nodes, ReadOrder(n)
    PROVE  RoundInv'
<1> DEFINE o == Head(down[n])
<1> USE DEF hubVars, catchVars, regVars, NodeOnly
<1>1. /\ o \in Orders
      /\ down' \in [Nodes -> Seq(Orders)]
  BY DEF ReadOrder, RoundInv, NodeTypes
<1>2. o.id \in Rounds
  BY <1>1 DEF Orders
<1>3. PICK says \in Acks : upward' = Sent(n, "ack", o.id, says)
  BY DEF ReadOrder, Acks
<1>4. upward' \in [Nodes -> Seq(Frames)]
  BY <1>2, <1>3, SentAcks DEF RoundInv
<1>5. \/ UNCHANGED <<worker, job>>
      \/ /\ worker' = [worker EXCEPT ![n] = "staging"]
         /\ job' = [job EXCEPT ![n] = o]
  BY DEF ReadOrder
<1>6. HubTypes'
  BY DEF ReadOrder, RoundInv, HubTypes
<1>7. NodeTypes'
  <2>1. /\ worker' \in [Nodes -> {"none", "staging", "install", "swap"}]
        /\ job' \in [Nodes -> Orders \cup {NoJob}]
    <3> HIDE DEF o
    <3> QED
      BY <1>1, <1>5 DEF RoundInv, NodeTypes
  <2> QED
    BY <1>1, <1>4, <2>1 DEF ReadOrder, RoundInv, NodeTypes
<1>8. RoundOrder'
  BY <1>1, <1>5 DEF ReadOrder, RoundInv, NodeTypes, RoundOrder
<1> QED
  BY <1>6, <1>7, <1>8 DEF RoundInv

\* The thread of an update has an order with a round.
LEMMA JobsOfWorkers ==
    ASSUME RoundInv, NEW n \in Nodes, worker[n] # "none"
    PROVE  job[n].id \in Rounds /\ job[n].version \in Versions
  BY DEF RoundInv, RoundOrder, Orders

LEMMA PrepareKeeps ==
    ASSUME RoundInv, NEW n \in Nodes, Prepare(n)
    PROVE  RoundInv'
<1> USE DEF hubVars, catchVars, regVars, NodeOnly
<1>1. upward' \in [Nodes -> Seq(Frames)]
  BY JobsOfWorkers, SentReports DEF Prepare, RoundInv
<1>2. \/ worker' = [worker EXCEPT ![n] = "install"] /\ UNCHANGED job
      \/ WorkEnds(n)
  BY DEF Prepare
<1>3. HubTypes'
  BY DEF Prepare, RoundInv, HubTypes
<1>4. NodeTypes'
  BY <1>1, <1>2 DEF Prepare, WorkEnds, RoundInv, NodeTypes
<1>5. RoundOrder'
  BY <1>2 DEF Prepare, WorkEnds, RoundInv, NodeTypes, RoundOrder
<1> QED
  BY <1>3, <1>4, <1>5 DEF RoundInv

LEMMA NodeKeptKeeps ==
    ASSUME RoundInv, NEW n \in Nodes, NodeKept(n)
    PROVE  RoundInv'
<1> USE DEF hubVars, catchVars, regVars, NodeOnly
<1>1. upward' \in [Nodes -> Seq(Frames)]
  BY JobsOfWorkers, SentReports DEF NodeKept, RoundInv
<1>2. HubTypes'
  BY DEF NodeKept, RoundInv, HubTypes
<1>3. NodeTypes'
  BY <1>1 DEF NodeKept, WorkEnds, RoundInv, NodeTypes
<1>4. RoundOrder'
  BY DEF NodeKept, WorkEnds, RoundInv, NodeTypes, RoundOrder
<1> QED
  BY <1>2, <1>3, <1>4 DEF RoundInv

LEMMA NodeUnloadsKeeps ==
    ASSUME RoundInv, NEW n \in Nodes, NodeUnloads(n)
    PROVE  RoundInv'
<1> USE DEF hubVars, catchVars, regVars, NodeOnly
<1>1. HubTypes'
  BY DEF NodeUnloads, RoundInv, HubTypes
<1>2. NodeTypes'
  BY DEF NodeUnloads, RoundInv, NodeTypes
<1>3. RoundOrder'
  BY DEF NodeUnloads, RoundInv, NodeTypes, RoundOrder
<1> QED
  BY <1>1, <1>2, <1>3 DEF RoundInv

LEMMA NodeLoadsKeeps ==
    ASSUME RoundInv, NEW n \in Nodes, NodeLoads(n)
    PROVE  RoundInv'
<1> USE DEF hubVars, catchVars, regVars, NodeOnly
<1>1. nodeVersion' \in [Nodes -> Versions]
  BY JobsOfWorkers DEF NodeLoads, RoundInv, NodeTypes
<1>2. HubTypes'
  BY DEF NodeLoads, RoundInv, HubTypes
<1>3. NodeTypes'
  BY <1>1 DEF NodeLoads, WorkEnds, RoundInv, NodeTypes
<1>4. RoundOrder'
  BY DEF NodeLoads, WorkEnds, RoundInv, NodeTypes, RoundOrder
<1> QED
  BY <1>2, <1>3, <1>4 DEF RoundInv

LEMMA LinkBreaksKeeps ==
    ASSUME RoundInv, NEW n \in Nodes, LinkBreaks(n)
    PROVE  RoundInv'
<1> USE DEF hubVars, catchVars, regVars, nodeVars
<1>1. HubTypes'
  BY RoundBounds DEF LinkBreaks, RoundInv, HubTypes
<1>2. NodeTypes'
  BY DEF LinkBreaks, RoundInv, NodeTypes
<1>3. RoundOrder'
  BY DEF LinkBreaks, RoundInv, RoundOrder
<1> QED
  BY <1>1, <1>2, <1>3 DEF RoundInv

LEMMA RestingKeeps ==
    ASSUME RoundInv, Resting
    PROVE  RoundInv'
<1> USE StageNames, RoundBounds, ReleaseIsAVersion
<1> USE DEF Resting, hubVars, catchVars, regVars, nodeVars, netVars, vars
<1>1. HubTypes'
  BY AckStages, SetNodeStageAdvances DEF RoundInv, HubTypes, NodeTypes, RoundOrder, Rounds, Versions, Unknown, Acks, Frames
<1>2. NodeTypes'
  BY DEF RoundInv, NodeTypes
<1>3. RoundOrder'
  BY AckStages, SetNodeStageAdvances DEF RoundInv, HubTypes, NodeTypes, RoundOrder, Orders, NoJob, Rounds, Versions
<1> QED
  BY <1>1, <1>2, <1>3 DEF RoundInv

\* Every step of the system keeps the invariant.
LEMMA RoundNext == RoundInv /\ [Next]_vars => RoundInv'
<1> SUFFICES ASSUME RoundInv, [Next]_vars PROVE RoundInv'
  OBVIOUS
<1>1. CASE StartFullRound \/ StartCatchUp \/ Resting
  BY <1>1, StartFullRoundKeeps, StartCatchUpKeeps, RestingKeeps
<1>2. CASE RoundStep
  BY <1>2, PickCandidatesKeeps, OrderNodeKeeps, HandleReplyKeeps, OrdersDoneKeeps,
     WaitNodesSettledKeeps, PollKeeps, HubKeptKeeps, HubUnloadsKeeps, HubLoadsKeeps
     DEF RoundStep
<1>3. CASE Deadlines \/ MinutePasses
  BY <1>3, StageDeadlineKeeps, RejoinDeadlineKeeps, MinutePassesKeeps DEF Deadlines
<1>4. ASSUME NEW n \in Nodes, ConnectionStep(n)
      PROVE  RoundInv'
  BY <1>4, ReadFrameKeeps, UnregisterKeeps, RegisterKeeps DEF ConnectionStep
<1>5. ASSUME NEW n \in Nodes, NodeStep(n) \/ LinkBreaks(n)
      PROVE  RoundInv'
  BY <1>5, ReadOrderKeeps, PrepareKeeps, NodeKeptKeeps, NodeUnloadsKeeps, NodeLoadsKeeps,
     LinkBreaksKeeps DEF NodeStep
<1>6. CASE UNCHANGED vars
  BY <1>6 DEF vars, hubVars, catchVars, regVars, nodeVars, netVars, RoundInv, HubTypes,
     NodeTypes, RoundOrder
<1> QED
  BY <1>1, <1>2, <1>3, <1>4, <1>5, <1>6 DEF Next

\* The state of the hub and of its nodes keeps its types: at most one
\* acknowledgement is awaited, and what is under way belongs to a round
\* (update/update_round.py).
THEOREM RoundTypes == Spec => []TypeOK
<1>1. RoundInv => TypeOK
  <2> SUFFICES ASSUME RoundInv PROVE TypeOK
    OBVIOUS
  <2>1. Cardinality(cur) \in {0, 1}
    <3>1. CASE cur = {}
      BY <3>1, FS_EmptySet
    <3>2. CASE cur # {}
      BY <3>2, FS_Singleton DEF RoundInv, RoundOrder
    <3> QED
      BY <3>1, <3>2
  <2> QED
    BY <2>1 DEF RoundInv, HubTypes, NodeTypes, TypeOK
<1> QED
  BY <1>1, RoundInit, RoundNext, PTL DEF Spec

-----------------------------------------------------------------------------
(* Verdicts. *)

\* A step that is not the first one of a round, and does not load or unload
\* the hub, lowers no stage: what is not a verdict on an ordered node goes
\* through _set_node_stage.
LEMMA StageSteps ==
    ASSUME RoundInv, [Next]_vars, round'.id = round.id, hubUp' = hubUp
    PROVE  \A m \in Nodes : StageRank[stage'[m]] >= StageRank[stage[m]]
<1> DEFINE Up == \A m \in Nodes : StageRank[stage'[m]] >= StageRank[stage[m]]
<1>1. stage \in [Nodes -> Stages]
  BY DEF RoundInv, HubTypes
<1>2. CASE stage' = stage
  BY <1>1, <1>2, RankIsNat
<1>3. ~StartFullRound
  BY RoundBounds DEF StartFullRound, BeginRound, RoundInv, HubTypes
<1>4. CASE StartCatchUp
  BY <1>2, <1>4, RoundBounds DEF StartCatchUp, BeginRound, RoundInv, HubTypes, hubVars
<1>5. ASSUME NEW n \in Nodes, OrderNode(n)
      PROVE  Up
  <2>1. stage[n] = "none"
    BY <1>5 DEF OrderNode, RoundInv, RoundOrder
  <2>2. \E s \in Stages : stage' = [stage EXCEPT ![n] = s]
    BY <1>5, StageNames DEF OrderNode
  <2> QED
    BY <1>1, <2>1, <2>2, RankIsNat, Ranks
<1>6. CASE HandleReply
  <2>1. PICK n \in cur : stage' = SetNodeStage(n, AckStage[slot])
    BY <1>6 DEF HandleReply
  <2>2. n \in Nodes /\ AckStage[slot] \in Stages
    BY AckStages DEF RoundInv, HubTypes
  <2> QED
    BY <1>1, <2>1, <2>2, SetNodeStageAdvances
<1>7. ASSUME NEW late \in SUBSET Nodes, NEW s \in Stages,
             stage' = [n \in Nodes |-> IF n \in late THEN SetNodeStage(n, s)[n] ELSE stage[n]]
      PROVE  Up
  BY <1>1, <1>7, SetNodeStageAdvances, RankIsNat
<1>8. CASE Deadlines
  <2>1. CASE StageDeadline
    BY <1>7, <2>1, StageNames DEF StageDeadline, Ordered
  <2>2. CASE RejoinDeadline
    BY <1>7, <2>2, StageNames DEF RejoinDeadline, RoundInv, HubTypes
  <2> QED
    BY <1>8, <2>1, <2>2 DEF Deadlines
<1>9. CASE HubLoads
  BY <1>9 DEF HubLoads, RoundInv, RoundOrder
<1>10. ASSUME NEW n \in Nodes, ReadFrame(n)
       PROVE  Up
  <2> DEFINE f == Head(upward[n])
  <2>1. f \in Frames
    BY <1>10, HeadOfFrames DEF ReadFrame, RoundInv
  <2>2. f.kind # "ack" => f.says \in Stages
    BY <2>1, StageNames DEF Frames
  <2>3. stage' = stage \/ (f.kind # "ack" /\ stage' = SetNodeStage(n, f.says))
    BY <1>10 DEF ReadFrame
  <2> HIDE DEF f
  <2> QED
    BY <1>1, <1>2, <2>2, <2>3, SetNodeStageAdvances
<1>11. CASE Resting \/ MinutePasses \/ PickCandidates \/ OrdersDone \/ WaitNodesSettled
            \/ Poll \/ HubKept \/ HubUnloads
  BY <1>2, <1>11 DEF Resting, MinutePasses, PickCandidates, PickFrom, OrdersDone,
     WaitNodesSettled, Poll, HubKept, HubUnloads, vars, hubVars
<1>12. ASSUME NEW n \in Nodes, Unregister(n) \/ Register(n) \/ NodeStep(n) \/ LinkBreaks(n)
       PROVE  Up
  <2>1. stage' = stage
    BY <1>12 DEF Unregister, Register, NodeStep, LinkBreaks, ReadOrder, Prepare, NodeKept,
       NodeUnloads, NodeLoads, NodeOnly, hubVars
  <2> QED
    BY <1>2, <2>1
<1>13. CASE UNCHANGED vars
  BY <1>2, <1>13 DEF vars, hubVars
<1> HIDE DEF Up
<1>14. Up
  BY <1>2, <1>3, <1>4, <1>5, <1>6, <1>8, <1>9, <1>10, <1>11, <1>12, <1>13
     DEF Next, RoundStep, ConnectionStep, Deadlines, Up
<1> QED
  BY <1>14 DEF Up

\* A verdict on a node is final, in whatever order acknowledgements, reports
\* and deadlines come (_set_node_stage): for any number of nodes and rounds.
THEOREM VerdictsStand == Spec => StagesAdvance
<1>1. RoundInv /\ [Next]_vars =>
        [round'.id = round.id /\ hubUp' = hubUp =>
           \A n \in Nodes : StageRank[stage'[n]] >= StageRank[stage[n]]]_vars
  BY StageSteps
<1> QED
  BY <1>1, RoundInit, RoundNext, PTL DEF Spec, StagesAdvance

-----------------------------------------------------------------------------
(* Who is at work on what. *)

\* The round's order is on its way to a node.
OrderDown(n) == \E i \in DOMAIN down[n] : down[n][i].id = round.id

\* A node may still replace its plugin for the round.
Busy(n) == OrderDown(n) \/ AtWork(n)

\* Nothing of the round is at the node, or on the way to it or from it.
Untouched(n) == ~Busy(n) /\ \A i \in DOMAIN upward[n] : upward[n][i].id # round.id

\* Frames that end the work on an order, or say that it did not begin.
Closing == {"already", "refused", "failed"}

\* What is under way belongs to this round or to an earlier one.
NothingFromTheFuture ==
    \A n \in Nodes :
        /\ worker[n] # "none" => job[n].id <= round.id
        /\ \A i \in DOMAIN down[n] : down[n][i].id <= round.id
        /\ \A i \in DOMAIN upward[n] : upward[n][i].id <= round.id

\* Every round orders the release, so nobody who runs it is ever at work, and
\* whoever is known to run it still does.
OnlyTheRelease ==
    /\ hubVersion \in {1, Release}
    /\ catchup => hubVersion = Release
    /\ round.version \in {Unknown, Release}
    /\ slot = "already" => \A n \in cur : nodeVersion[n] = Release
    /\ \A n \in Nodes :
          /\ worker[n] # "none" => job[n].version = Release /\ nodeVersion[n] # Release
          /\ \A i \in DOMAIN down[n] : down[n][i].version = Release
          /\ reg[n] = Release => nodeVersion[n] = Release
          /\ \A i \in DOMAIN upward[n] :
                upward[n][i].says = "already" => nodeVersion[n] = Release
          /\ n \in already => nodeVersion[n] = Release

\* A node is ordered once in a round: an order that is still on its way has
\* no twin, nobody works on it, and nothing was said about it.
OrderedOnce ==
    \A n \in Nodes : \A i \in DOMAIN down[n] :
        /\ \A j \in DOMAIN down[n] : down[n][i].id = down[n][j].id => i = j
        /\ worker[n] # "none" => job[n].id # down[n][i].id
        /\ \A j \in DOMAIN upward[n] : upward[n][j].id # down[n][i].id

\* After the last word about an order nobody works on it.
LastWords ==
    \A n \in Nodes : worker[n] # "none" =>
        \A i \in DOMAIN upward[n] :
            upward[n][i].says \in Closing => upward[n][i].id # job[n].id

\* What a stage says about the node, while the round is known to the hub.
StageMeans(n) ==
    /\ stage[n] \in {"none", "unsupported"} => Untouched(n)
    /\ stage[n] = "failed" /\ n \notin excused => ~Busy(n)
    /\ stage[n] \in {"accepted", "staged"} => ~OrderDown(n)

\* What the awaited reply says about the node.
ReplyMeans ==
    \A n \in cur :
        /\ slot \in Acks => ~OrderDown(n)
        /\ slot = "refused" => ~AtWork(n)

StagesMeanIt ==
    /\ round.version # Unknown => ReplyMeans /\ \A n \in Nodes : StageMeans(n)
    /\ \A n \in Nodes : stage[n] = "stale" => n \in excused

\* What the round has waited for.
Waited ==
    /\ pc # "rejoin" => watched = {}
    /\ pc = "rejoin" =>
          \A n \in Nodes \ excused : stage[n] \notin {"pending", "accepted", "timeout"}
    /\ watched # {} =>
          \A n \in Nodes \ (watched \cup excused) :
             ~Busy(n) /\ (stage[n] = "staged" => nodeVersion[n] = Release)
    /\ pc = "apply" => \A n \in Nodes \ excused : ~Busy(n)

LastInv ==
    /\ NothingFromTheFuture /\ OnlyTheRelease /\ OrderedOnce /\ LastWords
    /\ StagesMeanIt /\ Waited

\* A message that was sent joins the ones before it; one that is read leaves
\* the others.
LEMMA AppendedMessages ==
    ASSUME NEW S, NEW s \in Seq(S), NEW e \in S
    PROVE  \A i \in DOMAIN Append(s, e) :
              \/ i \in DOMAIN s /\ Append(s, e)[i] = s[i]
              \/ i = Len(s) + 1 /\ i \notin DOMAIN s /\ Append(s, e)[i] = e
  OBVIOUS

LEMMA RemainingMessages ==
    ASSUME NEW S, NEW s \in Seq(S), s # <<>>
    PROVE  /\ 1 \in DOMAIN s /\ Head(s) = s[1]
           /\ \A i \in DOMAIN Tail(s) :
                 i + 1 \in DOMAIN s /\ i + 1 # 1 /\ i \in Nat /\ Tail(s)[i] = s[i + 1]
  OBVIOUS

\* What is on the wire, and the work on it.
WireInv == NothingFromTheFuture /\ OrderedOnce /\ LastWords

\* Messages and jobs are well-formed.
LEMMA MessagesAreTyped ==
    ASSUME RoundInv, NEW n \in Nodes
    PROVE  /\ worker[n] # "none" => job[n].id \in Rounds /\ job[n].version \in Versions
           /\ \A i \in DOMAIN down[n] :
                 down[n][i] \in Orders /\ down[n][i].id \in Rounds
           /\ \A i \in DOMAIN upward[n] :
                 /\ upward[n][i] \in Frames /\ upward[n][i].id \in Rounds
                 /\ upward[n][i].says \in Acks \cup {"staged", "failed"}
<1>1. down[n] \in Seq(Orders) /\ upward[n] \in Seq(Frames)
  BY DEF RoundInv, NodeTypes
<1>2. /\ \A i \in DOMAIN down[n] : down[n][i] \in Orders
      /\ \A i \in DOMAIN upward[n] : upward[n][i] \in Frames
  BY <1>1
<1>3. \A f \in Frames : f.id \in Rounds /\ f.says \in Acks \cup {"staged", "failed"}
  BY DEF Frames
<1>4. \A o \in Orders : o.id \in Rounds
  BY DEF Orders
<1> QED
  BY <1>2, <1>3, <1>4, JobsOfWorkers

\* The step gives no node work that it was not ordered to do.
Calm(n) ==
    /\ OrderDown(n)' => OrderDown(n)
    /\ AtWork(n)' => Busy(n)
    /\ Untouched(n) => Untouched(n)'

\* The step has nothing to do with the work of a node.
SameWork(n) ==
    /\ OrderDown(n)' <=> OrderDown(n)
    /\ AtWork(n)' <=> AtWork(n)
    /\ Busy(n)' <=> Busy(n)
    /\ Untouched(n)' <=> Untouched(n)

LEMMA CalmWhenUnchanged ==
    ASSUME UNCHANGED <<worker, job, down, upward>>, round'.id = round.id
    PROVE  \A n \in Nodes : SameWork(n)
  BY DEF SameWork, OrderDown, AtWork, Busy, Untouched

LEMMA WireWhenUnchanged ==
    ASSUME WireInv, UNCHANGED <<worker, job, down, upward>>, round'.id = round.id
    PROVE  WireInv'
  BY DEF WireInv, NothingFromTheFuture, OrderedOnce, LastWords

\* What the hub knows stays true while the nodes are calm.
LEMMA MeaningKept ==
    ASSUME StagesMeanIt, Waited, UNCHANGED <<pc, round, stage, cur, watched, excused>>,
           slot' \in {slot, "dropped"},
           \A n \in Nodes : Calm(n) /\ (nodeVersion[n] = Release => nodeVersion'[n] = Release),
           cur \in SUBSET Nodes
    PROVE  StagesMeanIt' /\ Waited'
<1>1. \A n \in Nodes : Busy(n)' => Busy(n)
  BY DEF Calm, Busy
<1>2. \A n \in Nodes : StageMeans(n) => StageMeans(n)'
  BY <1>1 DEF Calm, StageMeans
<1>3. ReplyMeans => ReplyMeans'
  BY DEF Calm, ReplyMeans, Busy, Acks
<1>4. StagesMeanIt'
  BY <1>2, <1>3 DEF StagesMeanIt
<1>5. Waited'
  BY <1>1 DEF Waited
<1> QED
  BY <1>4, <1>5

LEMMA LastInit == Init => LastInv
<1> SUFFICES ASSUME Init PROVE LastInv
  OBVIOUS
<1>1. round.id = 0 /\ round.version = Unknown
  BY DEF Init, NoRound
<1>2. \A n \in Nodes : down[n] = <<>> /\ upward[n] = <<>> /\ worker[n] = "none"
  BY DEF Init
<1>3. \A n \in Nodes : reg[n] = 0
  BY DEF Init, NothingRead, Unknown
<1>4. WireInv
  BY <1>2 DEF WireInv, NothingFromTheFuture, OrderedOnce, LastWords
<1>5. OnlyTheRelease
  BY <1>1, <1>2, <1>3, ReleaseIsAVersion DEF Init, OnlyTheRelease
<1>6. StagesMeanIt
  BY <1>1 DEF Init, StagesMeanIt
<1>7. Waited
  BY DEF Init, Waited
<1> QED
  BY <1>4, <1>5, <1>6, <1>7 DEF LastInv, WireInv

-----------------------------------------------------------------------------
(* The steps of the hub. *)

\* A round begins with an id that nothing carries yet.
LEMMA BeginRoundLasts ==
    ASSUME RoundInv, LastInv, NEW full \in BOOLEAN, BeginRound(Release, full), cur = {},
           UNCHANGED <<worker, job, down, upward, reg, nodeVersion>>,
           catchup' => catchup
    PROVE  LastInv'
<1>1. round.id \in Nat /\ round'.id = round.id + 1 /\ round'.version = Release
  BY DEF RoundInv, HubTypes, BeginRound
<1>2. WireInv'
  <2>1. NothingFromTheFuture'
    <3>1. \A n \in Nodes :
            /\ worker[n] # "none" => job[n].id \in Nat
            /\ \A i \in DOMAIN down[n] : down[n][i].id \in Nat
            /\ \A i \in DOMAIN upward[n] : upward[n][i].id \in Nat
      BY MessagesAreTyped DEF Rounds
    <3> QED
      BY <1>1, <3>1 DEF LastInv, NothingFromTheFuture
  <2>2. OrderedOnce' /\ LastWords'
    BY DEF LastInv, OrderedOnce, LastWords
  <2> QED
    BY <2>1, <2>2 DEF WireInv
<1>3. OnlyTheRelease'
  <2>1. /\ UNCHANGED <<worker, job, down, upward, reg, nodeVersion, hubVersion, cur>>
        /\ already' = {}
    BY DEF BeginRound
  <2>2. /\ hubVersion' \in {1, Release}
        /\ catchup' => hubVersion' = Release
        /\ round'.version \in {Unknown, Release}
    BY <1>1, <2>1 DEF LastInv, OnlyTheRelease
  <2>3. \A n \in Nodes :
          /\ worker[n] # "none" => job[n].version = Release /\ nodeVersion[n] # Release
          /\ \A i \in DOMAIN down[n] : down[n][i].version = Release
          /\ reg[n] = Release => nodeVersion[n] = Release
          /\ \A i \in DOMAIN upward[n] :
                upward[n][i].says = "already" => nodeVersion[n] = Release
    BY DEF LastInv, OnlyTheRelease
  <2> QED
    BY <2>1, <2>2, <2>3 DEF OnlyTheRelease
<1>4. \A n \in Nodes : Untouched(n)'
  BY <1>1 DEF LastInv, NothingFromTheFuture, Untouched, Busy, OrderDown, AtWork
<1>5. StagesMeanIt'
  <2>1. \A n \in Nodes : stage'[n] = "none"
    BY DEF BeginRound
  <2>2. \A n \in Nodes : StageMeans(n)'
    BY <1>4, <2>1 DEF StageMeans
  <2>3. ReplyMeans'
    BY DEF BeginRound, ReplyMeans
  <2> QED
    BY <2>1, <2>2, <2>3 DEF StagesMeanIt
<1>6. Waited'
  BY DEF BeginRound, Waited
<1> QED
  BY <1>2, <1>3, <1>5, <1>6 DEF LastInv, WireInv

\* Nobody awaits an acknowledgement before the round has begun.
LEMMA NoReplyAwaited == RoundInv /\ pc # "ack" => cur = {}
  BY DEF RoundInv, RoundOrder

LEMMA StartFullRoundLasts ==
    ASSUME RoundInv, LastInv, StartFullRound
    PROVE  LastInv'
<1> QED
  BY NoReplyAwaited, BeginRoundLasts
     DEF StartFullRound, nodeVars, netVars, regVars, catchVars

LEMMA StartCatchUpLasts ==
    ASSUME RoundInv, LastInv, StartCatchUp
    PROVE  LastInv'
<1> USE DEF nodeVars, netVars, regVars, catchVars, hubVars
<1>1. CASE pc = "idle" /\ BeginRound(hubVersion, FALSE)
  <2>1. BeginRound(Release, FALSE)
    BY <1>1 DEF StartCatchUp, LastInv, OnlyTheRelease
  <2> QED
    BY <1>1, <2>1, NoReplyAwaited, BeginRoundLasts DEF StartCatchUp
<1>2. CASE UNCHANGED <<hubVars, excused>>
  <2>1. WireInv'
    BY <1>2, WireWhenUnchanged DEF StartCatchUp, LastInv, WireInv
  <2>2. OnlyTheRelease'
    BY <1>2 DEF StartCatchUp, LastInv, OnlyTheRelease
  <2>3. \A n \in Nodes : Calm(n)
    BY <1>2, CalmWhenUnchanged DEF StartCatchUp, Calm, SameWork, Busy
  <2>4. StagesMeanIt' /\ Waited'
    BY <1>2, <2>3, MeaningKept DEF StartCatchUp, LastInv, RoundInv, HubTypes
  <2> QED
    BY <2>1, <2>2, <2>4 DEF LastInv, WireInv
<1> QED
  BY <1>1, <1>2 DEF StartCatchUp

\* The steps of a round that send nothing.
LEMMA HubStepLasts ==
    ASSUME RoundInv, LastInv,
           UNCHANGED <<worker, job, down, upward, nodeVersion, reg, hubVersion, catchup>>,
           round'.id = round.id, round'.version = round.version,
           slot' = "none" \/ UNCHANGED <<slot, cur>>,
           \A n \in already' : n \in already \/ nodeVersion[n] = Release
    PROVE  /\ WireInv' /\ OnlyTheRelease'
           /\ \A n \in Nodes : SameWork(n)
           /\ UNCHANGED <<slot, cur>> /\ ReplyMeans => ReplyMeans'
<1>1. WireInv'
  BY WireWhenUnchanged DEF LastInv, WireInv
<1>2. OnlyTheRelease'
  BY DEF LastInv, OnlyTheRelease
<1>3. \A n \in Nodes : SameWork(n)
  BY CalmWhenUnchanged
<1>4. cur \in SUBSET Nodes
  BY DEF RoundInv, HubTypes
<1>5. UNCHANGED <<slot, cur>> /\ ReplyMeans => ReplyMeans'
  BY <1>3, <1>4 DEF ReplyMeans, SameWork
<1> QED
  BY <1>1, <1>2, <1>3, <1>5

LEMMA PickCandidatesLasts ==
    ASSUME RoundInv, LastInv, PickCandidates
    PROVE  LastInv'
<1> USE DEF PickCandidates, PickFrom, HubOnly, nodeVars, netVars, regVars, catchVars
<1>1. /\ WireInv' /\ OnlyTheRelease'
      /\ \A n \in Nodes : SameWork(n)
  BY HubStepLasts
<1>2. StagesMeanIt'
  <2>1. cur' = {} /\ stage' = stage /\ excused' = excused /\ round' = round
    BY NoReplyAwaited
  <2>2. \A n \in Nodes : StageMeans(n) => StageMeans(n)'
    BY <1>1, <2>1 DEF StageMeans, SameWork
  <2>3. ReplyMeans'
    BY <2>1 DEF ReplyMeans, SameWork
  <2> QED
    BY <2>1, <2>2, <2>3 DEF LastInv, StagesMeanIt
<1>3. round.version # Unknown /\ \A n \in Nodes : stage[n] = "none"
  BY ReleaseIsAVersion DEF RoundInv, RoundOrder, Versions, Unknown
<1>4. \A n \in Nodes : ~Busy(n)
  BY <1>3 DEF LastInv, StagesMeanIt, StageMeans, Untouched, SameWork
<1>5. Waited'
  BY <1>1, <1>4 DEF LastInv, Waited, AfterRound, SameWork
<1> QED
  BY <1>1, <1>2, <1>5 DEF LastInv, WireInv

\* An ordered node gets one message, about a round that nothing else there
\* carries.
LEMMA OrderNodeLasts ==
    ASSUME RoundInv, LastInv, NEW n \in Nodes, OrderNode(n)
    PROVE  LastInv'
<1> DEFINE order == [id |-> round.id, version |-> round.version]
<1> USE DEF catchVars, regVars, nodeVars, netVars, HubOnly
<1>1. /\ round.version = Release /\ order \in Orders
      /\ stage[n] = "none" /\ stage \in [Nodes -> Stages]
  BY ReleaseIsAVersion
     DEF OrderNode, LastInv, OnlyTheRelease, RoundInv, HubTypes, RoundOrder, Orders, Versions, Unknown
<1>2. Untouched(n)
  BY <1>1, ReleaseIsAVersion DEF LastInv, StagesMeanIt, StageMeans, Unknown, SameWork
<1>3. cur = {} /\ watched = {} /\ pc = "order"
  BY NoReplyAwaited DEF OrderNode, LastInv, Waited, SameWork
<1>4. CASE UNCHANGED <<pc, cur, slot, netVars, blind>>
  <2>1. /\ WireInv' /\ OnlyTheRelease'
        /\ \A m \in Nodes : SameWork(m)
    BY <1>4, HubStepLasts DEF OrderNode
  <2>2. /\ stage'[n] \in {"unsupported", "failed"}
        /\ \A m \in Nodes \ {n} : stage'[m] = stage[m]
    BY <1>1, <1>4 DEF OrderNode
  <2>3. StageMeans(n)'
    BY <1>2, <2>1, <2>2 DEF StageMeans, Untouched, SameWork
  <2>4. \A m \in Nodes \ {n} : StageMeans(m) => StageMeans(m)'
    BY <2>1, <2>2 DEF OrderNode, StageMeans, SameWork
  <2>5. StagesMeanIt'
    BY <1>1, <1>3, <1>4, <2>2, <2>3, <2>4, ReleaseIsAVersion
       DEF OrderNode, LastInv, StagesMeanIt, ReplyMeans, Unknown, SameWork
  <2>6. Waited'
    BY <1>3, <1>4 DEF OrderNode, Waited, SameWork
  <2> QED
    BY <2>1, <2>5, <2>6 DEF LastInv, WireInv
<1>5. CASE /\ pc' = "ack" /\ cur' = {n} /\ slot' = "none"
           /\ down' = [down EXCEPT ![n] = IF link[n] = "up" THEN Append(@, order) ELSE @]
           /\ UNCHANGED <<link, upward>>
           /\ stage' = [stage EXCEPT ![n] = "pending"]
  <2> DEFINE New(m, i) == m = n /\ i \notin DOMAIN down[m] /\ down'[m][i] = order
  <2>1. /\ \A m \in Nodes : \A i \in DOMAIN down'[m] :
              \/ i \in DOMAIN down[m] /\ down'[m][i] = down[m][i]
              \/ New(m, i) /\ i = Len(down[m]) + 1
        /\ \A m \in Nodes \ {n} : down'[m] = down[m]
    <3>1. down[n] \in Seq(Orders) /\ down \in [Nodes -> Seq(Orders)]
      BY DEF RoundInv, NodeTypes
    <3>2. \A m \in Nodes \ {n} : down'[m] = down[m]
      BY <1>5, <3>1
    <3>3. down'[n] = down[n] \/ down'[n] = Append(down[n], order)
      BY <1>5, <3>1
    <3> HIDE DEF order
    <3>4. CASE down'[n] = Append(down[n], order)
      <4>1. \A i \in DOMAIN Append(down[n], order) :
              \/ i \in DOMAIN down[n] /\ Append(down[n], order)[i] = down[n][i]
              \/ /\ i = Len(down[n]) + 1 /\ i \notin DOMAIN down[n]
                 /\ Append(down[n], order)[i] = order
        BY <1>1, <3>1, AppendedMessages
      <4> QED
        BY <3>2, <3>4, <4>1
    <3>5. CASE down'[n] = down[n]
      BY <3>2, <3>5
    <3> QED
      BY <3>3, <3>4, <3>5
  <2>2. /\ order.id = round.id /\ order.version = Release
        /\ UNCHANGED <<round, worker, job, upward, nodeVersion, reg, hubVersion, catchup, already,
                       excused, watched>>
    BY <1>1, <1>5 DEF OrderNode
  <2>3. /\ \A i \in DOMAIN down[n] : down[n][i].id # round.id
        /\ \A i \in DOMAIN upward[n] : upward[n][i].id # round.id
        /\ worker[n] # "none" => job[n].id # round.id
    BY <1>2, MessagesAreTyped
       DEF Untouched, Busy, OrderDown, AtWork, OrderNode, RoundInv, RoundOrder, Rounds, SameWork
  <2> HIDE DEF order
  <2>4. NothingFromTheFuture'
    BY <2>1, <2>2 DEF LastInv, NothingFromTheFuture, RoundInv, HubTypes
  <2>5. OrderedOnce'
    BY <2>1, <2>2, <2>3 DEF LastInv, OrderedOnce
  <2>6. LastWords'
    BY <2>2 DEF LastInv, LastWords
  <2>7. OnlyTheRelease'
    BY <1>5, <2>1, <2>2 DEF LastInv, OnlyTheRelease
  <2>8. \A m \in Nodes \ {n} : StageMeans(m) => StageMeans(m)'
    BY <1>1, <1>5, <2>1, <2>2
       DEF StageMeans, Untouched, Busy, OrderDown, AtWork, SameWork
  <2>9. StagesMeanIt'
    <3>1. stage'[n] = "pending" /\ \A m \in Nodes \ {n} : stage'[m] = stage[m]
      BY <1>1, <1>5
    <3>2. StageMeans(n)'
      BY <3>1 DEF StageMeans, SameWork
    <3>3. ReplyMeans'
      BY <1>5 DEF ReplyMeans, Acks, SameWork
    <3> QED
      BY <2>2, <2>8, <3>1, <3>2, <3>3 DEF LastInv, StagesMeanIt
  <2>10. Waited'
    BY <1>3, <1>5, <2>2 DEF Waited, SameWork
  <2> QED
    BY <2>4, <2>5, <2>6, <2>7, <2>9, <2>10 DEF LastInv
<1> QED
  BY <1>4, <1>5 DEF OrderNode

LEMMA HandleReplyLasts ==
    ASSUME RoundInv, LastInv, HandleReply
    PROVE  LastInv'
<1> USE DEF catchVars, regVars, nodeVars, netVars, HubOnly
<1>1. PICK n \in cur :
          /\ stage' = SetNodeStage(n, AckStage[slot])
          /\ already' = IF slot = "already" THEN already \cup {n} ELSE already
          /\ excused' = IF slot = "dropped" THEN excused \cup {n} ELSE excused
  BY DEF HandleReply
<1>2. n \in Nodes /\ cur' = {} /\ round.version # Unknown /\ pc = "ack" /\ pc' = "order"
  BY ReleaseIsAVersion DEF HandleReply, RoundInv, HubTypes, RoundOrder, Versions, Unknown
<1>3. /\ WireInv' /\ OnlyTheRelease'
      /\ \A m \in Nodes : SameWork(m)
  <2>1. \A m \in already' : m \in already \/ nodeVersion[m] = Release
    BY <1>1 DEF LastInv, OnlyTheRelease
  <2> QED
    BY <2>1, HubStepLasts DEF HandleReply
<1>4. /\ stage \in [Nodes -> Stages] /\ AckStage[slot] \in Stages
      /\ slot \in Acks \cup {"none", "dropped"}
  BY AckStages DEF RoundInv, HubTypes
<1>5. /\ stage'[n] \in {stage[n], AckStage[slot]}
      /\ \A m \in Nodes \ {n} : stage'[m] = stage[m]
  BY <1>1, <1>2, <1>4 DEF SetNodeStage, Advanced
<1>6. StageMeans(n) /\ ReplyMeans /\ \A m \in excused : m \in excused'
  BY <1>1, <1>2 DEF LastInv, StagesMeanIt
<1>7. StageMeans(n)'
  <2>1. CASE stage'[n] = stage[n]
    BY <1>2, <1>3, <1>6, <2>1 DEF StageMeans, SameWork
  <2>2. CASE stage'[n] = AckStage[slot]
    <3>1. CASE slot = "accepted"
      BY <1>2, <1>3, <1>6, <2>2, <3>1 DEF StageMeans, ReplyMeans, AckStage, Acks, SameWork
    <3>2. CASE slot = "already"
      BY <1>2, <1>3, <1>6, <2>2, <3>2 DEF StageMeans, ReplyMeans, AckStage, Acks, SameWork
    <3>3. CASE slot = "refused"
      BY <1>2, <1>3, <1>6, <2>2, <3>3 DEF StageMeans, ReplyMeans, AckStage, Acks, Busy, SameWork
    <3>4. CASE slot = "none"
      BY <2>2, <3>4 DEF StageMeans, AckStage, SameWork
    <3>5. CASE slot = "dropped"
      BY <1>1, <2>2, <3>5 DEF StageMeans, AckStage, SameWork
    <3> QED
      BY <1>4, <3>1, <3>2, <3>3, <3>4, <3>5 DEF Acks
  <2> QED
    BY <1>5, <2>1, <2>2
<1>8. \A m \in Nodes \ {n} : StageMeans(m) => StageMeans(m)'
  BY <1>3, <1>5, <1>6 DEF StageMeans, SameWork
<1>9. StagesMeanIt'
  <2>1. AckStage[slot] # "stale"
    BY <1>4 DEF AckStage, Acks
  <2>2. \A m \in Nodes : stage'[m] = "stale" => m \in excused'
    BY <1>1, <1>5, <2>1 DEF LastInv, StagesMeanIt
  <2>3. ReplyMeans'
    BY <1>2 DEF ReplyMeans, SameWork
  <2> QED
    BY <1>2, <1>7, <1>8, <2>2, <2>3 DEF LastInv, StagesMeanIt
<1>10. Waited'
  BY <1>2 DEF HandleReply, LastInv, Waited, SameWork
<1> QED
  BY <1>3, <1>9, <1>10 DEF LastInv, WireInv

LEMMA OrdersDoneLasts ==
    ASSUME RoundInv, LastInv, OrdersDone
    PROVE  LastInv'
<1> USE DEF OrdersDone, HubOnly, nodeVars, netVars, regVars, catchVars
<1>1. /\ WireInv' /\ OnlyTheRelease'
      /\ \A n \in Nodes : SameWork(n)
  BY HubStepLasts
<1>2. StagesMeanIt'
  <2>1. \A n \in Nodes : StageMeans(n) => StageMeans(n)'
    BY <1>1 DEF StageMeans, SameWork
  <2>2. ReplyMeans => ReplyMeans'
    BY HubStepLasts
  <2> QED
    BY <2>1, <2>2 DEF LastInv, StagesMeanIt
<1>3. Waited'
  BY DEF LastInv, Waited, SameWork
<1> QED
  BY <1>1, <1>2, <1>3 DEF LastInv, WireInv

LEMMA WaitNodesSettledLasts ==
    ASSUME RoundInv, LastInv, WaitNodesSettled
    PROVE  LastInv'
<1> USE DEF WaitNodesSettled, HubOnly, nodeVars, netVars, regVars, catchVars
<1>1. /\ WireInv' /\ OnlyTheRelease'
      /\ \A n \in Nodes : SameWork(n)
  BY HubStepLasts
<1>2. StagesMeanIt'
  <2>1. \A n \in Nodes : StageMeans(n) => StageMeans(n)'
    BY <1>1 DEF StageMeans, SameWork
  <2>2. ReplyMeans => ReplyMeans'
    BY HubStepLasts
  <2> QED
    BY <2>1, <2>2 DEF LastInv, StagesMeanIt
<1>3. Waited'
  BY DEF LastInv, Waited, Settled, Ordered, SameWork
<1> QED
  BY <1>1, <1>2, <1>3 DEF LastInv, WireInv

LEMMA StageDeadlineLasts ==
    ASSUME RoundInv, LastInv, StageDeadline
    PROVE  LastInv'
<1> USE DEF StageDeadline, HubOnly, nodeVars, netVars, regVars, catchVars
<1>1. /\ WireInv' /\ OnlyTheRelease'
      /\ \A n \in Nodes : SameWork(n)
  BY HubStepLasts
<1> DEFINE late == {n \in Ordered : ~Settled(n)}
<1>2. \A n \in Nodes :
         /\ n \in late => stage'[n] \in {stage[n], "timeout"} /\ n \in excused'
         /\ n \notin late => stage'[n] = stage[n] /\ (n \in excused' => n \in excused)
         /\ n \in excused => n \in excused'
  BY DEF SetNodeStage, Advanced
<1>3. StagesMeanIt'
  <2>1. \A n \in Nodes : StageMeans(n) => StageMeans(n)'
    BY <1>1, <1>2 DEF StageMeans, SameWork
  <2>2. ReplyMeans => ReplyMeans'
    BY HubStepLasts
  <2> QED
    BY <1>2, <2>1, <2>2 DEF LastInv, StagesMeanIt
<1>4. Waited'
  BY <1>2 DEF LastInv, Waited, Settled, Ordered, SameWork
<1> QED
  BY <1>1, <1>3, <1>4 DEF LastInv, WireInv

\* Who is back on the version of the round is not at work on it.
LEMMA RejoinedIsIdle ==
    ASSUME RoundInv, LastInv, NEW n \in Nodes \ excused,
           pc = "rejoin", n \notin NotBack
    PROVE  ~Busy(n) /\ (stage[n] = "staged" => nodeVersion[n] = Release)
<1>1. /\ round.version = Release /\ round.version # Unknown
      /\ stage[n] \notin {"pending", "accepted", "timeout", "stale"}
      /\ StageMeans(n) /\ stage[n] \in Stages
  BY ReleaseIsAVersion
     DEF RoundInv, HubTypes, RoundOrder, Versions, Unknown, LastInv, OnlyTheRelease, StagesMeanIt, Waited, SameWork
<1>2. CASE stage[n] = "staged"
  <2>1. nodeVersion[n] = Release
    BY <1>1, <1>2 DEF NotBack, Ordered, LastInv, OnlyTheRelease
  <2>2. ~AtWork(n)
    BY <2>1 DEF LastInv, OnlyTheRelease, AtWork
  <2> QED
    BY <1>1, <1>2, <2>1, <2>2 DEF StageMeans, Busy, SameWork
<1>3. CASE stage[n] # "staged"
  BY <1>1, <1>3, StageNames DEF StageMeans, Untouched, SameWork
<1> QED
  BY <1>2, <1>3

LEMMA PollLasts ==
    ASSUME RoundInv, LastInv, Poll
    PROVE  LastInv'
<1> USE DEF Poll, HubOnly, nodeVars, netVars, regVars, catchVars
<1>1. /\ WireInv' /\ OnlyTheRelease'
      /\ \A n \in Nodes : SameWork(n)
  BY HubStepLasts
<1>2. StagesMeanIt'
  <2>1. \A n \in Nodes : StageMeans(n) => StageMeans(n)'
    BY <1>1 DEF StageMeans, SameWork
  <2>2. ReplyMeans => ReplyMeans'
    BY HubStepLasts
  <2> QED
    BY <2>1, <2>2 DEF LastInv, StagesMeanIt
<1>3. Waited'
  <2>1. NotBack \in SUBSET Nodes
    BY DEF NotBack, Ordered
  <2>2. \A n \in Nodes \ excused : n \notin NotBack =>
            ~Busy(n) /\ (stage[n] = "staged" => nodeVersion[n] = Release)
    BY RejoinedIsIdle
  <2> QED
    BY <1>1, <2>1, <2>2 DEF LastInv, Waited, AfterRound, SameWork
<1> QED
  BY <1>1, <1>2, <1>3 DEF LastInv, WireInv

LEMMA RejoinDeadlineLasts ==
    ASSUME RoundInv, LastInv, RejoinDeadline
    PROVE  LastInv'
<1> USE DEF RejoinDeadline, HubOnly, nodeVars, netVars, regVars, catchVars
<1>1. /\ WireInv' /\ OnlyTheRelease'
      /\ \A n \in Nodes : SameWork(n)
  BY HubStepLasts
<1>2. \A n \in Nodes :
         /\ n \in watched => stage'[n] \in {stage[n], "stale"} /\ n \in excused'
         /\ n \notin watched => stage'[n] = stage[n] /\ (n \in excused' => n \in excused)
         /\ n \in excused => n \in excused'
  BY DEF SetNodeStage, Advanced
<1>3. StagesMeanIt'
  <2>1. \A n \in Nodes : StageMeans(n) => StageMeans(n)'
    BY <1>1, <1>2 DEF StageMeans, SameWork
  <2>2. ReplyMeans => ReplyMeans'
    BY HubStepLasts
  <2> QED
    BY <1>2, <2>1, <2>2 DEF LastInv, StagesMeanIt
<1>4. Waited'
  BY <1>1, <1>2 DEF LastInv, Waited, AfterRound, SameWork
<1> QED
  BY <1>1, <1>3, <1>4 DEF LastInv, WireInv

LEMMA HubKeptLasts ==
    ASSUME RoundInv, LastInv, HubKept
    PROVE  LastInv'
<1> USE DEF HubKept, HubOnly, nodeVars, netVars, regVars, catchVars
<1>1. /\ WireInv' /\ OnlyTheRelease'
      /\ \A n \in Nodes : SameWork(n)
  BY HubStepLasts
<1>2. StagesMeanIt'
  <2>1. \A n \in Nodes : StageMeans(n) => StageMeans(n)'
    BY <1>1 DEF StageMeans, SameWork
  <2>2. ReplyMeans => ReplyMeans'
    BY HubStepLasts
  <2> QED
    BY <2>1, <2>2 DEF LastInv, StagesMeanIt
<1>3. Waited'
  BY DEF LastInv, Waited, SameWork
<1> QED
  BY <1>1, <1>2, <1>3 DEF LastInv, WireInv

LEMMA MinutePassesLasts ==
    ASSUME RoundInv, LastInv, MinutePasses
    PROVE  LastInv'
<1> USE DEF MinutePasses, hubVars, nodeVars, netVars, regVars, catchVars
<1>1. /\ WireInv' /\ OnlyTheRelease'
      /\ \A n \in Nodes : SameWork(n)
  BY HubStepLasts
<1>2. StagesMeanIt'
  <2>1. \A n \in Nodes : StageMeans(n) => StageMeans(n)'
    BY <1>1 DEF StageMeans, SameWork
  <2>2. ReplyMeans => ReplyMeans'
    BY HubStepLasts
  <2> QED
    BY <2>1, <2>2 DEF LastInv, StagesMeanIt
<1>3. Waited'
  BY <1>1 DEF LastInv, Waited, SameWork
<1> QED
  BY <1>1, <1>2, <1>3 DEF LastInv, WireInv

LEMMA HubUnloadsLasts ==
    ASSUME RoundInv, LastInv, HubUnloads
    PROVE  LastInv'
<1> USE DEF HubUnloads, nodeVars
<1>1. \A n \in Nodes : down'[n] = <<>> /\ upward'[n] = <<>>
  OBVIOUS
<1>2. WireInv'
  BY <1>1 DEF LastInv, WireInv, NothingFromTheFuture, OrderedOnce, LastWords
<1>3. OnlyTheRelease'
  <2>1. \A n \in Nodes : reg'[n] # Release
    BY ReleaseIsAVersion DEF Unknown
  <2> QED
    BY <1>1, <2>1 DEF LastInv, OnlyTheRelease
<1>4. \A n \in Nodes : Calm(n)
  BY <1>1 DEF Calm, Untouched, Busy, OrderDown, AtWork, SameWork
<1>5. \A n \in Nodes : StageMeans(n) => StageMeans(n)'
  BY <1>4 DEF Calm, StageMeans, Busy, SameWork
<1>6. StagesMeanIt'
  <2>1. ReplyMeans'
    BY NoReplyAwaited DEF ReplyMeans, SameWork
  <2> QED
    BY <1>5, <2>1 DEF LastInv, StagesMeanIt
<1>7. Waited'
  BY DEF LastInv, Waited, SameWork
<1> QED
  BY <1>2, <1>3, <1>6, <1>7 DEF LastInv, WireInv

LEMMA HubLoadsLasts ==
    ASSUME RoundInv, LastInv, HubLoads
    PROVE  LastInv'
<1> USE DEF HubLoads, nodeVars, netVars, regVars
<1>1. round'.id = round.id /\ round'.version = Unknown
  BY DEF NoRound
<1>2. WireInv'
  BY <1>1, WireWhenUnchanged DEF LastInv, WireInv
<1>3. OnlyTheRelease'
  <2>1. hubVersion' \in {1, Release} /\ (catchup => hubVersion' = Release)
    BY ReleaseIsAVersion DEF LastInv, OnlyTheRelease, RoundInv, RoundOrder, Versions, Unknown
  <2> QED
    BY <1>1, <2>1 DEF LastInv, OnlyTheRelease
<1>4. StagesMeanIt'
  BY <1>1 DEF StagesMeanIt
<1>5. Waited'
  BY DEF Waited, SameWork
<1> QED
  BY <1>2, <1>3, <1>4, <1>5 DEF LastInv, WireInv

-----------------------------------------------------------------------------
(* The steps of the connections and of the nodes. *)

\* Messages that are lost, read or refused, and work that ends, take nothing
\* back.
LEMMA LessUnderWay ==
    ASSUME WireInv, round' = round,
           \A n \in Nodes :
              /\ worker'[n] = "none" \/ (worker[n] # "none" /\ job'[n] = job[n])
              /\ down'[n] \in {down[n], <<>>}
              /\ \A i \in DOMAIN upward'[n] :
                    \E j \in DOMAIN upward[n] : upward'[n][i] = upward[n][j]
    PROVE  WireInv' /\ \A n \in Nodes : Calm(n)
<1>1. \A n \in Nodes : \A i \in DOMAIN down'[n] :
          down'[n] = down[n] /\ i \in DOMAIN down[n]
  OBVIOUS
<1>2. WireInv'
  BY <1>1 DEF WireInv, NothingFromTheFuture, OrderedOnce, LastWords
<1>3. \A n \in Nodes : (OrderDown(n)' => OrderDown(n)) /\ (AtWork(n)' => AtWork(n))
  BY <1>1 DEF OrderDown, AtWork
<1>4. \A n \in Nodes : Calm(n)
  BY <1>3 DEF Calm, Busy, Untouched
<1> QED
  BY <1>2, <1>4

\* The rest of a connection's messages, once the first one is read.
LEMMA ReadUpward ==
    ASSUME RoundInv, NEW n \in Nodes, upward[n] # <<>>, upward' = [upward EXCEPT ![n] = Tail(@)]
    PROVE  /\ 1 \in DOMAIN upward[n] /\ Head(upward[n]) = upward[n][1]
           /\ \A m \in Nodes : \A i \in DOMAIN upward'[m] :
                 \E j \in DOMAIN upward[m] : upward'[m][i] = upward[m][j]
<1>1. upward \in [Nodes -> Seq(Frames)] /\ upward[n] \in Seq(Frames)
  BY DEF RoundInv, NodeTypes
<1>2. /\ upward'[n] = Tail(upward[n])
      /\ \A m \in Nodes \ {n} : upward'[m] = upward[m]
  BY <1>1
<1> QED
  BY <1>1, <1>2, RemainingMessages

LEMMA ReadFrameLasts ==
    ASSUME RoundInv, LastInv, NEW n \in Nodes, ReadFrame(n)
    PROVE  LastInv'
<1> DEFINE f == upward[n][1]
<1> USE DEF catchVars, regVars, nodeVars, NotHubThread
<1>1. /\ 1 \in DOMAIN upward[n] /\ Head(upward[n]) = f
      /\ \A m \in Nodes : \A i \in DOMAIN upward'[m] :
            \E j \in DOMAIN upward[m] : upward'[m][i] = upward[m][j]
  BY ReadUpward DEF ReadFrame
<1>2. f \in Frames /\ f.says \in Acks \cup {"staged", "failed"}
  BY <1>1, MessagesAreTyped
<1>3. WireInv' /\ \A m \in Nodes : Calm(m)
  <2>1. \A m \in Nodes :
           worker'[m] = "none" \/ (worker[m] # "none" /\ job'[m] = job[m])
    BY DEF ReadFrame
  <2> QED
    BY <1>1, <2>1, LessUnderWay DEF ReadFrame, LastInv, WireInv
<1>4. \/ slot' = slot
      \/ cur = {n} /\ f.id = round.id /\ slot' = f.says /\ f.says \in Acks
  BY <1>1, <1>2 DEF ReadFrame, Frames
<1>5. \/ stage' = stage
      \/ /\ f.id = round.id /\ stage[n] # "none" /\ f.says \in {"staged", "failed"}
         /\ stage' = SetNodeStage(n, f.says)
  BY <1>1, <1>2 DEF ReadFrame, Frames, ReportCounts
<1>6. /\ f.id = round.id => ~OrderDown(n)
      /\ f.id = round.id /\ f.says \in Closing => ~AtWork(n)
      /\ f.says = "already" => nodeVersion[n] = Release
      /\ f.id = round.id => ~Untouched(n)
  BY <1>1 DEF LastInv, OrderedOnce, LastWords, OnlyTheRelease, OrderDown, AtWork, Untouched
<1> HIDE DEF f
<1>7. OnlyTheRelease'
  BY <1>1, <1>4, <1>6 DEF ReadFrame, LastInv, OnlyTheRelease
<1>8. /\ stage'[n] \in {stage[n], "staged", "failed"}
      /\ stage'[n] # stage[n] =>
            /\ f.id = round.id /\ stage'[n] = f.says
            /\ stage[n] \notin {"none", "staged", "failed", "stale"}
      /\ \A m \in Nodes \ {n} : stage'[m] = stage[m]
  <2>1. stage \in [Nodes -> Stages]
    BY DEF RoundInv, HubTypes
  <2> QED
    BY <1>5, <2>1, Ranks DEF SetNodeStage, Advanced
<1>9. round.version # Unknown => ReplyMeans' /\ \A m \in Nodes : StageMeans(m)'
  <2> SUFFICES ASSUME round.version # Unknown
               PROVE  ReplyMeans' /\ \A m \in Nodes : StageMeans(m)'
    OBVIOUS
  <2>1. ReplyMeans /\ \A m \in Nodes : StageMeans(m)
    BY DEF LastInv, StagesMeanIt
  <2>2. \A m \in Nodes : (~OrderDown(m) => ~OrderDown(m)') /\ (~Busy(m) => ~Busy(m)')
                         /\ (Untouched(m) => Untouched(m)')
    BY <1>3 DEF Calm, Busy
  <2>3. UNCHANGED <<cur, excused, already>> /\ cur \in SUBSET Nodes
    BY DEF ReadFrame, RoundInv, HubTypes
  <2>4. ReplyMeans'
    <3> SUFFICES ASSUME NEW m \in cur
                 PROVE  /\ slot' \in Acks => ~OrderDown(m)'
                        /\ slot' = "refused" => ~AtWork(m)'
      BY <2>3 DEF ReplyMeans
    <3>1. /\ slot' \in Acks => ~OrderDown(m)
          /\ slot' = "refused" => ~AtWork(m)
      BY <1>4, <1>6, <2>1 DEF ReplyMeans, Closing
    <3> QED
      BY <2>2, <2>3, <3>1 DEF Busy, Acks
  <2>5. \A m \in Nodes \ {n} : StageMeans(m)'
    BY <1>8, <2>1, <2>2, <2>3 DEF StageMeans
  <2>6. StageMeans(n)'
    <3>1. CASE stage'[n] = stage[n]
      BY <2>1, <2>2, <2>3, <3>1 DEF StageMeans
    <3>2. CASE stage'[n] # stage[n]
      BY <1>6, <1>8, <2>2, <3>2 DEF StageMeans, Closing, Busy
    <3> QED
      BY <3>1, <3>2
  <2> QED
    BY <2>4, <2>5, <2>6
<1>10. StagesMeanIt'
  BY <1>8, <1>9 DEF ReadFrame, LastInv, StagesMeanIt
<1>11. Waited'
  <2>1. \A m \in Nodes : ~Busy(m) => ~Busy(m)'
    BY <1>3 DEF Calm, Busy
  <2>2. watched # {} => stage'[n] = stage[n] \/ n \in watched \cup excused
    <3> SUFFICES ASSUME watched # {}, n \notin watched \cup excused, stage'[n] # stage[n]
                 PROVE  FALSE
      OBVIOUS
    <3>1. pc = "rejoin" /\ stage[n] \in Stages /\ round.version # Unknown
      BY ReleaseIsAVersion DEF LastInv, Waited, RoundInv, HubTypes, RoundOrder, Versions, Unknown
    <3>2. stage[n] = "unsupported"
      BY <1>8, <3>1, StageNames DEF LastInv, Waited
    <3> QED
      BY <1>6, <1>8, <3>1, <3>2 DEF LastInv, StagesMeanIt, StageMeans
  <2> QED
    BY <1>8, <2>1, <2>2 DEF ReadFrame, LastInv, Waited
<1> QED
  BY <1>3, <1>7, <1>10, <1>11 DEF LastInv, WireInv

\* A connection that ends or begins, a link that breaks and a node that
\* unloads: what was on the way is lost.
LEMMA LossesLast ==
    ASSUME RoundInv, LastInv,
           UNCHANGED <<pc, round, stage, cur, watched, excused, already, hubVersion, job, nodeVersion>>,
           slot' \in {slot, "dropped"},
           \A m \in Nodes : (worker'[m] = "none") <=> (worker[m] = "none"),
           \A m \in Nodes : down'[m] \in {down[m], <<>>} /\ upward'[m] \in {upward[m], <<>>},
           \A m \in Nodes : reg'[m] \in {reg[m], Unknown, nodeVersion[m]},
           catchup' => catchup \/ hubVersion = Release
    PROVE  LastInv'
<1>1. \A m \in Nodes : \A i \in DOMAIN upward'[m] :
          i \in DOMAIN upward[m] /\ upward'[m] = upward[m]
  OBVIOUS
<1>2. WireInv' /\ \A m \in Nodes : Calm(m)
  BY <1>1, LessUnderWay DEF LastInv, WireInv
<1>3. OnlyTheRelease'
  <2>1. \A m \in Nodes : reg'[m] = Release => nodeVersion[m] = Release
    BY ReleaseIsAVersion DEF LastInv, OnlyTheRelease, Unknown
  <2>2. \A m \in Nodes : \A i \in DOMAIN down'[m] :
            i \in DOMAIN down[m] /\ down'[m] = down[m]
    OBVIOUS
  <2> QED
    BY <1>1, <2>1, <2>2 DEF LastInv, OnlyTheRelease
<1>4. StagesMeanIt' /\ Waited'
  BY <1>2, MeaningKept DEF LastInv, RoundInv, HubTypes
<1> QED
  BY <1>2, <1>3, <1>4 DEF LastInv, WireInv

LEMMA UnregisterLasts ==
    ASSUME RoundInv, LastInv, NEW n \in Nodes, Unregister(n)
    PROVE  LastInv'
  BY LossesLast DEF Unregister, NotHubThread, nodeVars, netVars, catchVars, RoundInv, HubTypes

LEMMA RegisterLasts ==
    ASSUME RoundInv, LastInv, NEW n \in Nodes, Register(n)
    PROVE  LastInv'
<1> USE DEF NotHubThread, nodeVars, catchVars
<1>1. catchup' => catchup \/ hubVersion = Release
  <2>1. nodeVersion[n] \in 1..Newest /\ hubVersion \in {1, Release}
    BY DEF LastInv, OnlyTheRelease, RoundInv, NodeTypes, Versions
  <2>2. nodeVersion[n] < hubVersion => hubVersion = Release
    BY <2>1, ReleaseIsAVersion
  <2> QED
    BY <2>2 DEF Register
<1>2. \A m \in Nodes : reg'[m] \in {reg[m], Unknown, nodeVersion[m]}
  BY DEF Register, Announces, RoundInv, HubTypes
<1>3. \A m \in Nodes : down'[m] \in {down[m], <<>>} /\ upward'[m] \in {upward[m], <<>>}
  BY DEF Register, RoundInv, NodeTypes
<1> QED
  BY <1>1, <1>2, <1>3, LossesLast DEF Register

LEMMA NodeUnloadsLasts ==
    ASSUME RoundInv, LastInv, NEW n \in Nodes, NodeUnloads(n)
    PROVE  LastInv'
<1> USE DEF NodeOnly, hubVars, regVars, catchVars
<1>1. \A m \in Nodes : (worker'[m] = "none") <=> (worker[m] = "none")
  BY DEF NodeUnloads, RoundInv, NodeTypes
<1>2. \A m \in Nodes : down'[m] \in {down[m], <<>>} /\ upward'[m] \in {upward[m], <<>>}
  BY DEF NodeUnloads, RoundInv, NodeTypes
<1> QED
  BY <1>1, <1>2, LossesLast DEF NodeUnloads

LEMMA LinkBreaksLasts ==
    ASSUME RoundInv, LastInv, NEW n \in Nodes, LinkBreaks(n)
    PROVE  LastInv'
<1> USE DEF hubVars, regVars, catchVars, nodeVars
<1>1. \A m \in Nodes : down'[m] \in {down[m], <<>>} /\ upward'[m] \in {upward[m], <<>>}
  BY DEF LinkBreaks, RoundInv, NodeTypes
<1> QED
  BY <1>1, LossesLast DEF LinkBreaks

\* What a node sends joins what it sent before.
LEMMA SentMessages ==
    ASSUME RoundInv, NEW n \in Nodes, NEW kind, NEW id, NEW says,
           [kind |-> kind, id |-> id, says |-> says] \in Frames,
           upward' = Sent(n, kind, id, says)
    PROVE  /\ \A m \in Nodes : \A i \in DOMAIN upward'[m] :
                 \/ i \in DOMAIN upward[m] /\ upward'[m][i] = upward[m][i]
                 \/ m = n /\ upward'[m][i].id = id /\ upward'[m][i].says = says
           /\ \A m \in Nodes \ {n} : upward'[m] = upward[m]
<1> DEFINE f == [kind |-> kind, id |-> id, says |-> says]
<1>1. upward \in [Nodes -> Seq(Frames)] /\ upward[n] \in Seq(Frames)
  BY DEF RoundInv, NodeTypes
<1>2. f.id = id /\ f.says = says /\ f \in Frames
  OBVIOUS
<1>3. upward' = upward \/ upward' = [upward EXCEPT ![n] = Append(@, f)]
  BY DEF Sent
<1> HIDE DEF f
<1>4. CASE upward' = [upward EXCEPT ![n] = Append(@, f)]
  <2>1. /\ upward'[n] = Append(upward[n], f)
        /\ \A m \in Nodes \ {n} : upward'[m] = upward[m]
    BY <1>1, <1>4
  <2>2. \A i \in DOMAIN Append(upward[n], f) :
           \/ i \in DOMAIN upward[n] /\ Append(upward[n], f)[i] = upward[n][i]
           \/ Append(upward[n], f)[i] = f
    BY <1>1, <1>2, AppendedMessages
  <2> QED
    BY <1>2, <2>1, <2>2
<1> QED
  BY <1>3, <1>4

\* A report of the thread that works on an order: nothing else about the
\* order is on the way to the node, and a failure ends the work.
LEMMA ReportLasts ==
    ASSUME RoundInv, LastInv, NEW n \in Nodes, NEW says \in {"staged", "failed"},
           worker[n] # "none", upward' = Sent(n, "report", job[n].id, says),
           UNCHANGED <<hubVars, catchVars, regVars, excused, nodeVersion, down>>,
           \/ says = "failed" /\ WorkEnds(n)
           \/ says = "staged" /\ worker' = [worker EXCEPT ![n] = "install"] /\ job' = job
    PROVE  LastInv'
<1> DEFINE id == job[n].id
<1> USE DEF hubVars, catchVars, regVars
<1>1. id \in Rounds
  BY JobsOfWorkers
<1>2. /\ \A m \in Nodes : \A i \in DOMAIN upward'[m] :
            \/ i \in DOMAIN upward[m] /\ upward'[m][i] = upward[m][i]
            \/ m = n /\ upward'[m][i].id = id /\ upward'[m][i].says = says
      /\ \A m \in Nodes \ {n} : upward'[m] = upward[m]
  <2>1. [kind |-> "report", id |-> id, says |-> says] \in Frames
    BY <1>1 DEF Frames
  <2> HIDE DEF id
  <2>2. upward' = Sent(n, "report", id, says)
    BY DEF id
  <2> QED
    BY <2>1, <2>2, SentMessages
<1>3. /\ \A m \in Nodes : worker'[m] # "none" => worker[m] # "none" /\ job'[m] = job[m]
      /\ says = "failed" => worker'[n] = "none"
  BY DEF WorkEnds, RoundInv, NodeTypes
<1>4. WireInv'
  <2>1. NothingFromTheFuture' /\ LastWords'
    BY <1>2, <1>3 DEF LastInv, NothingFromTheFuture, LastWords, Closing
  <2>2. OrderedOnce'
    BY <1>2, <1>3 DEF LastInv, OrderedOnce
  <2> QED
    BY <2>1, <2>2 DEF WireInv
<1>5. OnlyTheRelease'
  BY <1>2, <1>3 DEF LastInv, OnlyTheRelease
<1>6. \A m \in Nodes : Calm(m)
  <2>1. \A m \in Nodes : (OrderDown(m)' <=> OrderDown(m)) /\ (AtWork(m)' => AtWork(m))
    BY <1>3 DEF OrderDown, AtWork
  <2>2. id = round.id => AtWork(n)
    BY <1>1 DEF AtWork, Rounds
  <2>3. \A m \in Nodes : Untouched(m) => Untouched(m)'
    BY <1>2, <2>1, <2>2 DEF Untouched, Busy
  <2> QED
    BY <2>1, <2>3 DEF Calm, Busy
<1>7. StagesMeanIt' /\ Waited'
  BY <1>6, MeaningKept DEF LastInv, RoundInv, HubTypes
<1> QED
  BY <1>4, <1>5, <1>7 DEF LastInv, WireInv

LEMMA PrepareLasts ==
    ASSUME RoundInv, LastInv, NEW n \in Nodes, Prepare(n)
    PROVE  LastInv'
  BY ReportLasts DEF Prepare, NodeOnly, hubVars, catchVars, regVars

LEMMA NodeKeptLasts ==
    ASSUME RoundInv, LastInv, NEW n \in Nodes, NodeKept(n)
    PROVE  LastInv'
  BY ReportLasts DEF NodeKept, NodeOnly, hubVars, catchVars, regVars

LEMMA NodeLoadsLasts ==
    ASSUME RoundInv, LastInv, NEW n \in Nodes, NodeLoads(n)
    PROVE  LastInv'
<1> USE DEF NodeOnly, hubVars, catchVars, regVars
<1>1. /\ worker'[n] = "none"
      /\ \A m \in Nodes \ {n} :
            worker'[m] = worker[m] /\ job'[m] = job[m] /\ nodeVersion'[m] = nodeVersion[m]
      /\ nodeVersion'[n] \in {nodeVersion[n], Release}
  BY DEF NodeLoads, WorkEnds, RoundInv, NodeTypes, LastInv, OnlyTheRelease
<1>2. WireInv' /\ \A m \in Nodes : Calm(m)
  BY <1>1, LessUnderWay DEF NodeLoads, LastInv, WireInv
<1>3. OnlyTheRelease'
  BY <1>1 DEF NodeLoads, LastInv, OnlyTheRelease
<1>4. StagesMeanIt' /\ Waited'
  BY <1>1, <1>2, MeaningKept DEF NodeLoads, LastInv, RoundInv, HubTypes
<1> QED
  BY <1>2, <1>3, <1>4 DEF LastInv, WireInv

\* A node reads its order: it answers, and may begin to work on it.
LEMMA ReadOrderLasts ==
    ASSUME RoundInv, LastInv, NEW n \in Nodes, ReadOrder(n)
    PROVE  LastInv'
<1> DEFINE o == down[n][1]
           Starts == o.version # nodeVersion[n] /\ worker[n] = "none"
<1> USE DEF NodeOnly, hubVars, catchVars, regVars
<1>1. /\ 1 \in DOMAIN down[n] /\ Head(down[n]) = o /\ o \in Orders
      /\ \A m \in Nodes \ {n} : down'[m] = down[m]
      /\ \A i \in DOMAIN down'[n] :
            i \in Nat /\ i + 1 \in DOMAIN down[n] /\ i + 1 # 1 /\ down'[n][i] = down[n][i + 1]
  <2>1. down \in [Nodes -> Seq(Orders)] /\ down[n] \in Seq(Orders) /\ down[n] # <<>>
    BY DEF ReadOrder, RoundInv, NodeTypes
  <2>2. down'[n] = Tail(down[n]) /\ \A m \in Nodes \ {n} : down'[m] = down[m]
    BY <2>1 DEF ReadOrder
  <2>3. 1 \in DOMAIN down[n] /\ Head(down[n]) = o
    BY <2>1
  <2>4. o \in Orders
    BY <2>3, MessagesAreTyped
  <2>5. \A i \in DOMAIN Tail(down[n]) :
           /\ i \in Nat /\ i + 1 \in DOMAIN down[n] /\ i + 1 # 1
           /\ Tail(down[n])[i] = down[n][i + 1]
    BY <2>1, RemainingMessages
  <2> QED
    BY <2>2, <2>3, <2>4, <2>5
<1>2. /\ o.version = Release /\ o.id \in Rounds /\ o.id <= round.id
      /\ \A i \in DOMAIN down'[n] : down'[n][i].id # o.id
      /\ worker[n] # "none" => job[n].id # o.id
      /\ \A i \in DOMAIN upward[n] : upward[n][i].id # o.id
  <2>1. \A i \in DOMAIN down[n] : down[n][i].id = o.id => i = 1
    BY <1>1 DEF LastInv, OrderedOnce
  <2> QED
    BY <1>1, <2>1, MessagesAreTyped DEF LastInv, OrderedOnce, OnlyTheRelease, NothingFromTheFuture
<1>3. PICK says \in Acks :
         /\ upward' = Sent(n, "ack", o.id, says)
         /\ says = "already" => nodeVersion[n] = Release
         /\ Starts => says = "accepted"
  BY <1>1, <1>2 DEF ReadOrder, Acks
<1>4. /\ \A m \in Nodes : \A i \in DOMAIN upward'[m] :
            \/ i \in DOMAIN upward[m] /\ upward'[m][i] = upward[m][i]
            \/ m = n /\ upward'[m][i].id = o.id /\ upward'[m][i].says = says
      /\ \A m \in Nodes \ {n} : upward'[m] = upward[m]
  <2>1. [kind |-> "ack", id |-> o.id, says |-> says] \in Frames
    BY <1>2 DEF Frames
  <2> HIDE DEF o
  <2> QED
    BY <1>3, <2>1, SentMessages
<1>5. /\ \A m \in Nodes \ {n} : worker'[m] = worker[m] /\ job'[m] = job[m]
      /\ Starts => worker'[n] # "none" /\ job'[n] = o
      /\ ~Starts => worker'[n] = worker[n] /\ job'[n] = job[n]
  BY <1>1 DEF ReadOrder, RoundInv, NodeTypes
<1>6. UNCHANGED <<round, nodeVersion, pc, stage, cur, slot, watched, excused, already, hubVersion,
                  catchup, reg>>
  BY DEF ReadOrder
<1>7. ASSUME NEW m \in Nodes, NEW i \in DOMAIN down'[m]
      PROVE  \E j \in DOMAIN down[m] : /\ down'[m][i] = down[m][j]
                                       /\ m = n => j = i + 1 /\ i \in Nat
  BY <1>1
<1> HIDE DEF o
<1>8. NothingFromTheFuture'
  BY <1>2, <1>4, <1>5, <1>6, <1>7 DEF LastInv, NothingFromTheFuture
<1>9. OrderedOnce'
  <2>1. ASSUME NEW m \in Nodes \ {n}, NEW i \in DOMAIN down'[m]
        PROVE  /\ \A j \in DOMAIN down'[m] : down'[m][i].id = down'[m][j].id => i = j
               /\ worker'[m] # "none" => job'[m].id # down'[m][i].id
               /\ \A j \in DOMAIN upward'[m] : upward'[m][j].id # down'[m][i].id
    BY <1>1, <1>4, <1>5, <2>1 DEF LastInv, OrderedOnce
  <2>2. ASSUME NEW i \in DOMAIN down'[n]
        PROVE  /\ \A j \in DOMAIN down'[n] : down'[n][i].id = down'[n][j].id => i = j
               /\ worker'[n] # "none" => job'[n].id # down'[n][i].id
               /\ \A j \in DOMAIN upward'[n] : upward'[n][j].id # down'[n][i].id
    <3>1. i \in Nat /\ i + 1 \in DOMAIN down[n] /\ down'[n][i] = down[n][i + 1]
      BY <1>1
    <3>2. \A j \in DOMAIN down'[n] : down'[n][i].id = down'[n][j].id => i = j
      <4> SUFFICES ASSUME NEW j \in DOMAIN down'[n], down'[n][i].id = down'[n][j].id
                   PROVE  i = j
        OBVIOUS
      <4>1. j \in Nat /\ j + 1 \in DOMAIN down[n] /\ down'[n][j] = down[n][j + 1]
        BY <1>1
      <4>2. i + 1 = j + 1
        BY <3>1, <4>1 DEF LastInv, OrderedOnce
      <4> QED
        BY <3>1, <4>1, <4>2
    <3>3. worker'[n] # "none" => job'[n].id # down'[n][i].id
      BY <1>2, <1>5, <3>1 DEF LastInv, OrderedOnce
    <3>4. \A j \in DOMAIN upward'[n] : upward'[n][j].id # down'[n][i].id
      BY <1>2, <1>4, <3>1 DEF LastInv, OrderedOnce
    <3> QED
      BY <3>2, <3>3, <3>4
  <2> QED
    BY <2>1, <2>2 DEF OrderedOnce
<1>10. LastWords'
  BY <1>2, <1>3, <1>4, <1>5 DEF LastInv, LastWords, Closing
<1>11. OnlyTheRelease'
  BY <1>2, <1>3, <1>4, <1>5, <1>6, <1>7 DEF LastInv, OnlyTheRelease
<1>12. \A m \in Nodes : Calm(m)
  <2>1. ASSUME NEW m \in Nodes
        PROVE  OrderDown(m)' => OrderDown(m)
    BY <1>6, <1>7 DEF OrderDown
  <2>2. o.id = round.id => OrderDown(n)
    BY <1>1 DEF OrderDown, o
  <2>3. ASSUME NEW m \in Nodes
        PROVE  AtWork(m)' => Busy(m)
    BY <1>5, <1>6, <2>2 DEF AtWork, Busy
  <2>4. ASSUME NEW m \in Nodes
        PROVE  Untouched(m) => Untouched(m)'
    BY <1>4, <1>6, <2>1, <2>2, <2>3 DEF Untouched, Busy
  <2> QED
    BY <2>1, <2>3, <2>4 DEF Calm
<1>13. StagesMeanIt' /\ Waited'
  BY <1>6, <1>12, MeaningKept DEF LastInv, RoundInv, HubTypes
<1> QED
  BY <1>8, <1>9, <1>10, <1>11, <1>13 DEF LastInv

LEMMA NothingDoneLasts ==
    ASSUME RoundInv, LastInv, UNCHANGED vars
    PROVE  LastInv'
<1> USE DEF vars, hubVars, catchVars, regVars, nodeVars, netVars
<1>1. WireInv' /\ \A n \in Nodes : SameWork(n)
  BY WireWhenUnchanged, CalmWhenUnchanged DEF LastInv, WireInv
<1>2. OnlyTheRelease'
  BY DEF LastInv, OnlyTheRelease
<1>3. StagesMeanIt' /\ Waited'
  BY <1>1, MeaningKept DEF Calm, SameWork, Busy, LastInv, RoundInv, HubTypes
<1> QED
  BY <1>1, <1>2, <1>3 DEF LastInv, WireInv

\* Every step of the system keeps the invariant.
LEMMA LastNext == RoundInv /\ LastInv /\ [Next]_vars => LastInv'
<1> SUFFICES ASSUME RoundInv, LastInv, [Next]_vars PROVE LastInv'
  OBVIOUS
<1>1. CASE StartFullRound \/ StartCatchUp \/ Resting
  BY <1>1, StartFullRoundLasts, StartCatchUpLasts, NothingDoneLasts DEF Resting
<1>2. CASE RoundStep
  BY <1>2, PickCandidatesLasts, OrderNodeLasts, HandleReplyLasts, OrdersDoneLasts,
     WaitNodesSettledLasts, PollLasts, HubKeptLasts, HubUnloadsLasts, HubLoadsLasts
     DEF RoundStep
<1>3. CASE Deadlines \/ MinutePasses
  BY <1>3, StageDeadlineLasts, RejoinDeadlineLasts, MinutePassesLasts DEF Deadlines
<1>4. ASSUME NEW n \in Nodes, ConnectionStep(n)
      PROVE  LastInv'
  BY <1>4, ReadFrameLasts, UnregisterLasts, RegisterLasts DEF ConnectionStep
<1>5. ASSUME NEW n \in Nodes, NodeStep(n) \/ LinkBreaks(n)
      PROVE  LastInv'
  BY <1>5, ReadOrderLasts, PrepareLasts, NodeKeptLasts, NodeUnloadsLasts, NodeLoadsLasts,
     LinkBreaksLasts DEF NodeStep
<1>6. CASE UNCHANGED vars
  BY <1>6, NothingDoneLasts
<1> QED
  BY <1>1, <1>2, <1>3, <1>4, <1>5, <1>6 DEF Next

LEMMA LastAlways == Spec => [](RoundInv /\ LastInv)
  BY RoundInit, RoundNext, LastInit, LastNext, PTL DEF Spec

-----------------------------------------------------------------------------
(* The hub goes last. *)

\* Only the unload of a hub that has waited takes it down.
LEMMA OnlyUnloadsTakeTheHubDown ==
    ASSUME RoundInv, [Next]_vars, hubUp, ~hubUp'
    PROVE  pc = "apply"
<1> USE DEF vars, hubVars
<1>1. CASE StartFullRound \/ StartCatchUp \/ Deadlines \/ MinutePasses \/ Resting
  BY <1>1 DEF StartFullRound, StartCatchUp, BeginRound, Deadlines, StageDeadline, RejoinDeadline,
     MinutePasses, Resting
<1>2. CASE RoundStep
  BY <1>2 DEF RoundStep, PickCandidates, PickFrom, OrderNode, HandleReply, OrdersDone,
     WaitNodesSettled, Poll, HubKept, HubUnloads, HubLoads
<1>3. ASSUME NEW n \in Nodes, ConnectionStep(n) \/ NodeStep(n) \/ LinkBreaks(n)
      PROVE  FALSE
  BY <1>3 DEF ConnectionStep, ReadFrame, Unregister, Register, NotHubThread, NodeStep, ReadOrder,
     Prepare, NodeKept, NodeUnloads, NodeLoads, NodeOnly, LinkBreaks
<1> QED
  BY <1>1, <1>2, <1>3 DEF Next

\* When the hub unloads, no node works on its order and none has it on the
\* way, unless a deadline ran out for it or its link dropped before it had
\* answered (self_update, _wait_for_cluster_update): for any number of nodes,
\* rounds and broken links.
THEOREM HubIsLast == Spec => HubGoesLast
<1>1. RoundInv /\ LastInv /\ [Next]_vars =>
        [(hubUp /\ ~hubUp') =>
           \A n \in Nodes \ excused : ~AtWork(n) /\ ~Underway(n)]_vars
  <2> SUFFICES ASSUME RoundInv, LastInv, [Next]_vars, hubUp, ~hubUp',
                      NEW n \in Nodes \ excused
               PROVE  ~AtWork(n) /\ ~Underway(n)
    OBVIOUS
  <2>1. pc = "apply"
    BY OnlyUnloadsTakeTheHubDown
  <2>2. ~Busy(n)
    BY <2>1 DEF LastInv, Waited
  <2> QED
    BY <2>2 DEF Busy, OrderDown, Underway
<1> QED
  BY <1>1, LastAlways, PTL DEF Spec, HubGoesLast

\* The wait for the nodes ends with a look at all of them, or at the deadline.
LEMMA WaitsEnd ==
    ASSUME RoundInv, [Next]_vars, pc = "rejoin", pc' # "rejoin"
    PROVE  (Poll /\ NotBack = {}) \/ RejoinDeadline
<1> USE DEF vars, hubVars
<1>1. CASE StartFullRound \/ StartCatchUp \/ StageDeadline \/ MinutePasses \/ Resting
  BY <1>1 DEF StartFullRound, StartCatchUp, StageDeadline, MinutePasses, Resting
<1>2. CASE RoundStep
  BY <1>2 DEF RoundStep, PickCandidates, PickFrom, OrderNode, HandleReply, OrdersDone,
     WaitNodesSettled, Poll, HubKept, HubUnloads, HubLoads
<1>3. ASSUME NEW n \in Nodes, ConnectionStep(n) \/ NodeStep(n) \/ LinkBreaks(n)
      PROVE  FALSE
  BY <1>3 DEF ConnectionStep, ReadFrame, Unregister, Register, NotHubThread, NodeStep, ReadOrder,
     Prepare, NodeKept, NodeUnloads, NodeLoads, NodeOnly, LinkBreaks
<1> QED
  BY <1>1, <1>2, <1>3 DEF Next, Deadlines

\* Whoever the round counts as ready when it stops waiting, and did not give
\* up on, runs the version it ordered (_report_cluster_update).
THEOREM ReadyIsReady == Spec => ReadyRunsTheVersion
<1>1. RoundInv /\ LastInv /\ [Next]_vars =>
        [pc = "rejoin" /\ pc' # "rejoin" =>
           \A n \in Ready \ excused' : nodeVersion[n] = round.version]_vars
  <2> SUFFICES ASSUME RoundInv, LastInv, [Next]_vars, pc = "rejoin", pc' # "rejoin",
                      NEW n \in Ready \ excused'
               PROVE  nodeVersion[n] = round.version
    OBVIOUS
  <2>1. n \in Nodes /\ stage[n] = "staged"
    BY DEF Ready, Ordered
  <2>2. round.version = Release
    BY ReleaseIsAVersion DEF RoundInv, RoundOrder, Versions, Unknown, LastInv, OnlyTheRelease
  <2>3. CASE Poll /\ NotBack = {}
    BY <2>1, <2>2, <2>3, RejoinedIsIdle DEF Poll
  <2>4. CASE RejoinDeadline
    BY <2>1, <2>2, <2>4 DEF RejoinDeadline, LastInv, Waited
  <2> QED
    BY <2>3, <2>4, WaitsEnd
<1> QED
  BY <1>1, LastAlways, PTL DEF Spec, ReadyRunsTheVersion

=============================================================================
