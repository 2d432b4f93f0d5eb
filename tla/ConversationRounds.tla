------------------------- MODULE ConversationRounds -------------------------
(***************************************************************************)
(* One conversation of GamesAI (a ChatParam object, ai/chat_param.py) and  *)
(* the command threads that use it at the same time:                       *)
(*                                                                         *)
(*   Plain, Forced   threads of `!!ask <q>` and `!!ask -f <q>` (ask_ai)    *)
(*   Stops           `!!ask stop` commands (ask_stop -> request_stop)      *)
(*   Relays          messages handed over by another player's assistant    *)
(*                   (send_message_to_player_ai -> add_external_message)   *)
(*   Switches        `!!ask switch <other model>` (change_model)           *)
(*   Compacts        `!!ask compact` (compact_history)                     *)
(*                                                                         *)
(* A step is one section between two acquisitions of a lock (_round_lock,  *)
(* _stop_lock, _ctx_lock), or one unlocked access: everything that another *)
(* thread can observe in between is a state of its own.  A test and the    *)
(* use that follows it under another lock are two steps; only              *)
(* add_external_message holds a lock, _ctx_lock, from one to the other.    *)
(*                                                                         *)
(* A question is identified with the thread that carries it.  Texts, time  *)
(* readings, server-change and skill notes are left out, and histories are *)
(* short: never more than KEEP_ROUNDS rounds and never near a window       *)
(* trigger, so compact_history claims and releases without scheduling, and *)
(* manage_context does nothing but the hand-off.                           *)
(***************************************************************************)
EXTENDS Naturals, Sequences, FiniteSets

CONSTANTS
    Plain, Forced, Stops, Relays, Switches, Compacts,
    MaxCalls,       \* bound: tool calls in one reply of the model
    MaxToolReplies  \* bound: replies that carry tool calls, over a behaviour

Askers  == Plain \cup Forced
Threads == Askers \cup Stops \cup Relays \cup Switches \cup Compacts
Authors == Askers \cup Relays       \* whoever writes a user message

(* The command kinds are different threads, and the bounds are numbers. *)
ASSUME KindsDisjoint ==
    /\ Plain \cap Forced = {}
    /\ Askers \cap Stops = {} /\ Askers \cap Relays = {}
    /\ Askers \cap Switches = {} /\ Askers \cap Compacts = {}
    /\ Stops \cap Relays = {} /\ Stops \cap Switches = {} /\ Stops \cap Compacts = {}
    /\ Relays \cap Switches = {} /\ Relays \cap Compacts = {}
    /\ Switches \cap Compacts = {}
ASSUME BoundsAreNumbers == MaxCalls \in Nat /\ MaxToolReplies \in Nat

VARIABLES
    roundActive,    \* _round_active, guarded by _round_lock
    pendingAsks,    \* _pending_asks, guarded by _round_lock
    isStopped,      \* the is_stopped event
    stopEpoch,      \* _stop_epoch, guarded by _stop_lock
    roundEpoch,     \* _round_epoch, guarded by _stop_lock
    responseList,   \* response_list, the history
    responseQueue,  \* response_queue, messages the next merge moves to it
    handOff,        \* messages of _pending_hand_off; << >> stands for None
    pc,             \* where each command thread is
    batch,          \* ask_ai's `pending`: questions its next round starts with
    claimedHere,    \* response_ai's claimed_here
    reply,          \* the tool calls of the reply a round is executing
    cleaned,        \* _validate_sequence's cleaned copy
    toolReplies,    \* how many replies carried tool calls (also their ids)
    \* The rest only records the past; no action reads it.
    strayRelease,   \* someone released a round that another thread owned
    stopped,        \* when a stop was accepted against a thread's round
    arrivals,       \* the order in which plain questions were queued
    forgotten       \* authors whose message a switch dropped

convVars   == <<responseList, responseQueue, handOff>>
roundVars  == <<roundActive, isStopped, pendingAsks>>
epochVars  == <<stopEpoch, roundEpoch>>
localVars  == <<batch, claimedHere, reply, cleaned, toolReplies>>
pastVars   == <<strayRelease, stopped, arrivals, forgotten>>
vars == <<convVars, roundVars, epochVars, localVars, pc, pastVars>>

-----------------------------------------------------------------------------
(* Messages of a history. *)

User(a)          == [role |-> "user", from |-> a]
Assistant(id, n) == [role |-> "assistant", id |-> id, calls |-> n]
Tool(id, c)      == [role |-> "tool", id |-> id, call |-> c]
Summary(covers)  == [role |-> "system", covers |-> covers]

Message ==
    {User(a) : a \in Authors}
      \cup {Assistant(id, n) : id \in 0..MaxToolReplies, n \in 0..MaxCalls}
      \cup {Tool(id, c) : id \in 1..MaxToolReplies, c \in 1..MaxCalls}
      \cup {Summary(S) : S \in SUBSET Authors}

\* Whose words a message carries.
Carries(m) == CASE m.role = "user"   -> {m.from}
                [] m.role = "system" -> m.covers
                [] OTHER             -> {}
CarriedBy(list) == UNION {Carries(list[i]) : i \in DOMAIN list}

\* The tool results that directly follow position i.
ResultsAfter(list, i) ==
    {j \in DOMAIN list : j > i /\ \A k \in (i + 1)..j : list[k].role = "tool"}

IsCalling(m) == m.role = "assistant" /\ m.calls > 0

Answered(list, i) ==
    {<<list[i].id, c>> : c \in 1..list[i].calls}
      \subseteq {<<list[j].id, list[j].call>> : j \in ResultsAfter(list, i)}

\* What _validate_sequence keeps: an assistant message whose calls all got
\* their result, together with the results directly behind it; any other tool
\* message only when a kept assistant message in front of it knows its id.
Keeps(list, j) ==
    LET m == list[j]
        calling == {i \in 1..(j - 1) : IsCalling(list[i])}
        group == {i \in calling : j \in ResultsAfter(list, i)}
    IN  CASE IsCalling(m) -> Answered(list, j)
          [] m.role = "tool" /\ group # {} -> \A i \in group : Answered(list, i)
          [] m.role = "tool" /\ group = {} ->
                 \E i \in calling : /\ Answered(list, i)
                                    /\ list[i].id = m.id
                                    /\ m.call <= list[i].calls
          [] OTHER -> TRUE

\* What stands in list at positions, in the same order.
Picked(list, positions) ==
    LET rank(i) == Cardinality({j \in positions : j <= i})
    IN  [k \in 1..Cardinality(positions) |-> list[CHOOSE i \in positions : rank(i) = k]]

Validated(list) == Picked(list, {i \in DOMAIN list : Keeps(list, i)})

\* _drop_unanswered_tool_call
WithoutTrailingCall(list) ==
    IF list # << >> /\ IsCalling(list[Len(list)])
    THEN SubSeq(list, 1, Len(list) - 1)
    ELSE list

-----------------------------------------------------------------------------
(* Where a thread is.  A thread that owns the round is at one of OwningPCs: *)
(* from the moment its claim succeeded until it hands the round back.       *)

RoundPCs  == {"merge", "check", "send", "wait", "answer", "tools", "run", "more",
              "abort", "validate", "replace", "leave"}
OwningPCs == RoundPCs \cup {"add", "enter", "begin", "finish",
                            "snapshot", "rewrite", "giveBack"}
PCs == OwningPCs \cup {"idle", "append", "enqueue", "release", "waitStop", "claim", "done"}

Owns(t)      == pc[t] \in OwningPCs
InRound(t)   == pc[t] \in RoundPCs          \* inside response_ai
Goto(t, l)   == pc' = [pc EXCEPT ![t] = l]
NoReply      == [id |-> 0, calls |-> 0, done |-> 0]
StopRequested == roundEpoch # stopEpoch     \* stop_requested

\* Nobody holds _ctx_lock: a relay keeps it from its test of is_stopped until
\* its message is in the history.
CtxFree == \A r \in Relays : pc[r] # "append"

\* A switch took its snapshot and is about to clear the history.
BeingCleared == \E w \in Switches : pc[w] = "rewrite"

Init ==
    /\ roundActive = FALSE
    /\ isStopped = TRUE
    /\ pendingAsks = << >>
    /\ stopEpoch = 0
    /\ roundEpoch = 0
    /\ responseList = << >>
    /\ responseQueue = << >>
    /\ handOff = << >>
    /\ pc = [t \in Threads |-> "idle"]
    /\ batch = [t \in Askers |-> << >>]
    /\ claimedHere = [t \in Askers |-> FALSE]
    /\ reply = [t \in Askers |-> NoReply]
    /\ cleaned = [t \in Askers |-> << >>]
    /\ toolReplies = 0
    /\ strayRelease = FALSE
    /\ stopped = [t \in Askers |-> "none"]
    /\ arrivals = << >>
    /\ forgotten = {}

-----------------------------------------------------------------------------
(* Round ownership. *)

\* Mutation: the test of _round_active is forgotten.
ClaimRoundUnchecked ==
    /\ roundActive' = TRUE
    /\ isStopped' = FALSE
    /\ roundEpoch' = stopEpoch

\* try_claim_round, the branch that takes the round.
ClaimRound ==
    /\ ~roundActive
    /\ roundActive' = TRUE
    /\ isStopped' = FALSE
    /\ roundEpoch' = stopEpoch

\* release_round: it does not look at who owns the round.
ReleaseRound(t) ==
    /\ roundActive' = FALSE
    /\ isStopped' = TRUE
    /\ strayRelease' = (strayRelease \/ \E u \in Threads \ {t} : Owns(u))

-----------------------------------------------------------------------------
(* ask_ai: the thread of one question. *)

AskClaims(t) ==
    /\ pc[t] = "idle"
    /\ ClaimRound
    /\ batch' = [batch EXCEPT ![t] = <<t>>]
    /\ Goto(t, "add")
    /\ UNCHANGED <<convVars, pendingAsks, stopEpoch, claimedHere, reply, cleaned,
                   toolReplies, pastVars>>

\* The claim failed; the question is queued in a later critical section.
AskFindsRound(t) ==
    /\ pc[t] = "idle"
    /\ roundActive
    /\ Goto(t, "enqueue")
    /\ UNCHANGED <<convVars, roundVars, epochVars, localVars, pastVars>>

\* forced_add_to_response_list
ForcedAdd(t) ==
    /\ pc[t] = "enqueue"
    /\ t \in Forced \cup Relays
    /\ CtxFree
    /\ responseQueue' = Append(responseQueue, User(t))
    /\ Goto(t, "done")
    /\ UNCHANGED <<responseList, handOff, roundVars, epochVars, localVars, pastVars>>

\* Mutation: the newest question is put in front.
QueuePendingAskFirst(t) ==
    /\ pc[t] = "enqueue"
    /\ t \in Plain
    /\ pendingAsks' = <<t>> \o pendingAsks
    /\ arrivals' = Append(arrivals, t)
    /\ Goto(t, "done")
    /\ UNCHANGED <<convVars, roundActive, isStopped, epochVars, localVars,
                   strayRelease, stopped, forgotten>>

\* queue_pending_ask
QueuePendingAsk(t) ==
    /\ pc[t] = "enqueue"
    /\ t \in Plain
    /\ pendingAsks' = Append(pendingAsks, t)
    /\ arrivals' = Append(arrivals, t)
    /\ Goto(t, "done")
    /\ UNCHANGED <<convVars, roundActive, isStopped, epochVars, localVars,
                   strayRelease, stopped, forgotten>>

\* The owner writes its batch into the history, one message at a time.
AddQuestion(t) ==
    /\ pc[t] = "add"
    /\ CtxFree
    /\ responseList' = Append(responseList, User(Head(batch[t])))
    /\ batch' = [batch EXCEPT ![t] = Tail(@)]
    /\ Goto(t, IF Len(batch[t]) = 1 THEN "enter" ELSE "add")
    /\ UNCHANGED <<responseQueue, handOff, roundVars, epochVars, claimedHere, reply,
                   cleaned, toolReplies, pastVars>>

\* response_ai takes the round for itself when nobody owns it.
EnterRound(t) ==
    /\ pc[t] = "enter"
    /\ claimedHere' = [claimedHere EXCEPT ![t] = ~roundActive]
    /\ roundActive' = TRUE
    /\ isStopped' = (isStopped /\ roundActive)
    /\ Goto(t, "begin")
    /\ UNCHANGED <<convVars, pendingAsks, epochVars, batch, reply, cleaned,
                   toolReplies, pastVars>>

\* begin_round
BeginRound(t) ==
    /\ pc[t] = "begin"
    /\ roundEpoch' = stopEpoch
    /\ Goto(t, "merge")
    /\ UNCHANGED <<convVars, roundVars, stopEpoch, localVars, pastVars>>

\* _merge_response_queue_locked
MergeQueue ==
    /\ CtxFree
    /\ responseList' = responseList \o responseQueue
    /\ responseQueue' = << >>
    /\ UNCHANGED handOff

MergeLeftover(t) ==
    /\ pc[t] = "merge"
    /\ MergeQueue
    /\ Goto(t, "check")
    /\ UNCHANGED <<roundVars, epochVars, localVars, pastVars>>

\* The checkpoint in front of every request.
CheckStop(t) ==
    /\ pc[t] = "check"
    /\ Goto(t, IF StopRequested THEN "abort" ELSE "send")
    /\ UNCHANGED <<convVars, roundVars, epochVars, localVars, pastVars>>

\* The preflight applies a pending hand-off -- the old model's summary becomes
\* the first message, or the request for it fails and the old conversation is
\* dropped -- and then the request leaves.
SendRequest(t) ==
    /\ pc[t] = "send"
    /\ handOff # << >> => CtxFree
    /\ handOff' = << >>
    /\ \/ handOff = << >> /\ UNCHANGED <<responseList, forgotten>>
       \/ /\ handOff # << >>
          /\ responseList' = <<Summary(CarriedBy(handOff))>> \o responseList
          /\ UNCHANGED forgotten
       \/ /\ handOff # << >>
          /\ forgotten' = forgotten \cup CarriedBy(handOff)
          /\ UNCHANGED responseList
    /\ Goto(t, "wait")
    /\ UNCHANGED <<responseQueue, roundVars, epochVars, localVars,
                   strayRelease, stopped, arrivals>>

\* Mutation: the stop request is not looked at when the answer arrives.
AcceptReplyThoughStopped(t) ==
    /\ pc[t] = "wait"
    /\ Goto(t, "answer")
    /\ UNCHANGED <<convVars, roundVars, epochVars, localVars, pastVars>>

\* The answer arrived and no stop was requested meanwhile: it will be used, ...
AcceptReply(t) ==
    /\ pc[t] = "wait"
    /\ ~StopRequested
    /\ Goto(t, "answer")
    /\ UNCHANGED <<convVars, roundVars, epochVars, localVars, pastVars>>

\* The step that was past its test when the stop was accepted ends here.
StepEnds(t) == stopped' = [stopped EXCEPT ![t] = IF @ = "using" THEN "running" ELSE @]

\* ... and is written down, whatever was stopped since: n tool calls or none.
ReceiveReply(t, n) ==
    /\ pc[t] = "answer"
    /\ CtxFree
    /\ LET id == IF n = 0 THEN 0 ELSE toolReplies + 1
       IN  /\ responseList' = Append(responseList, Assistant(id, n))
           /\ reply' = [reply EXCEPT ![t] = [id |-> id, calls |-> n, done |-> 0]]
    /\ toolReplies' = IF n = 0 THEN toolReplies ELSE toolReplies + 1
    /\ toolReplies' <= MaxToolReplies
    /\ StepEnds(t)
    /\ Goto(t, IF n = 0 THEN "more" ELSE "tools")
    /\ UNCHANGED <<responseQueue, handOff, roundVars, epochVars, batch, claimedHere,
                   cleaned, strayRelease, arrivals, forgotten>>

\* The answer of a stopped round is thrown away.
DiscardReply(t) ==
    /\ pc[t] = "wait"
    /\ StopRequested
    /\ Goto(t, "abort")
    /\ UNCHANGED <<convVars, roundVars, epochVars, localVars, pastVars>>

\* response_chat raises; nothing is written and _run_ai_round reports it.
RequestFails(t) ==
    /\ pc[t] = "wait"
    /\ Goto(t, "leave")
    /\ UNCHANGED <<convVars, roundVars, epochVars, localVars, pastVars>>

\* tool_call, one iteration: no stop is requested, the next call begins ...
BeginToolCall(t) ==
    /\ pc[t] = "tools"
    /\ ~StopRequested
    /\ Goto(t, "run")
    /\ UNCHANGED <<convVars, roundVars, epochVars, localVars, pastVars>>

\* ... and, as long as the tool takes, later: its result is appended.
RunToolCall(t) ==
    /\ pc[t] = "run"
    /\ CtxFree
    /\ LET c == reply[t].done + 1
       IN  /\ responseList' = Append(responseList, Tool(reply[t].id, c))
           /\ reply' = [reply EXCEPT ![t].done = c]
           /\ Goto(t, IF c = reply[t].calls THEN "more" ELSE "tools")
    /\ StepEnds(t)
    /\ UNCHANGED <<responseQueue, handOff, roundVars, epochVars, batch, claimedHere,
                   cleaned, toolReplies, strayRelease, arrivals, forgotten>>

\* tool_call, a stop was requested: the remaining calls are skipped.
SkipToolCalls(t) ==
    /\ pc[t] = "tools"
    /\ StopRequested
    /\ Goto(t, "more")
    /\ UNCHANGED <<convVars, roundVars, epochVars, localVars, pastVars>>

\* Messages queued meanwhile join the round; it goes on after tool calls or
\* when there were any.
MergeQueued(t) ==
    /\ pc[t] = "more"
    /\ MergeQueue
    /\ Goto(t, IF reply[t].calls > 0 \/ responseQueue # << >> THEN "check" ELSE "validate")
    /\ UNCHANGED <<roundVars, epochVars, localVars, pastVars>>

\* Mutation: the trailing call is dropped, but nothing is validated.
AbortRoundUnvalidated(t) ==
    /\ pc[t] = "abort"
    /\ CtxFree
    /\ responseList' = WithoutTrailingCall(responseList)
    /\ Goto(t, "leave")
    /\ UNCHANGED <<responseQueue, handOff, roundVars, epochVars, localVars, pastVars>>

\* _abort_interrupted_round, up to its _validate_sequence
AbortRound(t) ==
    /\ pc[t] = "abort"
    /\ CtxFree
    /\ responseList' = WithoutTrailingCall(responseList)
    /\ Goto(t, "validate")
    /\ UNCHANGED <<responseQueue, handOff, roundVars, epochVars, localVars, pastVars>>

\* _validate_sequence computes the cleaned copy without a lock ...
ComputeCleaned(t) ==
    /\ pc[t] = "validate"
    /\ cleaned' = [cleaned EXCEPT ![t] = Validated(responseList)]
    /\ Goto(t, "replace")
    /\ UNCHANGED <<convVars, roundVars, epochVars, batch, claimedHere, reply,
                   toolReplies, pastVars>>

\* ... and stores it when its length is not the one the history has now.
ReplaceHistory(t) ==
    /\ pc[t] = "replace"
    /\ Len(cleaned[t]) # Len(responseList) => CtxFree
    /\ responseList' = IF Len(cleaned[t]) # Len(responseList) THEN cleaned[t] ELSE responseList
    /\ cleaned' = [cleaned EXCEPT ![t] = << >>]
    /\ Goto(t, "leave")
    /\ UNCHANGED <<responseQueue, handOff, roundVars, epochVars, batch, claimedHere,
                   reply, toolReplies, pastVars>>

\* response_ai returns: a round it claimed itself is released here.
LeaveRound(t) ==
    /\ pc[t] = "leave"
    /\ roundActive' = (roundActive /\ ~claimedHere[t])
    /\ isStopped' = (isStopped \/ claimedHere[t])
    /\ claimedHere' = [claimedHere EXCEPT ![t] = FALSE]
    /\ reply' = [reply EXCEPT ![t] = NoReply]
    /\ stopped' = [stopped EXCEPT ![t] = "none"]
    /\ Goto(t, "finish")
    /\ UNCHANGED <<convVars, pendingAsks, epochVars, batch, cleaned, toolReplies,
                   strayRelease, arrivals, forgotten>>

\* finish_round_or_take_next: the queued questions become the next round, ...
TakeNextBatch(t) ==
    /\ pc[t] = "finish"
    /\ pendingAsks # << >>
    /\ batch' = [batch EXCEPT ![t] = pendingAsks]
    /\ pendingAsks' = << >>
    /\ isStopped' = FALSE
    /\ roundEpoch' = stopEpoch
    /\ Goto(t, "add")
    /\ UNCHANGED <<convVars, roundActive, stopEpoch, claimedHere, reply, cleaned,
                   toolReplies, pastVars>>

\* Mutation: a round is started for nothing.
TakeQueueRoundAlways(t) ==
    /\ pc[t] = "finish"
    /\ pendingAsks = << >>
    /\ isStopped' = FALSE
    /\ roundEpoch' = stopEpoch
    /\ Goto(t, "enter")
    /\ UNCHANGED <<convVars, roundActive, pendingAsks, stopEpoch, localVars, pastVars>>

\* ... or queued messages alone do, ...
TakeQueueRound(t) ==
    /\ pc[t] = "finish"
    /\ pendingAsks = << >>
    /\ responseQueue # << >>
    /\ isStopped' = FALSE
    /\ roundEpoch' = stopEpoch
    /\ Goto(t, "enter")
    /\ UNCHANGED <<convVars, roundActive, pendingAsks, stopEpoch, localVars, pastVars>>

\* Mutation: leftovers of the forced queue do not count.
FinishSequenceEarly(t) ==
    /\ pc[t] = "finish"
    /\ pendingAsks = << >>
    /\ roundActive' = FALSE
    /\ isStopped' = TRUE
    /\ Goto(t, "release")
    /\ UNCHANGED <<convVars, pendingAsks, epochVars, localVars, pastVars>>

\* ... or the sequence ends and the round is handed back.
FinishSequence(t) ==
    /\ pc[t] = "finish"
    /\ pendingAsks = << >>
    /\ responseQueue = << >>
    /\ roundActive' = FALSE
    /\ isStopped' = TRUE
    /\ Goto(t, "release")
    /\ UNCHANGED <<convVars, pendingAsks, epochVars, localVars, pastVars>>

\* The `finally` of ask_ai, after the round was already handed back.
ReleaseAgain(t) ==
    /\ pc[t] = "release"
    /\ ReleaseRound(t)
    /\ Goto(t, "done")
    /\ UNCHANGED <<convVars, pendingAsks, epochVars, localVars, stopped, arrivals, forgotten>>

Ask(t) ==
    \/ AskClaims(t) \/ AskFindsRound(t) \/ ForcedAdd(t) \/ QueuePendingAsk(t)
    \/ AddQuestion(t) \/ EnterRound(t) \/ BeginRound(t) \/ MergeLeftover(t)
    \/ CheckStop(t) \/ SendRequest(t)
    \/ AcceptReply(t) \/ \E n \in 0..MaxCalls : ReceiveReply(t, n)
    \/ DiscardReply(t) \/ RequestFails(t)
    \/ BeginToolCall(t) \/ RunToolCall(t) \/ SkipToolCalls(t)
    \/ MergeQueued(t) \/ AbortRound(t) \/ ComputeCleaned(t) \/ ReplaceHistory(t)
    \/ LeaveRound(t) \/ TakeNextBatch(t) \/ TakeQueueRound(t) \/ FinishSequence(t)
    \/ ReleaseAgain(t)

-----------------------------------------------------------------------------
(* The other commands. *)

\* request_stop with no round in flight answers False.
StopFindsNothing(s) ==
    /\ pc[s] = "idle"
    /\ isStopped
    /\ Goto(s, "done")
    /\ UNCHANGED <<convVars, roundVars, epochVars, localVars, pastVars>>

\* request_stop answers True.  `stopped` records against which threads: "early"
\* when response_ai has not begun its round yet, "running" when it has, "using"
\* when it is past a test, with an answer to write or a tool to run.
RequestStop(s) ==
    /\ pc[s] = "idle"
    /\ ~isStopped
    /\ stopEpoch' = stopEpoch + 1
    /\ stopped' = [t \in Askers |->
                     CASE pc[t] \in {"answer", "run"}           -> "using"
                       [] pc[t] \in RoundPCs \ {"answer", "run", "leave"} -> "running"
                       [] pc[t] \in {"add", "enter", "begin"} -> "early"
                       [] OTHER                               -> stopped[t]]
    /\ Goto(s, "done")
    /\ UNCHANGED <<convVars, roundVars, roundEpoch, localVars, strayRelease,
                   arrivals, forgotten>>

Stop(s) == StopFindsNothing(s) \/ RequestStop(s)

\* add_external_message finds the conversation idle and goes on holding the lock ...
RelayFindsIdle(r) ==
    /\ pc[r] = "idle"
    /\ CtxFree
    /\ isStopped
    /\ Goto(r, "append")
    /\ UNCHANGED <<convVars, roundVars, epochVars, localVars, pastVars>>

\* ... while the message goes to the history.  A claim takes another lock and a
\* snapshot takes none: a switch that has its snapshot will clear this message.
RelayToHistory(r) ==
    /\ pc[r] = "append"
    /\ responseList' = Append(responseList, User(r))
    /\ forgotten' = IF BeingCleared THEN forgotten \cup {r} ELSE forgotten
    /\ Goto(r, "done")
    /\ UNCHANGED <<responseQueue, handOff, roundVars, epochVars, localVars,
                   strayRelease, stopped, arrivals>>

\* A running conversation gets it through the queue, in a second critical section.
RelayFindsRound(r) ==
    /\ pc[r] = "idle"
    /\ CtxFree
    /\ ~isStopped
    /\ Goto(r, "enqueue")
    /\ UNCHANGED <<convVars, roundVars, epochVars, localVars, pastVars>>

Relay(r) == RelayFindsIdle(r) \/ RelayToHistory(r) \/ RelayFindsRound(r) \/ ForcedAdd(r)

\* change_model to another model: wait for is_stopped, then claim, and again.
SwitchStarts(w) ==
    /\ pc[w] = "idle"
    /\ Goto(w, "waitStop")
    /\ UNCHANGED <<convVars, roundVars, epochVars, localVars, pastVars>>

SwitchWaits(w) ==
    /\ pc[w] = "waitStop"
    /\ isStopped
    /\ Goto(w, "claim")
    /\ UNCHANGED <<convVars, roundVars, epochVars, localVars, pastVars>>

SwitchRetries(w) ==
    /\ pc[w] = "claim"
    /\ roundActive
    /\ Goto(w, "waitStop")
    /\ UNCHANGED <<convVars, roundVars, epochVars, localVars, pastVars>>

SwitchClaims(w) ==
    /\ pc[w] = "claim"
    /\ ClaimRound
    /\ Goto(w, "snapshot")
    /\ UNCHANGED <<convVars, pendingAsks, stopEpoch, localVars, pastVars>>

\* Mutation: no snapshot is taken.
TakeSnapshotForgotten(w) ==
    /\ pc[w] = "snapshot"
    /\ Goto(w, "rewrite")
    /\ UNCHANGED <<convVars, roundVars, epochVars, localVars, pastVars>>

\* A history that is not empty becomes the hand-off, whatever was pending.  The
\* history is read without _ctx_lock.
TakeSnapshot(w) ==
    /\ pc[w] = "snapshot"
    /\ IF responseList # << >>
       THEN /\ handOff' = responseList
            /\ forgotten' = forgotten \cup CarriedBy(handOff)
       ELSE UNCHANGED <<handOff, forgotten>>
    /\ Goto(w, "rewrite")
    /\ UNCHANGED <<responseList, responseQueue, roundVars, epochVars, localVars,
                   strayRelease, stopped, arrivals>>

\* The new conversation starts empty: history and queue are cleared.
ClearConversation(w) ==
    /\ pc[w] = "rewrite"
    /\ CtxFree
    /\ responseList' = << >>
    /\ responseQueue' = << >>
    /\ forgotten' = forgotten \cup CarriedBy(responseQueue)
    /\ Goto(w, "giveBack")
    /\ UNCHANGED <<handOff, roundVars, epochVars, localVars, strayRelease, stopped, arrivals>>

\* compact_history: busy, or a short claim that has nothing to schedule.
CompactFindsRound(c) ==
    /\ pc[c] = "idle"
    /\ roundActive
    /\ Goto(c, "done")
    /\ UNCHANGED <<convVars, roundVars, epochVars, localVars, pastVars>>

CompactClaims(c) ==
    /\ pc[c] = "idle"
    /\ ClaimRound
    /\ Goto(c, "giveBack")
    /\ UNCHANGED <<convVars, pendingAsks, stopEpoch, localVars, pastVars>>

\* The `finally` of change_model and compact_history.
GiveBack(t) ==
    /\ pc[t] = "giveBack"
    /\ ReleaseRound(t)
    /\ Goto(t, "done")
    /\ UNCHANGED <<convVars, pendingAsks, epochVars, localVars, stopped, arrivals, forgotten>>

Switch(w)  == \/ SwitchStarts(w) \/ SwitchWaits(w) \/ SwitchRetries(w) \/ SwitchClaims(w)
              \/ TakeSnapshot(w) \/ ClearConversation(w) \/ GiveBack(w)
Compact(c) == CompactFindsRound(c) \/ CompactClaims(c) \/ GiveBack(c)

-----------------------------------------------------------------------------
\* No command is under way: the conversation may rest.
Terminated == (\A t \in Threads : pc[t] \in {"idle", "done"}) /\ UNCHANGED vars

Next ==
    \/ \E t \in Askers   : Ask(t)
    \/ \E s \in Stops    : Stop(s)
    \/ \E r \in Relays   : Relay(r)
    \/ \E w \in Switches : Switch(w)
    \/ \E c \in Compacts : Compact(c)
    \/ Terminated

Spec == Init /\ [][Next]_vars

\* A command that was started keeps running: its thread is scheduled, and the
\* HTTP client gives up on a request in the end.  Nobody has to type one.
Started(t) == pc[t] # "idle"
Fairness ==
    /\ \A t \in Askers   : WF_vars(Started(t) /\ Ask(t))
    /\ \A r \in Relays   : WF_vars(Started(r) /\ Relay(r))
    /\ \A w \in Switches : WF_vars(Started(w) /\ Switch(w))
    /\ \A c \in Compacts : WF_vars(Started(c) /\ Compact(c))
FairSpec == Spec /\ Fairness

-----------------------------------------------------------------------------
(* Types. *)

ControlTypeOK ==
    /\ roundActive \in BOOLEAN /\ isStopped \in BOOLEAN
    /\ stopEpoch \in Nat /\ roundEpoch \in Nat
    /\ pc \in [Threads -> PCs]
    /\ claimedHere \in [Askers -> BOOLEAN]
    /\ pendingAsks \in Seq(Askers) /\ arrivals \in Seq(Askers)
    /\ batch \in [Askers -> Seq(Askers)]
    /\ strayRelease \in BOOLEAN
    /\ stopped \in [Askers -> {"none", "early", "running", "using"}]

HistoryTypeOK ==
    /\ responseList \in Seq(Message)
    /\ responseQueue \in Seq(Message)
    /\ handOff \in Seq(Message)
    /\ cleaned \in [Askers -> Seq(Message)]
    /\ toolReplies \in 0..MaxToolReplies
    /\ reply \in [Askers -> [id : 0..MaxToolReplies, calls : 0..MaxCalls, done : 0..MaxCalls]]
    /\ forgotten \subseteq Authors

\* Every variable stays in its range (the state __init__ sets up and every
\* method keeps).
TypeOK == ControlTypeOK /\ HistoryTypeOK

-----------------------------------------------------------------------------
(* Safety. *)

\* "Exactly one thread may run this conversation's rounds at a time"
\* (chat_param.py, the comment on _round_lock).  release_round in the
\* `finally` of ask_ai breaks it.
OneRoundAtATime == \A t, u \in Threads : Owns(t) /\ Owns(u) => t = u

\* What try_claim_round, finish_round_or_take_next and response_ai guarantee
\* as long as nobody releases a round it does not own: one owner, _round_active
\* and is_stopped tell whether there is one, and response_ai never claims.
RoundOwnership ==
    ~strayRelease =>
        /\ OneRoundAtATime
        /\ roundActive <=> \E t \in Threads : Owns(t)
        /\ isStopped = ~roundActive
        /\ \A t \in Askers : ~claimedHere[t]

\* In list, every calling assistant message is directly followed by all its
\* results, and every tool message is one of those.
ToolGroupsIntact(list) ==
    \A i \in DOMAIN list :
        /\ IsCalling(list[i]) =>
             /\ i + list[i].calls <= Len(list)
             /\ \A c \in 1..list[i].calls : list[i + c] = Tool(list[i].id, c)
        /\ list[i].role = "tool" =>
             /\ i > list[i].call
             /\ list[i - list[i].call].role = "assistant"
             /\ list[i - list[i].call].id = list[i].id

\* A provider rejects a history with an unanswered tool call or with anything
\* inside a tool-call group.  Whatever stops, relays, forced questions and
\* failed requests came before, the history response_ai sends has none.
RequestsAreWellFormed ==
    ~strayRelease =>
        \A t \in Askers : pc[t] = "send" => ToolGroupsIntact(responseList)

\* Where the words of author a are.  From its snapshot on, what stands in the
\* history of a switch is a copy, or a message that came too late for it.
CarryingIn(list, a) == {i \in DOMAIN list : a \in Carries(list[i])}
Where(a) ==
    [history   |-> IF BeingCleared THEN {} ELSE CarryingIn(responseList, a),
     queue     |-> CarryingIn(responseQueue, a),
     handOff   |-> CarryingIn(handOff, a),
     pending   |-> {i \in DOMAIN pendingAsks : pendingAsks[i] = a},
     batch     |-> UNION {{<<t, i>> : i \in {j \in DOMAIN batch[t] : batch[t][j] = a}} : t \in Askers},
     forgotten |-> forgotten \cap {a}]

Nowhere(at) == \A k \in DOMAIN at : at[k] = {}
InOnePlace(at) ==
    \E k \in DOMAIN at : /\ \E p \in at[k] : at[k] = {p}
                         /\ \A l \in DOMAIN at \ {k} : at[l] = {}

Accepted(a) == pc[a] \notin {"idle", "append", "enqueue"}

\* A question or relayed message that was accepted is kept exactly once: in a
\* queue, in a round owner's batch, in the history or in the hand-off, unless a
\* switch dropped it (with the queue it clears, with the hand-off it overwrites
\* or whose summary fails, or because it came between snapshot and clear).
\* Stops, failed requests and validation neither lose nor double it.
NothingLost ==
    ~strayRelease =>
        \A a \in Authors : IF Accepted(a) THEN InOnePlace(Where(a)) ELSE Nowhere(Where(a))

\* "switching again before that request keeps the original snapshot"
\* (change_model, and docs/en_us/ai-request-pipeline.md): a hand-off stays as it
\* is until a request takes it.
SnapshotKept ==
    [][~strayRelease /\ handOff # << >> => handOff' \in {handOff, << >>}]_vars

\* Questions queued behind a round enter the history in the order in which
\* queue_pending_ask took them, however many rounds deliver them.
ArrivalOrder ==
    ~strayRelease =>
        \A m, n \in DOMAIN arrivals : \A i, j \in DOMAIN responseList :
            (m < n /\ arrivals[m] \in Carries(responseList[i])
                   /\ arrivals[n] \in Carries(responseList[j])) => i <= j

\* Once request_stop answered True for a running round, no answer passes its
\* test any more (the round aborts, or its request fails), no further tool call
\* begins and no request leaves that was not about to.  What was past its test
\* already -- one answer, or the tool under way -- is still used, and only that.
StoppedRoundTurnsBack ==
    [][\A t \in Askers : stopped[t] = "running" /\ ~strayRelease =>
           /\ pc[t] = "wait"  => pc'[t] \in {"wait", "abort", "leave"}
           /\ pc[t] = "tools" => pc'[t] \in {"tools", "more"}
           /\ pc[t] = "check" => pc'[t] \in {"check", "abort"}
           /\ reply'[t] \in {reply[t], NoReply}]_vars

\* How many messages the model or its tools wrote.
Written(list) == Cardinality({i \in DOMAIN list : list[i].role \in {"assistant", "tool"}})

\* "a stop request is never lost even if another round starts later"
\* (chat_param.py, the comment on _stop_epoch): a round against which a stop was
\* accepted writes nothing any more -- also when the stop was accepted between
\* the claim and the point where response_ai begins the round.
StopNeverLost ==
    [][\A t \in Askers : stopped[t] # "none"
           => Written(responseList') <= Written(responseList)]_vars

-----------------------------------------------------------------------------
(* Liveness. *)

InHistory(a) == a \in CarriedBy(responseList)
AskerOwns    == \E t \in Askers : Owns(t)

\* A question or message that is in a queue while the thread of some question
\* owns the round reaches the history: finish_round_or_take_next looks into
\* both queues under the lock before it gives the round up.  Only a switch that
\* took the round over (after a stray release) can clear the queue before.
QueuedBehindRoundDelivered ==
    /\ \A q \in Plain :
         (AskerOwns /\ \E i \in DOMAIN pendingAsks : pendingAsks[i] = q) ~> InHistory(q)
    /\ \A a \in Forced \cup Relays :
         (AskerOwns /\ a \in CarriedBy(responseQueue)) ~> (InHistory(a) \/ a \in forgotten)

\* "The owner thread drains the queue when its round ends" (queue_pending_ask):
\* whatever is queued reaches the history.
QueuedAsksDelivered ==
    \A q \in Plain : (\E i \in DOMAIN pendingAsks : pendingAsks[i] = q) ~> InHistory(q)

\* Every command that was started ends -- a model switch waiting for the round
\* to stop included -- and leaves no round behind.
CommandsFinish ==
    /\ \A t \in Threads : Started(t) ~> pc[t] = "done"
    /\ []<>(~roundActive /\ isStopped)

=============================================================================
