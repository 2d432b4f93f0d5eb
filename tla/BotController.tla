--------------------------- MODULE BotController ---------------------------
(***************************************************************************)
(* The autonomous bot controller (bot/mineflayer_ai.py): its thread, which  *)
(* works on delegated tasks in cycles, the tools that delegate, `!!ask      *)
(* stop` of the players, and the stop of the controller itself.             *)
(*                                                                         *)
(* The queue is a queue.Queue: one get or put is one step, so a stop that   *)
(* drains it, the thread that drains it and the delegations interleave.     *)
(* _cycle_users and _cycle_abort change under _cycle_lock.  What the bot    *)
(* sees and says is left out; a reply of the model is the number of tool    *)
(* calls it carries.                                                        *)
(***************************************************************************)
EXTENDS Naturals, Sequences, FiniteSets, SequencesExt

CONSTANTS
    Tasks, Stops,       \* delegated tasks, and `!!ask stop` commands
    PlayerOf,           \* whose each of them is
    MaxMessages,        \* _MAX_CONVERSATION_MESSAGES
    MaxCalls,           \* bound: tool calls in one reply
    MaxReplies          \* bound: replies of the model over a behaviour

ASSUME WindowIsSome == MaxCalls \in Nat /\ MaxMessages \in Nat \ {0}

VARIABLES
    queue,          \* _queue
    loop,           \* where the controller's thread is
    batch,          \* user_msgs: the tasks the cycle has drained
    cycleUsers, cycleAbort,
    stopping,       \* stop(): _running is false, _stop_event is set
    fresh,          \* new_msgs: what the cycle has added so far
    calls,          \* tool calls of the last reply that have not run
    conversation,   \* _conversation
    replies,
    stop,           \* each stop command: where it is, and what it put aside
    fate,           \* what became of a task that is in no queue and no cycle
    \* The rest records the past for the properties.
    hit,            \* where the cycle was when a stop first hit it
    crowded         \* did a reply have as many calls as the window has messages

botVars == <<queue, loop, batch, cycleUsers, cycleAbort, stopping, fresh, calls,
             conversation, replies, stop, fate, hit, crowded>>

Reply(n) == [role |-> "assistant", calls |-> n]
Tool     == [role |-> "tool", calls |-> 0]
Unhit    == "nowhere"

BotInit ==
    /\ queue = << >>
    /\ loop = "idle"
    /\ batch = << >>
    /\ cycleUsers = {} /\ cycleAbort = FALSE
    /\ stopping = FALSE
    /\ fresh = << >> /\ calls = 0 /\ conversation = << >>
    /\ replies = 0
    /\ stop = [s \in Stops |-> [pc |-> "typed", kept |-> << >>, found |-> FALSE]]
    /\ fate = [t \in Tasks |-> "new"]
    /\ hit = Unhit /\ crowded = FALSE

\* delegate_to_bot, send_user_message: refused when the controller is stopped.
Delegate(t) ==
    /\ fate[t] = "new" /\ ~stopping
    /\ queue' = Append(queue, t)
    /\ fate' = [fate EXCEPT ![t] = "open"]
    /\ UNCHANGED <<loop, batch, cycleUsers, cycleAbort, stopping, fresh, calls,
                   conversation, replies, stop, hit, crowded>>

-----------------------------------------------------------------------------
(* The thread: _run_loop and _one_cycle. *)

Wake ==
    /\ loop = "idle"
    /\ loop' = IF stopping THEN "dead" ELSE "drain"
    /\ UNCHANGED <<queue, batch, cycleUsers, cycleAbort, stopping, fresh, calls,
                   conversation, replies, stop, fate, hit, crowded>>

\* _drain_queue, one get_nowait.
Drain ==
    /\ loop = "drain" /\ queue # << >>
    /\ batch' = Append(batch, Head(queue))
    /\ queue' = Tail(queue)
    /\ UNCHANGED <<loop, cycleUsers, cycleAbort, stopping, fresh, calls, conversation,
                   replies, stop, fate, hit, crowded>>

\* The queue was empty: from here on a stop can see whose cycle it is.
OpenCycle ==
    /\ loop = "drain" /\ queue = << >>
    /\ cycleUsers' = {PlayerOf[t] : t \in ToSet(batch)}
    /\ cycleAbort' = FALSE
    /\ loop' = "ask"
    /\ UNCHANGED <<queue, batch, stopping, fresh, calls, conversation, replies, stop, fate,
                   hit, crowded>>

\* The checkpoint in front of an AI call.
AskModel ==
    /\ loop = "ask"
    /\ loop' = IF cycleAbort \/ stopping THEN "close" ELSE "reply"
    /\ UNCHANGED <<queue, batch, cycleUsers, cycleAbort, stopping, fresh, calls,
                   conversation, replies, stop, fate, hit, crowded>>

\* The AI call fails, answers, or asks for n tool calls, of which no limit is known.
Answered ==
    /\ loop = "reply"
    /\ \/ loop' = "close" /\ UNCHANGED <<fresh, calls, replies, crowded>>
       \/ /\ replies < MaxReplies
          /\ replies' = replies + 1
          /\ \E n \in 0..MaxCalls : /\ fresh' = Append(fresh, Reply(n))
                                    /\ calls' = n
                                    /\ crowded' = (crowded \/ n >= MaxMessages)
                                    /\ loop' = IF n = 0 THEN "close" ELSE "tools"
    /\ UNCHANGED <<queue, batch, cycleUsers, cycleAbort, stopping, conversation, stop, fate,
                   hit>>

\* Mutation: the flag is not looked at between two tool calls.
BeginToolAnyway ==
    /\ loop = "tools" /\ calls > 0
    /\ loop' = "run"
    /\ UNCHANGED <<queue, batch, cycleUsers, cycleAbort, stopping, fresh, calls,
                   conversation, replies, stop, fate, hit, crowded>>

\* The flag is looked at before each tool ...
BeginTool ==
    /\ loop = "tools" /\ calls > 0 /\ ~cycleAbort
    /\ loop' = "run"
    /\ UNCHANGED <<queue, batch, cycleUsers, cycleAbort, stopping, fresh, calls,
                   conversation, replies, stop, fate, hit, crowded>>

\* ... which then runs for as long as it takes.
RunTool ==
    /\ loop = "run"
    /\ fresh' = Append(fresh, Tool)
    /\ calls' = calls - 1
    /\ loop' = "tools"
    /\ UNCHANGED <<queue, batch, cycleUsers, cycleAbort, stopping, conversation, replies,
                   stop, fate, hit, crowded>>

\* The calls have run, or the flag was seen and the others are skipped.  (After ten
\* replies the model is not asked again: no more comes of that than of a failure.)
ToolsOver ==
    /\ loop = "tools" /\ (calls = 0 \/ cycleAbort)
    /\ loop' = "ask" /\ calls' = 0
    /\ UNCHANGED <<queue, batch, cycleUsers, cycleAbort, stopping, fresh, conversation,
                   replies, stop, fate, hit, crowded>>

\* Mutation: the newest messages stay, whatever the first of them is.
TrimAnywhere(list) ==
    IF Len(list) <= MaxMessages THEN list
    ELSE SubSeq(list, Len(list) - MaxMessages + 1, Len(list))

\* _trim_conversation: the newest messages, from the first that is no tool
\* result (no user message ever gets into the conversation).
Trimmed(list) ==
    IF Len(list) <= MaxMessages THEN list
    ELSE LET newest == SubSeq(list, Len(list) - MaxMessages + 1, Len(list))
             starts == {i \in DOMAIN newest : newest[i].role # "tool"}
         IN  IF starts = {} THEN newest
             ELSE SubSeq(newest, CHOOSE i \in starts : \A j \in starts : i <= j, MaxMessages)

\* The last look at the flag, without the lock: what the cycle added stays, ...
CloseCycle ==
    /\ loop = "close"
    /\ loop' = IF cycleAbort THEN "trim" ELSE "keep"
    /\ UNCHANGED <<queue, batch, cycleUsers, cycleAbort, stopping, fresh, calls,
                   conversation, replies, stop, fate, hit, crowded>>

KeepFresh ==
    /\ loop = "keep"
    /\ conversation' = conversation \o fresh
    /\ loop' = "trim"
    /\ UNCHANGED <<queue, batch, cycleUsers, cycleAbort, stopping, fresh, calls, replies,
                   stop, fate, hit, crowded>>

\* ... or it was stopped.
TrimConversation ==
    /\ loop = "trim"
    /\ conversation' = Trimmed(conversation)
    /\ loop' = "end"
    /\ UNCHANGED <<queue, batch, cycleUsers, cycleAbort, stopping, fresh, calls, replies,
                   stop, fate, hit, crowded>>

Forget ==
    /\ cycleUsers' = {} /\ cycleAbort' = FALSE
    /\ fate' = [t \in Tasks |-> IF t \in ToSet(batch) THEN "over" ELSE fate[t]]
    /\ batch' = << >> /\ fresh' = << >> /\ calls' = 0 /\ hit' = Unhit

\* The finally of _one_cycle; then the wait for the next cycle.
EndCycle ==
    /\ loop = "end"
    /\ Forget
    /\ loop' = "idle"
    /\ UNCHANGED <<queue, stopping, conversation, replies, stop, crowded>>

-----------------------------------------------------------------------------
(* `!!ask stop` of a player: stop_user_task. *)

Becomes(s, r) == stop' = [stop EXCEPT ![s] = r]

StopTakesOne(s) ==
    /\ stop[s].pc \in {"typed", "draining"} /\ queue # << >>
    /\ LET t == Head(queue)
           own == PlayerOf[t] = PlayerOf[s]
       IN  /\ Becomes(s, [stop[s] EXCEPT !.pc = "draining",
                                         !.kept = IF own THEN @ ELSE Append(@, t),
                                         !.found = @ \/ own])
           /\ fate' = IF own THEN [fate EXCEPT ![t] = "dropped"] ELSE fate
    /\ queue' = Tail(queue)
    /\ UNCHANGED <<loop, batch, cycleUsers, cycleAbort, stopping, fresh, calls,
                   conversation, replies, hit, crowded>>

StopHasDrained(s) ==
    /\ stop[s].pc \in {"typed", "draining"} /\ queue = << >>
    /\ Becomes(s, [stop[s] EXCEPT !.pc = "putting"])
    /\ UNCHANGED <<queue, loop, batch, cycleUsers, cycleAbort, stopping, fresh, calls,
                   conversation, replies, fate, hit, crowded>>

\* Mutation: only the first of the kept tasks goes back.
StopPutsOneBack(s) ==
    /\ stop[s].pc = "putting" /\ stop[s].kept # << >>
    /\ queue' = Append(queue, Head(stop[s].kept))
    /\ Becomes(s, [stop[s] EXCEPT !.kept = << >>])
    /\ UNCHANGED <<loop, batch, cycleUsers, cycleAbort, stopping, fresh, calls,
                   conversation, replies, fate, hit, crowded>>

StopPutsBack(s) ==
    /\ stop[s].pc = "putting" /\ stop[s].kept # << >>
    /\ queue' = Append(queue, Head(stop[s].kept))
    /\ Becomes(s, [stop[s] EXCEPT !.kept = Tail(@)])
    /\ UNCHANGED <<loop, batch, cycleUsers, cycleAbort, stopping, fresh, calls,
                   conversation, replies, fate, hit, crowded>>

\* Is the player's task in the cycle under way?
StopLooks(s) ==
    /\ stop[s].pc = "putting" /\ stop[s].kept = << >>
    /\ LET running == PlayerOf[s] \in cycleUsers
       IN  /\ cycleAbort' = (cycleAbort \/ running)
           /\ hit' = IF running /\ hit = Unhit THEN loop ELSE hit
           /\ Becomes(s, [stop[s] EXCEPT !.pc = "done", !.found = @ \/ running])
    /\ UNCHANGED <<queue, loop, batch, cycleUsers, stopping, fresh, calls, conversation,
                   replies, fate, crowded>>

-----------------------------------------------------------------------------
(* stop(force=True): the flags, and after its grace the injected abort, which *)
(* ends the thread wherever it is; _one_cycle's finally still runs.           *)
StopController ==
    /\ ~stopping
    /\ stopping' = TRUE /\ cycleAbort' = TRUE
    /\ UNCHANGED <<queue, loop, batch, cycleUsers, fresh, calls, conversation, replies,
                   stop, fate, hit, crowded>>

ForceAbort ==
    /\ stopping /\ loop \notin {"idle", "dead"}
    /\ Forget
    /\ loop' = "dead"
    /\ UNCHANGED <<queue, stopping, conversation, replies, stop, crowded>>

BotNext ==
    \/ \E t \in Tasks : Delegate(t)
    \/ Wake \/ Drain \/ OpenCycle \/ AskModel \/ Answered \/ BeginTool \/ RunTool
    \/ ToolsOver \/ CloseCycle \/ KeepFresh \/ TrimConversation \/ EndCycle
    \/ StopController \/ ForceAbort
    \/ \E s \in Stops : \/ StopTakesOne(s) \/ StopHasDrained(s) \/ StopPutsBack(s)
                        \/ StopLooks(s)

BotSpec == BotInit /\ [][BotNext]_botVars

-----------------------------------------------------------------------------
(* Properties. *)

\* A delegated task is in one place at a time -- the queue, the hands of a stop
\* that drains it, or the cycle -- until it has been worked on or a stop took
\* it: draining and putting back neither lose nor double anybody's task.
TaskIsSomewhere ==
    \A t \in Tasks :
        LET in(list) == Cardinality({i \in DOMAIN list : list[i] = t})
            aside == {s \in Stops : t \in ToSet(stop[s].kept)}
        IN  in(queue) + in(batch) + Cardinality(aside) = IF fate[t] = "open" THEN 1 ELSE 0

\* A cycle that a stop has hit asks the model nothing more, runs no tool but the
\* one that had begun, and leaves nothing in the conversation (not even a cut)
\* unless it had passed its last look at the flag, whoever else's task it works on.
StoppedCycleLeavesNothing ==
    [][hit # Unhit =>
         /\ loop' # loop => loop' \notin {"reply", "run", "keep"}
         /\ \A i \in DOMAIN fresh' : i > Len(fresh) /\ fresh'[i].role = "tool" => loop = "run"
         /\ hit \notin {"keep", "trim"} => conversation' = conversation]_botVars

Intact(list) ==
    \A i \in DOMAIN list :
        IF list[i].role = "tool"
        THEN \E j \in 1..(i - 1) : /\ list[j].role = "assistant"
                                   /\ list[j].calls >= i - j
                                   /\ \A k \in (j + 1)..i : list[k].role = "tool"
        ELSE \A k \in 1..list[i].calls : /\ i + k <= Len(list)
                                         /\ list[i + k].role = "tool"

\* What the next request carries is replies with their tool results, in order, and
\* nothing else, as a provider accepts it: trims, stops and failed calls leave such
\* groups only.  The one thing that breaks it is a last reply with as many calls as
\* the window has messages: then the window is results, and nothing they answer.
ConversationIntact ==
    loop \notin {"trim", "dead"} =>
      \/ Intact(conversation)
      \/ /\ crowded /\ Len(conversation) = MaxMessages
         /\ \A i \in DOMAIN conversation : conversation[i].role = "tool"

\* (Does not hold.)  "The queued task is removed, and the cycle executing it
\* stops" (docs/en_us/ai-request-pipeline.md): a stop that has emptied the queue
\* finds every other task of its player in the cycle under way.
EveryTaskIsInReach ==
    [][\A s \in Stops : stop[s].pc # "putting" /\ stop'[s].pc = "putting"
         => \A t \in ToSet(batch) : PlayerOf[t] = PlayerOf[s] => PlayerOf[s] \in cycleUsers]_botVars
=============================================================================
