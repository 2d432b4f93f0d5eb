---------------------------- MODULE StatelessAsk ----------------------------
(***************************************************************************)
(* `!!ask -n <question>` of one player: an object of its own for each       *)
(* question (NonHistoryChatParam, ai/chat_param.py), the table of questions *)
(* in flight through which `!!ask stop` finds it (_no_history_active), and  *)
(* the stop.  A player may ask again while the first question is out; the   *)
(* table holds one.  A step is one critical section of the table's lock or  *)
(* of the object's _stop_lock, or one message shown to the player.          *)
(***************************************************************************)
EXTENDS Naturals, FiniteSets

CONSTANTS
    Questions,      \* the player's questions (threads of ask_ai, no_history)
    Stops,          \* the player's `!!ask stop` commands
    MaxAnswers,     \* bound: answers of the model to one question
    Nobody          \* an entry the table does not have

ASSUME NobodyAsks == Nobody \notin Questions

VARIABLES
    tracked,        \* _no_history_active[player]
    running,        \* _round_running
    stopEpoch, roundEpoch,
    asks,           \* where each question is
    stops,          \* where each stop is, and the question it has found
    rounds,         \* answers shown for each question
    accepted,       \* did a stop return True: "no", "before" or "during" the round
    said,           \* answers accepted for showing behind a stop "during" the round
    newest          \* the question the player asked last

nhVars == <<tracked, running, stopEpoch, roundEpoch, asks, stops, rounds, accepted, said, newest>>

NhInit ==
    /\ tracked = Nobody
    /\ running = [q \in Questions |-> FALSE]
    /\ stopEpoch = [q \in Questions |-> 0]
    /\ roundEpoch = [q \in Questions |-> 0]
    /\ asks = [q \in Questions |-> "typed"]
    /\ stops = [s \in Stops |-> Nobody]
    /\ rounds = [q \in Questions |-> 0]
    /\ accepted = [q \in Questions |-> "no"]
    /\ said = [q \in Questions |-> 0]
    /\ newest = Nobody

Step(q, from, to) == asks[q] = from /\ asks' = [asks EXCEPT ![q] = to]

\* stop_requested
StopRequested(q) == running[q] /\ roundEpoch[q] # stopEpoch[q]

\* register_no_history: the newest question takes the player's entry.
Register(q) ==
    /\ Step(q, "typed", "registered")
    /\ tracked' = q /\ newest' = q
    /\ UNCHANGED <<running, stopEpoch, roundEpoch, stops, rounds, accepted, said>>

\* response_ai marks the request as running ...
MarkRunning(q) ==
    /\ Step(q, "registered", "marked")
    /\ running' = [running EXCEPT ![q] = TRUE]
    /\ UNCHANGED <<tracked, stopEpoch, roundEpoch, stops, rounds, accepted, said, newest>>

\* ... and begin_round takes the stops so far as old, in a section of its own.
BeginRound(q) ==
    /\ Step(q, "marked", "check")
    /\ roundEpoch' = [roundEpoch EXCEPT ![q] = stopEpoch[q]]
    /\ UNCHANGED <<tracked, running, stopEpoch, stops, rounds, accepted, said, newest>>

\* In front of a request: a stopped round returns, others send.
Send(q) ==
    /\ Step(q, "check", IF StopRequested(q) THEN "leave" ELSE "wait")
    /\ UNCHANGED <<tracked, running, stopEpoch, roundEpoch, stops, rounds, accepted, said, newest>>

\* response_chat raises, or the answer is there.
SendFails(q) ==
    /\ Step(q, "wait", "leave")
    /\ UNCHANGED <<tracked, running, stopEpoch, roundEpoch, stops, rounds, accepted, said, newest>>

\* Mutation: the stop is not looked at when the answer arrives.
ReceiveUnchecked(q) ==
    /\ Step(q, "wait", "show")
    /\ said' = [said EXCEPT ![q] = IF accepted[q] = "during" THEN @ + 1 ELSE @]
    /\ UNCHANGED <<tracked, running, stopEpoch, roundEpoch, stops, rounds, accepted, newest>>

Receive(q) ==
    /\ Step(q, "wait", IF StopRequested(q) THEN "leave" ELSE "show")
    /\ said' = [said EXCEPT ![q] = IF accepted[q] = "during" /\ ~StopRequested(q)
                                   THEN @ + 1 ELSE @]
    /\ UNCHANGED <<tracked, running, stopEpoch, roundEpoch, stops, rounds, accepted, newest>>

\* The answer goes to the player; with tool calls the loop goes on, and each
\* call that a stop has not overtaken runs.
Show(q) ==
    /\ rounds[q] < MaxAnswers
    /\ \E next \in {"leave", "tools"} : Step(q, "show", next)
    /\ rounds' = [rounds EXCEPT ![q] = @ + 1]
    /\ UNCHANGED <<tracked, running, stopEpoch, roundEpoch, stops, accepted, said, newest>>

\* tool_call, whether its calls ran or were skipped: the next request is next.
RunTools(q) ==
    /\ Step(q, "tools", "check")
    /\ UNCHANGED <<tracked, running, stopEpoch, roundEpoch, stops, rounds, accepted, said, newest>>

\* end_round
EndRound(q) ==
    /\ Step(q, "leave", "ended")
    /\ running' = [running EXCEPT ![q] = FALSE]
    /\ UNCHANGED <<tracked, stopEpoch, roundEpoch, stops, rounds, accepted, said, newest>>

\* Mutation: a question that ends takes the entry of whoever has it.
UnregisterAny(q) ==
    /\ Step(q, "ended", "done")
    /\ tracked' = Nobody
    /\ UNCHANGED <<running, stopEpoch, roundEpoch, stops, rounds, accepted, said, newest>>

\* unregister_no_history: only the entry that is still this question's.
Unregister(q) ==
    /\ Step(q, "ended", "done")
    /\ tracked' = IF tracked = q THEN Nobody ELSE tracked
    /\ UNCHANGED <<running, stopEpoch, roundEpoch, stops, rounds, accepted, said, newest>>

\* stop_no_history, under the table's lock: what is in flight?
FindTracked(s) ==
    /\ stops[s] = Nobody /\ tracked # Nobody
    /\ stops' = [stops EXCEPT ![s] = tracked]
    /\ UNCHANGED <<tracked, running, stopEpoch, roundEpoch, asks, rounds, accepted, said, newest>>

\* request_stop of the question that was found; it returns whether it runs.
RequestStop(s) ==
    /\ stops[s] \in Questions
    /\ LET q == stops[s]
       IN  /\ stopEpoch' = IF running[q] THEN [stopEpoch EXCEPT ![q] = @ + 1] ELSE stopEpoch
           /\ accepted' = CASE ~running[q] -> accepted
                            [] asks[q] = "marked" -> [accepted EXCEPT ![q] = "before"]
                            [] OTHER -> [accepted EXCEPT ![q] = "during"]
    /\ stops' = [stops EXCEPT ![s] = "done"]
    /\ UNCHANGED <<tracked, running, roundEpoch, asks, rounds, said, newest>>

NhNext ==
    \/ \E q \in Questions :
          \/ Register(q) \/ MarkRunning(q) \/ BeginRound(q) \/ Send(q) \/ SendFails(q)
          \/ Receive(q) \/ Show(q) \/ RunTools(q) \/ EndRound(q) \/ Unregister(q)
    \/ \E s \in Stops : FindTracked(s) \/ RequestStop(s)

NhSpec == NhInit /\ [][NhNext]_nhVars

-----------------------------------------------------------------------------
(* Properties. *)

NhTypeOK ==
    /\ tracked \in Questions \cup {Nobody}
    /\ running \in [Questions -> BOOLEAN]
    /\ \A q \in Questions : /\ roundEpoch[q] <= stopEpoch[q]
                            /\ stopEpoch[q] <= Cardinality(Stops)
                            /\ rounds[q] <= MaxAnswers
                            /\ running[q] = (asks[q] \in {"marked", "check", "wait", "show",
                                                          "tools", "leave"})

\* A stop that was accepted while the request was in flight silences it: the
\* answer is discarded, and so is every later one (request_stop's docstring,
\* chat_param.py:2273-2276; response_ai's, 2440-2441).
StoppedIsSilent == \A q \in Questions : said[q] = 0

\* The question the player asked last can be stopped for as long as it is in
\* flight: one that ends before it does not take the entry away.
NewestCanBeStopped ==
    newest # Nobody /\ asks[newest] # "done" => tracked = newest

\* (Does not hold.)  A stop that was accepted silences the question, also when
\* it comes between the mark and begin_round.
AcceptedStopIsKept == \A q \in Questions : accepted[q] = "before" => rounds[q] = 0
=============================================================================
