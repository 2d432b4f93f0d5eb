--------------------------- MODULE ContextWindow ---------------------------
(***************************************************************************)
(* How a conversation is kept within the model's window                    *)
(* (ai/chat_param.py, manage_context and what it calls), while other       *)
(* threads write to the same history:                                      *)
(*                                                                         *)
(*   Asks      `!!ask <q>`: each claims the round, writes its question     *)
(*             and runs response_ai until the model stops calling tools    *)
(*   Relays    messages of other players' assistants                       *)
(*   Compacts  `!!ask compact`, which schedules a compression              *)
(*                                                                         *)
(* What a request weighs is a choice of the step that estimates it: a text *)
(* may have any length, so the estimate may fit, pass the compression line *)
(* or pass the emergency line after any write.  Claiming a round is one    *)
(* step here; ConversationRounds has its interleavings, stops and          *)
(* switches.  Its double release is kept (GiveBack after Finish), because  *)
(* it is what lets others write while a round runs.                        *)
(***************************************************************************)
EXTENDS SequencesExt, FiniteSets, Naturals

CONSTANTS
    Asks, Relays, Compacts,
    Old,            \* questions a stored conversation may begin with, in order
    KEEP_ROUNDS,    \* rounds a compression leaves alone
    MaxReplies      \* bound: answers of the model to one question

ASSUME SomethingIsKept == KEEP_ROUNDS \in Nat \ {0} /\ MaxReplies \in Nat \ {0}
ASSUME OldAreListed    == Old \in Seq(ToSet(Old))
\* User("clock") is Time.
ASSUME NobodyIsTheClock == "clock" \notin Asks \cup Relays \cup ToSet(Old)

VARIABLES
    responseList, responseQueue,
    roundActive, isStopped,
    compaction,     \* _pending_compaction
    timed,          \* _rounds_since_time > 0: this conversation had its first round
    at,             \* where each thread is
    answers,        \* replies the model has given to each question
    goOn,           \* the reply had tool calls, or messages were merged behind it
    snapshot,       \* what _compress_old_rounds took under the lock
    outdated,       \* rounds whose snapshot's _ctx_version is no longer current
    beside          \* (for the properties) questions whose round ran beside another's

ctxVars == <<responseList, responseQueue, roundActive, isStopped, compaction,
             timed, at, answers, goOn, snapshot, outdated, beside>>

Commands == Asks \cup Relays \cup Compacts

-----------------------------------------------------------------------------
(* Messages, and the rounds of a history. *)

User(a)            == [role |-> "user", by |-> a]
Time               == [role |-> "user", by |-> "clock"]
Assistant(q, n, c) == [role |-> "assistant", to |-> q, nth |-> n, calls |-> c]
Tool(q, n)         == [role |-> "tool", to |-> q, nth |-> n]
Summary            == [role |-> "system"]
Message == {User(a) : a \in Asks \cup Relays \cup ToSet(Old)} \cup {Time, Summary}
             \cup [role : {"assistant"}, to : Asks \cup ToSet(Old), nth : 1..MaxReplies,
                   calls : BOOLEAN]
             \cup [role : {"tool"}, to : Asks, nth : 1..MaxReplies]

\* Where the rounds of a history begin, as _split_rounds reads it: at its first
\* message that is no system message, and at each user message that does not
\* stand directly behind another one (user messages in a row are one turn).
Opens(list) ==
    {i \in DOMAIN list :
        \/ list[i].role # "system" /\ \A j \in 1..(i - 1) : list[j].role = "system"
        \/ list[i].role = "user" /\ i > 1 /\ list[i - 1].role # "user"}

\* Where the newest n rounds begin: system messages belong to the round behind them.
NewestFrom(list, n) ==
    LET opens == Opens(list)
        first == Max({i \in opens : Cardinality({j \in opens : j >= i}) >= n})
    IN  Max({i \in 1..first : i = 1 \/ list[i - 1].role # "system"})

Newest(list, n) == SubSeq(list, NewestFrom(list, n), Len(list))

\* _insert_before_last_user; without a user message it goes to the end.
TimeInserted(list) ==
    LET users == {i \in DOMAIN list : list[i].role = "user"}
    IN  IF users = {} THEN Append(list, Time) ELSE InsertAt(list, Max(users), Time)

\* What _validate_sequence leaves of a history (a reply calls one tool here):
\* a tool result stays when its call is kept somewhere in front of it.
Validated(list) ==
    LET called(i) == list[i].role = "assistant" /\ list[i].calls
        answered(i) == i < Len(list) /\ list[i + 1] = Tool(list[i].to, list[i].nth)
        keeps(j) == CASE called(j) -> answered(j)
                      [] list[j].role = "tool" ->
                             \E i \in 1..(j - 1) : /\ called(i) /\ answered(i)
                                                   /\ list[i].to = list[j].to
                                                   /\ list[i].nth = list[j].nth
                      [] OTHER -> TRUE
        kept == {j \in DOMAIN list : keeps(j)}
        place(k) == Max({j \in kept : Cardinality({i \in kept : i <= j}) <= k})
    IN  [k \in 1..Cardinality(kept) |-> list[place(k)]]

-----------------------------------------------------------------------------
NoSnapshot == [old |-> << >>, keep |-> << >>, after |-> "none"]
Goto(t, l) == at' = [at EXCEPT ![t] = l]

\* The questions whose round is not over.
InRound == {t \in Asks : at[t] \notin {"idle", "giveBack", "done"}}

\* A write that counts up _ctx_version.
Write(list) ==
    /\ responseList' = list
    /\ outdated' = {t \in Asks : at[t] = "summary"}

\* A conversation that was restored, or a new one.
Stored(n) == [i \in 1..(2 * n) |->
                 IF i % 2 = 1 THEN User(Old[(i + 1) \div 2])
                 ELSE Assistant(Old[i \div 2], 1, FALSE)]

CtxInit ==
    /\ \E n \in 0..Len(Old) : responseList = Stored(n) /\ timed = (n > 0)
    /\ responseQueue = << >>
    /\ roundActive = FALSE /\ isStopped = TRUE
    /\ compaction = FALSE
    /\ at = [t \in Commands |-> "idle"]
    /\ answers = [t \in Asks |-> 0]
    /\ goOn = [t \in Asks |-> FALSE]
    /\ snapshot = [t \in Asks |-> NoSnapshot]
    /\ outdated = {} /\ beside = {}

-----------------------------------------------------------------------------
(* The round of one question. *)

\* ask_ai claims the round and writes the question.
Claim(t) ==
    /\ at[t] = "idle" /\ ~roundActive
    /\ roundActive' = TRUE /\ isStopped' = FALSE
    /\ Write(Append(responseList, User(t)))
    /\ Goto(t, "start")
    /\ beside' = IF InRound = {} THEN beside ELSE beside \cup InRound \cup {t}
    /\ UNCHANGED <<responseQueue, compaction, timed, answers, goOn, snapshot>>

\* response_ai begins: what is queued joins the history, and the first round of
\* a conversation, every twentieth or one after a long pause gets a time reading.
Begin(t) ==
    /\ at[t] = "start"
    /\ LET merged == responseList \o responseQueue
       IN  \/ Write(TimeInserted(merged))
           \/ /\ timed
              /\ IF responseQueue # << >> THEN Write(merged)
                 ELSE UNCHANGED <<responseList, outdated>>
    /\ responseQueue' = << >>
    /\ timed' = TRUE
    /\ Goto(t, "preflight")
    /\ UNCHANGED <<roundActive, isStopped, compaction, answers, goOn, snapshot, beside>>

\* Mutation: every user message begins a round of its own.
TakeSnapshotByMessage(t, after) ==
    LET opens == {i \in DOMAIN responseList : responseList[i].role = "user"}
        from  == Max({i \in opens : Cardinality({j \in opens : j >= i}) >= KEEP_ROUNDS})
    IN  IF Cardinality(opens) <= KEEP_ROUNDS
        THEN Goto(t, after) /\ UNCHANGED <<snapshot, outdated>>
        ELSE /\ snapshot' = [snapshot EXCEPT ![t] =
                    [old  |-> SubSeq(responseList, 1, from - 1),
                     keep |-> SubSeq(responseList, from, Len(responseList)), after |-> after]]
             /\ outdated' = outdated \ {t}
             /\ Goto(t, "summary")

\* The first half of _compress_old_rounds: under the lock, with nothing to do
\* when there are not more rounds than it keeps.
TakeSnapshot(t, after) ==
    IF Cardinality(Opens(responseList)) <= KEEP_ROUNDS
    THEN Goto(t, after) /\ UNCHANGED <<snapshot, outdated>>
    ELSE /\ snapshot' = [snapshot EXCEPT ![t] =
                [old  |-> SubSeq(responseList, 1, NewestFrom(responseList, KEEP_ROUNDS) - 1),
                 keep |-> Newest(responseList, KEEP_ROUNDS), after |-> after]]
         /\ outdated' = outdated \ {t}
         /\ Goto(t, "summary")

\* The preflight of manage_context: a scheduled compaction comes first.
ApplyCompaction(t) ==
    /\ at[t] = "preflight" /\ compaction
    /\ compaction' = FALSE
    /\ TakeSnapshot(t, "preflight")
    /\ UNCHANGED <<responseList, responseQueue, roundActive, isStopped, timed, answers,
                   goOn, beside>>

Preflight(t) ==
    /\ at[t] = "preflight" /\ ~compaction
    /\ \/ Goto(t, "wait") /\ UNCHANGED <<snapshot, outdated>>     \* the request fits
       \/ Goto(t, "reduce") /\ UNCHANGED <<snapshot, outdated>>   \* EMERGENCY_RATIO
       \/ TakeSnapshot(t, "reduce")                               \* TRIGGER_HISTORY_RATIO
    /\ UNCHANGED <<responseList, responseQueue, roundActive, isStopped, compaction, timed,
                   answers, goOn, beside>>

Compressed(t, summarized) ==
    (IF summarized THEN <<Summary>> ELSE << >>) \o snapshot[t].keep

\* Mutation: the version is not compared.
ReplaceUnchecked(t) ==
    /\ at[t] = "summary"
    /\ \E summarized \in BOOLEAN : responseList' = Compressed(t, summarized)
    /\ outdated' = {u \in Asks \ {t} : at[u] = "summary"}
    /\ Goto(t, snapshot[t].after)
    /\ snapshot' = [snapshot EXCEPT ![t] = NoSnapshot]
    /\ UNCHANGED <<responseQueue, roundActive, isStopped, compaction, timed, answers,
                   goOn, beside>>

\* The second half, when the summary has arrived or its request has failed: the
\* old rounds are replaced, unless the history changed in between.
Replace(t) ==
    /\ at[t] = "summary"
    /\ IF t \in outdated
       THEN outdated' = outdated \ {t} /\ UNCHANGED responseList
       ELSE \E summarized \in BOOLEAN :
               /\ responseList' = Compressed(t, summarized)
               /\ outdated' = {u \in Asks \ {t} : at[u] = "summary"}
    /\ Goto(t, snapshot[t].after)
    /\ snapshot' = [snapshot EXCEPT ![t] = NoSnapshot]
    /\ UNCHANGED <<responseQueue, roundActive, isStopped, compaction, timed, answers,
                   goOn, beside>>

\* Mutation: the last round is dropped as well.
DropOldestRoundOfAll(t) ==
    /\ at[t] \in {"reduce", "shrink"}
    /\ LET rounds == Cardinality(Opens(responseList))
       IN  /\ rounds > 0
           /\ responseList' = IF rounds = 1 THEN << >> ELSE Newest(responseList, rounds - 1)
    /\ UNCHANGED <<responseQueue, roundActive, isStopped, compaction, timed, at, answers,
                   goOn, snapshot, outdated, beside>>

\* _drop_oldest_round: one turn of _emergency_reduce's loop.  _ctx_version stays.
DropOldestRound(t) ==
    /\ at[t] \in {"reduce", "shrink"}
    /\ LET rounds == Cardinality(Opens(responseList))
       IN  /\ rounds > 1
           /\ responseList' = Newest(responseList, rounds - 1)
    /\ UNCHANGED <<responseQueue, roundActive, isStopped, compaction, timed, at, answers,
                   goOn, snapshot, outdated, beside>>

\* _emergency_reduce ends: the estimate fits, or one round is left.
Reduced(t) ==
    /\ at[t] \in {"reduce", "shrink"}
    /\ Goto(t, CASE at[t] = "reduce" -> "wait"
                 [] at[t] = "shrink" /\ goOn[t] -> "preflight"
                 [] OTHER -> "validate")
    /\ UNCHANGED <<responseList, responseQueue, roundActive, isStopped, compaction, timed,
                   answers, goOn, snapshot, outdated, beside>>

\* The answer: with a tool call while the bound allows another one behind it.
Answer(t) ==
    /\ at[t] = "wait"
    /\ \E calls \in BOOLEAN :
           /\ calls => answers[t] < MaxReplies - 1
           /\ Write(Append(responseList, Assistant(t, answers[t] + 1, calls)))
           /\ goOn' = [goOn EXCEPT ![t] = calls]
           /\ Goto(t, IF calls THEN "tool" ELSE "merge")
    /\ answers[t] < MaxReplies
    /\ answers' = [answers EXCEPT ![t] = @ + 1]
    /\ UNCHANGED <<responseQueue, roundActive, isStopped, compaction, timed, snapshot,
                   beside>>

\* response_chat raises: the round is over, the history stays.
RequestFails(t) ==
    /\ at[t] = "wait"
    /\ Goto(t, "finish")
    /\ UNCHANGED <<responseList, responseQueue, roundActive, isStopped, compaction, timed,
                   answers, goOn, snapshot, outdated, beside>>

RunTool(t) ==
    /\ at[t] = "tool"
    /\ Write(Append(responseList, Tool(t, answers[t])))
    /\ Goto(t, "merge")
    /\ UNCHANGED <<responseQueue, roundActive, isStopped, compaction, timed, answers,
                   goOn, snapshot, beside>>

\* _merge_response_queue_locked behind an answer.
Merge(t) ==
    /\ at[t] = "merge"
    /\ IF responseQueue # << >> THEN Write(responseList \o responseQueue)
       ELSE UNCHANGED <<responseList, outdated>>
    /\ responseQueue' = << >>
    /\ goOn' = [goOn EXCEPT ![t] = @ \/ responseQueue # << >>]
    /\ Goto(t, "weigh")
    /\ UNCHANGED <<roundActive, isStopped, compaction, timed, answers, snapshot, beside>>

\* manage_context behind an answer, with the usage the provider reported.
Weigh(t) ==
    /\ at[t] = "weigh"
    /\ \/ /\ Goto(t, IF goOn[t] THEN "preflight" ELSE "validate")
          /\ UNCHANGED <<snapshot, outdated>>
       \/ TakeSnapshot(t, "shrink")
    /\ UNCHANGED <<responseList, responseQueue, roundActive, isStopped, compaction, timed,
                   answers, goOn, beside>>

\* _validate_sequence: it reads the history without the lock ...
Scan(t) ==
    /\ at[t] = "validate"
    /\ snapshot' = [snapshot EXCEPT ![t].keep = Validated(responseList)]
    /\ Goto(t, "clean")
    /\ UNCHANGED <<responseList, responseQueue, roundActive, isStopped, compaction, timed,
                   answers, goOn, outdated, beside>>

\* ... and writes what it kept when the length differs by then.
Clean(t) ==
    /\ at[t] = "clean"
    /\ IF Len(snapshot[t].keep) # Len(responseList) THEN Write(snapshot[t].keep)
       ELSE UNCHANGED <<responseList, outdated>>
    /\ snapshot' = [snapshot EXCEPT ![t] = NoSnapshot]
    /\ Goto(t, "finish")
    /\ UNCHANGED <<responseQueue, roundActive, isStopped, compaction, timed, answers,
                   goOn, beside>>

\* finish_round_or_take_next: a round for what is still queued, or the release.
Finish(t) ==
    /\ at[t] = "finish"
    /\ isStopped' = (responseQueue = << >>)
    /\ roundActive' = IF responseQueue = << >> THEN FALSE ELSE roundActive
    /\ Goto(t, IF responseQueue = << >> THEN "giveBack" ELSE "start")
    /\ UNCHANGED <<responseList, responseQueue, compaction, timed, answers, goOn,
                   snapshot, outdated, beside>>

\* ask_ai's finally releases once more, whoever owns the round by then.
GiveBack(t) ==
    /\ at[t] = "giveBack"
    /\ roundActive' = FALSE /\ isStopped' = TRUE
    /\ Goto(t, "done")
    /\ UNCHANGED <<responseList, responseQueue, compaction, timed, answers, goOn,
                   snapshot, outdated, beside>>

-----------------------------------------------------------------------------
(* Other commands. *)

\* add_external_message: into the history of an idle conversation, else queued.
Relay(t) ==
    /\ at[t] = "idle"
    /\ IF isStopped
       THEN Write(Append(responseList, User(t))) /\ UNCHANGED responseQueue
       ELSE /\ responseQueue' = Append(responseQueue, User(t))
            /\ UNCHANGED <<responseList, outdated>>
    /\ Goto(t, "done")
    /\ UNCHANGED <<roundActive, isStopped, compaction, timed, answers, goOn, snapshot,
                   beside>>

\* compact_history, which claims the round while it looks.
Compact(t) ==
    /\ at[t] = "idle" /\ ~roundActive
    /\ compaction' = (compaction \/ Cardinality(Opens(responseList)) > KEEP_ROUNDS)
    /\ isStopped' = TRUE
    /\ Goto(t, "done")
    /\ UNCHANGED <<responseList, responseQueue, roundActive, timed, answers, goOn,
                   snapshot, outdated, beside>>

AskStep(t) ==
    \/ Claim(t) \/ Begin(t) \/ ApplyCompaction(t) \/ Preflight(t) \/ Replace(t)
    \/ DropOldestRound(t) \/ Reduced(t) \/ Answer(t) \/ RequestFails(t) \/ RunTool(t)
    \/ Merge(t) \/ Weigh(t) \/ Scan(t) \/ Clean(t) \/ Finish(t) \/ GiveBack(t)

CtxNext == \/ \E t \in Asks : AskStep(t)
           \/ \E t \in Relays : Relay(t)
           \/ \E t \in Compacts : Compact(t)

CtxSpec == CtxInit /\ [][CtxNext]_ctxVars

-----------------------------------------------------------------------------
(* Properties. *)

\* The messages somebody wrote: neither a summary nor a time reading.
Words(list) == {list[i] : i \in DOMAIN list} \ {Summary, Time}

CtxTypeOK ==
    /\ responseList \in Seq(Message)
    /\ responseQueue \in Seq({User(r) : r \in Relays})
    /\ roundActive \in BOOLEAN /\ isStopped \in BOOLEAN
    /\ compaction \in BOOLEAN /\ timed \in BOOLEAN
    /\ \A t \in Asks : /\ at[t] \in {"idle", "start", "preflight", "summary", "reduce",
                                     "shrink", "wait", "tool", "merge", "weigh", "validate",
                                     "clean", "finish", "giveBack", "done"}
                       /\ (at[t] = "summary") = (snapshot[t].after # "none")
    /\ answers \in [Asks -> 0..MaxReplies]
    /\ goOn \in [Asks -> BOOLEAN]
    /\ outdated \subseteq {t \in Asks : at[t] = "summary"}
    /\ beside \subseteq Asks

\* A compression takes nothing out of a history but the rounds it summarized:
\* what others wrote while the summary was requested is still there (the reason
\* for _ctx_version, chat_param.py:1265-1270), even when a round that was given
\* back twice let them write into the history of a running one.
CompressionKeepsTheRest ==
    [][\A t \in Asks : at[t] = "summary" /\ at'[t] # "summary"
         => Words(responseList) \ Words(snapshot[t].old) \subseteq Words(responseList')]_ctxVars

\* Where the newest n questions of a history stand.
IsQuestion(m) == m.role = "user" /\ m # Time
NewestQuestions(list, n) ==
    {i \in DOMAIN list :
        /\ IsQuestion(list[i])
        /\ Cardinality({j \in (i + 1)..Len(list) : IsQuestion(list[j])}) < n}

\* The newest KEEP_ROUNDS questions live through a compression word for word,
\* whatever time readings and relayed messages stand between them.
NewestQuestionsStay ==
    [][\A t \in Asks : at[t] = "summary" /\ at'[t] # "summary"
         => \A i \in NewestQuestions(responseList, KEEP_ROUNDS) :
                responseList[i] \in Words(responseList')]_ctxVars

\* The request that is to answer a question carries it: neither compression nor
\* the emergency reduction takes the question out before the first answer.  Only
\* questions that share a round given back twice may lose theirs: the other's
\* answer ends the turn they stand in, and a reduction then drops it.
QuestionIsAsked ==
    \A t \in Asks \ beside :
        at[t] = "wait" /\ answers[t] = 0 => User(t) \in Words(responseList)

\* (Does not hold.)  A compaction the player scheduled and that was skipped,
\* because the history changed meanwhile, is retried by the next preflight
\* (chat_param.py:1268-1270): the flag is gone by then.
SkippedCompactionIsRetried ==
    [][\A t \in Asks : t \in outdated /\ at[t] = "summary" /\ at'[t] = "preflight"
         => compaction']_ctxVars
=============================================================================
