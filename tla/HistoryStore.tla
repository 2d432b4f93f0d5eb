----------------------------- MODULE HistoryStore -----------------------------
(***************************************************************************)
(* The stored conversation of one user: the ChatParam that all_chat_param  *)
(* registers, its row in the chat_history table, and everything that reads *)
(* or writes the two at the same time:                                     *)
(*                                                                         *)
(*   Rounds     the thread of a question: ask_ai -> _run_ai_round          *)
(*   Senders    messages for this user (send_message_to_player_ai)         *)
(*   Switches   `!!ask switch` (switch_model)                              *)
(*   Clears     `!!gamesai clear`, `clear <name>`, `clearall`              *)
(*   Instances  the plugin is loaded, unloaded, killed and loaded again    *)
(*                                                                         *)
(* Every load of the plugin is an instance with module globals of its own. *)
(* Threads that an old instance started outlive its unload.  A ChatParam   *)
(* is named after the thread or the load that created it, a message after  *)
(* its author: the question of a round stands for all the round writes.    *)
(*                                                                         *)
(* Who owns a round is the subject of ConversationRounds; here a thread    *)
(* owns it until it gives it back, and a question that finds it taken      *)
(* waits its turn.  Rows of different users never meet: a row is one       *)
(* statement on its own key.                                               *)
(***************************************************************************)
EXTENDS Naturals, FiniteSets

CONSTANTS
    Rounds, Senders, Switches, Clears,
    Loads,          \* bound: how often the plugin is loaded
    None            \* no conversation is registered

Instances == 1..Loads
Authors == Rounds \cup Senders
Savers  == Rounds \cup Senders \cup Switches    \* threads that call _save_history
Threads == Savers \cup Clears
Makers  == Rounds \cup Switches \cup Instances  \* who creates a ChatParam

(* The plugin is loaded at least once; the actors are different things. *)
ASSUME LoadsCount == Loads \in Nat \ {0}
ASSUME ActorsDisjoint ==
    /\ Rounds \cap Senders = {} /\ Rounds \cap Switches = {} /\ Rounds \cap Clears = {}
    /\ Senders \cap Switches = {} /\ Senders \cap Clears = {} /\ Switches \cap Clears = {}
    /\ Threads \cap Instances = {}
    /\ None \notin Makers

VARIABLES
    phase,          \* of the plugin: "down", "loading" or "up"
    instance,       \* the instance loaded last; 0 before the first load
    frozen,         \* _history_frozen of each instance
    registered,     \* all_chat_param[user] of each instance
    history,        \* response_list of each ChatParam
    queue,          \* response_queue of each ChatParam
    owned,          \* its round is claimed (is_stopped is clear)
    row,            \* the user's rows in chat_history: {} or {a record}
    loadedRow,      \* what the current load read
    pc,             \* where each thread is
    home,           \* the instance whose globals a thread sees
    held,           \* the ChatParam a thread works on
    record,         \* to_record's snapshot
    \* The rest only records the past; no action reads it.
    stale,          \* the row was used by someone else since this actor looked
    staleWrite,     \* a stale actor acted on what it had seen
    completed,      \* authors whose _save_history stored them
    dropped,        \* messages cleared, or handed to a switch
    rowOf,          \* the ChatParams whose record the row holds
    gone,           \* ChatParams whose clear is finished
    failed          \* what the store refused: "read" at a load, "write"

pluginVars == <<phase, instance, frozen, loadedRow>>
convVars   == <<history, queue, owned>>
threadVars == <<home, held, record>>
vars == <<pluginVars, registered, convVars, row, pc, threadVars,
          stale, staleWrite, completed, dropped, rowOf, gone, failed>>

Records == [history : SUBSET Authors, queue : SUBSET Authors]
Messages(r) == r.history \cup r.queue
Holds(m)    == history[m] \cup queue[m]         \* has_history: it is not empty
InTable     == UNION {Messages(r) : r \in row}
Empty       == [history |-> {}, queue |-> {}]

SavePCs == {"look", "take", "save", "delete"}   \* inside _save_history, checked
PCs     == SavePCs \cup {"idle", "claim", "round", "append", "rewrite", "check",
                         "giveBack", "drop", "done"}
Goes(t, l) == pc' = [pc EXCEPT ![t] = l]

\* Where _save_history returns to: a round still owns its conversation.
Saved(t) == IF t \in Rounds THEN "giveBack" ELSE "done"

Init ==
    /\ phase = "down"
    /\ instance = 0
    /\ frozen = [i \in Instances |-> FALSE]
    /\ registered = [i \in Instances |-> None]
    /\ history = [m \in Makers |-> {}]
    /\ queue = [m \in Makers |-> {}]
    /\ owned = [m \in Makers |-> FALSE]
    /\ row = {}
    /\ loadedRow = {}
    /\ pc = [t \in Threads |-> "idle"]
    /\ home = [t \in Threads |-> 0]
    /\ held = [t \in Threads |-> None]
    /\ record = [t \in Savers |-> Empty]
    /\ stale = [a \in Savers \cup Instances |-> FALSE]
    /\ staleWrite = FALSE
    /\ completed = {}
    /\ dropped = {}
    /\ rowOf = {}
    /\ gone = {}
    /\ failed = {}

\* Everyone but a who has looked at the row or the registration, and has not
\* acted on it yet, is out of date from here on.
OutdatesOthers(a) ==
    stale' = [b \in Savers \cup Instances |->
                 \/ stale[b]
                 \/ b # a /\ b \in Savers /\ pc[b] \in SavePCs
                 \/ b # a /\ b = instance /\ phase = "loading"]

-----------------------------------------------------------------------------
(* _save_history, for the three callers. *)

\* Mutation: a conversation that was cleared is stored as well.
SaveStartsUnregistered(t) ==
    /\ pc[t] = "check"
    /\ ~frozen[home[t]]
    /\ stale' = [stale EXCEPT ![t] = FALSE]
    /\ Goes(t, "look")
    /\ UNCHANGED <<pluginVars, registered, convVars, row, threadVars,
                   staleWrite, completed, dropped, rowOf, gone, failed>>

\* Not frozen, and still the registered conversation: go on and store it.
SaveStarts(t) ==
    /\ pc[t] = "check"
    /\ ~frozen[home[t]]
    /\ registered[home[t]] = held[t]
    /\ stale' = [stale EXCEPT ![t] = FALSE]
    /\ Goes(t, "look")
    /\ UNCHANGED <<pluginVars, registered, convVars, row, threadVars,
                   staleWrite, completed, dropped, rowOf, gone, failed>>

SaveSkipped(t) ==
    /\ pc[t] = "check"
    /\ frozen[home[t]] \/ registered[home[t]] # held[t]
    /\ Goes(t, Saved(t))
    /\ UNCHANGED <<pluginVars, registered, convVars, row, threadVars,
                   stale, staleWrite, completed, dropped, rowOf, gone, failed>>

\* has_history: an empty conversation is not stored, its row is deleted.
SaveLooks(t) ==
    /\ pc[t] = "look"
    /\ Goes(t, IF Holds(held[t]) = {} THEN "delete" ELSE "take")
    /\ UNCHANGED <<pluginVars, registered, convVars, row, threadVars,
                   stale, staleWrite, completed, dropped, rowOf, gone, failed>>

\* to_record
TakeRecord(t) ==
    /\ pc[t] = "take"
    /\ record' = [record EXCEPT ![t] = [history |-> history[held[t]],
                                        queue |-> queue[held[t]]]]
    /\ Goes(t, "save")
    /\ UNCHANGED <<pluginVars, registered, convVars, row, home, held,
                   stale, staleWrite, completed, dropped, rowOf, gone, failed>>

\* ChatHistoryStore.save: INSERT OR REPLACE
StoreRecord(t) ==
    /\ pc[t] = "save"
    /\ row' = {record[t]}
    /\ rowOf' = {held[t]}
    /\ completed' = completed \cup (Authors \cap {t})
    /\ staleWrite' = (staleWrite \/ stale[t])
    /\ OutdatesOthers(t)
    /\ Goes(t, Saved(t))
    /\ UNCHANGED <<pluginVars, registered, convVars, threadVars, dropped, gone, failed>>

\* ChatHistoryStore.delete of a conversation that holds nothing
DeleteEmpty(t) ==
    /\ pc[t] = "delete"
    /\ row' = {}
    /\ rowOf' = {}
    /\ staleWrite' = (staleWrite \/ stale[t])
    /\ OutdatesOthers(t)
    /\ Goes(t, Saved(t))
    /\ UNCHANGED <<pluginVars, registered, convVars, threadVars, completed, dropped,
                   gone, failed>>

\* The store raises (a locked or full database); it is logged and forgotten.
StoreFails(t) ==
    /\ pc[t] \in {"save", "delete"}
    /\ failed' = failed \cup {"write"}
    /\ Goes(t, Saved(t))
    /\ UNCHANGED <<pluginVars, registered, convVars, row, threadVars,
                   stale, staleWrite, completed, dropped, rowOf, gone>>

Save(t) == \/ SaveStarts(t) \/ SaveSkipped(t) \/ SaveLooks(t) \/ TakeRecord(t)
           \/ StoreRecord(t) \/ DeleteEmpty(t) \/ StoreFails(t)

-----------------------------------------------------------------------------
(* The callers. *)

\* ask_ai, under _conversations_lock: the registered conversation, or a new one.
AskFindsConversation(t) ==
    /\ phase = "up"
    /\ pc[t] = "idle"
    /\ LET found == registered[instance]
       IN  IF found = None
           THEN /\ registered' = [registered EXCEPT ![instance] = t]
                /\ held' = [held EXCEPT ![t] = t]
           ELSE /\ held' = [held EXCEPT ![t] = found]
                /\ UNCHANGED registered
    /\ home' = [home EXCEPT ![t] = instance]
    /\ Goes(t, "claim")
    /\ UNCHANGED <<pluginVars, convVars, row, record, stale, staleWrite, completed,
                   dropped, rowOf, gone, failed>>

\* The round is claimed and runs: queued messages and everything it writes end
\* up in the history, whether it is answered, stopped or fails.
AskClaims(t) ==
    /\ pc[t] = "claim"
    /\ ~owned[held[t]]
    /\ owned' = [owned EXCEPT ![held[t]] = TRUE]
    /\ Goes(t, "round")
    /\ UNCHANGED <<pluginVars, registered, history, queue, row, threadVars, stale,
                   staleWrite, completed, dropped, rowOf, gone, failed>>

RoundWrites(t) ==
    /\ pc[t] = "round"
    /\ history' = [history EXCEPT ![held[t]] = @ \cup queue[held[t]] \cup {t}]
    /\ queue' = [queue EXCEPT ![held[t]] = {}]
    /\ Goes(t, "check")
    /\ UNCHANGED <<pluginVars, registered, owned, row, threadVars, stale,
                   staleWrite, completed, dropped, rowOf, gone, failed>>

RoundEnds(t) ==
    /\ pc[t] = "giveBack"
    /\ owned' = [owned EXCEPT ![held[t]] = FALSE]
    /\ Goes(t, "done")
    /\ UNCHANGED <<pluginVars, registered, history, queue, row, threadVars, stale,
                   staleWrite, completed, dropped, rowOf, gone, failed>>

Round(t) == \/ AskFindsConversation(t) \/ AskClaims(t) \/ RoundWrites(t)
            \/ Save(t) \/ RoundEnds(t)

\* send_message_to_player_ai: a message never creates a conversation.
RelayFindsConversation(r) ==
    /\ phase = "up"
    /\ pc[r] = "idle"
    /\ LET found == registered[instance]
       IN  /\ held' = [held EXCEPT ![r] = found]
           /\ Goes(r, IF found = None THEN "done" ELSE "append")
    /\ home' = [home EXCEPT ![r] = instance]
    /\ UNCHANGED <<pluginVars, registered, convVars, row, record, stale, staleWrite,
                   completed, dropped, rowOf, gone, failed>>

\* add_external_message: into the history, or the queue while a round runs.
RelayAppends(r) ==
    /\ pc[r] = "append"
    /\ IF owned[held[r]]
       THEN /\ queue' = [queue EXCEPT ![held[r]] = @ \cup {r}]
            /\ UNCHANGED history
       ELSE /\ history' = [history EXCEPT ![held[r]] = @ \cup {r}]
            /\ UNCHANGED queue
    /\ Goes(r, "check")
    /\ UNCHANGED <<pluginVars, registered, owned, row, threadVars, stale, staleWrite,
                   completed, dropped, rowOf, gone, failed>>

Deliver(r) == RelayFindsConversation(r) \/ RelayAppends(r) \/ Save(r)

\* switch_model: a conversation it creates itself is not stored.
SwitchFindsConversation(w) ==
    /\ phase = "up"
    /\ pc[w] = "idle"
    /\ LET found == registered[instance]
       IN  IF found = None
           THEN /\ registered' = [registered EXCEPT ![instance] = w]
                /\ held' = [held EXCEPT ![w] = w]
                /\ Goes(w, "done")
           ELSE /\ held' = [held EXCEPT ![w] = found]
                /\ Goes(w, "claim") \/ Goes(w, "check")   \* the same model: "check"
                /\ UNCHANGED registered
    /\ home' = [home EXCEPT ![w] = instance]
    /\ UNCHANGED <<pluginVars, convVars, row, record, stale, staleWrite, completed,
                   dropped, rowOf, gone, failed>>

\* change_model: once the round is free, the raw history goes to the hand-off,
\* which is not stored.
SwitchClaims(w) ==
    /\ pc[w] = "claim"
    /\ ~owned[held[w]]
    /\ owned' = [owned EXCEPT ![held[w]] = TRUE]
    /\ Goes(w, "rewrite")
    /\ UNCHANGED <<pluginVars, registered, history, queue, row, threadVars, stale,
                   staleWrite, completed, dropped, rowOf, gone, failed>>

SwitchClearsHistory(w) ==
    /\ pc[w] = "rewrite"
    /\ dropped' = dropped \cup Holds(held[w])
    /\ history' = [history EXCEPT ![held[w]] = {}]
    /\ queue' = [queue EXCEPT ![held[w]] = {}]
    /\ Goes(w, "giveBack")
    /\ UNCHANGED <<pluginVars, registered, owned, row, threadVars, stale, staleWrite,
                   completed, rowOf, gone, failed>>

SwitchGivesBack(w) ==
    /\ pc[w] = "giveBack"
    /\ owned' = [owned EXCEPT ![held[w]] = FALSE]
    /\ Goes(w, "check")
    /\ UNCHANGED <<pluginVars, registered, history, queue, row, threadVars, stale,
                   staleWrite, completed, dropped, rowOf, gone, failed>>

Switch(w) == \/ SwitchFindsConversation(w) \/ SwitchClaims(w)
             \/ SwitchClearsHistory(w) \/ SwitchGivesBack(w) \/ Save(w)

\* The three clear commands: the object is unregistered ...
ClearUnregisters(c) ==
    /\ phase = "up"
    /\ pc[c] = "idle"
    /\ registered' = [registered EXCEPT ![instance] = None]
    /\ dropped' = IF registered[instance] = None
                  THEN dropped ELSE dropped \cup Holds(registered[instance])
    /\ held' = [held EXCEPT ![c] = registered[instance]]
    /\ home' = [home EXCEPT ![c] = instance]
    /\ Goes(c, "drop")
    /\ UNCHANGED <<pluginVars, convVars, row, record, stale, staleWrite, completed,
                   rowOf, gone, failed>>

\* ... and then the row is deleted, whatever it holds by now.
ClearDeletesRow(c) ==
    /\ pc[c] = "drop"
    /\ row' = {}
    /\ rowOf' = {}
    /\ gone' = gone \cup ({held[c]} \cap Makers)
    /\ stale' = [b \in Savers \cup Instances |->
                    \/ stale[b]
                    \/ b \in Savers /\ pc[b] \in SavePCs /\ held[b] = held[c]
                    \/ b = instance /\ phase = "loading"]
    /\ staleWrite' = (staleWrite \/ rowOf \ {held[c]} # {})
    /\ Goes(c, "done")
    /\ UNCHANGED <<pluginVars, registered, convVars, threadVars, completed, dropped, failed>>

\* The deletion raises; it is logged and forgotten.
ClearFails(c) ==
    /\ pc[c] = "drop"
    /\ failed' = failed \cup {"write"}
    /\ Goes(c, "done")
    /\ UNCHANGED <<pluginVars, registered, convVars, row, threadVars,
                   stale, staleWrite, completed, dropped, rowOf, gone>>

Clear(c) == ClearUnregisters(c) \/ ClearDeletesRow(c) \/ ClearFails(c)

-----------------------------------------------------------------------------
(* The plugin. *)

\* on_load of the next instance; _restore_all_histories reads the table ...
LoadReads(i) ==
    /\ phase = "down"
    /\ i = instance + 1
    /\ phase' = "loading"
    /\ instance' = i
    /\ frozen' = [frozen EXCEPT ![i] = FALSE]
    /\ loadedRow' = row
    /\ stale' = [b \in Savers \cup Instances |->
                    \/ b \in Savers /\ (stale[b] \/ pc[b] \in SavePCs)]
    /\ UNCHANGED <<registered, convVars, row, pc, threadVars, staleWrite, completed,
                   dropped, rowOf, gone, failed>>

\* ChatParam.restore: history and waiting queue come back from the record.
Restore(i, r) ==
    /\ history' = [history EXCEPT ![i] = r.history]
    /\ queue' = [queue EXCEPT ![i] = r.queue]

\* ... and registers what it read; a record that holds nothing is deleted.
LoadRegisters(i) ==
    /\ phase = "loading"
    /\ i = instance
    /\ phase' = "up"
    /\ staleWrite' = (staleWrite \/ stale[i])
    /\ \/ /\ loadedRow = {}
          /\ UNCHANGED <<registered, history, queue, row, rowOf, stale>>
       \/ \E r \in loadedRow :
            /\ Messages(r) # {}
            /\ Restore(i, r)
            /\ registered' = [registered EXCEPT ![i] = i]
            /\ rowOf' = {i}
            /\ UNCHANGED <<row, stale>>
       \/ \E r \in loadedRow :
            /\ Messages(r) = {}
            /\ row' = {}
            /\ rowOf' = {}
            /\ OutdatesOthers(i)
            /\ UNCHANGED <<registered, history, queue>>
    /\ UNCHANGED <<instance, frozen, loadedRow, owned, pc, threadVars, completed,
                   dropped, gone, failed>>

\* load_all raises, or the row cannot be used (an unknown format, no AI entry for
\* it, unreadable JSON): nothing is registered and the row stays where it is.
LoadSkips(i) ==
    /\ phase = "loading"
    /\ i = instance
    /\ phase' = "up"
    /\ failed' = failed \cup {"read"}
    /\ UNCHANGED <<instance, frozen, loadedRow, registered, convVars, row, pc, threadVars,
                   stale, staleWrite, completed, dropped, rowOf, gone>>

\* Mutation: the unloaded instance goes on storing.
UnloadUnfrozen ==
    /\ phase = "up"
    /\ phase' = "down"
    /\ UNCHANGED <<instance, frozen, loadedRow, registered, convVars, row, pc, threadVars,
                   stale, staleWrite, completed, dropped, rowOf, gone, failed>>

\* on_unload: the instance stores nothing any more; its threads run on.
Unload ==
    /\ phase = "up"
    /\ phase' = "down"
    /\ frozen' = [frozen EXCEPT ![instance] = TRUE]
    /\ UNCHANGED <<instance, loadedRow, registered, convVars, row, pc, threadVars,
                   stale, staleWrite, completed, dropped, rowOf, gone, failed>>

\* The process dies: every thread with it.  Only the database is left.
Crash ==
    /\ phase # "down"
    /\ phase' = "down"
    /\ pc' = [t \in Threads |-> IF pc[t] = "idle" THEN "idle" ELSE "done"]
    /\ UNCHANGED <<instance, frozen, loadedRow, registered, convVars, row, threadVars,
                   stale, staleWrite, completed, dropped, rowOf, gone, failed>>

Plugin == \/ \E i \in Instances : LoadReads(i) \/ LoadRegisters(i) \/ LoadSkips(i)
          \/ Unload \/ Crash

\* The last load of the bound is over and every thread has ended.
Terminated ==
    /\ phase = "down"
    /\ instance + 1 \notin Instances
    /\ \A t \in Threads : pc[t] \in {"idle", "done"}
    /\ UNCHANGED vars

Next ==
    \/ \E t \in Rounds   : Round(t)
    \/ \E r \in Senders  : Deliver(r)
    \/ \E w \in Switches : Switch(w)
    \/ \E c \in Clears   : Clear(c)
    \/ Plugin
    \/ Terminated

Spec == Init /\ [][Next]_vars

-----------------------------------------------------------------------------
\* Every variable stays in its range; the primary key of chat_history leaves
\* one row per user.
TypeOK ==
    /\ phase \in {"down", "loading", "up"}
    /\ instance \in Instances \cup {0}
    /\ phase # "down" => instance \in Instances
    /\ frozen \in [Instances -> BOOLEAN]
    /\ registered \in [Instances -> Makers \cup {None}]
    /\ history \in [Makers -> SUBSET Authors]
    /\ queue \in [Makers -> SUBSET Authors]
    /\ owned \in [Makers -> BOOLEAN]
    /\ row = {} \/ \E r \in Records : row = {r}
    /\ loadedRow = {} \/ \E r \in Records : loadedRow = {r}
    /\ pc \in [Threads -> PCs]
    /\ home \in [Threads -> Instances \cup {0}]
    /\ held \in [Threads -> Makers \cup {None}]
    /\ record \in [Savers -> Records]
    /\ stale \in [Savers \cup Instances -> BOOLEAN]
    /\ staleWrite \in BOOLEAN
    /\ completed \subseteq Authors
    /\ dropped \subseteq Authors
    /\ rowOf \subseteq Makers
    /\ gone \subseteq Makers
    /\ failed \subseteq {"read", "write"}

\* "A conversation that was cleared while a round of it was still in flight
\* cannot be written back" (docs/en_us/ai-request-pipeline.md): the table never
\* holds a record of a conversation whose clear is finished.
ClearIsFinal == rowOf \cap gone = {}

\* What the registration test of _save_history achieves: a clear is only undone
\* by a thread that had already passed the test when the row was deleted.
ClearIsFinalUnlessStale == ~staleWrite => ClearIsFinal

\* "Everything up to the last completed round is already on disk" (on_unload):
\* whatever a finished _save_history stored is in the table at every moment
\* after -- crashes, unloads and reloads included -- until a clear or a switch
\* drops it.
CompletedRoundsSurvive ==
    ~staleWrite /\ "read" \notin failed => completed \ dropped \subseteq InTable

\* Nothing is under way: no round or command between its write and the end of
\* its save.
Quiescent == phase = "up" /\ \A t \in Threads : pc[t] \in {"idle", "claim", "done"}

\* When nothing is under way, the row is the registered conversation as it is in
\* memory, and there is no row when there is no conversation or an empty one.
StoredIsCurrent ==
    Quiescent /\ ~staleWrite /\ failed = {} =>
        LET m == registered[instance]
        IN  row = IF m = None \/ Holds(m) = {}
                  THEN {} ELSE {[history |-> history[m], queue |-> queue[m]]}

=============================================================================
