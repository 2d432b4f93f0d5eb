# GamesAI: formal models, checks and proofs

GamesAI (`src/games_ai/`) is a plugin for MCDReforged, the Python server manager
of Minecraft. Players talk to language models with `!!ask`; several servers can
be joined into a cluster around a hub; the plugin updates itself, drives a bot
and stores every conversation. Commands run on threads of their own, so most of
what the program promises is a promise about interleavings.

This directory holds TLA+ modules of the parts that keep state, TLC
configurations that check them on small instances, and proofs (TLAPS) that hold
for every instance.

## 1. Inventory

| Component | State it keeps | Operations | Hard behaviour | Correct when |
|---|---|---|---|---|
| Conversation rounds (`ai/chat_param.py`, `ask_ai` in `__init__.py`) | history, forced queue, pending questions, round flag, `is_stopped`, stop and round epochs | ask, forced ask, stop, tool calls, merge, abort, validate | three locks, one unlocked read, owner loop, requests of a minute, stops at any time | one owner; no question lost or doubled; every request well formed; a stop is honoured |
| Model switch, compaction | pending hand-off, pending compaction | `change_model`, `compact_history` | wait-then-claim loop, deferred summary | nothing is forgotten but what is documented; nobody waits forever |
| Messages between assistants | recipient's history or queue | `send_message_to_player_ai` | idle test, then queue | never inside a tool-call group; survives a restart |
| Stored conversations (`_save_history`, `core/database.py`, `commands/clear.py`) | one row per user, `all_chat_param`, `_history_frozen` | save, restore, clear, freeze | check-then-write, threads of an unloaded instance, crashes | a completed round survives; a clear is final; the row follows the memory |
| Context window | counters, calibration, `_ctx_version` | compress, truncate, drop, inject time | summary request outside the lock | nothing appended meanwhile is lost; groups stay intact |
| Stateless questions | registry of running `-n` rounds | register, stop, unregister | stop while the request is in flight | a stopped answer is thrown away |
| Hub and node client (`cluster/websockets_*.py`) | peers, pending calls, connections | register, take over, send, reply, abort, stop, reconnect | lost and late replies, replaced connections, timeouts, a link that drops at one end first | a call runs at most once and its answer is honest; whoever waits can be woken; the table is what the threads serve |
| Enrolment (`websockets_server.py`, `commands/node.py`) | node table, outstanding requests, tokens | enrol, issue, rotate, revoke, verify | races between operators and nodes, expiry, limits | a revoked or rotated token never admits; limits hold |
| Role decision (`cluster/cross_server.py`) | mode, hub, node, stopping flag, role file | start, stop, restart, probe | stop during a slow decision, two instances that start | who was a client does not take the hub's place; the link is the one of the role |
| Command and tool routing (`__init__.py`, `cluster/ws_command.py`, `ai/games_ai_tool.py`) | sessions, routes | forward, fan out, execute, reply | the link drops under a command | a command runs where it must, once |
| Update round, updater (`update/`) | stages per node, rounds seen, backup | order, acknowledge, stage, catch up, replace, roll back | late and lost acknowledgements, crash while replacing | one worker; a stage never goes back; a usable file remains |
| Bot controller and process (`bot/`) | task queue, cycle users, process | queue, cycle, stop, launch, tear down | stop during a cycle | a stopped task is not continued |
| Reload | configuration | reload | reload beside a running round, beside another reload | a running round keeps its client; the bot follows the configuration |
| Dependency gate (`core/deps.py`) | repair record, pip child | claim, install, abort, finish, self-reload | reload or crash during an install | one pip at a time; a finished repair loads; nobody is turned away for nothing |
| Public database, provider client, help, permissions, clock, settings, logger | - | single statements, formatting, I/O | none that interleaves | left to the tests |

How they interact: a command thread enters through `register_commands` and its
route (here, at the hub, or everywhere), the hub's connection threads run remote
commands through the same handlers, `ask_ai` uses the conversation of
`all_chat_param`, a round's tools may write into other conversations, every
round, switch and delivery ends in `_save_history`, and load and unload replace
the module globals under threads that run on.

## 2. What is modelled

### ConversationRounds

One `ChatParam` and the commands that use it at the same time. A step is a
section between two acquisitions of `_round_lock`, `_stop_lock` or `_ctx_lock`,
or one unlocked access.

| Model | Code |
|---|---|
| `roundActive`, `pendingAsks` | `_round_active`, `_pending_asks` under `_round_lock` |
| `isStopped` | the `is_stopped` event |
| `stopEpoch`, `roundEpoch` | `_stop_epoch`, `_round_epoch` under `_stop_lock` |
| `responseList`, `responseQueue`, `handOff` | `response_list`, `response_queue`, `_pending_hand_off["messages"]` |
| `batch`, `claimedHere`, `reply`, `cleaned` | locals of `ask_ai`, `response_ai`, `tool_call`, `_validate_sequence` |
| `AskClaims` ... `ReleaseAgain` | `ask_ai`, `response_ai` and what they call, in the order of the code |
| `RequestStop`, `StopFindsNothing` | `request_stop` |
| `RelayFindsIdle`, `RelayToHistory`, `RelayFindsRound`, `ForcedAdd` | `add_external_message` |
| `SwitchStarts` ... `GiveBack` | `change_model` to another model |
| `CompactFindsRound`, `CompactClaims`, `GiveBack` | `compact_history` |

The locking is kept as it is: `try_claim_round` and `queue_pending_ask` are two
steps, `_validate_sequence` computes without a lock and replaces later,
`response_ai` begins the round a second time, `release_round` does not know who
owns the round. A look at the stop and what follows it are two steps each:
`AcceptReply` is the test of an answer and `ReceiveReply` its use, `BeginToolCall`
the test in front of a tool and `RunToolCall` the tool. A relayed message keeps
`_ctx_lock` from its look at `is_stopped` to its append (`RelayFindsIdle`,
`RelayToHistory`; `CtxFree` is the lock): who writes the history waits for it, a
switch's claim and snapshot, which take other locks, do not. Questions are
identified with their threads. `strayRelease`, `stopped`, `arrivals` and `forgotten`
record the past for the properties; no action reads them. `forgotten` holds whose
words a switch dropped: what waited in the queue it cleared, a hand-off whose summary
failed, a pending hand-off that a second switch replaced by its own snapshot, and
what was relayed between its snapshot and its clearing.

Left out: texts, notes about servers and skills, usage counters; time readings
and compressions are in ContextWindow. Histories are short (no more than
`KEEP_ROUNDS` rounds), so a compaction finds nothing to schedule. Replies to the
player (`source.reply`) change nothing and do not raise
(`cluster/ws_command.py`: "Never raises").

### HistoryStore

The row of one user against everything that reads or writes it: the three
callers of `_save_history` (rounds, deliveries, switches), the clear commands,
load, unload and crash. Every load is an *instance* with module globals of its
own (`frozen`, `registered`); threads of an old instance run on after its
unload. `_save_history` is five steps: the test of freeze and registration
(`SaveStarts`, `SaveSkipped`), `has_history` (`SaveLooks`), `to_record`
(`TakeRecord`), and the statement (`StoreRecord`, `DeleteEmpty`, or
`StoreFails`). A load reads the table and registers later, and may not be able
to (`LoadSkips`).

The rounds' content is a set of authors: a question stands for all its round
writes. The ownership is the subject of the other module; here a thread owns
the conversation until it gives it back, and a question that finds it owned
waits instead of joining the owner's batch. Rows of other users never meet
this one.

`stale` and `staleWrite` mark a thread that acts on something another one has
changed since it looked: the places where the code is a check followed by a
write without a lock. The properties that do hold are stated without such
writes; the findings show what happens with them.

### RemoteCall and HubLink

`RemoteCall` is what a caller may rely on: a call runs at most once, ends at
most once, "ran" and "refused" are true -- also of what happens afterwards --
and "unknown" promises nothing. `HubLink` is the code that has to keep it:

| Model | Code |
|---|---|
| `peers`, `hubPending`, `handler`, `previous` | `_peers`, `_pending` of `CrossServerHub`; the position of each `_handler` thread, its local `previous` |
| `listed`, `unsent` | the locals `names` and `connections` of `_push_peers` |
| `link`, `linked`, `nodePeers`, `nodePending`, `fatal`, `stopping`, `lastRid` | the position of `_run`; `_conn`, `_peers`, `_pending`, `_fatal`, `_stopping`, `_rid` of `CrossServerNode` |
| `hubUp`, `nodeUp`, `up`, `down`, `closed4003` | the connection: which end still believes in it, the frames under way, the close code |
| `call`, `via`, `rid`, `box`, `answer` | a caller inside `send(..., wait=True)`: position, connection, `request_id`, reply slot, result |
| `Register` ... `AbortPeer` | `_handler` with `_handshake`, `_on_frame`, `_push_peers`, `_abort_pending` |
| `HubStops` ... `HubEnds` | `CrossServerHub.stop` |
| `Dial` ... `ReadReply`, `NodeStops`, `Restart` | `_run`, `_handshake`, `_session`, `_on_frame`, `stop`, a new object |
| `HubCalls`, `NodeCalls`, `Enlist` ... `TimesOut` | `send` of both ends |

A step is a section under `_lock`, a send, or a read of a frame. A connection
breaks at one end first (`Breaks`); the other end sends into nothing until
`Notices`. Frames an end has not read when it leaves are lost. The library
(`websockets`) is external: frames arrive in order and not twice.

Left out: broadcasts and events other than the list of peers, probes, pings, the
refusals of a handshake (Enrolment has them: here every hello is accepted), the frames a
bot may not send, the shrinking of large frames (a send may fail at any time,
`TransmitFails`). A node comes back only after its old link thread has ended; the code
joins it for five seconds. Every server has a name of its own, so a takeover is a node
that meets its own older connection. The mapping to RemoteCall (`Stage`, `Outcome`)
counts a call that was given the reply to another one while it waited (`crossed`) as not
knowing. `breaks`, `replaced`, `crossed` and `overlapped` record the past; no action
reads them but the bound of `Breaks`.

### ArchiveSwap

`update/updater.py` with the lock and the check loop around it. A file is the
version of the whole archive in it, or missing, or torn.

| Model | Code |
|---|---|
| `disk`, `part` | the live file, its `.bak` and `.restore`; `<name>.part` |
| `loaded` | `_loaded_version`, what MCDR reports |
| `busy`, `checkDue` | `update_lock` of the loaded instance; the first check of `cyclic_check_updates` |
| `th` | a thread: its position, `expected` of `_restore_verified`, `unload_first`, the sentence it ends with |
| `StartDownload` ... `Verify` | `prepare` |
| `Backup` ... `CheckLoaded` | `apply_archive` |
| `CopyBack` ... `Confirm` | `_restore_backup` and `_restore_verified` |
| `ReloadPlugin`, `LoadByHand`, `Crash`, `Boot`, `Publish` | the world (external) |

Every file operation may fail, a copy also half-way; `unload_plugin` and
`load_plugin` may do nothing, and a load may bring a build that another file
provides. A thread goes on after its instance was unloaded: the new instance has
a lock of its own. Somebody who loads by hand what an update left waits until no
update is at work. `overlapped` records that a reload by the operator let two
updates run at once, which neither lock prevents; the safety properties are
stated without it.

### UpdateRound

`update/update_round.py`: the hub's thread, the connection threads and the nodes.

| Model | Code |
|---|---|
| `pc`, `round`, `stage`, `already`, `snap`, `todo`, `cur`, `slot`, `watched` | the thread that holds `update_lock`, `_update_round` and its entries, the locals of `_order_cluster_update` and `_wait_for_cluster_update`, the reply slot of `hub.send` |
| `catchup`, `recent` | a scheduled `_catch_up_round`, `_last_catchup` |
| `reg`, `online` | `peer_versions`, `peers` |
| `worker`, `job` | `_update_order_thread` of a node and its arguments |
| `down`, `upward` | orders, acknowledgements and reports under way |
| `PickCandidates` ... `OrdersDone` | `_order_cluster_update` |
| `WaitNodesSettled`, `StageDeadline`, `Poll`, `RejoinDeadline` | `_wait_for_cluster_update` |
| `ReadFrame`, `Register`, `Unregister` | `_on_update_result`, `_handler` with `_on_peer_registered` |
| `ReadOrder` ... `NodeLoads` | `_on_update_order`, `_node_update_worker` |

A deadline may run out as soon as it runs. How a plugin is swapped is the
subject of ArchiveSwap: here a swap ends on the new version or the old one,
after any time. What an older connection of a node still carried when the node
registers again is lost. The test of `_update_rounds_seen` is left out: a hub
orders a node once in a round, and each round has an id of its own. `excused`
and `blind` record the past for the properties.

### Enrolment

Who may join: the hub's node table, the operator's `node` commands and the token
each instance keeps in a file of its own. Every method of the table is atomic
under `_nodes_lock` and saves before it lets go; a command or a handshake that
calls several of them is several steps.

| Model | Code |
|---|---|
| `nodes`, `pending`, `disk`, `rate` | `_nodes`, `_enrol_pending`, the file of `_save_node_table`, `_enrol_rate` |
| `op` | the thread of the operator's commands (`commands/node.py`): position and what it has read |
| `conn` | a `_handler` thread inside `_handshake`, with the token of its hello |
| `ident`, `claiming`, `link`, `carried` | `_load_identity`'s file (the bot's: its config.json), a token `node claim` has probed, the link and the token it was started with |
| `rewriting`, `RewriteReads`, `RewriteWrites` | `_write_mineflayer_config` with `_read_bot_token`: the token it has read and will write back |
| `TokenCommand` ... `TokenIssue`, `RotateCommand` ... `RotateIssue`, `Revoke`, `SyncLocalBotToken` | `issue_token`, `rotate`, `revoke`, `_sync_local_bot_token` |
| `Dial`, `Enrol`, `AutoIssue`, `StoreBotToken`, `Verify`, `ExpiresIn`, `RecordSeen`, `Register` | `_handshake`, in the order of the code |
| `Start`, `ClaimProbe`, `ClaimSave`, `Forget`, `Drop` | the instance's side |
| `Expire`, `GetStale`, `WindowPasses`, `Restart` | time, and a hub that comes back with what the file has |

Tokens and requests are numbers in the order they are made; what hashing hides is
not modelled. A save may fail, which the code logs; so may a write of the bot's config
(`WriteBotConfig`), which leaves the old file or an empty one while the handshake goes
on. The config is rewritten without a lock whenever the bot is launched or pointed to
another hub; who reads it while it is written finds no token, and a process that ends
in the middle leaves none. `dead`, `closed`, `unsaved` and `mixed` record the past for
the properties.

### RoleDecision

Instances of one machine that share a `websocket.uri`, from a load to the link
and back. A manager is `<<instance, load>>`, because a decision may outlive the
load that began it: `stop()` waits two seconds for it at most.

| Model | Code |
|---|---|
| `listener`, `loopback`, `foreign` | the sockets on the machine: a shared hub, a hub for the local bot, somebody else's program |
| `decide` | the thread of `_start_cross_server`: position, mode, what it read of the role file and of its own token |
| `hub`, `node`, `stopping`, `stopped`, `current` | `CrossServerManager`'s references and flag, the two of `_stop_cross_server`, `_cross_server` |
| `role`, `token` | the role file, the identity |
| `Load` ... `Remember` | `decide_mode`, `_probe_with_grace`, `CrossServerManager.start` with `_abandon`, `_decide` |
| `Unload`, `Claim`, `Forget`, `StopTakes`, `Crash` | `_stop_cross_server` for its callers, `stop`, the death of the process |
| `Foreign`, `Reconnect`, `Break` | the world; a node's link as HubLink has it |

A hub accepts the tokens of its own table (`Accepted`); what an instance holds was
made by the hub of another one, so no instance becomes the client of its own hub.

### CommandRouting

Extends RoleDecision: a typed command is routed over roles that change while it
is under way. `cmd` is the routing thread of a command (`_route`,
`_fan_out_cluster`, `_forward_command`), `job` a thread that runs a command for
another instance (`_run_remote_command`), `wire` the frames under way, `session`
the table of `ws_command.py` with its limit. A job may route a tool call back to
where its command was typed (`RouteTool` ... `ToolUnknown`); an answer may travel
over the hub (`HubRelays`). `ran`, `shown` and `toolRan` record what happened. A
frame is lost with the connection it is on. Every command has one answer; texts,
permissions and what the handlers do are left out, and so are broadcasts of chat
and of players' servers.

### ContextWindow

How a history is kept within the window while others write to it:
`manage_context` (`Preflight`, `Weigh`), `_compress_old_rounds` with its snapshot,
the request outside the lock and the version test (`TakeSnapshot`, `Replace`),
the compaction a player has scheduled (`Compact`, `ApplyCompaction`), the
emergency reduction round by round (`DropOldestRound`), the split of a history
into rounds (`Opens`, `Newest`), the time reading (`TimeInserted`) and
`_validate_sequence` beside it (`Scan`, `Clean`). What a request weighs is a choice
of the step that estimates it, because a text may have any length. Claiming a
round is one step here; the second release of `ask_ai` is kept (`GiveBack`),
because that is what lets others write into the history of a running round.

`_split_rounds` is a loop with a carry; the module says what it comes to: where a
round opens (`Opens`), and that the newest n rounds begin at the n-th opening from
the end. MCContext has the loop too, as a fold, and assumes nothing of the two but
lets TLC compare them on every list of up to six messages (`RoundsAreCutRight`).

`beside` marks a question whose round ran beside another one's, which a round that is
given back twice makes possible. `QuestionIsAsked` excepts them: the other's answer
ends the turn that both stand in, and an emergency reduction may then drop that turn
before the question was answered. It takes three questions to see it.

### StatelessAsk

`!!ask -n`: the loop of `NonHistoryChatParam.response_ai` (`MarkRunning` ...
`EndRound`), the registry (`Register`, `Unregister`) and a stop that finds the
question in it first and marks it later (`FindTracked`, `RequestStop`).

### BotController

The thread that works on delegated tasks in cycles (`Wake` ... `EndCycle`), the tools
that delegate (`Delegate`), a player's stop, which drains the queue message by message
and puts back what is not his (`StopTakesOne` ... `StopLooks`), and the controller's own
stop. A `get` or `put` of the queue is one step. The flag of a stopped cycle is read
without the lock it is set under, so each look is a step and what follows it another:
`BeginTool` and `RunTool` (which takes as long as the tool), and at the end
`CloseCycle`, `KeepFresh`, `TrimConversation`. A reply is the number of its tool calls,
which nothing limits: `MaxCalls` may be as large as the window. `hit` (where the cycle
was when a stop found its player in it) and `crowded` (some reply had as many calls as
the window has messages) record the past. Left out: pause, `reload_config`, the prompt
of an idle cycle.

### BotProcess

The node process and the threads that start, stop and replace it: the launch at
load, reloads, a role change, the unload, the repair of the packages. `abort` and
`token` are `_mineflayer_pending_abort` and `_mineflayer_launch_token`, `waiter`
the thread that waits for the server, `my` what a thread has read. `Intent` ...
`StartController` are `_run_mineflayer_bot`, `_wait_server_then_launch`,
`_launch_mineflayer_bot`; `Cancel` ... `Kill` are `_cancel_pending_bot_launch` and
`_stop_bot_stack`. `wanted` and `crossed` record the past.

Simplified: whether `node` is installed is settled; its `--version` may time out, the
packages may fail, and the controller may not come up. Stopping the controller ends it.
A role change leaves the bot alone when the hub's address is the same or no config is
loaded (`Repoint`). A repair asks, as the code does, whether the process that printed
the line is still the module's one, not whether it lives (`RepairBegins`).

`BotIsAsWanted` says what is there when nothing is under way: a bot that is wanted
has a process that runs and one controller that acts, the one the module knows, or a
thread waits for the server; a bot that is not wanted has neither process nor link nor
controller. It excepts what the program does not keep, each by its name in `crossed`:

| In `crossed` | What happened |
|---|---|
| `repair` | a stop took the process that a repair then replaces |
| `second` | an intent while another launch is past its wait, or its controller still stands |
| `waiter` | a launch left to a thread whose token is stale |
| `overtaken` | the rest of an older stop takes what a newer launch has made |
| `late` | a stop met a launch past its last look at the flag: that controller may stay |
| `failed`, `bare` | the launch gave up; the controller could not be made (until the next intent) |

### DepsRepair

A start without the packages: every load is an instance with a flag (`pending`),
an abort event and a thread (`at`) that runs on when its instance was unloaded;
shared are the packages (`there`) and the record in `cache/`. `Import`,
`OnLoadWorks` and `OnLoadRepairs` are the gate, `BeginInstall` and `FinishInstall`
the record (truncated, then dumped; or not written at all), `FirstAttempt` ...
`Verify` the two attempts with abort and timeout, `Reload` the self-reload. A
crash may leave pip running. Packages are only ever added. A record gets too old
only without a thread behind it: two attempts of 300 s end within
`STALE_INSTALL_SECONDS`.

### The proof modules

| Module | Theorems about |
|---|---|
| ConversationRoundsProofs | ConversationRounds |
| HubLinkProofs | HubLink |
| UpdateRoundProofs | UpdateRound |
| EnrolmentProofs | Enrolment |
| CommandRoutingProofs | CommandRouting with RoleDecision |
| ContextProofs | ContextWindow, StatelessAsk and HistoryStore |
| InstallerProofs | ArchiveSwap and DepsRepair |
| BotProofs | BotProcess and BotController |

See section 5. Two modules that share a run have specifications of their own
(`CtxSpec` and `NhSpec`, `DepsSpec`, `ProcSpec` and `BotSpec`); the specification of
the run is one of the two with the other at rest, so a theorem of either says what the
run checks. `Spec` is HistoryStore's in ContextProofs, ArchiveSwap's in
InstallerProofs.

## 3. Runs

Every configuration takes model values for the threads; those of one kind are
interchangeable where the run has only safety properties (`Symmetry` in the MC
modules). `MaxCalls` (tool calls in one reply) and `MaxToolReplies` (replies
with calls in a behaviour) bound the model's answers; `Loads` bounds the loads.
A constraint limits which commands are typed in one behaviour.

| Run | Instance | Shows |
|---|---|---|
| Rounds | `OneMix`: 2 questions, 1 forced, 1 stop; or 3 questions; or 1 of each with a relayed message; or a switch with a question and a forced one, or with a question, a relayed message and a compaction; or a question, a relayed message and two switches; one reply of up to 2 tool calls | `RequestsAreWellFormed`, `NothingLost`, `RoundOwnership`, `ArrivalOrder`, `StoppedRoundTurnsBack` |
| RoundsLive | `OneLiveMix`: 2 questions, 1 forced, 1 stop; or 2 questions and a switch; or a question, a relayed message, a switch and a compaction | `QueuedBehindRoundDelivered`, `CommandsFinish` |
| Store | `ThreeCommands`: any three of 2 rounds, 1 delivery, 1 switch, 1 clear; 2 loads | `CompletedRoundsSurvive`, `ClearIsFinalUnlessStale` |
| Link | 2 nodes, up to 2 connections each, one of: both start and a connection breaks; one node with a call and a break, a stop of the hub, or a stop and a new node object; two calls on one connection; a call from node to node | `TableMatchesThreads`, `WaitingCanBeWoken`, `ListsAreCurrent`, `CallsKeepPromise` (refinement of RemoteCall) |
| LinkLive | both nodes start; or one node with a call and a break, a stop of the hub, or a stop of the node | `DroppedPeerWakes`, `Reconnects` |
| Swap | 2 updates, 2 releases, 1 reload by the operator, any number of crashes and loads by hand; or a start without packages: 2 packages, 2 reloads or unloads by the operator, 1 crash, 1 record that cannot be written | `PreviousKept`, `ClaimsAreTrue`, `OneRepairAtATime`, `SuccessIsLoaded` |
| Update | 2 nodes on the hub's version, a newer one, or of a build without orders; `Bounded`: two rounds, or one with a broken link or one such odd node | `HubGoesLast`, `ReadyRunsTheVersion`, `StagesAdvance` |
| Enrol | a server, another one that was given the bot's name, and the bot; one of: a server's tokens with a hub that dies, a save that fails and a token that expires; two that ask to join, one of them too late; one name for two instances; the bot's tokens over two connections; the bot's config under one rewrite and one write that fails | `TableKept`, `AdmissionIsCurrent`, `NoSilentTakeover`, `BotConfigFollows` |
| Cluster | 2 or 3 instances, 2 loads each, from the first load or from a settled cluster; one of: everybody reloads; a slow decision; two that start while somebody else takes the port; a command while roles are decided; two commands; a command and a reload; a cluster command over three | `ClientsStayClients`, `RoleMatchesLink`, `RunsOnce`, `ToolsRunAtHome`, `AnswersStayWithTheTypist` |
| Context | 3 questions, or 2 with a relayed message and a compaction, up to 2 stored rounds, `KEEP_ROUNDS` 2; or 2 stateless questions and a stop, 2 answers each | `QuestionIsAsked`, `CompressionKeepsTheRest`, `NewestQuestionsStay`, `StoppedIsSilent` |
| Bot | one of seven sets of threads around the process (up to 3 processes, 1 that dies by itself); or one controller with 3 tasks, a stop and 2 replies, or 2 tasks, 2 stops and 3 replies; a window of 3 messages, replies of up to 3 calls | `ProcessIsKnown`, `BotIsAsWanted`, `TaskIsSomewhere`, `ConversationIntact`, `StoppedCycleLeavesNothing` |

Why the bounds are enough: two questions make one owner and one that is queued,
a third one arrives while the owner serves the second; two calls make a group
with a beginning, a middle and an end; one stop hits every step of a round,
and a second one would find the same epochs one further; two loads make an old
and a new instance, and a third only repeats the pair. Three commands on a row
are two that race and one that changes the ground under them. In Link, two
connections are an old one and the one that replaces it, and one break at
either end is enough for a takeover (the node notices first and dials again
while the hub still serves the old one). Two calls share a connection, a table
and the counter of ids; one call meets each of the events by itself. Two updates
are one that meets what the other left, or runs beside it; two releases let the
second one be newer. In Update, two nodes are one that is waited for and one that
is ordered, fails or comes back meanwhile; the second round meets what the first
left under way.

In Enrol, a name has the token before and the one after a rotation (the bot a third one,
because two connections may provision it at once; its config is rewritten once while
that happens, before it and after it), and the waiting list and an address hold one
request, so the second one meets the limit. In Cluster, two loads are a manager that
still decides and the next one of the same instance; a third instance is only needed for
a command that runs at two nodes. In Context, the stored rounds put the first question
past `KEEP_ROUNDS`, so a compression has something to take and something to leave; two
questions race, and the third one is claimed behind a round that was given back twice
(there with one answer each and a history of up to seven messages). In Bot, three
processes are one that is replaced twice, and a window of three messages holds one group
and the beginning of the next, or the results of one reply of three calls and nothing
else. In Swap's starts without packages, one reload makes an instance whose pip is being
killed and one that starts beside it; the second lets two of them be at the record
together.

Two modules that share a run (MCContext, MCBot, MCInstaller) share no state: a
behaviour is one of the one or of the other.

The constraints only leave commands untyped, which a player may do as well: a
behaviour they cut is continued by another one in which the command is not
typed. That is why they are sound for the liveness run too: fairness asks
nothing of a command that was not started, and no step of a started command
leaves the constraint.

Fairness (`FairSpec`) is weak fairness for every command that was started: its
thread is scheduled, and the HTTP client ends every request. Whether a command
is typed is nobody's duty (`Started`). Stops need none; they are one step.

In `FairSpec` of HubLink every thread of the hub and of a node runs, every caller
that is not waiting goes on, and the library tells both ends of a dead
connection (close frames, keepalive pings). Nobody has to start or stop a server,
break a connection, ask, or run into a timeout: `DroppedPeerWakes` is checked
without that help. It makes an exception the code makes: a caller whose
connection was taken over by a newer one of the same name is not woken and does
wait for its timeout.

Deadlock is checked in Rounds, Store, Link, Swap and Update: a state in which a
command is under way and nothing can happen would be reported; `Terminated` and
`Resting` only rest when none is. The runs of the other modules stop where the
commands, deaths or loads a mix has are used up (`CHECK_DEADLOCK FALSE`).

## 4. What the checks found

This run checks one sentence of the repository and ends in a counterexample.

| Run | The sentence | What happens |
|---|---|---|
| FindLostAsk | "The owner thread drains the queue when its round ends" (`chat_param.py:1630`) | The owner ends between a failed claim and the queueing; the question waits for the next command. |

More sentences that the code does not keep; the property stands in the module
without a run of its own:

| Property | The sentence | What happens |
|---|---|---|
| `ClearIsFinal` (HistoryStore) | "cannot be written back" (`docs/en_us/ai-request-pipeline.md:136`) | A save tests the registration, the clear runs, the save writes. |
| `RepliesMatch` (HubLink) | "answered with exactly one `reply`, matched by `request_id`" (`docs/en_us/cross-server.md:128`) | A reload starts a node object that counts ids from 1; the late reply to the old object's call ends a new call. |
| `FailedRoundEnds` (ArchiveSwap) | "a failed round simply ends" (`docs/en_us/cross-server.md:395`) | The build that a rollback loads is a new instance; its first check installs the same release again. |
| `HubWaitsForAll` (UpdateRound) | "Only "failed" and "unsupported" are settled" (`update_round.py:470`) | The stage deadline does not lower an "accepted" node to "timeout", so nobody watches it and the hub unloads while it works. |
| `OneRoundAtATime` (ConversationRounds) | "exactly one thread may run this conversation's rounds at a time" (`chat_param.py:1764`) | The `finally` of `ask_ai` releases again after `finish_round_or_take_next` already did, and takes the round away from the thread that claimed it in between. |
| `SnapshotKept` (ConversationRounds) | "switching again before that request keeps the original snapshot" (`chat_param.py:2174`, `docs/en_us/ai-request-pipeline.md:155`) | A message relayed after the first switch makes the new history non-empty; the second switch takes a snapshot of it in place of the pending one, and the old conversation is dropped. |
| `StopNeverLost` (ConversationRounds) | "a stop request is never lost even if another round starts later" (`chat_param.py:583`) | `response_ai` takes the epoch again and forgets a stop accepted since the claim. |
| `OnlyRefusalsAreFatal` (HubLink) | "Every other failure (...) is retried with backoff" (`websockets_client.py:40`) | Between `Register` and `SendAck` another thread pushes the list of peers; the node reads it as a wrong first frame and gives up for good. |
| `StoppedHoldsNoLink` (HubLink) | "Close the link and join the thread." (`websockets_client.py:296`) | `stop()` finds no `_conn` yet; the handshake sets it afterwards and the session runs on. |
| `SomeArchiveLeft` (ArchiveSwap) | "never leave the server without GamesAI" (`updater.py:585`) | A reload gives the new instance a free lock; its update removes the `.bak` while the first one has already deleted the live file. |
| `BotNeverStranded` (Enrolment) | the config holds the bot's token, which it cannot claim itself | A rotation issues behind a handshake that provisions the bot, and whoever writes the config last need not be who wrote the table last; a rewrite writes back the token it has read before (`__init__.py:1342`); the write fails, is logged and forgotten (`__init__.py:1312`); or the hub's process ends between the two writes. |
| `DroppedStaysDropped` (Enrolment) | a request that `node revoke` dropped is gone | A save that failed leaves the request in the file; the hub's next start brings it back. |
| `EnrolledNeverHub` (RoleDecision) | "an enrolled instance never takes the hub role" but for its role memory | `decide_mode` looks at the port a second time; if the hub has gone in between, the instance binds it. |
| `NoListenerLeft` (RoleDecision) | what `stop()` leaves behind | `stop()` comes between `_abandon`'s test and the assignment of the hub; nobody closes it. |
| `ClientNeverRunsOwn` (CommandRouting) | "must not run them with its own state" (`_route`) | The link is down at the first look (nothing to forward to) and up again at the second (nothing to refuse). |
| `SkippedCompactionIsRetried` (ContextWindow) | a skipped compression is retried (`chat_param.py:1268`) | The flag of a scheduled compaction is cleared before the attempt; a skipped one is not made again. |
| `AcceptedStopIsKept` (StatelessAsk) | an accepted stop silences the answer | A stop between the mark and `begin_round` is taken for an old one. |
| `EveryTaskIsInReach` (BotController) | "The queued task is removed, and the cycle executing it stops" (`docs/en_us/ai-request-pipeline.md:175`) | The cycle has drained the task and not yet published its users; the stop finds it in neither. |
| `DeferredLaunchIsServed` (BotProcess) | "already waiting" for the server (`__init__.py:1404`) | The new intent has made the waiting thread's token stale; it gives up and nobody launches. |
| `LeaveIsFollowed` (BotProcess) | `!!aibot leave` sends the bot away | Its reload is turned away because another one runs, which has read the config before. |
| `DisabledStaysDown` (BotProcess) | "a bot that was not running is never started here" (`__init__.py:2168`) | The test comes before the decision and the cancellation; a bot that dies or is stopped in between is started all the same. |
| `StartIsRepaired` (DepsRepair) | "on a start where one of them is missing it reports it (...), installs the missing ones with pip and reloads itself" (`docs/en_us/troubleshooting.md:13`) | A reload aborts the install under way; the next instance reads "installing" before the old thread has noticed, is turned away and stays idle. |
| `UnloadLeavesNothing` (BotProcess) | "must not outlive this decision" (`__init__.py:1473`) | A launch past its last look at the flag starts its controller after the unload has taken the controller; a repair of the packages, which has no look at the flag, starts its process after the unload. |

Two more, which the properties of the runs except by name: a message relayed while a
switch starts goes "straight into the history, so it is stored together with it and read
at the next question" (`chat_param.py:1923`), and is neither when it is appended between
the switch's snapshot and its clearing (`NothingLost`, `forgotten`); and a reply of the
controller with as many tool calls as its window has messages leaves a window of results
without their reply (`mineflayer_ai.py:578`; `ConversationIntact`, `crowded`), which a
provider refuses from then on.

TLC found these true too; they are in no run: the types of the modules (UpdateRound's
and others are proved, see section 5), `StoredIsCurrent` (HistoryStore),
`LiveFileChangesUnloaded` (ArchiveSwap, proved), `NeverBackwards` (UpdateRound),
`NewestCanBeStopped` (StatelessAsk, proved).

Seen while modelling: a stop that comes behind the test of an answer, or while a tool
runs, is reported as accepted though the answer or the tool is still used
(`chat_param.py:2103`, `mineflayer_ai.py:407`); a delete that fails reports "the
previous file was loaded again" from the answer of `load_plugin` alone
(`updater.py:412`, against `updater.py:536`); a dropped link while an acknowledgement is
awaited is recorded as "failed" (`update_round.py:345`, against
`websockets_server.py:1274`); a node that registers between the two reads of a round is
ordered without its version being known, and may be pushed backwards (`blind`); a node
that registers past the candidates of a running round is covered by nobody (against
`update_round.py:683`).

## 5. What is proved

`ConversationRoundsProofs` proves, for every number of commands of each kind
and every bound, from the assumptions `KindsDisjoint` and `BoundsAreNumbers`:

- **ControlTypes**: `Spec => []ControlTypeOK`. `AddQuestion` takes the tail of a
  batch, so the types alone are not inductive; `BatchInv` (an owner that writes
  its batch has a question left) makes them so.
- **Ownership**: `Spec => []RoundOwnership`. Relative to the types the invariant
  is inductive: a claim needs `~roundActive`, which says that nobody owns the
  round; a release by the owner leaves nobody; a release by anybody else either
  finds nobody or sets `strayRelease`. `response_ai` therefore never claims.
- **StoppedRounds**: `Spec => StoppedRoundTurnsBack`. `StopInv` says that the
  epoch of a stopped running round is older than the stop epoch: a new epoch is
  only taken while no thread is inside `response_ai` past `begin_round`
  (Ownership), so `StopRequested` stays true until the round leaves, and every test that
  is still ahead of the round turns it back. What was past its test is one answer or
  one tool, and the theorem allows no more. `ReplyInv` types the record of calls.
- **ConversationTypes**: `Spec => []TypeOK`, the types of the histories with those
  of the control. A result is only a message of the model while the round has a call
  left (`CallsLeft`), and nobody but an owner in front of its batch has one
  (`IdleBatches`).
- **NothingIsLost**: `Spec => []NothingLost`. The words of an author can be in six
  places (`Where`): the history, the queue, the hand-off, the questions that wait, a
  batch, or dropped. Each step either leaves the places alone or hands the words
  from one to another (`Handed`, `PlaceKept`), so that one place stays one.
  What a validation keeps is a pick by position (`Picked`); a position has a rank among
  those that are kept, each rank belongs to one position (`Ranks`), and words are always
  kept. `CopyInv` is needed beside it: the copy that `_validate_sequence` stores without
  a lock was computed from the history it replaces, and what a switch clears is
  its snapshot, because the owner of the round is alone. A relayed message is the
  one that writes without owning the round: `CtxInv` says that while it has the lock an
  owner is no further than adding its questions, so no copy or request is out; and what
  it appends behind a switch's snapshot (`BeingCleared`) is counted as dropped.
- **QuestionsInOrder**: `Spec => []ArrivalOrder`, by `LineInv`: of two questions in
  the order of their arrival, the later one is nowhere in front of the earlier one,
  neither inside the history, the hand-off, the questions that wait and a batch
  (`LinedUpInside`) nor from one of these to the next (`LinedUpAcross`). The queue of
  forced messages never holds one of them, a
  pick keeps the order (`RanksGrow`), and a summary stands in front of what came later.
- **RequestsWellFormed**: `Spec => []RequestsAreWellFormed`. Between the receipt
  of tool calls and the end of the clean-up the history is not well formed;
  `SoundInv` says how far it may be from it: while the calls run, the reply stands
  as many positions from the end as it has results; after that the history is
  sound, or it has one open group with nothing but words behind it (`Broken`), and
  then a stop was requested or the abort is under way. `_validate_sequence` leaves a
  sound history as long as it is, and so as it is (`SoundIsLeftAlone`); of a broken one
  it takes exactly the open group, which mends it and makes it shorter
  (`OpenGroupIsDropped`, `BrokenIsMended`). So the comparison of the lengths, by which
  the code decides whether to store the copy, decides rightly.

`HubLinkProofs` proves, for every number of servers, calls, connections, breaks
and node objects, from `NamesDiffer` and `LinkBounds`:

- **TableAlwaysMatches**: `Spec => []TableMatchesThreads`. `TableInv` adds that a
  thread remembers the connection it replaces exactly while it has to close it
  (so a live connection that lost its name has somebody who will close it), that
  `stop()` starts with nothing to close, and that a connection that was not made
  has no thread.
- **WaitingAlwaysListed**: `Spec => []WaitingCanBeWoken`. `LinkInv` says that a node
  believes in no connection but its newest one and only while its link thread is
  in the handshake or the session; `CallInv` that a node's call runs on a
  connection of the node, belongs to the present node object while that
  connection lives, and waits only while an `AbortNode` is still ahead;
  `ListedInv` that a listed call stays listed until it is woken or its
  connection is closed. So a call that could be sent is in the table, and what
  empties the table wakes it. The hub's callers take their connection from the
  table of the first theorem.
- **PromiseAlwaysKept**: `Spec => CallsKeepPromise`, the refinement of RemoteCall.
  `CallFrames` says that the frame of a call is on one of the queues and once, only
  after its caller has sent it and before it has run; `Honest` that a reply under way,
  in a slot or returned is true (of a refusal: that the frame is nowhere and the caller
  is past sending it). The lemmas about queues (`QueueShortens`, `QueueEmpties`,
  `QueueGrows`) and `QuietCall` (a step that brings no frame of a call cannot disturb
  it) leave the four steps that read the frame of a call and those of `send`. Then
  every step is `Ask`, `Run`, `End` or a stutter of RemoteCall.
- **ListsAlwaysCurrent**: `Spec => []ListsAreCurrent`. `TellInv`: as long as no two
  threads have told the servers at the same time, the one that tells has the list that
  is so, and a server whose connection stands will know it when its frames are read,
  or is still to be told, or some thread is about to look again. `AckInv`: a
  connection gets one ack, which its session has read, so the newest list is a `list`.
- **LinkTypes**: `Spec => []TypeOK`, with `runs` at most one.

`UpdateRoundProofs` proves, for every number of nodes, rounds and broken links,
from `ReleaseIsAVersion` and `RoundBounds`:

- **RoundTypes**: `Spec => []TypeOK`. `RoundOrder` makes the types inductive: the
  round's thread knows the round it runs and a node's worker the order it
  installs (so what they compare and install is a version), and at most one
  acknowledgement is awaited.
- **VerdictsStand**: `Spec => StagesAdvance`. The same invariant says that a
  candidate that is not ordered yet has no stage and that a swapped hub is down.
  So `OrderNode` only sets the stage of a node that has none, a round that begins
  has another id, and every other change goes through `SetNodeStage`, of which
  `SetNodeStageAdvances` shows that the rank never falls. What remains is one
  step per action.
- **HubIsLast**, **ReadyIsReady**: `Spec => HubGoesLast`, `Spec => ReadyRunsTheVersion`.
  `LastInv` has the history these need. Every round orders the one release the model
  has and no message is of a round to come (`OnlyTheRelease`, `NothingFromTheFuture`),
  so a node that runs the release is at work for nobody, and whoever is known to run
  it still does. A node is ordered once in a round (`OrderedOnce`), and after the last
  word about an order nobody works on it (`LastWords`). `StagesMeanIt` says what a
  stage, or the reply that is awaited, tells of the node: untouched, past its order,
  or no longer busy; `Waited` what the round has established at each place before it
  installs on the hub. Nodes a deadline or a broken link gave up (`excused`) are
  excepted throughout.

`EnrolmentProofs`, for every number of instances, names, connections, tokens,
requests, restarts and failed saves, from `BotIsAnInstance`, `NamesGiven` and
`EnrolBounds`:

- **Types**, **TableSurvives**: `Spec => []TypeOK`, `Spec => []TableKept`. `TableInv`
  says of the file what it says of the memory: the tokens it names are among those
  that were made, none of them is dead, and a token that is newer than the memory's is
  in no file; so a hub that reads its file again has a table of the same kind.
- **AdmissionHolds**: `Spec => []AdmissionIsCurrent`. `Standing` says what each place of
  a handshake has established of the hello's token when it is there; a token once dead
  stays dead, so what was refused is refused later too, and only a step that replaces
  the entry in between (which the property excepts) opens the way again.
- **TakeoverIsAsked**: `Spec => NoSilentTakeover`, from the types: `issue` looks at the
  table under the same lock.
- **BotIsProvided**: `Spec => []BotConfigFollows`. `BotInv`: unless provisionings were
  mixed at most one is under way, it carries the token of the table, a rewrite under way
  has read the token that is there, and when no provisioning is under way the config has
  the token of the table. A write puts there what it was given or counts as mixed
  (`ConfigWriteKeeps`); once mixed, the invariant asks nothing until the next token is
  made (`BotMixed`).

`CommandRoutingProofs`, for every number of instances, loads, commands and sessions,
from `LoadsBound`, `ForcedAreInstances` and `SessionsBound`:

- **ClientsDoNotServe**, **RolesMatch**: `Spec => []ClientsStayClients`,
  `Spec => []RoleMatchesLink`. `RoleInv`: one hub listens; the loads of an instance are
  numbered without a gap; a manager is being stopped exactly when it began and is its
  instance's no longer; where its sockets and references are follows from where its
  thread is (`Placed`, the longest part: a socket is bound before it is assigned, and a
  stop may come between); a thread about to bind already has the right to
  (`Entitled`).
- **AnswersReachTheTypist**: `Spec => []AnswersStayWithTheTypist`. `Owned`: a session id
  carries the instance that made it and that instance's count, so it belongs to one
  command, wherever a frame or a thread has it.
- **RunsAtMostOnce**, **ToolsStayHome**: `Spec => []RunsOnce`, `Spec => []ToolsRunAtHome`.
  `Once(c)` says where a command is: with its own thread and nobody else, handed to
  the hub and run nowhere, broadcast once, or with one thread that runs it; and of a
  routed call, that it is on its way and did not run, or that the model was told the
  truth. **RoutingTypes** comes with it.

`InstallerProofs`, for every number of releases, updates, packages, loads, crashes and
failures, from `NewestRelease`, `UpdateBounds` and `LoadsSuffice`:

- **PreviousIsKept**, **ClaimsHold**: `Spec => []PreviousKept`, `Spec => ClaimsAreTrue`.
  `SwapInv`: threads begin in turn; `Stage(t)` is what lies in the live file, the `.bak`
  and the `.restore` at each place of `apply_archive` and the rollback; `Placed(t)`
  says where the archive of the last update is when its thread is over or died. Both
  hold as long as no two updates overlap. **ChangesAreUnloaded** follows too.
- **RepairsTakeTurns**, **RepairIsLoaded**: `DepsSpec => []OneRepairAtATime`,
  `DepsSpec => []SuccessIsLoaded`. `DepsInv`: loads are numbered without a gap, on_load
  runs in the load MCDR has, a repair that looked again found every package; and
  `OneRepair`: as long as no two instances were at the file together, one repairs and
  its record is there.

`ContextProofs`, for every number of questions, relayed messages, compactions and
stops, and histories of any length, from `SomethingIsKept`, `OldAreListed`,
`NobodyIsTheClock` and `NobodyAsks`:

- **QuestionsAreAsked**: `CtxSpec => []QuestionIsAsked`. `Asked`: until a question is
  answered it stands in the last turn of the history (behind it are user messages
  only) and of what a compression under way is going to leave. The lemma behind it is
  `CutKeepsTheLastTurn`: no round opens behind the first message of a turn, so no cut
  at an opening divides it. `Alone` says that only questions of `beside` share a round.
- **CompressionIsExact**: `CtxSpec => CompressionKeepsTheRest`. `Held`: as long as the
  version is the one of a snapshot, every word of the history is in the snapshot
  (only the emergency reduction changes it then, and only takes away).
- **NewestAreKept**: `CtxSpec => NewestQuestionsStay`. A turn may begin with a time
  reading, and such a turn counts as a round; the newest rounds would hold fewer
  questions than rounds if a turn could consist of readings. `Timely` excludes it:
  directly behind a reading stands a user message, in the history and in what a
  compression or a validation under way is going to write, and no round runs in a
  history without a user message (a reading would go to its end). By
  `CutKeepsTheNewestQuestions` each round that begins behind a question then has a
  question of its own, two rounds have different ones, so fewer than `n` questions
  behind it mean that it is not in front of the newest `n` rounds. `NewestHeld`: as
  long as the version is the one of a snapshot, what it leaves has the newest
  questions of the history, because a reduction only takes rounds away in front
  (`NewestStayNewest`). `Validated` keeps neighbours of user messages by the ranks of
  the positions it keeps (`RankOfKept`).
- **StopsSilence**: `NhSpec => []StoppedIsSilent`. `Overtaken`: a stop behind
  `begin_round` keeps its epoch ahead of the round's. **WindowTypes** and
  **NewestIsFound** (`NewestCanBeStopped`) come with these.
- **RoundsSurvive**, **ClearsAreFinal** (of HistoryStore, for every number of rounds,
  senders, switches, clears and loads, from `LoadsCount` and `ActorsDisjoint`):
  `Spec => []CompletedRoundsSurvive`, `Spec => []ClearIsFinalUnlessStale`. `StoreInv`
  follows what a finished save stored and nobody dropped (`Due`): it is in the table,
  in what a load has read, and in the registered conversation (`DueIsKept`), and a
  save that is not outdated has it too (`FreshSavesHaveDue`), because such a save is
  one of the instance that is up (`FreshSaves`) and every other thread of an old
  instance is frozen (`OldThreadsFrozen`). The first step of a clear drops all that is
  due, and nothing becomes due before its deletion unless somebody was late
  (`ClearedIsNotDue`). A ChatParam is brought into play once (`InPlay`) and registered
  by one instance at most, and by none from the moment its clear begins
  (`Registrations`, `Holders`). **HistoryTypes** comes with it.

`BotProofs`, for every number of reloads, role changes, repairs and processes, and of
tasks, players, stops and replies, from `ThreadsAreApart` and `WindowIsSome`:

- **ProcessStaysKnown**: `ProcSpec => []ProcessIsKnown`. Needed beside it: who installs
  has the lock and nothing runs meanwhile (`OneInstalls`), and a stop has a process in
  hand only in front of its kill (`InHand`).
- **BotStaysAsWanted**: `ProcSpec => []BotIsAsWanted`. The property speaks about rest;
  the invariant says what is still to be done on the way. As long as none of the four
  overlaps came to pass (`Clean`) a launch is the only one, and the newest while the bot
  is wanted (`OneLaunch`); `wanted` and the abort flag meet only while the plugin is
  unloaded, and without either nothing is there (`Flags`); a launch past its wait has
  met the server (`Up`); what a stop leaves for a moment is still to be taken by it or
  by the launch (`Stopped`); a bot that is wanted runs, is being started or waits
  (`Served`), and its controller acts or is still to be started (`Attended`); whoever
  acts is the one the module knows (`OneController`). `Tokens` and `Counted` say that
  tokens and processes are numbered. It also showed that a launch past its last look at
  the flag leaves a controller only if the stop met it there.
- **HitCycleLeavesNothing**: `BotSpec => StoppedCycleLeavesNothing`, by `HitInCycle`: a
  stop that found its player keeps the flag up until the cycle ends, so a cycle hit
  before its last look never comes to `KeepFresh`; and as the conversation is no longer
  than the last trim left it, the trim at its end changes nothing.
- **TasksAreSomewhere**: `BotSpec => []TaskIsSomewhere`. `OnePlaceEach`: an open task is
  in the queue, the cycle or the hands of one stop, and at one position there; the
  count of the property follows from the cardinalities of the empty set and of
  singletons.
- **ConversationStaysIntact**: `BotSpec => []ConversationIntact`, for replies with any
  number of calls. `WholeSoFar`: what the cycle has added, with the results that are
  still to come, is whole groups, unless a stop was seen. Groups put together stay
  whole (`JoinedIntact`), and so does the end a trim leaves (`EndIntact`), which begins
  with a reply (`TrimmedConversation`). If the window is all results, the last reply has
  as many calls as the window has messages, and that is the exception (`Usable`); what
  the next cycles add behind such a window is led by a reply again (`Leads`, `Led`,
  `JoinedEnd`), so the next trim that finds one mends it.

The strengthened invariants were checked by TLC on the instances of the runs before
they were proved. Proving them changed the models twice: a node's link could go up to
a hub of its own instance (RoleDecision), and `QuestionIsAsked` was true for two
questions only (ContextWindow).

Some of the steps are about sets of positions in a list, which have a greatest and a
least element. Induction over numbers is out of the provers' reach (its theorem takes
an operator); the lemmas `MaxOfPositions` and `LeastPosition` use instead that the
finite sets are well-founded under inclusion: the set of the positions above one of
them is smallest for the greatest.

Only model-checked: liveness (`QueuedBehindRoundDelivered`, `CommandsFinish`,
`DroppedPeerWakes`, `Reconnects`), which needs fairness. Every invariant and every
action property of the passing runs is the statement of a theorem.

## 6. Plan

1. Proofs: `StoredIsCurrent`; a pending hand-off as `SnapshotKept` wants it, for
   conversations without relayed messages.
2. The refresh of the conversations' clients by a reload; broadcasts and events of
   the hub, its restart; pause and resume of the controller.
3. UpdateRound: that every round ends (liveness), and the role a node decides while
   the hub is down.
4. Abstract specifications: a mailbox that delivers every accepted question once
   (implemented by ConversationRounds without stray releases), a durable map of
   conversations (implemented by HistoryStore without stale writes).

## 7. Not modelled, and why

The public database (one lock around every statement), the provider client (one
request), help, permissions, clock, logger and settings (no interleaving state),
and the embedded JavaScript bot (another program).

`_reload_body` passes over a conversation whose round runs, by a test that is over
when it replaces the client of the next one (`__init__.py:3387`). What it replaces
is one reference, which a round reads once for each request; a mix would send one
request with the new client under the old name. No module has it yet.

What the models assume of the code that is outside: frames of a connection arrive
in order and not twice; SQLite's statements are atomic; MCDR loads and unloads one
plugin at a time; a file is replaced or it is not, but for copies.
