----------------------------- MODULE BotProcess -----------------------------
(***************************************************************************)
(* The Mineflayer bot of one loaded plugin: its node process               *)
(* (bot/mineflayer.py) and the threads that start, stop and replace it      *)
(* (__init__.py):                                                          *)
(*                                                                         *)
(*   Boot      the launch on_load asks for once the role is decided        *)
(*   Reloads   `!!gamesai reload`, also from `!!aibot join` and `leave`     *)
(*   Claims    a role change, which points a running bot to the new hub     *)
(*   Unload    on_unload with its teardown thread                           *)
(*   Repairs   the reader of a process's output that found "unsupported     *)
(*             version" in it                                               *)
(*                                                                         *)
(* A step is what a thread does between two blocking calls or two looks at  *)
(* state that another thread writes.  Whether node is there is settled: the *)
(* installation of its packages may still fail.  The controller is its      *)
(* thread, running or not (its cycles: BotController), and the hub link is  *)
(* the manager that stands or does not.                                     *)
(***************************************************************************)
EXTENDS Naturals, FiniteSets

CONSTANTS
    Boot, Reloads, Claims, Unload, Repairs,
    MaxProcs,       \* bound: node processes started
    MaxDeaths       \* bound: processes that end by themselves

Launchers == {Boot} \cup Reloads \cup Claims
Stoppers  == Reloads \cup Claims \cup {Unload}
Threads   == Launchers \cup {Unload} \cup Repairs
Procs     == 1..MaxProcs
Nothing   == 0

ASSUME ThreadsAreApart ==
    /\ Nothing \notin Threads
    /\ Unload \notin Launchers
    /\ Repairs \cap (Launchers \cup {Unload}) = {}

VARIABLES
    process, alive,     \* _process, and the processes that run
    started, deaths,
    controller, acting, \* _autonomous_controller, and the controllers that run
    peer,               \* is _active_bot_peer set
    abort, token,       \* _mineflayer_pending_abort, _mineflayer_launch_token
    waiter,             \* whose thread _mineflayer_wait_thread is
    repairLock,         \* who holds _deps_repair_lock
    reloadLock,         \* who holds _reload_lock
    enabled,            \* mineflayer_bot.enabled in config.json
    serverUp,           \* is the Minecraft server running
    link,               \* _cross_server, by the thread whose start made it
    pc,
    my,                 \* a thread's launch token, process, and what it read
    \* The rest records the past for the properties.
    wanted,             \* what the last launch intent or stop wanted
    crossed             \* what failed, and what raced with a launch (see BotIsAsWanted)

procVars == <<process, alive, started, deaths>>
ctlVars  == <<controller, acting>>
flagVars == <<abort, token, waiter>>
lockVars == <<repairLock, reloadLock>>
outVars  == <<enabled, serverUp, link>>
pastVars == <<wanted, crossed>>
vars == <<procVars, ctlVars, peer, flagVars, lockVars, outVars, pc, my, pastVars>>

Running == process # Nothing /\ process \in alive       \* is_node_running
Fresh   == [token |-> 0, proc |-> Nothing, enabled |-> FALSE, running |-> FALSE]

\* The launches under way, but for those that wait for the server.
Launching == {t \in Launchers : pc[t] \in {"aim", "launch", "node", "install", "spawned",
                                           "link", "recheck", "control"}}

Init ==
    /\ process = Nothing /\ alive = {} /\ started = 0 /\ deaths = 0
    /\ controller = Nothing /\ acting = {}
    /\ peer = FALSE
    /\ abort = FALSE /\ token = 0 /\ waiter = Nothing
    /\ repairLock = Nothing /\ reloadLock = Nothing
    /\ enabled \in BOOLEAN /\ serverUp \in BOOLEAN
    /\ link = Boot
    /\ pc = [t \in Threads |-> "idle"]
    /\ my = [t \in Threads |-> Fresh]
    /\ wanted = FALSE /\ crossed = {}

Goto(t, l) == pc' = [pc EXCEPT ![t] = l]
At(t, l)   == pc[t] = l

\* The end of a thread's work, which gives a reload's lock back.
Leave(t) == /\ Goto(t, "done")
            /\ reloadLock' = IF reloadLock = t THEN Nothing ELSE reloadLock

\* What the past records of a step.
Notes(race, holds) == crossed' = crossed \cup (IF holds THEN {race} ELSE {})
Fails == Notes("failed", TRUE)

-----------------------------------------------------------------------------
(* What begins a launch or a stop. *)

\* on_load, once the role is decided, unless its link was replaced meanwhile.
BootBegins ==
    /\ At(Boot, "idle")
    /\ IF link = Boot /\ enabled THEN Goto(Boot, "intent") ELSE Goto(Boot, "done")
    /\ UNCHANGED <<procVars, ctlVars, peer, flagVars, lockVars, outVars, my, pastVars>>

\* `!!gamesai reload`, alone or from `!!aibot join`/`leave`, which write the
\* config first; it is turned away while another reload runs.
ReloadBegins(t) ==
    /\ At(t, "idle") /\ At(Unload, "idle")
    /\ \/ enabled' = enabled
       \/ enabled' = TRUE /\ ~Running
       \/ enabled' = FALSE /\ Running
    /\ IF reloadLock = Nothing
       THEN Goto(t, "read") /\ reloadLock' = t
       ELSE Goto(t, "done") /\ UNCHANGED reloadLock
    /\ UNCHANGED <<procVars, ctlVars, peer, flagVars, repairLock, serverUp, link, my,
                   pastVars>>

\* _reload_body reads the config ...
ReloadReads(t) ==
    /\ At(t, "read")
    /\ my' = [my EXCEPT ![t].enabled = enabled]
    /\ Goto(t, "look")
    /\ UNCHANGED <<procVars, ctlVars, peer, flagVars, lockVars, outVars, pastVars>>

\* ... and, when it has applied it, looks at the process: a bot that runs and is
\* to run is left alone, unless init.js had to be written again.
ReloadLooks(t) ==
    /\ At(t, "look")
    /\ \/ my[t].enabled /\ Running /\ Leave(t)
       \/ Goto(t, "cancel") /\ UNCHANGED reloadLock
    /\ UNCHANGED <<procVars, ctlVars, peer, flagVars, repairLock, outVars, my, pastVars>>

\* _restart_cross_server looks whether the bot runs and stops the link ...
ClaimBegins(t) ==
    /\ At(t, "idle") /\ At(Unload, "idle")
    /\ my' = [my EXCEPT ![t].running = Running]
    /\ link' = Nothing
    /\ Goto(t, "relink")
    /\ UNCHANGED <<procVars, ctlVars, peer, flagVars, lockVars, enabled, serverUp, pastVars>>

\* ... makes a new one ...
Relink(t) ==
    /\ At(t, "relink")
    /\ link' = t
    /\ Goto(t, "deciding")
    /\ UNCHANGED <<procVars, ctlVars, peer, flagVars, lockVars, enabled, serverUp, my, pastVars>>

\* ... and, once its role is decided, _repoint_bot_after_role_change replaces a
\* bot that ran when all this began, if the hub has a new address (and if there
\* is a config to write it to).
Repoint(t) ==
    /\ At(t, "deciding")
    /\ my' = [my EXCEPT ![t].enabled = TRUE]
    /\ \/ link = t /\ my[t].running /\ Goto(t, "cancel")
       \/ Goto(t, "done")
    /\ UNCHANGED <<procVars, ctlVars, peer, flagVars, lockVars, outVars, pastVars>>

\* on_unload: the flag, the link, then the teardown.
UnloadBegins ==
    /\ At(Unload, "idle")
    /\ abort' = TRUE /\ waiter' = Nothing
    /\ link' = Nothing
    /\ Goto(Unload, "cancel")
    /\ UNCHANGED <<procVars, ctlVars, peer, token, lockVars, enabled, serverUp, my, pastVars>>

ServerStarts ==
    /\ ~serverUp /\ serverUp' = TRUE
    /\ UNCHANGED <<procVars, ctlVars, peer, flagVars, lockVars, enabled, link, pc, my,
                   pastVars>>

-----------------------------------------------------------------------------
(* A launch: _run_mineflayer_bot and what it calls. *)

\* A new intent takes a cancellation back, and makes older ones stale.
Intent(t) ==
    /\ At(t, "intent")
    /\ abort' = FALSE
    /\ token' = token + 1
    /\ my' = [my EXCEPT ![t].token = token + 1]
    /\ wanted' = TRUE
    /\ crossed' = (crossed \ {"failed", "bare"}) \cup
                  (IF Launching # {} \/ controller # Nothing THEN {"second"} ELSE {})
    /\ Goto(t, "aim")
    /\ UNCHANGED <<procVars, ctlVars, peer, waiter, lockVars, outVars>>

\* Without a link the launch gives up; without a server a thread of its own
\* waits for it, one at a time.
Aim(t) ==
    /\ At(t, "aim")
    /\ \/ link = Nothing /\ Leave(t) /\ Fails /\ UNCHANGED waiter
       \/ /\ link # Nothing /\ serverUp
          /\ Goto(t, "launch") /\ UNCHANGED <<waiter, reloadLock, crossed>>
       \/ /\ link # Nothing /\ ~serverUp
          /\ IF waiter # Nothing /\ pc[waiter] = "wait"
             THEN /\ Leave(t) /\ UNCHANGED waiter
                  /\ Notes("waiter", my[waiter].token # token)
             ELSE /\ waiter' = t
                  /\ Goto(t, "wait")
                  /\ reloadLock' = IF reloadLock = t THEN Nothing ELSE reloadLock
                  /\ UNCHANGED crossed
    /\ UNCHANGED <<procVars, ctlVars, peer, abort, token, repairLock, outVars, my, wanted>>

\* Mutation: a thread that waits looks at the abort flag only.
WaitIgnoresToken(t) ==
    /\ At(t, "wait")
    /\ IF abort THEN Goto(t, "done") ELSE serverUp /\ Goto(t, "launch")
    /\ UNCHANGED <<procVars, ctlVars, peer, flagVars, lockVars, outVars, my, pastVars>>

\* _wait_server_then_launch
Wait(t) ==
    /\ At(t, "wait")
    /\ IF abort \/ my[t].token # token THEN Goto(t, "done") ELSE serverUp /\ Goto(t, "launch")
    /\ UNCHANGED <<procVars, ctlVars, peer, flagVars, lockVars, outVars, my, pastVars>>

\* _launch_mineflayer_bot; that node answers `--version` may take too long.
Launch(t) ==
    /\ At(t, "launch")
    /\ \/ abort /\ Leave(t) /\ UNCHANGED crossed
       \/ ~abort /\ Goto(t, "node") /\ UNCHANGED <<reloadLock, crossed>>
       \/ ~abort /\ Leave(t) /\ Fails
    /\ UNCHANGED <<procVars, ctlVars, peer, flagVars, repairLock, outVars, my, wanted>>

Spawn == /\ started < MaxProcs
         /\ started' = started + 1
         /\ process' = started + 1

\* Mutation: the installation and the start do not take the lock.
RunNodeUnlocked(t) ==
    /\ At(t, "node")
    /\ alive' = alive \ {process}
    /\ Goto(t, "install")
    /\ UNCHANGED <<process, started, deaths, ctlVars, peer, flagVars, lockVars, outVars, my,
                   pastVars>>

\* run_node takes the lock, kills what still runs ...
RunNode(t) ==
    /\ At(t, "node") /\ repairLock = Nothing
    /\ repairLock' = t
    /\ alive' = alive \ {process}
    /\ Goto(t, "install")
    /\ UNCHANGED <<process, started, deaths, ctlVars, peer, flagVars, reloadLock, outVars, my,
                   pastVars>>

\* ... installs for as long as it takes, and starts the process -- or fails.
NodeStarts(t) ==
    /\ At(t, "install")
    /\ repairLock' = IF repairLock = t THEN Nothing ELSE repairLock
    /\ \/ /\ Spawn /\ alive' = alive \cup {started + 1}
          /\ Goto(t, "spawned")
          /\ UNCHANGED <<deaths, reloadLock, crossed>>
       \/ Leave(t) /\ Fails /\ UNCHANGED procVars
    /\ UNCHANGED <<ctlVars, peer, flagVars, outVars, my, wanted>>

\* A launch that was cancelled meanwhile stops the process again
\* (stop_mineflayer_process takes the module's one).
Spawned(t) ==
    /\ At(t, "spawned")
    /\ IF abort
       THEN /\ alive' = alive \ {process} /\ process' = Nothing
            /\ Leave(t)
       ELSE /\ Goto(t, "link")
            /\ UNCHANGED <<alive, process, reloadLock>>
    /\ UNCHANGED <<started, deaths, ctlVars, peer, flagVars, repairLock, outVars, my, pastVars>>

\* set_bot_peer
Link(t) ==
    /\ At(t, "link")
    /\ peer' = (peer \/ link # Nothing)
    /\ Goto(t, "recheck")
    /\ UNCHANGED <<procVars, ctlVars, flagVars, lockVars, outVars, my, pastVars>>

\* A stop may have come since: its clear_bot_peer may have come before the link.
Recheck(t) ==
    /\ At(t, "recheck")
    /\ IF abort
       THEN /\ peer' = FALSE
            /\ alive' = alive \ {process} /\ process' = Nothing
            /\ Leave(t)
       ELSE /\ Goto(t, "control")
            /\ UNCHANGED <<peer, alive, process, reloadLock>>
    /\ UNCHANGED <<started, deaths, ctlVars, flagVars, repairLock, outVars, my, pastVars>>

\* The controller is created, remembered and started -- when there is a default
\* AI, and it can be created.
StartController(t) ==
    /\ At(t, "control")
    /\ \/ controller' = t /\ acting' = acting \cup {t} /\ UNCHANGED crossed
       \/ Notes("bare", TRUE) /\ UNCHANGED ctlVars
    /\ Leave(t)
    /\ UNCHANGED <<procVars, peer, flagVars, repairLock, outVars, my, wanted>>

-----------------------------------------------------------------------------
(* A stop: _stop_bot_stack. *)

\* _cancel_pending_bot_launch
Cancel(t) ==
    /\ At(t, "cancel")
    /\ abort' = TRUE /\ token' = token + 1 /\ waiter' = Nothing
    /\ wanted' = FALSE
    /\ Goto(t, "take")
    /\ UNCHANGED <<procVars, ctlVars, peer, lockVars, outVars, my, crossed>>

\* The controller is taken out of the global and stopped.
TakeController(t) ==
    /\ At(t, "take")
    /\ controller' = Nothing
    /\ acting' = acting \ {controller}
    /\ crossed' = crossed \cup {r \in {"late", "overtaken"} :
                               \/ r = "late" /\ \E l \in Launchers : At(l, "control")
                               \/ r = "overtaken" /\ wanted /\ controller # Nothing}
    /\ Goto(t, "unlink")
    /\ UNCHANGED <<procVars, peer, flagVars, lockVars, outVars, my, wanted>>

\* clear_bot_peer
Unlink(t) ==
    /\ At(t, "unlink")
    /\ peer' = FALSE
    /\ Goto(t, "detach")
    /\ UNCHANGED <<procVars, ctlVars, flagVars, lockVars, outVars, my, pastVars>>

\* detach_mineflayer_process
Detach(t) ==
    /\ At(t, "detach")
    /\ my' = [my EXCEPT ![t].proc = process]
    /\ process' = Nothing
    /\ Notes("overtaken", wanted /\ Running)
    /\ Goto(t, "kill")
    /\ UNCHANGED <<alive, started, deaths, ctlVars, peer, flagVars, lockVars, outVars, wanted>>

\* The process is killed (without one, stop_mineflayer_process takes what the
\* module has by now); a reload or role change then launches again.
Kill(t) ==
    /\ At(t, "kill")
    /\ IF my[t].proc # Nothing
       THEN alive' = alive \ {my[t].proc} /\ UNCHANGED <<process, crossed>>
       ELSE /\ alive' = alive \ {process} /\ process' = Nothing
            /\ Notes("overtaken", wanted /\ Running)
    /\ my' = [my EXCEPT ![t].proc = Nothing]
    /\ IF my[t].enabled THEN Goto(t, "intent") /\ UNCHANGED reloadLock ELSE Leave(t)
    /\ UNCHANGED <<started, deaths, ctlVars, peer, flagVars, repairLock, outVars, wanted>>

-----------------------------------------------------------------------------
(* The process itself, and the repair of its packages. *)

Dies == /\ deaths < MaxDeaths /\ Running
        /\ deaths' = deaths + 1
        /\ alive' = alive \ {process}
        /\ Fails
        /\ UNCHANGED <<process, started, ctlVars, peer, flagVars, lockVars, outVars, pc, my,
                       wanted>>

\* _handle_version_unsupported: the process that complained is still the one (it
\* may have ended by now).
RepairBegins(t) ==
    /\ At(t, "idle") /\ process # Nothing /\ repairLock = Nothing
    /\ repairLock' = t
    /\ my' = [my EXCEPT ![t].proc = process]
    /\ Goto(t, "repair")
    /\ UNCHANGED <<procVars, ctlVars, peer, flagVars, reloadLock, outVars, pastVars>>

\* It is installed, then killed and started again -- or the installation fails.
Repair(t) ==
    /\ At(t, "repair")
    /\ \/ Spawn /\ alive' = (alive \ {process}) \cup {started + 1} /\ UNCHANGED deaths
       \/ UNCHANGED procVars
    /\ repairLock' = Nothing
    /\ Notes("repair", ~wanted \/ process # my[t].proc)
    /\ Goto(t, "done")
    /\ UNCHANGED <<ctlVars, peer, flagVars, reloadLock, outVars, my, wanted>>

-----------------------------------------------------------------------------
LaunchStep(t) == \/ Intent(t) \/ Aim(t) \/ Wait(t) \/ Launch(t) \/ RunNode(t) \/ NodeStarts(t)
                 \/ Spawned(t) \/ Link(t) \/ Recheck(t) \/ StartController(t)
StopStep(t) == Cancel(t) \/ TakeController(t) \/ Unlink(t) \/ Detach(t) \/ Kill(t)

ProcNext ==
    \/ BootBegins \/ UnloadBegins \/ ServerStarts \/ Dies
    \/ \E t \in Reloads : ReloadBegins(t) \/ ReloadReads(t) \/ ReloadLooks(t)
    \/ \E t \in Claims : ClaimBegins(t) \/ Relink(t) \/ Repoint(t)
    \/ \E t \in Launchers : LaunchStep(t)
    \/ \E t \in Stoppers : StopStep(t)
    \/ \E t \in Repairs : RepairBegins(t) \/ Repair(t)

ProcSpec == Init /\ [][ProcNext]_vars

-----------------------------------------------------------------------------
(* Properties. *)

\* Every node process that runs is the one this module knows, or a stop has it
\* in hand and is about to kill it: launches, repairs and stops that overlap
\* never lose one.
ProcessIsKnown ==
    \A p \in alive : p = process \/ \E t \in Stoppers : my[t].proc = p

Waiting(t) == At(t, "wait") /\ ~serverUp /\ ~abort /\ my[t].token = token
AtRest == \A t \in Threads : pc[t] \in {"idle", "done"} \/ Waiting(t)

\* When nothing is under way there is a bot exactly when the last intent was to
\* have one, the one controller the module knows acts on it, and without a server
\* a thread waits that will launch it: a stop that overtakes a launch in its
\* installation leaves neither process, link nor controller, and a launch whose
\* intent makes an older one stale is neither lost nor run twice.  Excepted: a bot
\* "repair"ed while a stop took it; a "second" launch beside one that is under way
\* or has left its controller; a launch left to a "waiter" that is stale; one
\* "overtaken" by the rest of a stop older than its intent.  A stop that comes too
\* "late" for a launch's last look at the flag may leave that one's controller.
BotIsAsWanted ==
    AtRest /\ crossed \cap {"repair", "second", "waiter", "overtaken"} = {}
      => /\ acting \subseteq {controller}
         /\ ~wanted => ~Running /\ ~peer /\ (acting = {} \/ "late" \in crossed)
         /\ wanted /\ "failed" \notin crossed
              => IF serverUp
                 THEN /\ Running
                      /\ "bare" \notin crossed => controller # Nothing /\ acting = {controller}
                 ELSE \E t \in Launchers : Waiting(t)

\* (Does not hold.)  A launch leaves the bot to a thread that is "already waiting"
\* for the server (_run_mineflayer_bot) only if that thread will launch it: by
\* then the new intent has made that thread's token stale.
DeferredLaunchIsServed ==
    [][\A t \in Launchers : At(t, "aim") /\ pc'[t] = "done" /\ link # Nothing
         => my[waiter].token = token]_vars

\* (Does not hold.)  A bot the player has sent away (`!!aibot leave` writes the
\* config and reloads) is gone when all is done: a reload that is turned away,
\* because another one has already read the config, is not made up for.
LeaveIsFollowed == AtRest /\ crossed = {} /\ ~enabled => ~Running

\* (Does not hold.)  "a bot that was not running is never started here"
\* (_repoint_bot_after_role_change): no role change starts a bot that is off.
DisabledStaysDown ==
    [][\A t \in Claims : At(t, "deciding") /\ pc'[t] = "cancel" => Running]_vars

\* (Does not hold.)  "the process it just created must not outlive this
\* decision" (_launch_mineflayer_bot): an unload leaves nothing behind.
UnloadLeavesNothing == AtRest /\ At(Unload, "done") => alive = {} /\ acting = {}
=============================================================================
