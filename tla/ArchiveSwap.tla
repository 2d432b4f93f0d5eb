----------------------------- MODULE ArchiveSwap -----------------------------
(***************************************************************************)
(* The plugin replaces its own file (update/updater.py and the check loop  *)
(* of update/update_round.py):                                             *)
(*                                                                         *)
(*   prepare          download <name>.part and verify it                   *)
(*   apply_archive    back the live file up, unload the plugin, delete the *)
(*                    file, move the new one into place, load it           *)
(*   _restore_backup  put the previous file back when the load went wrong  *)
(*                                                                         *)
(* The thread of an update goes on after the plugin it belongs to has been *)
(* unloaded.  Every load is a new instance of the plugin with an           *)
(* update_lock of its own and with a first check of the catalogue; the     *)
(* server interface, MCDR and the disk are shared.  Any file operation may *)
(* fail, MCDR may refuse to unload or to load, the server may be killed    *)
(* between any two steps, and an operator may reload the plugin.           *)
(*                                                                         *)
(* A file is modelled by the version of the whole archive that it holds.   *)
(***************************************************************************)
EXTENDS Integers, FiniteSets

CONSTANTS
    Newest,         \* bound: the last version ever published; 0 is installed
    MaxUpdates,     \* bound: how many updates are started
    MaxReloads      \* bound: how often the operator reloads the plugin

ASSUME NewestRelease == Newest \in Nat \ {0}
ASSUME UpdateBounds == MaxUpdates \in Nat \ {0} /\ MaxReloads \in Nat

Versions == 0..Newest
NoFile == -1            \* the file does not exist
Torn == -2              \* a copy or a download that was cut off
Contents == Versions \cup {NoFile, Torn}

Nothing == -1           \* MCDR reports no version of the plugin
Other == -3             \* MCDR reports a build that is not the one in the file
Loadable == Versions \cup {Nothing, Other}

Threads == 1..MaxUpdates

VARIABLES
    disk,           \* the live file, its .bak and its .restore
    part,           \* per release: the .part file next to them
    loaded,         \* the version MCDR reports, _loaded_version
    up,             \* the server runs
    catalogue,      \* the newest release of the catalogue
    busy,           \* update_lock of the loaded instance: its thread, or 0
    checkDue,       \* the loaded instance has not yet made its first check
    th,             \* per thread: where it stands, what it replaces and installs
    started,        \* how many updates were started
    reloads,        \* how often the operator reloaded
    overlapped      \* history: an update began while another was at work

vars == <<disk, part, loaded, up, catalogue, busy, checkDue, th, started,
          reloads, overlapped>>

(* Steps in which a thread may still touch the files of an installation.   *)
Working == {"download", "fetch", "verify", "backup", "unload", "remove", "place",
            "load", "check", "copyback", "clear", "putback", "retry", "reload"}
PCs == Working \cup {"idle", "confirm", "discard", "release", "over", "dead"}

(* What the thread tells the players in the end. *)
Claims == {"none", "kept", "updated", "reloaded", "restored", "lost"}

Idle == [pc |-> "idle", old |-> 0, new |-> 0, unloadFirst |-> FALSE,
         expect |-> NoFile, claim |-> "none", own |-> FALSE]

TypeOK ==
    /\ disk \in [{"target", "bak", "restore"} -> Contents]
    /\ part \in [Versions -> Contents]
    /\ loaded \in Loadable
    /\ up \in BOOLEAN
    /\ catalogue \in Versions
    /\ busy \in 0..MaxUpdates
    /\ checkDue \in BOOLEAN
    /\ th \in [Threads -> [pc : PCs, old : Contents, new : Versions,
                           unloadFirst : BOOLEAN, expect : Contents, claim : Claims, own : BOOLEAN]]
    /\ started \in 0..MaxUpdates
    /\ reloads \in 0..MaxReloads
    /\ overlapped \in BOOLEAN

Init ==
    /\ disk = [target |-> 0, bak |-> NoFile, restore |-> NoFile]
    /\ part = [v \in Versions |-> NoFile]
    /\ loaded = 0
    /\ up = TRUE
    /\ catalogue = 0
    /\ busy = 0
    /\ checkDue = TRUE
    /\ th = [t \in Threads |-> Idle]
    /\ started = 0
    /\ reloads = 0
    /\ overlapped = FALSE

-----------------------------------------------------------------------------
(* Helpers. *)

At(t, pc) == up /\ th[t].pc = pc
Goto(t, pc) == th' = [th EXCEPT ![t].pc = pc]
Finish(t, claim, pc) == th' = [th EXCEPT ![t].pc = pc, ![t].claim = claim]

(* What MCDR may report after load_plugin: it skips a plugin that is       *)
(* registered; it may refuse, not list the file, raise, or come up with a  *)
(* build that another file provides.                                       *)
AfterLoad(content) ==
    IF loaded # Nothing THEN {loaded}
    ELSE {Nothing} \cup (IF content \in Versions THEN {content, Other} ELSE {})

(* A build of this file that comes up is a new instance: a lock of its     *)
(* own, and a check loop that starts with a check.                         *)
Reports(v) ==
    /\ loaded' = v
    /\ IF v = loaded THEN UNCHANGED <<busy, checkDue>>
       ELSE busy' = 0 /\ checkDue' = (v \in Versions)

SameMcdr == UNCHANGED <<loaded, busy, checkDue>>
SameWorld == UNCHANGED <<up, catalogue, started, reloads, overlapped>>

With(f, content) == [disk EXCEPT ![f] = content]

(* _remove_quietly: the file is gone, or still there. *)
RemovedQuietly(f) == {With(f, NoFile), disk}

(* shutil.copy2(g, f) after f was removed quietly: it fails before it      *)
(* writes, or half-way when there is something to copy.                    *)
FailedCopies(g, f) ==
    RemovedQuietly(f) \cup (IF disk[g] = NoFile THEN {} ELSE {With(f, Torn)})

-----------------------------------------------------------------------------
(* An update starts: by the check of a fresh instance, or because an       *)
(* operator asks or the 24 h timer fires.                                  *)

IsNewer == loaded \in Versions /\ catalogue > loaded

(* self_update: one update per lock. *)
Begin(own) ==
    LET t == started + 1 IN
    /\ IsNewer /\ busy = 0
    /\ t \in Threads
    /\ started' = t
    /\ busy' = t
    /\ th' = [th EXCEPT ![t] = [Idle EXCEPT !.pc = "download", !.old = disk.target,
                                            !.new = catalogue, !.own = own]]
    /\ overlapped' = (overlapped \/ \E s \in Threads : th[s].pc \in Working)
    /\ UNCHANGED <<disk, part, loaded, up, catalogue, reloads>>

(* cyclic_check_updates on the load of an instance. *)
CheckOnLoad ==
    /\ up /\ checkDue
    /\ checkDue' = FALSE
    /\ \/ Begin(TRUE)
       \/ /\ ~(IsNewer /\ busy = 0)
          /\ UNCHANGED <<disk, part, loaded, up, catalogue, busy, th, started,
                         reloads, overlapped>>

(* `!!gamesai check`, or the timer. *)
CheckAgain == up /\ ~checkDue /\ Begin(FALSE) /\ UNCHANGED checkDue

-----------------------------------------------------------------------------
(* prepare: the plugin is loaded and nothing is touched. *)

(* preflight, and open(part, "wb"). *)
StartDownload(t) ==
    /\ At(t, "download")
    /\ \/ /\ disk.target # NoFile
          /\ part' = [part EXCEPT ![th[t].new] = Torn]
          /\ Goto(t, "fetch")
       \/ Finish(t, "kept", "release") /\ UNCHANGED part
    /\ UNCHANGED disk /\ SameMcdr /\ SameWorld

(* The announced bytes arrive, or every attempt fails.  Bytes written to a *)
(* file that was moved or removed meanwhile are lost with it.              *)
EndDownload(t) ==
    LET v == th[t].new IN
    /\ At(t, "fetch")
    /\ \/ /\ part' = [part EXCEPT ![v] = IF @ = Torn THEN v ELSE @]
          /\ Goto(t, "verify")
       \/ /\ \E c \in {NoFile, part[v]} : part' = [part EXCEPT ![v] = c]
          /\ Finish(t, "kept", "release")
    /\ UNCHANGED disk /\ SameMcdr /\ SameWorld

(* verify_archive *)
Verify(t) ==
    LET v == th[t].new IN
    /\ At(t, "verify")
    /\ IF part[v] = v
       THEN Goto(t, "backup") /\ UNCHANGED part
       ELSE /\ \E c \in {NoFile, part[v]} : part' = [part EXCEPT ![v] = c]
            /\ Finish(t, "kept", "release")
    /\ UNCHANGED disk /\ SameMcdr /\ SameWorld

-----------------------------------------------------------------------------
(* apply_archive *)

Backup(t) ==
    /\ At(t, "backup")
    /\ \/ /\ disk.target # NoFile
          /\ disk' = With("bak", disk.target)
          /\ Goto(t, "unload")
       \/ /\ disk' \in FailedCopies("target", "bak")
          /\ Finish(t, "kept", "discard")
    /\ UNCHANGED part /\ SameMcdr /\ SameWorld

(* unload_plugin ends the instance, or answers that it could not. *)
Unload(t) ==
    /\ At(t, "unload")
    /\ \/ /\ loaded # Nothing
          /\ Reports(Nothing)
          /\ Goto(t, "remove")
          /\ UNCHANGED disk
       \/ /\ disk' \in RemovedQuietly("bak")
          /\ Finish(t, "kept", "discard")
          /\ SameMcdr
    /\ UNCHANGED part /\ SameWorld

(* _remove_with_retries(target); without success the old file is loaded    *)
(* again, and only the answer of load_plugin is looked at.                 *)
Remove(t) ==
    /\ At(t, "remove")
    /\ \/ /\ disk' = With("target", NoFile)
          /\ Goto(t, "place")
          /\ SameMcdr
       \/ /\ disk.target # NoFile
          /\ UNCHANGED disk
          /\ \E v \in AfterLoad(disk.target) :
                /\ Reports(v)
                /\ Finish(t, IF v # loaded THEN "reloaded" ELSE "lost", "discard")
    /\ UNCHANGED part /\ SameWorld

(* _replace_with_retries(staged, target) *)
Place(t) ==
    LET v == th[t].new IN
    /\ At(t, "place")
    /\ \/ /\ part[v] # NoFile
          /\ disk' = With("target", part[v])
          /\ part' = [part EXCEPT ![v] = NoFile]
          /\ Goto(t, "load")
       \/ /\ Goto(t, "copyback")
          /\ UNCHANGED <<disk, part>>
    /\ SameMcdr /\ SameWorld

Load(t) ==
    /\ At(t, "load")
    /\ \E v \in AfterLoad(disk.target) : Reports(v)
    /\ Goto(t, "check")
    /\ UNCHANGED <<disk, part>> /\ SameWorld

CheckLoadedDroppingBackup(t) ==
    /\ At(t, "check")
    /\ disk' \in RemovedQuietly("bak")
    /\ IF loaded = th[t].new THEN Finish(t, "updated", "discard")
       ELSE th' = [th EXCEPT ![t].pc = "copyback", ![t].unloadFirst = (loaded # Nothing)]
    /\ UNCHANGED part /\ SameMcdr /\ SameWorld

(* The version that MCDR reports decides, not what load_plugin answered. *)
CheckLoaded(t) ==
    /\ At(t, "check")
    /\ IF loaded = th[t].new
       THEN disk' \in RemovedQuietly("bak") /\ Finish(t, "updated", "discard")
       ELSE /\ th' = [th EXCEPT ![t].pc = "copyback", ![t].unloadFirst = (loaded # Nothing)]
            /\ UNCHANGED disk
    /\ UNCHANGED part /\ SameMcdr /\ SameWorld

-----------------------------------------------------------------------------
(* _restore_backup *)

CopyBackUnchecked(t) ==
    /\ At(t, "copyback")
    /\ disk' \in FailedCopies("bak", "restore") \cup {With("restore", disk.bak)}
    /\ Goto(t, "clear")
    /\ UNCHANGED part /\ SameMcdr /\ SameWorld

(* The copy comes first, so that its failure leaves what there is; a wrong *)
(* build is unloaded then, and nobody asks whether that went well.         *)
CopyBack(t) ==
    /\ At(t, "copyback")
    /\ \/ /\ disk.bak # NoFile
          /\ disk' = With("restore", disk.bak)
          /\ \E v \in (IF th[t].unloadFirst THEN {Nothing, loaded} ELSE {loaded}) : Reports(v)
          /\ Goto(t, "clear")
       \/ /\ disk' \in FailedCopies("bak", "restore")
          /\ \E v \in AfterLoad(disk.target) : Reports(v)
          /\ Finish(t, "lost", "discard")
    /\ UNCHANGED part /\ SameWorld

Clear(t) ==
    /\ At(t, "clear")
    /\ \/ disk' = With("target", NoFile) /\ Goto(t, "putback")
       \/ disk.target # NoFile /\ UNCHANGED disk /\ Goto(t, "retry")
    /\ UNCHANGED part /\ SameMcdr /\ SameWorld

(* os.replace(restore, target) *)
Moved == [disk EXCEPT !.target = disk.restore, !.restore = NoFile]

(* _files_identical(target, backup) *)
Identical(d) == d.target # NoFile /\ d.target = d.bak

AfterMove(t) ==
    IF Identical(disk') THEN Goto(t, "reload") ELSE Finish(t, "lost", "discard")

PutBack(t) ==
    /\ At(t, "putback")
    /\ \/ disk.restore # NoFile /\ disk' = Moved /\ AfterMove(t)
       \/ UNCHANGED disk /\ Goto(t, "retry")
    /\ UNCHANGED part /\ SameMcdr /\ SameWorld

(* After a failure: the target may hold the old bytes all the same, or one *)
(* more move may bring them.                                               *)
Retry(t) ==
    /\ At(t, "retry")
    /\ IF Identical(disk) THEN UNCHANGED disk
       ELSE \/ disk.restore # NoFile /\ disk' = Moved
            \/ UNCHANGED disk
    /\ AfterMove(t)
    /\ UNCHANGED part /\ SameMcdr /\ SameWorld

(* _restore_verified *)
Reload(t) ==
    /\ At(t, "reload")
    /\ \E v \in AfterLoad(disk.target) : Reports(v)
    /\ th' = [th EXCEPT ![t].pc = "confirm", ![t].expect = disk.bak]
    /\ UNCHANGED <<disk, part>> /\ SameWorld

ConfirmAnyBuild(t) ==
    /\ At(t, "confirm")
    /\ Finish(t, IF loaded # Nothing THEN "restored" ELSE "lost", "discard")
    /\ UNCHANGED <<disk, part>> /\ SameMcdr /\ SameWorld

(* A backup whose version cannot be read is taken to match. *)
Confirm(t) ==
    /\ At(t, "confirm")
    /\ LET matches == th[t].expect \in Versions => loaded = th[t].expect
       IN Finish(t, IF loaded # Nothing /\ matches THEN "restored" ELSE "lost", "discard")
    /\ UNCHANGED <<disk, part>> /\ SameMcdr /\ SameWorld

(* discard(staged) *)
Discard(t) ==
    /\ At(t, "discard")
    /\ \E c \in {NoFile, part[th[t].new]} : part' = [part EXCEPT ![th[t].new] = c]
    /\ Goto(t, "release")
    /\ UNCHANGED disk /\ SameMcdr /\ SameWorld

(* update_lock.release(): the lock of the instance that started the thread. *)
Release(t) ==
    /\ At(t, "release")
    /\ busy' = IF busy = t THEN 0 ELSE busy
    /\ Goto(t, "over")
    /\ UNCHANGED <<disk, part, loaded, checkDue>> /\ SameWorld

-----------------------------------------------------------------------------
(* The world around the plugin. *)

Publish ==
    /\ catalogue < Newest
    /\ catalogue' = catalogue + 1
    /\ UNCHANGED <<disk, part, loaded, up, busy, checkDue, th, started, reloads, overlapped>>

(* `!!MCDR plugin reload`: a new instance of the file on disk; threads of  *)
(* the old one go on.                                                      *)
ReloadPlugin ==
    /\ up /\ loaded \in Versions /\ reloads < MaxReloads
    /\ reloads' = reloads + 1
    /\ loaded' \in {Nothing} \cup ({disk.target} \cap Versions)
    /\ busy' = 0
    /\ checkDue' = (loaded' # Nothing)
    /\ UNCHANGED <<disk, part, up, catalogue, th, started, overlapped>>

(* The operator loads the live file by hand; where there is none, or where *)
(* the last update gave up, a copy it left is moved into place first.      *)
LeftACopy == disk.target \notin Versions \/ (started > 0 /\ th[started].claim = "lost")

LoadByHand ==
    /\ up /\ loaded = Nothing
    /\ \A t \in Threads : th[t].pc \notin Working
    /\ \E f \in {"target"} \cup (IF LeftACopy THEN {"bak", "restore"} ELSE {}) :
          /\ disk[f] \in Versions
          /\ disk' = [disk EXCEPT !.target = disk[f],
                                  !.restore = IF f = "restore" THEN NoFile ELSE @]
          /\ Reports(disk[f])
    /\ UNCHANGED <<part, th>> /\ SameWorld

(* The server dies; a start loads what lies in the plugin folder. *)
Crash ==
    /\ up
    /\ up' = FALSE
    /\ Reports(Nothing)
    /\ th' = [t \in Threads |->
                IF th[t].pc \in {"idle", "over"} THEN th[t] ELSE [th[t] EXCEPT !.pc = "dead"]]
    /\ UNCHANGED <<disk, part, catalogue, started, reloads, overlapped>>

Boot ==
    /\ ~up
    /\ up' = TRUE
    /\ \E v \in AfterLoad(disk.target) : Reports(v)
    /\ UNCHANGED <<disk, part, catalogue, th, started, reloads, overlapped>>

-----------------------------------------------------------------------------
ThreadStep(t) ==
    \/ StartDownload(t) \/ EndDownload(t) \/ Verify(t)
    \/ Backup(t) \/ Unload(t) \/ Remove(t) \/ Place(t) \/ Load(t) \/ CheckLoaded(t)
    \/ CopyBack(t) \/ Clear(t) \/ PutBack(t) \/ Retry(t) \/ Reload(t) \/ Confirm(t)
    \/ Discard(t) \/ Release(t)

Next ==
    \/ CheckOnLoad \/ CheckAgain
    \/ \E t \in Threads : ThreadStep(t)
    \/ Publish \/ ReloadPlugin \/ LoadByHand
    \/ Crash \/ Boot

Spec == Init /\ [][Next]_vars

-----------------------------------------------------------------------------
(* Properties. *)

(* The archive that the last update set out to replace is on disk, whole,  *)
(* until that update has seen its own build loaded: as the live file, as   *)
(* the .bak or as the .restore; and a torn copy never takes the place of   *)
(* the live file.  Failures and a server killed in the middle of it        *)
(* included; updates that overlap are left out.                            *)
PreviousKept ==
    \/ overlapped
    \/ /\ started > 0 /\ th[started].claim # "updated"
            => \E f \in DOMAIN disk : disk[f] = th[started].old
       /\ disk.target # Torn

(* "never leave the server without GamesAI" (update/updater.py): an archive *)
(* to load is left at any time, as the live file or as a copy to put back. *)
SomeArchiveLeft == \E f \in DOMAIN disk : disk[f] \in Versions

(* What the players are told is true when it is decided: "updated" means   *)
(* that the new build is live and loaded, "restored" that the previous one *)
(* is, "the plugin stayed loaded" that the live file was not touched.      *)
ClaimsAreTrue ==
    [][\A t \in Threads : (th[t].claim = "none" /\ ~overlapped) =>
         LET told == th'[t].claim IN
         /\ told = "updated"  => disk.target = th[t].new /\ loaded = th[t].new
         /\ told = "restored" => disk.target = th[t].old /\ loaded = th[t].old
         /\ told = "kept"     => disk.target = th[t].old]_vars

(* The live file changes only while MCDR runs no build from it: a loaded   *)
(* plugin never has its archive pulled away, by an update of its own or by *)
(* one that an earlier instance left running.                              *)
LiveFileChangesUnloaded ==
    [][(disk'.target # disk.target /\ ~overlapped) => loaded \notin Versions]_vars

(* "a failed round simply ends" (docs/en_us/cross-server.md): a release    *)
(* that failed to replace the plugin is not installed again unless an      *)
(* operator asks or the timer fires.                                       *)
FailedRoundEnds ==
    [][\A t \in Threads : (th[t].pc = "idle" /\ th'[t].pc # "idle" /\ th'[t].own) =>
         \A s \in Threads : th[s].new = th'[t].new =>
              th[s].claim \notin {"reloaded", "restored"}]_vars
=============================================================================
