----------------------------- MODULE DepsRepair -----------------------------
(***************************************************************************)
(* A start without the Python packages: the plugin installs them with pip  *)
(* and has MCDR load it again (core/deps.py; __init__.py, on_load,         *)
(* on_unload and _deps_install_thread).                                    *)
(*                                                                         *)
(* Every load is an instance with a flag, an abort event and a thread of   *)
(* its own; the thread runs on when its instance was unloaded.  What they  *)
(* share is the packages and the record of the last repair in cache/.  The *)
(* record is written by truncating the file and dumping it anew: who reads *)
(* it in between finds nothing.  MCDR loads and unloads one at a time.     *)
(***************************************************************************)
EXTENDS Naturals, FiniteSets

CONSTANTS
    Packages,       \* REQUIREMENTS
    MaxTyped, MaxCrashes, MaxFailures,      \* bounds: the operator's reloads; the server's
                                            \* deaths; records that cannot be written
    MaxLoads

\* A load without the packages brings one self-reload about, one with them none.
ASSUME LoadsSuffice == /\ {MaxTyped, MaxCrashes, MaxFailures, MaxLoads} \subseteq Nat
                       /\ MaxLoads >= 2 * (1 + MaxTyped + MaxCrashes)

VARIABLES
    there,          \* the packages that import
    record,         \* the file: its status, who wrote "installing", is it younger than the limit
    plugin,         \* the load MCDR has, or 0
    due,            \* MCDR is about to load: at its start, in a reload
    pending,        \* loads that were imported without a package: _deps_pending
    abort,          \* loads whose _DEP_INSTALL_ABORT is set
    at,             \* per load: its on_load, and its thread behind it
    names,          \* per load: the packages its pip is asked for
    pip,            \* loads whose pip runs
    typed, crashes, failures,
    crossed         \* history: two instances were at the file together, or a write failed

depsVars == <<there, record, plugin, due, pending, abort, at, names, pip,
          typed, crashes, failures, crossed>>
bounds == <<typed, crashes, failures>>

Loads == 1..MaxLoads
Empty == [status |-> "none", by |-> 0, fresh |-> FALSE]
Unsatisfied == Packages \ there

\* The thread of a load, from its claim to the end of the repair.
Writing == {"claimed", "bad", "good"}
Repairing == {"claim", "claimed", "begun", "local", "between", "mirror", "verify",
              "failed", "bad", "done", "good"}
Live(i) == at[i] \in Repairing

DepsInit ==
    /\ there \in SUBSET Packages
    /\ record = Empty
    /\ plugin = 0 /\ due = TRUE
    /\ pending = {} /\ abort = {} /\ pip = {}
    /\ at = [i \in Loads |-> "none"] /\ names = [i \in Loads |-> {}]
    /\ typed = 0 /\ crashes = 0 /\ failures = 0 /\ crossed = FALSE

Moves(i, pc) == at' = [at EXCEPT ![i] = pc]
Busy == plugin # 0 /\ at[plugin] \in {"import", "claim", "claimed"}     \* on_load runs

-----------------------------------------------------------------------------
(* MCDR. *)

\* The module's import looks at the packages ...
Import ==
    /\ plugin = 0 /\ due
    /\ LET i == Cardinality({j \in Loads : at[j] # "none"}) + 1 IN
       /\ i \in Loads
       /\ plugin' = i /\ Moves(i, "import")
       /\ pending' = IF Unsatisfied # {} THEN pending \cup {i} ELSE pending
    /\ due' = FALSE
    /\ UNCHANGED <<there, record, abort, names, pip, bounds, crossed>>

\* on_unload: only an instance that was imported without a package has a pip.
Unloads == /\ plugin # 0 /\ ~Busy
           /\ abort' = IF plugin \in pending THEN abort \cup {plugin} ELSE abort
           /\ plugin' = 0

\* The operator typed the plugin, or unloads it for good.
OperatorUnloads ==
    /\ typed < MaxTyped /\ typed' = typed + 1
    /\ Unloads
    /\ due' \in BOOLEAN
    /\ UNCHANGED <<there, record, pending, at, names, pip, crashes, failures, crossed>>

\* The server process dies: pip may go on without anybody who waits for it.
ServerDies ==
    /\ crashes < MaxCrashes /\ crashes' = crashes + 1
    /\ at' = [i \in Loads |-> IF Live(i) \/ at[i] \in {"import", "reload"} THEN "gone" ELSE at[i]]
    /\ plugin' = 0 /\ due' = TRUE
    /\ pip' \in SUBSET pip
    /\ UNCHANGED <<there, record, pending, abort, names, typed, failures, crossed>>

-----------------------------------------------------------------------------
(* on_load. *)

MayClaimAnyway(i) == TRUE       \* Mutant: the record is not looked at.

\* begin_install's test.
MayClaim(i) == ~(record.status = "installing" /\ record.fresh)

\* ... on_load looks at the packages again.  The packages are there: what the
\* record tells is announced once.
OnLoadWorks(i) ==
    /\ at[i] = "import" /\ i \notin pending /\ Unsatisfied = {}
    /\ Moves(i, "works")
    /\ record' = IF record.status \in {"installed", "failed"}
                 THEN [record EXCEPT !.status = "ready"] ELSE record
    /\ UNCHANGED <<there, plugin, due, pending, abort, names, pip, bounds, crossed>>

\* They are not, or were not when the module was imported.
OnLoadRepairs(i) ==
    /\ at[i] = "import" /\ (i \in pending \/ Unsatisfied # {})
    /\ names' = [names EXCEPT ![i] = Unsatisfied]
    /\ Moves(i, IF MayClaim(i) THEN "claim" ELSE "told")
    /\ UNCHANGED <<there, record, plugin, due, pending, abort, pip, bounds, crossed>>

-----------------------------------------------------------------------------
(* The record: write_state in two steps, or not at all. *)

OthersAtTheFile(i) == \E j \in Loads \ {i} : at[j] \in Writing \cup {"claim"}

Truncate(i, from, to) ==
    /\ at[i] = from /\ Moves(i, to)
    /\ record' = Empty
    /\ crossed' = (crossed \/ OthersAtTheFile(i))
    /\ UNCHANGED <<there, plugin, due, pending, abort, names, pip, bounds>>

CannotWrite(i, from, to) ==
    /\ at[i] = from /\ Moves(i, to)
    /\ failures < MaxFailures /\ failures' = failures + 1
    /\ crossed' = TRUE
    /\ UNCHANGED <<there, record, plugin, due, pending, abort, names, pip, typed, crashes>>

Dump(i, from, status, to) ==
    /\ at[i] = from /\ Moves(i, to)
    /\ record' = [status |-> status, by |-> i, fresh |-> TRUE]
    /\ crossed' = (crossed \/ OthersAtTheFile(i))
    /\ UNCHANGED <<there, plugin, due, pending, abort, names, pip, bounds>>

\* begin_install
BeginInstall(i) ==
    \/ Truncate(i, "claim", "claimed") \/ CannotWrite(i, "claim", "begun")
    \/ Dump(i, "claimed", "installing", "begun")

\* finish_install
FinishInstall(i) ==
    \/ Truncate(i, "failed", "bad") \/ CannotWrite(i, "failed", "hint")
    \/ Dump(i, "bad", "failed", "hint")
    \/ Truncate(i, "done", "good") \/ CannotWrite(i, "done", "reload")
    \/ Dump(i, "good", "installed", "reload")

\* An "installing" record gets too old.  A live thread ends before: two attempts
\* with their timeouts are shorter than STALE_INSTALL_SECONDS.
GetsStale ==
    /\ record.status = "installing" /\ record.fresh /\ ~Live(record.by)
    /\ record' = [record EXCEPT !.fresh = FALSE]
    /\ UNCHANGED <<there, plugin, due, pending, abort, at, names, pip, bounds, crossed>>

-----------------------------------------------------------------------------
(* The thread. *)

ThreadOnly == UNCHANGED <<there, record, plugin, due, pending, abort, bounds, crossed>>

\* pip, also one whose thread is gone, puts a package in its place.
Installs(i) ==
    /\ i \in pip
    /\ \E p \in names[i] \ there : there' = there \cup {p}
    /\ UNCHANGED <<record, plugin, due, pending, abort, at, names, pip, bounds, crossed>>

OrphanEnds(i) ==
    /\ i \in pip /\ at[i] = "gone"
    /\ pip' = pip \ {i} /\ UNCHANGED <<at, names>> /\ ThreadOnly

\* install_once starts pip, or cannot, which is an exception.
Starts(i, pc) ==
    \/ Moves(i, pc) /\ pip' = pip \cup {i}
    \/ Moves(i, "failed") /\ UNCHANGED pip

\* The thread's first attempt; an install of nothing starts no pip.
FirstAttempt(i) ==
    /\ at[i] = "begun"
    /\ IF names[i] = {} THEN Moves(i, "verify") /\ UNCHANGED pip ELSE Starts(i, "local")
    /\ UNCHANGED names /\ ThreadOnly

\* pip ends, whatever it says of itself.
PipEnds(i) ==
    /\ at[i] \in {"local", "mirror"}
    /\ \E ok \in BOOLEAN :
          Moves(i, IF ok THEN "verify" ELSE IF at[i] = "local" THEN "between" ELSE "failed")
    /\ pip' = pip \ {i} /\ UNCHANGED names /\ ThreadOnly

\* The abort or the timeout kills it.
AbortUnreported(i) ==           \* Mutant: an aborted thread just ends.
    /\ at[i] \in {"local", "mirror"} /\ i \in abort
    /\ Moves(i, "hint") /\ pip' = pip \ {i} /\ UNCHANGED names /\ ThreadOnly

AbortNoticed(i) ==
    /\ at[i] \in {"local", "mirror"} /\ i \in abort
    /\ Moves(i, "failed") /\ pip' = pip \ {i} /\ UNCHANGED names /\ ThreadOnly

Timeout(i) ==
    /\ at[i] \in {"local", "mirror"} /\ i \notin abort
    /\ Moves(i, IF at[i] = "local" THEN "between" ELSE "failed")
    /\ pip' = pip \ {i} /\ UNCHANGED names /\ ThreadOnly

\* install, behind a first attempt that failed.
SecondAttempt(i) ==
    /\ at[i] = "between"
    /\ LET still == names[i] \cap Unsatisfied IN
       \/ i \in abort /\ Moves(i, "failed") /\ UNCHANGED <<names, pip>>
       \/ i \notin abort /\ still = {} /\ Moves(i, "verify") /\ UNCHANGED <<names, pip>>
       \/ i \notin abort /\ still # {} /\ Starts(i, "mirror")
          /\ names' = [names EXCEPT ![i] = still]
    /\ ThreadOnly

LookAgain(i) ==
    /\ at[i] = "verify"
    /\ Moves(i, IF Unsatisfied # {} THEN "failed" ELSE "done")
    /\ UNCHANGED <<names, pip>> /\ ThreadOnly

\* reload_plugin, from a thread whose own instance may be gone: the plugin that
\* is loaded is unloaded and loaded again; without one, or by an error, nothing.
ReloadOwnOnly(i) ==             \* Mutant: a thread whose instance is gone lets it be.
    /\ at[i] = "reload" /\ Moves(i, "over")
    /\ IF plugin = i THEN Unloads /\ due' = TRUE ELSE UNCHANGED <<abort, plugin, due>>
    /\ UNCHANGED <<there, record, pending, names, pip, bounds, crossed>>

SelfReload(i) ==
    /\ at[i] = "reload" /\ Unloads
    /\ due' = TRUE /\ Moves(i, "over")
    /\ UNCHANGED <<there, record, pending, names, pip, bounds, crossed>>

ReloadRefused(i) ==
    /\ at[i] = "reload" /\ ~Busy /\ ~due
    /\ Moves(i, "hint") /\ UNCHANGED <<names, pip>> /\ ThreadOnly

-----------------------------------------------------------------------------
OnLoad(i) == OnLoadWorks(i) \/ OnLoadRepairs(i)
Attempt(i) == PipEnds(i) \/ AbortNoticed(i) \/ Timeout(i)
Thread(i) == BeginInstall(i) \/ FirstAttempt(i) \/ Attempt(i) \/ SecondAttempt(i)
                \/ LookAgain(i) \/ FinishInstall(i) \/ SelfReload(i) \/ ReloadRefused(i)

DepsNext ==
    \/ Import \/ OperatorUnloads \/ ServerDies \/ GetsStale
    \/ \E i \in Loads : OnLoad(i) \/ Thread(i) \/ Installs(i) \/ OrphanEnds(i)

DepsSpec == DepsInit /\ [][DepsNext]_depsVars

-----------------------------------------------------------------------------
(* Properties. *)

AtRest == ~due /\ ~Busy /\ \A i \in Loads : ~Live(i) /\ at[i] \notin {"import", "reload"}

\* The record speaks for the one repair under way.  It keeps "a second instance
\* from starting another pip while one is running" (deps.py:18), also while an
\* unloaded instance's pip is still being killed; and one that turns the next
\* start away has somebody behind it who will replace it, after an abort, an
\* exception or two failed attempts as well.  Left out: two instances at the file
\* together, a record that cannot be written, a server that died.
OneRepairAtATime ==
    ~crossed =>
        /\ Cardinality({i \in pip : at[i] # "gone"}) <= 1
        /\ record.status = "installing" => Live(record.by) \/ at[record.by] = "gone"

\* A repair that reloads the plugin leaves no instance behind that still waits for
\* the packages, whichever one was loaded by then (_deps_install_thread).
SuccessIsLoaded ==
    \A i \in Loads : at[i] = "over" /\ plugin # 0 => at[plugin] \in {"import", "works"}

\* (Does not hold.)  "on a start where one of them is missing it reports it,
\* installs the missing ones with pip and reloads itself"
\* (docs/en_us/troubleshooting.md:13): when nothing is under way, no instance is
\* loaded that was turned away and never tried, even if no server has died.
StartIsRepaired == AtRest /\ plugin # 0 /\ crashes = 0 => at[plugin] # "told"
=============================================================================
