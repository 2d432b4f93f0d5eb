--------------------------- MODULE InstallerProofs ---------------------------
(***************************************************************************)
(* Theorems about ArchiveSwap and DepsRepair, for any number of releases,  *)
(* updates, packages, loads, crashes and failures.                         *)
(***************************************************************************)
EXTENDS ArchiveSwap, DepsRepair, FiniteSetTheorems, TLAPS

-----------------------------------------------------------------------------
(* The repair of the packages. *)

Underway == {"begun", "local", "between", "mirror", "verify", "failed", "done"}
DepsPcs == Repairing \cup {"none", "import", "works", "told", "hint", "reload", "over", "gone"}
Statuses == {"none", "installing", "installed", "failed", "ready"}

DepsTypes ==
    /\ record \in [status : Statuses, by : Nat, fresh : BOOLEAN]
    /\ plugin \in 0..MaxLoads /\ pip \subseteq Loads /\ pending \subseteq Loads
    /\ at \in [Loads -> DepsPcs]

\* Loads are numbered without a gap; what is still to be loaded is not waiting.
InOrder == \E k \in 0..MaxLoads : \A i \in Loads : at[i] # "none" <=> i <= k
Known == /\ plugin # 0 => at[plugin] # "none"
         /\ \A i \in pending : at[i] # "none"

\* on_load runs in the load that MCDR has, and pip behind a thread that waits for it.
OnLoadIsLoaded == \A i \in Loads : at[i] \in {"import", "claim", "claimed"} => plugin = i
PipIsAwaited == \A i \in pip : at[i] \in {"local", "mirror", "gone"}

\* As long as no two instances were at the file together: one repair at a time, and
\* its record is there; a claim is not made behind its back.
OneRepair ==
    /\ \A i \in Loads : at[i] \in Underway => record = [status |-> "installing", by |-> i, fresh |-> TRUE]
    /\ \A i, j \in Loads : at[i] \in Underway \cup Writing /\ at[j] \in Underway \cup Writing => i = j
    /\ \A i, j \in Loads : at[i] = "claim" => at[j] \notin Underway
    /\ record.status = "installing" => /\ record.by \in Loads
                                       /\ at[record.by] \in Underway \cup {"gone"}

\* A repair that looked again found every package, and they stay.
Verified ==
    /\ \A i \in Loads : at[i] \in {"done", "good", "reload", "over"} => Unsatisfied = {}
    /\ (\E i \in Loads : at[i] = "over") /\ plugin # 0 =>
          plugin \notin pending /\ at[plugin] \in {"import", "works"}

DepsInv ==
    /\ DepsTypes /\ InOrder /\ Known /\ OnLoadIsLoaded /\ PipIsAwaited
    /\ ~crossed => OneRepair
    /\ Verified

LEMMA AtMostOne ==
    ASSUME NEW S, \A x, y \in S : x = y
    PROVE  Cardinality(S) <= 1
<1>1. CASE S = {}
  BY <1>1, FS_EmptySet
<1>2. ASSUME NEW x \in S PROVE Cardinality(S) <= 1
  <2>1. S = {x}
    BY <1>2
  <2> QED
    BY <2>1, FS_Singleton
<1> QED
  BY <1>1, <1>2

LEMMA LoadsAreNat == MaxLoads \in Nat /\ 0 \in 0..MaxLoads
<1>1. MaxLoads \in Nat
  BY LoadsSuffice
<1> QED
  BY <1>1

\* One load goes on, from a state that it is in.
LEMMA MovesIs ==
    ASSUME at \in [Loads -> DepsPcs], NEW i \in Loads, NEW pc \in DepsPcs, Moves(i, pc)
    PROVE  /\ at' \in [Loads -> DepsPcs] /\ at'[i] = pc
           /\ \A j \in Loads : j # i => at'[j] = at[j]
  BY DEF Moves

\* The next load is one that did not exist.
LEMMA ImportIsNew ==
    ASSUME DepsTypes, InOrder, NEW i \in Loads, i = Cardinality({j \in Loads : at[j] # "none"}) + 1
    PROVE  \A j \in Loads : at[j] # "none" <=> j < i
<1>1. PICK k \in 0..MaxLoads : \A j \in Loads : at[j] # "none" <=> j <= k
  BY DEF InOrder
<1>2. k \in Nat /\ k <= MaxLoads /\ MaxLoads \in Nat
  BY <1>1, LoadsAreNat
<1>3. {j \in Loads : at[j] # "none"} = 1..k
  BY <1>1, <1>2 DEF Loads
<1>4. Cardinality(1..k) = k
  <2>1. 1 \in Int /\ k \in Int /\ (1 > k => k = 0)
    BY <1>2
  <2>2. Cardinality(1..k) = IF 1 > k THEN 0 ELSE k - 1 + 1
    BY <2>1, FS_Interval
  <2> QED
    BY <1>2, <2>1, <2>2
<1>5. i = k + 1
  <2>1. i = Cardinality(1..k) + 1
    BY <1>3
  <2> QED
    BY <1>2, <1>4, <2>1
<1> QED
  BY <1>1, <1>2, <1>5 DEF Loads

LEMMA DepsInvInit == DepsInit => DepsInv
<1> SUFFICES ASSUME DepsInit PROVE DepsInv
  OBVIOUS
<1>1. DepsTypes
  BY LoadsAreNat DEF DepsInit, DepsTypes, DepsPcs, Statuses, Empty
<1>2. \A i \in Loads : at[i] = "none"
  BY DEF DepsInit
<1>3. InOrder
  <2>1. \A i \in Loads : at[i] # "none" <=> i <= 0
    BY <1>2, LoadsAreNat DEF Loads
  <2> QED
    BY <2>1, LoadsAreNat DEF InOrder
<1> QED
  BY <1>1, <1>2, <1>3
     DEF DepsInv, DepsInit, Known, OnLoadIsLoaded, PipIsAwaited, OneRepair, Verified, Underway, Writing, Empty

\* The numbering, and what MCDR knows, when every load that existed still does.
LEMMA SameLoads ==
    ASSUME DepsTypes, InOrder, Known, \A j \in Loads : at'[j] = "none" <=> at[j] = "none",
           plugin' \in {plugin, 0}, UNCHANGED pending
    PROVE  InOrder' /\ Known'
<1>1. InOrder'
  BY DEF InOrder
<1>2. Known'
  BY DEF Known, DepsTypes, Loads
<1> QED
  BY <1>1, <1>2

\* One load goes on: what it has to keep for the parts that do not concern the record.
LEMMA OneGoesOn ==
    ASSUME DepsInv, NEW i \in Loads, NEW pc \in DepsPcs, Moves(i, pc), at[i] # "none", pc # "none",
           plugin' = plugin \/ (plugin' = 0 /\ ~Busy), UNCHANGED pending,
           record' \in [status : Statuses, by : Nat, fresh : BOOLEAN],
           \A k \in pip' : (k # i /\ k \in pip) \/ (k = i /\ pc \in {"local", "mirror", "gone"}),
           there \subseteq there',
           pc \in {"import", "claim", "claimed"} => plugin' = i,
           pc \in {"done", "good", "reload", "over"} => Unsatisfied = {},
           pc = "over" => plugin' = 0,
           plugin' = i => \/ at[i] # "works" /\ at[i] # "import"
                          \/ at[i] = "import" /\ (i \notin pending /\ Unsatisfied = {} => pc = "works"),
           ~crossed' => OneRepair'
    PROVE  DepsInv'
<1>1. /\ at' \in [Loads -> DepsPcs] /\ at'[i] = pc
      /\ \A j \in Loads : j # i => at'[j] = at[j]
  BY MovesIs DEF DepsInv, DepsTypes
<1>2. DepsTypes'
  BY <1>1, LoadsAreNat DEF DepsInv, DepsTypes
<1>3. InOrder' /\ Known'
  BY <1>1, SameLoads DEF DepsInv
<1>4. OnLoadIsLoaded'
  <2> SUFFICES ASSUME NEW j \in Loads, j # i, at[j] \in {"import", "claim", "claimed"} PROVE plugin' = j
    BY <1>1 DEF OnLoadIsLoaded
  <2>1. plugin = j /\ j # 0
    BY LoadsAreNat DEF DepsInv, OnLoadIsLoaded, Loads
  <2> QED
    BY <2>1 DEF Busy
<1>5. PipIsAwaited'
  BY <1>1 DEF PipIsAwaited, DepsInv, DepsTypes
<1>6. Unsatisfied' \subseteq Unsatisfied
  BY DEF Unsatisfied
<1>7. ASSUME NEW j \in Loads, at'[j] \in {"done", "good", "reload", "over"} PROVE Unsatisfied' = {}
  <2>1. Unsatisfied = {}
    BY <1>1, <1>7 DEF DepsInv, Verified
  <2> QED
    BY <1>6, <2>1
<1>8. ASSUME \E j \in Loads : at'[j] = "over", plugin' # 0
      PROVE  plugin' \notin pending' /\ at'[plugin'] \in {"import", "works"}
  <2>1. pc # "over" /\ plugin' = plugin
    BY <1>8
  <2>2. \E j \in Loads : at[j] = "over"
    BY <1>1, <1>8, <2>1
  <2>3. plugin \notin pending /\ at[plugin] \in {"import", "works"} /\ Unsatisfied = {}
    BY <1>8, <2>1, <2>2 DEF DepsInv, Verified
  <2>4. plugin \in Loads
    BY <1>8, <2>1, LoadsAreNat DEF DepsInv, DepsTypes, Loads
  <2> QED
    BY <1>1, <2>1, <2>3, <2>4
<1> QED
  BY <1>2, <1>3, <1>4, <1>5, <1>7, <1>8 DEF DepsInv, Verified

\* Steps of a load that are not about the record.
LEMMA RecordUntouched ==
    ASSUME DepsInv, NEW i \in Loads, NEW pc \in DepsPcs, Moves(i, pc), UNCHANGED crossed, at[i] # "gone",
           \/ at[i] \in Underway /\ pc \in Underway
           \/ /\ at[i] \notin Underway /\ pc \notin Underway \cup Writing \cup {"claim"},
           \/ UNCHANGED record
           \/ record.status # "installing" /\ record'.status # "installing"
    PROVE  ~crossed' => OneRepair'
<1> SUFFICES ASSUME ~crossed PROVE OneRepair'
  OBVIOUS
<1>1. /\ at'[i] = pc
      /\ \A j \in Loads : j # i => at'[j] = at[j]
  BY MovesIs DEF DepsInv, DepsTypes
<1>2. OneRepair
  BY DEF DepsInv
<1>3. \A j \in Loads : at'[j] \in Underway => at[j] \in Underway /\ UNCHANGED record
  BY <1>1, <1>2 DEF OneRepair
<1>4. \A j \in Loads : at'[j] \in Underway => record' = [status |-> "installing", by |-> j, fresh |-> TRUE]
  BY <1>2, <1>3 DEF OneRepair
<1>5. \A j \in Loads : at'[j] \in Underway \cup Writing => at[j] \in Underway \cup Writing
  BY <1>1, <1>3
<1>6. \A j \in Loads : at'[j] = "claim" => at[j] = "claim"
  BY <1>1 DEF Underway
<1>7. record'.status = "installing" => record'.by \in Loads /\ at'[record'.by] \in Underway \cup {"gone"}
  BY <1>1, <1>2 DEF OneRepair
<1> QED
  BY <1>2, <1>3, <1>4, <1>5, <1>6, <1>7 DEF OneRepair

-----------------------------------------------------------------------------
(* The steps. *)

\* MCDR imports the plugin.
LEMMA ImportStep == DepsInv /\ Import => DepsInv'
<1> SUFFICES ASSUME DepsInv, Import PROVE DepsInv'
  OBVIOUS
<1> DEFINE i == Cardinality({j \in Loads : at[j] # "none"}) + 1
<1>1. /\ i \in Loads /\ plugin' = i /\ Moves(i, "import")
      /\ pending' = IF Unsatisfied # {} THEN pending \cup {i} ELSE pending
      /\ plugin = 0 /\ UNCHANGED <<there, record, pip, crossed>>
  BY DEF Import
<1>2. \A j \in Loads : at[j] # "none" <=> j < i
  BY <1>1, ImportIsNew DEF DepsInv
<1> HIDE DEF i
<1>3. at[i] = "none" /\ i \notin pending /\ i \in Nat /\ i # 0 /\ i \in 0..MaxLoads
  BY <1>1, <1>2, LoadsAreNat DEF DepsInv, Known, Loads
<1>4. /\ at' \in [Loads -> DepsPcs] /\ at'[i] = "import"
      /\ \A j \in Loads : j # i => at'[j] = at[j]
  BY <1>1, MovesIs DEF DepsInv, DepsTypes, DepsPcs
<1>5. DepsTypes'
  BY <1>1, <1>3, <1>4 DEF DepsInv, DepsTypes
<1>6. InOrder'
  <2>1. \A j \in Loads : at'[j] # "none" <=> j <= i
    BY <1>2, <1>3, <1>4, LoadsAreNat DEF Loads
  <2> QED
    BY <1>3, <2>1 DEF InOrder
<1>7. Known'
  BY <1>1, <1>4 DEF DepsInv, DepsTypes, Known
<1>8. OnLoadIsLoaded'
  BY <1>1, <1>4, LoadsAreNat DEF DepsInv, OnLoadIsLoaded, Loads
<1>9. PipIsAwaited'
  BY <1>1, <1>3, <1>4 DEF DepsInv, PipIsAwaited, DepsTypes
<1>10. ~crossed' => OneRepair'
  BY <1>1, <1>3, <1>4, RecordUntouched DEF Underway, Writing, DepsPcs
<1>11. Unsatisfied' = Unsatisfied
  BY <1>1 DEF Unsatisfied
<1>12. Verified'
  BY <1>1, <1>3, <1>4, <1>11 DEF DepsInv, Verified
<1> QED
  BY <1>5, <1>6, <1>7, <1>8, <1>9, <1>10, <1>12 DEF DepsInv

LEMMA OperatorUnloadsStep == DepsInv /\ OperatorUnloads => DepsInv'
<1> SUFFICES ASSUME DepsInv, OperatorUnloads PROVE DepsInv'
  OBVIOUS
<1>1. plugin' = 0 /\ ~Busy /\ UNCHANGED <<there, record, pending, at, names, pip, crossed>>
  BY DEF OperatorUnloads, Unloads
<1>2. DepsTypes' /\ InOrder' /\ Known'
  BY <1>1, LoadsAreNat, SameLoads DEF DepsInv, DepsTypes
<1>3. OnLoadIsLoaded'
  BY <1>1, LoadsAreNat DEF DepsInv, OnLoadIsLoaded, Busy, Loads
<1>4. PipIsAwaited' /\ (~crossed' => OneRepair') /\ Verified'
  BY <1>1 DEF DepsInv, PipIsAwaited, OneRepair, Verified, Unsatisfied
<1> QED
  BY <1>2, <1>3, <1>4 DEF DepsInv

LEMMA ServerDiesStep == DepsInv /\ ServerDies => DepsInv'
<1> SUFFICES ASSUME DepsInv, ServerDies PROVE DepsInv'
  OBVIOUS
<1>1. /\ at' = [i \in Loads |-> IF Live(i) \/ at[i] \in {"import", "reload"} THEN "gone" ELSE at[i]]
      /\ plugin' = 0 /\ pip' \subseteq pip /\ UNCHANGED <<there, record, pending, crossed>>
  BY DEF ServerDies
<1>2. at' \in [Loads -> DepsPcs]
  BY <1>1 DEF DepsInv, DepsTypes, DepsPcs
<1>3. \A i \in Loads : IF at[i] \in Repairing \cup {"import", "reload"} THEN at'[i] = "gone" ELSE at'[i] = at[i]
  BY <1>1 DEF Live
<1>4. \A i \in Loads : at'[i] = "none" <=> at[i] = "none"
  BY <1>3 DEF Repairing
<1>5. DepsTypes'
  BY <1>1, <1>2, LoadsAreNat DEF DepsInv, DepsTypes
<1>6. InOrder' /\ Known'
  BY <1>1, <1>4, SameLoads DEF DepsInv
<1>7. \A i \in Loads : at'[i] \notin Underway \cup Writing \cup {"import", "claim", "claimed", "done", "good", "reload"}
  BY <1>3 DEF Repairing, Underway, Writing
<1>8. OnLoadIsLoaded'
  BY <1>7 DEF OnLoadIsLoaded
<1>9. PipIsAwaited'
  BY <1>1, <1>3 DEF DepsInv, DepsTypes, PipIsAwaited, Repairing
<1>10. ~crossed' => OneRepair'
  <2>1. \A i \in Loads : at[i] \in Underway \cup {"gone"} => at'[i] = "gone"
    BY <1>3 DEF Underway, Repairing
  <2>2. record'.status = "installing" /\ ~crossed => record'.by \in Loads /\ at'[record'.by] \in Underway \cup {"gone"}
    BY <1>1, <2>1 DEF DepsInv, OneRepair
  <2> QED
    BY <1>1, <1>7, <2>2 DEF OneRepair
<1>11. Verified'
  BY <1>1, <1>3, <1>7 DEF DepsInv, Verified, Unsatisfied
<1> QED
  BY <1>5, <1>6, <1>8, <1>9, <1>10, <1>11 DEF DepsInv

\* A record gets too old, a package appears, a pip without a thread ends.
LEMMA NothingMoves ==
    ASSUME DepsInv, UNCHANGED <<plugin, at, pending, crossed>>, pip' \subseteq pip, there \subseteq there',
           \/ UNCHANGED record
           \/ ~Live(record.by) /\ record' = [record EXCEPT !.fresh = FALSE]
    PROVE  DepsInv'
<1>1. DepsTypes' /\ InOrder' /\ Known' /\ OnLoadIsLoaded' /\ PipIsAwaited'
  BY DEF DepsInv, DepsTypes, InOrder, Known, OnLoadIsLoaded, PipIsAwaited
<1>2. ~crossed' => OneRepair'
  <2> SUFFICES ASSUME ~crossed PROVE OneRepair'
    OBVIOUS
  <2>1. OneRepair
    BY DEF DepsInv
  <2>2. CASE UNCHANGED record
    BY <2>1, <2>2 DEF OneRepair
  <2>3. CASE ~Live(record.by) /\ record' = [record EXCEPT !.fresh = FALSE]
    <3>1. \A i \in Loads : at[i] \notin Underway
      BY <2>1, <2>3 DEF OneRepair, Live, Underway, Repairing
    <3>2. record'.status = record.status /\ record'.by = record.by
      BY <2>3 DEF DepsInv, DepsTypes
    <3> QED
      BY <2>1, <3>1, <3>2 DEF OneRepair
  <2> QED
    BY <2>2, <2>3
<1>3. Unsatisfied' \subseteq Unsatisfied
  BY DEF Unsatisfied
<1>4. Verified'
  BY <1>3 DEF DepsInv, Verified
<1> QED
  BY <1>1, <1>2, <1>4 DEF DepsInv

LEMMA OnLoadStep ==
    ASSUME DepsInv, NEW i \in Loads, OnLoad(i)
    PROVE  DepsInv'
<1>0. plugin = i /\ at[i] = "import" /\ i # 0
  BY LoadsAreNat DEF OnLoad, OnLoadWorks, OnLoadRepairs, DepsInv, OnLoadIsLoaded, Loads
<1>1. \A k \in pip : k # i
  BY <1>0 DEF DepsInv, PipIsAwaited
<1>2. CASE OnLoadWorks(i)
  <2>1. /\ Moves(i, "works") /\ UNCHANGED <<there, plugin, pending, pip, crossed>> /\ i \notin pending
        /\ record' = IF record.status \in {"installed", "failed"} THEN [record EXCEPT !.status = "ready"] ELSE record
    BY <1>2 DEF OnLoadWorks
  <2>2. /\ record' \in [status : Statuses, by : Nat, fresh : BOOLEAN]
        /\ UNCHANGED record \/ (record.status # "installing" /\ record'.status # "installing")
    BY <2>1 DEF DepsInv, DepsTypes, Statuses
  <2>3. ~crossed' => OneRepair'
    BY <1>0, <2>1, <2>2, RecordUntouched DEF Underway, Writing, DepsPcs
  <2> QED
    BY <1>0, <1>1, <2>1, <2>2, <2>3, OneGoesOn DEF DepsPcs
<1>3. CASE OnLoadRepairs(i)
  <2> DEFINE pc == IF MayClaim(i) THEN "claim" ELSE "told"
  <2>1. /\ Moves(i, pc) /\ UNCHANGED <<there, record, plugin, pending, pip, crossed>>
        /\ i \in pending \/ Unsatisfied # {}
    BY <1>3 DEF OnLoadRepairs
  <2>2. pc \in DepsPcs /\ pc \in {"claim", "told"} /\ (pc = "claim" => MayClaim(i))
    BY DEF DepsPcs, Repairing
  <2> HIDE DEF pc
  <2>3. ~crossed' => OneRepair'
    <3>1. CASE pc = "told"
      BY <1>0, <2>1, <2>2, <3>1, RecordUntouched DEF Underway, Writing
    <3>2. CASE pc = "claim"
      <4> SUFFICES ASSUME ~crossed PROVE OneRepair'
        BY <2>1
      <4>1. /\ at'[i] = "claim"
            /\ \A j \in Loads : j # i => at'[j] = at[j]
        BY <2>1, <2>2, <3>2, MovesIs DEF DepsInv, DepsTypes
      <4>2. OneRepair /\ MayClaim(i)
        BY <2>2, <3>2 DEF DepsInv
      <4>3. \A j \in Loads : at[j] \notin Underway
        BY <4>2 DEF OneRepair, MayClaim
      <4> QED
        BY <1>0, <2>1, <4>1, <4>2, <4>3 DEF OneRepair, Underway, Writing
    <3> QED
      BY <2>2, <3>1, <3>2
  <2>4. record' \in [status : Statuses, by : Nat, fresh : BOOLEAN]
    BY <2>1 DEF DepsInv, DepsTypes
  <2> QED
    BY <1>0, <1>1, <2>1, <2>2, <2>3, <2>4, OneGoesOn
<1> QED
  BY <1>2, <1>3 DEF OnLoad

\* begin_install and finish_install: the record is emptied, written, or neither.
LEMMA TruncateStep ==
    ASSUME DepsInv, NEW i \in Loads, \/ Truncate(i, "claim", "claimed")
                                     \/ Truncate(i, "failed", "bad") \/ Truncate(i, "done", "good")
    PROVE  DepsInv'
<1>1. PICK from \in {"claim", "failed", "done"}, to \in {"claimed", "bad", "good"} :
          /\ at[i] = from /\ Moves(i, to) /\ record' = Empty /\ crossed' = (crossed \/ OthersAtTheFile(i))
          /\ UNCHANGED <<there, plugin, pending, pip>>
          /\ from = "claim" <=> to = "claimed"
          /\ from = "done" <=> to = "good"
  BY DEF Truncate
<1>2. to \in DepsPcs /\ to # "none" /\ record' \in [status : Statuses, by : Nat, fresh : BOOLEAN]
  BY <1>1 DEF DepsPcs, Repairing, Empty, Statuses
<1>3. /\ at'[i] = to
      /\ \A j \in Loads : j # i => at'[j] = at[j]
  BY <1>1, <1>2, MovesIs DEF DepsInv, DepsTypes
<1>4. ~crossed' => OneRepair'
  <2> SUFFICES ASSUME ~crossed, ~OthersAtTheFile(i) PROVE OneRepair'
    BY <1>1
  <2>1. OneRepair /\ \A j \in Loads : j # i => at[j] \notin Writing \cup {"claim"}
    BY DEF DepsInv, OthersAtTheFile
  <2>2. \A j \in Loads : j # i => at[j] \notin Underway
    BY <1>1, <2>1 DEF OneRepair, Underway
  <2> QED
    BY <1>1, <1>3, <2>1, <2>2 DEF OneRepair, Underway, Writing, Empty
<1>5. \A k \in pip : k # i
  BY <1>1 DEF DepsInv, PipIsAwaited
<1>6. to = "claimed" => plugin' = i
  BY <1>1 DEF DepsInv, OnLoadIsLoaded
<1>7. to = "good" => Unsatisfied = {}
  BY <1>1 DEF DepsInv, Verified
<1> QED
  BY <1>1, <1>2, <1>4, <1>5, <1>6, <1>7, OneGoesOn

LEMMA CannotWriteStep ==
    ASSUME DepsInv, NEW i \in Loads, \/ CannotWrite(i, "claim", "begun")
                                     \/ CannotWrite(i, "failed", "hint") \/ CannotWrite(i, "done", "reload")
    PROVE  DepsInv'
<1>1. PICK from \in {"claim", "failed", "done"}, to \in {"begun", "hint", "reload"} :
          /\ at[i] = from /\ Moves(i, to) /\ crossed'
          /\ UNCHANGED <<there, record, plugin, pending, pip>>
          /\ from = "done" <=> to = "reload"
  BY DEF CannotWrite
<1>2. to \in DepsPcs /\ to # "none" /\ record' \in [status : Statuses, by : Nat, fresh : BOOLEAN]
  BY <1>1 DEF DepsInv, DepsTypes, DepsPcs, Repairing
<1>3. \A k \in pip : k # i
  BY <1>1 DEF DepsInv, PipIsAwaited
<1>4. to = "reload" => Unsatisfied = {}
  BY <1>1 DEF DepsInv, Verified
<1> QED
  BY <1>1, <1>2, <1>3, <1>4, OneGoesOn

LEMMA DumpStep ==
    ASSUME DepsInv, NEW i \in Loads, \/ Dump(i, "claimed", "installing", "begun")
                                     \/ Dump(i, "bad", "failed", "hint")
                                     \/ Dump(i, "good", "installed", "reload")
    PROVE  DepsInv'
<1>1. PICK from \in Writing, status \in {"installing", "failed", "installed"}, to \in {"begun", "hint", "reload"} :
          /\ at[i] = from /\ Moves(i, to) /\ crossed' = (crossed \/ OthersAtTheFile(i))
          /\ record' = [status |-> status, by |-> i, fresh |-> TRUE]
          /\ UNCHANGED <<there, plugin, pending, pip>>
          /\ to = "begun" <=> status = "installing"
          /\ to = "reload" <=> from = "good"
  BY DEF Dump, Writing
<1>2. to \in DepsPcs /\ to # "none" /\ record' \in [status : Statuses, by : Nat, fresh : BOOLEAN]
  BY <1>1, LoadsAreNat DEF DepsPcs, Repairing, Statuses, Loads
<1>3. /\ at'[i] = to
      /\ \A j \in Loads : j # i => at'[j] = at[j]
  BY <1>1, <1>2, MovesIs DEF DepsInv, DepsTypes
<1>4. ~crossed' => OneRepair'
  <2> SUFFICES ASSUME ~crossed, ~OthersAtTheFile(i) PROVE OneRepair'
    BY <1>1
  <2>1. OneRepair /\ \A j \in Loads : j # i => at[j] \notin Writing \cup {"claim"}
    BY DEF DepsInv, OthersAtTheFile
  <2>2. \A j \in Loads : j # i => at[j] \notin Underway
    BY <1>1, <2>1 DEF OneRepair
  <2> QED
    BY <1>1, <1>3, <2>1, <2>2 DEF OneRepair, Underway, Writing
<1>5. \A k \in pip : k # i
  BY <1>1 DEF DepsInv, PipIsAwaited, Writing
<1>6. to = "reload" => Unsatisfied = {}
  BY <1>1 DEF DepsInv, Verified
<1> QED
  BY <1>1, <1>2, <1>4, <1>5, <1>6, OneGoesOn DEF Writing

\* The thread at its pip, from the first attempt to the look at the packages.
LEMMA AttemptStep ==
    ASSUME DepsInv, NEW i \in Loads, FirstAttempt(i) \/ Attempt(i) \/ SecondAttempt(i) \/ LookAgain(i)
    PROVE  DepsInv'
<1>0. /\ UNCHANGED <<there, record, plugin, pending, crossed>>
      /\ at[i] \in {"begun", "local", "between", "mirror", "verify"}
  BY DEF FirstAttempt, Attempt, PipEnds, AbortNoticed, Timeout, SecondAttempt, LookAgain, ThreadOnly
<1>1. at[i] \in {"begun", "between", "verify"} => i \notin pip
  BY DEF DepsInv, PipIsAwaited
<1>2. PICK pc \in Underway :
          /\ Moves(i, pc)
          /\ pip' = pip \/ pip' = pip \ {i} \/ (pip' = pip \cup {i} /\ pc \in {"local", "mirror"})
          /\ pip' = pip => i \notin pip
          /\ pc # "begun" /\ (pc = "done" => Unsatisfied = {})
  <2>1. CASE FirstAttempt(i)
    BY <1>1, <2>1 DEF FirstAttempt, Starts, Underway
  <2>2. CASE PipEnds(i)
    <3>1. PICK ok \in BOOLEAN : Moves(i, IF ok THEN "verify" ELSE IF at[i] = "local" THEN "between" ELSE "failed")
      BY <2>2 DEF PipEnds
    <3>2. Moves(i, "verify") \/ Moves(i, "between") \/ Moves(i, "failed")
      BY <3>1
    <3> QED
      BY <2>2, <3>2 DEF PipEnds, Underway
  <2>3. CASE AbortNoticed(i) \/ Timeout(i)
    <3>1. Moves(i, "between") \/ Moves(i, "failed")
      BY <2>3 DEF AbortNoticed, Timeout
    <3> QED
      BY <2>3, <3>1 DEF AbortNoticed, Timeout, Underway
  <2>4. CASE SecondAttempt(i)
    BY <1>1, <2>4 DEF SecondAttempt, Starts, Underway
  <2>5. CASE LookAgain(i)
    BY <1>1, <2>5 DEF LookAgain, Underway
  <2> QED
    BY <2>1, <2>2, <2>3, <2>4, <2>5 DEF Attempt
<1>3. pc \in DepsPcs /\ record' \in [status : Statuses, by : Nat, fresh : BOOLEAN]
  BY <1>0 DEF DepsInv, DepsTypes, DepsPcs, Repairing, Underway
<1>4. ~crossed' => OneRepair'
  BY <1>0, <1>2, <1>3, RecordUntouched DEF Underway
<1>5. \A k \in pip' : (k # i /\ k \in pip) \/ (k = i /\ pc \in {"local", "mirror", "gone"})
  BY <1>2
<1> QED
  BY <1>0, <1>2, <1>3, <1>4, <1>5, OneGoesOn DEF Underway

LEMMA ReloadStep ==
    ASSUME DepsInv, NEW i \in Loads, SelfReload(i) \/ ReloadRefused(i)
    PROVE  DepsInv'
<1>0. /\ at[i] = "reload" /\ UNCHANGED <<there, record, pending, pip, crossed>>
      /\ record' \in [status : Statuses, by : Nat, fresh : BOOLEAN]
  BY DEF SelfReload, ReloadRefused, ThreadOnly, DepsInv, DepsTypes
<1>1. \A k \in pip : k # i
  BY <1>0 DEF DepsInv, PipIsAwaited
<1>2. CASE SelfReload(i)
  <2>1. Moves(i, "over") /\ plugin' = 0 /\ ~Busy
    BY <1>2 DEF SelfReload, Unloads
  <2>2. ~crossed' => OneRepair'
    BY <1>0, <2>1, RecordUntouched DEF Underway, Writing, DepsPcs
  <2>3. Unsatisfied = {}
    BY <1>0 DEF DepsInv, Verified
  <2>4. plugin' # i
    BY <2>1, LoadsAreNat DEF Loads
  <2> QED
    BY <1>0, <1>1, <2>1, <2>2, <2>3, <2>4, OneGoesOn DEF DepsPcs
<1>3. CASE ReloadRefused(i)
  <2>1. Moves(i, "hint") /\ UNCHANGED plugin
    BY <1>3 DEF ReloadRefused, ThreadOnly
  <2>2. ~crossed' => OneRepair'
    BY <1>0, <2>1, RecordUntouched DEF Underway, Writing, DepsPcs
  <2> QED
    BY <1>0, <1>1, <2>1, <2>2, OneGoesOn DEF DepsPcs
<1> QED
  BY <1>2, <1>3

LEMMA DepsInvNext == DepsInv /\ [DepsNext]_depsVars => DepsInv'
<1> SUFFICES ASSUME DepsInv, [DepsNext]_depsVars PROVE DepsInv'
  OBVIOUS
<1>1. CASE GetsStale
  BY <1>1, NothingMoves DEF GetsStale
<1>2. ASSUME NEW i \in Loads, Installs(i) \/ OrphanEnds(i) PROVE DepsInv'
  BY <1>2, NothingMoves DEF Installs, OrphanEnds, ThreadOnly
<1>3. CASE UNCHANGED depsVars
  BY <1>3, NothingMoves DEF depsVars
<1>4. ASSUME NEW i \in Loads, Thread(i) PROVE DepsInv'
  BY <1>4, TruncateStep, CannotWriteStep, DumpStep, AttemptStep, ReloadStep
     DEF Thread, BeginInstall, FinishInstall
<1> QED
  BY <1>1, <1>2, <1>3, <1>4, ImportStep, OperatorUnloadsStep, ServerDiesStep, OnLoadStep DEF DepsNext

\* At most one pip runs that a thread waits for, and a record that turns the next
\* start away has a thread behind it that will replace it, unless two instances
\* were at the file together, a write failed or the server died (begin_install,
\* finish_install).
THEOREM RepairsTakeTurns == DepsSpec => []OneRepairAtATime
<1>1. DepsInv => OneRepairAtATime
  <2> SUFFICES ASSUME DepsInv, ~crossed
               PROVE  /\ Cardinality({i \in pip : at[i] # "gone"}) <= 1
                      /\ record.status = "installing" => Live(record.by) \/ at[record.by] = "gone"
    BY DEF OneRepairAtATime
  <2>1. OneRepair /\ PipIsAwaited /\ pip \subseteq Loads
    BY DEF DepsInv, DepsTypes
  <2>2. \A i, j \in {k \in pip : at[k] # "gone"} : i = j
    BY <2>1 DEF OneRepair, PipIsAwaited, Underway
  <2> QED
    BY <2>1, <2>2, AtMostOne DEF OneRepair, Live, Repairing, Underway
<1> QED
  BY <1>1, DepsInvInit, DepsInvNext, PTL DEF DepsSpec

\* A repair that had the plugin loaded again leaves no instance behind that waits
\* for the packages (_deps_install_thread).
THEOREM RepairIsLoaded == DepsSpec => []SuccessIsLoaded
<1>1. DepsInv => SuccessIsLoaded
  BY DEF DepsInv, Verified, SuccessIsLoaded
<1> QED
  BY <1>1, DepsInvInit, DepsInvNext, PTL DEF DepsSpec

-----------------------------------------------------------------------------
(* The update of the plugin's file. *)

ThreadRecords == [pc : PCs, old : Contents, new : Versions, unloadFirst : BOOLEAN,
                  expect : Contents, claim : Claims, own : BOOLEAN]

\* Threads begin in turn; one that is at work has claimed nothing yet, on a server
\* that runs.
InTurn ==
    /\ \A t \in Threads : th[t].pc = "idle" <=> t > started
    /\ \A t \in Threads : th[t].pc \in Working \cup {"confirm"} => th[t].claim = "none"
    /\ \A t \in Threads : th[t].pc \in Working => up

\* What lies where at each stage of the thread that is at work.
Stage(t) ==
    LET v == th[t].new  pc == th[t].pc IN
    /\ pc \in {"download", "fetch", "verify", "backup", "unload", "remove"} => disk.target = th[t].old
    /\ pc \in {"backup", "unload", "remove", "place"} => part[v] \in {v, NoFile}
    /\ pc \in {"unload", "remove", "place", "load", "check", "copyback", "clear", "putback",
               "retry", "reload"} => disk.bak = th[t].old
    /\ pc \in {"remove", "place", "load"} => loaded = Nothing
    /\ pc \in {"load", "check"} => disk.target = v
    /\ pc \in {"copyback", "clear", "putback", "retry", "reload"} => loaded \notin Versions
    /\ pc \in {"clear", "putback", "retry"} => disk.restore = th[t].old
    /\ pc = "reload" => disk.target = th[t].old

\* Where the archive is that the last update set out to replace.
Placed(t) ==
    /\ th[t].claim = "kept" => disk.target = th[t].old
    /\ th[t].claim \in {"lost", "reloaded", "restored"} \/ th[t].pc = "confirm" => disk.bak = th[t].old
    /\ th[t].claim = "none" => th[t].old \in {disk.target, disk.bak}

\* As long as no two updates overlap: what MCDR runs is the live file.
Sound ==
    /\ loaded \in Versions => disk.target = loaded
    /\ disk.target # Torn
    /\ \A t \in Threads : th[t].pc \in Working => t = started /\ Stage(t)
    /\ \A t \in Threads : t <= started => th[t].old \in Versions
    /\ \A t \in Threads : th[t].pc = "confirm" => th[t].expect = th[t].old
    /\ started > 0 => Placed(started)

SwapInv == TypeOK /\ InTurn /\ (~overlapped => Sound)

\* The thread t goes on, and the others stay where they are.
Became(t, pc, claim) ==
    /\ th' \in [Threads -> ThreadRecords]
    /\ th'[t].pc = pc /\ th'[t].claim = claim /\ th'[t].old = th[t].old /\ th'[t].new = th[t].new
    /\ \A s \in Threads : s # t => th'[s] = th[s]

LEMMA GotoIs ==
    ASSUME TypeOK, NEW t \in Threads, NEW pc \in PCs, Goto(t, pc)
    PROVE  Became(t, pc, th[t].claim)
  BY DEF TypeOK, Goto, Became, ThreadRecords

LEMMA FinishIs ==
    ASSUME TypeOK, NEW t \in Threads, NEW pc \in PCs, NEW claim \in Claims, Finish(t, claim, pc)
    PROVE  Became(t, pc, claim)
  BY DEF TypeOK, Finish, Became, ThreadRecords

\* What the disk is after each kind of write.
LEMMA WithIs ==
    ASSUME TypeOK, NEW f \in {"target", "bak", "restore"}, NEW c \in Contents
    PROVE  /\ With(f, c) \in [{"target", "bak", "restore"} -> Contents] /\ With(f, c)[f] = c
           /\ \A g \in {"target", "bak", "restore"} : g # f => With(f, c)[g] = disk[g]
  BY DEF TypeOK, With

LEMMA FailedCopiesLeave ==
    ASSUME TypeOK, NEW g \in {"target", "bak", "restore"}, NEW f \in {"target", "bak", "restore"},
           NEW d \in FailedCopies(g, f)
    PROVE  /\ d \in [{"target", "bak", "restore"} -> Contents]
           /\ \A h \in {"target", "bak", "restore"} : h # f => d[h] = disk[h]
<1>1. d = disk \/ d = With(f, NoFile) \/ d = With(f, Torn)
  BY DEF FailedCopies, RemovedQuietly
<1>2. NoFile \in Contents /\ Torn \in Contents
  BY DEF Contents
<1> QED
  BY <1>1, <1>2, WithIs DEF TypeOK

LEMMA Numbers ==
    /\ Newest \in Nat /\ MaxUpdates \in Nat /\ MaxReloads \in Nat /\ 0 \in Versions
    /\ \A v \in Versions : v \in Int /\ v >= 0 /\ v \in Contents /\ v # NoFile /\ v # Torn /\ v # Nothing /\ v # Other
    /\ NoFile \in Contents /\ Torn \in Contents /\ NoFile # Torn
    /\ Nothing \in Loadable /\ Other \in Loadable /\ Versions \subseteq Loadable
    /\ Nothing \notin Versions /\ Other \notin Versions /\ NoFile \notin Versions /\ Torn \notin Versions
<1>1. Newest \in Nat /\ MaxUpdates \in Nat /\ MaxReloads \in Nat
  BY NewestRelease, UpdateBounds
<1> QED
  BY <1>1 DEF Versions, Contents, Loadable, NoFile, Torn, Nothing, Other

LEMMA AfterLoadIs ==
    ASSUME TypeOK, NEW c \in Contents, NEW v \in AfterLoad(c)
    PROVE  /\ v \in Loadable
           /\ v \in Versions => (loaded \in Versions /\ v = loaded) \/ (loaded = Nothing /\ v = c)
  BY Numbers DEF TypeOK, AfterLoad

LEMMA ReportsTypes ==
    ASSUME TypeOK, NEW v \in Loadable, Reports(v)
    PROVE  loaded' = v /\ busy' \in 0..MaxUpdates /\ checkDue' \in BOOLEAN
<1>1. loaded' = v /\ busy' \in 0..MaxUpdates
  BY Numbers DEF TypeOK, Reports
<1>2. checkDue' = checkDue \/ checkDue' = (v \in Versions)
  BY DEF Reports
<1>3. (v \in Versions) \in BOOLEAN /\ checkDue \in BOOLEAN
  BY DEF TypeOK
<1> QED
  BY <1>1, <1>2, <1>3

\* A thread at work goes on: what is left to show of its step.
LEMMA WorkGoesOn ==
    ASSUME SwapInv, NEW t \in Threads, th[t].pc \in Working, SameWorld,
           NEW pc \in PCs \ {"idle"}, NEW claim \in Claims, Became(t, pc, claim),
           disk' \in [{"target", "bak", "restore"} -> Contents], part' \in [Versions -> Contents],
           loaded' \in Loadable, busy' \in 0..MaxUpdates, checkDue' \in BOOLEAN,
           pc \in Working \cup {"confirm"} => claim = "none",
           ~overlapped /\ Sound /\ t = started =>
              /\ loaded' \in Versions => disk'.target = loaded'
              /\ disk'.target # Torn
              /\ pc \in Working => Stage(t)'
              /\ pc = "confirm" => th'[t].expect = th[t].old
              /\ Placed(t)'
    PROVE  SwapInv'
<1>1. TypeOK'
  BY DEF SwapInv, TypeOK, SameWorld, Became, ThreadRecords
<1>2. InTurn'
  BY DEF SwapInv, InTurn, SameWorld, Became, Working
<1>3. ASSUME ~overlapped PROVE Sound'
  <2>1. Sound /\ t = started /\ started' = started
    BY <1>3 DEF SwapInv, Sound, SameWorld
  <2>2. \A s \in Threads : s # t => th'[s] = th[s] /\ th[s].pc \notin Working
    BY <2>1 DEF Sound, Became
  <2>3. \A s \in Threads : th'[s].old = th[s].old
    BY <2>2 DEF Became
  <2> QED
    BY <1>3, <2>1, <2>2, <2>3 DEF Sound, Became
<1> QED
  BY <1>1, <1>2, <1>3 DEF SwapInv, SameWorld

\* What a thread at work finds.
LEMMA AtWork ==
    ASSUME SwapInv, NEW t \in Threads, th[t].pc \in Working
    PROVE  /\ TypeOK /\ th[t].claim = "none" /\ th[t].old \in Contents /\ th[t].new \in Versions
           /\ disk \in [{"target", "bak", "restore"} -> Contents] /\ part \in [Versions -> Contents]
           /\ loaded \in Loadable /\ busy \in 0..MaxUpdates /\ checkDue \in BOOLEAN
           /\ ~overlapped => /\ Sound /\ t = started /\ Stage(t) /\ Placed(t) /\ th[t].old \in Versions
                             /\ loaded \in Versions => disk.target = loaded
                             /\ disk.target # Torn
<1>1. th[t].old \in Contents /\ th[t].new \in Versions /\ started \in 0..MaxUpdates
  BY DEF SwapInv, TypeOK
<1>2. ASSUME ~overlapped
      PROVE  Sound /\ t = started /\ Stage(t) /\ Placed(t) /\ th[t].old \in Versions
  <2>1. Sound /\ t = started /\ Stage(t)
    BY <1>2 DEF SwapInv, Sound
  <2>2. t <= started /\ started > 0
    BY <2>1, Numbers DEF Threads
  <2> QED
    BY <2>1, <2>2 DEF Sound
<1> QED
  BY <1>1, <1>2 DEF SwapInv, TypeOK, InTurn, Sound

\* Steps that leave MCDR and the live file as they are.
LEMMA PrepareStep ==
    ASSUME SwapInv, NEW t \in Threads, StartDownload(t) \/ EndDownload(t) \/ Verify(t)
    PROVE  SwapInv'
<1>1. /\ th[t].pc \in {"download", "fetch", "verify"} /\ UNCHANGED disk /\ SameMcdr /\ SameWorld
  BY DEF StartDownload, EndDownload, Verify, At
<1>2. th[t].pc \in Working
  BY <1>1 DEF Working
<1>3. part' \in [Versions -> Contents]
  <2>1. \E c \in Contents : part' = part \/ part' = [part EXCEPT ![th[t].new] = c]
    <3>1. part[th[t].new] \in Contents /\ th[t].new \in Contents
      BY <1>2, AtWork, Numbers
    <3> QED
      BY <3>1, Numbers DEF StartDownload, EndDownload, Verify
  <2> QED
    BY <1>2, <2>1, AtWork
<1>4. \/ \E pc \in {"fetch", "verify"} : Goto(t, pc)
      \/ Goto(t, "backup") /\ part'[th[t].new] = th[t].new
      \/ Finish(t, "kept", "release")
  BY DEF StartDownload, EndDownload, Verify
<1>5. PICK pc \in {"fetch", "verify", "backup", "release"}, claim \in {"none", "kept"} :
         /\ Became(t, pc, claim)
         /\ pc = "release" <=> claim = "kept"
         /\ pc = "backup" => part'[th[t].new] = th[t].new
  BY <1>2, <1>4, AtWork, GotoIs, FinishIs DEF PCs, Working, Claims
<1>6. pc \in PCs \ {"idle"} /\ claim \in Claims
  BY DEF PCs, Working, Claims
<1>7. ASSUME ~overlapped
      PROVE  /\ loaded' \in Versions => disk'.target = loaded'
             /\ disk'.target # Torn
             /\ pc \in Working => Stage(t)'
             /\ Placed(t)'
  BY <1>1, <1>2, <1>5, <1>7, AtWork DEF SameMcdr, Stage, Placed, Became
<1>8. pc # "confirm" /\ (pc \in Working => claim = "none")
  BY <1>5 DEF Working
<1>9. UNCHANGED <<disk, loaded, busy, checkDue>> /\ SameWorld
  BY <1>1 DEF SameMcdr
<1> QED
  BY <1>2, <1>3, <1>5, <1>6, <1>7, <1>8, <1>9, AtWork, WorkGoesOn

LEMMA BackupStep ==
    ASSUME SwapInv, NEW t \in Threads, Backup(t)
    PROVE  SwapInv'
<1>1. /\ th[t].pc = "backup" /\ UNCHANGED part /\ SameMcdr /\ SameWorld
      /\ \/ disk' = With("bak", disk.target) /\ Goto(t, "unload")
         \/ disk' \in FailedCopies("target", "bak") /\ Finish(t, "kept", "discard")
  BY DEF Backup, At
<1>2. th[t].pc \in Working
  BY <1>1 DEF Working
<1>3. /\ disk' \in [{"target", "bak", "restore"} -> Contents] /\ disk'.target = disk.target
      /\ \/ Became(t, "unload", "none") /\ disk'.bak = disk.target
         \/ Became(t, "discard", "kept")
  <2>1. CASE disk' = With("bak", disk.target) /\ Goto(t, "unload")
    <3>1. disk.target \in Contents
      BY <1>2, AtWork
    <3> QED
      BY <1>2, <2>1, <3>1, AtWork, WithIs, GotoIs DEF PCs, Working
  <2>2. CASE disk' \in FailedCopies("target", "bak") /\ Finish(t, "kept", "discard")
    BY <1>2, <2>2, AtWork, FailedCopiesLeave, FinishIs DEF PCs, Claims
  <2> QED
    BY <1>1, <2>1, <2>2
<1>4. PICK pc \in {"unload", "discard"}, claim \in {"none", "kept"} :
         /\ Became(t, pc, claim)
         /\ pc = "unload" <=> claim = "none"
         /\ pc = "unload" => disk'.bak = disk.target
  BY <1>3
<1>5. pc \in PCs \ {"idle"} /\ claim \in Claims
  BY DEF PCs, Working, Claims
<1>6. ASSUME ~overlapped
      PROVE  /\ loaded' \in Versions => disk'.target = loaded'
             /\ disk'.target # Torn
             /\ pc \in Working => Stage(t)'
             /\ Placed(t)'
  BY <1>1, <1>2, <1>3, <1>4, <1>6, AtWork DEF SameMcdr, Stage, Placed, Became, Working
<1> QED
  BY <1>1, <1>2, <1>3, <1>4, <1>5, <1>6, AtWork, WorkGoesOn DEF SameMcdr, Working

LEMMA UnloadStep ==
    ASSUME SwapInv, NEW t \in Threads, Unload(t)
    PROVE  SwapInv'
<1>1. th[t].pc = "unload" /\ UNCHANGED part /\ SameWorld
  BY DEF Unload, At
<1>2. th[t].pc \in Working
  BY <1>1 DEF Working
<1>3. \/ Reports(Nothing) /\ Goto(t, "remove") /\ UNCHANGED disk
      \/ disk' \in RemovedQuietly("bak") /\ Finish(t, "kept", "discard") /\ SameMcdr
  BY DEF Unload
<1>4. /\ disk' \in [{"target", "bak", "restore"} -> Contents] /\ disk'.target = disk.target
      /\ loaded' \in Loadable /\ busy' \in 0..MaxUpdates /\ checkDue' \in BOOLEAN
      /\ \/ Became(t, "remove", "none") /\ loaded' = Nothing /\ UNCHANGED disk
         \/ Became(t, "discard", "kept") /\ UNCHANGED loaded
  <2>1. CASE Reports(Nothing) /\ Goto(t, "remove") /\ UNCHANGED disk
    BY <1>2, <2>1, AtWork, ReportsTypes, Numbers, GotoIs DEF PCs, Working
  <2>2. CASE disk' \in RemovedQuietly("bak") /\ Finish(t, "kept", "discard") /\ SameMcdr
    BY <1>2, <2>2, AtWork, WithIs, Numbers, FinishIs DEF PCs, Claims, RemovedQuietly, SameMcdr
  <2> QED
    BY <1>3, <2>1, <2>2
<1>5. PICK pc \in {"remove", "discard"}, claim \in {"none", "kept"} :
         /\ Became(t, pc, claim)
         /\ pc = "remove" <=> claim = "none"
         /\ pc = "remove" => loaded' = Nothing /\ UNCHANGED disk
         /\ pc = "discard" => UNCHANGED loaded
  BY <1>4
<1>6. pc \in PCs \ {"idle"} /\ claim \in Claims /\ (pc \in Working <=> pc = "remove")
  BY DEF PCs, Working, Claims
<1>7. ASSUME ~overlapped
      PROVE  /\ loaded' \in Versions => disk'.target = loaded'
             /\ disk'.target # Torn
             /\ pc \in Working => Stage(t)'
             /\ Placed(t)'
  BY <1>1, <1>2, <1>4, <1>5, <1>6, <1>7, AtWork, Numbers DEF Stage, Placed, Became
<1> QED
  BY <1>1, <1>2, <1>4, <1>5, <1>6, <1>7, AtWork, WorkGoesOn

LEMMA RemoveStep ==
    ASSUME SwapInv, NEW t \in Threads, Remove(t)
    PROVE  SwapInv'
<1>1. th[t].pc = "remove" /\ UNCHANGED part /\ SameWorld
  BY DEF Remove, At
<1>2. th[t].pc \in Working
  BY <1>1 DEF Working
<1>3. PICK pc \in {"place", "discard"}, claim \in {"none", "reloaded", "lost"} :
         /\ Became(t, pc, claim)
         /\ pc = "place" <=> claim = "none"
         /\ pc = "place" => disk' = With("target", NoFile) /\ SameMcdr
         /\ pc = "discard" => UNCHANGED disk /\ \E v \in AfterLoad(disk.target) : Reports(v)
  <2>1. CASE disk' = With("target", NoFile) /\ Goto(t, "place") /\ SameMcdr
    BY <1>2, <2>1, AtWork, GotoIs DEF PCs, Working
  <2>2. ASSUME NEW v \in AfterLoad(disk.target), UNCHANGED disk, Reports(v),
               Finish(t, IF v # loaded THEN "reloaded" ELSE "lost", "discard")
        PROVE  /\ Became(t, "discard", "reloaded") \/ Became(t, "discard", "lost")
               /\ UNCHANGED disk /\ \E u \in AfterLoad(disk.target) : Reports(u)
    BY <1>2, <2>2, AtWork, FinishIs DEF PCs, Claims
  <2> QED
    BY <2>1, <2>2 DEF Remove
<1>4. /\ disk' \in [{"target", "bak", "restore"} -> Contents]
      /\ loaded' \in Loadable /\ busy' \in 0..MaxUpdates /\ checkDue' \in BOOLEAN
      /\ pc = "place" => disk'.target = NoFile /\ disk'.bak = disk.bak /\ UNCHANGED loaded
      /\ pc = "discard" => /\ loaded' \in Versions => \/ loaded \in Versions /\ loaded' = loaded
                                                      \/ loaded = Nothing /\ loaded' = disk.target
  <2>1. CASE pc = "place"
    BY <1>2, <1>3, <2>1, AtWork, WithIs, Numbers DEF SameMcdr
  <2>2. CASE pc = "discard"
    <3>1. PICK v \in AfterLoad(disk.target) : Reports(v)
      BY <1>3, <2>2
    <3>2. disk.target \in Contents
      BY <1>2, AtWork
    <3>3. v \in Loadable
      BY <1>2, <3>1, <3>2, AtWork, AfterLoadIs
    <3> QED
      BY <1>2, <1>3, <2>2, <3>1, <3>2, <3>3, AtWork, AfterLoadIs, ReportsTypes
  <2> QED
    BY <2>1, <2>2
<1>5. pc \in PCs \ {"idle"} /\ claim \in Claims /\ (pc \in Working <=> pc = "place")
  BY DEF PCs, Working, Claims
<1>6. ASSUME ~overlapped
      PROVE  /\ loaded' \in Versions => disk'.target = loaded'
             /\ disk'.target # Torn
             /\ pc \in Working => Stage(t)'
             /\ Placed(t)'
  BY <1>1, <1>2, <1>3, <1>4, <1>5, <1>6, AtWork, Numbers DEF Stage, Placed, Became
<1> QED
  BY <1>1, <1>2, <1>3, <1>4, <1>5, <1>6, AtWork, WorkGoesOn

LEMMA PlaceStep ==
    ASSUME SwapInv, NEW t \in Threads, Place(t)
    PROVE  SwapInv'
<1> DEFINE v == th[t].new
<1>1. /\ th[t].pc = "place" /\ SameMcdr /\ SameWorld
      /\ \/ /\ disk' = With("target", part[v]) /\ part' = [part EXCEPT ![v] = NoFile] /\ part[v] # NoFile
            /\ Goto(t, "load")
         \/ UNCHANGED <<disk, part>> /\ Goto(t, "copyback")
  BY DEF Place, At
<1>2. th[t].pc \in Working
  BY <1>1 DEF Working
<1>3. v \in Versions /\ part[v] \in Contents
  BY <1>2, AtWork
<1>4. PICK pc \in {"load", "copyback"} :
         /\ Became(t, pc, "none")
         /\ pc = "load" => /\ disk' = With("target", part[v]) /\ part' = [part EXCEPT ![v] = NoFile]
                           /\ part[v] # NoFile
         /\ pc = "copyback" => UNCHANGED <<disk, part>>
  BY <1>1, <1>2, AtWork, GotoIs DEF PCs, Working
<1>5. /\ disk' \in [{"target", "bak", "restore"} -> Contents] /\ disk'.bak = disk.bak
      /\ part' \in [Versions -> Contents] /\ (pc = "load" => disk'.target = part[v])
  BY <1>2, <1>3, <1>4, AtWork, WithIs, Numbers
<1>6. pc \in PCs \ {"idle"} /\ "none" \in Claims
  BY DEF PCs, Working, Claims
<1>7. ASSUME ~overlapped
      PROVE  /\ loaded' \in Versions => disk'.target = loaded'
             /\ disk'.target # Torn
             /\ Stage(t)'
             /\ Placed(t)'
  BY <1>1, <1>2, <1>3, <1>4, <1>5, <1>7, AtWork, Numbers DEF SameMcdr, Stage, Placed, Became
<1> QED
  BY <1>1, <1>2, <1>4, <1>5, <1>6, <1>7, AtWork, WorkGoesOn DEF SameMcdr

LEMMA LoadStep ==
    ASSUME SwapInv, NEW t \in Threads, Load(t)
    PROVE  SwapInv'
<1>1. th[t].pc = "load" /\ UNCHANGED <<disk, part>> /\ SameWorld /\ Goto(t, "check")
  BY DEF Load, At
<1>2. th[t].pc \in Working
  BY <1>1 DEF Working
<1>3. PICK v \in AfterLoad(disk.target) : Reports(v)
  BY DEF Load
<1>4. disk.target \in Contents
  BY <1>2, AtWork
<1>5. v \in Loadable /\ (v \in Versions => v = loaded \/ v = disk.target)
  BY <1>2, <1>3, <1>4, AtWork, AfterLoadIs
<1>6. loaded' = v /\ busy' \in 0..MaxUpdates /\ checkDue' \in BOOLEAN
  BY <1>2, <1>3, <1>5, AtWork, ReportsTypes
<1>7. Became(t, "check", "none") /\ "check" \in PCs \ {"idle"} /\ "none" \in Claims
  BY <1>1, <1>2, AtWork, GotoIs DEF PCs, Working, Claims
<1>8. ASSUME ~overlapped
      PROVE  /\ loaded' \in Versions => disk'.target = loaded'
             /\ disk'.target # Torn
             /\ Stage(t)'
             /\ Placed(t)'
  BY <1>1, <1>2, <1>5, <1>6, <1>7, <1>8, AtWork, Numbers DEF Stage, Placed, Became
<1> QED
  BY <1>1, <1>2, <1>5, <1>6, <1>7, <1>8, AtWork, WorkGoesOn

LEMMA CheckLoadedStep ==
    ASSUME SwapInv, NEW t \in Threads, CheckLoaded(t)
    PROVE  SwapInv'
<1>1. th[t].pc = "check" /\ UNCHANGED part /\ SameMcdr /\ SameWorld
  BY DEF CheckLoaded, At
<1>2. th[t].pc \in Working
  BY <1>1 DEF Working
<1>3. /\ disk' \in [{"target", "bak", "restore"} -> Contents] /\ disk'.target = disk.target
      /\ \/ Became(t, "discard", "updated")
         \/ Became(t, "copyback", "none") /\ UNCHANGED disk /\ loaded # th[t].new
  <2>1. CASE loaded = th[t].new
    BY <1>2, <2>1, AtWork, WithIs, Numbers, FinishIs DEF CheckLoaded, RemovedQuietly, PCs, Claims
  <2>2. CASE loaded # th[t].new
    <3>1. UNCHANGED disk /\ th' = [th EXCEPT ![t].pc = "copyback", ![t].unloadFirst = (loaded # Nothing)]
      BY <2>2 DEF CheckLoaded
    <3>2. "copyback" \in PCs
      BY DEF PCs, Working
    <3>3. th \in [Threads -> ThreadRecords] /\ th[t].claim = "none" /\ (loaded # Nothing) \in BOOLEAN
      BY <1>2, AtWork DEF TypeOK, ThreadRecords
    <3>4. Became(t, "copyback", "none")
      BY <3>1, <3>2, <3>3 DEF Became, ThreadRecords
    <3> QED
      BY <1>2, <2>2, <3>1, <3>4, AtWork
  <2> QED
    BY <2>1, <2>2
<1>4. PICK pc \in {"discard", "copyback"}, claim \in {"updated", "none"} :
         /\ Became(t, pc, claim)
         /\ pc = "copyback" <=> claim = "none"
         /\ pc = "copyback" => UNCHANGED disk /\ loaded # th[t].new
  BY <1>3
<1>5. pc \in PCs \ {"idle"} /\ claim \in Claims /\ (pc \in Working <=> pc = "copyback")
  BY DEF PCs, Working, Claims
<1>6. ASSUME ~overlapped
      PROVE  /\ loaded' \in Versions => disk'.target = loaded'
             /\ disk'.target # Torn
             /\ pc \in Working => Stage(t)'
             /\ Placed(t)'
  BY <1>1, <1>2, <1>3, <1>4, <1>5, <1>6, AtWork, Numbers DEF SameMcdr, Stage, Placed, Became
<1> QED
  BY <1>1, <1>2, <1>3, <1>4, <1>5, <1>6, AtWork, WorkGoesOn DEF SameMcdr

LEMMA CopyBackStep ==
    ASSUME SwapInv, NEW t \in Threads, CopyBack(t)
    PROVE  SwapInv'
<1>1. th[t].pc = "copyback" /\ UNCHANGED part /\ SameWorld
  BY DEF CopyBack, At
<1>2. th[t].pc \in Working /\ disk.bak \in Contents /\ disk.target \in Contents
  <2>1. th[t].pc \in Working
    BY <1>1 DEF Working
  <2> QED
    BY <2>1, AtWork
<1>3. \/ /\ disk' = With("restore", disk.bak) /\ Goto(t, "clear")
         /\ \E v \in {Nothing, loaded} : Reports(v)
      \/ /\ disk' \in FailedCopies("bak", "restore") /\ Finish(t, "lost", "discard")
         /\ \E v \in AfterLoad(disk.target) : Reports(v)
  BY DEF CopyBack
<1>4. PICK pc \in {"clear", "discard"}, claim \in {"none", "lost"}, v \in Loadable :
         /\ Became(t, pc, claim) /\ Reports(v)
         /\ pc = "clear" <=> claim = "none"
         /\ pc = "clear" => v \in {Nothing, loaded} /\ disk' = With("restore", disk.bak)
         /\ pc = "discard" => /\ v \in Versions => v = loaded \/ v = disk.target
                              /\ disk' \in FailedCopies("bak", "restore")
  <2>1. CASE disk' = With("restore", disk.bak) /\ Goto(t, "clear") /\ \E v \in {Nothing, loaded} : Reports(v)
    <3>1. Became(t, "clear", "none")
      BY <1>2, <2>1, AtWork, GotoIs DEF PCs, Working
    <3>2. PICK v \in {Nothing, loaded} : Reports(v)
      BY <2>1
    <3>3. v \in Loadable
      BY <1>2, <3>2, AtWork, Numbers
    <3> QED
      BY <2>1, <3>1, <3>2, <3>3
  <2>2. CASE /\ disk' \in FailedCopies("bak", "restore") /\ Finish(t, "lost", "discard")
             /\ \E v \in AfterLoad(disk.target) : Reports(v)
    <3>1. Became(t, "discard", "lost")
      BY <1>2, <2>2, AtWork, FinishIs DEF PCs, Claims
    <3>2. PICK v \in AfterLoad(disk.target) : Reports(v)
      BY <2>2
    <3>3. v \in Loadable /\ (v \in Versions => v = loaded \/ v = disk.target)
      BY <1>2, <3>2, AtWork, AfterLoadIs
    <3> QED
      BY <2>2, <3>1, <3>2, <3>3
  <2> QED
    BY <1>3, <2>1, <2>2
<1>5. loaded' = v /\ busy' \in 0..MaxUpdates /\ checkDue' \in BOOLEAN
  BY <1>2, <1>4, AtWork, ReportsTypes
<1>6. /\ disk' \in [{"target", "bak", "restore"} -> Contents]
      /\ disk'.target = disk.target /\ disk'.bak = disk.bak
      /\ pc = "clear" => disk'.restore = disk.bak
  BY <1>2, <1>4, AtWork, WithIs, FailedCopiesLeave
<1>7. pc \in PCs \ {"idle"} /\ claim \in Claims /\ (pc \in Working <=> pc = "clear")
  BY DEF PCs, Working, Claims
<1>8. ASSUME ~overlapped
      PROVE  /\ loaded' \in Versions => disk'.target = loaded'
             /\ disk'.target # Torn
             /\ pc \in Working => Stage(t)'
             /\ Placed(t)'
  BY <1>1, <1>2, <1>4, <1>5, <1>6, <1>7, <1>8, AtWork, Numbers DEF Stage, Placed, Became
<1> QED
  BY <1>1, <1>2, <1>4, <1>5, <1>6, <1>7, <1>8, AtWork, WorkGoesOn

\* The live file is cleared, and the copy of the previous one moved into its place.
LEMMA PutBackStep ==
    ASSUME SwapInv, NEW t \in Threads, Clear(t) \/ PutBack(t) \/ Retry(t)
    PROVE  SwapInv'
<1>1. th[t].pc \in {"clear", "putback", "retry"} /\ UNCHANGED part /\ SameMcdr /\ SameWorld
  BY DEF Clear, PutBack, Retry, At
<1>2. th[t].pc \in Working
  BY <1>1 DEF Working
<1>3. \/ disk' = With("target", NoFile) \/ disk' = Moved \/ disk' = disk
  BY DEF Clear, PutBack, Retry
<1>4. /\ Moved \in [{"target", "bak", "restore"} -> Contents] /\ Moved.target = disk.restore /\ Moved.bak = disk.bak
      /\ With("target", NoFile) \in [{"target", "bak", "restore"} -> Contents]
      /\ With("target", NoFile).target = NoFile /\ With("target", NoFile).bak = disk.bak
      /\ With("target", NoFile).restore = disk.restore
  <2>1. disk \in [{"target", "bak", "restore"} -> Contents] /\ NoFile \in Contents
    BY <1>2, AtWork, Numbers DEF TypeOK
  <2>2. TypeOK
    BY <1>2, AtWork
  <2>3. /\ Moved \in [{"target", "bak", "restore"} -> Contents]
        /\ Moved.target = disk.restore /\ Moved.bak = disk.bak
    BY <2>1 DEF Moved
  <2> QED BY <2>1, <2>2, <2>3, WithIs
<1>5. PICK pc \in {"putback", "retry", "reload", "discard"}, claim \in {"none", "lost"} :
         /\ Became(t, pc, claim)
         /\ pc = "discard" <=> claim = "lost"
         /\ pc = "reload" => disk'.target = disk'.bak
         /\ pc \in {"putback", "retry"} => disk' = disk \/ disk' = With("target", NoFile)
  <2>1. CASE Clear(t)
    <3>1. Goto(t, "putback") \/ Goto(t, "retry")
      BY <2>1 DEF Clear
    <3>2. Became(t, "putback", "none") \/ Became(t, "retry", "none")
      BY <1>2, <3>1, AtWork, GotoIs DEF PCs, Working
    <3> QED
      BY <2>1, <3>2 DEF Clear
  <2>2. CASE (PutBack(t) \/ Retry(t)) /\ AfterMove(t)
    <3>1. (Goto(t, "reload") /\ disk'.target = disk'.bak) \/ Finish(t, "lost", "discard")
      BY <2>2 DEF AfterMove, Identical
    <3>2. (Became(t, "reload", "none") /\ disk'.target = disk'.bak) \/ Became(t, "discard", "lost")
      BY <1>2, <3>1, AtWork, GotoIs, FinishIs DEF PCs, Working, Claims
    <3> QED
      BY <3>2
  <2>3. CASE PutBack(t) /\ disk' = disk /\ Goto(t, "retry")
    BY <1>2, <2>3, AtWork, GotoIs DEF PCs, Working
  <2> QED
    BY <2>1, <2>2, <2>3 DEF PutBack, Retry
<1>6. pc \in PCs \ {"idle"} /\ claim \in Claims /\ (pc \in Working <=> pc # "discard") /\ pc # "confirm"
  BY DEF PCs, Working, Claims
<1>7. disk' \in [{"target", "bak", "restore"} -> Contents]
  BY <1>2, <1>3, <1>4, AtWork
<1>8. ASSUME ~overlapped
      PROVE  /\ loaded' \in Versions => disk'.target = loaded'
             /\ disk'.target # Torn
             /\ pc \in Working => Stage(t)'
             /\ Placed(t)'
  <2>1. /\ th[t].old \in Versions /\ disk.bak = th[t].old /\ disk.restore = th[t].old
        /\ loaded' \notin Versions /\ disk.target # Torn
    BY <1>1, <1>2, <1>8, AtWork DEF Stage, SameMcdr
  <2>2. disk'.bak = th[t].old /\ disk'.target # Torn
    BY <1>3, <1>4, <2>1, Numbers
  <2>3. pc \in {"putback", "retry"} => disk'.restore = th[t].old
    BY <1>4, <1>5, <2>1
  <2> QED
    BY <1>5, <2>1, <2>2, <2>3 DEF Stage, Placed, Became
<1> QED
  BY <1>1, <1>2, <1>5, <1>6, <1>7, <1>8, AtWork, WorkGoesOn DEF SameMcdr

LEMMA ReloadFileStep ==
    ASSUME SwapInv, NEW t \in Threads, Reload(t)
    PROVE  SwapInv'
<1>1. /\ th[t].pc = "reload" /\ UNCHANGED <<disk, part>> /\ SameWorld
      /\ th' = [th EXCEPT ![t].pc = "confirm", ![t].expect = disk.bak]
  BY DEF Reload, At
<1>2. th[t].pc \in Working /\ disk.bak \in Contents /\ disk.target \in Contents
  <2>1. th[t].pc \in Working
    BY <1>1 DEF Working
  <2> QED
    BY <2>1, AtWork
<1>3. PICK v \in AfterLoad(disk.target) : Reports(v)
  BY DEF Reload
<1>4. v \in Loadable /\ (v \in Versions => v = loaded \/ v = disk.target)
  BY <1>2, <1>3, AtWork, AfterLoadIs
<1>5. loaded' = v /\ busy' \in 0..MaxUpdates /\ checkDue' \in BOOLEAN
  BY <1>2, <1>3, <1>4, AtWork, ReportsTypes
<1>6. Became(t, "confirm", "none") /\ th'[t].expect = disk.bak
  <2>1. th \in [Threads -> ThreadRecords] /\ th[t].claim = "none"
    BY <1>2, AtWork DEF TypeOK, ThreadRecords
  <2>2. "confirm" \in PCs
    BY DEF PCs
  <2> QED
    BY <1>1, <1>2, <2>1, <2>2 DEF Became, ThreadRecords
<1>7. "confirm" \in PCs \ {"idle"} /\ "none" \in Claims /\ "confirm" \notin Working
  BY DEF PCs, Working, Claims
<1>8. ASSUME ~overlapped
      PROVE  /\ loaded' \in Versions => disk'.target = loaded'
             /\ disk'.target # Torn
             /\ th'[t].expect = th[t].old
             /\ Placed(t)'
  BY <1>1, <1>2, <1>4, <1>5, <1>6, <1>8, AtWork, Numbers DEF Stage, Placed, Became
<1>9. disk' \in [{"target", "bak", "restore"} -> Contents] /\ part' \in [Versions -> Contents]
  BY <1>1, <1>2, AtWork
<1> QED
  BY <1>1, <1>2, <1>4, <1>5, <1>6, <1>7, <1>8, <1>9, WorkGoesOn

\* The end of a thread, which a later update need not wait for.
LEMMA TailStep ==
    ASSUME SwapInv, NEW t \in Threads, Confirm(t) \/ Discard(t) \/ Release(t)
    PROVE  SwapInv'
<1>1. th[t].pc \in {"confirm", "discard", "release"} /\ UNCHANGED <<disk, loaded, checkDue>> /\ SameWorld
  BY DEF Confirm, Discard, Release, At, SameMcdr
<1>2. TypeOK /\ th[t].claim \in Claims /\ th[t].new \in Versions
  BY DEF SwapInv, TypeOK
<1>3. /\ part' \in [Versions -> Contents]
      /\ \A v \in Versions : part'[v] \in {part[v], NoFile}
  <2>1. part \in [Versions -> Contents]
    BY <1>2 DEF TypeOK
  <2>2. part' = part \/ \E c \in {NoFile, part[th[t].new]} : part' = [part EXCEPT ![th[t].new] = c]
    BY DEF Confirm, Discard, Release
  <2> QED
    BY <1>2, <2>1, <2>2, Numbers
<1>4. busy' \in 0..MaxUpdates
  BY <1>2, Numbers DEF TypeOK, Confirm, Discard, Release, SameMcdr
<1>5. PICK pc \in {"discard", "release", "over"}, claim \in Claims :
         /\ Became(t, pc, claim)
         /\ claim = th[t].claim \/ (th[t].pc = "confirm" /\ claim \in {"restored", "lost"})
  <2>1. CASE Confirm(t)
    <3>1. Finish(t, "restored", "discard") \/ Finish(t, "lost", "discard")
      BY <2>1 DEF Confirm
    <3> QED
      BY <1>2, <2>1, <3>1, FinishIs DEF PCs, Claims, Confirm, At
  <2>2. CASE Discard(t) \/ Release(t)
    <3>1. Goto(t, "release") \/ Goto(t, "over")
      BY <2>2 DEF Discard, Release
    <3> QED
      BY <1>2, <3>1, GotoIs DEF PCs
  <2> QED
    BY <2>1, <2>2
<1>6. TypeOK'
  BY <1>1, <1>2, <1>3, <1>4, <1>5 DEF TypeOK, SameWorld, Became, ThreadRecords
<1>7. InTurn'
  BY <1>1, <1>5 DEF SwapInv, InTurn, SameWorld, Became, Working
<1>8. ASSUME ~overlapped PROVE Sound'
  <2>1. Sound /\ UNCHANGED <<started, disk, loaded>>
    BY <1>1, <1>8 DEF SwapInv, SameWorld
  <2>2. \A s \in Threads : /\ th'[s].old = th[s].old /\ (s # t => th'[s] = th[s])
                           /\ th'[s].pc \in Working \cup {"confirm"} => s # t
    BY <1>5 DEF Became, Working
  <2>3. ASSUME NEW s \in Threads, th'[s].pc \in Working PROVE s = started /\ Stage(s)'
    <3>1. th'[s] = th[s] /\ s = started /\ Stage(s) /\ th[s].new \in Versions
      BY <1>2, <2>1, <2>2, <2>3 DEF Sound, TypeOK
    <3>2. part'[th[s].new] \in {part[th[s].new], NoFile}
      BY <1>3, <3>1
    <3> QED
      BY <2>1, <3>1, <3>2 DEF Stage
  <2>4. ASSUME started > 0 PROVE Placed(started)'
    <3>1. started \in Threads /\ Placed(started)
      BY <1>2, <2>1, <2>4, Numbers DEF Sound, TypeOK, Threads
    <3>2. CASE started = t
      BY <1>5, <2>1, <2>2, <3>1, <3>2 DEF Placed, Became
    <3>3. CASE started # t
      BY <2>1, <2>2, <3>1, <3>3 DEF Placed
    <3> QED
      BY <3>2, <3>3
  <2> QED
    BY <2>1, <2>2, <2>3, <2>4 DEF Sound
<1> QED
  BY <1>1, <1>6, <1>7, <1>8 DEF SwapInv, SameWorld

\* An update starts.
LEMMA BeginStep ==
    ASSUME SwapInv, NEW own \in BOOLEAN, up, Begin(own), checkDue' \in BOOLEAN
    PROVE  SwapInv'
<1>0. PICK t \in Threads : t = started + 1
  BY DEF Begin
<1>1. /\ loaded \in Versions /\ started' = t /\ busy' = t
      /\ UNCHANGED <<disk, part, loaded, up, catalogue, reloads>>
      /\ th' = [th EXCEPT ![t] = [Idle EXCEPT !.pc = "download", !.old = disk.target, !.new = catalogue, !.own = own]]
      /\ overlapped' = (overlapped \/ \E s \in Threads : th[s].pc \in Working)
  BY <1>0 DEF Begin, IsNewer
<1>2. /\ TypeOK /\ disk.target \in Contents /\ catalogue \in Versions /\ started \in 0..MaxUpdates
      /\ t \in 1..MaxUpdates
  BY <1>1 DEF SwapInv, TypeOK, Threads
<1>3. /\ started \in Nat /\ t \in Nat /\ t > 0 /\ t # started /\ ~(t <= started)
      /\ \A s \in Threads : s \in Nat /\ (s <= t <=> s <= started \/ s = t)
  BY <1>0, <1>2, Numbers DEF Threads
<1>4. /\ th'[t].pc = "download" /\ th'[t].old = disk.target /\ th'[t].claim = "none"
      /\ \A s \in Threads : s # t => th'[s] = th[s]
      /\ th' \in [Threads -> ThreadRecords]
  <2>1. [Idle EXCEPT !.pc = "download", !.old = disk.target, !.new = catalogue, !.own = own] \in ThreadRecords
    BY <1>2, Numbers DEF Idle, ThreadRecords, PCs, Working, Claims
  <2>2. th \in [Threads -> ThreadRecords]
    BY <1>2 DEF TypeOK, ThreadRecords
  <2> QED
    BY <1>1, <2>1, <2>2 DEF Idle
<1>5. overlapped' \in BOOLEAN
  BY <1>1, <1>2 DEF TypeOK
<1>6. TypeOK'
  BY <1>1, <1>2, <1>4, <1>5, Numbers DEF TypeOK, ThreadRecords, Threads
<1>7. InTurn'
  BY <1>1, <1>3, <1>4 DEF SwapInv, InTurn, Working
<1>8. ASSUME ~overlapped' PROVE Sound'
  <2>1. Sound /\ \A s \in Threads : th[s].pc \notin Working
    BY <1>1, <1>8 DEF SwapInv
  <2>2. disk.target = loaded /\ UNCHANGED <<disk, loaded>>
    BY <1>1, <2>1 DEF Sound
  <2>3. Stage(t)' /\ Placed(t)'
    BY <1>4, <2>2 DEF Stage, Placed
  <2>4. \A s \in Threads : th'[s].pc \in Working => s = t
    BY <1>4, <2>1
  <2> QED
    BY <1>1, <1>3, <1>4, <2>1, <2>2, <2>3, <2>4 DEF Sound
<1> QED
  BY <1>6, <1>7, <1>8 DEF SwapInv

LEMMA CheckStep == SwapInv /\ (CheckOnLoad \/ CheckAgain) => SwapInv'
<1> SUFFICES ASSUME SwapInv, CheckOnLoad \/ CheckAgain PROVE SwapInv'
  OBVIOUS
<1>1. checkDue' \in BOOLEAN
  BY DEF CheckOnLoad, CheckAgain, SwapInv, TypeOK
<1>2. CASE \E own \in BOOLEAN : Begin(own)
  <2>1. up
    BY DEF CheckOnLoad, CheckAgain
  <2> QED
    BY <1>1, <1>2, <2>1, BeginStep
<1>3. CASE UNCHANGED <<disk, part, loaded, up, catalogue, busy, th, started, reloads, overlapped>>
  <2>1. TypeOK' /\ InTurn'
    BY <1>1, <1>3 DEF SwapInv, TypeOK, InTurn
  <2>2. ~overlapped' => Sound'
    BY <1>3 DEF SwapInv, Sound, Stage, Placed
  <2> QED
    BY <2>1, <2>2 DEF SwapInv
<1> QED
  BY <1>2, <1>3 DEF CheckOnLoad, CheckAgain

\* Nothing of the updates changes, nor of the files.
LEMMA WorldStep ==
    ASSUME SwapInv, Publish \/ ReloadPlugin \/ Boot
    PROVE  SwapInv'
<1>1. UNCHANGED <<disk, part, th, started, overlapped>>
  BY DEF Publish, ReloadPlugin, Boot, SameWorld
<1>2. TypeOK /\ disk.target \in Contents
  BY DEF SwapInv, TypeOK
<1>3. /\ loaded' \in Loadable /\ busy' \in 0..MaxUpdates /\ checkDue' \in BOOLEAN
      /\ up \in BOOLEAN => up' \in BOOLEAN
      /\ \/ UNCHANGED <<loaded, up>>
         \/ UNCHANGED up /\ loaded \in Versions /\ (loaded' \in Versions => loaded' = disk.target)
         \/ ~up /\ (loaded' \in Versions => loaded' = loaded \/ loaded' = disk.target)
  <2>1. CASE Publish
    BY <1>2, <2>1 DEF Publish, TypeOK
  <2>2. CASE ReloadPlugin
    <3>1. /\ loaded \in Versions /\ UNCHANGED up /\ busy' = 0 /\ checkDue' = (loaded' # Nothing)
          /\ loaded' \in {Nothing} \cup ({disk.target} \cap Versions)
      BY <2>2 DEF ReloadPlugin
    <3>2. (loaded' # Nothing) \in BOOLEAN
      OBVIOUS
    <3> QED
      BY <3>1, <3>2, Numbers
  <2>3. CASE Boot
    <3>1. PICK v \in AfterLoad(disk.target) : Reports(v)
      BY <2>3 DEF Boot
    <3>2. v \in Loadable /\ (v \in Versions => v = loaded \/ v = disk.target)
      BY <1>2, <3>1, AfterLoadIs
    <3>3. ~up /\ up' = TRUE
      BY <2>3 DEF Boot
    <3> QED
      BY <1>2, <3>1, <3>2, <3>3, ReportsTypes
  <2> QED
    BY <2>1, <2>2, <2>3
<1>4. reloads' \in 0..MaxReloads /\ catalogue' \in Versions
  BY <1>2, Numbers DEF TypeOK, Publish, ReloadPlugin, Boot, SameWorld, Versions
<1>5. TypeOK'
  BY <1>1, <1>2, <1>3, <1>4 DEF TypeOK
<1>6. InTurn'
  BY <1>1, <1>3 DEF SwapInv, InTurn
<1>7. ASSUME ~overlapped PROVE Sound'
  <2>1. Sound
    BY <1>7 DEF SwapInv
  <2>2. loaded' \in Versions => disk.target = loaded'
    BY <1>3, <2>1 DEF Sound
  <2>3. ASSUME NEW t \in Threads, th[t].pc \in Working PROVE Stage(t)'
    <3>1. up /\ Stage(t)
      BY <2>1, <2>3 DEF Sound, SwapInv, InTurn
    <3>2. CASE UNCHANGED loaded
      BY <1>1, <3>1, <3>2 DEF Stage
    <3>3. CASE loaded \in Versions
      BY <1>1, <3>1, <3>3, Numbers DEF Stage
    <3> QED
      BY <1>3, <3>1, <3>2, <3>3
  <2>4. started > 0 => Placed(started)'
    BY <1>1, <2>1 DEF Sound, Placed
  <2> QED
    BY <1>1, <2>1, <2>2, <2>3, <2>4 DEF Sound
<1> QED
  BY <1>1, <1>5, <1>6, <1>7 DEF SwapInv

LEMMA LoadByHandStep ==
    ASSUME SwapInv, LoadByHand
    PROVE  SwapInv'
<1>1. PICK f \in {"target"} \cup (IF LeftACopy THEN {"bak", "restore"} ELSE {}) :
          /\ disk[f] \in Versions /\ Reports(disk[f])
          /\ disk' = [disk EXCEPT !.target = disk[f], !.restore = IF f = "restore" THEN NoFile ELSE @]
  BY DEF LoadByHand
<1>2. /\ TypeOK /\ f \in {"target", "bak", "restore"} /\ (f # "target" => LeftACopy)
      /\ disk \in [{"target", "bak", "restore"} -> Contents]
  BY <1>1 DEF SwapInv, TypeOK
<1>3. /\ disk' \in [{"target", "bak", "restore"} -> Contents]
      /\ disk'.target = disk[f] /\ disk'.bak = disk.bak
  BY <1>1, <1>2, Numbers
<1>4. loaded' = disk[f] /\ busy' \in 0..MaxUpdates /\ checkDue' \in BOOLEAN /\ disk[f] \in Loadable
  <2>1. disk[f] \in Loadable
    BY <1>1, Numbers
  <2> QED
    BY <1>1, <1>2, <2>1, ReportsTypes
<1>5. UNCHANGED <<part, th>> /\ SameWorld /\ \A t \in Threads : th[t].pc \notin Working
  BY DEF LoadByHand
<1>6. TypeOK'
  BY <1>2, <1>3, <1>4, <1>5 DEF TypeOK, SameWorld
<1>7. InTurn'
  BY <1>5 DEF SwapInv, InTurn, SameWorld
<1>8. ASSUME ~overlapped PROVE Sound'
  <2>1. Sound /\ UNCHANGED started
    BY <1>5, <1>8 DEF SwapInv, SameWorld
  <2>2. disk'.target # Torn
    BY <1>1, <1>3, Numbers
  <2>3. ASSUME started > 0 PROVE Placed(started)'
    <3>1. started \in Threads /\ th[started].old \in Versions /\ Placed(started)
      BY <1>2, <2>1, <2>3, Numbers DEF Sound, TypeOK, Threads
    <3>2. disk.target = th[started].old /\ th[started].claim # "lost" => f = "target"
      BY <1>2, <3>1, Numbers DEF LeftACopy
    <3> QED
      BY <1>3, <1>5, <2>1, <3>1, <3>2 DEF Placed
  <2> QED
    BY <1>3, <1>4, <1>5, <2>1, <2>2, <2>3 DEF Sound
<1> QED
  BY <1>5, <1>6, <1>7, <1>8 DEF SwapInv, SameWorld

\* The server dies, in the middle of an update or not.
LEMMA CrashStep ==
    ASSUME SwapInv, Crash
    PROVE  SwapInv'
<1>1. /\ UNCHANGED <<disk, part, catalogue, started, reloads, overlapped>> /\ up' = FALSE /\ Reports(Nothing)
      /\ th' = [t \in Threads |-> IF th[t].pc \in {"idle", "over"} THEN th[t] ELSE [th[t] EXCEPT !.pc = "dead"]]
      /\ TypeOK
  BY DEF Crash, SwapInv
<1>2. loaded' = Nothing /\ busy' \in 0..MaxUpdates /\ checkDue' \in BOOLEAN
  BY <1>1, ReportsTypes, Numbers
<1>3. /\ th' \in [Threads -> ThreadRecords]
      /\ \A t \in Threads : /\ th'[t].pc \in {"idle", "over", "dead"} /\ (th'[t].pc = "idle" <=> th[t].pc = "idle")
                            /\ th'[t].claim = th[t].claim /\ th'[t].old = th[t].old
  BY <1>1 DEF TypeOK, ThreadRecords, PCs
<1>4. TypeOK'
  BY <1>1, <1>2, <1>3, Numbers DEF TypeOK, ThreadRecords
<1>5. InTurn'
  BY <1>1, <1>3 DEF SwapInv, InTurn, Working
<1>6. ASSUME ~overlapped PROVE Sound'
  <2>1. Sound
    BY <1>6 DEF SwapInv
  <2>2. \A t \in Threads : th'[t].pc \notin Working \cup {"confirm"}
    BY <1>3 DEF Working
  <2>3. ASSUME started > 0 PROVE Placed(started)'
    <3>1. started \in Threads /\ Placed(started)
      BY <1>1, <2>1, <2>3, Numbers DEF Sound, TypeOK, Threads
    <3> QED
      BY <1>1, <1>3, <2>2, <3>1 DEF Placed
  <2> QED
    BY <1>1, <1>2, <1>3, <2>1, <2>2, <2>3, Numbers DEF Sound
<1> QED
  BY <1>1, <1>4, <1>5, <1>6 DEF SwapInv

LEMMA SwapInvInit == Init => SwapInv
<1> SUFFICES ASSUME Init PROVE SwapInv
  OBVIOUS
<1>1. TypeOK
  <2>1. Idle \in ThreadRecords
    BY Numbers DEF Idle, ThreadRecords, PCs, Claims
  <2>2. disk \in [{"target", "bak", "restore"} -> Contents]
    <3>1. disk = [f \in {"target", "bak", "restore"} |-> IF f = "target" THEN 0 ELSE NoFile]
      BY DEF Init
    <3> QED
      BY <3>1, Numbers
  <2>3. loaded \in Loadable /\ part \in [Versions -> Contents]
    BY Numbers DEF Init
  <2>4. th \in [Threads -> ThreadRecords]
    BY <2>1 DEF Init
  <2>5. 0 \in 0..MaxUpdates /\ 0 \in 0..MaxReloads
    BY Numbers
  <2>6. up \in BOOLEAN /\ checkDue \in BOOLEAN /\ overlapped \in BOOLEAN
    BY DEF Init
  <2>7. catalogue \in Versions /\ busy \in 0..MaxUpdates /\ started \in 0..MaxUpdates /\ reloads \in 0..MaxReloads
    BY <2>5, Numbers DEF Init
  <2> QED
    BY <2>2, <2>3, <2>4, <2>6, <2>7 DEF TypeOK, ThreadRecords
<1>2. \A t \in Threads : th[t] = Idle /\ t > 0
  BY Numbers DEF Init, Threads
<1>3. InTurn
  BY <1>2 DEF Init, InTurn, Idle, Working
<1>4. Sound
  BY <1>2, Numbers DEF Init, Sound, Idle, Working
<1> QED
  BY <1>1, <1>3, <1>4 DEF SwapInv

LEMMA SwapInvNext == SwapInv /\ [Next]_vars => SwapInv'
<1> SUFFICES ASSUME SwapInv, [Next]_vars PROVE SwapInv'
  OBVIOUS
<1>1. ASSUME NEW t \in Threads, ThreadStep(t) PROVE SwapInv'
  BY <1>1, PrepareStep, BackupStep, UnloadStep, RemoveStep, PlaceStep, LoadStep, CheckLoadedStep, CopyBackStep,
     PutBackStep, ReloadFileStep, TailStep DEF ThreadStep
<1>2. CASE UNCHANGED vars
  <2>1. TypeOK' /\ InTurn'
    BY <1>2 DEF vars, SwapInv, TypeOK, InTurn
  <2>2. ~overlapped' => Sound'
    BY <1>2 DEF vars, SwapInv, Sound, Stage, Placed
  <2> QED
    BY <2>1, <2>2 DEF SwapInv
<1> QED
  BY <1>1, <1>2, CheckStep, WorldStep, LoadByHandStep, CrashStep DEF Next

-----------------------------------------------------------------------------

\* Whatever fails and whenever the server dies, the archive that the last update
\* set out to replace is on disk, whole, until its own build was seen loaded, and no
\* torn copy is the live file; updates that overlap are left out (apply_archive,
\* _restore_backup).
THEOREM PreviousIsKept == Spec => []PreviousKept
<1>1. SwapInv => PreviousKept
  <2> SUFFICES ASSUME SwapInv, ~overlapped
               PROVE  /\ started > 0 /\ th[started].claim # "updated"
                            => \E f \in DOMAIN disk : disk[f] = th[started].old
                      /\ disk.target # Torn
    BY DEF PreviousKept
  <2>1. Sound /\ TypeOK
    BY DEF SwapInv
  <2>2. DOMAIN disk = {"target", "bak", "restore"}
    BY <2>1 DEF TypeOK
  <2>3. started > 0 => Placed(started) /\ th[started].claim \in Claims
    BY <2>1, Numbers DEF Sound, TypeOK, Threads
  <2> QED
    BY <2>1, <2>2, <2>3 DEF Sound, Placed, Claims
<1> QED
  BY <1>1, SwapInvInit, SwapInvNext, PTL DEF Spec

\* What the players are told of an update is true when it is decided: the new build,
\* or the previous one, is live and loaded, or the live file was not touched
\* (apply_archive, _restore_verified); updates that overlap are left out.
THEOREM ClaimsHold == Spec => ClaimsAreTrue
<1> DEFINE Told(t) ==
       /\ th'[t].claim = "updated"  => disk.target = th[t].new /\ loaded = th[t].new
       /\ th'[t].claim = "restored" => disk.target = th[t].old /\ loaded = th[t].old
       /\ th'[t].claim = "kept"     => disk.target = th[t].old
    ToldTrue == \A t \in Threads : th[t].claim = "none" /\ ~overlapped => Told(t)
<1>1. ASSUME SwapInv, [Next]_vars PROVE ToldTrue
  <2> SUFFICES ASSUME NEW t \in Threads, th[t].claim = "none", ~overlapped PROVE Told(t)
    OBVIOUS
  <2>0. Sound /\ th[t] \in ThreadRecords /\ th \in [Threads -> ThreadRecords]
    BY <1>1 DEF SwapInv, TypeOK, ThreadRecords
  <2>1. CASE th'[t].claim = "none"
    BY <2>1
  <2>2. ASSUME NEW pc \in {"release", "discard"}, th[t].pc \in {"download", "fetch", "verify", "backup", "unload"},
               Finish(t, "kept", pc)
        PROVE  Told(t)
    <3>1. th'[t].claim = "kept"
      BY <2>0, <2>2 DEF Finish, ThreadRecords
    <3>2. disk.target = th[t].old
      BY <2>0, <2>2 DEF Sound, Stage, Working
    <3> QED
      BY <3>1, <3>2
  <2>3. CASE CheckLoaded(t)
    <3>1. th[t].pc = "check" /\ disk.target = th[t].new
      BY <2>0, <2>3 DEF CheckLoaded, At, Sound, Stage, Working
    <3>2. th'[t].claim = IF loaded = th[t].new THEN "updated" ELSE "none"
      BY <2>0, <2>3 DEF CheckLoaded, Finish, ThreadRecords
    <3> QED
      BY <3>1, <3>2
  <2>4. CASE Confirm(t)
    <3>1. th[t].pc = "confirm" /\ th[t].expect = th[t].old
      BY <2>0, <2>4 DEF Confirm, At, Sound
    <3>2. th[t].old \in Versions
      <4>1. th[t].pc # "idle" /\ started \in Nat
        BY <1>1, <3>1, Numbers DEF SwapInv, TypeOK
      <4>2. t <= started
        BY <1>1, <4>1, Numbers DEF SwapInv, InTurn, Threads
      <4> QED
        BY <2>0, <4>2 DEF Sound
    <3>3. th'[t].claim = IF loaded # Nothing /\ loaded = th[t].old THEN "restored" ELSE "lost"
      BY <2>0, <2>4, <3>1, <3>2 DEF Confirm, Finish, ThreadRecords
    <3> QED
      BY <2>0, <3>2, <3>3 DEF Sound
  <2>5. ASSUME NEW claim \in {"reloaded", "lost"}, Finish(t, claim, "discard") PROVE Told(t)
    BY <2>0, <2>5 DEF Finish, ThreadRecords
  <2>6. ASSUME NEW pc, Goto(t, pc) PROVE Told(t)
    BY <2>0, <2>6 DEF Goto, ThreadRecords
  <2>7. CASE th' = [th EXCEPT ![t].pc = "confirm", ![t].expect = disk.bak]
    BY <2>0, <2>7 DEF ThreadRecords
  <2>8. ASSUME NEW s \in Threads, s # t, ThreadStep(s) PROVE Told(t)
    <3>1. th'[t] = th[t]
      BY <2>0, <2>8
         DEF ThreadStep, StartDownload, EndDownload, Verify, Backup, Unload, Remove, Place, Load, CheckLoaded,
             CopyBack, Clear, PutBack, Retry, AfterMove, Reload, Confirm, Discard, Release, Goto, Finish
    <3> QED
      BY <3>1
  <2>9. ASSUME ThreadStep(t) PROVE Told(t)
    <3>1. CASE StartDownload(t)
      BY <2>2, <2>6, <3>1 DEF StartDownload, At
    <3>2. CASE EndDownload(t)
      BY <2>2, <2>6, <3>2 DEF EndDownload, At
    <3>3. CASE Verify(t)
      BY <2>2, <2>6, <3>3 DEF Verify, At
    <3>4. CASE Backup(t)
      BY <2>2, <2>6, <3>4 DEF Backup, At
    <3>5. CASE Unload(t)
      BY <2>2, <2>6, <3>5 DEF Unload, At
    <3>6. CASE Remove(t)
      BY <2>5, <2>6, <3>6 DEF Remove
    <3>7. CASE CopyBack(t)
      BY <2>5, <2>6, <3>7 DEF CopyBack
    <3>8. CASE PutBack(t) \/ Retry(t)
      BY <2>5, <2>6, <3>8 DEF PutBack, Retry, AfterMove
    <3>9. CASE Place(t) \/ Load(t) \/ Clear(t) \/ Discard(t) \/ Release(t)
      BY <2>6, <3>9 DEF Place, Load, Clear, Discard, Release
    <3>10. CASE Reload(t)
      BY <2>7, <3>10 DEF Reload
    <3> QED
      BY <2>3, <2>4, <2>9, <3>1, <3>2, <3>3, <3>4, <3>5, <3>6, <3>7, <3>8, <3>9, <3>10 DEF ThreadStep
  <2>10. ASSUME ~\E s \in Threads : ThreadStep(s) PROVE th'[t].claim = "none"
    <3>1. CASE \E own \in BOOLEAN : Begin(own)
      <4>1. th'[t] = th[t] \/ th'[t].claim = "none"
        BY <2>0, <3>1 DEF Begin, Idle
      <4> QED
        BY <4>1
    <3>2. CASE Crash
      BY <2>0, <3>2 DEF Crash, ThreadRecords
    <3>3. CASE UNCHANGED th
      BY <3>3
    <3> QED
      BY <1>1, <2>10, <3>1, <3>2, <3>3
         DEF Next, CheckOnLoad, CheckAgain, Publish, ReloadPlugin, LoadByHand, Boot, SameWorld, vars
  <2> QED
    BY <2>1, <2>8, <2>9, <2>10
<1>2. ToldTrue => \A t \in Threads : (th[t].claim = "none" /\ ~overlapped) =>
         LET told == th'[t].claim IN
         /\ told = "updated"  => disk.target = th[t].new /\ loaded = th[t].new
         /\ told = "restored" => disk.target = th[t].old /\ loaded = th[t].old
         /\ told = "kept"     => disk.target = th[t].old
  OBVIOUS
<1> HIDE DEF ToldTrue
<1> QED
  BY <1>1, <1>2, SwapInvInit, SwapInvNext, PTL DEF Spec, ClaimsAreTrue

\* The live file changes only while MCDR runs no build from it, unless two updates
\* overlap (apply_archive unloads before it removes).
THEOREM ChangesAreUnloaded == Spec => LiveFileChangesUnloaded
<1>1. ASSUME SwapInv, [Next]_vars PROVE (disk'.target # disk.target /\ ~overlapped) => loaded \notin Versions
  <2> SUFFICES ASSUME disk'.target # disk.target, ~overlapped PROVE loaded \notin Versions
    OBVIOUS
  <2>0. Sound /\ TypeOK
    BY <1>1 DEF SwapInv
  <2>1. ASSUME NEW t \in Threads, Remove(t) \/ Place(t) \/ Clear(t) \/ PutBack(t) \/ Retry(t)
        PROVE  loaded \notin Versions
    <3>1. th[t].pc \in {"remove", "place", "clear", "putback", "retry"}
      BY <2>1 DEF Remove, Place, Clear, PutBack, Retry, At
    <3> QED
      BY <2>0, <3>1, Numbers DEF Sound, Stage, Working
  <2>2. ASSUME NEW t \in Threads, Backup(t) \/ Unload(t) \/ CheckLoaded(t) \/ CopyBack(t)
        PROVE  disk'.target = disk.target
    <3>1. disk.target \in Contents /\ disk.bak \in Contents
      BY <2>0 DEF TypeOK
    <3>2. \/ disk' = disk \/ disk' = With("bak", disk.target) \/ disk' \in FailedCopies("target", "bak")
          \/ disk' = With("bak", NoFile) \/ disk' = With("restore", disk.bak) \/ disk' \in FailedCopies("bak", "restore")
      BY <2>2 DEF Backup, Unload, CheckLoaded, CopyBack, RemovedQuietly
    <3> QED
      BY <2>0, <3>1, <3>2, WithIs, FailedCopiesLeave, Numbers
  <2>3. CASE LoadByHand
    BY <2>3, Numbers DEF LoadByHand
  <2>4. ASSUME NEW t \in Threads, ThreadStep(t) PROVE loaded \notin Versions
    BY <2>1, <2>2, <2>4
       DEF ThreadStep, StartDownload, EndDownload, Verify, Load, Reload, Confirm, Discard, Release
  <2>5. CASE UNCHANGED disk
    BY <2>5
  <2> QED
    BY <1>1, <2>3, <2>4, <2>5 DEF Next, CheckOnLoad, CheckAgain, Begin, Publish, ReloadPlugin, Crash, Boot, vars
<1> QED
  BY <1>1, SwapInvInit, SwapInvNext, PTL DEF Spec, LiveFileChangesUnloaded

=============================================================================
