----------------------------- MODULE BotProofs -----------------------------
(***************************************************************************)
(* What is proved of the bot: of its process and the threads that start,    *)
(* stop, replace and repair it (BotProcess), for any number of reloads,     *)
(* role changes and repairs; and of its controller's tasks (BotController), *)
(* for any number of tasks and stops.                                       *)
(***************************************************************************)
EXTENDS BotProcess, BotController, FiniteSetTheorems, SequenceTheorems,
        WellFoundedInduction, TLAPS

-----------------------------------------------------------------------------
(* The process: types.                                                     *)

Places == {"idle", "done", "intent", "read", "look", "cancel", "relink", "deciding", "aim",
           "launch", "wait", "node", "install", "spawned", "link", "recheck", "control",
           "take", "unlink", "detach", "kill", "repair"}
Mine   == [token : Nat, proc : Nat, enabled : BOOLEAN, running : BOOLEAN]

ProcTypes ==
    /\ process \in Nat /\ started \in Nat
    /\ controller \in Launchers \cup {Nothing} /\ acting \in SUBSET Launchers
    /\ waiter \in Launchers \cup {Nothing}
    /\ peer \in BOOLEAN /\ abort \in BOOLEAN /\ token \in Nat
    /\ enabled \in BOOLEAN /\ serverUp \in BOOLEAN /\ wanted \in BOOLEAN
    /\ pc \in [Threads -> Places]
    /\ my \in [Threads -> Mine]

\* Which thread is of which kind.
LEMMA Kinds ==
    /\ Launchers \subseteq Threads /\ Stoppers \subseteq Threads /\ Repairs \subseteq Threads
    /\ Boot \in Launchers /\ Reloads \subseteq Launchers /\ Claims \subseteq Launchers
    /\ Unload \in Stoppers /\ Unload \notin Launchers /\ Repairs \cap Launchers = {}
    /\ Repairs \cap Stoppers = {} /\ Nothing \notin Threads
  BY ThreadsAreApart DEF Launchers, Stoppers, Threads

LEMMA ProcTypesKept ==
    ASSUME ProcTypes, [ProcNext]_vars
    PROVE  ProcTypes'
<1> USE DEF procVars, ctlVars, flagVars, lockVars, outVars, pastVars, At, Goto, Leave,
           Notes, Fails, Spawn, Running
<1>1. ASSUME BootBegins PROVE ProcTypes'
  BY Kinds, <1>1 DEF BootBegins, ProcTypes, Places, Mine, Launchers, Nothing
<1>2. ASSUME UnloadBegins PROVE ProcTypes'
  BY Kinds, <1>2 DEF UnloadBegins, ProcTypes, Places, Mine, Launchers, Nothing
<1>3. ASSUME ServerStarts PROVE ProcTypes'
  BY Kinds, <1>3 DEF ServerStarts, ProcTypes, Places, Mine, Launchers, Nothing
<1>4. ASSUME Dies PROVE ProcTypes'
  BY Kinds, <1>4 DEF Dies, ProcTypes, Places, Mine, Launchers, Nothing
<1>5. ASSUME NEW t \in Reloads, ReloadBegins(t) PROVE ProcTypes'
  <2>1. pc' \in [Threads -> Places]
    BY Kinds, <1>5 DEF ReloadBegins, ProcTypes, Places
  <2>2. enabled' \in BOOLEAN
    BY <1>5 DEF ReloadBegins, ProcTypes
  <2> QED BY <1>5, <2>1, <2>2 DEF ReloadBegins, ProcTypes
<1>6. ASSUME NEW t \in Reloads, ReloadReads(t) PROVE ProcTypes'
  BY Kinds, <1>6 DEF ReloadReads, ProcTypes, Places, Mine, Launchers, Nothing
<1>7. ASSUME NEW t \in Reloads, ReloadLooks(t) PROVE ProcTypes'
  BY Kinds, <1>7 DEF ReloadLooks, ProcTypes, Places, Mine, Launchers, Nothing
<1>8. ASSUME NEW t \in Claims, ClaimBegins(t) PROVE ProcTypes'
  <2>1. Running \in BOOLEAN
    OBVIOUS
  <2> HIDE DEF Running
  <2>2. my' \in [Threads -> Mine]
    BY Kinds, <1>8, <2>1 DEF ClaimBegins, ProcTypes, Mine
  <2> QED BY Kinds, <1>8, <2>2 DEF ClaimBegins, ProcTypes, Places
<1>9. ASSUME NEW t \in Claims, Relink(t) PROVE ProcTypes'
  BY Kinds, <1>9 DEF Relink, ProcTypes, Places, Mine, Launchers, Nothing
<1>10. ASSUME NEW t \in Claims, Repoint(t) PROVE ProcTypes'
  <2>1. my' \in [Threads -> Mine]
    <3>1. my' = [my EXCEPT ![t].enabled = TRUE]
      BY <1>10 DEF Repoint
    <3> QED BY Kinds, <3>1 DEF ProcTypes, Mine
  <2>2. pc' \in [Threads -> Places]
    BY Kinds, <1>10 DEF Repoint, ProcTypes, Places
  <2> QED BY <1>10, <2>1, <2>2 DEF Repoint, ProcTypes
<1>11. ASSUME NEW t \in Launchers, Intent(t) PROVE ProcTypes'
  <2>1. my' \in [Threads -> Mine] /\ token' \in Nat
    BY Kinds, <1>11 DEF Intent, ProcTypes, Mine
  <2>2. pc' \in [Threads -> Places]
    BY Kinds, <1>11 DEF Intent, ProcTypes, Places
  <2>3. abort' \in BOOLEAN /\ wanted' \in BOOLEAN
    BY <1>11 DEF Intent
  <2> QED BY <1>11, <2>1, <2>2, <2>3 DEF Intent, ProcTypes
<1>12. ASSUME NEW t \in Launchers, Aim(t) PROVE ProcTypes'
  BY Kinds, <1>12 DEF Aim, ProcTypes, Places, Mine, Launchers, Nothing
<1>13. ASSUME NEW t \in Launchers, Wait(t) PROVE ProcTypes'
  BY Kinds, <1>13 DEF Wait, ProcTypes, Places, Mine, Launchers, Nothing
<1>14. ASSUME NEW t \in Launchers, Launch(t) PROVE ProcTypes'
  BY Kinds, <1>14 DEF Launch, ProcTypes, Places, Mine, Launchers, Nothing
<1>15. ASSUME NEW t \in Launchers, RunNode(t) PROVE ProcTypes'
  BY Kinds, <1>15 DEF RunNode, ProcTypes, Places, Mine, Launchers, Nothing
<1>16. ASSUME NEW t \in Launchers, NodeStarts(t) PROVE ProcTypes'
  BY Kinds, <1>16 DEF NodeStarts, ProcTypes, Places, Mine, Launchers, Nothing
<1>17. ASSUME NEW t \in Launchers, Spawned(t) PROVE ProcTypes'
  BY Kinds, <1>17 DEF Spawned, ProcTypes, Places, Mine, Launchers, Nothing
<1>18. ASSUME NEW t \in Launchers, Link(t) PROVE ProcTypes'
  BY Kinds, <1>18 DEF Link, ProcTypes, Places, Mine, Launchers, Nothing
<1>19. ASSUME NEW t \in Launchers, Recheck(t) PROVE ProcTypes'
  <2>1. pc' \in [Threads -> Places]
    BY Kinds, <1>19 DEF Recheck, ProcTypes, Places
  <2>2. peer' \in BOOLEAN
    BY <1>19 DEF Recheck, ProcTypes
  <2>3. process' \in Nat /\ started' \in Nat
    BY <1>19 DEF Recheck, ProcTypes, Nothing
  <2> QED BY <1>19, <2>1, <2>2, <2>3 DEF Recheck, ProcTypes
<1>20. ASSUME NEW t \in Launchers, StartController(t) PROVE ProcTypes'
  BY Kinds, <1>20 DEF StartController, ProcTypes, Places, Mine, Launchers, Nothing
<1>21. ASSUME NEW t \in Stoppers, Cancel(t) PROVE ProcTypes'
  <2>1. pc' \in [Threads -> Places] /\ token' \in Nat
    BY Kinds, <1>21 DEF Cancel, ProcTypes, Places
  <2>2. abort' \in BOOLEAN /\ wanted' \in BOOLEAN
    BY <1>21 DEF Cancel
  <2> QED BY <1>21, <2>1, <2>2 DEF Cancel, ProcTypes
<1>22. ASSUME NEW t \in Stoppers, TakeController(t) PROVE ProcTypes'
  BY Kinds, <1>22 DEF TakeController, ProcTypes, Places, Mine, Launchers, Nothing
<1>23. ASSUME NEW t \in Stoppers, Unlink(t) PROVE ProcTypes'
  BY Kinds, <1>23 DEF Unlink, ProcTypes, Places, Mine, Launchers, Nothing
<1>24. ASSUME NEW t \in Stoppers, Detach(t) PROVE ProcTypes'
  BY Kinds, <1>24 DEF Detach, ProcTypes, Places, Mine, Launchers, Nothing
<1>25. ASSUME NEW t \in Stoppers, Kill(t) PROVE ProcTypes'
  BY Kinds, <1>25 DEF Kill, ProcTypes, Places, Mine, Launchers, Nothing
<1>26. ASSUME NEW t \in Repairs, RepairBegins(t) PROVE ProcTypes'
  BY Kinds, <1>26 DEF RepairBegins, ProcTypes, Places, Mine, Launchers, Nothing
<1>27. ASSUME NEW t \in Repairs, Repair(t) PROVE ProcTypes'
  BY Kinds, <1>27 DEF Repair, ProcTypes, Places, Mine, Launchers, Nothing
<1>28. CASE UNCHANGED vars
  BY <1>28 DEF vars, ProcTypes, Places, Mine, Launchers, Nothing
<1> QED
  BY <1>1, <1>2, <1>3, <1>4, <1>5, <1>6, <1>7, <1>8, <1>9, <1>10, <1>11, <1>12, <1>13,
     <1>14, <1>15, <1>16, <1>17, <1>18, <1>19, <1>20, <1>21, <1>22, <1>23, <1>24, <1>25,
     <1>26, <1>27, <1>28 DEF ProcNext, LaunchStep, StopStep

-----------------------------------------------------------------------------
(* No process is lost.                                                     *)

\* Whoever installs or repairs has the lock; while a launch installs, nothing runs.
OneInstalls ==
    /\ \A t \in Launchers : At(t, "install") => repairLock = t /\ ~Running
    /\ \A t \in Repairs : At(t, "repair") => repairLock = t

\* A stop has a process in hand only when it is about to kill it.
InHand == \A t \in Stoppers : my[t].proc # Nothing => At(t, "kill")

\* No process has the number that stands for none.
Numbered == Nothing \notin alive

LEMMA OneInstallsKept ==
    ASSUME ProcTypes, OneInstalls, [ProcNext]_vars
    PROVE  OneInstalls'
<1> USE DEF procVars, ctlVars, flagVars, lockVars, outVars, pastVars, At, Goto, Leave,
           Notes, Fails, Spawn, Running
<1>1. ASSUME BootBegins PROVE OneInstalls'
  BY Kinds, <1>1 DEF BootBegins, OneInstalls, ProcTypes, Nothing
<1>2. ASSUME UnloadBegins PROVE OneInstalls'
  BY Kinds, <1>2 DEF UnloadBegins, OneInstalls, ProcTypes, Nothing
<1>3. ASSUME ServerStarts PROVE OneInstalls'
  BY Kinds, <1>3 DEF ServerStarts, OneInstalls, ProcTypes, Nothing
<1>4. ASSUME Dies PROVE OneInstalls'
  BY Kinds, <1>4 DEF Dies, OneInstalls, ProcTypes, Nothing
<1>5. ASSUME NEW t \in Reloads, ReloadBegins(t) PROVE OneInstalls'
  BY Kinds, <1>5 DEF ReloadBegins, OneInstalls, ProcTypes, Nothing
<1>6. ASSUME NEW t \in Reloads, ReloadReads(t) PROVE OneInstalls'
  BY Kinds, <1>6 DEF ReloadReads, OneInstalls, ProcTypes, Nothing
<1>7. ASSUME NEW t \in Reloads, ReloadLooks(t) PROVE OneInstalls'
  BY Kinds, <1>7 DEF ReloadLooks, OneInstalls, ProcTypes, Nothing
<1>8. ASSUME NEW t \in Claims, ClaimBegins(t) PROVE OneInstalls'
  BY Kinds, <1>8 DEF ClaimBegins, OneInstalls, ProcTypes, Nothing
<1>9. ASSUME NEW t \in Claims, Relink(t) PROVE OneInstalls'
  BY Kinds, <1>9 DEF Relink, OneInstalls, ProcTypes, Nothing
<1>10. ASSUME NEW t \in Claims, Repoint(t) PROVE OneInstalls'
  BY Kinds, <1>10 DEF Repoint, OneInstalls, ProcTypes, Nothing
<1>11. ASSUME NEW t \in Launchers, Intent(t) PROVE OneInstalls'
  BY Kinds, <1>11 DEF Intent, OneInstalls, ProcTypes, Nothing
<1>12. ASSUME NEW t \in Launchers, Aim(t) PROVE OneInstalls'
  BY Kinds, <1>12 DEF Aim, OneInstalls, ProcTypes, Nothing
<1>13. ASSUME NEW t \in Launchers, Wait(t) PROVE OneInstalls'
  BY Kinds, <1>13 DEF Wait, OneInstalls, ProcTypes, Nothing
<1>14. ASSUME NEW t \in Launchers, Launch(t) PROVE OneInstalls'
  BY Kinds, <1>14 DEF Launch, OneInstalls, ProcTypes, Nothing
<1>15. ASSUME NEW t \in Launchers, RunNode(t) PROVE OneInstalls'
  BY Kinds, <1>15 DEF RunNode, OneInstalls, ProcTypes, Nothing
<1>16. ASSUME NEW t \in Launchers, NodeStarts(t) PROVE OneInstalls'
  BY Kinds, <1>16 DEF NodeStarts, OneInstalls, ProcTypes, Nothing
<1>17. ASSUME NEW t \in Launchers, Spawned(t) PROVE OneInstalls'
  BY Kinds, <1>17 DEF Spawned, OneInstalls, ProcTypes, Nothing
<1>18. ASSUME NEW t \in Launchers, Link(t) PROVE OneInstalls'
  BY Kinds, <1>18 DEF Link, OneInstalls, ProcTypes, Nothing
<1>19. ASSUME NEW t \in Launchers, Recheck(t) PROVE OneInstalls'
  BY Kinds, <1>19 DEF Recheck, OneInstalls, ProcTypes, Nothing
<1>20. ASSUME NEW t \in Launchers, StartController(t) PROVE OneInstalls'
  BY Kinds, <1>20 DEF StartController, OneInstalls, ProcTypes, Nothing
<1>21. ASSUME NEW t \in Stoppers, Cancel(t) PROVE OneInstalls'
  BY Kinds, <1>21 DEF Cancel, OneInstalls, ProcTypes, Nothing
<1>22. ASSUME NEW t \in Stoppers, TakeController(t) PROVE OneInstalls'
  BY Kinds, <1>22 DEF TakeController, OneInstalls, ProcTypes, Nothing
<1>23. ASSUME NEW t \in Stoppers, Unlink(t) PROVE OneInstalls'
  BY Kinds, <1>23 DEF Unlink, OneInstalls, ProcTypes, Nothing
<1>24. ASSUME NEW t \in Stoppers, Detach(t) PROVE OneInstalls'
  BY Kinds, <1>24 DEF Detach, OneInstalls, ProcTypes, Nothing
<1>25. ASSUME NEW t \in Stoppers, Kill(t) PROVE OneInstalls'
  BY Kinds, <1>25 DEF Kill, OneInstalls, ProcTypes, Nothing
<1>26. ASSUME NEW t \in Repairs, RepairBegins(t) PROVE OneInstalls'
  BY Kinds, <1>26 DEF RepairBegins, OneInstalls, ProcTypes, Nothing
<1>27. ASSUME NEW t \in Repairs, Repair(t) PROVE OneInstalls'
  BY Kinds, <1>27 DEF Repair, OneInstalls, ProcTypes, Nothing
<1>28. CASE UNCHANGED vars
  BY <1>28 DEF vars, OneInstalls, ProcTypes, Nothing
<1> QED
  BY <1>1, <1>2, <1>3, <1>4, <1>5, <1>6, <1>7, <1>8, <1>9, <1>10, <1>11, <1>12, <1>13,
     <1>14, <1>15, <1>16, <1>17, <1>18, <1>19, <1>20, <1>21, <1>22, <1>23, <1>24, <1>25,
     <1>26, <1>27, <1>28 DEF ProcNext, LaunchStep, StopStep

LEMMA InHandKept ==
    ASSUME ProcTypes, InHand, [ProcNext]_vars
    PROVE  InHand'
<1> USE DEF procVars, ctlVars, flagVars, lockVars, outVars, pastVars, At, Goto, Leave,
           Notes, Fails, Spawn, Running
<1>1. ASSUME BootBegins PROVE InHand'
  BY Kinds, <1>1 DEF BootBegins, InHand, ProcTypes, Mine, Nothing
<1>2. ASSUME UnloadBegins PROVE InHand'
  BY Kinds, <1>2 DEF UnloadBegins, InHand, ProcTypes, Mine, Nothing
<1>3. ASSUME ServerStarts PROVE InHand'
  BY Kinds, <1>3 DEF ServerStarts, InHand, ProcTypes, Mine, Nothing
<1>4. ASSUME Dies PROVE InHand'
  BY Kinds, <1>4 DEF Dies, InHand, ProcTypes, Mine, Nothing
<1>5. ASSUME NEW t \in Reloads, ReloadBegins(t) PROVE InHand'
  BY Kinds, <1>5 DEF ReloadBegins, InHand, ProcTypes, Mine, Nothing
<1>6. ASSUME NEW t \in Reloads, ReloadReads(t) PROVE InHand'
  BY Kinds, <1>6 DEF ReloadReads, InHand, ProcTypes, Mine, Nothing
<1>7. ASSUME NEW t \in Reloads, ReloadLooks(t) PROVE InHand'
  BY Kinds, <1>7 DEF ReloadLooks, InHand, ProcTypes, Mine, Nothing
<1>8. ASSUME NEW t \in Claims, ClaimBegins(t) PROVE InHand'
  BY Kinds, <1>8 DEF ClaimBegins, InHand, ProcTypes, Mine, Nothing
<1>9. ASSUME NEW t \in Claims, Relink(t) PROVE InHand'
  BY Kinds, <1>9 DEF Relink, InHand, ProcTypes, Mine, Nothing
<1>10. ASSUME NEW t \in Claims, Repoint(t) PROVE InHand'
  BY Kinds, <1>10 DEF Repoint, InHand, ProcTypes, Mine, Nothing
<1>11. ASSUME NEW t \in Launchers, Intent(t) PROVE InHand'
  BY Kinds, <1>11 DEF Intent, InHand, ProcTypes, Mine, Nothing
<1>12. ASSUME NEW t \in Launchers, Aim(t) PROVE InHand'
  BY Kinds, <1>12 DEF Aim, InHand, ProcTypes, Mine, Nothing
<1>13. ASSUME NEW t \in Launchers, Wait(t) PROVE InHand'
  BY Kinds, <1>13 DEF Wait, InHand, ProcTypes, Mine, Nothing
<1>14. ASSUME NEW t \in Launchers, Launch(t) PROVE InHand'
  BY Kinds, <1>14 DEF Launch, InHand, ProcTypes, Mine, Nothing
<1>15. ASSUME NEW t \in Launchers, RunNode(t) PROVE InHand'
  BY Kinds, <1>15 DEF RunNode, InHand, ProcTypes, Mine, Nothing
<1>16. ASSUME NEW t \in Launchers, NodeStarts(t) PROVE InHand'
  BY Kinds, <1>16 DEF NodeStarts, InHand, ProcTypes, Mine, Nothing
<1>17. ASSUME NEW t \in Launchers, Spawned(t) PROVE InHand'
  BY Kinds, <1>17 DEF Spawned, InHand, ProcTypes, Mine, Nothing
<1>18. ASSUME NEW t \in Launchers, Link(t) PROVE InHand'
  BY Kinds, <1>18 DEF Link, InHand, ProcTypes, Mine, Nothing
<1>19. ASSUME NEW t \in Launchers, Recheck(t) PROVE InHand'
  BY Kinds, <1>19 DEF Recheck, InHand, ProcTypes, Mine, Nothing
<1>20. ASSUME NEW t \in Launchers, StartController(t) PROVE InHand'
  BY Kinds, <1>20 DEF StartController, InHand, ProcTypes, Mine, Nothing
<1>21. ASSUME NEW t \in Stoppers, Cancel(t) PROVE InHand'
  BY Kinds, <1>21 DEF Cancel, InHand, ProcTypes, Mine, Nothing
<1>22. ASSUME NEW t \in Stoppers, TakeController(t) PROVE InHand'
  BY Kinds, <1>22 DEF TakeController, InHand, ProcTypes, Mine, Nothing
<1>23. ASSUME NEW t \in Stoppers, Unlink(t) PROVE InHand'
  BY Kinds, <1>23 DEF Unlink, InHand, ProcTypes, Mine, Nothing
<1>24. ASSUME NEW t \in Stoppers, Detach(t) PROVE InHand'
  BY Kinds, <1>24 DEF Detach, InHand, ProcTypes, Mine, Nothing
<1>25. ASSUME NEW t \in Stoppers, Kill(t) PROVE InHand'
  BY Kinds, <1>25 DEF Kill, InHand, ProcTypes, Mine, Nothing
<1>26. ASSUME NEW t \in Repairs, RepairBegins(t) PROVE InHand'
  BY Kinds, <1>26 DEF RepairBegins, InHand, ProcTypes, Mine, Nothing
<1>27. ASSUME NEW t \in Repairs, Repair(t) PROVE InHand'
  BY Kinds, <1>27 DEF Repair, InHand, ProcTypes, Mine, Nothing
<1>28. CASE UNCHANGED vars
  BY <1>28 DEF vars, InHand, ProcTypes, Mine, Nothing
<1> QED
  BY <1>1, <1>2, <1>3, <1>4, <1>5, <1>6, <1>7, <1>8, <1>9, <1>10, <1>11, <1>12, <1>13,
     <1>14, <1>15, <1>16, <1>17, <1>18, <1>19, <1>20, <1>21, <1>22, <1>23, <1>24, <1>25,
     <1>26, <1>27, <1>28 DEF ProcNext, LaunchStep, StopStep

LEMMA KnownKept ==
    ASSUME ProcTypes, Numbered, OneInstalls, InHand, ProcessIsKnown, [ProcNext]_vars
    PROVE  ProcessIsKnown'
<1> USE DEF procVars, ctlVars, flagVars, lockVars, outVars, pastVars, At, Goto, Leave,
           Notes, Fails, Spawn, Running
<1>1. ASSUME BootBegins PROVE ProcessIsKnown'
  BY Kinds, <1>1 DEF BootBegins, ProcessIsKnown, OneInstalls, InHand, ProcTypes, Nothing
<1>2. ASSUME UnloadBegins PROVE ProcessIsKnown'
  BY Kinds, <1>2 DEF UnloadBegins, ProcessIsKnown, OneInstalls, InHand, ProcTypes, Nothing
<1>3. ASSUME ServerStarts PROVE ProcessIsKnown'
  BY Kinds, <1>3 DEF ServerStarts, ProcessIsKnown, OneInstalls, InHand, ProcTypes, Nothing
<1>4. ASSUME Dies PROVE ProcessIsKnown'
  BY Kinds, <1>4 DEF Dies, ProcessIsKnown, OneInstalls, InHand, ProcTypes, Nothing
<1>5. ASSUME NEW t \in Reloads, ReloadBegins(t) PROVE ProcessIsKnown'
  BY Kinds, <1>5 DEF ReloadBegins, ProcessIsKnown, OneInstalls, InHand, ProcTypes, Nothing
<1>6. ASSUME NEW t \in Reloads, ReloadReads(t) PROVE ProcessIsKnown'
  BY Kinds, <1>6 DEF ReloadReads, ProcessIsKnown, OneInstalls, InHand, ProcTypes, Nothing
<1>7. ASSUME NEW t \in Reloads, ReloadLooks(t) PROVE ProcessIsKnown'
  BY Kinds, <1>7 DEF ReloadLooks, ProcessIsKnown, OneInstalls, InHand, ProcTypes, Nothing
<1>8. ASSUME NEW t \in Claims, ClaimBegins(t) PROVE ProcessIsKnown'
  BY Kinds, <1>8 DEF ClaimBegins, ProcessIsKnown, OneInstalls, InHand, ProcTypes, Nothing
<1>9. ASSUME NEW t \in Claims, Relink(t) PROVE ProcessIsKnown'
  BY Kinds, <1>9 DEF Relink, ProcessIsKnown, OneInstalls, InHand, ProcTypes, Nothing
<1>10. ASSUME NEW t \in Claims, Repoint(t) PROVE ProcessIsKnown'
  BY Kinds, <1>10 DEF Repoint, ProcessIsKnown, OneInstalls, InHand, ProcTypes, Nothing
<1>11. ASSUME NEW t \in Launchers, Intent(t) PROVE ProcessIsKnown'
  BY Kinds, <1>11 DEF Intent, ProcessIsKnown, OneInstalls, InHand, ProcTypes, Nothing
<1>12. ASSUME NEW t \in Launchers, Aim(t) PROVE ProcessIsKnown'
  BY Kinds, <1>12 DEF Aim, ProcessIsKnown, OneInstalls, InHand, ProcTypes, Nothing
<1>13. ASSUME NEW t \in Launchers, Wait(t) PROVE ProcessIsKnown'
  BY Kinds, <1>13 DEF Wait, ProcessIsKnown, OneInstalls, InHand, ProcTypes, Nothing
<1>14. ASSUME NEW t \in Launchers, Launch(t) PROVE ProcessIsKnown'
  BY Kinds, <1>14 DEF Launch, ProcessIsKnown, OneInstalls, InHand, ProcTypes, Nothing
<1>15. ASSUME NEW t \in Launchers, RunNode(t) PROVE ProcessIsKnown'
  BY Kinds, <1>15 DEF RunNode, ProcessIsKnown, OneInstalls, InHand, ProcTypes, Nothing
<1>16. ASSUME NEW t \in Launchers, NodeStarts(t) PROVE ProcessIsKnown'
  <2>1. process \notin alive
    BY <1>16 DEF NodeStarts, OneInstalls, Numbered
  <2> QED BY Kinds, <1>16, <2>1 DEF NodeStarts, ProcessIsKnown, ProcTypes
<1>17. ASSUME NEW t \in Launchers, Spawned(t) PROVE ProcessIsKnown'
  BY Kinds, <1>17 DEF Spawned, ProcessIsKnown, OneInstalls, InHand, ProcTypes, Nothing
<1>18. ASSUME NEW t \in Launchers, Link(t) PROVE ProcessIsKnown'
  BY Kinds, <1>18 DEF Link, ProcessIsKnown, OneInstalls, InHand, ProcTypes, Nothing
<1>19. ASSUME NEW t \in Launchers, Recheck(t) PROVE ProcessIsKnown'
  BY Kinds, <1>19 DEF Recheck, ProcessIsKnown, OneInstalls, InHand, ProcTypes, Nothing
<1>20. ASSUME NEW t \in Launchers, StartController(t) PROVE ProcessIsKnown'
  BY Kinds, <1>20 DEF StartController, ProcessIsKnown, OneInstalls, InHand, ProcTypes,
     Nothing
<1>21. ASSUME NEW t \in Stoppers, Cancel(t) PROVE ProcessIsKnown'
  BY Kinds, <1>21 DEF Cancel, ProcessIsKnown, OneInstalls, InHand, ProcTypes, Nothing
<1>22. ASSUME NEW t \in Stoppers, TakeController(t) PROVE ProcessIsKnown'
  BY Kinds, <1>22 DEF TakeController, ProcessIsKnown, OneInstalls, InHand, ProcTypes,
     Nothing
<1>23. ASSUME NEW t \in Stoppers, Unlink(t) PROVE ProcessIsKnown'
  BY Kinds, <1>23 DEF Unlink, ProcessIsKnown, OneInstalls, InHand, ProcTypes, Nothing
<1>24. ASSUME NEW t \in Stoppers, Detach(t) PROVE ProcessIsKnown'
  BY Kinds, <1>24 DEF Detach, ProcessIsKnown, OneInstalls, InHand, ProcTypes, Nothing
<1>25. ASSUME NEW t \in Stoppers, Kill(t) PROVE ProcessIsKnown'
  BY Kinds, <1>25 DEF Kill, ProcessIsKnown, OneInstalls, InHand, ProcTypes, Nothing
<1>26. ASSUME NEW t \in Repairs, RepairBegins(t) PROVE ProcessIsKnown'
  BY Kinds, <1>26 DEF RepairBegins, ProcessIsKnown, OneInstalls, InHand, ProcTypes,
     Nothing
<1>27. ASSUME NEW t \in Repairs, Repair(t) PROVE ProcessIsKnown'
  BY Kinds, <1>27 DEF Repair, ProcessIsKnown, OneInstalls, InHand, ProcTypes, Nothing
<1>28. CASE UNCHANGED vars
  BY <1>28 DEF vars, ProcessIsKnown, OneInstalls, InHand, ProcTypes, Nothing
<1> QED
  BY <1>1, <1>2, <1>3, <1>4, <1>5, <1>6, <1>7, <1>8, <1>9, <1>10, <1>11, <1>12, <1>13,
     <1>14, <1>15, <1>16, <1>17, <1>18, <1>19, <1>20, <1>21, <1>22, <1>23, <1>24, <1>25,
     <1>26, <1>27, <1>28 DEF ProcNext, LaunchStep, StopStep

LEMMA NumberedKept ==
    ASSUME ProcTypes, Numbered, [ProcNext]_vars
    PROVE  Numbered'
<1> USE DEF procVars, ctlVars, flagVars, lockVars, outVars, pastVars, At, Goto, Leave,
           Notes, Fails, Spawn, Running
<1>1. ASSUME BootBegins PROVE Numbered'
  BY <1>1 DEF BootBegins, Numbered
<1>2. ASSUME UnloadBegins PROVE Numbered'
  BY <1>2 DEF UnloadBegins, Numbered
<1>3. ASSUME ServerStarts PROVE Numbered'
  BY <1>3 DEF ServerStarts, Numbered
<1>4. ASSUME Dies PROVE Numbered'
  BY <1>4 DEF Dies, Numbered
<1>5. ASSUME NEW t \in Reloads, ReloadBegins(t) PROVE Numbered'
  BY <1>5 DEF ReloadBegins, Numbered
<1>6. ASSUME NEW t \in Reloads, ReloadReads(t) PROVE Numbered'
  BY <1>6 DEF ReloadReads, Numbered
<1>7. ASSUME NEW t \in Reloads, ReloadLooks(t) PROVE Numbered'
  BY <1>7 DEF ReloadLooks, Numbered
<1>8. ASSUME NEW t \in Claims, ClaimBegins(t) PROVE Numbered'
  BY <1>8 DEF ClaimBegins, Numbered
<1>9. ASSUME NEW t \in Claims, Relink(t) PROVE Numbered'
  BY <1>9 DEF Relink, Numbered
<1>10. ASSUME NEW t \in Claims, Repoint(t) PROVE Numbered'
  BY <1>10 DEF Repoint, Numbered
<1>11. ASSUME NEW t \in Launchers, Intent(t) PROVE Numbered'
  BY <1>11 DEF Intent, Numbered
<1>12. ASSUME NEW t \in Launchers, Aim(t) PROVE Numbered'
  BY <1>12 DEF Aim, Numbered
<1>13. ASSUME NEW t \in Launchers, Wait(t) PROVE Numbered'
  BY <1>13 DEF Wait, Numbered
<1>14. ASSUME NEW t \in Launchers, Launch(t) PROVE Numbered'
  BY <1>14 DEF Launch, Numbered
<1>15. ASSUME NEW t \in Launchers, RunNode(t) PROVE Numbered'
  BY <1>15 DEF RunNode, Numbered
<1>16. ASSUME NEW t \in Launchers, NodeStarts(t) PROVE Numbered'
  <2>1. started + 1 \in Nat \ {Nothing}
    BY DEF ProcTypes, Nothing
  <2> QED BY <1>16, <2>1 DEF NodeStarts, Numbered
<1>17. ASSUME NEW t \in Launchers, Spawned(t) PROVE Numbered'
  BY <1>17 DEF Spawned, Numbered
<1>18. ASSUME NEW t \in Launchers, Link(t) PROVE Numbered'
  BY <1>18 DEF Link, Numbered
<1>19. ASSUME NEW t \in Launchers, Recheck(t) PROVE Numbered'
  BY <1>19 DEF Recheck, Numbered
<1>20. ASSUME NEW t \in Launchers, StartController(t) PROVE Numbered'
  BY <1>20 DEF StartController, Numbered
<1>21. ASSUME NEW t \in Stoppers, Cancel(t) PROVE Numbered'
  BY <1>21 DEF Cancel, Numbered
<1>22. ASSUME NEW t \in Stoppers, TakeController(t) PROVE Numbered'
  BY <1>22 DEF TakeController, Numbered
<1>23. ASSUME NEW t \in Stoppers, Unlink(t) PROVE Numbered'
  BY <1>23 DEF Unlink, Numbered
<1>24. ASSUME NEW t \in Stoppers, Detach(t) PROVE Numbered'
  BY <1>24 DEF Detach, Numbered
<1>25. ASSUME NEW t \in Stoppers, Kill(t) PROVE Numbered'
  BY <1>25 DEF Kill, Numbered
<1>26. ASSUME NEW t \in Repairs, RepairBegins(t) PROVE Numbered'
  BY <1>26 DEF RepairBegins, Numbered
<1>27. ASSUME NEW t \in Repairs, Repair(t) PROVE Numbered'
  <2>1. started + 1 \in Nat \ {Nothing}
    BY DEF ProcTypes, Nothing
  <2> QED BY <1>27, <2>1 DEF Repair, Numbered
<1>28. CASE UNCHANGED vars
  BY <1>28 DEF vars, Numbered
<1> QED
  BY <1>1, <1>2, <1>3, <1>4, <1>5, <1>6, <1>7, <1>8, <1>9, <1>10, <1>11, <1>12, <1>13,
     <1>14, <1>15, <1>16, <1>17, <1>18, <1>19, <1>20, <1>21, <1>22, <1>23, <1>24, <1>25,
     <1>26, <1>27, <1>28 DEF ProcNext, LaunchStep, StopStep

LEMMA InitiallyKnown ==
    ASSUME Init
    PROVE  ProcTypes /\ Numbered /\ OneInstalls /\ InHand
<1>1. peer \in BOOLEAN /\ abort \in BOOLEAN /\ wanted \in BOOLEAN
  BY DEF Init
<1>2. ProcTypes
  BY <1>1 DEF Init, ProcTypes, Places, Mine, Fresh, Nothing
<1>3. OneInstalls /\ InHand
  BY Kinds DEF Init, OneInstalls, InHand, Fresh, At
<1> QED BY <1>2, <1>3 DEF Init, Numbered

\* Every node process that runs is the one the module knows, or a stop is about to
\* kill it, however many threads start, stop and repair the bot.
THEOREM ProcessStaysKnown == ProcSpec => []ProcessIsKnown
<1> DEFINE Inv == ProcTypes /\ Numbered /\ OneInstalls /\ InHand /\ ProcessIsKnown
<1>1. Init => Inv
  BY InitiallyKnown DEF Init, ProcessIsKnown
<1>2. Inv /\ [ProcNext]_vars => Inv'
  BY ProcTypesKept, NumberedKept, OneInstallsKept, InHandKept, KnownKept
<1> QED
  BY <1>1, <1>2, PTL DEF ProcSpec

-----------------------------------------------------------------------------
(* The bot is as it was wanted.                                            *)

\* The launches under way, and those that wait and that no intent has made stale.
Under == Launching \cup {t \in Launchers : At(t, "wait") /\ my[t].token = token}
Clean == crossed \cap {"repair", "second", "waiter", "overtaken"} = {}

Tokens == \A t \in Threads : my[t].token <= token

\* Processes have numbers of their own: what a stop has in hand is not what runs.
Counted == /\ process <= started
           /\ \A t \in Stoppers : /\ my[t].proc <= started
                                  /\ my[t].proc # Nothing => my[t].proc # process

\* Unless a second one crossed it, a launch is the only one, and while the bot is
\* wanted it is the newest.
OneLaunch == Clean => /\ \A t, u \in Under : t = u
                      /\ wanted => \A t \in Launching : my[t].token = token

\* Without an intent and without a stop nothing is there; the two only meet
\* while the plugin is unloaded.
Flags == /\ ~wanted /\ ~abort => /\ Under = {} /\ alive = {} /\ process = Nothing /\ ~peer
                                 /\ acting = {} /\ controller = Nothing
                                 /\ \A t \in Repairs : ~At(t, "repair")
         /\ wanted /\ abort => At(Unload, "cancel")

\* A launch past its wait has met the server.
Up == /\ alive # {} \/ process # Nothing => serverUp
      /\ \A t \in Launching : At(t, "aim") \/ serverUp
      /\ \A t \in Repairs : At(t, "repair") => serverUp

\* What a stop leaves for a moment is still to be taken by it, or by the launch.
Stopped ==
    Clean /\ ~wanted =>
      /\ Running => \/ \E s \in Stoppers : \/ pc[s] \in {"take", "unlink", "detach"}
                                           \/ At(s, "kill") /\ my[s].proc = Nothing
                    \/ \E l \in Launchers : pc[l] \in {"spawned", "link", "recheck"}
      /\ peer => \/ \E s \in Stoppers : pc[s] \in {"take", "unlink"}
                 \/ \E l \in Launchers : At(l, "recheck")
      /\ acting # {} \/ (\E l \in Launchers : At(l, "control"))
           => "late" \in crossed \/ \E s \in Stoppers : At(s, "take")

\* A bot that is wanted runs, is being started, or waits for the server ...
Served ==
    Clean /\ wanted /\ "failed" \notin crossed =>
      \/ \E l \in Under : pc[l] \in {"aim", "launch", "wait", "node", "install"}
      \/ Running
      \/ At(Unload, "cancel")

\* ... and has its controller, or the launch is still to start it.
Attended ==
    Clean /\ wanted /\ crossed \cap {"failed", "bare"} = {} =>
      \/ Under # {}
      \/ controller # Nothing /\ acting = {controller}
      \/ At(Unload, "cancel")

OneController ==
    Clean => /\ acting \subseteq {controller}
             /\ Under # {} => controller = Nothing /\ acting = {}

LEMMA TokensKept ==
    ASSUME ProcTypes, Tokens, [ProcNext]_vars
    PROVE  Tokens'
<1> USE DEF procVars, ctlVars, flagVars, lockVars, outVars, pastVars, At, Goto, Leave,
           Notes, Fails, Spawn, Running
<1>1. ASSUME BootBegins PROVE Tokens'
  BY Kinds, <1>1 DEF BootBegins, Tokens, ProcTypes, Mine
<1>2. ASSUME UnloadBegins PROVE Tokens'
  BY Kinds, <1>2 DEF UnloadBegins, Tokens, ProcTypes, Mine
<1>3. ASSUME ServerStarts PROVE Tokens'
  BY Kinds, <1>3 DEF ServerStarts, Tokens, ProcTypes, Mine
<1>4. ASSUME Dies PROVE Tokens'
  BY Kinds, <1>4 DEF Dies, Tokens, ProcTypes, Mine
<1>5. ASSUME NEW t \in Reloads, ReloadBegins(t) PROVE Tokens'
  BY Kinds, <1>5 DEF ReloadBegins, Tokens, ProcTypes, Mine
<1>6. ASSUME NEW t \in Reloads, ReloadReads(t) PROVE Tokens'
  BY Kinds, <1>6 DEF ReloadReads, Tokens, ProcTypes, Mine
<1>7. ASSUME NEW t \in Reloads, ReloadLooks(t) PROVE Tokens'
  BY Kinds, <1>7 DEF ReloadLooks, Tokens, ProcTypes, Mine
<1>8. ASSUME NEW t \in Claims, ClaimBegins(t) PROVE Tokens'
  BY Kinds, <1>8 DEF ClaimBegins, Tokens, ProcTypes, Mine
<1>9. ASSUME NEW t \in Claims, Relink(t) PROVE Tokens'
  BY Kinds, <1>9 DEF Relink, Tokens, ProcTypes, Mine
<1>10. ASSUME NEW t \in Claims, Repoint(t) PROVE Tokens'
  BY Kinds, <1>10 DEF Repoint, Tokens, ProcTypes, Mine
<1>11. ASSUME NEW t \in Launchers, Intent(t) PROVE Tokens'
  BY Kinds, <1>11 DEF Intent, Tokens, ProcTypes, Mine
<1>12. ASSUME NEW t \in Launchers, Aim(t) PROVE Tokens'
  BY Kinds, <1>12 DEF Aim, Tokens, ProcTypes, Mine
<1>13. ASSUME NEW t \in Launchers, Wait(t) PROVE Tokens'
  BY Kinds, <1>13 DEF Wait, Tokens, ProcTypes, Mine
<1>14. ASSUME NEW t \in Launchers, Launch(t) PROVE Tokens'
  BY Kinds, <1>14 DEF Launch, Tokens, ProcTypes, Mine
<1>15. ASSUME NEW t \in Launchers, RunNode(t) PROVE Tokens'
  BY Kinds, <1>15 DEF RunNode, Tokens, ProcTypes, Mine
<1>16. ASSUME NEW t \in Launchers, NodeStarts(t) PROVE Tokens'
  BY Kinds, <1>16 DEF NodeStarts, Tokens, ProcTypes, Mine
<1>17. ASSUME NEW t \in Launchers, Spawned(t) PROVE Tokens'
  BY Kinds, <1>17 DEF Spawned, Tokens, ProcTypes, Mine
<1>18. ASSUME NEW t \in Launchers, Link(t) PROVE Tokens'
  BY Kinds, <1>18 DEF Link, Tokens, ProcTypes, Mine
<1>19. ASSUME NEW t \in Launchers, Recheck(t) PROVE Tokens'
  BY Kinds, <1>19 DEF Recheck, Tokens, ProcTypes, Mine
<1>20. ASSUME NEW t \in Launchers, StartController(t) PROVE Tokens'
  BY Kinds, <1>20 DEF StartController, Tokens, ProcTypes, Mine
<1>21. ASSUME NEW t \in Stoppers, Cancel(t) PROVE Tokens'
  BY Kinds, <1>21 DEF Cancel, Tokens, ProcTypes, Mine
<1>22. ASSUME NEW t \in Stoppers, TakeController(t) PROVE Tokens'
  BY Kinds, <1>22 DEF TakeController, Tokens, ProcTypes, Mine
<1>23. ASSUME NEW t \in Stoppers, Unlink(t) PROVE Tokens'
  BY Kinds, <1>23 DEF Unlink, Tokens, ProcTypes, Mine
<1>24. ASSUME NEW t \in Stoppers, Detach(t) PROVE Tokens'
  BY Kinds, <1>24 DEF Detach, Tokens, ProcTypes, Mine
<1>25. ASSUME NEW t \in Stoppers, Kill(t) PROVE Tokens'
  BY Kinds, <1>25 DEF Kill, Tokens, ProcTypes, Mine
<1>26. ASSUME NEW t \in Repairs, RepairBegins(t) PROVE Tokens'
  BY Kinds, <1>26 DEF RepairBegins, Tokens, ProcTypes, Mine
<1>27. ASSUME NEW t \in Repairs, Repair(t) PROVE Tokens'
  BY Kinds, <1>27 DEF Repair, Tokens, ProcTypes, Mine
<1>28. CASE UNCHANGED vars
  BY <1>28 DEF vars, Tokens, ProcTypes, Mine
<1> QED
  BY <1>1, <1>2, <1>3, <1>4, <1>5, <1>6, <1>7, <1>8, <1>9, <1>10, <1>11, <1>12, <1>13,
     <1>14, <1>15, <1>16, <1>17, <1>18, <1>19, <1>20, <1>21, <1>22, <1>23, <1>24, <1>25,
     <1>26, <1>27, <1>28 DEF ProcNext, LaunchStep, StopStep

LEMMA CountedKept ==
    ASSUME ProcTypes, Counted, [ProcNext]_vars
    PROVE  Counted'
<1> USE DEF procVars, ctlVars, flagVars, lockVars, outVars, pastVars, At, Goto, Leave,
           Notes, Fails, Spawn, Running
<1>1. ASSUME BootBegins PROVE Counted'
  BY Kinds, <1>1 DEF BootBegins, Counted, ProcTypes, Mine, Nothing
<1>2. ASSUME UnloadBegins PROVE Counted'
  BY Kinds, <1>2 DEF UnloadBegins, Counted, ProcTypes, Mine, Nothing
<1>3. ASSUME ServerStarts PROVE Counted'
  BY Kinds, <1>3 DEF ServerStarts, Counted, ProcTypes, Mine, Nothing
<1>4. ASSUME Dies PROVE Counted'
  BY Kinds, <1>4 DEF Dies, Counted, ProcTypes, Mine, Nothing
<1>5. ASSUME NEW t \in Reloads, ReloadBegins(t) PROVE Counted'
  BY Kinds, <1>5 DEF ReloadBegins, Counted, ProcTypes, Mine, Nothing
<1>6. ASSUME NEW t \in Reloads, ReloadReads(t) PROVE Counted'
  BY Kinds, <1>6 DEF ReloadReads, Counted, ProcTypes, Mine, Nothing
<1>7. ASSUME NEW t \in Reloads, ReloadLooks(t) PROVE Counted'
  BY Kinds, <1>7 DEF ReloadLooks, Counted, ProcTypes, Mine, Nothing
<1>8. ASSUME NEW t \in Claims, ClaimBegins(t) PROVE Counted'
  BY Kinds, <1>8 DEF ClaimBegins, Counted, ProcTypes, Mine, Nothing
<1>9. ASSUME NEW t \in Claims, Relink(t) PROVE Counted'
  BY Kinds, <1>9 DEF Relink, Counted, ProcTypes, Mine, Nothing
<1>10. ASSUME NEW t \in Claims, Repoint(t) PROVE Counted'
  BY Kinds, <1>10 DEF Repoint, Counted, ProcTypes, Mine, Nothing
<1>11. ASSUME NEW t \in Launchers, Intent(t) PROVE Counted'
  BY Kinds, <1>11 DEF Intent, Counted, ProcTypes, Mine, Nothing
<1>12. ASSUME NEW t \in Launchers, Aim(t) PROVE Counted'
  BY Kinds, <1>12 DEF Aim, Counted, ProcTypes, Mine, Nothing
<1>13. ASSUME NEW t \in Launchers, Wait(t) PROVE Counted'
  BY Kinds, <1>13 DEF Wait, Counted, ProcTypes, Mine, Nothing
<1>14. ASSUME NEW t \in Launchers, Launch(t) PROVE Counted'
  BY Kinds, <1>14 DEF Launch, Counted, ProcTypes, Mine, Nothing
<1>15. ASSUME NEW t \in Launchers, RunNode(t) PROVE Counted'
  BY Kinds, <1>15 DEF RunNode, Counted, ProcTypes, Mine, Nothing
<1>16. ASSUME NEW t \in Launchers, NodeStarts(t) PROVE Counted'
  BY Kinds, <1>16 DEF NodeStarts, Counted, ProcTypes, Mine, Nothing
<1>17. ASSUME NEW t \in Launchers, Spawned(t) PROVE Counted'
  BY Kinds, <1>17 DEF Spawned, Counted, ProcTypes, Mine, Nothing
<1>18. ASSUME NEW t \in Launchers, Link(t) PROVE Counted'
  BY Kinds, <1>18 DEF Link, Counted, ProcTypes, Mine, Nothing
<1>19. ASSUME NEW t \in Launchers, Recheck(t) PROVE Counted'
  BY Kinds, <1>19 DEF Recheck, Counted, ProcTypes, Mine, Nothing
<1>20. ASSUME NEW t \in Launchers, StartController(t) PROVE Counted'
  BY Kinds, <1>20 DEF StartController, Counted, ProcTypes, Mine, Nothing
<1>21. ASSUME NEW t \in Stoppers, Cancel(t) PROVE Counted'
  BY Kinds, <1>21 DEF Cancel, Counted, ProcTypes, Mine, Nothing
<1>22. ASSUME NEW t \in Stoppers, TakeController(t) PROVE Counted'
  BY Kinds, <1>22 DEF TakeController, Counted, ProcTypes, Mine, Nothing
<1>23. ASSUME NEW t \in Stoppers, Unlink(t) PROVE Counted'
  BY Kinds, <1>23 DEF Unlink, Counted, ProcTypes, Mine, Nothing
<1>24. ASSUME NEW t \in Stoppers, Detach(t) PROVE Counted'
  BY Kinds, <1>24 DEF Detach, Counted, ProcTypes, Mine, Nothing
<1>25. ASSUME NEW t \in Stoppers, Kill(t) PROVE Counted'
  BY Kinds, <1>25 DEF Kill, Counted, ProcTypes, Mine, Nothing
<1>26. ASSUME NEW t \in Repairs, RepairBegins(t) PROVE Counted'
  BY Kinds, <1>26 DEF RepairBegins, Counted, ProcTypes, Mine, Nothing
<1>27. ASSUME NEW t \in Repairs, Repair(t) PROVE Counted'
  BY Kinds, <1>27 DEF Repair, Counted, ProcTypes, Mine, Nothing
<1>28. CASE UNCHANGED vars
  BY <1>28 DEF vars, Counted, ProcTypes, Mine, Nothing
<1> QED
  BY <1>1, <1>2, <1>3, <1>4, <1>5, <1>6, <1>7, <1>8, <1>9, <1>10, <1>11, <1>12, <1>13,
     <1>14, <1>15, <1>16, <1>17, <1>18, <1>19, <1>20, <1>21, <1>22, <1>23, <1>24, <1>25,
     <1>26, <1>27, <1>28 DEF ProcNext, LaunchStep, StopStep

LEMMA OneLaunchKept ==
    ASSUME ProcTypes, OneLaunch, Tokens, Flags, [ProcNext]_vars
    PROVE  OneLaunch'
<1> USE DEF procVars, ctlVars, flagVars, lockVars, outVars, pastVars, At, Goto, Leave,
           Notes, Fails, Spawn, Running
<1>1. ASSUME BootBegins PROVE OneLaunch'
  BY Kinds, <1>1 DEF BootBegins, OneLaunch, Tokens, Clean, Under, Launching, ProcTypes,
     Mine
<1>2. ASSUME UnloadBegins PROVE OneLaunch'
  BY Kinds, <1>2 DEF UnloadBegins, OneLaunch, Tokens, Clean, Under, Launching, ProcTypes,
     Mine
<1>3. ASSUME ServerStarts PROVE OneLaunch'
  BY Kinds, <1>3 DEF ServerStarts, OneLaunch, Tokens, Clean, Under, Launching, ProcTypes,
     Mine
<1>4. ASSUME Dies PROVE OneLaunch'
  BY Kinds, <1>4 DEF Dies, OneLaunch, Tokens, Clean, Under, Launching, ProcTypes, Mine
<1>5. ASSUME NEW t \in Reloads, ReloadBegins(t) PROVE OneLaunch'
  BY Kinds, <1>5 DEF ReloadBegins, OneLaunch, Tokens, Clean, Under, Launching, ProcTypes,
     Mine
<1>6. ASSUME NEW t \in Reloads, ReloadReads(t) PROVE OneLaunch'
  BY Kinds, <1>6 DEF ReloadReads, OneLaunch, Tokens, Clean, Under, Launching, ProcTypes,
     Mine
<1>7. ASSUME NEW t \in Reloads, ReloadLooks(t) PROVE OneLaunch'
  BY Kinds, <1>7 DEF ReloadLooks, OneLaunch, Tokens, Clean, Under, Launching, ProcTypes,
     Mine
<1>8. ASSUME NEW t \in Claims, ClaimBegins(t) PROVE OneLaunch'
  BY Kinds, <1>8 DEF ClaimBegins, OneLaunch, Tokens, Clean, Under, Launching, ProcTypes,
     Mine
<1>9. ASSUME NEW t \in Claims, Relink(t) PROVE OneLaunch'
  BY Kinds, <1>9 DEF Relink, OneLaunch, Tokens, Clean, Under, Launching, ProcTypes, Mine
<1>10. ASSUME NEW t \in Claims, Repoint(t) PROVE OneLaunch'
  BY Kinds, <1>10 DEF Repoint, OneLaunch, Tokens, Clean, Under, Launching, ProcTypes, Mine
<1>11. ASSUME NEW t \in Launchers, Intent(t) PROVE OneLaunch'
  <2> SUFFICES ASSUME Clean' PROVE /\ \A u \in Under' : u = t
                                   /\ \A u \in Launching' : my'[u].token = token'
    BY DEF OneLaunch
  <2>1. Launching = {}
    BY <1>11 DEF Intent, Clean
  <2>2. /\ token' = token + 1 /\ my' = [my EXCEPT ![t].token = token + 1]
        /\ pc' = [pc EXCEPT ![t] = "aim"]
    BY <1>11 DEF Intent
  <2>3. /\ \A u \in Threads : my'[u].token = IF u = t THEN token + 1 ELSE my[u].token
        /\ \A u \in Threads : u # t => pc'[u] = pc[u]
    BY <2>2, Kinds DEF ProcTypes, Mine
  <2>4. \A u \in Launching' : u = t
    BY <2>1, <2>3, Kinds DEF Launching
  <2>5. ASSUME NEW u \in Launchers, At(u, "wait")', u # t PROVE my'[u].token # token'
    BY <2>2, <2>3, <2>5, Kinds DEF Tokens, ProcTypes, Mine
  <2> QED BY <2>2, <2>3, <2>4, <2>5, Kinds DEF Under
<1>12. ASSUME NEW t \in Launchers, Aim(t) PROVE OneLaunch'
  BY Kinds, <1>12 DEF Aim, OneLaunch, Tokens, Clean, Under, Launching, ProcTypes, Mine
<1>13. ASSUME NEW t \in Launchers, Wait(t) PROVE OneLaunch'
  BY Kinds, <1>13 DEF Wait, OneLaunch, Tokens, Clean, Under, Launching, ProcTypes, Mine
<1>14. ASSUME NEW t \in Launchers, Launch(t) PROVE OneLaunch'
  BY Kinds, <1>14 DEF Launch, OneLaunch, Tokens, Clean, Under, Launching, ProcTypes, Mine
<1>15. ASSUME NEW t \in Launchers, RunNode(t) PROVE OneLaunch'
  BY Kinds, <1>15 DEF RunNode, OneLaunch, Tokens, Clean, Under, Launching, ProcTypes, Mine
<1>16. ASSUME NEW t \in Launchers, NodeStarts(t) PROVE OneLaunch'
  BY Kinds, <1>16 DEF NodeStarts, OneLaunch, Tokens, Clean, Under, Launching, ProcTypes,
     Mine
<1>17. ASSUME NEW t \in Launchers, Spawned(t) PROVE OneLaunch'
  BY Kinds, <1>17 DEF Spawned, OneLaunch, Tokens, Clean, Under, Launching, ProcTypes, Mine
<1>18. ASSUME NEW t \in Launchers, Link(t) PROVE OneLaunch'
  BY Kinds, <1>18 DEF Link, OneLaunch, Tokens, Clean, Under, Launching, ProcTypes, Mine
<1>19. ASSUME NEW t \in Launchers, Recheck(t) PROVE OneLaunch'
  BY Kinds, <1>19 DEF Recheck, OneLaunch, Tokens, Clean, Under, Launching, ProcTypes, Mine
<1>20. ASSUME NEW t \in Launchers, StartController(t) PROVE OneLaunch'
  BY Kinds, <1>20 DEF StartController, OneLaunch, Tokens, Clean, Under, Launching,
     ProcTypes, Mine
<1>21. ASSUME NEW t \in Stoppers, Cancel(t) PROVE OneLaunch'
  BY Kinds, <1>21 DEF Cancel, OneLaunch, Tokens, Clean, Under, Launching, ProcTypes, Mine
<1>22. ASSUME NEW t \in Stoppers, TakeController(t) PROVE OneLaunch'
  BY Kinds, <1>22 DEF TakeController, OneLaunch, Tokens, Clean, Under, Launching,
     ProcTypes, Mine
<1>23. ASSUME NEW t \in Stoppers, Unlink(t) PROVE OneLaunch'
  BY Kinds, <1>23 DEF Unlink, OneLaunch, Tokens, Clean, Under, Launching, ProcTypes, Mine
<1>24. ASSUME NEW t \in Stoppers, Detach(t) PROVE OneLaunch'
  BY Kinds, <1>24 DEF Detach, OneLaunch, Tokens, Clean, Under, Launching, ProcTypes, Mine
<1>25. ASSUME NEW t \in Stoppers, Kill(t) PROVE OneLaunch'
  BY Kinds, <1>25 DEF Kill, OneLaunch, Tokens, Clean, Under, Launching, ProcTypes, Mine
<1>26. ASSUME NEW t \in Repairs, RepairBegins(t) PROVE OneLaunch'
  BY Kinds, <1>26 DEF RepairBegins, OneLaunch, Tokens, Clean, Under, Launching, ProcTypes,
     Mine
<1>27. ASSUME NEW t \in Repairs, Repair(t) PROVE OneLaunch'
  BY Kinds, <1>27 DEF Repair, OneLaunch, Tokens, Clean, Under, Launching, ProcTypes, Mine
<1>28. CASE UNCHANGED vars
  BY <1>28 DEF vars, OneLaunch, Tokens, Clean, Under, Launching, ProcTypes, Mine
<1> QED
  BY <1>1, <1>2, <1>3, <1>4, <1>5, <1>6, <1>7, <1>8, <1>9, <1>10, <1>11, <1>12, <1>13,
     <1>14, <1>15, <1>16, <1>17, <1>18, <1>19, <1>20, <1>21, <1>22, <1>23, <1>24, <1>25,
     <1>26, <1>27, <1>28 DEF ProcNext, LaunchStep, StopStep

LEMMA FlagsKept ==
    ASSUME ProcTypes, Flags, Tokens, OneLaunch, [ProcNext]_vars
    PROVE  Flags'
<1> USE DEF procVars, ctlVars, flagVars, lockVars, outVars, pastVars, At, Goto, Leave,
           Notes, Fails, Spawn, Running
<1>1. ASSUME BootBegins PROVE Flags'
  BY Kinds, <1>1 DEF BootBegins, Flags, Tokens, Clean, Under, Launching, ProcTypes, Mine,
     Nothing
<1>2. ASSUME UnloadBegins PROVE Flags'
  BY Kinds, <1>2 DEF UnloadBegins, Flags, Tokens, Clean, Under, Launching, ProcTypes,
     Mine, Nothing
<1>3. ASSUME ServerStarts PROVE Flags'
  BY Kinds, <1>3 DEF ServerStarts, Flags, Tokens, Clean, Under, Launching, ProcTypes,
     Mine, Nothing
<1>4. ASSUME Dies PROVE Flags'
  BY Kinds, <1>4 DEF Dies, Flags, Tokens, Clean, Under, Launching, ProcTypes, Mine,
     Nothing
<1>5. ASSUME NEW t \in Reloads, ReloadBegins(t) PROVE Flags'
  BY Kinds, <1>5 DEF ReloadBegins, Flags, Tokens, Clean, Under, Launching, ProcTypes,
     Mine, Nothing
<1>6. ASSUME NEW t \in Reloads, ReloadReads(t) PROVE Flags'
  BY Kinds, <1>6 DEF ReloadReads, Flags, Tokens, Clean, Under, Launching, ProcTypes, Mine,
     Nothing
<1>7. ASSUME NEW t \in Reloads, ReloadLooks(t) PROVE Flags'
  BY Kinds, <1>7 DEF ReloadLooks, Flags, Tokens, Clean, Under, Launching, ProcTypes, Mine,
     Nothing
<1>8. ASSUME NEW t \in Claims, ClaimBegins(t) PROVE Flags'
  BY Kinds, <1>8 DEF ClaimBegins, Flags, Tokens, Clean, Under, Launching, ProcTypes, Mine,
     Nothing
<1>9. ASSUME NEW t \in Claims, Relink(t) PROVE Flags'
  BY Kinds, <1>9 DEF Relink, Flags, Tokens, Clean, Under, Launching, ProcTypes, Mine,
     Nothing
<1>10. ASSUME NEW t \in Claims, Repoint(t) PROVE Flags'
  BY Kinds, <1>10 DEF Repoint, Flags, Tokens, Clean, Under, Launching, ProcTypes, Mine,
     Nothing
<1>11. ASSUME NEW t \in Launchers, Intent(t) PROVE Flags'
  BY Kinds, <1>11 DEF Intent, Flags, Tokens, Clean, Under, Launching, ProcTypes, Mine,
     Nothing
<1>12. ASSUME NEW t \in Launchers, Aim(t) PROVE Flags'
  BY Kinds, <1>12 DEF Aim, Flags, Tokens, Clean, Under, Launching, ProcTypes, Mine,
     Nothing
<1>13. ASSUME NEW t \in Launchers, Wait(t) PROVE Flags'
  BY Kinds, <1>13 DEF Wait, Flags, Tokens, Clean, Under, Launching, ProcTypes, Mine,
     Nothing
<1>14. ASSUME NEW t \in Launchers, Launch(t) PROVE Flags'
  BY Kinds, <1>14 DEF Launch, Flags, Tokens, Clean, Under, Launching, ProcTypes, Mine,
     Nothing
<1>15. ASSUME NEW t \in Launchers, RunNode(t) PROVE Flags'
  BY Kinds, <1>15 DEF RunNode, Flags, Tokens, Clean, Under, Launching, ProcTypes, Mine,
     Nothing
<1>16. ASSUME NEW t \in Launchers, NodeStarts(t) PROVE Flags'
  BY Kinds, <1>16 DEF NodeStarts, Flags, Tokens, Clean, Under, Launching, ProcTypes, Mine,
     Nothing
<1>17. ASSUME NEW t \in Launchers, Spawned(t) PROVE Flags'
  BY Kinds, <1>17 DEF Spawned, Flags, Tokens, Clean, Under, Launching, ProcTypes, Mine,
     Nothing
<1>18. ASSUME NEW t \in Launchers, Link(t) PROVE Flags'
  BY Kinds, <1>18 DEF Link, Flags, Tokens, Clean, Under, Launching, ProcTypes, Mine,
     Nothing
<1>19. ASSUME NEW t \in Launchers, Recheck(t) PROVE Flags'
  BY Kinds, <1>19 DEF Recheck, Flags, Tokens, Clean, Under, Launching, ProcTypes, Mine,
     Nothing
<1>20. ASSUME NEW t \in Launchers, StartController(t) PROVE Flags'
  BY Kinds, <1>20 DEF StartController, Flags, Tokens, Clean, Under, Launching, ProcTypes,
     Mine, Nothing
<1>21. ASSUME NEW t \in Stoppers, Cancel(t) PROVE Flags'
  BY Kinds, <1>21 DEF Cancel, Flags, Tokens, Clean, Under, Launching, ProcTypes, Mine,
     Nothing
<1>22. ASSUME NEW t \in Stoppers, TakeController(t) PROVE Flags'
  BY Kinds, <1>22 DEF TakeController, Flags, Tokens, Clean, Under, Launching, ProcTypes,
     Mine, Nothing
<1>23. ASSUME NEW t \in Stoppers, Unlink(t) PROVE Flags'
  BY Kinds, <1>23 DEF Unlink, Flags, Tokens, Clean, Under, Launching, ProcTypes, Mine,
     Nothing
<1>24. ASSUME NEW t \in Stoppers, Detach(t) PROVE Flags'
  BY Kinds, <1>24 DEF Detach, Flags, Tokens, Clean, Under, Launching, ProcTypes, Mine,
     Nothing
<1>25. ASSUME NEW t \in Stoppers, Kill(t) PROVE Flags'
  BY Kinds, <1>25 DEF Kill, Flags, Tokens, Clean, Under, Launching, ProcTypes, Mine,
     Nothing
<1>26. ASSUME NEW t \in Repairs, RepairBegins(t) PROVE Flags'
  BY Kinds, <1>26 DEF RepairBegins, Flags, Tokens, Clean, Under, Launching, ProcTypes,
     Mine, Nothing
<1>27. ASSUME NEW t \in Repairs, Repair(t) PROVE Flags'
  BY Kinds, <1>27 DEF Repair, Flags, Tokens, Clean, Under, Launching, ProcTypes, Mine,
     Nothing
<1>28. CASE UNCHANGED vars
  BY <1>28 DEF vars, Flags, Tokens, Clean, Under, Launching, ProcTypes, Mine, Nothing
<1> QED
  BY <1>1, <1>2, <1>3, <1>4, <1>5, <1>6, <1>7, <1>8, <1>9, <1>10, <1>11, <1>12, <1>13,
     <1>14, <1>15, <1>16, <1>17, <1>18, <1>19, <1>20, <1>21, <1>22, <1>23, <1>24, <1>25,
     <1>26, <1>27, <1>28 DEF ProcNext, LaunchStep, StopStep

LEMMA UpKept ==
    ASSUME ProcTypes, Up, Flags, OneInstalls, [ProcNext]_vars
    PROVE  Up'
<1> USE DEF procVars, ctlVars, flagVars, lockVars, outVars, pastVars, At, Goto, Leave,
           Notes, Fails, Spawn, Running
<1>1. ASSUME BootBegins PROVE Up'
  BY Kinds, <1>1 DEF BootBegins, Up, Launching, ProcTypes, Nothing
<1>2. ASSUME UnloadBegins PROVE Up'
  BY Kinds, <1>2 DEF UnloadBegins, Up, Launching, ProcTypes, Nothing
<1>3. ASSUME ServerStarts PROVE Up'
  BY Kinds, <1>3 DEF ServerStarts, Up, Launching, ProcTypes, Nothing
<1>4. ASSUME Dies PROVE Up'
  BY Kinds, <1>4 DEF Dies, Up, Launching, ProcTypes, Nothing
<1>5. ASSUME NEW t \in Reloads, ReloadBegins(t) PROVE Up'
  BY Kinds, <1>5 DEF ReloadBegins, Up, Launching, ProcTypes, Nothing
<1>6. ASSUME NEW t \in Reloads, ReloadReads(t) PROVE Up'
  BY Kinds, <1>6 DEF ReloadReads, Up, Launching, ProcTypes, Nothing
<1>7. ASSUME NEW t \in Reloads, ReloadLooks(t) PROVE Up'
  BY Kinds, <1>7 DEF ReloadLooks, Up, Launching, ProcTypes, Nothing
<1>8. ASSUME NEW t \in Claims, ClaimBegins(t) PROVE Up'
  BY Kinds, <1>8 DEF ClaimBegins, Up, Launching, ProcTypes, Nothing
<1>9. ASSUME NEW t \in Claims, Relink(t) PROVE Up'
  BY Kinds, <1>9 DEF Relink, Up, Launching, ProcTypes, Nothing
<1>10. ASSUME NEW t \in Claims, Repoint(t) PROVE Up'
  BY Kinds, <1>10 DEF Repoint, Up, Launching, ProcTypes, Nothing
<1>11. ASSUME NEW t \in Launchers, Intent(t) PROVE Up'
  BY Kinds, <1>11 DEF Intent, Up, Launching, ProcTypes, Nothing
<1>12. ASSUME NEW t \in Launchers, Aim(t) PROVE Up'
  BY Kinds, <1>12 DEF Aim, Up, Launching, ProcTypes, Nothing
<1>13. ASSUME NEW t \in Launchers, Wait(t) PROVE Up'
  BY Kinds, <1>13 DEF Wait, Up, Launching, ProcTypes, Nothing
<1>14. ASSUME NEW t \in Launchers, Launch(t) PROVE Up'
  BY Kinds, <1>14 DEF Launch, Up, Launching, ProcTypes, Nothing
<1>15. ASSUME NEW t \in Launchers, RunNode(t) PROVE Up'
  BY Kinds, <1>15 DEF RunNode, Up, Launching, ProcTypes, Nothing
<1>16. ASSUME NEW t \in Launchers, NodeStarts(t) PROVE Up'
  BY Kinds, <1>16 DEF NodeStarts, Up, Launching, ProcTypes, Nothing
<1>17. ASSUME NEW t \in Launchers, Spawned(t) PROVE Up'
  BY Kinds, <1>17 DEF Spawned, Up, Launching, ProcTypes, Nothing
<1>18. ASSUME NEW t \in Launchers, Link(t) PROVE Up'
  BY Kinds, <1>18 DEF Link, Up, Launching, ProcTypes, Nothing
<1>19. ASSUME NEW t \in Launchers, Recheck(t) PROVE Up'
  BY Kinds, <1>19 DEF Recheck, Up, Launching, ProcTypes, Nothing
<1>20. ASSUME NEW t \in Launchers, StartController(t) PROVE Up'
  BY Kinds, <1>20 DEF StartController, Up, Launching, ProcTypes, Nothing
<1>21. ASSUME NEW t \in Stoppers, Cancel(t) PROVE Up'
  BY Kinds, <1>21 DEF Cancel, Up, Launching, ProcTypes, Nothing
<1>22. ASSUME NEW t \in Stoppers, TakeController(t) PROVE Up'
  BY Kinds, <1>22 DEF TakeController, Up, Launching, ProcTypes, Nothing
<1>23. ASSUME NEW t \in Stoppers, Unlink(t) PROVE Up'
  BY Kinds, <1>23 DEF Unlink, Up, Launching, ProcTypes, Nothing
<1>24. ASSUME NEW t \in Stoppers, Detach(t) PROVE Up'
  BY Kinds, <1>24 DEF Detach, Up, Launching, ProcTypes, Nothing
<1>25. ASSUME NEW t \in Stoppers, Kill(t) PROVE Up'
  BY Kinds, <1>25 DEF Kill, Up, Launching, ProcTypes, Nothing
<1>26. ASSUME NEW t \in Repairs, RepairBegins(t) PROVE Up'
  BY Kinds, <1>26 DEF RepairBegins, Up, Launching, ProcTypes, Nothing
<1>27. ASSUME NEW t \in Repairs, Repair(t) PROVE Up'
  BY Kinds, <1>27 DEF Repair, Up, Launching, ProcTypes, Nothing
<1>28. CASE UNCHANGED vars
  BY <1>28 DEF vars, Up, Launching, ProcTypes, Nothing
<1> QED
  BY <1>1, <1>2, <1>3, <1>4, <1>5, <1>6, <1>7, <1>8, <1>9, <1>10, <1>11, <1>12, <1>13,
     <1>14, <1>15, <1>16, <1>17, <1>18, <1>19, <1>20, <1>21, <1>22, <1>23, <1>24, <1>25,
     <1>26, <1>27, <1>28 DEF ProcNext, LaunchStep, StopStep

LEMMA StoppedKept ==
    ASSUME ProcTypes, Stopped, Flags, OneLaunch, InHand, OneController, [ProcNext]_vars
    PROVE  Stopped'
<1> USE DEF procVars, ctlVars, flagVars, lockVars, outVars, pastVars, At, Goto, Leave,
           Notes, Fails, Spawn, Running
<1>1. ASSUME BootBegins PROVE Stopped'
  BY Kinds, <1>1 DEF BootBegins, Stopped, Flags, OneLaunch, InHand, OneController, Clean,
     Under, Launching, ProcTypes, Mine, Nothing
<1>2. ASSUME UnloadBegins PROVE Stopped'
  BY Kinds, <1>2 DEF UnloadBegins, Stopped, Flags, OneLaunch, InHand, OneController,
     Clean, Under, Launching, ProcTypes, Mine, Nothing
<1>3. ASSUME ServerStarts PROVE Stopped'
  BY Kinds, <1>3 DEF ServerStarts, Stopped, Flags, OneLaunch, InHand, OneController,
     Clean, Under, Launching, ProcTypes, Mine, Nothing
<1>4. ASSUME Dies PROVE Stopped'
  BY Kinds, <1>4 DEF Dies, Stopped, Flags, OneLaunch, InHand, OneController, Clean, Under,
     Launching, ProcTypes, Mine, Nothing
<1>5. ASSUME NEW t \in Reloads, ReloadBegins(t) PROVE Stopped'
  BY Kinds, <1>5 DEF ReloadBegins, Stopped, Flags, OneLaunch, InHand, OneController,
     Clean, Under, Launching, ProcTypes, Mine, Nothing
<1>6. ASSUME NEW t \in Reloads, ReloadReads(t) PROVE Stopped'
  BY Kinds, <1>6 DEF ReloadReads, Stopped, Flags, OneLaunch, InHand, OneController, Clean,
     Under, Launching, ProcTypes, Mine, Nothing
<1>7. ASSUME NEW t \in Reloads, ReloadLooks(t) PROVE Stopped'
  BY Kinds, <1>7 DEF ReloadLooks, Stopped, Flags, OneLaunch, InHand, OneController, Clean,
     Under, Launching, ProcTypes, Mine, Nothing
<1>8. ASSUME NEW t \in Claims, ClaimBegins(t) PROVE Stopped'
  BY Kinds, <1>8 DEF ClaimBegins, Stopped, Flags, OneLaunch, InHand, OneController, Clean,
     Under, Launching, ProcTypes, Mine, Nothing
<1>9. ASSUME NEW t \in Claims, Relink(t) PROVE Stopped'
  BY Kinds, <1>9 DEF Relink, Stopped, Flags, OneLaunch, InHand, OneController, Clean,
     Under, Launching, ProcTypes, Mine, Nothing
<1>10. ASSUME NEW t \in Claims, Repoint(t) PROVE Stopped'
  BY Kinds, <1>10 DEF Repoint, Stopped, Flags, OneLaunch, InHand, OneController, Clean,
     Under, Launching, ProcTypes, Mine, Nothing
<1>11. ASSUME NEW t \in Launchers, Intent(t) PROVE Stopped'
  BY Kinds, <1>11 DEF Intent, Stopped, Flags, OneLaunch, InHand, OneController, Clean,
     Under, Launching, ProcTypes, Mine, Nothing
<1>12. ASSUME NEW t \in Launchers, Aim(t) PROVE Stopped'
  BY Kinds, <1>12 DEF Aim, Stopped, Flags, OneLaunch, InHand, OneController, Clean, Under,
     Launching, ProcTypes, Mine, Nothing
<1>13. ASSUME NEW t \in Launchers, Wait(t) PROVE Stopped'
  BY Kinds, <1>13 DEF Wait, Stopped, Flags, OneLaunch, InHand, OneController, Clean,
     Under, Launching, ProcTypes, Mine, Nothing
<1>14. ASSUME NEW t \in Launchers, Launch(t) PROVE Stopped'
  BY Kinds, <1>14 DEF Launch, Stopped, Flags, OneLaunch, InHand, OneController, Clean,
     Under, Launching, ProcTypes, Mine, Nothing
<1>15. ASSUME NEW t \in Launchers, RunNode(t) PROVE Stopped'
  BY Kinds, <1>15 DEF RunNode, Stopped, Flags, OneLaunch, InHand, OneController, Clean,
     Under, Launching, ProcTypes, Mine, Nothing
<1>16. ASSUME NEW t \in Launchers, NodeStarts(t) PROVE Stopped'
  BY Kinds, <1>16 DEF NodeStarts, Stopped, Flags, OneLaunch, InHand, OneController, Clean,
     Under, Launching, ProcTypes, Mine, Nothing
<1>17. ASSUME NEW t \in Launchers, Spawned(t) PROVE Stopped'
  BY Kinds, <1>17 DEF Spawned, Stopped, Flags, OneLaunch, InHand, OneController, Clean,
     Under, Launching, ProcTypes, Mine, Nothing
<1>18. ASSUME NEW t \in Launchers, Link(t) PROVE Stopped'
  BY Kinds, <1>18 DEF Link, Stopped, Flags, OneLaunch, InHand, OneController, Clean,
     Under, Launching, ProcTypes, Mine, Nothing
<1>19. ASSUME NEW t \in Launchers, Recheck(t) PROVE Stopped'
  BY Kinds, <1>19 DEF Recheck, Stopped, Flags, OneLaunch, InHand, OneController, Clean,
     Under, Launching, ProcTypes, Mine, Nothing
<1>20. ASSUME NEW t \in Launchers, StartController(t) PROVE Stopped'
  BY Kinds, <1>20 DEF StartController, Stopped, Flags, OneLaunch, InHand, OneController,
     Clean, Under, Launching, ProcTypes, Mine, Nothing
<1>21. ASSUME NEW t \in Stoppers, Cancel(t) PROVE Stopped'
  BY Kinds, <1>21 DEF Cancel, Stopped, Flags, OneLaunch, InHand, OneController, Clean,
     Under, Launching, ProcTypes, Mine, Nothing
<1>22. ASSUME NEW t \in Stoppers, TakeController(t) PROVE Stopped'
  BY Kinds, <1>22 DEF TakeController, Stopped, Flags, OneLaunch, InHand, OneController,
     Clean, Under, Launching, ProcTypes, Mine, Nothing
<1>23. ASSUME NEW t \in Stoppers, Unlink(t) PROVE Stopped'
  BY Kinds, <1>23 DEF Unlink, Stopped, Flags, OneLaunch, InHand, OneController, Clean,
     Under, Launching, ProcTypes, Mine, Nothing
<1>24. ASSUME NEW t \in Stoppers, Detach(t) PROVE Stopped'
  BY Kinds, <1>24 DEF Detach, Stopped, Flags, OneLaunch, InHand, OneController, Clean,
     Under, Launching, ProcTypes, Mine, Nothing
<1>25. ASSUME NEW t \in Stoppers, Kill(t) PROVE Stopped'
  BY Kinds, <1>25 DEF Kill, Stopped, Flags, OneLaunch, InHand, OneController, Clean,
     Under, Launching, ProcTypes, Mine, Nothing
<1>26. ASSUME NEW t \in Repairs, RepairBegins(t) PROVE Stopped'
  BY Kinds, <1>26 DEF RepairBegins, Stopped, Flags, OneLaunch, InHand, OneController,
     Clean, Under, Launching, ProcTypes, Mine, Nothing
<1>27. ASSUME NEW t \in Repairs, Repair(t) PROVE Stopped'
  BY Kinds, <1>27 DEF Repair, Stopped, Flags, OneLaunch, InHand, OneController, Clean,
     Under, Launching, ProcTypes, Mine, Nothing
<1>28. CASE UNCHANGED vars
  BY <1>28 DEF vars, Stopped, Flags, OneLaunch, InHand, OneController, Clean, Under,
     Launching, ProcTypes, Mine, Nothing
<1> QED
  BY <1>1, <1>2, <1>3, <1>4, <1>5, <1>6, <1>7, <1>8, <1>9, <1>10, <1>11, <1>12, <1>13,
     <1>14, <1>15, <1>16, <1>17, <1>18, <1>19, <1>20, <1>21, <1>22, <1>23, <1>24, <1>25,
     <1>26, <1>27, <1>28 DEF ProcNext, LaunchStep, StopStep

LEMMA ServedKept ==
    ASSUME ProcTypes, Served, Flags, Counted, OneLaunch, [ProcNext]_vars
    PROVE  Served'
<1> USE DEF procVars, ctlVars, flagVars, lockVars, outVars, pastVars, At, Goto, Leave,
           Notes, Fails, Spawn, Running
<1>1. ASSUME BootBegins PROVE Served'
  BY Kinds, <1>1 DEF BootBegins, Served, Flags, Counted, OneLaunch, Clean, Under,
     Launching, ProcTypes, Mine, Nothing
<1>2. ASSUME UnloadBegins PROVE Served'
  BY Kinds, <1>2 DEF UnloadBegins, Served, Flags, Counted, OneLaunch, Clean, Under,
     Launching, ProcTypes, Mine, Nothing
<1>3. ASSUME ServerStarts PROVE Served'
  BY Kinds, <1>3 DEF ServerStarts, Served, Flags, Counted, OneLaunch, Clean, Under,
     Launching, ProcTypes, Mine, Nothing
<1>4. ASSUME Dies PROVE Served'
  BY Kinds, <1>4 DEF Dies, Served, Flags, Counted, OneLaunch, Clean, Under, Launching,
     ProcTypes, Mine, Nothing
<1>5. ASSUME NEW t \in Reloads, ReloadBegins(t) PROVE Served'
  BY Kinds, <1>5 DEF ReloadBegins, Served, Flags, Counted, OneLaunch, Clean, Under,
     Launching, ProcTypes, Mine, Nothing
<1>6. ASSUME NEW t \in Reloads, ReloadReads(t) PROVE Served'
  BY Kinds, <1>6 DEF ReloadReads, Served, Flags, Counted, OneLaunch, Clean, Under,
     Launching, ProcTypes, Mine, Nothing
<1>7. ASSUME NEW t \in Reloads, ReloadLooks(t) PROVE Served'
  BY Kinds, <1>7 DEF ReloadLooks, Served, Flags, Counted, OneLaunch, Clean, Under,
     Launching, ProcTypes, Mine, Nothing
<1>8. ASSUME NEW t \in Claims, ClaimBegins(t) PROVE Served'
  BY Kinds, <1>8 DEF ClaimBegins, Served, Flags, Counted, OneLaunch, Clean, Under,
     Launching, ProcTypes, Mine, Nothing
<1>9. ASSUME NEW t \in Claims, Relink(t) PROVE Served'
  BY Kinds, <1>9 DEF Relink, Served, Flags, Counted, OneLaunch, Clean, Under, Launching,
     ProcTypes, Mine, Nothing
<1>10. ASSUME NEW t \in Claims, Repoint(t) PROVE Served'
  BY Kinds, <1>10 DEF Repoint, Served, Flags, Counted, OneLaunch, Clean, Under, Launching,
     ProcTypes, Mine, Nothing
<1>11. ASSUME NEW t \in Launchers, Intent(t) PROVE Served'
  BY Kinds, <1>11 DEF Intent, Served, Flags, Counted, OneLaunch, Clean, Under, Launching,
     ProcTypes, Mine, Nothing
<1>12. ASSUME NEW t \in Launchers, Aim(t) PROVE Served'
  <2> SUFFICES ASSUME Clean', wanted', "failed" \notin crossed' PROVE \E l \in Under' : pc'[l] \in {"launch", "wait"}
    BY DEF Served
  <2>1. /\ UNCHANGED <<my, token, wanted>> /\ At(t, "aim") /\ wanted
        /\ pc' \in {[pc EXCEPT ![t] = l] : l \in {"done", "launch", "wait"}}
        /\ Clean
    BY <1>12 DEF Aim, Clean
  <2>2. my[t].token = token
    BY <2>1, Kinds DEF OneLaunch, Launching
  <2>3. CASE pc' = [pc EXCEPT ![t] = "launch"]
    BY <2>1, <2>3, Kinds DEF Under, Launching, ProcTypes
  <2>4. CASE pc' = [pc EXCEPT ![t] = "wait"]
    BY <2>1, <2>2, <2>4, Kinds DEF Under, Launching, ProcTypes
  <2>5. CASE pc' = [pc EXCEPT ![t] = "done"]
    <3>1. waiter # Nothing /\ pc[waiter] = "wait" /\ my[waiter].token = token
      BY <1>12, <2>1, <2>5, Kinds DEF Aim, Clean, ProcTypes
    <3>2. waiter \in Launchers /\ waiter # t
      BY <2>1, <3>1 DEF ProcTypes
    <3> QED BY <2>1, <2>5, <3>1, <3>2, Kinds DEF Under, ProcTypes
  <2> QED BY <2>1, <2>3, <2>4, <2>5
<1>13. ASSUME NEW t \in Launchers, Wait(t) PROVE Served'
  BY Kinds, <1>13 DEF Wait, Served, Flags, Counted, OneLaunch, Clean, Under, Launching,
     ProcTypes, Mine, Nothing
<1>14. ASSUME NEW t \in Launchers, Launch(t) PROVE Served'
  BY Kinds, <1>14 DEF Launch, Served, Flags, Counted, OneLaunch, Clean, Under, Launching,
     ProcTypes, Mine, Nothing
<1>15. ASSUME NEW t \in Launchers, RunNode(t) PROVE Served'
  BY Kinds, <1>15 DEF RunNode, Served, Flags, Counted, OneLaunch, Clean, Under, Launching,
     ProcTypes, Mine, Nothing
<1>16. ASSUME NEW t \in Launchers, NodeStarts(t) PROVE Served'
  BY Kinds, <1>16 DEF NodeStarts, Served, Flags, Counted, OneLaunch, Clean, Under,
     Launching, ProcTypes, Mine, Nothing
<1>17. ASSUME NEW t \in Launchers, Spawned(t) PROVE Served'
  BY Kinds, <1>17 DEF Spawned, Served, Flags, Counted, OneLaunch, Clean, Under, Launching,
     ProcTypes, Mine, Nothing
<1>18. ASSUME NEW t \in Launchers, Link(t) PROVE Served'
  BY Kinds, <1>18 DEF Link, Served, Flags, Counted, OneLaunch, Clean, Under, Launching,
     ProcTypes, Mine, Nothing
<1>19. ASSUME NEW t \in Launchers, Recheck(t) PROVE Served'
  BY Kinds, <1>19 DEF Recheck, Served, Flags, Counted, OneLaunch, Clean, Under, Launching,
     ProcTypes, Mine, Nothing
<1>20. ASSUME NEW t \in Launchers, StartController(t) PROVE Served'
  BY Kinds, <1>20 DEF StartController, Served, Flags, Counted, OneLaunch, Clean, Under,
     Launching, ProcTypes, Mine, Nothing
<1>21. ASSUME NEW t \in Stoppers, Cancel(t) PROVE Served'
  BY Kinds, <1>21 DEF Cancel, Served, Flags, Counted, OneLaunch, Clean, Under, Launching,
     ProcTypes, Mine, Nothing
<1>22. ASSUME NEW t \in Stoppers, TakeController(t) PROVE Served'
  BY Kinds, <1>22 DEF TakeController, Served, Flags, Counted, OneLaunch, Clean, Under,
     Launching, ProcTypes, Mine, Nothing
<1>23. ASSUME NEW t \in Stoppers, Unlink(t) PROVE Served'
  BY Kinds, <1>23 DEF Unlink, Served, Flags, Counted, OneLaunch, Clean, Under, Launching,
     ProcTypes, Mine, Nothing
<1>24. ASSUME NEW t \in Stoppers, Detach(t) PROVE Served'
  BY Kinds, <1>24 DEF Detach, Served, Flags, Counted, OneLaunch, Clean, Under, Launching,
     ProcTypes, Mine, Nothing
<1>25. ASSUME NEW t \in Stoppers, Kill(t) PROVE Served'
  <2> SUFFICES ASSUME Clean', wanted', "failed" \notin crossed'
               PROVE  \/ \E l \in Under' : pc'[l] \in {"aim", "launch", "wait", "node", "install"}
                      \/ Running'
                      \/ At(Unload, "cancel")'
    BY DEF Served
  <2>1. Clean /\ wanted /\ "failed" \notin crossed
    BY <1>25 DEF Kill, Clean
  <2>2. /\ \A u \in Threads : u # t => pc'[u] = pc[u]
        /\ \A u \in Threads : my'[u].token = my[u].token
        /\ token' = token /\ At(t, "kill")
    BY <1>25, Kinds DEF Kill, ProcTypes, Mine
  <2>3. \A l \in Under : l \in Under' /\ pc'[l] = pc[l]
    BY <2>2, Kinds DEF Under, Launching
  <2>4. At(Unload, "cancel") => At(Unload, "cancel")'
    BY <2>2, Kinds
  <2>5. Running => Running'
    <3>1. CASE my[t].proc # Nothing
      BY <1>25, <3>1, Kinds DEF Kill, Counted
    <3>2. CASE my[t].proc = Nothing
      BY <1>25, <2>1, <3>2 DEF Kill, Clean
    <3> QED BY <3>1, <3>2
  <2> QED BY <2>1, <2>3, <2>4, <2>5 DEF Served
<1>26. ASSUME NEW t \in Repairs, RepairBegins(t) PROVE Served'
  BY Kinds, <1>26 DEF RepairBegins, Served, Flags, Counted, OneLaunch, Clean, Under,
     Launching, ProcTypes, Mine, Nothing
<1>27. ASSUME NEW t \in Repairs, Repair(t) PROVE Served'
  BY Kinds, <1>27 DEF Repair, Served, Flags, Counted, OneLaunch, Clean, Under, Launching,
     ProcTypes, Mine, Nothing
<1>28. CASE UNCHANGED vars
  BY <1>28 DEF vars, Served, Flags, Counted, OneLaunch, Clean, Under, Launching,
     ProcTypes, Mine, Nothing
<1> QED
  BY <1>1, <1>2, <1>3, <1>4, <1>5, <1>6, <1>7, <1>8, <1>9, <1>10, <1>11, <1>12, <1>13,
     <1>14, <1>15, <1>16, <1>17, <1>18, <1>19, <1>20, <1>21, <1>22, <1>23, <1>24, <1>25,
     <1>26, <1>27, <1>28 DEF ProcNext, LaunchStep, StopStep

LEMMA AttendedKept ==
    ASSUME ProcTypes, Attended, OneController, OneLaunch, Flags, Tokens, [ProcNext]_vars
    PROVE  Attended'
<1> USE DEF procVars, ctlVars, flagVars, lockVars, outVars, pastVars, At, Goto, Leave,
           Notes, Fails, Spawn, Running
<1>1. ASSUME BootBegins PROVE Attended'
  BY Kinds, <1>1 DEF BootBegins, Attended, OneController, OneLaunch, Flags, Tokens, Clean,
     Under, Launching, ProcTypes, Mine, Nothing
<1>2. ASSUME UnloadBegins PROVE Attended'
  BY Kinds, <1>2 DEF UnloadBegins, Attended, OneController, OneLaunch, Flags, Tokens,
     Clean, Under, Launching, ProcTypes, Mine, Nothing
<1>3. ASSUME ServerStarts PROVE Attended'
  BY Kinds, <1>3 DEF ServerStarts, Attended, OneController, OneLaunch, Flags, Tokens,
     Clean, Under, Launching, ProcTypes, Mine, Nothing
<1>4. ASSUME Dies PROVE Attended'
  BY Kinds, <1>4 DEF Dies, Attended, OneController, OneLaunch, Flags, Tokens, Clean,
     Under, Launching, ProcTypes, Mine, Nothing
<1>5. ASSUME NEW t \in Reloads, ReloadBegins(t) PROVE Attended'
  BY Kinds, <1>5 DEF ReloadBegins, Attended, OneController, OneLaunch, Flags, Tokens,
     Clean, Under, Launching, ProcTypes, Mine, Nothing
<1>6. ASSUME NEW t \in Reloads, ReloadReads(t) PROVE Attended'
  BY Kinds, <1>6 DEF ReloadReads, Attended, OneController, OneLaunch, Flags, Tokens,
     Clean, Under, Launching, ProcTypes, Mine, Nothing
<1>7. ASSUME NEW t \in Reloads, ReloadLooks(t) PROVE Attended'
  BY Kinds, <1>7 DEF ReloadLooks, Attended, OneController, OneLaunch, Flags, Tokens,
     Clean, Under, Launching, ProcTypes, Mine, Nothing
<1>8. ASSUME NEW t \in Claims, ClaimBegins(t) PROVE Attended'
  BY Kinds, <1>8 DEF ClaimBegins, Attended, OneController, OneLaunch, Flags, Tokens,
     Clean, Under, Launching, ProcTypes, Mine, Nothing
<1>9. ASSUME NEW t \in Claims, Relink(t) PROVE Attended'
  BY Kinds, <1>9 DEF Relink, Attended, OneController, OneLaunch, Flags, Tokens, Clean,
     Under, Launching, ProcTypes, Mine, Nothing
<1>10. ASSUME NEW t \in Claims, Repoint(t) PROVE Attended'
  BY Kinds, <1>10 DEF Repoint, Attended, OneController, OneLaunch, Flags, Tokens, Clean,
     Under, Launching, ProcTypes, Mine, Nothing
<1>11. ASSUME NEW t \in Launchers, Intent(t) PROVE Attended'
  BY Kinds, <1>11 DEF Intent, Attended, OneController, OneLaunch, Flags, Tokens, Clean,
     Under, Launching, ProcTypes, Mine, Nothing
<1>12. ASSUME NEW t \in Launchers, Aim(t) PROVE Attended'
  <2> SUFFICES ASSUME Clean', wanted', "failed" \notin crossed' PROVE Under' # {}
    BY DEF Attended
  <2>1. /\ UNCHANGED <<my, token, wanted>> /\ At(t, "aim") /\ wanted
        /\ pc' \in {[pc EXCEPT ![t] = l] : l \in {"done", "launch", "wait"}}
        /\ Clean
    BY <1>12 DEF Aim, Clean
  <2>2. my[t].token = token
    BY <2>1, Kinds DEF OneLaunch, Launching
  <2>3. CASE pc' = [pc EXCEPT ![t] = "launch"]
    BY <2>1, <2>3, Kinds DEF Under, Launching, ProcTypes
  <2>4. CASE pc' = [pc EXCEPT ![t] = "wait"]
    BY <2>1, <2>2, <2>4, Kinds DEF Under, Launching, ProcTypes
  <2>5. CASE pc' = [pc EXCEPT ![t] = "done"]
    <3>1. waiter # Nothing /\ pc[waiter] = "wait" /\ my[waiter].token = token
      BY <1>12, <2>1, <2>5, Kinds DEF Aim, Clean, ProcTypes
    <3>2. waiter \in Launchers /\ waiter # t
      BY <2>1, <3>1 DEF ProcTypes
    <3> QED BY <2>1, <2>5, <3>1, <3>2, Kinds DEF Under, ProcTypes
  <2> QED BY <2>1, <2>3, <2>4, <2>5
<1>13. ASSUME NEW t \in Launchers, Wait(t) PROVE Attended'
  BY Kinds, <1>13 DEF Wait, Attended, OneController, OneLaunch, Flags, Tokens, Clean,
     Under, Launching, ProcTypes, Mine, Nothing
<1>14. ASSUME NEW t \in Launchers, Launch(t) PROVE Attended'
  BY Kinds, <1>14 DEF Launch, Attended, OneController, OneLaunch, Flags, Tokens, Clean,
     Under, Launching, ProcTypes, Mine, Nothing
<1>15. ASSUME NEW t \in Launchers, RunNode(t) PROVE Attended'
  BY Kinds, <1>15 DEF RunNode, Attended, OneController, OneLaunch, Flags, Tokens, Clean,
     Under, Launching, ProcTypes, Mine, Nothing
<1>16. ASSUME NEW t \in Launchers, NodeStarts(t) PROVE Attended'
  BY Kinds, <1>16 DEF NodeStarts, Attended, OneController, OneLaunch, Flags, Tokens,
     Clean, Under, Launching, ProcTypes, Mine, Nothing
<1>17. ASSUME NEW t \in Launchers, Spawned(t) PROVE Attended'
  BY Kinds, <1>17 DEF Spawned, Attended, OneController, OneLaunch, Flags, Tokens, Clean,
     Under, Launching, ProcTypes, Mine, Nothing
<1>18. ASSUME NEW t \in Launchers, Link(t) PROVE Attended'
  BY Kinds, <1>18 DEF Link, Attended, OneController, OneLaunch, Flags, Tokens, Clean,
     Under, Launching, ProcTypes, Mine, Nothing
<1>19. ASSUME NEW t \in Launchers, Recheck(t) PROVE Attended'
  BY Kinds, <1>19 DEF Recheck, Attended, OneController, OneLaunch, Flags, Tokens, Clean,
     Under, Launching, ProcTypes, Mine, Nothing
<1>20. ASSUME NEW t \in Launchers, StartController(t) PROVE Attended'
  <2> SUFFICES ASSUME Clean', "bare" \notin crossed'
               PROVE  controller' # Nothing /\ acting' = {controller'}
    BY DEF Attended
  <2>1. Clean /\ t \in Under /\ controller' = t /\ acting' = acting \cup {t}
    BY <1>20 DEF StartController, Clean, Under, Launching
  <2>2. acting = {}
    BY <2>1 DEF OneController
  <2> QED BY <2>1, <2>2, Kinds
<1>21. ASSUME NEW t \in Stoppers, Cancel(t) PROVE Attended'
  BY Kinds, <1>21 DEF Cancel, Attended, OneController, OneLaunch, Flags, Tokens, Clean,
     Under, Launching, ProcTypes, Mine, Nothing
<1>22. ASSUME NEW t \in Stoppers, TakeController(t) PROVE Attended'
  <2> SUFFICES ASSUME Clean', wanted', crossed' \cap {"failed", "bare"} = {}
               PROVE  Under' # {} \/ At(Unload, "cancel")'
    BY DEF Attended
  <2>1. Clean /\ wanted /\ crossed \cap {"failed", "bare"} = {} /\ controller = Nothing
    BY <1>22 DEF TakeController, Clean
  <2>2. /\ At(t, "take") /\ pc' = [pc EXCEPT ![t] = "unlink"]
        /\ token' = token /\ my' = my
    BY <1>22 DEF TakeController
  <2>3. \A l \in Under : l \in Under'
    BY <2>2, Kinds DEF Under, Launching, ProcTypes
  <2>4. At(Unload, "cancel") => At(Unload, "cancel")'
    BY <2>2, Kinds DEF ProcTypes
  <2> QED BY <2>1, <2>3, <2>4 DEF Attended
<1>23. ASSUME NEW t \in Stoppers, Unlink(t) PROVE Attended'
  BY Kinds, <1>23 DEF Unlink, Attended, OneController, OneLaunch, Flags, Tokens, Clean,
     Under, Launching, ProcTypes, Mine, Nothing
<1>24. ASSUME NEW t \in Stoppers, Detach(t) PROVE Attended'
  BY Kinds, <1>24 DEF Detach, Attended, OneController, OneLaunch, Flags, Tokens, Clean,
     Under, Launching, ProcTypes, Mine, Nothing
<1>25. ASSUME NEW t \in Stoppers, Kill(t) PROVE Attended'
  BY Kinds, <1>25 DEF Kill, Attended, OneController, OneLaunch, Flags, Tokens, Clean,
     Under, Launching, ProcTypes, Mine, Nothing
<1>26. ASSUME NEW t \in Repairs, RepairBegins(t) PROVE Attended'
  BY Kinds, <1>26 DEF RepairBegins, Attended, OneController, OneLaunch, Flags, Tokens,
     Clean, Under, Launching, ProcTypes, Mine, Nothing
<1>27. ASSUME NEW t \in Repairs, Repair(t) PROVE Attended'
  BY Kinds, <1>27 DEF Repair, Attended, OneController, OneLaunch, Flags, Tokens, Clean,
     Under, Launching, ProcTypes, Mine, Nothing
<1>28. CASE UNCHANGED vars
  BY <1>28 DEF vars, Attended, OneController, OneLaunch, Flags, Tokens, Clean, Under,
     Launching, ProcTypes, Mine, Nothing
<1> QED
  BY <1>1, <1>2, <1>3, <1>4, <1>5, <1>6, <1>7, <1>8, <1>9, <1>10, <1>11, <1>12, <1>13,
     <1>14, <1>15, <1>16, <1>17, <1>18, <1>19, <1>20, <1>21, <1>22, <1>23, <1>24, <1>25,
     <1>26, <1>27, <1>28 DEF ProcNext, LaunchStep, StopStep

LEMMA OneControllerKept ==
    ASSUME ProcTypes, OneController, OneLaunch, Flags, Tokens, [ProcNext]_vars
    PROVE  OneController'
<1> USE DEF procVars, ctlVars, flagVars, lockVars, outVars, pastVars, At, Goto, Leave,
           Notes, Fails, Spawn, Running
<1>1. ASSUME BootBegins PROVE OneController'
  BY Kinds, <1>1 DEF BootBegins, OneController, Flags, Tokens, OneLaunch, Clean, Under,
     Launching, ProcTypes, Mine, Nothing
<1>2. ASSUME UnloadBegins PROVE OneController'
  BY Kinds, <1>2 DEF UnloadBegins, OneController, Flags, Tokens, OneLaunch, Clean, Under,
     Launching, ProcTypes, Mine, Nothing
<1>3. ASSUME ServerStarts PROVE OneController'
  BY Kinds, <1>3 DEF ServerStarts, OneController, Flags, Tokens, OneLaunch, Clean, Under,
     Launching, ProcTypes, Mine, Nothing
<1>4. ASSUME Dies PROVE OneController'
  BY Kinds, <1>4 DEF Dies, OneController, Flags, Tokens, OneLaunch, Clean, Under,
     Launching, ProcTypes, Mine, Nothing
<1>5. ASSUME NEW t \in Reloads, ReloadBegins(t) PROVE OneController'
  BY Kinds, <1>5 DEF ReloadBegins, OneController, Flags, Tokens, OneLaunch, Clean, Under,
     Launching, ProcTypes, Mine, Nothing
<1>6. ASSUME NEW t \in Reloads, ReloadReads(t) PROVE OneController'
  BY Kinds, <1>6 DEF ReloadReads, OneController, Flags, Tokens, OneLaunch, Clean, Under,
     Launching, ProcTypes, Mine, Nothing
<1>7. ASSUME NEW t \in Reloads, ReloadLooks(t) PROVE OneController'
  BY Kinds, <1>7 DEF ReloadLooks, OneController, Flags, Tokens, OneLaunch, Clean, Under,
     Launching, ProcTypes, Mine, Nothing
<1>8. ASSUME NEW t \in Claims, ClaimBegins(t) PROVE OneController'
  BY Kinds, <1>8 DEF ClaimBegins, OneController, Flags, Tokens, OneLaunch, Clean, Under,
     Launching, ProcTypes, Mine, Nothing
<1>9. ASSUME NEW t \in Claims, Relink(t) PROVE OneController'
  BY Kinds, <1>9 DEF Relink, OneController, Flags, Tokens, OneLaunch, Clean, Under,
     Launching, ProcTypes, Mine, Nothing
<1>10. ASSUME NEW t \in Claims, Repoint(t) PROVE OneController'
  BY Kinds, <1>10 DEF Repoint, OneController, Flags, Tokens, OneLaunch, Clean, Under,
     Launching, ProcTypes, Mine, Nothing
<1>11. ASSUME NEW t \in Launchers, Intent(t) PROVE OneController'
  <2> SUFFICES ASSUME Clean' PROVE controller' = Nothing /\ acting' = {}
    BY DEF OneController
  <2>1. Clean /\ controller = Nothing /\ UNCHANGED ctlVars
    BY <1>11 DEF Intent, Clean
  <2>2. acting = {}
    BY <2>1, Kinds DEF OneController, ProcTypes
  <2> QED BY <2>1, <2>2
<1>12. ASSUME NEW t \in Launchers, Aim(t) PROVE OneController'
  BY Kinds, <1>12 DEF Aim, OneController, Flags, Tokens, OneLaunch, Clean, Under,
     Launching, ProcTypes, Mine, Nothing
<1>13. ASSUME NEW t \in Launchers, Wait(t) PROVE OneController'
  BY Kinds, <1>13 DEF Wait, OneController, Flags, Tokens, OneLaunch, Clean, Under,
     Launching, ProcTypes, Mine, Nothing
<1>14. ASSUME NEW t \in Launchers, Launch(t) PROVE OneController'
  BY Kinds, <1>14 DEF Launch, OneController, Flags, Tokens, OneLaunch, Clean, Under,
     Launching, ProcTypes, Mine, Nothing
<1>15. ASSUME NEW t \in Launchers, RunNode(t) PROVE OneController'
  BY Kinds, <1>15 DEF RunNode, OneController, Flags, Tokens, OneLaunch, Clean, Under,
     Launching, ProcTypes, Mine, Nothing
<1>16. ASSUME NEW t \in Launchers, NodeStarts(t) PROVE OneController'
  BY Kinds, <1>16 DEF NodeStarts, OneController, Flags, Tokens, OneLaunch, Clean, Under,
     Launching, ProcTypes, Mine, Nothing
<1>17. ASSUME NEW t \in Launchers, Spawned(t) PROVE OneController'
  BY Kinds, <1>17 DEF Spawned, OneController, Flags, Tokens, OneLaunch, Clean, Under,
     Launching, ProcTypes, Mine, Nothing
<1>18. ASSUME NEW t \in Launchers, Link(t) PROVE OneController'
  BY Kinds, <1>18 DEF Link, OneController, Flags, Tokens, OneLaunch, Clean, Under,
     Launching, ProcTypes, Mine, Nothing
<1>19. ASSUME NEW t \in Launchers, Recheck(t) PROVE OneController'
  BY Kinds, <1>19 DEF Recheck, OneController, Flags, Tokens, OneLaunch, Clean, Under,
     Launching, ProcTypes, Mine, Nothing
<1>20. ASSUME NEW t \in Launchers, StartController(t) PROVE OneController'
  BY Kinds, <1>20 DEF StartController, OneController, Flags, Tokens, OneLaunch, Clean,
     Under, Launching, ProcTypes, Mine, Nothing
<1>21. ASSUME NEW t \in Stoppers, Cancel(t) PROVE OneController'
  BY Kinds, <1>21 DEF Cancel, OneController, Flags, Tokens, OneLaunch, Clean, Under,
     Launching, ProcTypes, Mine, Nothing
<1>22. ASSUME NEW t \in Stoppers, TakeController(t) PROVE OneController'
  BY Kinds, <1>22 DEF TakeController, OneController, Flags, Tokens, OneLaunch, Clean,
     Under, Launching, ProcTypes, Mine, Nothing
<1>23. ASSUME NEW t \in Stoppers, Unlink(t) PROVE OneController'
  BY Kinds, <1>23 DEF Unlink, OneController, Flags, Tokens, OneLaunch, Clean, Under,
     Launching, ProcTypes, Mine, Nothing
<1>24. ASSUME NEW t \in Stoppers, Detach(t) PROVE OneController'
  BY Kinds, <1>24 DEF Detach, OneController, Flags, Tokens, OneLaunch, Clean, Under,
     Launching, ProcTypes, Mine, Nothing
<1>25. ASSUME NEW t \in Stoppers, Kill(t) PROVE OneController'
  BY Kinds, <1>25 DEF Kill, OneController, Flags, Tokens, OneLaunch, Clean, Under,
     Launching, ProcTypes, Mine, Nothing
<1>26. ASSUME NEW t \in Repairs, RepairBegins(t) PROVE OneController'
  BY Kinds, <1>26 DEF RepairBegins, OneController, Flags, Tokens, OneLaunch, Clean, Under,
     Launching, ProcTypes, Mine, Nothing
<1>27. ASSUME NEW t \in Repairs, Repair(t) PROVE OneController'
  BY Kinds, <1>27 DEF Repair, OneController, Flags, Tokens, OneLaunch, Clean, Under,
     Launching, ProcTypes, Mine, Nothing
<1>28. CASE UNCHANGED vars
  BY <1>28 DEF vars, OneController, Flags, Tokens, OneLaunch, Clean, Under, Launching,
     ProcTypes, Mine, Nothing
<1> QED
  BY <1>1, <1>2, <1>3, <1>4, <1>5, <1>6, <1>7, <1>8, <1>9, <1>10, <1>11, <1>12, <1>13,
     <1>14, <1>15, <1>16, <1>17, <1>18, <1>19, <1>20, <1>21, <1>22, <1>23, <1>24, <1>25,
     <1>26, <1>27, <1>28 DEF ProcNext, LaunchStep, StopStep

\* When nothing is under way there is a bot exactly when the last intent was to have
\* one, and then the one controller the module knows acts on it, or a thread waits for
\* the server to launch it: however many reloads, role changes and repairs overlap,
\* save for the five races and the failures BotIsAsWanted names.
THEOREM BotStaysAsWanted == ProcSpec => []BotIsAsWanted
<1> DEFINE Known == ProcTypes /\ Numbered /\ OneInstalls /\ InHand
           Orders == Tokens /\ Counted /\ OneLaunch /\ Flags /\ Up
           Result == Stopped /\ Served /\ Attended /\ OneController
<1>1. Init => Known /\ Orders /\ Result
  <2> SUFFICES ASSUME Init PROVE Known /\ Orders /\ Result
    OBVIOUS
  <2>1. Known
    BY InitiallyKnown
  <2>2. Under = {} /\ Launching = {}
    BY Kinds DEF Init, Under, Launching, At
  <2>3. Orders
    BY Kinds, <2>2 DEF Init, Tokens, Counted, OneLaunch, Flags, Up, Fresh, At, Nothing
  <2>4. Result
    BY Kinds, <2>2 DEF Init, Stopped, Served, Attended, OneController, Running, At
  <2> QED BY <2>1, <2>3, <2>4
<1>2. (Known /\ Orders /\ Result) /\ [ProcNext]_vars => (Known /\ Orders /\ Result)'
  <2> SUFFICES ASSUME Known, Orders, Result, [ProcNext]_vars PROVE (Known /\ Orders /\ Result)'
    OBVIOUS
  <2>1. Known'
    BY ProcTypesKept, NumberedKept, OneInstallsKept, InHandKept
  <2>2. Orders'
    BY TokensKept, CountedKept, OneLaunchKept, FlagsKept, UpKept
  <2>3. Result'
    BY StoppedKept, ServedKept, AttendedKept, OneControllerKept
  <2> QED BY <2>1, <2>2, <2>3
<1>3. Known /\ Orders /\ Result => BotIsAsWanted
  <2> SUFFICES ASSUME Known, Orders, Result, AtRest, Clean
               PROVE  /\ acting \subseteq {controller}
                      /\ ~wanted => ~Running /\ ~peer /\ (acting = {} \/ "late" \in crossed)
                      /\ wanted /\ "failed" \notin crossed
                           => IF serverUp
                              THEN /\ Running
                                   /\ "bare" \notin crossed
                                        => controller # Nothing /\ acting = {controller}
                              ELSE \E t \in Launchers : Waiting(t)
    BY DEF BotIsAsWanted, Clean
  <2>1. \A t \in Threads : pc[t] \in {"idle", "done", "wait"}
    BY DEF AtRest, Waiting, At
  <2>2. acting \subseteq {controller}
    BY DEF OneController
  <2>3. ~wanted => ~Running /\ ~peer /\ (acting = {} \/ "late" \in crossed)
    BY <2>1, Kinds DEF Stopped, At
  <2>4. \A t \in Under : t \in Launchers /\ Waiting(t)
    BY <2>1, Kinds DEF Under, Launching, AtRest, At, Waiting
  <2>5. ~At(Unload, "cancel")
    BY <2>1, Kinds DEF At
  <2>6. ASSUME wanted, "failed" \notin crossed, ~serverUp
        PROVE  \E t \in Launchers : Waiting(t)
    <3>1. ~Running
      BY <2>6 DEF Running, Up
    <3> QED BY <2>4, <2>5, <2>6, <3>1 DEF Served
  <2>7. ASSUME wanted, "failed" \notin crossed, serverUp
        PROVE  /\ Running
               /\ "bare" \notin crossed => controller # Nothing /\ acting = {controller}
    <3>1. Under = {}
      BY <2>4, <2>7 DEF Waiting
    <3>2. Running
      BY <2>5, <2>7, <3>1 DEF Served
    <3>3. "bare" \notin crossed => controller # Nothing /\ acting = {controller}
      BY <2>5, <2>7, <3>1 DEF Attended
    <3> QED BY <3>2, <3>3
  <2> QED BY <2>2, <2>3, <2>6, <2>7
<1> QED
  BY <1>1, <1>2, <1>3, PTL DEF ProcSpec


-----------------------------------------------------------------------------
(* The controller: types.                                                  *)

Message  == [role : {"assistant", "tool"}, calls : 0..MaxCalls]
InCycle  == {"ask", "reply", "tools", "run", "close", "keep", "trim", "end"}
Stations == InCycle \cup {"idle", "drain", "dead"}
Fates    == {"new", "open", "over", "dropped"}
Command  == [pc : {"typed", "draining", "putting", "done"}, kept : Seq(Tasks),
             found : BOOLEAN]

BotTypes ==
    /\ queue \in Seq(Tasks) /\ batch \in Seq(Tasks)
    /\ loop \in Stations
    /\ cycleAbort \in BOOLEAN /\ stopping \in BOOLEAN /\ crowded \in BOOLEAN
    /\ hit \in Stations \cup {Unhit}
    /\ fresh \in Seq(Message) /\ conversation \in Seq(Message)
    /\ calls \in 0..MaxCalls /\ (loop = "run" => calls > 0)
    /\ stop \in [Stops -> Command]
    /\ fate \in [Tasks -> Fates]

\* Positions have a least one: the set of those below it is the smallest.
LEMMA LeastPosition ==
    ASSUME NEW n \in Nat, NEW S \in SUBSET (1..n), S # {}
    PROVE  \E m \in S : \A k \in S : m <= k
<1> DEFINE Below(m) == {k \in S : k < m}
           T == {Below(m) : m \in S}
<1>1. IsFiniteSet(S)
  <2>1. IsFiniteSet(1..n)
    BY FS_Interval
  <2> QED BY <2>1, FS_Subset
<1>2. T \subseteq FiniteSubsetsOf(S) /\ T # {}
  <2>1. ASSUME NEW m \in S PROVE Below(m) \in FiniteSubsetsOf(S)
    BY <1>1, FS_Subset DEF FiniteSubsetsOf
  <2> QED BY <2>1
<1>3. PICK x \in T : \A y \in T : <<y, x>> \notin StrictSubsetOrdering(S)
  <2> HIDE DEF T
  <2> QED BY <1>2, WFMin, FS_StrictSubsetOrderingWellFounded
<1>4. PICK m \in S : x = Below(m)
  OBVIOUS
<1>5. ASSUME NEW k \in S, ~(m <= k) PROVE FALSE
  <2>1. k \in Nat /\ m \in Nat
    OBVIOUS
  <2>2. k \in {i \in S : i < m} /\ k \notin {i \in S : i < k}
    BY <1>5, <2>1
  <2>3. \A i \in S : i < k => i < m
    BY <1>5, <2>1
  <2>4. {i \in S : i < k} \subseteq {i \in S : i < m}
    BY <2>3
  <2>5. <<Below(k), Below(m)>> \in StrictSubsetOrdering(S)
    BY <2>2, <2>4 DEF StrictSubsetOrdering
  <2> QED BY <1>3, <1>4, <2>5
<1> QED BY <1>5

\* What a trim leaves is what there was, or its end: from a message that is no
\* tool result, or, if there is none among the newest, all of those.
LEMMA TrimLeavesAnEnd ==
    ASSUME NEW list \in Seq(Message)
    PROVE  /\ Trimmed(list) \in Seq(Message)
           /\ Len(list) <= MaxMessages => Trimmed(list) = list
           /\ Len(list) > MaxMessages =>
                \E d \in 1..Len(list) :
                    /\ d > Len(list) - MaxMessages
                    /\ Len(Trimmed(list)) = Len(list) - d + 1
                    /\ \A i \in 1..(Len(list) - d + 1) : Trimmed(list)[i] = list[d + i - 1]
                    /\ \/ list[d].role # "tool"
                       \/ /\ d = Len(list) - MaxMessages + 1
                          /\ \A i \in d..Len(list) : list[i].role = "tool"
<1>1. MaxMessages \in Nat \ {0}
  BY WindowIsSome
<1>2. CASE Len(list) <= MaxMessages
  BY <1>1, <1>2 DEF Trimmed
<1>3. CASE Len(list) > MaxMessages
  <2> DEFINE b == Len(list) - MaxMessages
             newest == SubSeq(list, b + 1, Len(list))
             starts == {i \in DOMAIN newest : newest[i].role # "tool"}
             c == CHOOSE i \in starts : \A j \in starts : i <= j
  <2>1. b \in Nat /\ b + MaxMessages = Len(list)
    BY <1>1, <1>3
  <2>2. /\ newest \in Seq(Message) /\ Len(newest) = MaxMessages
        /\ \A i \in 1..MaxMessages : newest[i] = list[b + i]
    <3> HIDE DEF b
    <3> QED BY <1>1, <2>1
  <2>3. ~(Len(list) <= MaxMessages)
    BY <1>1, <1>3
  <2>4. CASE starts = {}
    <3>1. Trimmed(list) = newest
      BY <2>3, <2>4 DEF Trimmed
    <3>2. \A i \in 1..MaxMessages : newest[i].role = "tool"
      <4> HIDE DEF newest
      <4> QED BY <2>2, <2>4
    <3>3. ASSUME NEW i \in (b + 1)..Len(list) PROVE list[i].role = "tool"
      <4> HIDE DEF b
      <4>1. i - b \in 1..MaxMessages /\ b + (i - b) = i
        BY <1>1, <2>1
      <4> HIDE DEF newest
      <4> QED BY <2>2, <3>2, <4>1
    <3>4. /\ b + 1 \in 1..Len(list) /\ b + 1 > Len(list) - MaxMessages
          /\ Len(list) - (b + 1) + 1 = MaxMessages
          /\ \A i \in 1..MaxMessages : (b + 1) + i - 1 = b + i
      BY <1>1, <2>1
    <3> HIDE DEF newest, b
    <3>5. /\ Len(newest) = Len(list) - (b + 1) + 1
          /\ \A i \in 1..(Len(list) - (b + 1) + 1) : newest[i] = list[(b + 1) + i - 1]
      BY <2>2, <3>4
    <3>6. b + 1 = Len(list) - MaxMessages + 1
      BY DEF b
    <3> QED BY <1>3, <2>2, <2>3, <3>1, <3>3, <3>4, <3>5, <3>6
  <2>5. CASE starts # {}
    <3>1. Trimmed(list) = SubSeq(newest, c, MaxMessages)
      BY <2>3, <2>5 DEF Trimmed
    <3>2. c \in starts
      <4>1. starts \in SUBSET (1..MaxMessages)
        <5> HIDE DEF newest
        <5> QED BY <2>2
      <4> HIDE DEF starts
      <4> QED BY <1>1, <2>5, <4>1, LeastPosition
    <3>3. c \in 1..MaxMessages /\ newest[c].role # "tool"
      <4> HIDE DEF newest, c
      <4> QED BY <2>2, <3>2
    <3> HIDE DEF newest, c, b
    <3>4. b + c \in 1..Len(list) /\ list[b + c].role # "tool"
      BY <1>1, <2>1, <2>2, <3>3
    <3>5. SubSeq(newest, c, MaxMessages) \in Seq(Message)
      BY <1>1, <2>2, <3>3
    <3>6. /\ Len(SubSeq(newest, c, MaxMessages)) = MaxMessages - c + 1
          /\ \A i \in 1..(MaxMessages - c + 1) :
                SubSeq(newest, c, MaxMessages)[i] = newest[c + i - 1]
      BY <1>1, <2>2, <3>3
    <3>7. \A i \in 1..(MaxMessages - c + 1) : newest[c + i - 1] = list[b + c + i - 1]
      <4> SUFFICES ASSUME NEW i \in 1..(MaxMessages - c + 1)
                   PROVE  newest[c + i - 1] = list[b + c + i - 1]
        OBVIOUS
      <4>1. c + i - 1 \in 1..MaxMessages /\ b + (c + i - 1) = b + c + i - 1
        BY <1>1, <2>1, <3>3
      <4> QED BY <2>2, <4>1
    <3>8. Len(list) - (b + c) + 1 = MaxMessages - c + 1 /\ b + c > Len(list) - MaxMessages
      BY <1>1, <2>1, <3>3
    <3> QED BY <2>3, <3>1, <3>4, <3>5, <3>6, <3>7, <3>8
  <2> QED BY <2>4, <2>5
<1> QED BY <1>1, <1>2, <1>3

-----------------------------------------------------------------------------
(* The conversation.                                                       *)

\* What Intact asks of a message: a reply for a result, or the results of a reply.
Whole(list, i) ==
    /\ list[i].role = "tool" =>
          \E j \in 1..(i - 1) : /\ list[j].role = "assistant"
                                /\ list[j].calls >= i - j
                                /\ \A k \in (j + 1)..i : list[k].role = "tool"
    /\ list[i].role # "tool" =>
          \A k \in 1..list[i].calls : i + k <= Len(list) /\ list[i + k].role = "tool"

LEMMA IntactIsWhole ==
    ASSUME NEW list \in Seq(Message)
    PROVE  Intact(list) <=> \A i \in 1..Len(list) : Whole(list, i)
<1>1. DOMAIN list = 1..Len(list)
  OBVIOUS
<1> QED BY <1>1 DEF Intact, Whole

LEMMA MessageAt ==
    ASSUME NEW list \in Seq(Message), NEW i \in 1..Len(list)
    PROVE  list[i] \in Message /\ list[i].calls \in 0..MaxCalls /\ list[i].calls \in Nat
<1>1. list[i] \in Message
  OBVIOUS
<1>2. list[i].calls \in 0..MaxCalls
  BY <1>1 DEF Message
<1> QED BY <1>1, <1>2, WindowIsSome

\* What whole groups are put behind leaves them whole ...
LEMMA JoinedEnd ==
    ASSUME NEW a \in Seq(Message), NEW b \in Seq(Message), Intact(b)
    PROVE  \A i \in (Len(a) + 1)..Len(a \o b) : Whole(a \o b, i)
<1> DEFINE c == a \o b
<1>1. /\ c \in Seq(Message) /\ Len(c) = Len(a) + Len(b)
      /\ Len(a) \in Nat /\ Len(b) \in Nat
      /\ \A i \in 1..Len(a) : c[i] = a[i]
      /\ \A i \in 1..Len(b) : c[Len(a) + i] = b[i]
  OBVIOUS
<1> HIDE DEF c
<1>2. \A i \in 1..Len(b) : Whole(b, i)
  BY IntactIsWhole
<1> SUFFICES ASSUME NEW i \in (Len(a) + 1)..Len(c) PROVE Whole(c, i)
  BY DEF c
<1>4. i > Len(a)
  BY <1>1
<1> DEFINE n == Len(a)
           h == i - n
<1>5. h \in 1..Len(b) /\ c[i] = b[h] /\ n + h = i
  <2>1. h \in 1..Len(b) /\ n + h = i
    BY <1>1, <1>4
  <2> HIDE DEF h
  <2> QED BY <1>1, <2>1
<1> HIDE DEF h
<1>6. CASE c[i].role = "tool"
  <2>1. PICK j \in 1..(h - 1) : /\ b[j].role = "assistant"
                                /\ b[j].calls >= h - j
                                /\ \A k \in (j + 1)..h : b[k].role = "tool"
    BY <1>2, <1>5, <1>6 DEF Whole
  <2>2. c[n + j] = b[j] /\ n + j \in 1..(i - 1) /\ h - j = i - (n + j)
    BY <1>1, <1>5
  <2>3. ASSUME NEW k \in (n + j + 1)..i PROVE c[k].role = "tool"
    <3>1. k - n \in (j + 1)..h /\ k - n \in 1..Len(b) /\ n + (k - n) = k
      BY <1>1, <1>5
    <3>2. c[n + (k - n)] = b[k - n]
      BY <1>1, <3>1
    <3> QED BY <2>1, <3>1, <3>2
  <2> QED BY <1>6, <2>1, <2>2, <2>3 DEF Whole
<1>7. CASE c[i].role # "tool"
  <2>1. ASSUME NEW k \in 1..c[i].calls PROVE i + k <= Len(c) /\ c[i + k].role = "tool"
    <3>1. h + k <= Len(b) /\ b[h + k].role = "tool"
      <4>1. Whole(b, h) /\ b[h].role # "tool" /\ k \in 1..b[h].calls
        BY <1>2, <1>5, <1>7
      <4> QED BY <4>1 DEF Whole
    <3>2. h + k \in 1..Len(b) /\ i + k = n + (h + k)
      <4>1. b[h].calls \in Nat
        BY <1>5, MessageAt
      <4>2. k \in Nat \ {0}
        BY <1>5, <4>1
      <4>3. h \in Nat \ {0} /\ n \in Nat /\ Len(b) \in Nat
        BY <1>1, <1>5
      <4> HIDE DEF n
      <4> QED BY <1>5, <3>1, <4>2, <4>3
    <3>3. c[n + (h + k)] = b[h + k]
      BY <1>1, <3>2
    <3> QED BY <1>1, <1>5, <3>1, <3>2, <3>3
  <2> QED BY <1>7, <2>1 DEF Whole
<1> QED BY <1>6, <1>7

\* ... and lists of such groups, put together, are one.
LEMMA JoinedIntact ==
    ASSUME NEW a \in Seq(Message), NEW b \in Seq(Message), Intact(a), Intact(b)
    PROVE  Intact(a \o b)
<1> DEFINE c == a \o b
<1>1. /\ c \in Seq(Message) /\ Len(c) = Len(a) + Len(b)
      /\ Len(a) \in Nat /\ Len(b) \in Nat
      /\ \A i \in 1..Len(a) : c[i] = a[i]
      /\ \A i \in 1..Len(b) : c[Len(a) + i] = b[i]
  OBVIOUS
<1> HIDE DEF c
<1>2. \A i \in 1..Len(a) : Whole(a, i)
  BY IntactIsWhole
<1> SUFFICES ASSUME NEW i \in 1..Len(c) PROVE Whole(c, i)
  BY <1>1, IntactIsWhole DEF c
<1>3. CASE i <= Len(a)
  <2>1. c[i] = a[i] /\ i \in 1..Len(a)
    BY <1>1, <1>3
  <2>2. CASE c[i].role = "tool"
    <3>1. PICK j \in 1..(i - 1) : /\ a[j].role = "assistant"
                                  /\ a[j].calls >= i - j
                                  /\ \A k \in (j + 1)..i : a[k].role = "tool"
      BY <1>2, <2>1, <2>2 DEF Whole
    <3>2. c[j] = a[j] /\ \A k \in (j + 1)..i : c[k] = a[k]
      <4>1. j \in 1..Len(a)
        BY <1>1, <2>1
      <4>2. ASSUME NEW k \in (j + 1)..i PROVE k \in 1..Len(a)
        BY <1>1, <2>1
      <4> QED BY <1>1, <4>1, <4>2
    <3> QED BY <2>2, <3>1, <3>2 DEF Whole
  <2>3. CASE c[i].role # "tool"
    <3>1. ASSUME NEW k \in 1..c[i].calls PROVE i + k <= Len(c) /\ c[i + k].role = "tool"
      <4>1. i + k <= Len(a) /\ a[i + k].role = "tool"
        BY <1>2, <2>1, <2>3 DEF Whole
      <4>2. k \in Nat \ {0}
        BY <1>1, <2>1, MessageAt
      <4> QED BY <1>1, <4>1, <4>2
    <3> QED BY <2>3, <3>1 DEF Whole
  <2> QED BY <2>2, <2>3
<1>4. CASE i > Len(a)
  BY <1>1, <1>4, JoinedEnd DEF c
<1> QED BY <1>1, <1>3, <1>4

\* The end of a list that begins with a reply, and whose messages are whole, is
\* whole groups.
LEMMA EndIntact ==
    ASSUME NEW list \in Seq(Message), NEW s \in Seq(Message), NEW d \in 1..Len(list),
           list[d].role # "tool", \A i \in d..Len(list) : Whole(list, i),
           Len(s) = Len(list) - d + 1,
           \A i \in 1..(Len(list) - d + 1) : s[i] = list[d + i - 1]
    PROVE  Intact(s)
<1> DEFINE n == Len(list)
<1>1. n \in Nat
  OBVIOUS
<1>2. /\ \A i \in 1..n : list[i].calls \in Nat
      /\ \A i \in d..n : Whole(list, i)
  BY MessageAt
<1>4. /\ d \in 1..n /\ list[d].role # "tool" /\ Len(s) = n - d + 1 /\ s \in Seq(Message)
      /\ \A i \in 1..(n - d + 1) : s[i] = list[d + i - 1]
  OBVIOUS
<1> HIDE DEF n
<1> SUFFICES ASSUME NEW i \in 1..Len(s) PROVE Whole(s, i)
  BY <1>4, IntactIsWhole
<1> DEFINE h == d + i - 1
<1>5. h \in 1..n /\ s[i] = list[h] /\ h - d + 1 = i /\ h >= d
  BY <1>1, <1>4
<1> HIDE DEF h
<1>6. CASE s[i].role = "tool"
  <2>1. PICK j \in 1..(h - 1) : /\ list[j].role = "assistant"
                                /\ list[j].calls >= h - j
                                /\ \A k \in (j + 1)..h : list[k].role = "tool"
    BY <1>2, <1>5, <1>6 DEF Whole
  <2>2. d \notin (j + 1)..h
    BY <1>4, <2>1
  <2>3. j - d + 1 \in 1..(i - 1) /\ d + (j - d + 1) - 1 = j /\ i - (j - d + 1) = h - j
    BY <1>1, <1>5, <2>2
  <2>4. s[j - d + 1] = list[j]
    <3>1. j - d + 1 \in 1..(n - d + 1)
      BY <1>1, <1>4, <2>3
    <3>2. s[j - d + 1] = list[d + (j - d + 1) - 1]
      BY <1>4, <3>1
    <3> QED BY <2>3, <3>2
  <2>5. ASSUME NEW k \in ((j - d + 1) + 1)..i PROVE s[k].role = "tool"
    <3>1. k \in 1..i /\ i \in 1..(n - d + 1) /\ j - d + 1 \in Nat
      BY <1>4, <2>3, <2>5
    <3>2. k \in 1..(n - d + 1) /\ d + k - 1 \in (j + 1)..h
      BY <1>1, <1>5, <2>3, <2>5, <3>1
    <3>3. s[k] = list[d + k - 1]
      BY <1>4, <3>2
    <3> QED BY <2>1, <3>2, <3>3
  <2> QED BY <1>6, <2>1, <2>3, <2>4, <2>5 DEF Whole
<1>7. CASE s[i].role # "tool"
  <2>1. ASSUME NEW k \in 1..s[i].calls PROVE i + k <= Len(s) /\ s[i + k].role = "tool"
    <3>1. h + k <= n /\ list[h + k].role = "tool"
      <4>1. Whole(list, h) /\ list[h].role # "tool" /\ k \in 1..list[h].calls
        BY <1>2, <1>5, <1>7
      <4> QED BY <4>1 DEF Whole, n
    <3>2. i + k \in 1..(n - d + 1) /\ d + (i + k) - 1 = h + k
      <4>1. k \in Nat \ {0}
        <5>1. list[h].calls \in Nat /\ k \in 1..list[h].calls
          BY <1>2, <1>5
        <5> QED BY <5>1
      <4>2. /\ n \in Nat /\ h \in 1..n /\ d \in 1..n /\ i = h - d + 1 /\ h >= d
            /\ h + k <= n
        BY <1>1, <1>4, <1>5, <3>1
      <4> HIDE DEF n
      <4>3. \A N \in Nat : \A D \in 1..N, H \in 1..N, K \in Nat \ {0} :
               H >= D /\ H + K <= N =>
                 (H - D + 1) + K \in 1..(N - D + 1) /\ D + ((H - D + 1) + K) - 1 = H + K
        OBVIOUS
      <4> QED BY <4>1, <4>2, <4>3
    <3>3. s[i + k] = list[h + k]
      <4>1. s[i + k] = list[d + (i + k) - 1]
        BY <1>4, <3>2
      <4> QED BY <3>2, <4>1
    <3>4. i + k <= Len(s)
      <4>1. i + k \in 1..Len(s)
        BY <1>4, <3>2
      <4> QED BY <1>4, <4>1
    <3> QED BY <3>1, <3>3, <3>4
  <2> QED BY <1>7, <2>1 DEF Whole
<1> QED BY <1>6, <1>7

\* Results that answer nothing in the list, all in front, and whole groups.
Led(list, m) ==
    /\ m \in 0..Len(list) /\ m \in {0, MaxMessages}
    /\ \A i \in 1..m : list[i].role = "tool"
    /\ \A i \in (m + 1)..Len(list) : Whole(list, i)

\* A window of results only.
AllResults(list) == /\ Len(list) = MaxMessages
                    /\ \A i \in 1..Len(list) : list[i].role = "tool"

\* No reply with as many calls as the window has messages.
Small(list) == \A i \in 1..Len(list) : list[i].calls < MaxMessages

LEMMA TrimmedConversation ==
    ASSUME NEW list \in Seq(Message), NEW m \in Nat, Led(list, m)
    PROVE  \/ Intact(Trimmed(list))
           \/ AllResults(Trimmed(list)) /\ (m # 0 \/ ~Small(list))
<1> DEFINE n == Len(list)
           s == Trimmed(list)
<1>1. n \in Nat /\ MaxMessages \in Nat \ {0} /\ s \in Seq(Message)
  BY WindowIsSome, TrimLeavesAnEnd
<1>2. CASE n <= MaxMessages
  <2>1. s = list
    BY <1>2, TrimLeavesAnEnd
  <2>2. CASE m = 0
    <3>1. \A i \in 1..n : Whole(list, i)
      BY <2>2 DEF Led
    <3> QED BY <2>1, <3>1, IntactIsWhole
  <2>3. CASE m = MaxMessages
    <3>1. n = MaxMessages /\ m # 0
      BY <1>1, <1>2, <2>3 DEF Led
    <3> QED BY <2>1, <2>3, <3>1 DEF AllResults, Led
  <2> QED BY <2>2, <2>3 DEF Led
<1>3. CASE n > MaxMessages
  <2> HIDE DEF s
  <2>1. PICK d \in 1..n :
           /\ d > n - MaxMessages
           /\ Len(s) = n - d + 1
           /\ \A i \in 1..(n - d + 1) : s[i] = list[d + i - 1]
           /\ \/ list[d].role # "tool"
              \/ d = n - MaxMessages + 1 /\ \A i \in d..n : list[i].role = "tool"
    BY <1>3, TrimLeavesAnEnd DEF s
  <2>2. CASE list[d].role # "tool"
    <3>1. d \notin 1..m
      BY <2>2 DEF Led
    <3>2. \A i \in d..n : i \in (m + 1)..n
      BY <1>1, <3>1
    <3>3. \A i \in d..n : Whole(list, i)
      BY <3>2 DEF Led
    <3>4. Intact(s)
      BY <1>1, <2>1, <2>2, <3>3, EndIntact
    <3> QED BY <3>4 DEF s
  <2>3. CASE d = n - MaxMessages + 1 /\ \A i \in d..n : list[i].role = "tool"
    <3>1. Len(s) = MaxMessages
      BY <1>1, <2>1, <2>3
    <3>2. ASSUME NEW i \in 1..Len(s) PROVE s[i].role = "tool"
      <4>1. i \in 1..(n - d + 1) /\ d + i - 1 \in d..n
        BY <1>1, <2>1
      <4> QED BY <2>1, <2>3, <4>1
    <3>3. ASSUME m = 0 PROVE ~Small(list)
      <4>1. n \in d..n /\ n \in 1..n /\ n \in (m + 1)..n
        BY <1>1, <3>3
      <4>2. Whole(list, n) /\ list[n].role = "tool"
        BY <2>3, <4>1 DEF Led
      <4>3. PICK j \in 1..(n - 1) : list[j].role = "assistant" /\ list[j].calls >= n - j
        BY <4>2 DEF Whole
      <4>4. j \notin d..n
        BY <2>3, <4>3
      <4>5. n - j >= MaxMessages /\ j \in 1..n
        BY <1>1, <2>3, <4>4
      <4>6. list[j].calls \in Nat
        BY <4>5, MessageAt
      <4>7. ~(list[j].calls < MaxMessages)
        BY <1>1, <4>3, <4>5, <4>6
      <4> QED BY <4>5, <4>7 DEF Small
    <3> QED BY <3>1, <3>2, <3>3 DEF AllResults, s
  <2> QED BY <2>1, <2>2, <2>3
<1> QED BY <1>1, <1>2, <1>3

LEMMA TrimmedSmall ==
    ASSUME NEW list \in Seq(Message)
    PROVE  /\ Len(Trimmed(list)) <= MaxMessages
           /\ Small(list) => Small(Trimmed(list))
<1>1. MaxMessages \in Nat \ {0}
  BY WindowIsSome
<1>2. CASE Len(list) <= MaxMessages
  BY <1>2, TrimLeavesAnEnd
<1>3. CASE Len(list) > MaxMessages
  <2> DEFINE s == Trimmed(list)
  <2>1. PICK d \in 1..Len(list) :
           /\ d > Len(list) - MaxMessages
           /\ Len(s) = Len(list) - d + 1
           /\ \A i \in 1..(Len(list) - d + 1) : s[i] = list[d + i - 1]
    BY <1>3, TrimLeavesAnEnd
  <2> HIDE DEF s
  <2>2. ASSUME Small(list), NEW i \in 1..Len(s) PROVE s[i].calls < MaxMessages
    <3>1. d + i - 1 \in 1..Len(list) /\ i \in 1..(Len(list) - d + 1)
      BY <2>1
    <3> QED BY <2>1, <2>2, <3>1 DEF Small
  <2>3. Len(s) <= MaxMessages
    BY <1>1, <2>1
  <2> QED BY <2>2, <2>3 DEF Small, s
<1> QED BY <1>1, <1>2, <1>3

LEMMA BotTypesKept ==
    ASSUME BotTypes, [BotNext]_botVars
    PROVE  BotTypes'
<1> USE DEF Becomes, Forget
<1>1. ASSUME NEW t \in Tasks, Delegate(t) PROVE BotTypes'
  BY <1>1 DEF Delegate, BotTypes, Fates
<1>2. ASSUME Wake PROVE BotTypes'
  BY <1>2 DEF Wake, BotTypes, Stations, InCycle
<1>3. ASSUME Drain PROVE BotTypes'
  <2>1. Append(batch, Head(queue)) \in Seq(Tasks) /\ Tail(queue) \in Seq(Tasks)
    BY <1>3 DEF Drain, BotTypes
  <2> QED BY <1>3, <2>1 DEF Drain, BotTypes
<1>4. ASSUME OpenCycle PROVE BotTypes'
  <2>1. cycleAbort' \in BOOLEAN
    BY <1>4 DEF OpenCycle
  <2> QED BY <1>4, <2>1 DEF OpenCycle, BotTypes, Stations, InCycle
<1>5. ASSUME AskModel PROVE BotTypes'
  BY <1>5 DEF AskModel, BotTypes, Stations, InCycle
<1>6. ASSUME Answered PROVE BotTypes'
  <2>1. \A n \in 0..MaxCalls : Append(fresh, Reply(n)) \in Seq(Message)
    <3>1. \A n \in 0..MaxCalls : Reply(n) \in Message
      BY DEF Reply, Message
    <3> QED BY <3>1 DEF BotTypes
  <2>2. fresh' \in Seq(Message) /\ calls' \in 0..MaxCalls
    BY <1>6, <2>1 DEF Answered, BotTypes
  <2>3. crowded' \in BOOLEAN
    BY <1>6 DEF Answered, BotTypes
  <2>4. loop' \in Stations /\ loop' # "run"
    BY <1>6 DEF Answered, Stations, InCycle
  <2>5. UNCHANGED <<queue, batch, cycleAbort, stopping, hit, conversation, stop, fate>>
    BY <1>6 DEF Answered
  <2> QED BY <2>2, <2>3, <2>4, <2>5 DEF BotTypes
<1>7. ASSUME BeginTool PROVE BotTypes'
  BY <1>7 DEF BeginTool, BotTypes, Stations, InCycle
<1>8. ASSUME RunTool PROVE BotTypes'
  <2>1. fresh' \in Seq(Message) /\ calls' \in 0..MaxCalls
    <3>1. calls \in 1..MaxCalls
      BY <1>8, WindowIsSome DEF RunTool, BotTypes
    <3>2. calls' \in 0..MaxCalls
      BY <1>8, <3>1, WindowIsSome DEF RunTool
    <3>3. Tool \in Message
      BY WindowIsSome DEF Tool, Message
    <3>4. fresh' = Append(fresh, Tool)
      BY <1>8 DEF RunTool
    <3> HIDE DEF Tool
    <3> QED BY <3>2, <3>3, <3>4 DEF BotTypes
  <2> QED BY <1>8, <2>1 DEF RunTool, BotTypes, Stations, InCycle
<1>9. ASSUME ToolsOver PROVE BotTypes'
  BY <1>9, WindowIsSome DEF ToolsOver, BotTypes, Stations, InCycle
<1>10. ASSUME CloseCycle PROVE BotTypes'
  BY <1>10 DEF CloseCycle, BotTypes, Stations, InCycle
<1>11. ASSUME KeepFresh PROVE BotTypes'
  <2>1. conversation' \in Seq(Message)
    BY <1>11 DEF KeepFresh, BotTypes
  <2> QED BY <1>11, <2>1 DEF KeepFresh, BotTypes, Stations, InCycle
<1>12. ASSUME TrimConversation PROVE BotTypes'
  <2>1. conversation' \in Seq(Message)
    BY <1>12, TrimLeavesAnEnd DEF TrimConversation, BotTypes
  <2> QED BY <1>12, <2>1 DEF TrimConversation, BotTypes, Stations, InCycle
<1>13. ASSUME EndCycle PROVE BotTypes'
  <2>1. fate' \in [Tasks -> Fates]
    BY <1>13 DEF EndCycle, BotTypes, Fates
  <2>2. cycleAbort' \in BOOLEAN /\ hit' = Unhit
    BY <1>13 DEF EndCycle
  <2>3. calls' \in 0..MaxCalls
    BY <1>13, WindowIsSome DEF EndCycle
  <2> QED BY <1>13, <2>1, <2>2, <2>3 DEF EndCycle, BotTypes, Stations
<1>14. ASSUME StopController PROVE BotTypes'
  <2>1. cycleAbort' \in BOOLEAN /\ stopping' \in BOOLEAN
    BY <1>14 DEF StopController
  <2> QED BY <1>14, <2>1 DEF StopController, BotTypes
<1>15. ASSUME ForceAbort PROVE BotTypes'
  <2>1. fate' \in [Tasks -> Fates]
    BY <1>15 DEF ForceAbort, BotTypes, Fates
  <2>2. cycleAbort' \in BOOLEAN /\ hit' = Unhit
    BY <1>15 DEF ForceAbort
  <2>3. calls' \in 0..MaxCalls
    BY <1>15, WindowIsSome DEF ForceAbort
  <2> QED BY <1>15, <2>1, <2>2, <2>3 DEF ForceAbort, BotTypes, Stations
<1>16. ASSUME NEW s \in Stops, StopTakesOne(s) PROVE BotTypes'
  <2>1. queue' \in Seq(Tasks) /\ Head(queue) \in Tasks
    BY <1>16 DEF StopTakesOne, BotTypes
  <2>2. stop'[s] \in Command /\ stop' = [stop EXCEPT ![s] = stop'[s]]
    <3>1. stop[s] \in Command
      BY DEF BotTypes
    <3>2. (stop[s].found \/ PlayerOf[Head(queue)] = PlayerOf[s]) \in BOOLEAN
      BY <3>1 DEF Command
    <3>3. Append(stop[s].kept, Head(queue)) \in Seq(Tasks)
      BY <2>1, <3>1 DEF Command
    <3> DEFINE f == stop[s].found \/ PlayerOf[Head(queue)] = PlayerOf[s]
    <3>4. f \in BOOLEAN
      BY <3>2
    <3>5. stop' = [stop EXCEPT ![s] = [stop[s] EXCEPT !.pc = "draining",
                      !.kept = IF PlayerOf[Head(queue)] = PlayerOf[s] THEN @
                               ELSE Append(@, Head(queue)),
                      !.found = f]]
      BY <1>16 DEF StopTakesOne
    <3> HIDE DEF f
    <3> QED BY <3>1, <3>3, <3>4, <3>5 DEF Command, BotTypes
  <2>3. fate' \in [Tasks -> Fates]
    BY <1>16, <2>1 DEF StopTakesOne, BotTypes, Fates
  <2> QED BY <1>16, <2>1, <2>2, <2>3 DEF StopTakesOne, BotTypes
<1>17. ASSUME NEW s \in Stops, StopHasDrained(s) PROVE BotTypes'
  <2>1. stop' \in [Stops -> Command]
    BY <1>17 DEF StopHasDrained, BotTypes, Command
  <2> QED BY <1>17, <2>1 DEF StopHasDrained, BotTypes
<1>18. ASSUME NEW s \in Stops, StopPutsBack(s) PROVE BotTypes'
  <2>1. stop[s].kept \in Seq(Tasks) /\ stop[s].kept # << >>
    BY <1>18 DEF StopPutsBack, BotTypes, Command
  <2>2. Head(stop[s].kept) \in Tasks /\ Tail(stop[s].kept) \in Seq(Tasks)
    BY <2>1
  <2>3. stop' \in [Stops -> Command]
    BY <1>18, <2>2 DEF StopPutsBack, BotTypes, Command
  <2>4. queue' \in Seq(Tasks)
    BY <1>18, <2>2 DEF StopPutsBack, BotTypes
  <2> QED BY <1>18, <2>3, <2>4 DEF StopPutsBack, BotTypes
<1>19. ASSUME NEW s \in Stops, StopLooks(s) PROVE BotTypes'
  <2> DEFINE running == PlayerOf[s] \in cycleUsers
             f == stop[s].found \/ running
  <2>1. stop[s] \in Command /\ f \in BOOLEAN
    BY DEF BotTypes, Command
  <2>2. stop' = [stop EXCEPT ![s] = [stop[s] EXCEPT !.pc = "done", !.found = f]]
    BY <1>19 DEF StopLooks
  <2>3. cycleAbort' \in BOOLEAN
    BY <1>19 DEF StopLooks, BotTypes
  <2>4. hit' \in Stations \cup {Unhit}
    BY <1>19 DEF StopLooks, BotTypes
  <2>5. stop' \in [Stops -> Command]
    <3> HIDE DEF f
    <3> QED BY <2>1, <2>2 DEF BotTypes, Command
  <2> QED BY <1>19, <2>3, <2>4, <2>5 DEF StopLooks, BotTypes
<1>20. CASE UNCHANGED botVars
  BY <1>20 DEF botVars, BotTypes, Stations
<1> QED
  BY <1>1, <1>2, <1>3, <1>4, <1>5, <1>6, <1>7, <1>8, <1>9, <1>10, <1>11,
     <1>12, <1>13, <1>14, <1>15, <1>16, <1>17, <1>18, <1>19, <1>20 DEF BotNext

\* A stop has found its player in the cycle: the flag is up until the cycle ends,
\* and if it was up before the last look at it, the cycle does not come to put its
\* messages into the conversation, which is no longer than the last trim left it.
HitInTime == hit \notin {Unhit, "keep", "trim"}

HitInCycle ==
    /\ cycleUsers # {} => loop \in InCycle
    /\ hit # Unhit => cycleAbort /\ loop \in InCycle
    /\ HitInTime => loop # "keep"
    /\ loop \notin {"trim", "dead"} => Len(conversation) <= MaxMessages
    /\ HitInTime /\ loop = "trim" => Len(conversation) <= MaxMessages

LEMMA HitInCycleKept ==
    ASSUME BotTypes, HitInCycle, [BotNext]_botVars
    PROVE  HitInCycle'
<1> USE DEF Becomes, Forget
<1>1. ASSUME NEW t \in Tasks, Delegate(t) PROVE HitInCycle'
  BY <1>1 DEF Delegate, HitInCycle, HitInTime, InCycle, Unhit
<1>2. ASSUME Wake PROVE HitInCycle'
  BY <1>2 DEF Wake, HitInCycle, HitInTime, InCycle, Unhit
<1>3. ASSUME Drain PROVE HitInCycle'
  BY <1>3 DEF Drain, HitInCycle, HitInTime, InCycle, Unhit
<1>4. ASSUME OpenCycle PROVE HitInCycle'
  BY <1>4 DEF OpenCycle, HitInCycle, HitInTime, InCycle, Unhit
<1>5. ASSUME AskModel PROVE HitInCycle'
  BY <1>5 DEF AskModel, HitInCycle, HitInTime, InCycle, Unhit
<1>6. ASSUME Answered PROVE HitInCycle'
  BY <1>6 DEF Answered, HitInCycle, HitInTime, InCycle, Unhit
<1>7. ASSUME BeginTool PROVE HitInCycle'
  BY <1>7 DEF BeginTool, HitInCycle, HitInTime, InCycle, Unhit
<1>8. ASSUME RunTool PROVE HitInCycle'
  BY <1>8 DEF RunTool, HitInCycle, HitInTime, InCycle, Unhit
<1>9. ASSUME ToolsOver PROVE HitInCycle'
  BY <1>9 DEF ToolsOver, HitInCycle, HitInTime, InCycle, Unhit
<1>10. ASSUME CloseCycle PROVE HitInCycle'
  BY <1>10 DEF CloseCycle, HitInCycle, HitInTime, InCycle, Unhit
<1>11. ASSUME KeepFresh PROVE HitInCycle'
  BY <1>11 DEF KeepFresh, HitInCycle, HitInTime, InCycle, Unhit
<1>12. ASSUME TrimConversation PROVE HitInCycle'
  <2>1. Len(conversation') <= MaxMessages
    BY <1>12, TrimmedSmall DEF TrimConversation, BotTypes
  <2> QED BY <1>12, <2>1 DEF TrimConversation, HitInCycle, HitInTime, InCycle, Unhit
<1>13. ASSUME EndCycle PROVE HitInCycle'
  BY <1>13 DEF EndCycle, HitInCycle, HitInTime, InCycle, Unhit
<1>14. ASSUME StopController PROVE HitInCycle'
  BY <1>14 DEF StopController, HitInCycle, HitInTime, InCycle, Unhit
<1>15. ASSUME ForceAbort PROVE HitInCycle'
  BY <1>15 DEF ForceAbort, HitInCycle, HitInTime, InCycle, Unhit
<1>16. ASSUME NEW s \in Stops, StopTakesOne(s) PROVE HitInCycle'
  BY <1>16 DEF StopTakesOne, HitInCycle, HitInTime, InCycle, Unhit
<1>17. ASSUME NEW s \in Stops, StopHasDrained(s) PROVE HitInCycle'
  BY <1>17 DEF StopHasDrained, HitInCycle, HitInTime, InCycle, Unhit
<1>18. ASSUME NEW s \in Stops, StopPutsBack(s) PROVE HitInCycle'
  BY <1>18 DEF StopPutsBack, HitInCycle, HitInTime, InCycle, Unhit
<1>19. ASSUME NEW s \in Stops, StopLooks(s) PROVE HitInCycle'
  BY <1>19 DEF StopLooks, HitInCycle, HitInTime, InCycle, Unhit
<1>20. CASE UNCHANGED botVars
  BY <1>20 DEF botVars, HitInCycle, HitInTime
<1> QED
  BY <1>1, <1>2, <1>3, <1>4, <1>5, <1>6, <1>7, <1>8, <1>9, <1>10, <1>11,
     <1>12, <1>13, <1>14, <1>15, <1>16, <1>17, <1>18, <1>19, <1>20 DEF BotNext

LEMMA NothingAfterAHit ==
    ASSUME BotTypes, HitInCycle, hit # Unhit, [BotNext]_botVars
    PROVE  /\ loop' # loop => loop' \notin {"reply", "run", "keep"}
           /\ \A i \in DOMAIN fresh' : i > Len(fresh) /\ fresh'[i].role = "tool" => loop = "run"
           /\ hit \notin {"keep", "trim"} => conversation' = conversation
<1> DEFINE Steps == loop' # loop => loop' \notin {"reply", "run", "keep"}
           Adds  == \A i \in DOMAIN fresh' :
                       i > Len(fresh) /\ fresh'[i].role = "tool" => loop = "run"
           Keeps == hit \notin {"keep", "trim"} => conversation' = conversation
           Goal  == Steps /\ Adds /\ Keeps
<1>0. /\ cycleAbort /\ loop \in InCycle
      /\ fresh' = fresh => Adds
  <2>1. \A i \in DOMAIN fresh : ~(i > Len(fresh))
    BY DEF BotTypes
  <2> QED BY <2>1 DEF HitInCycle
<1> USE DEF Becomes, Forget
<1>1. ASSUME NEW t \in Tasks, Delegate(t) PROVE Goal
  BY <1>1, <1>0 DEF Delegate, InCycle
<1>2. ASSUME Wake PROVE Goal
  BY <1>2, <1>0 DEF Wake, InCycle
<1>3. ASSUME Drain PROVE Goal
  BY <1>3, <1>0 DEF Drain, InCycle
<1>4. ASSUME OpenCycle PROVE Goal
  BY <1>4, <1>0 DEF OpenCycle, InCycle
<1>5. ASSUME AskModel PROVE Goal
  BY <1>5, <1>0 DEF AskModel, InCycle
<1>6. ASSUME Answered PROVE Goal
  <2>1. ASSUME NEW n \in 0..MaxCalls, fresh' = Append(fresh, Reply(n)) PROVE Adds
    <3>1. fresh \in Seq(Message) /\ Reply(n) \in Message
      BY DEF BotTypes, Reply, Message
    <3>2. \A i \in DOMAIN fresh' : i > Len(fresh) => fresh'[i] = Reply(n)
      <4> HIDE DEF Reply
      <4> QED BY <2>1, <3>1
    <3> QED BY <3>2 DEF Reply
  <2>2. Adds
    <3> HIDE DEF Adds
    <3> QED BY <1>6, <1>0, <2>1 DEF Answered
  <2>3. Steps /\ Keeps
    BY <1>6 DEF Answered
  <2> QED BY <2>2, <2>3
<1>7. ASSUME BeginTool PROVE Goal
  BY <1>7, <1>0 DEF BeginTool, InCycle
<1>8. ASSUME RunTool PROVE Goal
  BY <1>8 DEF RunTool
<1>9. ASSUME ToolsOver PROVE Goal
  BY <1>9, <1>0 DEF ToolsOver, InCycle
<1>10. ASSUME CloseCycle PROVE Goal
  BY <1>10, <1>0 DEF CloseCycle, InCycle
<1>11. ASSUME KeepFresh PROVE Goal
  BY <1>11, <1>0 DEF KeepFresh, HitInCycle, HitInTime
<1>12. ASSUME TrimConversation PROVE Goal
  <2>1. hit \notin {"keep", "trim"} => Len(conversation) <= MaxMessages
    BY <1>12 DEF TrimConversation, HitInCycle, HitInTime
  <2>2. Keeps
    BY <1>12, <2>1, TrimLeavesAnEnd DEF TrimConversation, BotTypes
  <2>3. Steps /\ fresh' = fresh
    BY <1>12 DEF TrimConversation
  <2> QED BY <1>0, <2>2, <2>3
<1>13. ASSUME EndCycle PROVE Goal
  <2>1. \A i \in DOMAIN fresh' : FALSE
    BY <1>13 DEF EndCycle
  <2> QED BY <1>13, <2>1 DEF EndCycle
<1>14. ASSUME StopController PROVE Goal
  BY <1>14, <1>0 DEF StopController, InCycle
<1>15. ASSUME ForceAbort PROVE Goal
  <2>1. \A i \in DOMAIN fresh' : FALSE
    BY <1>15 DEF ForceAbort
  <2> QED BY <1>15, <2>1 DEF ForceAbort
<1>16. ASSUME NEW s \in Stops, StopTakesOne(s) PROVE Goal
  BY <1>16, <1>0 DEF StopTakesOne, InCycle
<1>17. ASSUME NEW s \in Stops, StopHasDrained(s) PROVE Goal
  BY <1>17, <1>0 DEF StopHasDrained, InCycle
<1>18. ASSUME NEW s \in Stops, StopPutsBack(s) PROVE Goal
  BY <1>18, <1>0 DEF StopPutsBack, InCycle
<1>19. ASSUME NEW s \in Stops, StopLooks(s) PROVE Goal
  BY <1>19, <1>0 DEF StopLooks, InCycle
<1>20. CASE UNCHANGED botVars
  BY <1>0, <1>20 DEF botVars
<1> QED
  BY <1>1, <1>2, <1>3, <1>4, <1>5, <1>6, <1>7, <1>8, <1>9, <1>10, <1>11,
     <1>12, <1>13, <1>14, <1>15, <1>16, <1>17, <1>18, <1>19, <1>20 DEF BotNext

LEMMA BotStarts ==
    ASSUME BotInit
    PROVE  BotTypes
<1>1. cycleAbort \in BOOLEAN /\ stopping \in BOOLEAN /\ crowded \in BOOLEAN
  BY DEF BotInit
<1>2. calls \in 0..MaxCalls
  BY WindowIsSome DEF BotInit
<1>3. stop \in [Stops -> Command]
  BY DEF BotInit, Command
<1> QED BY <1>1, <1>2, <1>3 DEF BotInit, BotTypes, Stations, Fates

\* A cycle that a stop has hit asks nothing more, begins no further tool, and leaves
\* nothing in the conversation unless it had passed its last look at the flag,
\* whatever other stops and delegations come, and also when the controller is ended
\* by force.
THEOREM HitCycleLeavesNothing == BotSpec => StoppedCycleLeavesNothing
<1>1. BotInit => BotTypes /\ HitInCycle
  <2> SUFFICES ASSUME BotInit PROVE HitInCycle
    BY BotStarts
  <2>1. Len(<< >>) <= MaxMessages
    BY WindowIsSome
  <2> QED BY <2>1 DEF BotInit, HitInCycle, HitInTime, Unhit
<1>2. BotTypes /\ HitInCycle /\ [BotNext]_botVars => (BotTypes /\ HitInCycle)'
  BY BotTypesKept, HitInCycleKept
<1>3. BotTypes /\ HitInCycle /\ [BotNext]_botVars
      => [hit # Unhit =>
            /\ loop' # loop => loop' \notin {"reply", "run", "keep"}
            /\ \A i \in DOMAIN fresh' : i > Len(fresh) /\ fresh'[i].role = "tool"
                                           => loop = "run"
            /\ hit \notin {"keep", "trim"} => conversation' = conversation]_botVars
  BY NothingAfterAHit
<1> QED
  BY <1>1, <1>2, <1>3, PTL DEF BotSpec, StoppedCycleLeavesNothing

-----------------------------------------------------------------------------
(* What the cycle adds, with the results that are still to come, is whole    *)
(* groups as long as no stop was seen.                                       *)

Results(n) == [k \in 1..n |-> Tool]

\* What may stand between two cycles, and what the trim may find.
Usable == Intact(conversation) \/ (crowded /\ AllResults(conversation))
Leads  == \E m \in Nat : Led(conversation, m) /\ (m # 0 => crowded)

WholeSoFar ==
    /\ ~cycleAbort \/ loop = "keep" => Intact(fresh \o Results(calls))
    /\ loop \notin {"tools", "run"} => calls = 0
    /\ loop \in {"idle", "drain", "dead"} => fresh = << >>
    /\ loop \notin {"trim", "dead"} => Usable
    /\ loop = "trim" => Leads
    /\ ~crowded => Small(conversation) /\ Small(fresh)

LEMMA ResultsAreMessages ==
    ASSUME NEW n \in 0..MaxCalls
    PROVE  /\ Results(n) \in Seq(Message) /\ Len(Results(n)) = n
           /\ \A k \in 1..n : Results(n)[k].role = "tool"
<1>1. n \in Nat
  BY WindowIsSome
<1>2. Tool \in Message
  BY WindowIsSome DEF Tool, Message
<1>3. Results(n) \in Seq(Message) /\ Len(Results(n)) = n
  <2> HIDE DEF Tool
  <2> QED BY <1>1, <1>2, IsASeq DEF Results
<1> QED BY <1>3 DEF Results, Tool

\* A reply and the results it asks for are a whole group.
LEMMA GroupIntact ==
    ASSUME NEW n \in 0..MaxCalls
    PROVE  Reply(n) \in Message /\ Intact(<<Reply(n)>> \o Results(n))
<1> DEFINE r == Reply(n)
           g == <<r>> \o Results(n)
<1>1. r \in Message /\ r.role = "assistant" /\ r.calls = n /\ n \in Nat
  BY WindowIsSome DEF Reply, Message
<1> HIDE DEF r
<1>2. /\ g \in Seq(Message) /\ Len(g) = n + 1 /\ g[1] = r
      /\ \A k \in 1..n : g[1 + k].role = "tool"
  <2>1. <<r>> \in Seq(Message) /\ Len(<<r>>) = 1 /\ <<r>>[1] = r
    BY <1>1
  <2>2. /\ g \in Seq(Message) /\ Len(g) = 1 + n
        /\ g[1] = <<r>>[1]
        /\ \A k \in 1..n : g[1 + k] = Results(n)[k]
    BY <1>1, <2>1, ResultsAreMessages
  <2>3. \A k \in 1..n : g[1 + k].role = "tool"
    <3>1. \A k \in 1..n : Results(n)[k].role = "tool"
      BY ResultsAreMessages
    <3> HIDE DEF g
    <3> QED BY <2>2, <3>1
  <2>4. Len(g) = n + 1
    <3> HIDE DEF g
    <3> QED BY <1>1, <2>2
  <2> HIDE DEF g
  <2> QED BY <2>1, <2>2, <2>3, <2>4
<1>3. ASSUME NEW i \in 1..Len(g) PROVE Whole(g, i)
  <2> HIDE DEF g
  <2>1. CASE i = 1
    BY <1>1, <1>2, <2>1 DEF Whole
  <2>2. CASE i # 1
    <3>1. \A k \in 2..i : g[k].role = "tool"
      <4> SUFFICES ASSUME NEW k \in 2..i PROVE g[k].role = "tool"
        OBVIOUS
      <4>1. k - 1 \in 1..n /\ 1 + (k - 1) = k
        BY <1>1, <1>2
      <4> QED BY <1>2, <4>1
    <3>2. 1 \in 1..(i - 1) /\ i \in 2..i /\ n >= i - 1
      BY <1>1, <1>2, <2>2
    <3> QED BY <1>1, <1>2, <3>1, <3>2 DEF Whole
  <2> QED BY <2>1, <2>2
<1>4. Intact(g)
  <2> HIDE DEF g
  <2> QED BY <1>2, <1>3, IntactIsWhole
<1> QED BY <1>1, <1>4 DEF r

\* One result more, one result fewer to come.
LEMMA OneResultFewer ==
    ASSUME NEW n \in 1..MaxCalls, NEW list \in Seq(Message)
    PROVE  Append(list, Tool) \o Results(n - 1) = list \o Results(n)
<1>1. n - 1 \in 0..MaxCalls /\ n \in 0..MaxCalls /\ n \in Nat
  BY WindowIsSome
<1>2. Tool \in Message
  BY WindowIsSome DEF Tool, Message
<1>3. <<Tool>> \in Seq(Message) /\ Results(n - 1) \in Seq(Message) /\ Results(n) \in Seq(Message)
  BY <1>1, <1>2, ResultsAreMessages
<1> DEFINE t == Tool
<1>4. <<t>> \o Results(n - 1) = Results(n)
  <2>1. /\ Len(Results(n - 1)) = n - 1 /\ Len(Results(n)) = n
        /\ \A k \in 1..(n - 1) : Results(n - 1)[k] = t
        /\ \A k \in 1..n : Results(n)[k] = t
    BY <1>1, ResultsAreMessages DEF Results
  <2> HIDE DEF t
  <2>2. <<t>> \in Seq(Message)
    BY <1>3 DEF t
  <2>3. /\ <<t>> \o Results(n - 1) \in Seq(Message)
        /\ Len(<<t>> \o Results(n - 1)) = n
        /\ \A k \in 1..n : (<<t>> \o Results(n - 1))[k] = t
    BY <1>1, <1>3, <2>1, <2>2
  <2> QED BY <1>3, <2>1, <2>3, SeqEqual
<1>5. Append(list, Tool) = list \o <<Tool>>
  BY <1>2, AppendIsConcat
<1>6. (list \o <<Tool>>) \o Results(n - 1) = list \o (<<Tool>> \o Results(n - 1))
  <2> HIDE DEF t
  <2> QED BY <1>3, ConcatAssociative
<1> QED BY <1>4, <1>5, <1>6

LEMMA NoResults ==
    /\ \A list \in Seq(Message) : list \o Results(0) = list
    /\ Intact(<< >> \o Results(0))
<1>1. Results(0) \in Seq(Message) /\ Len(Results(0)) = 0
  BY ResultsAreMessages, WindowIsSome
<1>2. Results(0) = << >>
  BY <1>1, EmptySeq
<1>3. \A list \in Seq(Message) : list \o << >> = list
  BY ConcatEmptySeq
<1>4. Intact(<< >>)
  BY DEF Intact
<1>5. << >> \o << >> = << >>
  BY <1>3, EmptySeq
<1> QED BY <1>2, <1>3, <1>4, <1>5

\* Groups behind whole groups, or behind a window of results.
LEMMA UsableLeads ==
    ASSUME BotTypes, Usable, NEW b \in Seq(Message), Intact(b)
    PROVE  \E m \in Nat : Led(conversation \o b, m) /\ (m # 0 => crowded)
<1> DEFINE c == conversation \o b
           n == Len(conversation)
<1>1. /\ conversation \in Seq(Message) /\ c \in Seq(Message)
      /\ n \in Nat /\ Len(b) \in Nat /\ Len(c) = n + Len(b)
      /\ \A i \in 1..n : c[i] = conversation[i]
      /\ MaxMessages \in Nat
  BY WindowIsSome DEF BotTypes
<1>2. CASE Intact(conversation)
  <2>1. Intact(c)
    BY <1>1, <1>2, JoinedIntact
  <2> HIDE DEF c
  <2>2. \A i \in 1..Len(c) : Whole(c, i)
    BY <1>1, <2>1, IntactIsWhole
  <2>3. Led(c, 0)
    BY <1>1, <2>2 DEF Led
  <2> QED BY <2>3 DEF c
<1>3. CASE crowded /\ AllResults(conversation)
  <2>1. n = MaxMessages /\ \A i \in 1..n : conversation[i].role = "tool"
    BY <1>3 DEF AllResults
  <2>2. \A i \in (n + 1)..Len(c) : Whole(c, i)
    BY <1>1, JoinedEnd
  <2> HIDE DEF c, n
  <2>3. Led(c, n)
    BY <1>1, <2>1, <2>2 DEF Led
  <2> QED BY <1>1, <1>3, <2>3 DEF c
<1> QED BY <1>2, <1>3 DEF Usable

LEMMA SmallJoined ==
    ASSUME NEW a \in Seq(Message), NEW b \in Seq(Message), Small(a), Small(b)
    PROVE  Small(a \o b)
<1> DEFINE c == a \o b
<1>1. /\ Len(c) = Len(a) + Len(b) /\ Len(a) \in Nat /\ Len(b) \in Nat
      /\ \A i \in 1..Len(a) : c[i] = a[i]
      /\ \A i \in 1..Len(b) : c[Len(a) + i] = b[i]
  OBVIOUS
<1> HIDE DEF c
<1> SUFFICES ASSUME NEW i \in 1..Len(c) PROVE c[i].calls < MaxMessages
  BY DEF Small, c
<1>2. CASE i <= Len(a)
  BY <1>1, <1>2 DEF Small
<1>3. CASE i > Len(a)
  <2>1. i - Len(a) \in 1..Len(b) /\ Len(a) + (i - Len(a)) = i
    BY <1>1, <1>3
  <2>2. c[i] = b[i - Len(a)]
    BY <1>1, <2>1
  <2> QED BY <2>1, <2>2 DEF Small
<1> QED BY <1>1, <1>2, <1>3

LEMMA SmallMore ==
    ASSUME NEW list \in Seq(Message), NEW m \in Message, Small(list), m.calls < MaxMessages
    PROVE  Small(Append(list, m))
<1>1. /\ Len(Append(list, m)) = Len(list) + 1 /\ Len(list) \in Nat
      /\ \A i \in 1..Len(list) : Append(list, m)[i] = list[i]
      /\ Append(list, m)[Len(list) + 1] = m
  OBVIOUS
<1>2. ASSUME NEW i \in 1..(Len(list) + 1) PROVE Append(list, m)[i].calls < MaxMessages
  <2>1. CASE i \in 1..Len(list)
    BY <1>1, <2>1 DEF Small
  <2>2. CASE i = Len(list) + 1
    BY <1>1, <2>2
  <2> QED BY <1>1, <2>1, <2>2
<1> QED BY <1>1, <1>2 DEF Small

LEMMA WholeSoFarKept ==
    ASSUME BotTypes, WholeSoFar, [BotNext]_botVars
    PROVE  WholeSoFar'
<1> USE DEF Becomes, Forget
<1>1. ASSUME NEW t \in Tasks, Delegate(t) PROVE WholeSoFar'
  BY <1>1 DEF Delegate, WholeSoFar, Usable, Leads
<1>2. ASSUME Wake PROVE WholeSoFar'
  BY <1>2 DEF Wake, WholeSoFar, Usable, Leads
<1>3. ASSUME Drain PROVE WholeSoFar'
  BY <1>3 DEF Drain, WholeSoFar, Usable, Leads
<1>4. ASSUME OpenCycle PROVE WholeSoFar'
  <2>1. Intact(<< >> \o Results(0))
    BY NoResults
  <2> QED BY <1>4, <2>1 DEF OpenCycle, WholeSoFar, Usable, Leads
<1>5. ASSUME AskModel PROVE WholeSoFar'
  BY <1>5 DEF AskModel, WholeSoFar, Usable, Leads
<1>6. ASSUME Answered PROVE WholeSoFar'
  <2>1. CASE loop' = "close" /\ UNCHANGED <<fresh, calls, replies, crowded>>
    BY <1>6, <2>1 DEF Answered, WholeSoFar, Usable, Leads
  <2>2. ASSUME NEW n \in 0..MaxCalls, fresh' = Append(fresh, Reply(n)), calls' = n,
               crowded' = (crowded \/ n >= MaxMessages),
               loop' = IF n = 0 THEN "close" ELSE "tools"
        PROVE  WholeSoFar'
    <3>1. /\ loop = "reply" /\ conversation' = conversation /\ cycleAbort' = cycleAbort
      BY <1>6 DEF Answered
    <3>2. fresh \in Seq(Message) /\ <<Reply(n)>> \in Seq(Message) /\ Results(n) \in Seq(Message)
      <4>1. Reply(n) \in Message
        BY GroupIntact
      <4>2. <<Reply(n)>> \in Seq(Message)
        <5> HIDE DEF Reply
        <5> QED BY <4>1
      <4> QED BY <4>2, ResultsAreMessages DEF BotTypes
    <3>3. fresh' \o Results(n) = fresh \o (<<Reply(n)>> \o Results(n))
      BY <2>2, <3>2, GroupIntact, AppendIsConcat, ConcatAssociative
    <3>4. ~cycleAbort => Intact(fresh)
      BY <3>1, <3>2, NoResults DEF WholeSoFar
    <3>5. <<Reply(n)>> \o Results(n) \in Seq(Message)
      BY <3>2, ConcatProperties
    <3>6. ~cycleAbort' => Intact(fresh' \o Results(calls'))
      BY <2>2, <3>1, <3>2, <3>3, <3>4, <3>5, GroupIntact, JoinedIntact
    <3>7. ~crowded' => Small(conversation') /\ Small(fresh')
      <4> SUFFICES ASSUME ~crowded' PROVE Small(conversation) /\ Small(fresh')
        BY <3>1
      <4>1. ~crowded /\ n < MaxMessages
        <5>1. ~crowded /\ ~(n >= MaxMessages)
          BY <2>2
        <5> QED BY <5>1, WindowIsSome
      <4>2. Reply(n).calls = n /\ Reply(n) \in Message
        BY GroupIntact DEF Reply
      <4>3. Small(conversation) /\ Small(fresh)
        BY <4>1 DEF WholeSoFar
      <4> QED BY <2>2, <3>2, <4>1, <4>2, <4>3, SmallMore
    <3>8. Usable'
      <4>1. Usable
        BY <3>1 DEF WholeSoFar
      <4>2. crowded => crowded'
        BY <2>2
      <4> QED BY <3>1, <4>1, <4>2 DEF Usable, AllResults
    <3>9. /\ loop' \in {"close", "tools"}
          /\ loop' \notin {"tools", "run"} => calls' = 0
      BY <2>2
    <3> QED BY <3>6, <3>7, <3>8, <3>9 DEF WholeSoFar
  <2> QED BY <1>6, <2>1, <2>2 DEF Answered
<1>7. ASSUME BeginTool PROVE WholeSoFar'
  <2>1. calls > 0 /\ loop = "tools" /\ loop' = "run"
    BY <1>7 DEF BeginTool
  <2>2. UNCHANGED <<cycleAbort, fresh, calls, conversation, crowded>>
    BY <1>7 DEF BeginTool
  <2> QED BY <2>1, <2>2 DEF WholeSoFar, Usable
<1>8. ASSUME RunTool PROVE WholeSoFar'
  <2>1. calls \in 1..MaxCalls /\ fresh \in Seq(Message)
    BY <1>8, WindowIsSome DEF RunTool, BotTypes
  <2>2. fresh' \o Results(calls') = fresh \o Results(calls)
    BY <1>8, <2>1, OneResultFewer DEF RunTool
  <2>3. UNCHANGED <<cycleAbort, conversation, crowded>> /\ loop = "run" /\ loop' = "tools"
    BY <1>8 DEF RunTool
  <2>4. ~crowded => Small(fresh')
    <3>1. Tool \in Message /\ Tool.calls < MaxMessages
      BY WindowIsSome DEF Tool, Message
    <3>2. fresh' = Append(fresh, Tool)
      BY <1>8 DEF RunTool
    <3> HIDE DEF Tool
    <3> QED BY <2>1, <3>1, <3>2, SmallMore DEF WholeSoFar
  <2> QED BY <2>2, <2>3, <2>4 DEF WholeSoFar, Usable
<1>9. ASSUME ToolsOver PROVE WholeSoFar'
  <2>1. UNCHANGED <<cycleAbort, fresh, conversation, crowded>> /\ loop = "tools" /\ loop' = "ask"
    BY <1>9 DEF ToolsOver
  <2>2. calls' = 0 /\ (calls = 0 \/ cycleAbort)
    BY <1>9 DEF ToolsOver
  <2> QED BY <2>1, <2>2 DEF WholeSoFar, Usable
<1>10. ASSUME CloseCycle PROVE WholeSoFar'
  <2>1. UNCHANGED <<cycleAbort, fresh, calls, conversation, crowded>> /\ loop = "close"
    BY <1>10 DEF CloseCycle
  <2>2. loop' = IF cycleAbort THEN "trim" ELSE "keep"
    BY <1>10 DEF CloseCycle
  <2>3. Leads
    <3>1. conversation \in Seq(Message) /\ << >> \in Seq(Message) /\ Intact(<< >>)
      BY DEF BotTypes, Intact
    <3>2. conversation \o << >> = conversation
      BY <3>1, ConcatEmptySeq
    <3>3. Usable
      BY <2>1 DEF WholeSoFar
    <3>4. \E m \in Nat : Led(conversation \o << >>, m) /\ (m # 0 => crowded)
      BY <3>1, <3>3, UsableLeads
    <3> QED BY <3>2, <3>4 DEF Leads
  <2> QED BY <2>1, <2>2, <2>3 DEF WholeSoFar, Usable, Leads
<1>11. ASSUME KeepFresh PROVE WholeSoFar'
  <2>1. UNCHANGED <<cycleAbort, fresh, calls, crowded>> /\ loop = "keep" /\ loop' = "trim"
    BY <1>11 DEF KeepFresh
  <2>2. conversation \in Seq(Message) /\ fresh \in Seq(Message)
    BY DEF BotTypes
  <2>3. Usable /\ Intact(fresh) /\ calls = 0
    <3>1. calls = 0 /\ Usable /\ Intact(fresh \o Results(calls))
      BY <2>1 DEF WholeSoFar
    <3> QED BY <2>2, <3>1, NoResults
  <2>4. conversation' = conversation \o fresh
    BY <1>11 DEF KeepFresh
  <2>5. Leads'
    BY <2>1, <2>2, <2>3, <2>4, UsableLeads DEF Leads
  <2>6. ~crowded' => Small(conversation') /\ Small(fresh')
    BY <2>1, <2>2, <2>4, SmallJoined DEF WholeSoFar
  <2>7. Intact(fresh' \o Results(calls'))
    BY <2>1 DEF WholeSoFar
  <2> QED BY <2>1, <2>3, <2>5, <2>6, <2>7 DEF WholeSoFar
<1>12. ASSUME TrimConversation PROVE WholeSoFar'
  <2>1. UNCHANGED <<cycleAbort, fresh, calls, crowded>> /\ loop = "trim" /\ loop' = "end"
    BY <1>12 DEF TrimConversation
  <2>2. conversation \in Seq(Message) /\ conversation' = Trimmed(conversation)
    BY <1>12 DEF TrimConversation, BotTypes
  <2>3. PICK m \in Nat : Led(conversation, m) /\ (m # 0 => crowded)
    BY <2>1 DEF WholeSoFar, Leads
  <2>4. ~crowded => Small(conversation) /\ Small(fresh)
    BY DEF WholeSoFar
  <2>5. Usable'
    <3>1. \/ Intact(conversation')
          \/ AllResults(conversation') /\ (m # 0 \/ ~Small(conversation))
      BY <2>2, <2>3, TrimmedConversation
    <3> QED BY <2>1, <2>3, <2>4, <3>1 DEF Usable
  <2>6. ~crowded' => Small(conversation') /\ Small(fresh')
    BY <2>1, <2>2, <2>4, TrimmedSmall
  <2>7. /\ ~cycleAbort => Intact(fresh \o Results(calls))
        /\ calls = 0
    BY <2>1 DEF WholeSoFar
  <2> QED BY <2>1, <2>5, <2>6, <2>7 DEF WholeSoFar
<1>13. ASSUME EndCycle PROVE WholeSoFar'
  <2>1. Intact(<< >> \o Results(0)) /\ Small(<< >>)
    BY NoResults DEF Small
  <2>2. conversation' = conversation /\ crowded' = crowded /\ loop = "end" /\ loop' = "idle"
    BY <1>13 DEF EndCycle
  <2>3. fresh' = << >> /\ calls' = 0
    BY <1>13 DEF EndCycle
  <2> QED BY <2>1, <2>2, <2>3 DEF WholeSoFar, Usable
<1>14. ASSUME StopController PROVE WholeSoFar'
  BY <1>14 DEF StopController, WholeSoFar, Usable, Leads
<1>15. ASSUME ForceAbort PROVE WholeSoFar'
  <2>1. Intact(<< >> \o Results(0)) /\ Small(<< >>)
    BY NoResults DEF Small
  <2>2. conversation' = conversation /\ crowded' = crowded /\ loop' = "dead"
    BY <1>15 DEF ForceAbort
  <2>3. fresh' = << >> /\ calls' = 0
    BY <1>15 DEF ForceAbort
  <2> QED BY <2>1, <2>2, <2>3 DEF WholeSoFar, Usable
<1>16. ASSUME NEW s \in Stops, StopTakesOne(s) PROVE WholeSoFar'
  BY <1>16 DEF StopTakesOne, WholeSoFar, Usable, Leads
<1>17. ASSUME NEW s \in Stops, StopHasDrained(s) PROVE WholeSoFar'
  BY <1>17 DEF StopHasDrained, WholeSoFar, Usable, Leads
<1>18. ASSUME NEW s \in Stops, StopPutsBack(s) PROVE WholeSoFar'
  BY <1>18 DEF StopPutsBack, WholeSoFar, Usable, Leads
<1>19. ASSUME NEW s \in Stops, StopLooks(s) PROVE WholeSoFar'
  BY <1>19 DEF StopLooks, WholeSoFar, Usable, Leads
<1>20. CASE UNCHANGED botVars
  BY <1>20 DEF botVars, WholeSoFar, Usable, Leads
<1> QED
  BY <1>1, <1>2, <1>3, <1>4, <1>5, <1>6, <1>7, <1>8, <1>9, <1>10, <1>11,
     <1>12, <1>13, <1>14, <1>15, <1>16, <1>17, <1>18, <1>19, <1>20 DEF BotNext

\* Only replies with all their tool results, in order, get into the conversation and
\* stay in it, whatever is stopped or trimmed, for any number of calls in a reply: the
\* one exception is a window of nothing but results, left by a reply that fills it.
THEOREM ConversationStaysIntact == BotSpec => []ConversationIntact
<1>1. BotInit => BotTypes /\ WholeSoFar
  <2> SUFFICES ASSUME BotInit PROVE WholeSoFar
    BY BotStarts
  <2>1. /\ fresh \o Results(calls) = << >> \o Results(0) /\ fresh = << >> /\ calls = 0
        /\ conversation = << >> /\ loop = "idle"
    BY DEF BotInit
  <2>2. Intact(<< >>) /\ Small(<< >>)
    BY DEF Intact, Small
  <2> QED BY <2>1, <2>2, NoResults DEF WholeSoFar, Usable
<1>2. BotTypes /\ WholeSoFar /\ [BotNext]_botVars => (BotTypes /\ WholeSoFar)'
  BY BotTypesKept, WholeSoFarKept
<1>3. BotTypes /\ WholeSoFar => ConversationIntact
  <2> SUFFICES ASSUME BotTypes, WholeSoFar, loop \notin {"trim", "dead"}
               PROVE  \/ Intact(conversation)
                      \/ /\ crowded /\ Len(conversation) = MaxMessages
                         /\ \A i \in DOMAIN conversation : conversation[i].role = "tool"
    BY DEF ConversationIntact
  <2>1. DOMAIN conversation = 1..Len(conversation)
    BY DEF BotTypes
  <2> QED BY <2>1 DEF WholeSoFar, Usable, AllResults
<1> QED
  BY <1>1, <1>2, <1>3, PTL DEF BotSpec

-----------------------------------------------------------------------------
(* The delegated tasks: a task that is open is in one of the lists, and in   *)
(* one place of it.                                                          *)

InOnePlace(t) ==
    /\ ~(t \in ToSet(queue) /\ t \in ToSet(batch))
    /\ \A s \in Stops : t \in ToSet(stop[s].kept) =>
          /\ t \notin ToSet(queue) /\ t \notin ToSet(batch)
          /\ \A u \in Stops : t \in ToSet(stop[u].kept) => u = s
    /\ fate[t] = "open" <=> \/ t \in ToSet(queue) \/ t \in ToSet(batch)
                            \/ \E s \in Stops : t \in ToSet(stop[s].kept)

OnePlaceEach ==
    /\ IsInjective(queue) /\ IsInjective(batch)
    /\ \A s \in Stops : IsInjective(stop[s].kept)
    /\ \A t \in Tasks : InOnePlace(t)

LEMMA Nobody == ToSet(<< >>) = {} /\ IsInjective(<< >>)
  BY DEF ToSet, IsInjective

LEMMA OneMore ==
    ASSUME NEW list \in Seq(Tasks), NEW t \in Tasks, t \notin ToSet(list), IsInjective(list)
    PROVE  /\ ToSet(Append(list, t)) = ToSet(list) \cup {t}
           /\ IsInjective(Append(list, t))
<1> DEFINE n == Len(list)
           more == Append(list, t)
<1>1. /\ n \in Nat /\ DOMAIN list = 1..n /\ DOMAIN more = 1..(n + 1)
      /\ \A i \in 1..n : more[i] = list[i]
      /\ more[n + 1] = t
  OBVIOUS
<1>2. 1..(n + 1) = (1..n) \cup {n + 1}
  BY <1>1
<1> HIDE DEF n, more
<1>3. \A i \in 1..n : list[i] # t
  BY <1>1 DEF ToSet
<1>4. ToSet(more) = ToSet(list) \cup {t}
  BY <1>1, <1>2 DEF ToSet
<1>5. IsInjective(more)
  BY <1>1, <1>2, <1>3 DEF IsInjective
<1> QED BY <1>4, <1>5 DEF more

LEMMA OneLess ==
    ASSUME NEW list \in Seq(Tasks), list # << >>, IsInjective(list)
    PROVE  /\ Head(list) \in ToSet(list)
           /\ ToSet(Tail(list)) = ToSet(list) \ {Head(list)}
           /\ IsInjective(Tail(list))
<1> DEFINE n == Len(list)
           rest == Tail(list)
<1>1. /\ n \in Nat \ {0} /\ DOMAIN list = 1..n /\ DOMAIN rest = 1..(n - 1)
      /\ \A i \in 1..(n - 1) : rest[i] = list[i + 1]
      /\ Head(list) = list[1]
  OBVIOUS
<1> HIDE DEF n, rest
<1>2. 1 \in 1..n
  BY <1>1
<1>3. ASSUME NEW i \in 1..(n - 1) PROVE rest[i] \in ToSet(list) \ {Head(list)}
  <2>1. i + 1 \in 1..n /\ i + 1 # 1
    BY <1>1
  <2> QED BY <1>1, <1>2, <2>1 DEF ToSet, IsInjective
<1>4. ASSUME NEW i \in 1..n, i # 1 PROVE list[i] \in ToSet(rest)
  <2>1. i - 1 \in 1..(n - 1) /\ (i - 1) + 1 = i
    BY <1>1, <1>4
  <2> QED BY <1>1, <2>1 DEF ToSet
<1>5. ToSet(rest) \subseteq ToSet(list) \ {Head(list)}
  BY <1>1, <1>3 DEF ToSet
<1>6. ToSet(list) \ {Head(list)} \subseteq ToSet(rest)
  <2> SUFFICES ASSUME NEW x \in ToSet(list), x # Head(list) PROVE x \in ToSet(rest)
    OBVIOUS
  <2>1. PICK i \in 1..n : x = list[i]
    BY <1>1 DEF ToSet
  <2> QED BY <1>1, <1>4, <2>1
<1>7. ASSUME NEW i \in 1..(n - 1), NEW j \in 1..(n - 1), rest[i] = rest[j] PROVE i = j
  <2>1. i + 1 \in 1..n /\ j + 1 \in 1..n
    BY <1>1
  <2>2. list[i + 1] = list[j + 1]
    BY <1>1, <1>7
  <2>3. i + 1 = j + 1
    BY <1>1, <2>1, <2>2 DEF IsInjective
  <2> QED BY <1>1, <2>3
<1>8. IsInjective(rest)
  BY <1>1, <1>7 DEF IsInjective
<1>9. Head(list) \in ToSet(list)
  BY <1>1, <1>2 DEF ToSet
<1> QED BY <1>5, <1>6, <1>8, <1>9 DEF rest

\* A task in a list that holds it once has one position there.
LEMMA PlacesIn ==
    ASSUME NEW list \in Seq(Tasks), IsInjective(list), NEW t
    PROVE  Cardinality({i \in DOMAIN list : list[i] = t}) = IF t \in ToSet(list) THEN 1 ELSE 0
<1>1. CASE t \in ToSet(list)
  <2>1. PICK i \in DOMAIN list : list[i] = t
    BY <1>1 DEF ToSet
  <2>2. {j \in DOMAIN list : list[j] = t} = {i}
    BY <2>1 DEF IsInjective
  <2> QED BY <1>1, <2>2, FS_Singleton
<1>2. CASE t \notin ToSet(list)
  <2>1. {j \in DOMAIN list : list[j] = t} = {}
    BY <1>2 DEF ToSet
  <2> QED BY <1>2, <2>1, FS_EmptySet
<1> QED BY <1>1, <1>2

LEMMA OnePlaceEachKept ==
    ASSUME BotTypes, OnePlaceEach, [BotNext]_botVars
    PROVE  OnePlaceEach'
<1> USE DEF Becomes, Forget
<1>1. ASSUME NEW t \in Tasks, Delegate(t) PROVE OnePlaceEach'
  <2>1. t \notin ToSet(queue) /\ queue \in Seq(Tasks)
    BY <1>1 DEF Delegate, OnePlaceEach, InOnePlace, BotTypes
  <2>2. ToSet(queue') = ToSet(queue) \cup {t} /\ IsInjective(queue')
    BY <1>1, <2>1, OneMore DEF Delegate, OnePlaceEach
  <2>3. \A x \in Tasks \ {t} : fate'[x] = fate[x]
    BY <1>1 DEF Delegate, BotTypes
  <2>4. fate'[t] = "open" /\ batch' = batch /\ stop' = stop /\ fate[t] = "new"
    BY <1>1 DEF Delegate, BotTypes
  <2> QED BY <2>2, <2>3, <2>4 DEF OnePlaceEach, InOnePlace
<1>2. ASSUME Wake PROVE OnePlaceEach'
  BY <1>2 DEF Wake, OnePlaceEach, InOnePlace
<1>3. ASSUME Drain PROVE OnePlaceEach'
  <2>1. /\ Head(queue) \in ToSet(queue) /\ Head(queue) \in Tasks
        /\ queue \in Seq(Tasks) /\ batch \in Seq(Tasks)
    BY <1>3, OneLess DEF Drain, OnePlaceEach, InOnePlace, BotTypes
  <2>2. ToSet(queue') = ToSet(queue) \ {Head(queue)} /\ IsInjective(queue')
    BY <1>3, <2>1, OneLess DEF Drain, OnePlaceEach
  <2>3. ToSet(batch') = ToSet(batch) \cup {Head(queue)} /\ IsInjective(batch')
    BY <1>3, <2>1, OneMore DEF Drain, OnePlaceEach, InOnePlace
  <2>4. stop' = stop /\ fate' = fate
    BY <1>3 DEF Drain
  <2> QED BY <2>1, <2>2, <2>3, <2>4 DEF OnePlaceEach, InOnePlace
<1>4. ASSUME OpenCycle PROVE OnePlaceEach'
  BY <1>4 DEF OpenCycle, OnePlaceEach, InOnePlace
<1>5. ASSUME AskModel PROVE OnePlaceEach'
  BY <1>5 DEF AskModel, OnePlaceEach, InOnePlace
<1>6. ASSUME Answered PROVE OnePlaceEach'
  BY <1>6 DEF Answered, OnePlaceEach, InOnePlace
<1>7. ASSUME BeginTool PROVE OnePlaceEach'
  BY <1>7 DEF BeginTool, OnePlaceEach, InOnePlace
<1>8. ASSUME RunTool PROVE OnePlaceEach'
  BY <1>8 DEF RunTool, OnePlaceEach, InOnePlace
<1>9. ASSUME ToolsOver PROVE OnePlaceEach'
  BY <1>9 DEF ToolsOver, OnePlaceEach, InOnePlace
<1>10. ASSUME CloseCycle PROVE OnePlaceEach'
  BY <1>10 DEF CloseCycle, OnePlaceEach, InOnePlace
<1>11. ASSUME KeepFresh PROVE OnePlaceEach'
  BY <1>11 DEF KeepFresh, OnePlaceEach, InOnePlace
<1>12. ASSUME TrimConversation PROVE OnePlaceEach'
  BY <1>12 DEF TrimConversation, OnePlaceEach, InOnePlace
<1>13. ASSUME EndCycle PROVE OnePlaceEach'
  BY <1>13, Nobody DEF EndCycle, OnePlaceEach, InOnePlace, BotTypes
<1>14. ASSUME StopController PROVE OnePlaceEach'
  BY <1>14 DEF StopController, OnePlaceEach, InOnePlace
<1>15. ASSUME ForceAbort PROVE OnePlaceEach'
  BY <1>15, Nobody DEF ForceAbort, OnePlaceEach, InOnePlace, BotTypes
<1>16. ASSUME NEW s \in Stops, StopTakesOne(s) PROVE OnePlaceEach'
  <2> DEFINE t == Head(queue)
  <2>1. queue \in Seq(Tasks) /\ t \in ToSet(queue) /\ t \in Tasks /\ stop[s].kept \in Seq(Tasks)
    BY <1>16, OneLess DEF StopTakesOne, OnePlaceEach, InOnePlace, BotTypes, Command
  <2>2. ToSet(queue') = ToSet(queue) \ {t} /\ IsInjective(queue')
    BY <1>16, <2>1, OneLess DEF StopTakesOne, OnePlaceEach
  <2>3. /\ t \notin ToSet(batch)
        /\ \A u \in Stops : t \notin ToSet(stop[u].kept)
    BY <2>1 DEF OnePlaceEach, InOnePlace
  <2>4. CASE PlayerOf[t] = PlayerOf[s]
    <3>1. \A u \in Stops : stop'[u].kept = stop[u].kept
      BY <1>16, <2>4 DEF StopTakesOne, BotTypes, Command
    <3>2. fate' = [fate EXCEPT ![t] = "dropped"]
      BY <1>16, <2>4 DEF StopTakesOne
    <3> HIDE DEF t
    <3>3. fate'[t] = "dropped" /\ batch' = batch /\ \A x \in Tasks \ {t} : fate'[x] = fate[x]
      BY <1>16, <2>1, <3>2 DEF StopTakesOne, BotTypes
    <3>4. ASSUME NEW x \in Tasks PROVE InOnePlace(x)'
      BY <2>2, <2>3, <3>1, <3>3 DEF OnePlaceEach, InOnePlace
    <3> QED BY <2>2, <3>1, <3>3, <3>4 DEF OnePlaceEach
  <2>5. CASE PlayerOf[t] # PlayerOf[s]
    <3>1. /\ stop'[s].kept = Append(stop[s].kept, t)
          /\ \A u \in Stops \ {s} : stop'[u].kept = stop[u].kept
      BY <1>16, <2>5 DEF StopTakesOne, BotTypes, Command
    <3>2. fate' = fate /\ batch' = batch
      BY <1>16, <2>5 DEF StopTakesOne
    <3>3. ToSet(stop'[s].kept) = ToSet(stop[s].kept) \cup {t} /\ IsInjective(stop'[s].kept)
      BY <2>1, <2>3, <3>1, OneMore DEF OnePlaceEach, InOnePlace
    <3> HIDE DEF t
    <3>4. ASSUME NEW x \in Tasks PROVE InOnePlace(x)'
      <4>1. \A u \in Stops : x \in ToSet(stop'[u].kept) <=>
            (x \in ToSet(stop[u].kept) \/ (u = s /\ x = t))
        BY <3>1, <3>3
      <4>2. x \in ToSet(queue') <=> x \in ToSet(queue) /\ x # t
        BY <2>2
      <4>3. InOnePlace(x)
        BY DEF OnePlaceEach
      <4> QED BY <2>1, <2>3, <3>2, <4>1, <4>2, <4>3 DEF InOnePlace
    <3> QED BY <2>2, <3>1, <3>2, <3>3, <3>4 DEF OnePlaceEach
  <2> QED BY <2>4, <2>5
<1>17. ASSUME NEW s \in Stops, StopHasDrained(s) PROVE OnePlaceEach'
  <2>1. \A u \in Stops : stop'[u].kept = stop[u].kept
    BY <1>17 DEF StopHasDrained, BotTypes, Command
  <2>2. queue' = queue /\ batch' = batch /\ fate' = fate
    BY <1>17 DEF StopHasDrained
  <2>3. \A x \in Tasks : InOnePlace(x)'
    BY <2>1, <2>2 DEF OnePlaceEach, InOnePlace
  <2> QED BY <2>1, <2>2, <2>3 DEF OnePlaceEach
<1>18. ASSUME NEW s \in Stops, StopPutsBack(s) PROVE OnePlaceEach'
  <2> DEFINE t == Head(stop[s].kept)
  <2>1. stop[s].kept \in Seq(Tasks) /\ stop[s].kept # << >> /\ queue \in Seq(Tasks)
    BY <1>18 DEF StopPutsBack, BotTypes, Command
  <2>2. t \in ToSet(stop[s].kept) /\ t \in Tasks
    BY <2>1, OneLess DEF OnePlaceEach
  <2>3. /\ stop'[s].kept = Tail(stop[s].kept)
        /\ \A u \in Stops \ {s} : stop'[u].kept = stop[u].kept
    BY <1>18 DEF StopPutsBack, BotTypes, Command
  <2>4. ToSet(stop'[s].kept) = ToSet(stop[s].kept) \ {t} /\ IsInjective(stop'[s].kept)
    BY <2>1, <2>3, OneLess DEF OnePlaceEach
  <2>5. ToSet(queue') = ToSet(queue) \cup {t} /\ IsInjective(queue')
    BY <1>18, <2>1, <2>2, OneMore DEF StopPutsBack, OnePlaceEach, InOnePlace
  <2>6. fate' = fate /\ batch' = batch
    BY <1>18 DEF StopPutsBack
  <2> HIDE DEF t
  <2>7. ASSUME NEW x \in Tasks PROVE InOnePlace(x)'
    BY <2>2, <2>3, <2>4, <2>5, <2>6 DEF OnePlaceEach, InOnePlace
  <2> QED BY <2>3, <2>4, <2>5, <2>6, <2>7 DEF OnePlaceEach
<1>19. ASSUME NEW s \in Stops, StopLooks(s) PROVE OnePlaceEach'
  <2>1. \A u \in Stops : stop'[u].kept = stop[u].kept
    BY <1>19 DEF StopLooks, BotTypes, Command
  <2>2. queue' = queue /\ batch' = batch /\ fate' = fate
    BY <1>19 DEF StopLooks
  <2>3. \A x \in Tasks : InOnePlace(x)'
    BY <2>1, <2>2 DEF OnePlaceEach, InOnePlace
  <2> QED BY <2>1, <2>2, <2>3 DEF OnePlaceEach
<1>20. CASE UNCHANGED botVars
  BY <1>20 DEF botVars, OnePlaceEach, InOnePlace
<1> QED
  BY <1>1, <1>2, <1>3, <1>4, <1>5, <1>6, <1>7, <1>8, <1>9, <1>10, <1>11,
     <1>12, <1>13, <1>14, <1>15, <1>16, <1>17, <1>18, <1>19, <1>20 DEF BotNext

\* A delegated task is in one place until it has been worked on or a stop took it,
\* for any number of tasks, players and stops that drain the queue side by side.
THEOREM TasksAreSomewhere == BotSpec => []TaskIsSomewhere
<1>1. BotInit => BotTypes /\ OnePlaceEach
  <2> SUFFICES ASSUME BotInit PROVE OnePlaceEach
    BY BotStarts
  <2>1. /\ queue = << >> /\ batch = << >>
        /\ \A s \in Stops : stop[s].kept = << >>
        /\ \A t \in Tasks : fate[t] = "new"
    BY DEF BotInit
  <2> QED BY <2>1, Nobody DEF OnePlaceEach, InOnePlace
<1>2. BotTypes /\ OnePlaceEach /\ [BotNext]_botVars => (BotTypes /\ OnePlaceEach)'
  BY BotTypesKept, OnePlaceEachKept
<1>3. BotTypes /\ OnePlaceEach => TaskIsSomewhere
  <2> SUFFICES ASSUME BotTypes, OnePlaceEach, NEW t \in Tasks
               PROVE  Cardinality({i \in DOMAIN queue : queue[i] = t})
                      + Cardinality({i \in DOMAIN batch : batch[i] = t})
                      + Cardinality({s \in Stops : t \in ToSet(stop[s].kept)})
                      = IF fate[t] = "open" THEN 1 ELSE 0
    BY DEF TaskIsSomewhere
  <2> DEFINE q == Cardinality({i \in DOMAIN queue : queue[i] = t})
             b == Cardinality({i \in DOMAIN batch : batch[i] = t})
             a == Cardinality({s \in Stops : t \in ToSet(stop[s].kept)})
  <2>1. /\ q = IF t \in ToSet(queue) THEN 1 ELSE 0
        /\ b = IF t \in ToSet(batch) THEN 1 ELSE 0
    BY PlacesIn DEF BotTypes, OnePlaceEach
  <2>2. a = IF \E s \in Stops : t \in ToSet(stop[s].kept) THEN 1 ELSE 0
    <3>1. CASE \E s \in Stops : t \in ToSet(stop[s].kept)
      <4>1. PICK s \in Stops : t \in ToSet(stop[s].kept)
        BY <3>1
      <4>2. {u \in Stops : t \in ToSet(stop[u].kept)} = {s}
        BY <4>1 DEF OnePlaceEach, InOnePlace
      <4> QED BY <3>1, <4>2, FS_Singleton
    <3>2. CASE ~\E s \in Stops : t \in ToSet(stop[s].kept)
      <4>1. {u \in Stops : t \in ToSet(stop[u].kept)} = {}
        BY <3>2
      <4> QED BY <3>2, <4>1, FS_EmptySet
    <3> QED BY <3>1, <3>2
  <2> HIDE DEF q, b, a
  <2> QED BY <2>1, <2>2 DEF OnePlaceEach, InOnePlace, q, b, a
<1> QED
  BY <1>1, <1>2, <1>3, PTL DEF BotSpec

=============================================================================
