------------------------ MODULE CommandRoutingProofs ------------------------
(***************************************************************************)
(* Theorems about RoleDecision and CommandRouting, for any number of       *)
(* instances, loads, commands and sessions.                                *)
(***************************************************************************)
EXTENDS CommandRouting, FiniteSetTheorems, SequenceTheorems, WellFoundedInduction, TLAPS

RoleMove == RoleStep \/ \E i \in Insts : Crash(i)

-----------------------------------------------------------------------------
(* Types of the roles. *)

Pcs == {"none", "probe", "enrolled", "free?", "bind", "bound", "assign", "local", "boundlocal",
        "assignlocal", "dial", "dialled", "assignnode", "report", "remember", "done"}
Hints == Modes \cup {"none"}
DecideRecords == [pc : Pcs, mode : Modes, hint : Hints, token : BOOLEAN, moved : BOOLEAN]

RoleTypes ==
    /\ foreign \in BOOLEAN
    /\ listener \subseteq Managers /\ loopback \subseteq Managers /\ up \subseteq Managers
    /\ stopping \subseteq Managers /\ stopped \subseteq stopping
    /\ decide \in [Managers -> DecideRecords]
    /\ hub \in [Managers -> {"none", "shared", "loopback"}] /\ node \in [Managers -> BOOLEAN]
    /\ current \in [Insts -> 0..MaxLoads] /\ token \in [Insts -> BOOLEAN]
    /\ role \in [Insts -> Hints]

\* One hub listens, nobody is connected without one, a hub has one connection of
\* an instance and none of its own.
Hubs ==
    /\ \A m, n \in listener : m = n
    /\ listener = {} => up = {}
    /\ \A m, n \in up : m[1] = n[1] => m = n
    /\ \A m \in up : \A h \in listener : m[1] # h[1]

\* The loads of an instance are numbered without a gap.
LoadsInOrder(i) ==
    \E k \in 0..MaxLoads : \A g \in 1..MaxLoads : decide[<<i, g>>].pc # "none" <=> g <= k

LEMMA LoadsBoundNat == MaxLoads \in Nat /\ 0 \in 0..MaxLoads
<1>1. MaxLoads \in Nat
  BY LoadsBound
<1> QED
  BY <1>1

LEMMA ManagerIsPair ==
    ASSUME NEW m \in Managers
    PROVE  m = <<m[1], m[2]>> /\ m[1] \in Insts /\ m[2] \in 1..MaxLoads /\ m[2] \in Nat /\ m[2] # 0
  BY LoadsBoundNat DEF Managers

LEMMA OfIsManager ==
    ASSUME current \in [Insts -> 0..MaxLoads], NEW i \in Insts, current[i] # 0
    PROVE  Of(i) \in Managers /\ Is(Of(i)) /\ Of(i)[1] = i
  BY LoadsBoundNat DEF Managers, Of, Is

\* What a thread writes into its own record.
LEMMA DecideUpdates ==
    ASSUME decide \in [Managers -> DecideRecords], NEW m \in Managers,
           \E pc \in Pcs :
              \/ decide' = [decide EXCEPT ![m].pc = pc]
              \/ \E mode \in Modes : decide' = [decide EXCEPT ![m].pc = pc, ![m].mode = mode]
              \/ \E hint \in Hints : decide' = [decide EXCEPT ![m].hint = hint, ![m].pc = pc]
              \/ \E flag \in BOOLEAN :
                    \/ decide' = [decide EXCEPT ![m].pc = pc, ![m].moved = flag]
                    \/ decide' = [decide EXCEPT ![m].pc = pc, ![m].token = flag]
    PROVE  decide' \in [Managers -> DecideRecords]
<1>0. decide[m] \in DecideRecords
  OBVIOUS
<1>1. PICK pc \in Pcs :
              \/ decide' = [decide EXCEPT ![m].pc = pc]
              \/ \E mode \in Modes : decide' = [decide EXCEPT ![m].pc = pc, ![m].mode = mode]
              \/ \E hint \in Hints : decide' = [decide EXCEPT ![m].hint = hint, ![m].pc = pc]
              \/ \E flag \in BOOLEAN :
                    \/ decide' = [decide EXCEPT ![m].pc = pc, ![m].moved = flag]
                    \/ decide' = [decide EXCEPT ![m].pc = pc, ![m].token = flag]
  OBVIOUS
<1>2. CASE decide' = [decide EXCEPT ![m].pc = pc]
  BY <1>0, <1>2 DEF DecideRecords
<1>3. ASSUME NEW mode \in Modes, decide' = [decide EXCEPT ![m].pc = pc, ![m].mode = mode]
      PROVE  decide' \in [Managers -> DecideRecords]
  BY <1>0, <1>3 DEF DecideRecords
<1>4. ASSUME NEW hint \in Hints, decide' = [decide EXCEPT ![m].hint = hint, ![m].pc = pc]
      PROVE  decide' \in [Managers -> DecideRecords]
  BY <1>0, <1>4 DEF DecideRecords
<1>5. ASSUME NEW flag \in BOOLEAN, decide' = [decide EXCEPT ![m].pc = pc, ![m].moved = flag]
      PROVE  decide' \in [Managers -> DecideRecords]
  BY <1>0, <1>5 DEF DecideRecords
<1>6. ASSUME NEW flag \in BOOLEAN, decide' = [decide EXCEPT ![m].pc = pc, ![m].token = flag]
      PROVE  decide' \in [Managers -> DecideRecords]
  BY <1>0, <1>6 DEF DecideRecords
<1> QED
  BY <1>1, <1>2, <1>3, <1>4, <1>5, <1>6

\* What Loads counts.
LEMMA LoadsCounts ==
    ASSUME NEW i \in Insts, NEW k \in 0..MaxLoads,
           \A g \in 1..MaxLoads : decide[<<i, g>>].pc # "none" <=> g <= k
    PROVE  Loads(i) = k
<1>1. {g \in 1..MaxLoads : decide[<<i, g>>].pc # "none"} = 1..k
  BY LoadsBoundNat
<1>2. k \in Nat /\ 1 \in Int /\ k \in Int
  BY LoadsBoundNat
<1>3. Cardinality(1..k) = k
  BY <1>2, FS_Interval
<1> QED
  BY <1>1, <1>3 DEF Loads

\* A load takes the first manager that is free.
LEMMA LoadIsNew ==
    ASSUME NEW i \in Insts, LoadsInOrder(i), Loads(i) < MaxLoads
    PROVE  /\ Loads(i) \in Nat /\ Loads(i) + 1 \in 1..MaxLoads /\ <<i, Loads(i) + 1>> \in Managers
           /\ decide[<<i, Loads(i) + 1>>].pc = "none"
           /\ \A g \in 1..MaxLoads : decide[<<i, g>>].pc # "none" <=> g <= Loads(i)
<1>1. PICK k \in 0..MaxLoads : \A g \in 1..MaxLoads : decide[<<i, g>>].pc # "none" <=> g <= k
  BY DEF LoadsInOrder
<1>2. Loads(i) = k
  BY <1>1, LoadsCounts
<1> QED
  BY <1>1, <1>2, LoadsBoundNat DEF Managers

LEMMA RoleTypesStep ==
    ASSUME RoleTypes, \A i \in Insts : LoadsInOrder(i), RoleMove
    PROVE  RoleTypes'
<1>1. ASSUME NEW i \in Insts, Load(i) PROVE RoleTypes'
  <2> DEFINE k == Loads(i) + 1
  <2>1. k \in 0..MaxLoads /\ <<i, k>> \in Managers
    BY <1>1, LoadIsNew, LoadsBoundNat DEF Load
  <2>2. /\ current' = [current EXCEPT ![i] = k]
        /\ decide' = [decide EXCEPT ![<<i, k>>].pc = "probe", ![<<i, k>>].token = token[i]]
        /\ UNCHANGED <<foreign, listener, loopback, hub, node, up, stopping, stopped, role, token>>
    BY <1>1 DEF Load
  <2> HIDE DEF k
  <2>3. decide' \in [Managers -> DecideRecords]
    <3>1. "probe" \in Pcs /\ token[i] \in BOOLEAN
      BY DEF Pcs, RoleTypes
    <3> QED
      BY <2>1, <2>2, <3>1, DecideUpdates DEF RoleTypes
  <2> QED
    BY <2>1, <2>2, <2>3 DEF RoleTypes
<1>2. ASSUME NEW i \in Insts, Unload(i) \/ Claim(i) \/ Forget(i) PROVE RoleTypes'
  BY <1>2, OfIsManager, LoadsBoundNat DEF RoleTypes, Unload, Claim, Forget, StopBegins
<1>3. ASSUME NEW m \in Managers,
             Probe(m) \/ EnrolledStaysClient(m) \/ DecideFree(m) \/ StopRequested(m) \/ Report(m)
      PROVE  RoleTypes'
  <2>1. role[m[1]] \in Hints /\ TRUE \in BOOLEAN
    BY ManagerIsPair DEF RoleTypes
  <2>2. /\ \/ \E pc \in Pcs, hint \in Hints : decide' = [decide EXCEPT ![m].hint = hint, ![m].pc = pc]
           \/ \E pc \in Pcs, flag \in BOOLEAN : decide' = [decide EXCEPT ![m].pc = pc, ![m].moved = flag]
           \/ \E pc \in Pcs : decide' = [decide EXCEPT ![m].pc = pc]
        /\ ThreadOnly
    <3>1. CASE Probe(m)
      BY <2>1, <3>1 DEF Probe, Pcs
    <3>2. CASE EnrolledStaysClient(m)
      BY <2>1, <3>2 DEF EnrolledStaysClient, Goto, Pcs
    <3>3. CASE DecideFree(m) \/ StopRequested(m) \/ Report(m)
      BY <3>3 DEF DecideFree, StopRequested, Report, Goto, Pcs
    <3> QED
      BY <1>3, <3>1, <3>2, <3>3
  <2>3. decide' \in [Managers -> DecideRecords]
    BY <2>2, DecideUpdates DEF RoleTypes
  <2> QED
    BY <2>2, <2>3 DEF RoleTypes, ThreadOnly
<1>4. ASSUME NEW m \in Managers,
             Bind(m) \/ BindLoopback(m) \/ StartNode(m) \/ Abandon(m) \/ Remember(m)
      PROVE  RoleTypes'
  <2>1. \E pc \in Pcs : decide' = [decide EXCEPT ![m].pc = pc]
    BY <1>4 DEF Bind, BindLoopback, StartNode, Abandon, Remember, Goto, Pcs
  <2>2. decide' \in [Managers -> DecideRecords]
    BY <2>1, DecideUpdates DEF RoleTypes
  <2>3. listener' \subseteq Managers /\ loopback' \subseteq Managers /\ up' \subseteq Managers
    BY <1>4 DEF Bind, BindLoopback, StartNode, Abandon, Remember, RoleTypes, Connect, Close
  <2>4. role' \in [Insts -> Hints]
    <3>1. m[1] \in Insts /\ decide[m].mode \in Hints
      BY ManagerIsPair DEF RoleTypes, DecideRecords, Hints
    <3>2. role' = role \/ role' = [role EXCEPT ![m[1]] = decide[m].mode]
      BY <1>4 DEF Bind, BindLoopback, StartNode, Abandon, Remember
    <3> QED
      BY <3>1, <3>2 DEF RoleTypes
  <2> QED
    BY <1>4, <2>2, <2>3, <2>4 DEF Bind, BindLoopback, StartNode, Abandon, Remember, RoleTypes
<1>5. ASSUME NEW m \in Managers, Assign(m) PROVE RoleTypes'
  <2>1. decide' \in [Managers -> DecideRecords]
    <3>1. \E mode \in Modes : decide' = [decide EXCEPT ![m].pc = "report", ![m].mode = mode]
      <4>1. CASE At(m, "assign")
        BY <1>5, <4>1 DEF Assign, Modes, At
      <4>2. CASE At(m, "assignlocal")
        BY <1>5, <4>2 DEF Assign, Modes, At
      <4>3. CASE At(m, "assignnode")
        BY <1>5, <4>3 DEF Assign, Modes, At
      <4> QED
        BY <1>5, <4>1, <4>2, <4>3 DEF Assign, At
    <3>2. "report" \in Pcs
      BY DEF Pcs
    <3> QED
      BY <3>1, <3>2, DecideUpdates DEF RoleTypes
  <2>2. hub' \in [Managers -> {"none", "shared", "loopback"}] /\ node' \in [Managers -> BOOLEAN]
    BY <1>5 DEF Assign, RoleTypes
  <2> QED
    BY <1>5, <2>1, <2>2 DEF Assign, RoleTypes
<1>6. ASSUME NEW m \in Managers, StopTakes(m) \/ Reconnect(m) \/ Break(m) PROVE RoleTypes'
  BY <1>6 DEF StopTakes, Reconnect, Break, Close, Connect, RoleTypes
<1>7. ASSUME NEW i \in Insts, Crash(i) PROVE RoleTypes'
  <2>1. decide' \in [Managers -> DecideRecords]
    <3>1. "done" \in Pcs
      BY DEF Pcs
    <3>2. ASSUME NEW m \in Managers
          PROVE  decide[m] \in DecideRecords /\ [decide[m] EXCEPT !.pc = "done"] \in DecideRecords
      BY <3>1 DEF RoleTypes, DecideRecords
    <3> QED
      BY <1>7, <3>2 DEF Crash
  <2>2. node' \in [Managers -> BOOLEAN] /\ hub' \in [Managers -> {"none", "shared", "loopback"}]
    BY <1>7 DEF Crash, RoleTypes
  <2>3. stopping' \subseteq Managers /\ stopped' \subseteq stopping'
    BY <1>7 DEF Crash, RoleTypes
  <2> QED
    BY <1>7, <2>1, <2>2, <2>3, LoadsBoundNat DEF Crash, Close, RoleTypes
<1>8. CASE Foreign
  BY <1>8 DEF Foreign, RoleTypes
<1> QED
  BY <1>1, <1>2, <1>3, <1>4, <1>5, <1>6, <1>7, <1>8 DEF RoleMove, RoleStep
-----------------------------------------------------------------------------
(* Sockets and loads. *)

LEMMA HubsStep ==
    ASSUME RoleTypes, Hubs, RoleMove
    PROVE  Hubs'
<1>1. ASSUME UNCHANGED <<listener, up>> PROVE Hubs'
  BY <1>1 DEF Hubs
<1>2. ASSUME NEW hubs, NEW locals, NEW nodes, Close(hubs, locals, nodes) PROVE Hubs'
  BY <1>2 DEF Close, Hubs
<1>3. ASSUME NEW m \in Managers, Accepted(m), Connect(m), UNCHANGED listener PROVE Hubs'
  BY <1>3 DEF Accepted, Connect, Hubs
<1>4. CASE \E i \in Insts : Load(i) \/ Unload(i) \/ Claim(i) \/ Forget(i)
  BY <1>1, <1>4 DEF Load, Unload, Claim, Forget, StopBegins
<1>5. ASSUME NEW m \in Managers,
             \/ Probe(m) \/ EnrolledStaysClient(m) \/ DecideFree(m) \/ StopRequested(m)
             \/ BindLoopback(m) \/ Assign(m) \/ Report(m) \/ Remember(m)
      PROVE  Hubs'
  BY <1>1, <1>5 DEF Probe, EnrolledStaysClient, DecideFree, StopRequested, BindLoopback, Assign, Report,
     Remember, ThreadOnly
<1>6. ASSUME NEW m \in Managers, Bind(m) PROVE Hubs'
  BY <1>1, <1>6 DEF Bind, Free, Hubs
<1>7. ASSUME NEW m \in Managers, StartNode(m) \/ Reconnect(m) PROVE Hubs'
  BY <1>1, <1>3, <1>7 DEF StartNode, Reconnect
<1>8. ASSUME NEW m \in Managers, Abandon(m) \/ StopTakes(m) PROVE Hubs'
  BY <1>1, <1>2, <1>8 DEF Abandon, StopTakes
<1>9. ASSUME NEW m \in Managers, Break(m) PROVE Hubs'
  BY <1>9 DEF Break, Hubs
<1>10. ASSUME NEW i \in Insts, Crash(i) PROVE Hubs'
  BY <1>2, <1>10 DEF Crash
<1>11. CASE Foreign
  BY <1>1, <1>11 DEF Foreign
<1> QED
  BY <1>4, <1>5, <1>6, <1>7, <1>8, <1>9, <1>10, <1>11 DEF RoleMove, RoleStep

\* Its thread's step writes one field of a manager's record.
LEMMA GotoDoes ==
    ASSUME decide \in [Managers -> DecideRecords], NEW m \in Managers, NEW pc, Goto(m, pc)
    PROVE  /\ decide'[m].pc = pc /\ decide'[m].mode = decide[m].mode /\ decide'[m].hint = decide[m].hint
           /\ decide'[m].token = decide[m].token /\ decide'[m].moved = decide[m].moved
           /\ \A n \in Managers : n # m => decide'[n] = decide[n]
  BY DEF Goto, DecideRecords

\* A load begins; every other step of a manager goes from a place to a place.
LEMMA DecideMoves ==
    ASSUME RoleTypes, RoleMove
    PROVE  \/ \E i \in Insts : Load(i)
           \/ \E i \in Insts : Crash(i)
           \/ UNCHANGED <<decide, current, stopping>>
           \/ \E i \in Insts : StopBegins(i)
           \/ \E m \in Managers : /\ \A n \in Managers : n # m => decide'[n] = decide[n]
                                  /\ decide[m].pc # "none" /\ decide'[m].pc # "none"
                                  /\ UNCHANGED <<current, stopping>>
<1>0. decide \in [Managers -> DecideRecords]
  BY DEF RoleTypes
<1> DEFINE Moves(m) == /\ \A n \in Managers : n # m => decide'[n] = decide[n]
                       /\ decide[m].pc # "none" /\ decide'[m].pc # "none"
                       /\ UNCHANGED <<current, stopping>>
<1>1. ASSUME NEW m \in Managers, Probe(m) PROVE Moves(m)
  BY <1>0, <1>1 DEF Probe, At, ThreadOnly, DecideRecords
<1>2. ASSUME NEW m \in Managers, EnrolledStaysClient(m) PROVE Moves(m)
  BY <1>0, <1>2 DEF EnrolledStaysClient, Goto, At, ThreadOnly, DecideRecords
<1>3. ASSUME NEW m \in Managers, NEW pc, pc # "none", Goto(m, pc), decide[m].pc # "none",
             UNCHANGED <<current, stopping>>
      PROVE  Moves(m)
  BY <1>0, <1>3, GotoDoes
<1>4. ASSUME NEW m \in Managers, DecideFree(m) \/ StopRequested(m) \/ Report(m) \/ Remember(m) PROVE Moves(m)
  BY <1>3, <1>4 DEF DecideFree, StopRequested, Report, Remember, At, ThreadOnly
<1>5. ASSUME NEW m \in Managers, Bind(m) \/ BindLoopback(m) \/ StartNode(m) PROVE Moves(m)
  BY <1>3, <1>5 DEF Bind, BindLoopback, StartNode, Building, At
<1>6. ASSUME NEW m \in Managers, Abandon(m) PROVE Moves(m)
  BY <1>3, <1>6 DEF Abandon, At
<1>7. ASSUME NEW m \in Managers, Assign(m) PROVE Moves(m)
  BY <1>0, <1>7 DEF Assign, At, DecideRecords
<1>8. ASSUME NEW m \in Managers, StopTakes(m) \/ Reconnect(m) \/ Break(m)
      PROVE  UNCHANGED <<decide, current, stopping>>
  BY <1>8 DEF StopTakes, Reconnect, Break
<1>9. ASSUME NEW i \in Insts, Unload(i) \/ Claim(i) \/ Forget(i) PROVE StopBegins(i)
  BY <1>9 DEF Unload, Claim, Forget
<1>10. ASSUME Foreign PROVE UNCHANGED <<decide, current, stopping>>
  BY <1>10 DEF Foreign
<1> QED
  BY <1>1, <1>2, <1>4, <1>5, <1>6, <1>7, <1>8, <1>9, <1>10 DEF RoleMove, RoleStep

LEMMA LoadsStep ==
    ASSUME RoleTypes, \A i \in Insts : LoadsInOrder(i), RoleMove
    PROVE  \A i \in Insts : LoadsInOrder(i)'
<1>0. decide \in [Managers -> DecideRecords]
  BY DEF RoleTypes
<1>1. ASSUME \A m \in Managers : decide'[m].pc # "none" <=> decide[m].pc # "none"
      PROVE  \A i \in Insts : LoadsInOrder(i)'
  BY <1>1 DEF LoadsInOrder, Managers
<1>2. ASSUME NEW i \in Insts, Load(i) PROVE \A j \in Insts : LoadsInOrder(j)'
  <2> DEFINE k == Loads(i) + 1
  <2>1. /\ k \in 1..MaxLoads /\ <<i, k>> \in Managers
        /\ \A g \in 1..MaxLoads : decide[<<i, g>>].pc # "none" <=> g < k
    <3>1. LoadsInOrder(i) /\ Loads(i) < MaxLoads
      BY <1>2 DEF Load
    <3>2. /\ Loads(i) \in Nat /\ k \in 1..MaxLoads /\ <<i, k>> \in Managers
          /\ \A g \in 1..MaxLoads : decide[<<i, g>>].pc # "none" <=> g <= Loads(i)
      BY <3>1, LoadIsNew
    <3> QED
      BY <3>2, LoadsBoundNat
  <2>2. decide' = [decide EXCEPT ![<<i, k>>].pc = "probe", ![<<i, k>>].token = token[i]]
    BY <1>2 DEF Load
  <2> HIDE DEF k
  <2>3. decide'[<<i, k>>].pc = "probe" /\ \A m \in Managers : m # <<i, k>> => decide'[m] = decide[m]
    BY <1>0, <2>1, <2>2 DEF DecideRecords
  <2>4. LoadsInOrder(i)'
    <3>1. \A g \in 1..MaxLoads : decide'[<<i, g>>].pc # "none" <=> g <= k
      BY <2>1, <2>3, LoadsBoundNat DEF Managers
    <3>2. k \in 0..MaxLoads
      BY <2>1, LoadsBoundNat
    <3> QED
      BY <3>1, <3>2 DEF LoadsInOrder
  <2>5. ASSUME NEW j \in Insts, j # i PROVE LoadsInOrder(j)'
    BY <2>3, <2>5 DEF LoadsInOrder, Managers
  <2> QED
    BY <2>4, <2>5
<1>3. ASSUME NEW i \in Insts, Crash(i) PROVE \A m \in Managers : decide'[m].pc # "none" <=> decide[m].pc # "none"
  BY <1>0, <1>3 DEF Crash, DecideRecords
<1> QED
  BY <1>1, <1>2, <1>3, DecideMoves DEF StopBegins
\* A manager is being stopped when it has begun and is no longer its instance's.
StopIff(m) ==
    /\ m \in stopping <=> decide[m].pc # "none" /\ ~Is(m)
    /\ Is(m) => decide[m].pc # "none"

\* Where a manager's sockets and references are, by where its thread is.
Early == {"none", "probe", "enrolled", "free?", "bind", "local", "dial", "dialled", "assignnode"}
Over == {"report", "remember", "done"}

Placed(m) ==
    LET pc == decide[m].pc  mode == decide[m].mode IN
    /\ pc \in Early => m \notin listener /\ m \notin loopback
    /\ pc \in {"bound", "assign"} => m \notin loopback
    /\ pc \in {"boundlocal", "assignlocal"} => m \notin listener
    /\ m \notin stopping =>
          /\ pc \in {"bound", "assign"} => m \in listener
          /\ pc \in {"boundlocal", "assignlocal"} => m \in loopback
          /\ pc \notin Over => hub[m] = "none" /\ ~node[m]
          /\ pc \in Over =>
                /\ mode = "server" <=> hub[m] = "shared"
                /\ mode = "client" <=> node[m]
                /\ hub[m] = "shared" <=> m \in listener
                /\ hub[m] = "loopback" <=> m \in loopback

\* What ClientsStayClients says of a hub, already of a thread that is about to bind.
Entitled(m) ==
    LET d == decide[m] IN
    (m \in listener \/ d.pc \in {"free?", "bind"}) /\ d.token /\ m[1] \notin Forced /\ ~d.moved
        => d.hint = "server"

RoleInv ==
    /\ RoleTypes /\ Hubs
    /\ \A i \in Insts : LoadsInOrder(i)
    /\ \A m \in Managers : StopIff(m) /\ Placed(m) /\ Entitled(m)

LEMMA StopStep ==
    ASSUME RoleInv, RoleMove, NEW m \in Managers
    PROVE  StopIff(m)'
<1>0. /\ decide \in [Managers -> DecideRecords] /\ current \in [Insts -> 0..MaxLoads]
      /\ RoleTypes /\ StopIff(m) /\ m = <<m[1], m[2]>> /\ m[1] \in Insts /\ m[2] # 0
      /\ \A i \in Insts : LoadsInOrder(i)
  BY ManagerIsPair DEF RoleInv, RoleTypes
<1>1. ASSUME NEW i \in Insts, Load(i) PROVE StopIff(m)'
  <2> DEFINE k == Loads(i) + 1
  <2>1. <<i, k>> \in Managers /\ k \in 1..MaxLoads /\ decide[<<i, k>>].pc = "none"
    BY <1>0, <1>1, LoadIsNew DEF Load
  <2>2. /\ decide' = [decide EXCEPT ![<<i, k>>].pc = "probe", ![<<i, k>>].token = token[i]]
        /\ current' = [current EXCEPT ![i] = k] /\ current[i] = 0 /\ UNCHANGED stopping
    BY <1>1 DEF Load
  <2> HIDE DEF k
  <2>3. CASE m = <<i, k>>
    <3>1. decide'[m].pc = "probe" /\ m \notin stopping /\ current'[m[1]] = m[2]
      BY <1>0, <2>1, <2>2, <2>3 DEF StopIff, DecideRecords
    <3> QED
      BY <2>2, <3>1 DEF StopIff, Is
  <2>4. CASE m # <<i, k>>
    <3>1. decide'[m] = decide[m] /\ (Is(m)' <=> Is(m))
      BY <1>0, <2>1, <2>2, <2>4 DEF Is
    <3> QED
      BY <1>0, <2>2, <3>1 DEF StopIff
  <2> QED
    BY <2>3, <2>4
<1>2. ASSUME NEW i \in Insts, Crash(i) PROVE StopIff(m)'
  <2>1. CASE m[1] = i
    BY <1>0, <1>2, <2>1 DEF Crash, StopIff, Is, DecideRecords
  <2>2. CASE m[1] # i
    BY <1>0, <1>2, <2>2 DEF Crash, StopIff, Is
  <2> QED
    BY <2>1, <2>2
<1>3. CASE UNCHANGED <<decide, current, stopping>>
  BY <1>0, <1>3 DEF StopIff, Is
<1>4. ASSUME NEW i \in Insts, StopBegins(i) PROVE StopIff(m)'
  <2>1. CASE m[1] = i
    <3>1. m = Of(i) <=> Is(m)
      BY <1>0, <2>1 DEF Of, Is
    <3>2. ~Is(m)' /\ UNCHANGED decide /\ stopping' = stopping \cup {Of(i)}
      BY <1>0, <1>4, <2>1 DEF StopBegins, Is
    <3> QED
      BY <1>0, <3>1, <3>2 DEF StopIff
  <2>2. CASE m[1] # i
    BY <1>0, <1>4, <2>2 DEF StopBegins, StopIff, Is, Of
  <2> QED
    BY <2>1, <2>2
<1>5. ASSUME NEW n \in Managers, \A o \in Managers : o # n => decide'[o] = decide[o],
             decide[n].pc # "none", decide'[n].pc # "none", UNCHANGED <<current, stopping>>
      PROVE  StopIff(m)'
  BY <1>0, <1>5 DEF StopIff, Is
<1> QED
  BY <1>0, <1>1, <1>2, <1>3, <1>4, <1>5, DecideMoves
\* A manager whose own thread, references and, before its stop, sockets are left alone.
LEMMA PlacedStays ==
    ASSUME NEW m \in Managers, Placed(m), decide'[m] = decide[m],
           m \in listener' => m \in listener, m \in loopback' => m \in loopback,
           m \in stopping => m \in stopping',
           m \notin stopping' =>
              /\ m \in listener <=> m \in listener'
              /\ m \in loopback <=> m \in loopback'
              /\ hub'[m] = hub[m] /\ (node'[m] <=> node[m])
    PROVE  Placed(m)'
<1>1. decide'[m].pc = decide[m].pc /\ decide'[m].mode = decide[m].mode
  OBVIOUS
<1>2. CASE m \in stopping'
  BY <1>1, <1>2 DEF Placed
<1>3. CASE m \notin stopping'
  <2>1. hub'[m] = hub[m] /\ (node'[m] <=> node[m])
    BY <1>3
  <2>2. (m \in listener <=> m \in listener') /\ (m \in loopback <=> m \in loopback') /\ m \notin stopping
    BY <1>3
  <2> QED
    BY <1>1, <2>1, <2>2 DEF Placed
<1> QED
  BY <1>2, <1>3

\* A thread that moves on among the places of its kind.
LEMMA PlacedMoves ==
    ASSUME NEW m \in Managers, Placed(m), decide'[m].mode = decide[m].mode,
           UNCHANGED <<listener, loopback, hub, node, stopping>>,
           \/ decide[m].pc \in Early /\ decide'[m].pc \in Early
           \/ decide[m].pc \in Over /\ decide'[m].pc \in Over
           \/ decide[m].pc = "bound" /\ decide'[m].pc = "assign"
           \/ decide[m].pc = "boundlocal" /\ decide'[m].pc = "assignlocal"
           \/ m \in stopping /\ decide'[m].pc \in Over
    PROVE  Placed(m)'
<1>1. CASE decide[m].pc \in Early /\ decide'[m].pc \in Early
  BY <1>1 DEF Placed, Early, Over
<1>2. CASE decide[m].pc \in Over /\ decide'[m].pc \in Over
  BY <1>2 DEF Placed, Early, Over
<1>3. CASE decide[m].pc = "bound" /\ decide'[m].pc = "assign"
  BY <1>3 DEF Placed, Early, Over
<1>4. CASE decide[m].pc = "boundlocal" /\ decide'[m].pc = "assignlocal"
  BY <1>4 DEF Placed, Early, Over
<1>5. CASE m \in stopping /\ decide'[m].pc \in Over
  BY <1>5 DEF Placed, Early, Over
<1> QED
  BY <1>1, <1>2, <1>3, <1>4, <1>5

LEMMA PlacedStep ==
    ASSUME RoleInv, RoleMove, NEW m \in Managers
    PROVE  Placed(m)'
<1>0. /\ decide \in [Managers -> DecideRecords] /\ Placed(m) /\ StopIff(m)
      /\ hub \in [Managers -> {"none", "shared", "loopback"}] /\ node \in [Managers -> BOOLEAN]
      /\ RoleTypes /\ Hubs /\ \A i \in Insts : LoadsInOrder(i)
      /\ m = <<m[1], m[2]>>
  BY ManagerIsPair DEF RoleInv, RoleTypes
<1>1. ASSUME NEW i \in Insts, Load(i) PROVE Placed(m)'
  <2> DEFINE k == Loads(i) + 1
  <2>1. <<i, k>> \in Managers /\ decide[<<i, k>>].pc = "none"
    BY <1>0, <1>1, LoadIsNew DEF Load
  <2>2. /\ decide' = [decide EXCEPT ![<<i, k>>].pc = "probe", ![<<i, k>>].token = token[i]]
        /\ UNCHANGED <<listener, loopback, hub, node, stopping>>
    BY <1>1 DEF Load
  <2> HIDE DEF k
  <2>3. CASE m = <<i, k>>
    <3>1. decide'[m].pc = "probe" /\ decide'[m].mode = decide[m].mode
      BY <1>0, <2>1, <2>2, <2>3 DEF DecideRecords
    <3> QED
      BY <1>0, <2>1, <2>2, <2>3, <3>1, PlacedMoves DEF Early
  <2>4. CASE m # <<i, k>>
    BY <1>0, <2>1, <2>2, <2>4, PlacedStays
  <2> QED
    BY <2>3, <2>4
<1>2. ASSUME NEW i \in Insts, Unload(i) \/ Claim(i) \/ Forget(i) PROVE Placed(m)'
  <2>1. UNCHANGED <<decide, listener, loopback, hub, node>> /\ stopping \subseteq stopping'
    BY <1>2 DEF Unload, Claim, Forget, StopBegins
  <2> QED
    BY <1>0, <2>1, PlacedStays
<1>3. ASSUME NEW n \in Managers,
             Probe(n) \/ EnrolledStaysClient(n) \/ DecideFree(n) \/ StopRequested(n) \/ Report(n) \/ Remember(n)
      PROVE  Placed(m)'
  <2>1. UNCHANGED <<listener, loopback, hub, node, stopping>>
    BY <1>3 DEF Probe, EnrolledStaysClient, DecideFree, StopRequested, Report, Remember, ThreadOnly
  <2>2. CASE m # n
    <3>1. decide'[m] = decide[m]
      BY <1>0, <1>3, <2>2 DEF Probe, EnrolledStaysClient, DecideFree, StopRequested, Report, Remember, Goto
    <3> QED
      BY <1>0, <2>1, <3>1, PlacedStays
  <2>3. CASE m = n
    <3>1. CASE Probe(m)
      <4>1. decide[m].pc \in Early /\ decide'[m].pc \in Early /\ decide'[m].mode = decide[m].mode
        BY <1>0, <3>1 DEF Probe, At, Early, DecideRecords
      <4> QED
        BY <1>0, <2>1, <4>1, PlacedMoves
    <3>2. CASE EnrolledStaysClient(m)
      <4>1. decide[m].pc \in Early /\ decide'[m].pc \in Early /\ decide'[m].mode = decide[m].mode
        BY <1>0, <3>2 DEF EnrolledStaysClient, Goto, At, Early, DecideRecords
      <4> QED
        BY <1>0, <2>1, <4>1, PlacedMoves
    <3>3. CASE DecideFree(m)
      <4>1. decide[m].pc \in Early /\ decide'[m].pc \in Early /\ decide'[m].mode = decide[m].mode
        BY <1>0, <3>3, GotoDoes DEF DecideFree, At, Early
      <4> QED
        BY <1>0, <2>1, <4>1, PlacedMoves
    <3>4. CASE StopRequested(m)
      <4>1. m \in stopping /\ decide'[m].pc \in Over /\ decide'[m].mode = decide[m].mode
        BY <1>0, <3>4, GotoDoes DEF StopRequested, Over
      <4> QED
        BY <1>0, <2>1, <4>1, PlacedMoves
    <3>5. CASE Report(m) \/ Remember(m)
      <4>1. decide[m].pc \in Over /\ decide'[m].pc \in Over /\ decide'[m].mode = decide[m].mode
        BY <1>0, <3>5, GotoDoes DEF Report, Remember, At, Over
      <4> QED
        BY <1>0, <2>1, <4>1, PlacedMoves
    <3> QED
      BY <1>3, <2>3, <3>1, <3>2, <3>3, <3>4, <3>5
  <2> QED
    BY <2>2, <2>3
<1>4. ASSUME NEW n \in Managers, Bind(n) PROVE Placed(m)'
  <2>1. UNCHANGED <<loopback, hub, node, stopping>> /\ n \notin stopping /\ decide[n].pc = "bind"
    BY <1>4 DEF Bind, Building, At
  <2>2. CASE Free /\ listener' = {n} /\ Goto(n, "bound")
    <3>1. listener = {}
      BY <2>2 DEF Free
    <3>2. CASE m = n
      <4>1. decide'[m].pc = "bound" /\ m \notin loopback
        BY <1>0, <2>1, <2>2, <3>2, GotoDoes DEF Placed, Early
      <4> QED
        BY <1>0, <2>1, <2>2, <3>2, <4>1 DEF Placed, Early, Over
    <3>3. CASE m # n
      BY <1>0, <2>1, <2>2, <3>1, <3>3, GotoDoes, PlacedStays
    <3> QED
      BY <3>2, <3>3
  <2>3. CASE Goto(n, "local") /\ UNCHANGED listener
    <3>1. CASE m = n
      BY <1>0, <2>1, <2>3, <3>1, GotoDoes, PlacedMoves DEF Early
    <3>2. CASE m # n
      BY <1>0, <2>1, <2>3, <3>2, GotoDoes, PlacedStays
    <3> QED
      BY <3>1, <3>2
  <2> QED
    BY <1>4, <2>2, <2>3 DEF Bind
<1>5. ASSUME NEW n \in Managers, BindLoopback(n) PROVE Placed(m)'
  <2>1. /\ UNCHANGED <<listener, hub, node, stopping>> /\ n \notin stopping /\ decide[n].pc = "local"
        /\ loopback' = loopback \cup {n} /\ Goto(n, "boundlocal")
    BY <1>5 DEF BindLoopback, Building, At
  <2>2. CASE m = n
    <3>1. decide'[m].pc = "boundlocal" /\ m \notin listener
      BY <1>0, <2>1, <2>2, GotoDoes DEF Placed, Early
    <3> QED
      BY <1>0, <2>1, <2>2, <3>1 DEF Placed, Early, Over
  <2>3. CASE m # n
    BY <1>0, <2>1, <2>3, GotoDoes, PlacedStays
  <2> QED
    BY <2>2, <2>3
<1>6. ASSUME NEW n \in Managers, StartNode(n) PROVE Placed(m)'
  <2>1. /\ UNCHANGED <<listener, loopback, hub, node, stopping>> /\ decide[n].pc = "dial"
        /\ Goto(n, "dialled") \/ Goto(n, "local")
    BY <1>6 DEF StartNode, Building, At
  <2>2. CASE m = n
    BY <1>0, <2>1, <2>2, GotoDoes, PlacedMoves DEF Early
  <2>3. CASE m # n
    BY <1>0, <2>1, <2>3, GotoDoes, PlacedStays
  <2> QED
    BY <2>2, <2>3
<1>7. ASSUME NEW n \in Managers, Abandon(n) PROVE Placed(m)'
  <2>1. UNCHANGED <<hub, node, stopping>>
    BY <1>7 DEF Abandon
  <2>2. CASE n \in stopping
    <3>1. Goto(n, "report") /\ listener' = listener \ {n} /\ loopback' = loopback \ {n}
      BY <1>7, <2>2 DEF Abandon, Close
    <3>2. CASE m = n
      BY <1>0, <2>1, <2>2, <3>1, <3>2, GotoDoes DEF Placed, Early
    <3>3. CASE m # n
      BY <1>0, <2>1, <3>1, <3>3, GotoDoes, PlacedStays
    <3> QED
      BY <3>2, <3>3
  <2>3. CASE n \notin stopping
    <3>1. /\ \/ decide[n].pc = "bound" /\ Goto(n, "assign")
             \/ decide[n].pc = "boundlocal" /\ Goto(n, "assignlocal")
             \/ decide[n].pc = "dialled" /\ Goto(n, "assignnode")
          /\ UNCHANGED <<listener, loopback>>
      BY <1>7, <2>3 DEF Abandon, At
    <3>2. CASE m = n
      BY <1>0, <2>1, <3>1, <3>2, GotoDoes, PlacedMoves DEF Early
    <3>3. CASE m # n
      BY <1>0, <2>1, <3>1, <3>3, GotoDoes, PlacedStays
    <3> QED
      BY <3>2, <3>3
  <2> QED
    BY <2>2, <2>3
<1>8. ASSUME NEW n \in Managers, Assign(n) PROVE Placed(m)'
  <2>1. UNCHANGED <<listener, loopback, stopping>>
    BY <1>8 DEF Assign
  <2>2. CASE m # n
    <3>1. decide'[m] = decide[m] /\ hub'[m] = hub[m] /\ (node'[m] <=> node[m])
      BY <1>0, <1>8, <2>2 DEF Assign
    <3> QED
      BY <1>0, <2>1, <3>1, PlacedStays
  <2>3. CASE m = n
    <3>1. decide'[m].pc = "report"
      BY <1>0, <1>8, <2>3 DEF Assign, DecideRecords
    <3>2. CASE decide[m].pc = "assign"
      <4>1. decide'[m].mode = "server" /\ hub'[m] = "shared" /\ (node'[m] <=> node[m])
        BY <1>0, <1>8, <2>3, <3>2 DEF Assign, At, DecideRecords
      <4> QED
        BY <1>0, <2>1, <3>1, <3>2, <4>1 DEF Placed, Early, Over
    <3>3. CASE decide[m].pc = "assignlocal"
      <4>1. decide'[m].mode = "local" /\ hub'[m] = "loopback" /\ (node'[m] <=> node[m])
        BY <1>0, <1>8, <2>3, <3>3 DEF Assign, At, DecideRecords
      <4> QED
        BY <1>0, <2>1, <3>1, <3>3, <4>1 DEF Placed, Early, Over
    <3>4. CASE decide[m].pc = "assignnode"
      <4>1. decide'[m].mode = "client" /\ hub'[m] = hub[m] /\ node'[m]
        BY <1>0, <1>8, <2>3, <3>4 DEF Assign, At, DecideRecords
      <4> QED
        BY <1>0, <2>1, <3>1, <3>4, <4>1 DEF Placed, Early, Over
    <3> QED
      BY <1>8, <2>3, <3>2, <3>3, <3>4 DEF Assign
  <2> QED
    BY <2>2, <2>3
<1>9. ASSUME NEW n \in Managers, StopTakes(n) PROVE Placed(m)'
  <2>1. /\ UNCHANGED <<decide, stopping>> /\ n \in stopping
        /\ hub' = [hub EXCEPT ![n] = "none"] /\ node' = [node EXCEPT ![n] = FALSE]
        /\ listener \ {n} \subseteq listener' /\ listener' \subseteq listener
        /\ loopback \ {n} \subseteq loopback' /\ loopback' \subseteq loopback
    BY <1>9 DEF StopTakes, Close
  <2>2. m \notin stopping => hub'[m] = hub[m] /\ (node'[m] <=> node[m])
    BY <1>0, <2>1
  <2> QED
    BY <1>0, <2>1, <2>2, PlacedStays
<1>10. ASSUME NEW n \in Managers, Reconnect(n) \/ Break(n) PROVE Placed(m)'
  BY <1>0, <1>10, PlacedStays DEF Reconnect, Break
<1>11. ASSUME NEW i \in Insts, Crash(i) PROVE Placed(m)'
  <2>1. CASE m[1] = i
    <3>1. m \notin listener' /\ m \notin loopback' /\ hub'[m] = "none" /\ ~node'[m]
      BY <1>0, <1>11, <2>1 DEF Crash, Close
    <3>2. CASE decide[m].pc = "none"
      <4>1. decide'[m] = decide[m]
        BY <1>11, <3>2 DEF Crash
      <4> QED
        BY <3>1, <3>2, <4>1 DEF Placed, Early, Over
    <3>3. CASE decide[m].pc # "none"
      <4>1. decide'[m].pc = "done" /\ m \in stopping'
        BY <1>0, <1>11, <2>1, <3>3 DEF Crash, DecideRecords
      <4> QED
        BY <3>1, <4>1 DEF Placed, Early
    <3> QED
      BY <3>2, <3>3
  <2>2. CASE m[1] # i
    <3>1. /\ decide'[m] = decide[m] /\ hub'[m] = hub[m] /\ (node'[m] <=> node[m])
          /\ m \in listener <=> m \in listener'
          /\ m \in loopback <=> m \in loopback'
          /\ stopping \subseteq stopping'
      BY <1>0, <1>11, <2>2 DEF Crash, Close
    <3> QED
      BY <1>0, <3>1, PlacedStays
  <2> QED
    BY <2>1, <2>2
<1>12. CASE Foreign
  BY <1>0, <1>12, PlacedStays DEF Foreign
<1> QED
  BY <1>1, <1>2, <1>3, <1>4, <1>5, <1>6, <1>7, <1>8, <1>9, <1>10, <1>11, <1>12 DEF RoleMove, RoleStep
LEMMA EntitledStays ==
    ASSUME NEW m \in Managers, Entitled(m), m \in listener' => m \in listener \/ decide[m].pc = "bind",
           decide'[m].pc \in {"free?", "bind"} => decide[m].pc \in {"free?", "bind"},
           decide'[m].token = decide[m].token, decide'[m].moved = decide[m].moved,
           decide'[m].hint = decide[m].hint
    PROVE  Entitled(m)'
  BY DEF Entitled

LEMMA EntitledStep ==
    ASSUME RoleInv, RoleMove, NEW m \in Managers
    PROVE  Entitled(m)'
<1>0. /\ decide \in [Managers -> DecideRecords] /\ Placed(m) /\ Entitled(m) /\ RoleTypes
      /\ \A i \in Insts : LoadsInOrder(i)
      /\ m = <<m[1], m[2]>> /\ decide[m].token \in BOOLEAN
  BY ManagerIsPair DEF RoleInv, RoleTypes, DecideRecords
<1>1. ASSUME NEW i \in Insts, Load(i) PROVE Entitled(m)'
  <2> DEFINE k == Loads(i) + 1
  <2>1. <<i, k>> \in Managers /\ decide[<<i, k>>].pc = "none"
    BY <1>0, <1>1, LoadIsNew DEF Load
  <2>2. /\ decide' = [decide EXCEPT ![<<i, k>>].pc = "probe", ![<<i, k>>].token = token[i]]
        /\ UNCHANGED listener
    BY <1>1 DEF Load
  <2> HIDE DEF k
  <2>3. CASE m = <<i, k>>
    <3>1. decide'[m].pc = "probe" /\ m \notin listener
      BY <1>0, <2>1, <2>2, <2>3 DEF DecideRecords, Placed, Early
    <3> QED
      BY <2>2, <3>1 DEF Entitled
  <2>4. CASE m # <<i, k>>
    BY <1>0, <2>1, <2>2, <2>4, EntitledStays
  <2> QED
    BY <2>3, <2>4
<1>2. ASSUME UNCHANGED decide, listener' \subseteq listener PROVE Entitled(m)'
  BY <1>0, <1>2, EntitledStays
<1>3. ASSUME NEW n \in Managers, NEW pc, Goto(n, pc), pc # "free?",
             pc = "bind" => decide[n].pc = "free?", listener' \subseteq listener
      PROVE  Entitled(m)'
  <2>1. CASE m = n
    BY <1>0, <1>3, <2>1, GotoDoes, EntitledStays
  <2>2. CASE m # n
    BY <1>0, <1>3, <2>2, GotoDoes, EntitledStays
  <2> QED
    BY <2>1, <2>2
<1>4. ASSUME NEW n \in Managers, Probe(n) PROVE Entitled(m)'
  <2>0. UNCHANGED listener
    BY <1>4 DEF Probe, ThreadOnly
  <2>1. CASE m = n
    <3>1. m \notin listener
      BY <1>0, <1>4, <2>1 DEF Probe, At, Placed, Early
    <3>2. /\ decide'[m].token = decide[m].token /\ decide'[m].hint = role[m[1]]
          /\ \/ m[1] \in Forced
             \/ decide'[m].pc \in {"dial", "local", "enrolled"}
             \/ ~(decide[m].token /\ role[m[1]] # "server")
      BY <1>0, <1>4, <2>1 DEF Probe, DecideRecords
    <3> QED
      BY <2>0, <3>1, <3>2 DEF Entitled
  <2>2. CASE m # n
    BY <1>0, <1>4, <2>0, <2>2, EntitledStays DEF Probe
  <2> QED
    BY <2>1, <2>2
<1>5. ASSUME NEW n \in Managers, EnrolledStaysClient(n) PROVE Entitled(m)'
  <2>0. UNCHANGED listener
    BY <1>5 DEF EnrolledStaysClient, ThreadOnly
  <2>1. CASE decide' = [decide EXCEPT ![n].pc = "free?", ![n].moved = TRUE]
    <3>1. CASE m = n
      BY <1>0, <2>1, <3>1 DEF Entitled, DecideRecords
    <3>2. CASE m # n
      BY <1>0, <2>0, <2>1, <3>2, EntitledStays
    <3> QED
      BY <3>1, <3>2
  <2>2. CASE Goto(n, "dial")
    BY <1>3, <2>0, <2>2
  <2> QED
    BY <1>5, <2>1, <2>2 DEF EnrolledStaysClient
<1>6. ASSUME NEW n \in Managers, DecideFree(n) \/ StopRequested(n) \/ Report(n) \/ Remember(n) PROVE Entitled(m)'
  BY <1>3, <1>6 DEF DecideFree, StopRequested, Report, Remember, ThreadOnly, At
<1>7. ASSUME NEW n \in Managers, Bind(n) PROVE Entitled(m)'
  <2>1. CASE listener' = {n} /\ Goto(n, "bound")
    <3>1. decide[n].pc = "bind"
      BY <1>7 DEF Bind, Building, At
    <3>2. CASE m = n
      BY <1>0, <2>1, <3>1, <3>2, GotoDoes, EntitledStays
    <3>3. CASE m # n
      BY <1>0, <2>1, <3>3, GotoDoes, EntitledStays
    <3> QED
      BY <3>2, <3>3
  <2>2. CASE Goto(n, "local") /\ UNCHANGED listener
    BY <1>3, <2>2
  <2> QED
    BY <1>7, <2>1, <2>2 DEF Bind
<1>8. ASSUME NEW n \in Managers, BindLoopback(n) \/ StartNode(n) \/ Abandon(n) PROVE Entitled(m)'
  <2>1. listener' \subseteq listener
    BY <1>8 DEF BindLoopback, StartNode, Abandon, Close
  <2>2. \E pc : pc # "free?" /\ pc # "bind" /\ Goto(n, pc)
    BY <1>8 DEF BindLoopback, StartNode, Abandon
  <2> QED
    BY <1>3, <2>1, <2>2
<1>9. ASSUME NEW n \in Managers, Assign(n) PROVE Entitled(m)'
  <2>1. /\ decide'[m].token = decide[m].token /\ decide'[m].moved = decide[m].moved
        /\ decide'[m].hint = decide[m].hint
        /\ decide'[m].pc = decide[m].pc \/ decide'[m].pc = "report"
        /\ UNCHANGED listener
    BY <1>0, <1>9 DEF Assign, DecideRecords
  <2> QED
    BY <1>0, <2>1, EntitledStays
<1>10. ASSUME NEW n \in Managers, StopTakes(n) \/ Reconnect(n) \/ Break(n) PROVE Entitled(m)'
  BY <1>2, <1>10 DEF StopTakes, Reconnect, Break, Close
<1>11. ASSUME NEW i \in Insts, Unload(i) \/ Claim(i) \/ Forget(i) PROVE Entitled(m)'
  BY <1>2, <1>11 DEF Unload, Claim, Forget, StopBegins
<1>12. ASSUME NEW i \in Insts, Crash(i) PROVE Entitled(m)'
  <2>1. /\ decide'[m].token = decide[m].token /\ decide'[m].moved = decide[m].moved
        /\ decide'[m].hint = decide[m].hint
        /\ decide'[m].pc = decide[m].pc \/ decide'[m].pc = "done"
        /\ listener' \subseteq listener
    BY <1>0, <1>12 DEF Crash, Close, DecideRecords
  <2> QED
    BY <1>0, <2>1, EntitledStays
<1>13. CASE Foreign
  BY <1>2, <1>13 DEF Foreign
<1> QED
  BY <1>1, <1>4, <1>5, <1>6, <1>7, <1>8, <1>9, <1>10, <1>11, <1>12, <1>13 DEF RoleMove, RoleStep

LEMMA RoleInvInit == RoleInit => RoleInv
<1> SUFFICES ASSUME RoleInit PROVE RoleInv
  OBVIOUS
<1>1. RoleTypes
  <2>1. NoThread \in DecideRecords
    BY DEF NoThread, DecideRecords, Pcs, Modes, Hints
  <2> QED
    BY <2>1, LoadsBoundNat DEF RoleInit, RoleTypes, Hints, Modes
<1>2. Hubs
  BY DEF RoleInit, Hubs
<1>3. \A m \in Managers : decide[m].pc = "none"
  BY DEF RoleInit, NoThread
<1>4. ASSUME NEW i \in Insts PROVE LoadsInOrder(i)
  <2>1. \A g \in 1..MaxLoads : decide[<<i, g>>].pc # "none" <=> g <= 0
    BY <1>3, LoadsBoundNat DEF Managers
  <2> QED
    BY <2>1, LoadsBoundNat DEF LoadsInOrder
<1>5. ASSUME NEW m \in Managers PROVE StopIff(m) /\ Placed(m) /\ Entitled(m)
  <2>1. /\ m \notin stopping /\ m \notin listener /\ m \notin loopback /\ ~Is(m)
        /\ hub[m] = "none" /\ ~node[m] /\ decide[m].pc = "none"
    BY <1>3, ManagerIsPair DEF RoleInit, Is
  <2> QED
    BY <2>1 DEF StopIff, Placed, Entitled, Early, Over
<1> QED
  BY <1>1, <1>2, <1>4, <1>5 DEF RoleInv

LEMMA RoleInvStep == RoleInv /\ RoleMove => RoleInv'
  BY RoleTypesStep, HubsStep, LoadsStep, StopStep, PlacedStep, EntitledStep DEF RoleInv, Managers

LEMMA RoleInvUntouched == RoleInv /\ UNCHANGED roleVars => RoleInv'
  BY DEF RoleInv, RoleTypes, Hubs, LoadsInOrder, StopIff, Placed, Entitled, Is, roleVars

\* No other step touches the roles.
LEMMA RoleNext ==
    ASSUME RoleInv, [Next]_vars
    PROVE  RoleInv'
<1>1. RoleMove \/ UNCHANGED roleVars
  BY DEF Next, RoleMove, vars, Type, ShouldForward, ClientLinkIsDown, RunHere, FanOut, ForwardOpens, ForwardSends,
     HubReads, NodeReads, HubRelays, RenderRemoteReply, ExecuteTool, RunJob, Answer, RouteTool,
     SendTool, ToolUnknown
<1> QED
  BY <1>1, RoleInvStep, RoleInvUntouched

\* An enrolled node that its role file knows as a client never listens on the hub's
\* address unless the port was freed while it decided (decide_mode).
THEOREM ClientsDoNotServe == Spec => []ClientsStayClients
<1>1. Init => RoleInv
  BY RoleInvInit DEF Init
<1>2. RoleInv /\ [Next]_vars => RoleInv'
  BY RoleNext
<1>3. RoleInv => ClientsStayClients
  BY DEF RoleInv, RoleTypes, Entitled, ClientsStayClients
<1> QED
  BY <1>1, <1>2, <1>3, PTL DEF Spec

\* A loaded instance whose decision is over has the hub, the node or the loopback
\* hub that its mode says (CrossServerManager.start, stop, _abandon).
THEOREM RolesMatch == Spec => []RoleMatchesLink
<1>1. Init => RoleInv
  BY RoleInvInit DEF Init
<1>2. RoleInv /\ [Next]_vars => RoleInv'
  BY RoleNext
<1>3. RoleInv => RoleMatchesLink
  <2> SUFFICES ASSUME RoleInv, NEW i \in Insts, current[i] # 0, decide[Of(i)].pc \in {"remember", "done"}
               PROVE  /\ decide[Of(i)].mode = "server" <=> hub[Of(i)] = "shared"
                      /\ decide[Of(i)].mode = "client" <=> node[Of(i)]
                      /\ hub[Of(i)] = "shared" <=> Of(i) \in listener
                      /\ hub[Of(i)] = "loopback" <=> Of(i) \in loopback
    BY DEF RoleMatchesLink
  <2>1. Of(i) \in Managers /\ Is(Of(i))
    BY OfIsManager DEF RoleInv, RoleTypes
  <2>2. Of(i) \notin stopping /\ Placed(Of(i))
    BY <2>1 DEF RoleInv, StopIff
  <2> QED
    BY <2>2 DEF Placed, Over
<1> QED
  BY <1>1, <1>2, <1>3, PTL DEF Spec

-----------------------------------------------------------------------------
(* Types of the commands. *)

CmdPcs == {"none", "typed", "link", "run", "fan", "forward", "send", "over", "refused"}
Sids == Insts \X Nat
CmdRecords == [pc : CmdPcs, at : Insts \cup {"nowhere"}, kind : Kinds, sid : Sids \cup {<<>>}]
SessionRecords == [sid : Sids, cmd : Cmds]
JobRecords == [cmd : Cmds, at : Insts, sid : Sids, pc : {"run", "answer", "send", "wait"},
               told : {"nothing", "not executed", "unknown", "result"}]

RouteTypes ==
    /\ cmd \in [Cmds -> CmdRecords]
    /\ session \in [Insts -> Seq(SessionRecords)] /\ minted \in [Insts -> Nat]
    /\ wire \subseteq Frames /\ job \subseteq JobRecords
    /\ ran \in [Cmds -> [Insts -> Nat]] /\ toolRan \subseteq Cmds \X Insts
    /\ shown \subseteq Cmds \X Insts \X Cmds

\* What carries a session carries the one of its command, which was typed somewhere.
Tagged ==
    /\ \A c \in Cmds : cmd[c].pc # "none" => cmd[c].at \in Insts
    /\ \A c \in Cmds : cmd[c].pc = "send" => cmd[c].sid \in Sids
    /\ \A c \in Cmds : cmd[c].sid \in Sids => cmd[c].pc \in {"send", "over", "refused"}
    /\ \A x \in wire \cup job : x.sid = cmd[x.cmd].sid /\ cmd[x.cmd].pc # "none"

LEMMA NowhereMinted == <<>> \notin Sids
  BY DEF Sids

LEMMA ElementsOfSeq ==
    ASSUME NEW S, NEW s \in Seq(S)
    PROVE  /\ ToSet(s) \subseteq S
           /\ \A x \in ToSet(s) : \E k \in 1..Len(s) : x = s[k]
           /\ \A k \in 1..Len(s) : s[k] \in ToSet(s)
  BY ElementOfSeq, LenProperties DEF ToSet

\* SessionRegistry.new adds one entry and forgets some of the oldest.
LEMMA SessionOpens ==
    ASSUME NEW i \in Insts, NEW c \in Cmds, NewSession(i, c), SessionsBound,
           session \in [Insts -> Seq(SessionRecords)], minted \in [Insts -> Nat]
    PROVE  /\ session' \in [Insts -> Seq(SessionRecords)] /\ minted' \in [Insts -> Nat]
           /\ minted'[i] = minted[i] + 1 /\ SessionId(i) \in Sids
           /\ \A j \in Insts : j # i => minted'[j] = minted[j] /\ session'[j] = session[j]
           /\ ToSet(session'[i]) \subseteq ToSet(session[i]) \cup {[sid |-> SessionId(i), cmd |-> c]}
           /\ Len(session'[i]) <= MaxSessions
<1> DEFINE s == session[i]
           new == [sid |-> SessionId(i), cmd |-> c]
           all == Append(s, new)
<1>1. /\ s \in Seq(SessionRecords) /\ minted[i] \in Nat /\ Len(s) \in Nat
  BY LenProperties
<1>2. SessionId(i) \in Sids
  BY <1>1 DEF SessionId, Sids
<1>3. new \in SessionRecords
  BY <1>2 DEF SessionRecords
<1>4. PICK n \in 0..(Len(all) - 1) :
         /\ Len(all) - n <= MaxSessions
         /\ session' = [session EXCEPT ![i] = SubSeq(all, n + 1, Len(all))]
         /\ minted' = [minted EXCEPT ![i] = @ + 1]
  BY DEF NewSession
<1> HIDE DEF s, new
<1>5. /\ all \in Seq(SessionRecords) /\ Len(all) = Len(s) + 1
      /\ \A k \in 1..Len(s) : all[k] = s[k]
      /\ all[Len(s) + 1] = new
  BY <1>1, <1>3, AppendProperties
<1> HIDE DEF all
<1>6. \A k \in 1..Len(all) : all[k] \in SessionRecords /\ all[k] \in ToSet(s) \cup {new}
  BY <1>1, <1>5, ElementOfSeq, ElementsOfSeq
<1> DEFINE kept == SubSeq(all, n + 1, Len(all))
<1>7. /\ n \in Int /\ n + 1 \in Int /\ Len(all) \in Int /\ n + 1 <= Len(all)
      /\ \A k \in (n + 1)..Len(all) : all[k] \in SessionRecords
  BY <1>1, <1>5, <1>6
<1>8. /\ kept \in Seq(SessionRecords) /\ Len(kept) = Len(all) - n
      /\ \A k \in 1..(Len(all) - n) : kept[k] = all[k + n]
  BY <1>7, SubSeqProperties
<1>9. kept \in Seq(SessionRecords) /\ session'[i] = kept
  BY <1>4, <1>8
<1> HIDE DEF kept
<1>10. ToSet(kept) \subseteq ToSet(s) \cup {new}
  <2> SUFFICES ASSUME NEW x \in ToSet(kept) PROVE x \in ToSet(s) \cup {new}
    OBVIOUS
  <2>1. PICK k \in 1..Len(kept) : x = kept[k]
    BY <1>9, ElementsOfSeq
  <2>2. k + n \in 1..Len(all) /\ x = all[k + n]
    BY <1>4, <1>7, <1>8, <2>1
  <2> QED
    BY <1>6, <2>2
<1>11. session' = [session EXCEPT ![i] = kept]
  BY <1>4 DEF kept
<1>12. session' \in [Insts -> Seq(SessionRecords)] /\ minted' \in [Insts -> Nat]
  BY <1>1, <1>4, <1>9, <1>11
<1>13. Len(session'[i]) <= MaxSessions
  BY <1>4, <1>8, <1>9
<1> QED
  BY <1>1, <1>2, <1>4, <1>9, <1>10, <1>12, <1>13, <1>11 DEF s, new

\* SessionRegistry.discard
LEMMA SessionCloses ==
    ASSUME NEW s \in Seq(SessionRecords), NEW x
    PROVE  /\ RemoveFirst(s, x) \in Seq(SessionRecords)
           /\ ToSet(RemoveFirst(s, x)) \subseteq ToSet(s)
           /\ Len(RemoveFirst(s, x)) <= Len(s)
<1>0. Len(s) \in Nat
  BY LenProperties
<1>1. CASE ~ \E k \in 1..Len(s) : s[k] = x
  BY <1>0, <1>1 DEF RemoveFirst
<1>2. CASE \E k \in 1..Len(s) : s[k] = x
  <2> DEFINE I == {k \in 1..Len(s) : s[k] = x}
             k == Min(I)
             a == SubSeq(s, 1, k - 1)
             b == SubSeq(s, k + 1, Len(s))
  <2>1. k \in 1..Len(s)
    <3>1. I # {} /\ I \subseteq Nat
      BY <1>0, <1>2
    <3> HIDE DEF I
    <3>2. \E y \in I : \A z \in I : ~ (<<z, y>> \in OpToRel(<, Nat))
      BY <3>1, WFMin, NatLessThanWellFounded, Zenon
    <3>3. \A y, z \in Nat : z < y => <<z, y>> \in OpToRel(<, Nat)
      BY Zenon DEF OpToRel
    <3>4. \E y \in I : \A z \in I : ~(z < y)
      BY <3>1, <3>2, <3>3, Zenon
    <3>5. \E y \in I : \A z \in I : y <= z
      BY <3>1, <3>4
    <3>6. k \in I
      BY <3>5 DEF Min
    <3> QED
      BY <3>6 DEF I
  <2>2. RemoveFirst(s, x) = a \o b
    BY <1>2 DEF RemoveFirst, RemoveAt, SelectInSeq
  <2> HIDE DEF k
  <2>3. /\ a \in Seq(SessionRecords) /\ Len(a) = k - 1
        /\ \A n \in 1..(k - 1) : a[n] = s[n]
    <3>1. \A n \in 1..(k - 1) : s[n] \in SessionRecords
      BY <1>0, <2>1, ElementOfSeq
    <3>2. k - 1 \in Int /\ 1 \in Int
      BY <1>0, <2>1
    <3>3. /\ a \in Seq(SessionRecords) /\ Len(a) = (IF 1 <= k - 1 THEN (k - 1) - 1 + 1 ELSE 0)
          /\ \A n \in 1..((k - 1) - 1 + 1) : a[n] = s[1 + n - 1]
      BY <3>1, <3>2, SubSeqProperties
    <3> QED
      BY <1>0, <2>1, <3>2, <3>3
  <2>4. /\ b \in Seq(SessionRecords) /\ Len(b) = Len(s) - k
        /\ \A n \in 1..(Len(s) - k) : b[n] = s[n + k]
    <3>1. \A n \in (k + 1)..Len(s) : s[n] \in SessionRecords
      BY <1>0, <2>1, ElementOfSeq
    <3>2. k + 1 \in Int /\ Len(s) \in Int
      BY <1>0, <2>1
    <3>3. /\ b \in Seq(SessionRecords)
          /\ Len(b) = (IF k + 1 <= Len(s) THEN Len(s) - (k + 1) + 1 ELSE 0)
          /\ \A n \in 1..(Len(s) - (k + 1) + 1) : b[n] = s[(k + 1) + n - 1]
      BY <3>1, <3>2, SubSeqProperties
    <3> QED
      BY <1>0, <2>1, <3>2, <3>3
  <2> HIDE DEF a, b
  <2>5. /\ a \o b \in Seq(SessionRecords) /\ Len(a \o b) = Len(a) + Len(b)
        /\ \A n \in 1..(Len(a) + Len(b)) : (a \o b)[n] = IF n <= Len(a) THEN a[n] ELSE b[n - Len(a)]
    BY <2>3, <2>4, ConcatProperties
  <2>6. \A n \in 1..Len(a \o b) : \E q \in 1..Len(s) : (a \o b)[n] = s[q]
    <3> SUFFICES ASSUME NEW n \in 1..Len(a \o b) PROVE \E q \in 1..Len(s) : (a \o b)[n] = s[q]
      OBVIOUS
    <3>1. CASE n <= Len(a)
      <4>1. n \in 1..Len(s) /\ (a \o b)[n] = s[n]
        BY <1>0, <2>1, <2>3, <2>4, <2>5, <3>1
      <4> QED
        BY <4>1
    <3>2. CASE ~(n <= Len(a))
      <4>1. n + 1 \in 1..Len(s) /\ (a \o b)[n] = s[n + 1]
        BY <1>0, <2>1, <2>3, <2>4, <2>5, <3>2
      <4> QED
        BY <4>1
    <3> QED
      BY <3>1, <3>2
  <2>7. ToSet(a \o b) \subseteq ToSet(s)
    <3> SUFFICES ASSUME NEW y \in ToSet(a \o b) PROVE y \in ToSet(s)
      OBVIOUS
    <3>1. PICK n \in 1..Len(a \o b) : y = (a \o b)[n]
      BY <2>5, ElementsOfSeq
    <3>2. PICK q \in 1..Len(s) : y = s[q]
      BY <2>6, <3>1
    <3> QED
      BY <3>2, ElementsOfSeq
  <2> QED
    BY <1>0, <2>1, <2>2, <2>3, <2>4, <2>5, <2>7
<1> QED
  BY <1>1, <1>2

\* What a step of its thread does to a command.
LEMMA CmdMoves ==
    ASSUME cmd \in [Cmds -> CmdRecords], NEW c \in Cmds, NEW pc \in CmdPcs, CmdGoto(c, pc)
    PROVE  /\ cmd' \in [Cmds -> CmdRecords] /\ cmd'[c].pc = pc
           /\ cmd'[c].at = cmd[c].at /\ cmd'[c].kind = cmd[c].kind /\ cmd'[c].sid = cmd[c].sid
           /\ \A d \in Cmds : d # c => cmd'[d] = cmd[d]
  BY DEF CmdGoto, CmdRecords

LEMMA CmdMints ==
    ASSUME cmd \in [Cmds -> CmdRecords], NEW c \in Cmds, NEW pc \in CmdPcs, NEW sid \in Sids,
           cmd' = [cmd EXCEPT ![c].pc = pc, ![c].sid = sid]
    PROVE  /\ cmd' \in [Cmds -> CmdRecords] /\ cmd'[c].pc = pc
           /\ cmd'[c].at = cmd[c].at /\ cmd'[c].kind = cmd[c].kind /\ cmd'[c].sid = sid
           /\ \A d \in Cmds : d # c => cmd'[d] = cmd[d]
  BY DEF CmdRecords

LEMMA BroadcastIs ==
    ASSUME RoleTypes, NEW i \in Insts, NEW c \in Cmds, NEW sid \in Sids, NEW f \in Broadcast(i, c, sid)
    PROVE  /\ f \in Frames /\ f.type = "exec" /\ f.cmd = c /\ f.sid = sid /\ f.dir = "down"
           /\ f.via \in up /\ f.to = f.via[1] /\ Of(i) \in listener
<1>1. PICK m \in up : /\ Of(i) \in listener
                      /\ f = [type |-> "exec", cmd |-> c, sid |-> sid, via |-> m, dir |-> "down", to |-> m[1]]
  BY DEF Broadcast
<1>2. m \in Managers /\ m[1] \in Insts
  BY <1>1, ManagerIsPair DEF RoleTypes
<1> QED
  BY <1>1, <1>2 DEF Frames, Sids

LEMMA TowardsIs ==
    ASSUME RoleTypes, NEW type \in {"reply", "tool"}, NEW i \in Insts, NEW t \in Insts, NEW c \in Cmds,
           NEW sid \in Sids, NEW f \in Towards(type, i, t, c, sid)
    PROVE  /\ f \in Frames /\ f.type = type /\ f.cmd = c /\ f.sid = sid /\ f.to = t
           /\ f.via \in up
<1>1. PICK m \in up : \E dir \in {"up", "down"} :
                 f = [type |-> type, cmd |-> c, sid |-> sid, via |-> m, dir |-> dir, to |-> t]
  BY DEF Towards
<1>2. m \in Managers
  BY <1>1 DEF RoleTypes
<1> QED
  BY <1>1, <1>2 DEF Frames, Sids

LEMMA ThreadIs ==
    ASSUME cmd \in [Cmds -> CmdRecords], NEW i \in Insts, NEW c \in Cmds, cmd[c].sid \in Sids
    PROVE  /\ NewThread(i, c) \in JobRecords
           /\ NewThread(i, c).cmd = c /\ NewThread(i, c).at = i /\ NewThread(i, c).sid = cmd[c].sid
           /\ NewThread(i, c).pc = "run" /\ NewThread(i, c).told = "nothing"
  BY DEF NewThread, JobRecords

\* A thread that runs a command goes on.
LEMMA JobMoves ==
    ASSUME job \subseteq JobRecords, NEW j \in job,
           \E pc \in {"run", "answer", "send", "wait"},
              told \in {"nothing", "not executed", "unknown", "result"} :
                 \/ job' = (job \ {j}) \cup {[j EXCEPT !.pc = pc, !.told = told]}
                 \/ told = j.told /\ job' = (job \ {j}) \cup {[j EXCEPT !.pc = pc]}
    PROVE  \E k \in JobRecords : k.cmd = j.cmd /\ k.at = j.at /\ k.sid = j.sid /\ job' = (job \ {j}) \cup {k}
<1>1. PICK pc \in {"run", "answer", "send", "wait"}, told \in {"nothing", "not executed", "unknown", "result"} :
                 \/ job' = (job \ {j}) \cup {[j EXCEPT !.pc = pc, !.told = told]}
                 \/ told = j.told /\ job' = (job \ {j}) \cup {[j EXCEPT !.pc = pc]}
  OBVIOUS
<1> DEFINE k == [j EXCEPT !.pc = pc, !.told = told]
           l == [j EXCEPT !.pc = pc]
<1>2. j \in JobRecords
  OBVIOUS
<1>3. k \in JobRecords /\ k.cmd = j.cmd /\ k.at = j.at /\ k.sid = j.sid
  BY <1>2 DEF JobRecords
<1>4. l \in JobRecords /\ l.cmd = j.cmd /\ l.at = j.at /\ l.sid = j.sid
  BY <1>2 DEF JobRecords
<1>5. job' = (job \ {j}) \cup {k} \/ job' = (job \ {j}) \cup {l}
  BY <1>1
<1> HIDE DEF k, l
<1> QED
  BY <1>3, <1>4, <1>5

\* Frames go over connections that are up.
Routed ==
    /\ RouteTypes /\ Tagged
    /\ \A f \in wire : f.via \in up
    /\ \A i \in Insts : Len(session[i]) <= MaxSessions

\* What an action adds: frames over connections and threads, with the session of a
\* command that was typed.
Added(F, J) ==
    /\ wire' \subseteq {f \in wire : f.via \in up'} \cup F /\ job' \subseteq job \cup J
    /\ \A f \in F : f \in Frames /\ f.via \in up' /\ f.sid = cmd'[f.cmd].sid /\ cmd'[f.cmd].pc # "none"
    /\ \A j \in J : j \in JobRecords /\ j.sid = cmd'[j.cmd].sid /\ cmd'[j.cmd].pc # "none"

\* A command keeps where it was typed, its class, and the session it has.
CmdKept(c) ==
    /\ cmd'[c].at = cmd[c].at /\ cmd'[c].kind = cmd[c].kind
    /\ cmd'[c].sid = cmd[c].sid \/ cmd[c].sid \notin Sids
    /\ cmd'[c].pc # "none"

RecordsTyped ==
    /\ session \in [Insts -> Seq(SessionRecords)] /\ minted \in [Insts -> Nat]
    /\ \A i \in Insts : Len(session[i]) <= MaxSessions
    /\ ran \in [Cmds -> [Insts -> Nat]] /\ toolRan \subseteq Cmds \X Insts
    /\ shown \subseteq Cmds \X Insts \X Cmds

LEMMA RoutedKept ==
    ASSUME Routed, NEW F, NEW J, Added(F, J), RecordsTyped',
           cmd' \in [Cmds -> CmdRecords], \A c \in Cmds : cmd[c].pc # "none" => CmdKept(c),
           \A c \in Cmds : cmd'[c].pc # "none" => cmd'[c].at \in Insts,
           \A c \in Cmds : cmd'[c].pc = "send" => cmd'[c].sid \in Sids,
           \A c \in Cmds : cmd'[c].sid \in Sids => cmd'[c].pc \in {"send", "over", "refused"}
    PROVE  Routed'
<1>1. wire' \subseteq Frames /\ job' \subseteq JobRecords
  BY DEF Routed, RouteTypes, Added
<1>2. RouteTypes'
  BY <1>1 DEF RecordsTyped, RouteTypes
<1>3. ASSUME NEW x \in wire \cup job PROVE x.sid = cmd'[x.cmd].sid /\ cmd'[x.cmd].pc # "none"
  <2>1. x.cmd \in Cmds /\ x.sid \in Sids
    BY DEF Routed, RouteTypes, Frames, JobRecords, Sids
  <2>2. x.sid = cmd[x.cmd].sid /\ cmd[x.cmd].pc # "none"
    BY DEF Routed, Tagged
  <2> QED
    BY <2>1, <2>2 DEF CmdKept
<1>4. Tagged'
  BY <1>3 DEF Tagged, Added
<1>5. \A f \in wire' : f.via \in up'
  BY DEF Added
<1> QED
  BY <1>2, <1>4, <1>5 DEF Routed, RecordsTyped

LEMMA RoutedTypes ==
    ASSUME Routed
    PROVE  /\ cmd \in [Cmds -> CmdRecords] /\ RecordsTyped
           /\ \A c \in Cmds : cmd[c].pc # "none" => cmd[c].at \in Insts
           /\ \A f \in wire : /\ f \in Frames /\ f.cmd \in Cmds /\ f.to \in Insts /\ f.sid \in Sids
                              /\ cmd[f.cmd].at \in Insts /\ cmd[f.cmd].sid = f.sid /\ f.via \in up
           /\ \A j \in job : /\ j \in JobRecords /\ j.cmd \in Cmds /\ j.at \in Insts /\ j.sid \in Sids
                             /\ cmd[j.cmd].at \in Insts /\ cmd[j.cmd].sid = j.sid
  BY DEF Routed, RouteTypes, Tagged, RecordsTyped, Frames, JobRecords, Sids

\* Steps that only move the command's own thread.
LEMMA RoutedMoves ==
    ASSUME Routed, NEW c \in Cmds, NEW pc \in CmdPcs \ {"none", "send"}, CmdGoto(c, pc), cmd[c].pc # "none",
           cmd[c].sid \in Sids => pc \in {"over", "refused"},
           NEW F, NEW J, Added(F, J), RecordsTyped'
    PROVE  Routed'
<1>1. /\ cmd' \in [Cmds -> CmdRecords] /\ cmd'[c].pc = pc
      /\ cmd'[c].at = cmd[c].at /\ cmd'[c].kind = cmd[c].kind /\ cmd'[c].sid = cmd[c].sid
      /\ \A d \in Cmds : d # c => cmd'[d] = cmd[d]
  BY RoutedTypes, CmdMoves
<1>2. \A d \in Cmds : cmd[d].pc # "none" => CmdKept(d)
  BY <1>1 DEF CmdKept
<1> QED
  BY <1>1, <1>2, RoutedKept DEF Routed, Tagged

LEMMA RoutedMints ==
    ASSUME Routed, NEW c \in Cmds, NEW pc \in {"send", "over"}, NEW sid \in Sids,
           cmd' = [cmd EXCEPT ![c].pc = pc, ![c].sid = sid], cmd[c].pc # "none",
           cmd[c].sid \notin Sids, NEW F, NEW J, Added(F, J), RecordsTyped'
    PROVE  Routed'
<1>0. pc \in CmdPcs
  BY DEF CmdPcs
<1>1. /\ cmd' \in [Cmds -> CmdRecords] /\ cmd'[c].pc = pc
      /\ cmd'[c].at = cmd[c].at /\ cmd'[c].kind = cmd[c].kind /\ cmd'[c].sid = sid
      /\ \A d \in Cmds : d # c => cmd'[d] = cmd[d]
  BY <1>0, RoutedTypes, CmdMints
<1>2. \A d \in Cmds : cmd[d].pc # "none" => CmdKept(d)
  BY <1>1 DEF CmdKept
<1> QED
  BY <1>1, <1>2, RoutedKept DEF Routed, Tagged

\* Steps of links and of the threads they start.
LEMMA RoutedWire ==
    ASSUME Routed, UNCHANGED cmd, NEW F, NEW J, Added(F, J), RecordsTyped'
    PROVE  Routed'
<1>1. \A c \in Cmds : cmd[c].pc # "none" => CmdKept(c)
  BY DEF CmdKept
<1>2. cmd \in [Cmds -> CmdRecords]
  BY DEF Routed, RouteTypes
<1>3. \A c \in Cmds : cmd[c].pc # "none" => cmd[c].at \in Insts
  BY DEF Routed, Tagged
<1>4. \A c \in Cmds : cmd[c].pc = "send" => cmd[c].sid \in Sids
  BY DEF Routed, Tagged
<1>5. \A c \in Cmds : cmd[c].sid \in Sids => cmd[c].pc \in {"send", "over", "refused"}
  BY DEF Routed, Tagged
<1> QED
  BY <1>1, <1>2, <1>3, <1>4, <1>5, RoutedKept

LEMMA ShowTypes ==
    ASSUME Routed, NEW c \in Cmds, NEW i \in Insts, NEW sid, Show(c, i, sid)
    PROVE  shown' \subseteq Cmds \X Insts \X Cmds
<1>1. \A s \in ToSet(session[i]) : s.cmd \in Cmds
  <2>1. session[i] \in Seq(SessionRecords)
    BY RoutedTypes DEF RecordsTyped
  <2>2. ToSet(session[i]) \subseteq SessionRecords
    BY <2>1, ElementsOfSeq
  <2> QED
    BY <2>2 DEF SessionRecords
<1> QED
  BY <1>1, RoutedTypes DEF Show, Typists, RecordsTyped

LEMMA NothingAdded ==
    ASSUME Routed, wire' \subseteq wire, job' \subseteq job, UNCHANGED up
    PROVE  Added({}, {})
  BY DEF Added, Routed

LEMMA RecordsUntouched ==
    ASSUME Routed, UNCHANGED <<session, minted, ran, shown, toolRan>>
    PROVE  RecordsTyped'
  BY DEF Routed, RouteTypes, RecordsTyped

\* The thread of a typed command.
LEMMA RoutedThread ==
    ASSUME RoleTypes, Routed, NEW c \in Cmds,
           \/ ShouldForward(c) \/ ClientLinkIsDown(c) \/ RunHere(c) \/ FanOut(c)
           \/ ForwardOpens(c) \/ ForwardSends(c)
    PROVE  Routed'
<1> DEFINE i == cmd[c].at
<1>0. cmd[c].pc # "none" => i \in Insts
  BY RoutedTypes
<1>00. cmd[c].sid \in Sids => cmd[c].pc \in {"send", "over", "refused"}
  BY DEF Routed, Tagged
<1>1. CASE ShouldForward(c) \/ ClientLinkIsDown(c)
  <2>1. /\ \E pc \in {"forward", "link", "refused", "run"} : CmdGoto(c, pc)
        /\ cmd[c].pc \in {"typed", "link"}
        /\ UNCHANGED <<up, wire, job, session, minted, ran, shown, toolRan>>
    BY <1>1 DEF ShouldForward, ClientLinkIsDown, CmdAt, roleVars
  <2>2. Added({}, {}) /\ RecordsTyped'
    BY <2>1, NothingAdded, RecordsUntouched
  <2> QED
    BY <1>00, <2>1, <2>2, RoutedMoves DEF CmdPcs
<1>2. CASE RunHere(c)
  <2>1. /\ \E pc \in {"fan", "over"} : CmdGoto(c, pc)
        /\ cmd[c].pc = "run" /\ ran' = [ran EXCEPT ![c][i] = @ + 1]
        /\ UNCHANGED <<up, wire, job, session, minted, shown, toolRan>>
    BY <1>2 DEF RunHere, CmdAt, roleVars
  <2>2. ran' \in [Cmds -> [Insts -> Nat]]
    BY <1>0, <2>1, RoutedTypes DEF RecordsTyped
  <2>3. RecordsTyped'
    BY <2>1, <2>2, RoutedTypes DEF RecordsTyped
  <2>4. Added({}, {})
    BY <2>1, NothingAdded
  <2> QED
    BY <1>00, <2>1, <2>3, <2>4, RoutedMoves DEF CmdPcs
<1>3. CASE FanOut(c)
  <2>1. cmd[c].pc = "fan" /\ UNCHANGED <<up, job, ran, shown, toolRan>> /\ cmd[c].sid \notin Sids
    BY <1>3, <1>00 DEF FanOut, CmdAt, roleVars
  <2>2. CASE HasHub(i)
    <3> DEFINE sid == SessionId(i)
    <3>1. /\ NewSession(i, c) /\ cmd' = [cmd EXCEPT ![c].pc = "over", ![c].sid = sid]
          /\ wire' = wire \cup Broadcast(i, c, sid)
      BY <1>3, <2>2 DEF FanOut
    <3>2. /\ session' \in [Insts -> Seq(SessionRecords)] /\ minted' \in [Insts -> Nat]
          /\ \A j \in Insts : j # i => session'[j] = session[j]
          /\ Len(session'[i]) <= MaxSessions /\ sid \in Sids
      BY <1>0, <2>1, <3>1, SessionsBound, RoutedTypes, SessionOpens DEF RecordsTyped
    <3>3. RecordsTyped'
      BY <2>1, <3>2, RoutedTypes DEF RecordsTyped
    <3> HIDE DEF sid
    <3>4. cmd'[c].sid = sid /\ cmd'[c].pc = "over"
      BY <3>1, <3>2, RoutedTypes, CmdMints DEF CmdPcs
    <3>5. \A f \in Broadcast(i, c, sid) : f \in Frames /\ f.via \in up /\ f.sid = sid /\ f.cmd = c
      BY <1>0, <2>1, <3>2, BroadcastIs
    <3>6. Added(Broadcast(i, c, sid), {})
      BY <2>1, <3>1, <3>4, <3>5 DEF Added, Routed
    <3> QED
      BY <2>1, <3>1, <3>2, <3>3, <3>6, RoutedMints
  <2>3. CASE ~HasHub(i)
    <3>1. CmdGoto(c, "over") /\ UNCHANGED <<session, minted, wire>>
      BY <1>3, <2>3 DEF FanOut
    <3>2. Added({}, {}) /\ RecordsTyped'
      BY <2>1, <3>1, NothingAdded, RecordsUntouched
    <3> QED
      BY <1>00, <2>1, <3>1, <3>2, RoutedMoves DEF CmdPcs
  <2> QED
    BY <2>2, <2>3
<1>4. CASE ForwardOpens(c)
  <2> DEFINE sid == SessionId(i)
  <2>1. /\ cmd[c].pc = "forward" /\ UNCHANGED <<up, wire, job, ran, shown, toolRan>>
        /\ NewSession(i, c) /\ cmd' = [cmd EXCEPT ![c].pc = "send", ![c].sid = sid]
        /\ cmd[c].sid \notin Sids
    BY <1>4, <1>00 DEF ForwardOpens, CmdAt, roleVars
  <2>2. /\ session' \in [Insts -> Seq(SessionRecords)] /\ minted' \in [Insts -> Nat]
        /\ \A j \in Insts : j # i => session'[j] = session[j]
        /\ Len(session'[i]) <= MaxSessions /\ sid \in Sids
    BY <1>0, <2>1, SessionsBound, RoutedTypes, SessionOpens DEF RecordsTyped
  <2>3. RecordsTyped'
    BY <2>1, <2>2, RoutedTypes DEF RecordsTyped
  <2>4. Added({}, {})
    BY <2>1, NothingAdded
  <2> HIDE DEF sid
  <2> QED
    BY <2>1, <2>2, <2>3, <2>4, RoutedMints
<1>5. CASE ForwardSends(c)
  <2> DEFINE sid == cmd[c].sid
  <2>1. /\ cmd[c].pc = "send" /\ UNCHANGED <<up, minted, ran, shown, toolRan>>
        /\ sid \in Sids /\ i \in Insts
    BY <1>5, <1>0 DEF ForwardSends, CmdAt, roleVars, Routed, Tagged
  <2>2. CASE ~Connected(i)
    <3>1. /\ session' = [session EXCEPT ![i] = RemoveFirst(@, [sid |-> sid, cmd |-> c])]
          /\ CmdGoto(c, "refused") /\ UNCHANGED <<wire, job>>
      BY <1>5, <2>2 DEF ForwardSends
    <3>2. session[i] \in Seq(SessionRecords) /\ Len(session[i]) <= MaxSessions
      BY <2>1, RoutedTypes DEF RecordsTyped
    <3>3. /\ session'[i] \in Seq(SessionRecords) /\ Len(session'[i]) <= Len(session[i])
          /\ \A j \in Insts : j # i => session'[j] = session[j]
          /\ session' \in [Insts -> Seq(SessionRecords)]
      BY <2>1, <3>1, <3>2, RoutedTypes, SessionCloses DEF RecordsTyped
    <3>4. Len(session'[i]) <= MaxSessions
      <4>1. Len(session'[i]) \in Nat /\ Len(session[i]) \in Nat /\ MaxSessions \in Nat
        BY <3>2, <3>3, LenProperties, SessionsBound
      <4> QED
        BY <3>2, <3>3, <4>1
    <3>5. RecordsTyped'
      BY <2>1, <3>3, <3>4, RoutedTypes DEF RecordsTyped
    <3>6. Added({}, {})
      BY <2>1, <3>1, NothingAdded
    <3> QED
      BY <2>1, <3>1, <3>5, <3>6, RoutedMoves DEF CmdPcs
  <2>3. CASE Connected(i) /\ ~HasHub(i)
    <3> DEFINE f == [type |-> "command", cmd |-> c, sid |-> sid, via |-> Of(i), dir |-> "up", to |-> i]
    <3>1. wire' = wire \cup {f} /\ CmdGoto(c, "over") /\ UNCHANGED <<session, job>>
      BY <1>5, <2>3 DEF ForwardSends
    <3>2. Of(i) \in up /\ Of(i) \in Managers
      BY <2>1, <2>3, OfIsManager DEF Connected, Linked, RoleTypes
    <3>3. f \in Frames
      BY <2>1, <3>2 DEF Frames, Sids
    <3>4. f.via \in up /\ f.sid = sid /\ f.cmd = c
      BY <3>2
    <3> HIDE DEF f
    <3>5. cmd'[c].sid = sid /\ cmd'[c].pc = "over"
      BY <3>1, RoutedTypes, CmdMoves DEF CmdPcs
    <3>6. Added({f}, {})
      BY <2>1, <3>1, <3>3, <3>4, <3>5 DEF Added, Routed
    <3>7. RecordsTyped'
      BY <2>1, <3>1, RecordsUntouched
    <3> QED
      BY <2>1, <3>1, <3>6, <3>7, RoutedMoves DEF CmdPcs
  <2>4. CASE Connected(i) /\ HasHub(i)
    <3> DEFINE B == Broadcast(i, c, sid)
               j == NewThread(i, c)
    <3>1. job' = job \cup {j} /\ CmdGoto(c, "over") /\ UNCHANGED session /\ wire' \subseteq wire \cup B
      BY <1>5, <2>4 DEF ForwardSends
    <3>2. \A f \in B : f \in Frames /\ f.via \in up /\ f.sid = sid /\ f.cmd = c
      BY <2>1, BroadcastIs
    <3>3. j \in JobRecords /\ j.cmd = c /\ j.sid = sid
      BY <2>1, RoutedTypes, ThreadIs
    <3> HIDE DEF B, j
    <3>4. cmd'[c].sid = sid /\ cmd'[c].pc = "over"
      BY <3>1, RoutedTypes, CmdMoves DEF CmdPcs
    <3>5. Added(B, {j})
      BY <2>1, <3>1, <3>2, <3>3, <3>4 DEF Added, Routed
    <3>6. RecordsTyped'
      BY <2>1, <3>1, RecordsUntouched
    <3> QED
      BY <2>1, <3>1, <3>5, <3>6, RoutedMoves DEF CmdPcs
  <2> QED
    BY <2>2, <2>3, <2>4
<1> QED
  BY <1>1, <1>2, <1>3, <1>4, <1>5

LEMMA RoutedType ==
    ASSUME Routed, NEW c \in Cmds, NEW i \in Insts, NEW kind \in Kinds, Type(c, i, kind)
    PROVE  Routed'
<1> DEFINE new == [NoCmd EXCEPT !.pc = "typed", !.at = i, !.kind = kind]
<1>0. new \in CmdRecords /\ new.pc = "typed" /\ new.at = i /\ new.kind = kind /\ new.sid = <<>>
  <2>1. NoCmd \in CmdRecords /\ NoCmd.sid = <<>>
    BY DEF NoCmd, CmdRecords, CmdPcs, Kinds
  <2>2. "typed" \in CmdPcs
    BY DEF CmdPcs
  <2> QED
    BY <2>1, <2>2 DEF CmdRecords
<1>1. /\ cmd[c].pc = "none" /\ UNCHANGED <<up, session, minted, wire, job, ran, shown, toolRan>>
      /\ cmd' = [cmd EXCEPT ![c] = new]
  BY DEF Type, CmdAt, roleVars
<1> HIDE DEF new
<1>2. /\ cmd' \in [Cmds -> CmdRecords] /\ cmd'[c].pc = "typed" /\ cmd'[c].at = i /\ cmd'[c].sid = <<>>
      /\ \A d \in Cmds : d # c => cmd'[d] = cmd[d]
  BY <1>0, <1>1, RoutedTypes
<1>3. Added({}, {}) /\ RecordsTyped'
  BY <1>1, NothingAdded, RecordsUntouched
<1>4. \A d \in Cmds : cmd[d].pc # "none" => CmdKept(d)
  BY <1>1, <1>2 DEF CmdKept
<1>5. \A d \in Cmds : cmd'[d].pc # "none" => cmd'[d].at \in Insts
  BY <1>2, RoutedTypes
<1>6. \A d \in Cmds : cmd'[d].pc = "send" => cmd'[d].sid \in Sids
  BY <1>2 DEF Routed, Tagged
<1>7. \A d \in Cmds : cmd'[d].sid \in Sids => cmd'[d].pc \in {"send", "over", "refused"}
  BY <1>2, NowhereMinted DEF Routed, Tagged
<1> QED
  BY <1>2, <1>3, <1>4, <1>5, <1>6, <1>7, RoutedKept

\* What a role step does to a command: its process may have died.
LEMMA CmdFollows ==
    ASSUME cmd \in [Cmds -> CmdRecords], NEW dead, LinkFollows(dead)
    PROVE  /\ cmd' \in [Cmds -> CmdRecords]
           /\ \A c \in Cmds : /\ cmd'[c].at = cmd[c].at /\ cmd'[c].kind = cmd[c].kind
                              /\ cmd'[c].sid = cmd[c].sid
                              /\ cmd'[c].pc = cmd[c].pc \/ (cmd[c].pc # "none" /\ cmd'[c].pc = "over")
<1> DEFINE R(c) == IF cmd[c].at \in dead /\ ~CmdAt(c, "none") THEN [cmd[c] EXCEPT !.pc = "over"] ELSE cmd[c]
<1>1. cmd' = [c \in Cmds |-> R(c)]
  BY DEF LinkFollows
<1>2. ASSUME NEW c \in Cmds
      PROVE  /\ R(c) \in CmdRecords
             /\ R(c).at = cmd[c].at /\ R(c).kind = cmd[c].kind /\ R(c).sid = cmd[c].sid
             /\ R(c).pc = cmd[c].pc \/ (cmd[c].pc # "none" /\ R(c).pc = "over")
  BY DEF CmdRecords, CmdPcs, CmdAt
<1> HIDE DEF R
<1> QED
  BY <1>1, <1>2

LEMMA RoutedFollows ==
    ASSUME Routed, NEW dead, LinkFollows(dead)
    PROVE  Routed'
<1>1. /\ cmd' \in [Cmds -> CmdRecords]
      /\ \A c \in Cmds : /\ cmd'[c].at = cmd[c].at /\ cmd'[c].kind = cmd[c].kind
                         /\ cmd'[c].sid = cmd[c].sid
                         /\ cmd'[c].pc = cmd[c].pc \/ (cmd[c].pc # "none" /\ cmd'[c].pc = "over")
  BY RoutedTypes, CmdFollows
<1>2. Added({}, {})
  BY DEF Added, LinkFollows
<1>3. /\ session' \in [Insts -> Seq(SessionRecords)]
      /\ \A i \in Insts : session'[i] = session[i] \/ session'[i] = <<>>
  BY RoutedTypes, EmptySeq DEF LinkFollows, RecordsTyped
<1>4. \A i \in Insts : Len(session'[i]) <= MaxSessions
  BY <1>3, RoutedTypes, SessionsBound, EmptySeq DEF RecordsTyped
<1>5. RecordsTyped'
  BY <1>3, <1>4, RoutedTypes DEF RecordsTyped, LinkFollows
<1>6. \A d \in Cmds : cmd[d].pc # "none" => CmdKept(d)
  BY <1>1 DEF CmdKept
<1>7. \A d \in Cmds : cmd'[d].pc # "none" => cmd'[d].at \in Insts
  BY <1>1, RoutedTypes
<1>8. \A d \in Cmds : cmd'[d].pc = "send" => cmd'[d].sid \in Sids
  BY <1>1 DEF Routed, Tagged
<1>9. \A d \in Cmds : cmd'[d].sid \in Sids => cmd'[d].pc \in {"send", "over", "refused"}
  BY <1>1 DEF Routed, Tagged
<1> QED
  BY <1>1, <1>2, <1>5, <1>6, <1>7, <1>8, <1>9, RoutedKept

\* Steps of a link.
LEMMA RoutedLink ==
    ASSUME RoleTypes, Routed, NEW f \in wire,
           HubReads(f) \/ NodeReads(f) \/ HubRelays(f) \/ RenderRemoteReply(f) \/ ExecuteTool(f)
    PROVE  Routed'
<1>0. /\ f \in Frames /\ f.cmd \in Cmds /\ f.to \in Insts /\ f.sid \in Sids
      /\ cmd[f.cmd].at \in Insts /\ cmd[f.cmd].sid = f.sid /\ cmd[f.cmd].pc # "none"
  BY RoutedTypes DEF Routed, Tagged
<1>1. CASE HubReads(f)
  <2>1. PICK m \in listener : /\ job' = job \cup {NewThread(m[1], f.cmd)}
                              /\ wire' \subseteq wire \cup Broadcast(m[1], f.cmd, f.sid)
    BY <1>1 DEF HubReads
  <2>2. UNCHANGED <<up, cmd, session, minted, ran, shown, toolRan>>
    BY <1>1 DEF HubReads, roleVars
  <2>3. m[1] \in Insts
    BY ManagerIsPair DEF RoleTypes
  <2> DEFINE B == Broadcast(m[1], f.cmd, f.sid)
             j == NewThread(m[1], f.cmd)
  <2>4. \A g \in B : g \in Frames /\ g.via \in up /\ g.sid = f.sid /\ g.cmd = f.cmd
    BY <1>0, <2>3, BroadcastIs
  <2>5. j \in JobRecords /\ j.cmd = f.cmd /\ j.sid = f.sid
    BY <1>0, <2>3, RoutedTypes, ThreadIs
  <2> HIDE DEF B, j
  <2>6. Added(B, {j})
    BY <1>0, <2>1, <2>2, <2>4, <2>5 DEF Added, Routed, B, j
  <2> QED
    BY <2>2, <2>6, RecordsUntouched, RoutedWire
<1>2. CASE NodeReads(f)
  <2> DEFINE j == NewThread(f.to, f.cmd)
  <2>1. /\ wire' \subseteq wire /\ job' = job \cup {j}
        /\ UNCHANGED <<up, cmd, session, minted, ran, shown, toolRan>>
    BY <1>2 DEF NodeReads, roleVars
  <2>2. j \in JobRecords /\ j.cmd = f.cmd /\ j.sid = f.sid
    BY <1>0, RoutedTypes, ThreadIs
  <2> HIDE DEF j
  <2>3. Added({}, {j})
    BY <1>0, <2>1, <2>2 DEF Added, Routed
  <2> QED
    BY <2>1, <2>3, RecordsUntouched, RoutedWire
<1>3. CASE HubRelays(f)
  <2>1. UNCHANGED <<up, cmd, session, minted, job, ran, toolRan>>
    BY <1>3 DEF HubRelays, roleVars
  <2> DEFINE R == {[f EXCEPT !.via = n, !.dir = "down"] : n \in {k \in up : k[1] = f.to}}
  <2>2. /\ wire' \subseteq wire \cup R
        /\ Show(f.cmd, f.to, f.sid) \/ UNCHANGED shown
    BY <1>3 DEF HubRelays
  <2>3. RecordsTyped'
    BY <1>0, <2>1, <2>2, RoutedTypes, ShowTypes DEF RecordsTyped
  <2>4. \A g \in R : g \in Frames /\ g.via \in up /\ g.sid = f.sid /\ g.cmd = f.cmd
    <3> SUFFICES ASSUME NEW g \in R PROVE g \in Frames /\ g.via \in up /\ g.sid = f.sid /\ g.cmd = f.cmd
      OBVIOUS
    <3>1. PICK n \in up : g = [f EXCEPT !.via = n, !.dir = "down"]
      OBVIOUS
    <3>2. n \in Managers
      BY DEF RoleTypes
    <3> QED
      BY <1>0, <3>1, <3>2 DEF Frames
  <2> HIDE DEF R
  <2>5. Added(R, {})
    BY <1>0, <2>1, <2>2, <2>4 DEF Added, Routed
  <2> QED
    BY <2>1, <2>3, <2>5, RoutedWire
<1>4. CASE RenderRemoteReply(f)
  <2>1. /\ wire' \subseteq wire /\ Show(f.cmd, f.to, f.sid)
        /\ UNCHANGED <<up, cmd, session, minted, job, ran, toolRan>>
    BY <1>4 DEF RenderRemoteReply, roleVars
  <2>2. RecordsTyped'
    BY <1>0, <2>1, RoutedTypes, ShowTypes DEF RecordsTyped
  <2>3. Added({}, {})
    BY <2>1, NothingAdded
  <2> QED
    BY <2>1, <2>2, <2>3, RoutedWire
<1>5. CASE ExecuteTool(f)
  <2>1. /\ wire' \subseteq wire /\ UNCHANGED <<up, cmd, session, minted, ran, shown>>
        /\ toolRan' \subseteq toolRan \cup {<<f.cmd, f.to>>}
    BY <1>5 DEF ExecuteTool, roleVars
  <2>2. RecordsTyped'
    BY <1>0, <2>1, RoutedTypes DEF RecordsTyped
  <2>3. \/ UNCHANGED job
        \/ \E j \in job, told \in {"not executed", "result"} :
              job' = (job \ {j}) \cup {[j EXCEPT !.pc = "answer", !.told = told]}
    BY <1>5 DEF ExecuteTool, Becomes
  <2>4. CASE UNCHANGED job
    BY <2>1, <2>2, <2>4, NothingAdded, RoutedWire
  <2>5. ASSUME NEW j \in job, NEW told \in {"not executed", "result"},
               job' = (job \ {j}) \cup {[j EXCEPT !.pc = "answer", !.told = told]}
        PROVE  Routed'
    <3>1. j \in JobRecords /\ j.sid = cmd[j.cmd].sid /\ cmd[j.cmd].pc # "none"
      BY RoutedTypes DEF Routed, Tagged
    <3>2. PICK k \in JobRecords : k.cmd = j.cmd /\ k.sid = j.sid /\ job' = (job \ {j}) \cup {k}
      BY <2>5, JobMoves DEF Routed, RouteTypes
    <3>3. Added({}, {k})
      BY <2>1, <3>1, <3>2 DEF Added, Routed
    <3> QED
      BY <2>1, <2>2, <3>3, RoutedWire
  <2> QED
    BY <2>3, <2>4, <2>5
<1> QED
  BY <1>1, <1>2, <1>3, <1>4, <1>5

\* Steps of a thread that runs a command of another instance.
LEMMA RoutedJob ==
    ASSUME RoleTypes, Routed, NEW j \in job,
           RunJob(j) \/ Answer(j) \/ RouteTool(j) \/ SendTool(j) \/ ToolUnknown(j)
    PROVE  Routed'
<1>0. /\ j \in JobRecords /\ j.cmd \in Cmds /\ j.at \in Insts /\ j.sid \in Sids
      /\ cmd[j.cmd].at \in Insts /\ cmd[j.cmd].sid = j.sid /\ cmd[j.cmd].pc # "none"
  BY RoutedTypes DEF Routed, Tagged
<1>1. UNCHANGED <<up, cmd, session, minted, toolRan>>
  BY DEF RunJob, Answer, RouteTool, SendTool, ToolUnknown, roleVars
<1>2. RecordsTyped'
  <2>1. CASE RunJob(j)
    <3>1. ran' = [ran EXCEPT ![j.cmd][j.at] = @ + 1] /\ UNCHANGED shown
      BY <2>1 DEF RunJob
    <3>2. ran' \in [Cmds -> [Insts -> Nat]]
      BY <1>0, <3>1, RoutedTypes DEF RecordsTyped
    <3> QED
      BY <1>1, <3>1, <3>2, RoutedTypes DEF RecordsTyped
  <2>2. CASE Answer(j)
    BY <1>0, <1>1, <2>2, RoutedTypes, ShowTypes DEF RecordsTyped, Answer
  <2>3. CASE RouteTool(j) \/ SendTool(j) \/ ToolUnknown(j)
    BY <1>1, <2>3, RoutedTypes DEF RecordsTyped, RouteTool, SendTool, ToolUnknown
  <2> QED
    BY <2>1, <2>2, <2>3
<1>3. ASSUME NEW k \in JobRecords, k.cmd = j.cmd, k.sid = j.sid, job' \subseteq job \cup {k},
             NEW F, wire' \subseteq wire \cup F,
             \A f \in F : f \in Frames /\ f.via \in up /\ f.sid = j.sid /\ f.cmd = j.cmd
      PROVE  Routed'
  <2>1. Added(F, {k})
    BY <1>0, <1>1, <1>3 DEF Added, Routed
  <2> QED
    BY <1>1, <1>2, <2>1, RoutedWire
<1>4. CASE RunJob(j) \/ RouteTool(j) \/ ToolUnknown(j)
  <2>1. /\ UNCHANGED wire
        /\ \E pc \in {"run", "answer", "send", "wait"}, told \in {"nothing", "not executed", "unknown", "result"} :
              \/ job' = (job \ {j}) \cup {[j EXCEPT !.pc = pc, !.told = told]}
              \/ told = j.told /\ job' = (job \ {j}) \cup {[j EXCEPT !.pc = pc]}
    <3>1. j.told \in {"nothing", "not executed", "unknown", "result"}
      BY <1>0 DEF JobRecords
    <3> QED
      BY <1>4, <3>1 DEF RunJob, RouteTool, ToolUnknown, Becomes
  <2>2. PICK k \in JobRecords : k.cmd = j.cmd /\ k.sid = j.sid /\ job' = (job \ {j}) \cup {k}
    BY <2>1, JobMoves DEF Routed, RouteTypes
  <2>3. Added({}, {k})
    BY <1>0, <1>1, <2>1, <2>2 DEF Added, Routed
  <2> QED
    BY <1>1, <1>2, <2>3, RoutedWire
<1>5. CASE SendTool(j)
  <2> DEFINE F == Towards("tool", j.at, cmd[j.cmd].at, j.cmd, j.sid)
  <2>1. /\ wire' = wire \cup F
        /\ \E pc \in {"wait", "answer"}, told \in {"nothing", "not executed"} :
              job' = (job \ {j}) \cup {[j EXCEPT !.pc = pc, !.told = told]}
    BY <1>5 DEF SendTool, Becomes
  <2>2. PICK k \in JobRecords : k.cmd = j.cmd /\ k.sid = j.sid /\ job' = (job \ {j}) \cup {k}
    BY <2>1, JobMoves DEF Routed, RouteTypes
  <2>3. \A f \in F : f \in Frames /\ f.via \in up /\ f.sid = j.sid /\ f.cmd = j.cmd
    BY <1>0, TowardsIs
  <2> HIDE DEF F
  <2> QED
    BY <1>3, <2>1, <2>2, <2>3
<1>6. CASE Answer(j)
  <2> DEFINE F == Towards("reply", j.at, cmd[j.cmd].at, j.cmd, j.sid)
  <2>1. wire' \subseteq wire \cup F /\ job' \subseteq job \cup {j}
    BY <1>6 DEF Answer
  <2>2. \A f \in F : f \in Frames /\ f.via \in up /\ f.sid = j.sid /\ f.cmd = j.cmd
    BY <1>0, TowardsIs
  <2> HIDE DEF F
  <2> QED
    BY <1>0, <1>3, <2>1, <2>2
<1> QED
  BY <1>4, <1>5, <1>6

LEMMA RoutedInit == Init => Routed
<1> SUFFICES ASSUME Init PROVE Routed
  OBVIOUS
<1>1. NoCmd \in CmdRecords /\ NoCmd.sid = <<>> /\ NoCmd.pc = "none"
  BY DEF NoCmd, CmdRecords, CmdPcs, Kinds
<1>2. \A c \in Cmds : cmd[c] = NoCmd
  BY DEF Init, NothingTyped
<1>3. cmd \in [Cmds -> CmdRecords]
  BY <1>1 DEF Init, NothingTyped
<1>4. RouteTypes
  BY <1>3, EmptySeq DEF RouteTypes, Init, NothingTyped
<1>5. Tagged
  BY <1>1, <1>2, NowhereMinted DEF Tagged, Init, NothingTyped
<1>6. \A i \in Insts : Len(session[i]) <= MaxSessions
  BY SessionsBound, EmptySeq DEF Init, NothingTyped
<1> QED
  BY <1>4, <1>5, <1>6 DEF Routed, Init, NothingTyped

LEMMA RoutedNext ==
    ASSUME RoleInv, Routed, [Next]_vars
    PROVE  Routed'
<1>0. RoleTypes
  BY DEF RoleInv
<1>1. ASSUME NEW dead, LinkFollows(dead) PROVE Routed'
  BY <1>1, RoutedFollows
<1>2. ASSUME NEW c \in Cmds, NEW i \in Insts, NEW kind \in Kinds, Type(c, i, kind) PROVE Routed'
  BY <1>2, RoutedType
<1>3. ASSUME NEW c \in Cmds,
             \/ ShouldForward(c) \/ ClientLinkIsDown(c) \/ RunHere(c) \/ FanOut(c)
             \/ ForwardOpens(c) \/ ForwardSends(c)
      PROVE  Routed'
  BY <1>0, <1>3, RoutedThread
<1>4. ASSUME NEW f \in wire,
             HubReads(f) \/ NodeReads(f) \/ HubRelays(f) \/ RenderRemoteReply(f) \/ ExecuteTool(f)
      PROVE  Routed'
  BY <1>0, <1>4, RoutedLink
<1>5. ASSUME NEW j \in job, RunJob(j) \/ Answer(j) \/ RouteTool(j) \/ SendTool(j) \/ ToolUnknown(j)
      PROVE  Routed'
  BY <1>0, <1>5, RoutedJob
<1>6. CASE UNCHANGED vars
  BY <1>6 DEF vars, roleVars, routeVars, Routed, RouteTypes, Tagged
<1> QED
  BY <1>1, <1>2, <1>3, <1>4, <1>5, <1>6 DEF Next

-----------------------------------------------------------------------------
(* Whose answer it is. *)

\* A session belongs to one command and is known where that command was typed.
Owned ==
    /\ \A i \in Insts : \A s \in ToSet(session[i]) : s.sid = cmd[s.cmd].sid /\ cmd[s.cmd].at = i
    /\ \A c \in Cmds : cmd[c].sid \in Sids =>
          cmd[c].sid[1] = cmd[c].at /\ cmd[c].sid[2] <= minted[cmd[c].at]
    /\ \A c, d \in Cmds : cmd[c].sid = cmd[d].sid /\ cmd[c].sid \in Sids => c = d
    /\ \A f \in wire : f.type \in {"reply", "tool"} => f.to = cmd[f.cmd].at
    /\ \A a \in shown : a[1] = a[3] /\ cmd[a[1]].at = a[2] /\ cmd[a[1]].pc # "none"

SessionElements(i) == \A s \in ToSet(session[i]) : s.cmd \in Cmds /\ s.sid \in Sids

LEMMA SessionsAreTyped ==
    ASSUME Routed, NEW i \in Insts
    PROVE  SessionElements(i)
<1>1. session[i] \in Seq(SessionRecords)
  BY DEF Routed, RouteTypes
<1>2. ToSet(session[i]) \subseteq SessionRecords
  BY <1>1, ElementsOfSeq
<1> QED
  BY <1>2 DEF SessionRecords, SessionElements

LEMMA OwnedKept ==
    ASSUME Routed, Owned,
           \A c \in Cmds : cmd[c].pc # "none" => cmd'[c].at = cmd[c].at /\ cmd'[c].pc # "none",
           \A c \in Cmds : cmd'[c].sid \in Sids \/ cmd[c].sid \in Sids => cmd'[c].sid = cmd[c].sid,
           UNCHANGED minted, \A i \in Insts : ToSet(session'[i]) \subseteq ToSet(session[i]),
           \A f \in wire' \ wire : f.type \in {"reply", "tool"} => f.to = cmd'[f.cmd].at,
           \A a \in shown' \ shown : a[1] = a[3] /\ cmd'[a[1]].at = a[2] /\ cmd'[a[1]].pc # "none"
    PROVE  Owned'
<1>0. \A c \in Cmds : cmd[c].sid \in Sids => cmd[c].pc # "none"
  BY DEF Routed, Tagged
<1>1. ASSUME NEW i \in Insts, NEW s \in ToSet(session'[i]) PROVE s.sid = cmd'[s.cmd].sid /\ cmd'[s.cmd].at = i
  <2>1. s \in ToSet(session[i])
    OBVIOUS
  <2>2. s.cmd \in Cmds /\ s.sid \in Sids /\ s.sid = cmd[s.cmd].sid /\ cmd[s.cmd].at = i
    BY <2>1, SessionsAreTyped DEF Owned, SessionElements
  <2> QED
    BY <1>0, <2>2
<1>2. \A c \in Cmds : cmd'[c].sid \in Sids =>
          cmd'[c].sid[1] = cmd'[c].at /\ cmd'[c].sid[2] <= minted'[cmd'[c].at]
  BY <1>0 DEF Owned
<1>3. \A c, d \in Cmds : cmd'[c].sid = cmd'[d].sid /\ cmd'[c].sid \in Sids => c = d
  BY DEF Owned
<1>4. ASSUME NEW f \in wire', f.type \in {"reply", "tool"} PROVE f.to = cmd'[f.cmd].at
  <2>1. CASE f \in wire
    <3>1. f.cmd \in Cmds /\ cmd[f.cmd].pc # "none" /\ f.to = cmd[f.cmd].at
      BY <1>4, <2>1, RoutedTypes DEF Owned, Routed, Tagged
    <3> QED
      BY <3>1
  <2> QED
    BY <1>4, <2>1
<1>5. ASSUME NEW a \in shown' PROVE a[1] = a[3] /\ cmd'[a[1]].at = a[2] /\ cmd'[a[1]].pc # "none"
  <2>1. CASE a \in shown
    <3>1. a[1] \in Cmds
      BY <2>1, RoutedTypes DEF RecordsTyped
    <3> QED
      BY <2>1, <3>1 DEF Owned
  <2> QED
    BY <2>1
<1> QED
  BY <1>1, <1>2, <1>3, <1>4, <1>5 DEF Owned

\* A session id is new in the cluster: its tag is the instance, its number the
\* instance's next.
LEMMA OwnedMints ==
    ASSUME Routed, Owned, NEW c \in Cmds, NEW pc \in {"send", "over"}, cmd[c].at \in Insts, cmd[c].pc # "none",
           cmd[c].sid \notin Sids, NewSession(cmd[c].at, c),
           cmd' = [cmd EXCEPT ![c].pc = pc, ![c].sid = SessionId(cmd[c].at)],
           \A f \in wire' \ wire : f.type \notin {"reply", "tool"}, UNCHANGED shown
    PROVE  Owned'
<1> DEFINE i == cmd[c].at
           sid == SessionId(i)
<1>0. \A d \in Cmds : cmd[d].sid \in Sids => cmd[d].pc # "none" /\ cmd[d].at \in Insts
  BY RoutedTypes DEF Routed, Tagged
<1>1. /\ minted \in [Insts -> Nat] /\ minted' \in [Insts -> Nat] /\ sid \in Sids
      /\ minted'[i] = minted[i] + 1
      /\ \A j \in Insts : j # i => minted'[j] = minted[j] /\ session'[j] = session[j]
      /\ ToSet(session'[i]) \subseteq ToSet(session[i]) \cup {[sid |-> sid, cmd |-> c]}
  BY RoutedTypes, SessionOpens, SessionsBound DEF RecordsTyped
<1>2. sid[1] = i /\ sid[2] = minted[i] + 1
  BY DEF SessionId
<1> HIDE DEF sid
<1>3. /\ cmd'[c].pc = pc /\ cmd'[c].at = i /\ cmd'[c].sid = sid
      /\ \A d \in Cmds : d # c => cmd'[d] = cmd[d]
  <2>1. pc \in CmdPcs
    BY DEF CmdPcs
  <2>2. cmd' = [cmd EXCEPT ![c].pc = pc, ![c].sid = sid]
    BY DEF sid
  <2>3. cmd \in [Cmds -> CmdRecords] /\ sid \in Sids
    BY <1>1, RoutedTypes
  <2>4. /\ cmd'[c].pc = pc /\ cmd'[c].sid = sid /\ cmd'[c].at = cmd[c].at
        /\ \A d \in Cmds : d # c => cmd'[d] = cmd[d]
    BY <2>1, <2>2, <2>3 DEF CmdRecords
  <2> QED
    BY <2>4
<1>4. ASSUME NEW j \in Insts, NEW s \in ToSet(session'[j]) PROVE s.sid = cmd'[s.cmd].sid /\ cmd'[s.cmd].at = j
  <2>1. CASE s \in ToSet(session[j])
    <3>1. s.cmd \in Cmds /\ s.sid \in Sids /\ s.sid = cmd[s.cmd].sid /\ cmd[s.cmd].at = j
      BY <2>1, SessionsAreTyped DEF Owned, SessionElements
    <3> QED
      BY <1>3, <3>1
  <2>2. CASE s \notin ToSet(session[j])
    <3>1. j = i /\ s = [sid |-> sid, cmd |-> c]
      BY <1>1, <2>2
    <3> QED
      BY <1>3, <3>1
  <2> QED
    BY <2>1, <2>2
<1>5. ASSUME NEW d \in Cmds, cmd'[d].sid \in Sids
      PROVE  cmd'[d].sid[1] = cmd'[d].at /\ cmd'[d].sid[2] <= minted'[cmd'[d].at]
  <2>1. CASE d = c
    BY <1>1, <1>2, <1>3, <2>1
  <2>2. CASE d # c
    <3>1. cmd'[d] = cmd[d] /\ cmd[d].sid \in Sids /\ cmd[d].at \in Insts
      BY <1>0, <1>3, <1>5, <2>2
    <3>2. cmd[d].sid[1] = cmd[d].at /\ cmd[d].sid[2] <= minted[cmd[d].at] /\ cmd[d].sid[2] \in Nat
      BY <3>1 DEF Owned, Sids
    <3>3. minted[cmd[d].at] <= minted'[cmd[d].at] /\ minted[cmd[d].at] \in Nat /\ minted'[cmd[d].at] \in Nat
      BY <1>1, <3>1
    <3> QED
      BY <3>1, <3>2, <3>3
  <2> QED
    BY <2>1, <2>2
<1>6. ASSUME NEW d \in Cmds, d # c, cmd[d].sid \in Sids PROVE cmd[d].sid # sid
  <2>1. cmd[d].sid[1] = cmd[d].at /\ cmd[d].sid[2] <= minted[cmd[d].at] /\ cmd[d].sid[2] \in Nat
    BY <1>6 DEF Owned, Sids
  <2> QED
    BY <1>1, <1>2, <2>1
<1>7. \A d, e \in Cmds : cmd'[d].sid = cmd'[e].sid /\ cmd'[d].sid \in Sids => d = e
  <2> SUFFICES ASSUME NEW d \in Cmds, NEW e \in Cmds, cmd'[d].sid = cmd'[e].sid, cmd'[d].sid \in Sids
               PROVE  d = e
    OBVIOUS
  <2>1. CASE d # c /\ e # c
    <3>1. cmd[d].sid = cmd[e].sid /\ cmd[d].sid \in Sids
      BY <1>3, <2>1
    <3> QED
      BY <3>1 DEF Owned
  <2>2. CASE d = c \/ e = c
    BY <1>3, <1>6, <2>2
  <2> QED
    BY <2>1, <2>2
<1>8. ASSUME NEW f \in wire', f.type \in {"reply", "tool"} PROVE f.to = cmd'[f.cmd].at
  <2>1. f \in wire
    BY <1>8
  <2>2. f.cmd \in Cmds /\ f.to = cmd[f.cmd].at
    BY <1>8, <2>1, RoutedTypes DEF Owned
  <2> QED
    BY <1>3, <2>2
<1>9. ASSUME NEW a \in shown' PROVE a[1] = a[3] /\ cmd'[a[1]].at = a[2] /\ cmd'[a[1]].pc # "none"
  <2>1. a \in shown /\ a[1] \in Cmds
    BY RoutedTypes DEF RecordsTyped
  <2>2. a[1] = a[3] /\ cmd[a[1]].at = a[2] /\ cmd[a[1]].pc # "none"
    BY <2>1 DEF Owned
  <2> QED
    BY <1>3, <2>1, <2>2
<1> QED
  BY <1>4, <1>5, <1>7, <1>8, <1>9 DEF Owned

\* What is shown for a session id is shown to who typed that command.
LEMMA ShowOwned ==
    ASSUME Routed, Owned, NEW c \in Cmds, NEW i \in Insts, cmd[c].sid \in Sids, Show(c, i, cmd[c].sid)
    PROVE  \A a \in shown' \ shown : a[1] = a[3] /\ cmd[a[1]].at = a[2] /\ cmd[a[1]].pc # "none"
<1> SUFFICES ASSUME NEW a \in shown' \ shown
             PROVE  a[1] = a[3] /\ cmd[a[1]].at = a[2] /\ cmd[a[1]].pc # "none"
  OBVIOUS
<1>1. PICK s \in ToSet(session[i]) : s.sid = cmd[c].sid /\ a = <<c, i, s.cmd>>
  BY DEF Show, Typists
<1>2. s.cmd \in Cmds /\ cmd[s.cmd].sid = s.sid /\ cmd[s.cmd].at = i
  BY SessionsAreTyped DEF Owned, SessionElements
<1>3. s.cmd = c
  BY <1>1, <1>2 DEF Owned
<1>4. cmd[c].pc # "none"
  BY DEF Routed, Tagged
<1> QED
  BY <1>1, <1>2, <1>3, <1>4

LEMMA OwnedNext ==
    ASSUME RoleInv, Routed, Owned, [Next]_vars
    PROVE  Owned'
<1>0. RoleTypes
  BY DEF RoleInv
<1>1. ASSUME NEW dead, LinkFollows(dead) PROVE Owned'
  <2>1. \A c \in Cmds : /\ cmd'[c].at = cmd[c].at /\ cmd'[c].sid = cmd[c].sid
                        /\ cmd[c].pc # "none" => cmd'[c].pc # "none"
    BY <1>1, RoutedTypes, CmdFollows
  <2>2. \A i \in Insts : ToSet(session'[i]) \subseteq ToSet(session[i])
    <3>1. \A i \in Insts : session'[i] = session[i] \/ session'[i] = <<>>
      BY <1>1 DEF LinkFollows
    <3>2. ToSet(<<>>) = {}
      BY DEF ToSet
    <3> QED
      BY <3>1, <3>2
  <2>3. wire' \subseteq wire /\ UNCHANGED <<minted, shown>>
    BY <1>1 DEF LinkFollows
  <2> QED
    BY <2>1, <2>2, <2>3, OwnedKept
<1>2. ASSUME NEW c \in Cmds, NEW pc \in CmdPcs \ {"none"}, CmdGoto(c, pc), cmd[c].pc # "none",
             UNCHANGED <<minted, shown>>, \A i \in Insts : ToSet(session'[i]) \subseteq ToSet(session[i]),
             \A f \in wire' \ wire : f.type \notin {"reply", "tool"}
      PROVE  Owned'
  <2>1. /\ cmd'[c].pc = pc /\ cmd'[c].at = cmd[c].at /\ cmd'[c].sid = cmd[c].sid
        /\ \A d \in Cmds : d # c => cmd'[d] = cmd[d]
    BY <1>2, RoutedTypes, CmdMoves
  <2> QED
    BY <1>2, <2>1, OwnedKept
<1>3. ASSUME NEW c \in Cmds, NEW i \in Insts, NEW kind \in Kinds, Type(c, i, kind) PROVE Owned'
  <2>1. cmd[c].pc = "none" /\ UNCHANGED <<session, minted, wire, shown>>
    BY <1>3 DEF Type, CmdAt
  <2>2. cmd'[c].sid = <<>> /\ \A d \in Cmds : d # c => cmd'[d] = cmd[d]
    BY <1>3, RoutedTypes DEF Type, NoCmd, CmdRecords
  <2>3. cmd[c].sid \notin Sids
    BY <2>1 DEF Routed, Tagged
  <2> QED
    BY <2>1, <2>2, <2>3, NowhereMinted, OwnedKept
<1>4. ASSUME NEW c \in Cmds, ShouldForward(c) \/ ClientLinkIsDown(c) \/ RunHere(c) PROVE Owned'
  <2>1. /\ \E pc \in {"forward", "link", "refused", "run", "fan", "over"} : CmdGoto(c, pc)
        /\ cmd[c].pc # "none" /\ UNCHANGED <<session, minted, wire, shown>>
    BY <1>4 DEF ShouldForward, ClientLinkIsDown, RunHere, CmdAt
  <2> QED
    BY <1>2, <2>1 DEF CmdPcs
<1>5. ASSUME NEW c \in Cmds, FanOut(c) PROVE Owned'
  <2>1. cmd[c].pc = "fan" /\ cmd[c].at \in Insts /\ cmd[c].sid \notin Sids /\ UNCHANGED shown
    BY <1>5, RoutedTypes DEF FanOut, CmdAt, Routed, Tagged
  <2>2. CASE HasHub(cmd[c].at)
    <3>1. /\ NewSession(cmd[c].at, c)
          /\ cmd' = [cmd EXCEPT ![c].pc = "over", ![c].sid = SessionId(cmd[c].at)]
          /\ \A f \in wire' \ wire : f.type \notin {"reply", "tool"}
      BY <1>5, <2>2 DEF FanOut, Broadcast
    <3> QED
      BY <2>1, <3>1, OwnedMints
  <2>3. CASE ~HasHub(cmd[c].at)
    BY <1>2, <1>5, <2>1, <2>3 DEF FanOut, CmdPcs
  <2> QED
    BY <2>2, <2>3
<1>6. ASSUME NEW c \in Cmds, ForwardOpens(c) PROVE Owned'
  <2>1. cmd[c].pc = "forward" /\ cmd[c].at \in Insts /\ cmd[c].sid \notin Sids /\ UNCHANGED <<shown, wire>>
    BY <1>6, RoutedTypes DEF ForwardOpens, CmdAt, Routed, Tagged
  <2>2. /\ NewSession(cmd[c].at, c)
        /\ cmd' = [cmd EXCEPT ![c].pc = "send", ![c].sid = SessionId(cmd[c].at)]
    BY <1>6 DEF ForwardOpens
  <2> QED
    BY <2>1, <2>2, OwnedMints
<1>7. ASSUME NEW c \in Cmds, ForwardSends(c) PROVE Owned'
  <2> DEFINE i == cmd[c].at
  <2>1. cmd[c].pc = "send" /\ i \in Insts /\ UNCHANGED <<minted, shown>>
    BY <1>7, RoutedTypes DEF ForwardSends, CmdAt
  <2>2. /\ \E pc \in {"refused", "over"} : CmdGoto(c, pc)
        /\ \A f \in wire' \ wire : f.type \notin {"reply", "tool"}
        /\ \/ session' = [session EXCEPT ![i] = RemoveFirst(@, [sid |-> cmd[c].sid, cmd |-> c])]
           \/ UNCHANGED session
    BY <1>7 DEF ForwardSends, Broadcast
  <2>3. \A k \in Insts : ToSet(session'[k]) \subseteq ToSet(session[k])
    <3>1. session[i] \in Seq(SessionRecords) /\ session \in [Insts -> Seq(SessionRecords)]
      BY <2>1, RoutedTypes DEF RecordsTyped
    <3>2. ToSet(RemoveFirst(session[i], [sid |-> cmd[c].sid, cmd |-> c])) \subseteq ToSet(session[i])
      BY <3>1, SessionCloses
    <3> QED
      BY <2>1, <2>2, <3>1, <3>2
  <2> QED
    BY <1>2, <2>1, <2>2, <2>3 DEF CmdPcs
<1>8. ASSUME UNCHANGED <<cmd, session, minted>>,
             \A f \in wire' \ wire : f.type \in {"reply", "tool"} => f.to = cmd[f.cmd].at,
             \A a \in shown' \ shown : a[1] = a[3] /\ cmd[a[1]].at = a[2] /\ cmd[a[1]].pc # "none"
      PROVE  Owned'
  BY <1>8, OwnedKept
<1>9. ASSUME NEW f \in wire,
             HubReads(f) \/ NodeReads(f) \/ HubRelays(f) \/ RenderRemoteReply(f) \/ ExecuteTool(f)
      PROVE  Owned'
  <2>0. /\ f.cmd \in Cmds /\ f.to \in Insts /\ f.sid \in Sids /\ f.sid = cmd[f.cmd].sid /\ f \in Frames
        /\ UNCHANGED <<cmd, session, minted>>
        /\ f.type \in {"reply", "tool"} => f.to = cmd[f.cmd].at
    BY <1>9, RoutedTypes DEF Owned, HubReads, NodeReads, HubRelays, RenderRemoteReply, ExecuteTool
  <2>1. CASE HubReads(f) \/ NodeReads(f) \/ ExecuteTool(f)
    <3>1. UNCHANGED shown
      BY <2>1 DEF HubReads, NodeReads, ExecuteTool
    <3>2. (\E m \in listener : wire' \subseteq wire \cup Broadcast(m[1], f.cmd, f.sid)) \/ wire' \subseteq wire
      BY <2>1 DEF HubReads, NodeReads, ExecuteTool
    <3>3. \A g \in wire' \ wire : g.type \notin {"reply", "tool"}
      BY <3>2 DEF Broadcast
    <3> QED
      BY <1>8, <2>0, <3>1, <3>3
  <2>2. CASE HubRelays(f) \/ RenderRemoteReply(f)
    <3>0. \/ wire' \subseteq wire
          \/ wire' \subseteq wire \cup {[f EXCEPT !.via = n, !.dir = "down"] : n \in {k \in up : k[1] = f.to}}
      BY <2>2 DEF HubRelays, RenderRemoteReply
    <3>1. /\ \A g \in wire' \ wire : \E n \in up : g = [f EXCEPT !.via = n, !.dir = "down"]
          /\ Show(f.cmd, f.to, f.sid) \/ UNCHANGED shown
      <4>1. Show(f.cmd, f.to, f.sid) \/ UNCHANGED shown
        BY <2>2 DEF HubRelays, RenderRemoteReply
      <4> QED
        BY <3>0, <4>1
    <3>2. \A g \in wire' \ wire : g.to = f.to /\ g.cmd = f.cmd /\ g.type = f.type
      BY <2>0, <3>1 DEF Frames
    <3>3. \A a \in shown' \ shown : a[1] = a[3] /\ cmd[a[1]].at = a[2] /\ cmd[a[1]].pc # "none"
      BY <2>0, <3>1, ShowOwned
    <3> QED
      BY <1>8, <2>0, <3>2, <3>3
  <2> QED
    BY <1>9, <2>1, <2>2
<1>10. ASSUME NEW j \in job, RunJob(j) \/ Answer(j) \/ RouteTool(j) \/ SendTool(j) \/ ToolUnknown(j)
       PROVE  Owned'
  <2>0. /\ j.cmd \in Cmds /\ j.at \in Insts /\ j.sid = cmd[j.cmd].sid /\ j.sid \in Sids /\ cmd[j.cmd].at \in Insts
        /\ UNCHANGED <<cmd, session, minted>>
    BY <1>10, RoutedTypes DEF RunJob, Answer, RouteTool, SendTool, ToolUnknown
  <2>1. \E type \in {"reply", "tool"} : wire' \subseteq wire \cup Towards(type, j.at, cmd[j.cmd].at, j.cmd, j.sid)
    BY <1>10 DEF RunJob, Answer, RouteTool, SendTool, ToolUnknown
  <2>2. \A f \in wire' \ wire : f.to = cmd[j.cmd].at /\ f.cmd = j.cmd
    BY <1>0, <2>0, <2>1, TowardsIs
  <2>3. \A a \in shown' \ shown : a[1] = a[3] /\ cmd[a[1]].at = a[2] /\ cmd[a[1]].pc # "none"
    <3>1. Show(j.cmd, j.at, j.sid) \/ UNCHANGED shown
      BY <1>10 DEF RunJob, Answer, RouteTool, SendTool, ToolUnknown
    <3> QED
      BY <2>0, <3>1, ShowOwned
  <2> QED
    BY <1>8, <2>0, <2>2, <2>3
<1>11. CASE UNCHANGED vars
  BY <1>8, <1>11 DEF vars, routeVars
<1> QED
  BY <1>1, <1>3, <1>4, <1>5, <1>6, <1>7, <1>9, <1>10, <1>11 DEF Next

\* However the roles change while a command is under way, its answers are shown to
\* who typed it, where they typed it (SessionRegistry, _on_cross_message).
THEOREM AnswersReachTheTypist == Spec => []AnswersStayWithTheTypist
<1>1. Init => RoleInv /\ Routed /\ Owned
  <2> SUFFICES ASSUME Init PROVE Owned
    BY RoleInvInit, RoutedInit DEF Init
  <2>1. \A c \in Cmds : cmd[c].sid = <<>>
    BY DEF Init, NothingTyped, NoCmd
  <2>2. \A i \in Insts : ToSet(session[i]) = {}
    BY DEF Init, NothingTyped, ToSet
  <2> QED
    BY <2>1, <2>2, NowhereMinted DEF Init, NothingTyped, Owned
<1>2. RoleInv /\ Routed /\ Owned /\ [Next]_vars => RoleInv' /\ Routed' /\ Owned'
  BY RoleNext, RoutedNext, OwnedNext
<1>3. Owned => AnswersStayWithTheTypist
  BY DEF Owned, AnswersStayWithTheTypist
<1> QED
  BY <1>1, <1>2, <1>3, PTL DEF Spec

-----------------------------------------------------------------------------
(* Where a command runs, and where its tool calls do. *)

\* What is under way for a command.
Wire(c) == {f \in wire : f.cmd = c}
Jobs(c) == {j \in job : j.cmd = c}
Calls(c) == {t \in toolRan : t[1] = c}
RanNowhere(c) == \A i \in Insts : ran[c][i] = 0
Quiet(c) == Wire(c) = {} /\ Jobs(c) = {} /\ Calls(c) = {} /\ RanNowhere(c)

\* Its own thread has it, and nobody else does; a command that was refused stays so.
OwnThread(c) ==
    /\ cmd[c].pc \in {"none", "typed", "link", "run", "forward", "send", "refused"} => Quiet(c)
    /\ cmd[c].pc = "fan" => /\ cmd[c].kind = "cluster" /\ Wire(c) = {} /\ Jobs(c) = {}
                            /\ \A i \in Insts : i # cmd[c].at => ran[c][i] = 0

\* It is on its way to the hub, and ran nowhere.
HandedOver(c) ==
    \A f \in Wire(c) : f.type = "command" =>
        Wire(c) = {f} /\ Jobs(c) = {} /\ Calls(c) = {} /\ RanNowhere(c)

\* It was broadcast, once: an instance that is still to read it has not run it.
SentOnce(c) ==
    \A f \in Wire(c) : f.type = "exec" =>
        /\ cmd[c].kind = "cluster" /\ ran[c][f.to] = 0
        /\ \A j \in Jobs(c) : j.at # f.to
        /\ \A g \in Wire(c) : g.type = "exec" /\ g.to = f.to => g = f

\* One thread of an instance runs it, one thread at all when it is of the hub's class.
OneThread(c) ==
    /\ \A j, k \in Jobs(c) : cmd[c].kind = "server" \/ j.at = k.at => j = k
    /\ \A j \in Jobs(c) : j.pc = "run" =>
          ran[c][j.at] = 0 /\ (cmd[c].kind = "server" => RanNowhere(c))

RanOnce(c) ==
    /\ \A i \in Insts : ran[c][i] <= 1
    /\ cmd[c].kind = "server" => \A i, k \in Insts : ran[c][i] > 0 /\ ran[c][k] > 0 => i = k

\* A routed call is under way: it did not run, and the model knows nothing yet or
\* that the outcome is unknown.
ToolOnItsWay(c) ==
    \A f \in Wire(c) : f.type = "tool" =>
        /\ cmd[c].kind = "server" /\ Calls(c) = {}
        /\ \A g \in Wire(c) : g.type = "tool" => g = f
        /\ \A j \in Jobs(c) : j.pc = "wait" \/ j.told = "unknown"

\* What the model was told of its call.
ToolTold(c) ==
    \A j \in Jobs(c) :
        /\ j.told # "nothing" => j.pc = "answer"
        /\ j.pc \in {"send", "wait"} \/ j.told # "nothing" => cmd[c].kind = "server"
        /\ j.told = "not executed" \/ (j.told = "nothing" /\ j.pc # "wait") => Calls(c) = {}

ToolAtHome(c) == \A t \in Calls(c) : t[2] = cmd[c].at /\ cmd[c].kind = "server" /\ cmd[c].pc # "none"

Once(c) ==
    /\ OwnThread(c) /\ HandedOver(c) /\ SentOnce(c) /\ OneThread(c) /\ RanOnce(c)
    /\ ToolOnItsWay(c) /\ ToolTold(c) /\ ToolAtHome(c)

\* A hub sends one frame to an instance, and none to itself.
LEMMA BroadcastOnce ==
    ASSUME RoleTypes, Hubs, NEW i \in Insts, NEW c \in Cmds, NEW sid \in Sids,
           NEW f \in Broadcast(i, c, sid), NEW g \in Broadcast(i, c, sid)
    PROVE  f.to # i /\ (f.to = g.to => f = g)
<1>1. PICK m \in up : /\ Of(i) \in listener
                      /\ f = [type |-> "exec", cmd |-> c, sid |-> sid, via |-> m, dir |-> "down", to |-> m[1]]
  BY DEF Broadcast
<1>2. PICK n \in up : g = [type |-> "exec", cmd |-> c, sid |-> sid, via |-> n, dir |-> "down", to |-> n[1]]
  BY DEF Broadcast
<1>3. Of(i)[1] = i
  BY DEF Of
<1>4. f.to = m[1] /\ g.to = n[1]
  BY <1>1, <1>2
<1>5. m[1] # i /\ (m[1] = n[1] => m = n)
  BY <1>1, <1>3 DEF Hubs
<1> QED
  BY <1>1, <1>2, <1>4, <1>5

LEMMA TowardsOnce ==
    ASSUME Hubs, NEW type, NEW i, NEW t, NEW c, NEW sid,
           NEW f \in Towards(type, i, t, c, sid), NEW g \in Towards(type, i, t, c, sid)
    PROVE  f = g
<1>1. \A m, n \in up : m[1] = n[1] => m = n
  BY DEF Hubs
<1>2. CASE HasHub(i)
  BY <1>1, <1>2 DEF Towards
<1>3. CASE ~HasHub(i)
  BY <1>3 DEF Towards
<1> QED
  BY <1>2, <1>3

\* Steps that add nothing to a command, and leave its thread where it is or end it.
LEMMA OnceShrinks ==
    ASSUME NEW c \in Cmds, Once(c), cmd'[c].kind = cmd[c].kind, cmd'[c].at = cmd[c].at,
           cmd'[c].pc = cmd[c].pc \/ (cmd[c].pc # "none" /\ cmd'[c].pc = "over"),
           Wire(c)' \subseteq Wire(c), Jobs(c)' \subseteq Jobs(c), Calls(c)' \subseteq Calls(c),
           ran'[c] = ran[c]
    PROVE  Once(c)'
<1>1. OwnThread(c)'
  BY DEF Once, OwnThread, Quiet, RanNowhere
<1>2. HandedOver(c)'
  BY DEF Once, HandedOver, RanNowhere
<1>3. SentOnce(c)'
  BY DEF Once, SentOnce
<1>4. OneThread(c)' /\ RanOnce(c)'
  BY DEF Once, OneThread, RanOnce, RanNowhere
<1>5. ToolOnItsWay(c)' /\ ToolTold(c)' /\ ToolAtHome(c)'
  BY DEF Once, ToolOnItsWay, ToolTold, ToolAtHome
<1> QED
  BY <1>1, <1>2, <1>3, <1>4, <1>5 DEF Once

\* Steps before anybody else has it.
LEMMA OnceQuiet ==
    ASSUME NEW c \in Cmds, Quiet(c)', cmd'[c].pc # "fan"
    PROVE  Once(c)'
  BY DEF Once, OwnThread, HandedOver, SentOnce, OneThread, RanOnce, ToolOnItsWay, ToolTold, ToolAtHome,
     Quiet, RanNowhere

\* Steps on one command leave the others alone.
LEMMA OthersOnce ==
    ASSUME Routed, NEW c \in Cmds, NEW d \in Cmds, d # c, Once(d), cmd'[d] = cmd[d], ran'[d] = ran[d],
           \A f \in wire' \ wire : f.cmd = c, \A j \in job' \ job : j.cmd = c,
           \A t \in toolRan' \ toolRan : t[1] = c
    PROVE  Once(d)'
<1>1. Wire(d)' \subseteq Wire(d) /\ Jobs(d)' \subseteq Jobs(d) /\ Calls(d)' \subseteq Calls(d)
  BY DEF Wire, Jobs, Calls
<1> QED
  BY <1>1, OnceShrinks

\* The thread of a typed command.
LEMMA OnceThread ==
    ASSUME RoleTypes, Hubs, Routed, NEW c \in Cmds, Once(c),
           \/ ShouldForward(c) \/ ClientLinkIsDown(c) \/ RunHere(c) \/ FanOut(c)
           \/ ForwardOpens(c) \/ ForwardSends(c)
    PROVE  Once(c)'
<1> DEFINE i == cmd[c].at
<1>0. /\ cmd \in [Cmds -> CmdRecords]
      /\ cmd[c].pc # "none" => i \in Insts
      /\ ran \in [Cmds -> [Insts -> Nat]] /\ cmd[c].kind \in Kinds
  BY RoutedTypes DEF RecordsTyped, CmdRecords
<1>1. CASE ShouldForward(c) \/ ClientLinkIsDown(c) \/ ForwardOpens(c)
  <2>1. cmd[c].pc \in {"typed", "link", "forward"} /\ UNCHANGED <<wire, job, ran, toolRan>>
    BY <1>1 DEF ShouldForward, ClientLinkIsDown, ForwardOpens, CmdAt
  <2>2. cmd'[c].pc # "fan"
    BY <1>0, <1>1 DEF ShouldForward, ClientLinkIsDown, ForwardOpens, CmdGoto, CmdRecords
  <2>3. Quiet(c)'
    BY <2>1 DEF Once, OwnThread, Quiet, Wire, Jobs, Calls, RanNowhere
  <2> QED
    BY <2>2, <2>3, OnceQuiet
<1>2. CASE RunHere(c)
  <2>1. /\ cmd[c].pc = "run" /\ UNCHANGED <<wire, job, toolRan>> /\ i \in Insts
        /\ ran' = [ran EXCEPT ![c][i] = @ + 1]
    BY <1>0, <1>2 DEF RunHere, CmdAt
  <2>2. /\ cmd'[c].at = i /\ cmd'[c].kind = cmd[c].kind
        /\ cmd'[c].pc = IF cmd[c].kind = "cluster" THEN "fan" ELSE "over"
    BY <1>0, <1>2 DEF RunHere, CmdGoto, CmdRecords
  <2>3. Quiet(c)
    BY <2>1 DEF Once, OwnThread
  <2>4. Wire(c)' = {} /\ Jobs(c)' = {} /\ Calls(c)' = {}
    BY <2>1, <2>3 DEF Quiet, Wire, Jobs, Calls
  <2>5. ran'[c][i] = 1 /\ \A k \in Insts : k # i => ran'[c][k] = 0
    BY <1>0, <2>1, <2>3 DEF Quiet, RanNowhere
  <2>6. OwnThread(c)' /\ HandedOver(c)' /\ SentOnce(c)' /\ OneThread(c)'
    BY <1>0, <2>1, <2>2, <2>4, <2>5 DEF OwnThread, HandedOver, SentOnce, OneThread, Kinds
  <2>7. RanOnce(c)'
    BY <2>1, <2>5 DEF RanOnce
  <2>8. ToolOnItsWay(c)' /\ ToolTold(c)' /\ ToolAtHome(c)'
    BY <2>4 DEF ToolOnItsWay, ToolTold, ToolAtHome
  <2> QED
    BY <2>6, <2>7, <2>8 DEF Once
<1>3. CASE FanOut(c)
  <2>1. /\ cmd[c].pc = "fan" /\ UNCHANGED <<job, ran, toolRan>> /\ i \in Insts
    BY <1>0, <1>3 DEF FanOut, CmdAt
  <2>2. /\ cmd[c].kind = "cluster" /\ Wire(c) = {} /\ Jobs(c) = {}
        /\ \A k \in Insts : k # i => ran[c][k] = 0
        /\ RanOnce(c) /\ ToolAtHome(c)
    BY <2>1 DEF Once, OwnThread
  <2>3. cmd'[c].pc = "over" /\ cmd'[c].at = i /\ cmd'[c].kind = "cluster"
    BY <1>0, <1>3, <2>2 DEF FanOut, CmdGoto, CmdRecords
  <2> DEFINE B == IF HasHub(i) THEN Broadcast(i, c, SessionId(i)) ELSE {}
  <2>4. wire' = wire \cup B
    BY <1>3 DEF FanOut
  <2>5. /\ \A f \in B : f.cmd = c /\ f.type = "exec" /\ f.to \in Insts /\ f.to # i
        /\ \A f, g \in B : f.to = g.to => f = g
    <3>1. SessionId(i) \in Sids
      BY <2>1, RoutedTypes DEF RecordsTyped, SessionId, Sids
    <3>2. \A f \in B : f.cmd = c /\ f.type = "exec" /\ f.to \in Insts
      BY <2>1, <3>1, BroadcastIs DEF Frames
    <3>3. \A f, g \in B : f.to # i /\ (f.to = g.to => f = g)
      BY <2>1, <3>1, BroadcastOnce
    <3> QED
      BY <3>2, <3>3
  <2> HIDE DEF B
  <2>6. Wire(c)' = B /\ Jobs(c)' = {} /\ Calls(c)' = Calls(c)
    BY <2>1, <2>2, <2>4, <2>5 DEF Wire, Jobs, Calls
  <2>7. OwnThread(c)' /\ HandedOver(c)' /\ SentOnce(c)' /\ OneThread(c)'
    BY <2>1, <2>2, <2>3, <2>5, <2>6 DEF OwnThread, HandedOver, SentOnce, OneThread
  <2>8. RanOnce(c)' /\ ToolOnItsWay(c)' /\ ToolTold(c)' /\ ToolAtHome(c)'
    BY <2>1, <2>2, <2>3, <2>5, <2>6 DEF RanOnce, ToolOnItsWay, ToolTold, ToolAtHome
  <2> QED
    BY <2>7, <2>8 DEF Once
<1>4. CASE ForwardSends(c)
  <2>1. /\ cmd[c].pc = "send" /\ UNCHANGED <<ran, toolRan>> /\ i \in Insts /\ cmd[c].sid \in Sids
    BY <1>0, <1>4 DEF ForwardSends, CmdAt, Routed, Tagged
  <2>2. Quiet(c)
    BY <2>1 DEF Once, OwnThread
  <2>3. Calls(c)' = {} /\ RanNowhere(c)'
    BY <2>1, <2>2 DEF Quiet, Calls, RanNowhere
  <2>4. CASE ~Connected(i)
    <3>1. CmdGoto(c, "refused") /\ UNCHANGED <<wire, job>>
      BY <1>4, <2>4 DEF ForwardSends
    <3>2. Quiet(c)' /\ cmd'[c].pc = "refused"
      BY <1>0, <2>2, <2>3, <3>1 DEF Quiet, Wire, Jobs, CmdGoto, CmdRecords
    <3> QED
      BY <3>2, OnceQuiet
  <2>5. CASE Connected(i) /\ ~HasHub(i)
    <3> DEFINE f == [type |-> "command", cmd |-> c, sid |-> cmd[c].sid, via |-> Of(i), dir |-> "up", to |-> i]
    <3>1. CmdGoto(c, "over") /\ wire' = wire \cup {f} /\ UNCHANGED job
      BY <1>4, <2>5 DEF ForwardSends
    <3>2. f.cmd = c /\ f.type = "command"
      OBVIOUS
    <3> HIDE DEF f
    <3>3. Wire(c)' = {f} /\ Jobs(c)' = {} /\ cmd'[c].pc = "over"
      BY <1>0, <2>2, <3>1, <3>2 DEF Quiet, Wire, Jobs, CmdGoto, CmdRecords
    <3>4. OwnThread(c)' /\ HandedOver(c)' /\ SentOnce(c)' /\ OneThread(c)'
      BY <2>3, <3>2, <3>3 DEF OwnThread, HandedOver, SentOnce, OneThread
    <3>5. RanOnce(c)' /\ ToolOnItsWay(c)' /\ ToolTold(c)' /\ ToolAtHome(c)'
      BY <2>3, <3>2, <3>3 DEF RanOnce, ToolOnItsWay, ToolTold, ToolAtHome, RanNowhere
    <3> QED
      BY <3>4, <3>5 DEF Once
  <2>6. CASE Connected(i) /\ HasHub(i)
    <3> DEFINE B == Broadcast(i, c, cmd[c].sid)
               j == NewThread(i, c)
    <3>1. /\ CmdGoto(c, "over") /\ job' = job \cup {j}
          /\ wire' = IF cmd[c].kind = "cluster" THEN wire \cup B ELSE wire
      BY <1>4, <2>6 DEF ForwardSends
    <3>2. /\ \A f \in B : f.cmd = c /\ f.type = "exec" /\ f.to \in Insts
          /\ \A f, g \in B : f.to # i /\ (f.to = g.to => f = g)
      BY <2>1, BroadcastIs, BroadcastOnce DEF Frames
    <3>3. j.cmd = c /\ j.at = i /\ j.pc = "run" /\ j.told = "nothing"
      BY DEF NewThread
    <3> HIDE DEF B, j
    <3>4. /\ Jobs(c)' = {j} /\ cmd'[c].pc = "over" /\ cmd'[c].kind = cmd[c].kind
          /\ Wire(c)' \subseteq B /\ (cmd[c].kind # "cluster" => Wire(c)' = {})
      BY <1>0, <2>2, <3>1, <3>2, <3>3 DEF Quiet, Wire, Jobs, CmdGoto, CmdRecords
    <3>5. OwnThread(c)' /\ HandedOver(c)' /\ SentOnce(c)' /\ OneThread(c)'
      BY <2>1, <2>3, <3>2, <3>3, <3>4 DEF OwnThread, HandedOver, SentOnce, OneThread, RanNowhere
    <3>6. RanOnce(c)' /\ ToolOnItsWay(c)' /\ ToolTold(c)' /\ ToolAtHome(c)'
      BY <2>1, <2>3, <3>2, <3>3, <3>4 DEF RanOnce, ToolOnItsWay, ToolTold, ToolAtHome, RanNowhere
    <3> QED
      BY <3>5, <3>6 DEF Once
  <2> QED
    BY <2>4, <2>5, <2>6
<1> QED
  BY <1>1, <1>2, <1>3, <1>4

\* Steps of a link.
LEMMA OnceLink ==
    ASSUME RoleTypes, Hubs, Routed, Owned, NEW f \in wire, Once(f.cmd),
           HubReads(f) \/ NodeReads(f) \/ HubRelays(f) \/ RenderRemoteReply(f) \/ ExecuteTool(f)
    PROVE  Once(f.cmd)'
<1> DEFINE c == f.cmd
<1>0. /\ c \in Cmds /\ f \in Frames /\ f.to \in Insts /\ f.sid \in Sids /\ cmd[c].sid = f.sid
      /\ ran \in [Cmds -> [Insts -> Nat]] /\ cmd[c].kind \in Kinds /\ cmd[c].pc # "none"
  BY RoutedTypes DEF RecordsTyped, CmdRecords, Routed, Tagged
<1>00. f \in Wire(c) /\ UNCHANGED <<cmd, ran>>
  BY DEF Wire, HubReads, NodeReads, HubRelays, RenderRemoteReply, ExecuteTool
<1>000. f.type \in {"reply", "tool"} => f.to = cmd[c].at
  BY DEF Owned
<1>a. /\ OwnThread(c) /\ HandedOver(c) /\ SentOnce(c) /\ OneThread(c) /\ RanOnce(c)
      /\ ToolOnItsWay(c) /\ ToolTold(c) /\ ToolAtHome(c)
  BY DEF Once
<1> HIDE DEF c
<1>b. cmd[c].pc = "over"
  <2>1. cmd[c].pc \in CmdPcs
    BY <1>0, RoutedTypes DEF CmdRecords
  <2> QED
    BY <1>a, <1>00, <2>1 DEF OwnThread, Quiet, CmdPcs
<1>c. OwnThread(c)'
  BY <1>b, <1>00 DEF OwnThread
<1>1. CASE HubReads(f)
  <2>1. PICK m \in listener :
           /\ job' = job \cup {NewThread(m[1], c)}
           /\ wire' = (wire \ {f}) \cup
                      (IF cmd[c].kind = "cluster" THEN Broadcast(m[1], c, f.sid) ELSE {})
    BY <1>1 DEF HubReads, c
  <2> DEFINE B == Broadcast(m[1], c, f.sid)
             j == NewThread(m[1], c)
  <2>2. f.type = "command" /\ UNCHANGED toolRan /\ m[1] \in Insts
    BY <1>1, ManagerIsPair DEF HubReads, RoleTypes
  <2>3. /\ \A g \in B : g.cmd = c /\ g.type = "exec" /\ g.to \in Insts
        /\ \A g, h \in B : g.to # m[1] /\ (g.to = h.to => g = h)
    BY <1>0, <2>2, BroadcastIs, BroadcastOnce DEF Frames
  <2>4. j.cmd = c /\ j.at = m[1] /\ j.pc = "run" /\ j.told = "nothing"
    BY DEF NewThread
  <2>5. Wire(c) = {f} /\ Jobs(c) = {} /\ Calls(c) = {} /\ RanNowhere(c)
    BY <1>a, <1>00, <2>2 DEF HandedOver
  <2> HIDE DEF B, j
  <2>6. wire' \subseteq (wire \ {f}) \cup B /\ (cmd[c].kind # "cluster" => wire' \subseteq wire \ {f})
    BY <2>1 DEF B
  <2>7. job' = job \cup {j}
    BY <2>1 DEF j
  <2>8. /\ Jobs(c)' = {j} /\ Calls(c)' = {} /\ RanNowhere(c)'
        /\ Wire(c)' \subseteq B /\ (cmd[c].kind # "cluster" => Wire(c)' = {})
    BY <1>00, <2>2, <2>3, <2>4, <2>5, <2>6, <2>7 DEF Wire, Jobs, Calls, RanNowhere
  <2>9. HandedOver(c)' /\ SentOnce(c)' /\ OneThread(c)'
    BY <1>0, <1>00, <2>2, <2>3, <2>4, <2>8 DEF HandedOver, SentOnce, OneThread, RanNowhere, Kinds
  <2>10. RanOnce(c)' /\ ToolOnItsWay(c)' /\ ToolTold(c)' /\ ToolAtHome(c)'
    BY <2>3, <2>4, <2>8 DEF RanOnce, ToolOnItsWay, ToolTold, ToolAtHome, RanNowhere
  <2> QED
    BY <1>c, <2>9, <2>10 DEF Once, c
<1>2. CASE NodeReads(f)
  <2> DEFINE j == NewThread(f.to, c)
  <2>1. f.type = "exec" /\ wire' = wire \ {f} /\ job' = job \cup {j} /\ UNCHANGED toolRan
    BY <1>2 DEF NodeReads, c
  <2>2. j.cmd = c /\ j.at = f.to /\ j.pc = "run" /\ j.told = "nothing"
    BY DEF NewThread
  <2> HIDE DEF j
  <2>3. Wire(c)' = Wire(c) \ {f} /\ Jobs(c)' = Jobs(c) \cup {j} /\ Calls(c)' = Calls(c)
    BY <2>1, <2>2 DEF Wire, Jobs, Calls
  <2>4. /\ cmd[c].kind = "cluster" /\ ran[c][f.to] = 0 /\ \A k \in Jobs(c) : k.at # f.to
        /\ \A g \in Wire(c) : g.type = "exec" /\ g.to = f.to => g = f
    BY <1>00, <1>a, <2>1 DEF SentOnce
  <2>5. \A g \in Wire(c) : g.type \notin {"command", "tool"}
    BY <1>00, <1>a, <2>1, <2>4 DEF HandedOver, ToolOnItsWay
  <2>6. HandedOver(c)' /\ ToolOnItsWay(c)'
    BY <2>3, <2>5 DEF HandedOver, ToolOnItsWay
  <2>7. SentOnce(c)'
    BY <1>00, <1>a, <2>2, <2>3, <2>4 DEF SentOnce
  <2>8. OneThread(c)'
    BY <1>00, <1>a, <2>2, <2>3, <2>4 DEF OneThread
  <2>9. RanOnce(c)' /\ ToolTold(c)' /\ ToolAtHome(c)'
    BY <1>00, <1>a, <2>2, <2>3, <2>4 DEF RanOnce, ToolTold, ToolAtHome
  <2> QED
    BY <1>c, <2>6, <2>7, <2>8, <2>9 DEF Once, c
<1>3. ASSUME wire' \subseteq wire, UNCHANGED <<job, toolRan>> PROVE Once(c)'
  <2>1. Wire(c)' \subseteq Wire(c) /\ Jobs(c)' = Jobs(c) /\ Calls(c)' = Calls(c)
    BY <1>3 DEF Wire, Jobs, Calls
  <2> QED
    BY <1>0, <1>00, <2>1, OnceShrinks DEF c
<1>4. CASE HubRelays(f)
  <2> DEFINE R == {[f EXCEPT !.via = n, !.dir = "down"] : n \in {k \in up : k[1] = f.to}}
  <2>1. /\ f.type \in {"reply", "tool"} /\ UNCHANGED <<job, toolRan>>
        /\ wire' = wire \ {f} \/ wire' = (wire \ {f}) \cup R
    BY <1>4 DEF HubRelays
  <2>2. /\ \A g \in R : g.cmd = c /\ g.type = f.type /\ g.to = f.to
        /\ \A g, h \in R : g = h
    <3>1. \A g \in R : \E n \in up : n[1] = f.to /\ g = [f EXCEPT !.via = n, !.dir = "down"]
      OBVIOUS
    <3>2. \A m, n \in up : m[1] = n[1] => m = n
      BY DEF Hubs
    <3>3. \A g \in R : g.cmd = c /\ g.type = f.type /\ g.to = f.to
      BY <1>0, <3>1 DEF Frames, c
    <3> HIDE DEF R
    <3>4. ASSUME NEW g \in R, NEW h \in R PROVE g = h
      <4>1. PICK m \in up : m[1] = f.to /\ g = [f EXCEPT !.via = m, !.dir = "down"]
        BY <3>1
      <4>2. PICK n \in up : n[1] = f.to /\ h = [f EXCEPT !.via = n, !.dir = "down"]
        BY <3>1
      <4> QED
        BY <3>2, <4>1, <4>2
    <3> QED
      BY <3>3, <3>4
  <2>3. CASE wire' = wire \ {f}
    BY <1>3, <2>1, <2>3 DEF c
  <2>4. CASE wire' = (wire \ {f}) \cup R
    <3> HIDE DEF R
    <3>1. Wire(c)' = (Wire(c) \ {f}) \cup R /\ Jobs(c)' = Jobs(c) /\ Calls(c)' = Calls(c)
      BY <2>1, <2>2, <2>4 DEF Wire, Jobs, Calls
    <3>2. \A g \in Wire(c) : g.type # "command"
      BY <1>00, <1>a, <2>1 DEF HandedOver
    <3>3. HandedOver(c)' /\ SentOnce(c)'
      BY <1>00, <1>a, <2>1, <2>2, <3>1, <3>2 DEF HandedOver, SentOnce
    <3>4. ToolOnItsWay(c)'
      BY <1>00, <1>a, <2>1, <2>2, <3>1 DEF ToolOnItsWay
    <3>5. OneThread(c)' /\ RanOnce(c)' /\ ToolTold(c)' /\ ToolAtHome(c)'
      BY <1>00, <1>a, <3>1 DEF OneThread, RanOnce, ToolTold, ToolAtHome, RanNowhere
    <3> QED
      BY <1>c, <3>3, <3>4, <3>5 DEF Once, c
  <2> QED
    BY <2>1, <2>3, <2>4
<1>5. CASE RenderRemoteReply(f)
  <2>1. wire' \subseteq wire /\ UNCHANGED <<job, toolRan>>
    BY <1>5 DEF RenderRemoteReply
  <2> QED
    BY <1>3, <2>1 DEF c
<1>6. CASE ExecuteTool(f)
  <2> DEFINE refused == Linked(f.to) /\ decide[Of(f.to)].mode = "server"
  <2>1. /\ f.type = "tool" /\ wire' = wire \ {f}
        /\ toolRan' = IF refused THEN toolRan ELSE toolRan \cup {<<c, f.to>>}
    BY <1>6 DEF ExecuteTool, c
  <2>2. \/ UNCHANGED job
        \/ \E j \in job : /\ j.cmd = c /\ j.pc = "wait"
                          /\ job' = (job \ {j}) \cup {[j EXCEPT !.pc = "answer",
                                       !.told = IF refused THEN "not executed" ELSE "result"]}
    BY <1>6 DEF ExecuteTool, Becomes, c
  <2> HIDE DEF refused
  <2>3. /\ cmd[c].kind = "server" /\ Calls(c) = {}
        /\ \A g \in Wire(c) : g.type = "tool" => g = f
        /\ \A j \in Jobs(c) : j.pc = "wait" \/ j.told = "unknown"
    BY <1>00, <1>a, <2>1 DEF ToolOnItsWay
  <2>4. \A g \in Wire(c) : g.type # "command" /\ g.type # "exec"
    BY <1>00, <1>a, <2>1, <2>3 DEF HandedOver, SentOnce
  <2>5. Wire(c)' = Wire(c) \ {f} /\ Calls(c)' = IF refused THEN {} ELSE {<<c, f.to>>}
    BY <2>1, <2>3 DEF Wire, Calls
  <2>6. HandedOver(c)' /\ SentOnce(c)' /\ ToolOnItsWay(c)' /\ RanOnce(c)' /\ ToolAtHome(c)'
    BY <1>0, <1>00, <1>000, <1>a, <2>1, <2>3, <2>4, <2>5
       DEF HandedOver, SentOnce, ToolOnItsWay, RanOnce, ToolAtHome
  <2>7. CASE UNCHANGED job
    <3>1. Jobs(c)' = Jobs(c)
      BY <2>7 DEF Jobs
    <3>2. OneThread(c)' /\ ToolTold(c)'
      BY <1>00, <1>a, <2>3, <3>1 DEF OneThread, ToolTold, RanNowhere
    <3> QED
      BY <1>c, <2>6, <3>2 DEF Once, c
  <2>8. ASSUME NEW j \in job, j.cmd = c, j.pc = "wait",
               job' = (job \ {j}) \cup {[j EXCEPT !.pc = "answer",
                                                  !.told = IF refused THEN "not executed" ELSE "result"]}
        PROVE  Once(c)'
    <3> DEFINE k == [j EXCEPT !.pc = "answer", !.told = IF refused THEN "not executed" ELSE "result"]
    <3>1. /\ k.cmd = c /\ k.at = j.at /\ k.pc = "answer"
          /\ k.told = IF refused THEN "not executed" ELSE "result"
      <4>1. j \in JobRecords
        BY RoutedTypes
      <4> QED
        BY <2>8, <4>1 DEF JobRecords
    <3>2. job' = (job \ {j}) \cup {k} /\ j \in Jobs(c)
      BY <2>8 DEF Jobs
    <3> HIDE DEF k
    <3>3. Jobs(c)' = (Jobs(c) \ {j}) \cup {k}
      BY <3>1, <3>2 DEF Jobs
    <3>4. Jobs(c) = {j}
      BY <1>a, <2>3, <3>2 DEF OneThread
    <3>5. OneThread(c)' /\ ToolTold(c)'
      BY <1>00, <2>3, <2>5, <3>1, <3>3, <3>4 DEF OneThread, ToolTold
    <3> QED
      BY <1>c, <2>6, <3>5 DEF Once, c
  <2> QED
    BY <2>2, <2>7, <2>8 DEF c
<1> QED
  BY <1>1, <1>2, <1>4, <1>5, <1>6 DEF c

\* Steps of a thread that runs a command of another instance.
LEMMA OnceJob ==
    ASSUME RoleTypes, Hubs, Routed, NEW j \in job, Once(j.cmd),
           RunJob(j) \/ Answer(j) \/ RouteTool(j) \/ SendTool(j) \/ ToolUnknown(j)
    PROVE  Once(j.cmd)'
<1> DEFINE c == j.cmd
<1>0. /\ j \in JobRecords /\ c \in Cmds /\ j.at \in Insts /\ j.sid \in Sids /\ cmd[c].at \in Insts
      /\ ran \in [Cmds -> [Insts -> Nat]] /\ cmd[c].kind \in Kinds
  BY RoutedTypes DEF RecordsTyped, CmdRecords
<1>00. j \in Jobs(c) /\ UNCHANGED <<cmd, toolRan>>
  BY DEF Jobs, RunJob, Answer, RouteTool, SendTool, ToolUnknown
<1>a. /\ OwnThread(c) /\ HandedOver(c) /\ SentOnce(c) /\ OneThread(c) /\ RanOnce(c)
      /\ ToolOnItsWay(c) /\ ToolTold(c) /\ ToolAtHome(c)
  BY DEF Once
<1> HIDE DEF c
<1>b. cmd[c].pc = "over"
  <2>1. cmd[c].pc \in CmdPcs
    BY <1>0, RoutedTypes DEF CmdRecords
  <2> QED
    BY <1>a, <1>00, <2>1 DEF OwnThread, Quiet, CmdPcs
<1>c. OwnThread(c)'
  BY <1>b, <1>00 DEF OwnThread
<1>d. Calls(c)' = Calls(c) /\ \A f \in Wire(c) : f.type # "command"
  BY <1>00, <1>a DEF Calls, HandedOver
<1>1. CASE RunJob(j)
  <2> DEFINE k == [j EXCEPT !.pc = "answer"]
  <2>1. /\ j.pc = "run" /\ UNCHANGED wire /\ job' = (job \ {j}) \cup {k}
        /\ ran' = [ran EXCEPT ![c][j.at] = @ + 1]
    BY <1>1 DEF RunJob, c
  <2>2. k.cmd = c /\ k.at = j.at /\ k.pc = "answer" /\ k.told = j.told
    BY <1>0 DEF JobRecords, c
  <2> HIDE DEF k
  <2>3. Wire(c)' = Wire(c) /\ Jobs(c)' = (Jobs(c) \ {j}) \cup {k}
    BY <2>1, <2>2 DEF Wire, Jobs
  <2>4. ran'[c][j.at] = ran[c][j.at] + 1 /\ \A i \in Insts : i # j.at => ran'[c][i] = ran[c][i]
    BY <1>0, <2>1
  <2>5. ran[c][j.at] = 0 /\ (cmd[c].kind = "server" => RanNowhere(c))
    BY <1>00, <1>a, <2>1 DEF OneThread
  <2>6. HandedOver(c)'
    BY <1>d, <2>3 DEF HandedOver
  <2>7. SentOnce(c)'
    <3>1. \A f \in Wire(c) : f.to \in Insts
      BY RoutedTypes DEF Wire
    <3> QED
      BY <1>00, <1>a, <2>2, <2>3, <2>4, <3>1 DEF SentOnce
  <2>8. OneThread(c)'
    <3>1. \A l \in Jobs(c) : l.at \in Insts
      BY RoutedTypes DEF Jobs
    <3> QED
      BY <1>00, <1>a, <2>2, <2>3, <2>4, <3>1 DEF OneThread, RanNowhere
  <2>9. RanOnce(c)'
    BY <1>0, <1>00, <1>a, <2>4, <2>5 DEF RanOnce, RanNowhere
  <2>10. ToolOnItsWay(c)' /\ ToolTold(c)' /\ ToolAtHome(c)'
    BY <1>00, <1>a, <1>d, <2>1, <2>2, <2>3 DEF ToolOnItsWay, ToolTold, ToolAtHome
  <2> QED
    BY <1>c, <2>6, <2>7, <2>8, <2>9, <2>10 DEF Once, c
<1>2. CASE Answer(j)
  <2> DEFINE F == Towards("reply", j.at, cmd[j.cmd].at, j.cmd, j.sid)
  <2>1. job' = job \ {j} /\ UNCHANGED ran /\ wire \subseteq wire' /\ wire' \subseteq wire \cup F
    BY <1>2 DEF Answer
  <2>2. \A f \in F : f.type = "reply" /\ f.cmd = c
    BY <1>0, TowardsIs DEF c
  <2> HIDE DEF F
  <2>3. /\ Jobs(c)' \subseteq Jobs(c)
        /\ \A f \in Wire(c)' : f \in Wire(c) \/ f.type = "reply"
    BY <2>1, <2>2 DEF Wire, Jobs
  <2>4. HandedOver(c)' /\ SentOnce(c)'
    BY <1>00, <1>a, <1>d, <2>1, <2>3 DEF HandedOver, SentOnce
  <2>5. OneThread(c)' /\ RanOnce(c)'
    BY <1>00, <1>a, <2>1, <2>3 DEF OneThread, RanOnce, RanNowhere
  <2>6. ToolOnItsWay(c)' /\ ToolTold(c)' /\ ToolAtHome(c)'
    BY <1>00, <1>a, <1>d, <2>1, <2>3 DEF ToolOnItsWay, ToolTold, ToolAtHome
  <2> QED
    BY <1>c, <2>4, <2>5, <2>6 DEF Once, c
<1>3. CASE RouteTool(j)
  <2>1. PICK pc \in {"send", "answer"}, told \in {"nothing", "not executed"} :
           /\ (pc = "send") = (told = "nothing")
           /\ job' = (job \ {j}) \cup {[j EXCEPT !.pc = pc, !.told = told]}
    BY <1>3 DEF RouteTool, Becomes
  <2>2. j.pc = "answer" /\ j.told = "nothing" /\ cmd[c].kind = "server" /\ UNCHANGED <<wire, ran>>
    BY <1>3 DEF RouteTool, c
  <2> DEFINE k == [j EXCEPT !.pc = pc, !.told = told]
  <2>3. k.cmd = c /\ k.at = j.at /\ k.pc = pc /\ k.told = told
    BY <1>0 DEF JobRecords, c
  <2> HIDE DEF k
  <2>4. Wire(c)' = Wire(c) /\ Jobs(c)' = (Jobs(c) \ {j}) \cup {k}
    BY <2>1, <2>2, <2>3 DEF Wire, Jobs, k
  <2>5. Jobs(c) = {j}
    BY <1>00, <1>a, <2>2 DEF OneThread
  <2>6. Calls(c) = {} /\ \A f \in Wire(c) : f.type # "tool"
    BY <1>00, <1>a, <2>2 DEF ToolTold, ToolOnItsWay
  <2>7. HandedOver(c)' /\ SentOnce(c)' /\ RanOnce(c)'
    BY <1>00, <1>a, <1>d, <2>2, <2>3, <2>4 DEF HandedOver, SentOnce, RanOnce
  <2>8. OneThread(c)'
    BY <2>1, <2>3, <2>4, <2>5 DEF OneThread
  <2>9. ToolOnItsWay(c)' /\ ToolTold(c)' /\ ToolAtHome(c)'
    BY <1>00, <1>d, <2>1, <2>2, <2>3, <2>4, <2>5, <2>6 DEF ToolOnItsWay, ToolTold, ToolAtHome
  <2> QED
    BY <1>c, <2>7, <2>8, <2>9 DEF Once, c
<1>4. CASE SendTool(j)
  <2> DEFINE F == Towards("tool", j.at, cmd[j.cmd].at, j.cmd, j.sid)
             told == IF F # {} THEN "nothing" ELSE "not executed"
             pc == IF F # {} THEN "wait" ELSE "answer"
             k == [j EXCEPT !.pc = pc, !.told = told]
  <2>1. j.pc = "send" /\ UNCHANGED ran /\ wire' = wire \cup F
    BY <1>4 DEF SendTool
  <2>2. job' = (job \ {j}) \cup {k}
    BY <1>4 DEF SendTool, Becomes
  <2>3. /\ \A f \in F : f.type = "tool" /\ f.cmd = c
        /\ \A f, g \in F : f = g
    BY <1>0, TowardsIs, TowardsOnce DEF c
  <2>4. k.cmd = c /\ k.at = j.at /\ k.pc = pc /\ k.told = told
    BY <1>0 DEF JobRecords, c
  <2> HIDE DEF F, k
  <2>5. Wire(c)' = Wire(c) \cup F /\ Jobs(c)' = (Jobs(c) \ {j}) \cup {k}
    BY <2>1, <2>2, <2>3, <2>4 DEF Wire, Jobs
  <2>6. j.told = "nothing" /\ cmd[c].kind = "server" /\ Calls(c) = {}
    BY <1>00, <1>a, <2>1 DEF ToolTold
  <2>7. Jobs(c) = {j}
    BY <1>00, <1>a, <2>6 DEF OneThread
  <2>8. \A f \in Wire(c) : f.type # "tool" /\ f.type # "exec"
    BY <1>00, <1>a, <2>1, <2>6 DEF ToolOnItsWay, SentOnce
  <2>9. HandedOver(c)' /\ SentOnce(c)' /\ RanOnce(c)'
    BY <1>00, <1>a, <1>d, <2>1, <2>3, <2>5, <2>8 DEF HandedOver, SentOnce, RanOnce
  <2>10. OneThread(c)'
    BY <2>4, <2>5, <2>7 DEF OneThread
  <2>11. ToolOnItsWay(c)' /\ ToolTold(c)' /\ ToolAtHome(c)'
    BY <1>00, <1>d, <2>3, <2>4, <2>5, <2>6, <2>7, <2>8 DEF ToolOnItsWay, ToolTold, ToolAtHome
  <2> QED
    BY <1>c, <2>9, <2>10, <2>11 DEF Once, c
<1>5. CASE ToolUnknown(j)
  <2> DEFINE k == [j EXCEPT !.pc = "answer", !.told = "unknown"]
  <2>1. j.pc = "wait" /\ UNCHANGED <<wire, ran>> /\ job' = (job \ {j}) \cup {k}
    BY <1>5 DEF ToolUnknown, Becomes
  <2>2. k.cmd = c /\ k.at = j.at /\ k.pc = "answer" /\ k.told = "unknown"
    BY <1>0 DEF JobRecords, c
  <2> HIDE DEF k
  <2>3. Wire(c)' = Wire(c) /\ Jobs(c)' = (Jobs(c) \ {j}) \cup {k}
    BY <2>1, <2>2 DEF Wire, Jobs
  <2>4. cmd[c].kind = "server"
    BY <1>00, <1>a, <2>1 DEF ToolTold
  <2>5. Jobs(c) = {j}
    BY <1>00, <1>a, <2>4 DEF OneThread
  <2>6. HandedOver(c)' /\ SentOnce(c)' /\ RanOnce(c)'
    BY <1>00, <1>a, <1>d, <2>1, <2>2, <2>3 DEF HandedOver, SentOnce, RanOnce
  <2>7. OneThread(c)'
    BY <2>2, <2>3, <2>5 DEF OneThread
  <2>8. ToolOnItsWay(c)'
    BY <1>00, <1>a, <1>d, <2>2, <2>3, <2>4, <2>5 DEF ToolOnItsWay
  <2>9. ToolTold(c)'
    BY <1>00, <1>a, <1>d, <2>2, <2>3, <2>4, <2>5 DEF ToolTold
  <2>10. ToolAtHome(c)'
    BY <1>00, <1>a, <1>d DEF ToolAtHome
  <2> QED
    BY <1>c, <2>6, <2>7, <2>8, <2>9, <2>10 DEF Once, c
<1> QED
  BY <1>1, <1>2, <1>3, <1>4, <1>5 DEF c

LEMMA OnceNext ==
    ASSUME RoleInv, Routed, Owned, \A c \in Cmds : Once(c), [Next]_vars
    PROVE  \A c \in Cmds : Once(c)'
<1>0. RoleTypes /\ Hubs
  BY DEF RoleInv
<1>1. ASSUME NEW dead, LinkFollows(dead) PROVE \A c \in Cmds : Once(c)'
  <2> SUFFICES ASSUME NEW c \in Cmds PROVE Once(c)'
    OBVIOUS
  <2>1. /\ cmd'[c].at = cmd[c].at /\ cmd'[c].kind = cmd[c].kind
        /\ cmd'[c].pc = cmd[c].pc \/ (cmd[c].pc # "none" /\ cmd'[c].pc = "over")
    BY <1>1, RoutedTypes, CmdFollows
  <2>2. wire' \subseteq wire /\ job' \subseteq job /\ UNCHANGED <<ran, toolRan>>
    BY <1>1 DEF LinkFollows
  <2>3. Wire(c)' \subseteq Wire(c) /\ Jobs(c)' \subseteq Jobs(c) /\ Calls(c)' \subseteq Calls(c)
    BY <2>2 DEF Wire, Jobs, Calls
  <2> QED
    BY <2>1, <2>2, <2>3, OnceShrinks
<1>2. ASSUME NEW c \in Cmds, NEW i \in Insts, NEW kind \in Kinds, Type(c, i, kind)
      PROVE  \A d \in Cmds : Once(d)'
  <2>1. /\ cmd[c].pc = "none" /\ UNCHANGED <<wire, job, ran, toolRan>>
        /\ cmd'[c].pc # "fan" /\ \A d \in Cmds : d # c => cmd'[d] = cmd[d]
    BY <1>2, RoutedTypes DEF Type, NoCmd, CmdAt, CmdRecords
  <2>2. Quiet(c)'
    BY <2>1 DEF Once, OwnThread, Quiet, Wire, Jobs, Calls, RanNowhere
  <2>3. Once(c)'
    BY <2>1, <2>2, OnceQuiet
  <2>4. ASSUME NEW d \in Cmds, d # c PROVE Once(d)'
    BY <2>1, <2>4, OthersOnce
  <2> QED
    BY <2>3, <2>4
<1>3. ASSUME NEW c \in Cmds,
             \/ ShouldForward(c) \/ ClientLinkIsDown(c) \/ RunHere(c) \/ FanOut(c)
             \/ ForwardOpens(c) \/ ForwardSends(c)
      PROVE  \A d \in Cmds : Once(d)'
  <2>1. Once(c)'
    BY <1>0, <1>3, OnceThread
  <2>2. ASSUME NEW d \in Cmds, d # c PROVE Once(d)'
    <3>1. cmd[c].at \in Insts /\ (CmdAt(c, "send") => cmd[c].sid \in Sids)
      BY <1>3, RoutedTypes DEF ShouldForward, ClientLinkIsDown, RunHere, FanOut, ForwardOpens, ForwardSends,
         CmdAt, Routed, Tagged
    <3>2. cmd'[d] = cmd[d] /\ ran'[d] = ran[d] /\ UNCHANGED toolRan
      BY <1>3, <2>2, RoutedTypes DEF ShouldForward, ClientLinkIsDown, RunHere, FanOut, ForwardOpens,
         ForwardSends, CmdGoto, RecordsTyped
    <3>3. \A j \in job' \ job : j.cmd = c
      BY <1>3 DEF ShouldForward, ClientLinkIsDown, RunHere, FanOut, ForwardOpens, ForwardSends, NewThread
    <3>4. \A f \in wire' \ wire : f.cmd = c
      BY <1>3 DEF ShouldForward, ClientLinkIsDown, RunHere, FanOut, ForwardOpens, ForwardSends, Broadcast
    <3> QED
      BY <2>2, <3>2, <3>3, <3>4, OthersOnce
  <2> QED
    BY <2>1, <2>2
<1>4. ASSUME NEW f \in wire,
             HubReads(f) \/ NodeReads(f) \/ HubRelays(f) \/ RenderRemoteReply(f) \/ ExecuteTool(f)
      PROVE  \A d \in Cmds : Once(d)'
  <2>0. f \in Frames /\ f.cmd \in Cmds /\ job \subseteq JobRecords
    BY RoutedTypes
  <2>1. Once(f.cmd)'
    BY <1>0, <1>4, <2>0, OnceLink
  <2>2. UNCHANGED <<cmd, ran>> /\ \A t \in toolRan' \ toolRan : t[1] = f.cmd
    <3>1. UNCHANGED <<cmd, ran>>
      BY <1>4 DEF HubReads, NodeReads, HubRelays, RenderRemoteReply, ExecuteTool
    <3>2. toolRan' = toolRan \/ toolRan' = toolRan \cup {<<f.cmd, f.to>>}
      BY <1>4 DEF HubReads, NodeReads, HubRelays, RenderRemoteReply, ExecuteTool
    <3>3. ASSUME NEW t \in toolRan' \ toolRan PROVE t[1] = f.cmd
      <4>1. t = <<f.cmd, f.to>>
        BY <3>2, <3>3
      <4> QED
        BY <4>1
    <3> QED
      BY <3>1, <3>3
  <2>3. \A j \in job' \ job : j.cmd = f.cmd
    <3>1. CASE HubReads(f) \/ NodeReads(f)
      BY <3>1 DEF HubReads, NodeReads, NewThread
    <3>2. CASE HubRelays(f) \/ RenderRemoteReply(f)
      BY <3>2 DEF HubRelays, RenderRemoteReply
    <3>3. CASE ExecuteTool(f)
      <4>1. \/ job' = job
            \/ \E k \in job : k.cmd = f.cmd /\ \E told \in {"result", "not executed"} :
                  job' = (job \ {k}) \cup {[k EXCEPT !.pc = "answer", !.told = told]}
        BY <3>3 DEF ExecuteTool, Becomes
      <4> QED BY <2>0, <4>1 DEF JobRecords
    <3> QED
      BY <1>4, <3>1, <3>2, <3>3
  <2>4. \A g \in wire' \ wire : g.cmd = f.cmd
    <3>1. CASE HubReads(f)
      BY <3>1 DEF HubReads, Broadcast
    <3>2. CASE HubRelays(f)
      <4> DEFINE relayed(n) == [f EXCEPT !.via = n, !.dir = "down"]
      <4>0. wire' = wire \ {f} \/ wire' = (wire \ {f}) \cup {relayed(n) : n \in {k \in up : k[1] = f.to}}
        BY <3>2, Zenon DEF HubRelays
      <4> HIDE DEF relayed
      <4>1. \A g \in wire' \ wire : \E n \in up : g = relayed(n)
        BY <4>0
      <4> QED
        BY <2>0, <4>1 DEF Frames, relayed
    <3>3. CASE NodeReads(f) \/ RenderRemoteReply(f) \/ ExecuteTool(f)
      BY <3>3 DEF NodeReads, RenderRemoteReply, ExecuteTool
    <3> QED
      BY <1>4, <3>1, <3>2, <3>3
  <2>5. ASSUME NEW d \in Cmds, d # f.cmd PROVE Once(d)'
    BY <2>0, <2>2, <2>3, <2>4, <2>5, OthersOnce
  <2> QED
    BY <2>1, <2>5
<1>5. ASSUME NEW j \in job, RunJob(j) \/ Answer(j) \/ RouteTool(j) \/ SendTool(j) \/ ToolUnknown(j)
      PROVE  \A d \in Cmds : Once(d)'
  <2>0. /\ j \in JobRecords /\ j.cmd \in Cmds /\ j.at \in Insts /\ j.sid \in Sids /\ cmd[j.cmd].at \in Insts
        /\ ran \in [Cmds -> [Insts -> Nat]]
    BY RoutedTypes DEF RecordsTyped
  <2>1. Once(j.cmd)'
    BY <1>0, <1>5, <2>0, OnceJob
  <2>2. UNCHANGED <<cmd, toolRan>> /\ \A d \in Cmds : d # j.cmd => ran'[d] = ran[d]
    BY <1>5, <2>0 DEF RunJob, Answer, RouteTool, SendTool, ToolUnknown
  <2>3. \A k \in job' \ job : k.cmd = j.cmd
    <3>1. \A k \in job' \ job : \E pc \in {"answer", "send", "wait"}, told \in {"nothing", "not executed", "unknown"} :
             k = [j EXCEPT !.pc = pc, !.told = told] \/ k = [j EXCEPT !.pc = pc]
      <4>1. CASE RunJob(j) \/ Answer(j)
        BY <4>1 DEF RunJob, Answer
      <4>2. CASE RouteTool(j) \/ SendTool(j) \/ ToolUnknown(j)
        BY <4>2 DEF RouteTool, SendTool, ToolUnknown, Becomes
      <4> QED
        BY <1>5, <4>1, <4>2
    <3> QED
      BY <2>0, <3>1 DEF JobRecords
  <2>4. \A f \in wire' \ wire : f.cmd = j.cmd
    <3>1. \E type \in {"reply", "tool"} : wire' \subseteq wire \cup Towards(type, j.at, cmd[j.cmd].at, j.cmd, j.sid)
      BY <1>5 DEF RunJob, Answer, RouteTool, SendTool, ToolUnknown
    <3> QED
      BY <1>0, <2>0, <3>1, TowardsIs
  <2>5. ASSUME NEW d \in Cmds, d # j.cmd PROVE Once(d)'
    BY <2>0, <2>2, <2>3, <2>4, <2>5, OthersOnce
  <2> QED
    BY <2>1, <2>5
<1>6. CASE UNCHANGED vars
  <2>1. UNCHANGED <<cmd, wire, job, ran, toolRan>>
    BY <1>6 DEF vars, routeVars
  <2>2. \A c \in Cmds : Wire(c)' = Wire(c) /\ Jobs(c)' = Jobs(c) /\ Calls(c)' = Calls(c)
    BY <2>1 DEF Wire, Jobs, Calls
  <2> QED
    BY <2>1, <2>2, OnceShrinks
<1> QED
  BY <1>1, <1>2, <1>3, <1>4, <1>5, <1>6 DEF Next

RouteInv == RoleInv /\ Routed /\ Owned /\ \A c \in Cmds : Once(c)

LEMMA RouteInvInit == Init => RouteInv
<1> SUFFICES ASSUME Init PROVE RouteInv
  OBVIOUS
<1>1. Owned
  <2>1. \A c \in Cmds : cmd[c].sid = <<>>
    BY DEF Init, NothingTyped, NoCmd
  <2>2. \A i \in Insts : ToSet(session[i]) = {}
    BY DEF Init, NothingTyped, ToSet
  <2> QED
    BY <2>1, <2>2, NowhereMinted DEF Init, NothingTyped, Owned
<1>2. ASSUME NEW c \in Cmds PROVE Once(c)
  <2>1. Wire(c) = {} /\ Jobs(c) = {} /\ Calls(c) = {} /\ RanNowhere(c) /\ cmd[c].pc = "none"
    BY DEF Init, NothingTyped, NoCmd, Wire, Jobs, Calls, RanNowhere
  <2> QED
    BY <2>1 DEF Once, OwnThread, HandedOver, SentOnce, OneThread, RanOnce, ToolOnItsWay, ToolTold, ToolAtHome,
       Quiet, RanNowhere
<1> QED
  BY <1>1, <1>2, RoleInvInit, RoutedInit DEF RouteInv, Init

LEMMA RouteInvNext == RouteInv /\ [Next]_vars => RouteInv'
  BY RoleNext, RoutedNext, OwnedNext, OnceNext DEF RouteInv

LEMMA AtMostOne ==
    ASSUME NEW S, \A x, y \in S : x = y
    PROVE  Cardinality(S) <= 1
<1>1. CASE S = {}
  BY <1>1, FS_EmptySet
<1>2. ASSUME NEW x \in S PROVE Cardinality(S) <= 1
  <2>1. S = {x}
    BY <1>2
  <2> QED
    BY <2>1, FS_Singleton
<1> QED
  BY <1>1, <1>2

-----------------------------------------------------------------------------

\* Every part of the state keeps its type: frames travel over connections that
\* exist, and no instance remembers more than MAX_SESSIONS sessions.
THEOREM RoutingTypes == Spec => []TypeOK
<1>1. RouteInv => TypeOK
  <2> SUFFICES ASSUME RouteInv PROVE TypeOK
    OBVIOUS
  <2>1. RoleTypes /\ RouteTypes /\ Tagged /\ Routed
    BY DEF RouteInv, RoleInv, Routed
  <2>2. RoleTypeOK
    <3>1. Cardinality(listener) <= 1
      BY AtMostOne DEF RouteInv, RoleInv, Hubs
    <3>2. {loopback, up, stopping, stopped} \subseteq SUBSET Managers
      BY <2>1 DEF RoleTypes
    <3> QED
      BY <2>1, <3>1, <3>2 DEF RoleTypes, RoleTypeOK, DecideRecords, Pcs, Hints
  <2>3. ASSUME NEW c \in Cmds
        PROVE  /\ cmd[c].pc \in CmdPcs /\ cmd[c].at \in Insts \cup {"nowhere"} /\ cmd[c].kind \in Kinds
               /\ ran[c] \in [Insts -> Nat]
    BY <2>1 DEF RouteTypes, CmdRecords
  <2> QED
    BY <2>1, <2>2, <2>3 DEF TypeOK, Routed, RouteTypes, CmdPcs
<1> QED
  BY <1>1, RouteInvInit, RouteInvNext, PTL DEF Spec

\* However the roles change while a command is under way, its handler runs at most
\* once on an instance, on one instance only when it is of the hub's class, and
\* nowhere when it was refused (_route, _fan_out_cluster, _on_cross_message).
THEOREM RunsAtMostOnce == Spec => []RunsOnce
<1>1. RouteInv => RunsOnce
  <2> SUFFICES ASSUME RouteInv, NEW c \in Cmds
               PROVE  /\ \A i \in Insts : ran[c][i] <= 1
                      /\ cmd[c].kind = "server" => Cardinality({i \in Insts : ran[c][i] > 0}) <= 1
                      /\ CmdAt(c, "refused") => \A i \in Insts : ran[c][i] = 0
    BY DEF RunsOnce
  <2>1. OwnThread(c) /\ RanOnce(c)
    BY DEF RouteInv, Once
  <2>2. ASSUME cmd[c].kind = "server" PROVE Cardinality({i \in Insts : ran[c][i] > 0}) <= 1
    <3>1. \A i, k \in {n \in Insts : ran[c][n] > 0} : i = k
      BY <2>1, <2>2 DEF RanOnce
    <3> QED
      BY <3>1, AtMostOne
  <2> QED
    BY <2>1, <2>2 DEF OwnThread, RanOnce, Quiet, RanNowhere, CmdAt
<1> QED
  BY <1>1, RouteInvInit, RouteInvNext, PTL DEF Spec

\* A routed tool runs where the command was typed and nowhere else, and it did not
\* run when the model was told so (route_remote_tool_call, _execute_remote_tool).
THEOREM ToolsStayHome == Spec => []ToolsRunAtHome
<1>1. RouteInv => ToolsRunAtHome
  <2> SUFFICES ASSUME RouteInv PROVE ToolsRunAtHome
    OBVIOUS
  <2>0. toolRan \subseteq Cmds \X Insts /\ job \subseteq JobRecords /\ \A c \in Cmds : Once(c)
    BY DEF RouteInv, Routed, RouteTypes
  <2>1. ASSUME NEW t \in toolRan PROVE t[2] = cmd[t[1]].at
    <3>1. t[1] \in Cmds
      BY <2>0, <2>1
    <3>2. t \in Calls(t[1])
      BY <2>1 DEF Calls
    <3> QED
      BY <2>0, <3>1, <3>2 DEF Once, ToolAtHome
  <2>2. ASSUME NEW j \in job, j.told = "not executed" PROVE <<j.cmd, cmd[j.cmd].at>> \notin toolRan
    <3>1. j.cmd \in Cmds /\ j \in Jobs(j.cmd)
      BY <2>0, <2>2 DEF JobRecords, Jobs
    <3>2. Calls(j.cmd) = {}
      BY <2>0, <2>2, <3>1 DEF Once, ToolTold
    <3> QED
      BY <3>2 DEF Calls
  <2> QED
    BY <2>1, <2>2 DEF ToolsRunAtHome
<1> QED
  BY <1>1, RouteInvInit, RouteInvNext, PTL DEF Spec

=============================================================================
