-------------------------- MODULE EnrolmentProofs --------------------------
(***************************************************************************)
(* Theorems about Enrolment, for any number of instances, names,           *)
(* connections, tokens, requests, restarts and failed saves.               *)
(***************************************************************************)
EXTENDS Enrolment, TLAPS

-----------------------------------------------------------------------------
(* Types. *)

AppNames == Apps \cup {""}
TokenRecords == [name : Names, app : AppNames, via : {"token", "rotate", "auto"}]
RequestRecords == [at : 0..MaxRequests, app : AppNames]

TableTypes ==
    /\ nodes \in [Names -> 0..MaxTokens]
    /\ pending \in [Names -> RequestRecords]
    /\ disk \in Table
    /\ tokens \in Seq(TokenRecords) /\ Len(tokens) <= MaxTokens
    /\ asked \in Seq(Names) /\ Len(asked) <= MaxRequests
    /\ expired \subseteq DOMAIN tokens /\ dead \subseteq DOMAIN tokens
    /\ stale \subseteq DOMAIN asked /\ closed \subseteq DOMAIN asked
    /\ unsaved \in BOOLEAN /\ mixed \in BOOLEAN
    /\ failures \in 0..MaxFailures

OpRecords ==
    [pc : {"idle", "waiting?", "request", "issue", "entry", "reissue", "sync"},
     name : Names, app : AppNames, tok : 0..MaxTokens]
ConnRecords ==
    [pc : {"none", "hello", "store", "expiry", "seen", "register"},
     inst : Insts, tok : 0..MaxTokens, open : BOOLEAN, hello : {"good", "dead", "expired"}]

ThreadTypes ==
    /\ op \in OpRecords
    /\ conn \in [Conns -> ConnRecords]
    /\ ident \in [Insts -> 0..MaxTokens] /\ rewriting \subseteq 0..MaxTokens
    /\ claiming \in [Insts -> 0..MaxTokens]
    /\ carried \in [Insts -> 0..MaxTokens]
    /\ link \in [Insts -> {"off", "idle", "dialing", "up", "fatal"}]
    /\ rate \in [{AddrOf[i] : i \in Insts} -> 0..RateLimit]
    /\ restarts \in 0..MaxRestarts

-----------------------------------------------------------------------------
(* The table in memory and in the file. *)

\* A table names tokens and requests that were made, a token under its own name.
Known(names, waiting) ==
    /\ \A n \in Names : names[n] # 0 =>
          names[n] \in DOMAIN tokens /\ tokens[names[n]].name = n
    /\ \A n \in Names : waiting[n].at # 0 => waiting[n].at \in DOMAIN asked

\* What TableKept asks of a table.
Kept(names, waiting) ==
    /\ \A t \in DOMAIN tokens : t \notin dead => names[tokens[t].name] = t
    /\ \A n \in Names : names[n] \notin dead
    /\ \A r \in DOMAIN asked : r \notin closed /\ r \notin stale => waiting[asked[r]].at = r

\* What TableKept needs to be inductive, and that the file never has a newer
\* token than the memory has.
TableInv ==
    /\ TableTypes
    /\ Known(nodes, pending) /\ Known(disk.nodes, disk.pending)
    /\ Kept(nodes, pending) /\ (~unsaved => Kept(disk.nodes, disk.pending))
    /\ \A n \in Names : nodes[n] # 0 => disk.nodes[n] <= nodes[n]

\* All that the table's invariant speaks about.
tableParts == <<nodes, pending, disk, tokens, asked, expired, dead, stale, closed,
                unsaved, mixed, failures>>

LEMMA BoundsAreNat ==
    /\ MaxTokens \in Nat /\ MaxRequests \in Nat /\ MaxRestarts \in Nat /\ MaxFailures \in Nat
    /\ MaxPending \in Nat /\ RateLimit \in Nat
    /\ 0 \in 0..MaxTokens /\ 0 \in 0..MaxRequests /\ 0 \in 0..MaxFailures
    /\ 0 \in 0..MaxRestarts /\ 0 \in 0..RateLimit
<1>1. /\ MaxTokens \in Nat /\ MaxRequests \in Nat /\ MaxRestarts \in Nat /\ MaxFailures \in Nat
      /\ MaxPending \in Nat /\ RateLimit \in Nat
  BY EnrolBounds
<1> QED
  BY <1>1

LEMMA NoRequestIsRequest == NoRequest \in RequestRecords /\ NoRequest.at = 0
  BY BoundsAreNat DEF NoRequest, RequestRecords, AppNames

\* A table in the sense of the module, by its two fields.
LEMMA TableIsPair ==
    ASSUME NEW names \in [Names -> 0..MaxTokens], NEW waiting \in [Names -> RequestRecords]
    PROVE  [nodes |-> names, pending |-> waiting] \in Table
  BY DEF Table, RequestRecords, AppNames

LEMMA KeptIsTableKept ==
    TableKept <=> Kept(nodes, pending) /\ (~unsaved => Kept(disk.nodes, disk.pending))
  BY DEF TableKept, Kept

LEMMA TableUntouched == TableInv /\ UNCHANGED tableParts => TableInv'
  BY DEF TableInv, TableTypes, Known, Kept, tableParts

\* A save writes the table or fails (_save_nodes).
LEMMA SaveDoes ==
    ASSUME failures \in 0..MaxFailures, NEW table, NEW waiting, Save(table, waiting)
    PROVE  /\ failures' \in 0..MaxFailures /\ unsaved' \in BOOLEAN
           /\ disk' = disk \/ disk' = [nodes |-> table, pending |-> waiting]
           /\ disk' = [nodes |-> table, pending |-> waiting] \/ unsaved'
<1>1. CASE disk' = [nodes |-> table, pending |-> waiting] /\ unsaved' = FALSE /\ failures' = failures
  BY <1>1
<1>2. CASE failures < MaxFailures /\ failures' = failures + 1 /\ unsaved' = TRUE /\ disk' = disk
  <2>1. failures' \in 0..MaxFailures
    BY <1>2, BoundsAreNat
  <2>2. unsaved'
    BY <1>2, Zenon
  <2> QED
    BY <1>2, <2>1, <2>2, Zenon
<1> QED
  BY <1>1, <1>2, Zenon DEF Save

\* An empty table (__init__).
LEMMA TableInit == Init => TableInv
<1> SUFFICES ASSUME Init PROVE TableInv
  OBVIOUS
<1>1. /\ nodes = [n \in Names |-> 0] /\ pending = [n \in Names |-> NoRequest]
      /\ disk.nodes = nodes /\ disk.pending = pending /\ tokens = <<>> /\ asked = <<>>
      /\ unsaved = FALSE
  BY DEF Init
<1>2. TableTypes
  <2>1. nodes \in [Names -> 0..MaxTokens]
    BY <1>1, BoundsAreNat
  <2>2. pending \in [Names -> RequestRecords]
    BY <1>1, NoRequestIsRequest
  <2>3. disk \in Table
    BY <2>1, <2>2, TableIsPair DEF Init
  <2>4. /\ tokens \in Seq(TokenRecords) /\ Len(tokens) <= MaxTokens
        /\ asked \in Seq(Names) /\ Len(asked) <= MaxRequests
    BY <1>1, BoundsAreNat
  <2> QED
    BY <2>1, <2>2, <2>3, <2>4, BoundsAreNat DEF Init, TableTypes
<1>3. Known(nodes, pending) /\ Kept(nodes, pending)
  <2>1. /\ \A n \in Names : nodes[n] = 0 /\ pending[n].at = 0
        /\ DOMAIN tokens = {} /\ DOMAIN asked = {} /\ dead = {}
    BY <1>1, NoRequestIsRequest DEF Init
  <2> QED
    BY <2>1 DEF Known, Kept
<1> QED
  BY <1>1, <1>2, <1>3 DEF TableInv

LEMMA AppendToken ==
    ASSUME tokens \in Seq(TokenRecords), NEW new \in TokenRecords, tokens' = Append(tokens, new)
    PROVE  /\ tokens' \in Seq(TokenRecords) /\ Len(tokens') = Len(tokens) + 1
           /\ Len(tokens) \in Nat /\ DOMAIN tokens = 1..Len(tokens)
           /\ DOMAIN tokens' = 1..Len(tokens')
           /\ tokens'[Len(tokens')] = new
           /\ \A k \in DOMAIN tokens : tokens'[k] = tokens[k]
  OBVIOUS

\* issue: a new token under a name.
LEMMA MintKeeps ==
    ASSUME TableInv, NEW n \in Names, NEW app \in AppNames, NEW via \in {"token", "rotate", "auto"},
           Mint(n, app, via), UNCHANGED <<asked, expired, stale>>
    PROVE  TableInv'
<1> DEFINE new == [name |-> n, app |-> app, via |-> via]
           t == Len(tokens) + 1
<1>1. /\ new \in TokenRecords /\ tokens \in Seq(TokenRecords) /\ tokens' = Append(tokens, new)
      /\ new.name = n
  BY DEF TableInv, TableTypes, TokenRecords, Mint
<1> HIDE DEF new
<1>2. /\ tokens' \in Seq(TokenRecords) /\ Len(tokens') = t /\ Len(tokens) \in Nat
      /\ DOMAIN tokens = 1..Len(tokens) /\ DOMAIN tokens' = 1..t
      /\ tokens'[t] = new /\ tokens'[t].name = n
      /\ \A k \in DOMAIN tokens : tokens'[k] = tokens[k]
  BY <1>1, AppendToken
<1>3. t \in DOMAIN tokens' /\ t \notin DOMAIN tokens /\ t # 0 /\ t \in 0..MaxTokens
      /\ t <= MaxTokens /\ DOMAIN tokens \subseteq DOMAIN tokens' /\ 0 \notin DOMAIN tokens
  BY <1>2, BoundsAreNat DEF Mint
<1>4. /\ nodes' = [nodes EXCEPT ![n] = t] /\ pending' = [pending EXCEPT ![n] = NoRequest]
      /\ dead' = dead \cup ({nodes[n]} \ {0}) /\ closed' = closed \cup ({pending[n].at} \ {0})
  BY DEF Mint
<1> HIDE DEF t
<1>5. /\ nodes \in [Names -> 0..MaxTokens] /\ pending \in [Names -> RequestRecords]
      /\ nodes' \in [Names -> 0..MaxTokens] /\ pending' \in [Names -> RequestRecords]
  BY <1>3, <1>4, NoRequestIsRequest DEF TableInv, TableTypes
<1>6. /\ failures' \in 0..MaxFailures /\ unsaved' \in BOOLEAN
      /\ disk' = disk \/ disk' = [nodes |-> nodes', pending |-> pending']
      /\ disk' = [nodes |-> nodes', pending |-> pending'] \/ unsaved'
  <2>1. failures \in 0..MaxFailures /\ Save(nodes', pending')
    BY DEF TableInv, TableTypes, Mint
  <2> QED
    BY <2>1, SaveDoes
<1>7. unsaved' \/ (disk'.nodes = nodes' /\ disk'.pending = pending')
  BY <1>6
<1>8. TableTypes'
  <2>1. dead' \subseteq DOMAIN tokens' /\ closed' \subseteq DOMAIN asked' /\ expired' \subseteq DOMAIN tokens'
    BY <1>3, <1>4 DEF TableInv, TableTypes, Known
  <2>2. disk' \in Table
    BY <1>5, <1>6, TableIsPair DEF TableInv, TableTypes
  <2>3. mixed' \in BOOLEAN
    BY DEF Mint, TableInv, TableTypes, Provisioning
  <2> QED
    BY <1>2, <1>3, <1>5, <1>6, <2>1, <2>2, <2>3 DEF TableInv, TableTypes
<1>9. Known(nodes, pending)'
  BY <1>2, <1>3, <1>4, <1>5 DEF TableInv, Known, NoRequest
<1>10. Known(disk.nodes, disk.pending)'
  <2>1. CASE disk' = disk
    BY <1>2, <1>3, <2>1 DEF TableInv, Known
  <2>2. CASE disk' = [nodes |-> nodes', pending |-> pending']
    BY <1>9, <2>2 DEF Known
  <2> QED
    BY <1>6, <2>1, <2>2
<1>11. Kept(nodes, pending)'
  <2>1. ASSUME NEW k \in DOMAIN tokens', k \notin dead' PROVE nodes'[tokens'[k].name] = k
    <3>1. CASE k = t
      BY <1>2, <1>4, <1>5, <3>1
    <3>2. CASE k # t
      <4>1. k \in DOMAIN tokens /\ k # 0
        BY <1>2, <1>3, <3>2 DEF t
      <4>2. k \notin dead /\ nodes[tokens[k].name] = k /\ nodes[n] # k
        BY <1>4, <2>1, <4>1 DEF TableInv, Kept
      <4>3. tokens[k].name \in Names
        <5>1. tokens[k] \in TokenRecords
          BY <1>1, <1>2, <4>1
        <5> QED
          BY <5>1 DEF TokenRecords
      <4> QED
        BY <1>2, <1>4, <1>5, <4>1, <4>2, <4>3
    <3> QED
      BY <3>1, <3>2
  <2>2. ASSUME NEW m \in Names PROVE nodes'[m] \notin dead'
    <3>1. CASE m = n
      BY <1>3, <1>4, <1>5, <3>1 DEF TableInv, TableTypes, Known
    <3>2. CASE m # n
      BY <1>4, <1>5, <3>2 DEF TableInv, Known, Kept
    <3> QED
      BY <3>1, <3>2
  <2>3. \A r \in DOMAIN asked' : r \notin closed' /\ r \notin stale' => pending'[asked'[r]].at = r
    <3> SUFFICES ASSUME NEW r \in DOMAIN asked, r \notin closed', r \notin stale
                 PROVE  pending'[asked[r]].at = r
      OBVIOUS
    <3>1. asked[r] \in Names /\ r # 0
      BY DEF TableInv, TableTypes
    <3>2. pending[asked[r]].at = r /\ pending[n].at # r
      BY <1>4, <3>1 DEF TableInv, Kept
    <3> QED
      BY <1>4, <1>5, <3>1, <3>2
  <2> QED
    BY <2>1, <2>2, <2>3 DEF Kept
<1>12. unsaved' \/ Kept(disk.nodes, disk.pending)'
  BY <1>7, <1>11
<1>13. \A m \in Names : nodes'[m] # 0 => disk'.nodes[m] <= nodes'[m]
  <2>1. CASE disk' = disk
    <3>1. \A m \in Names : disk.nodes[m] \in 0..Len(tokens)
      BY <1>2 DEF TableInv, Known
    <3>2. disk.nodes[n] <= t
      BY <1>2, <3>1 DEF t
    <3> QED
      BY <1>4, <1>5, <2>1, <3>2 DEF TableInv
  <2>2. CASE disk' = [nodes |-> nodes', pending |-> pending']
    BY <1>5, <2>2
  <2> QED
    BY <1>6, <2>1, <2>2
<1> QED
  BY <1>8, <1>9, <1>10, <1>11, <1>12, <1>13 DEF TableInv

\* enrol, prune, record_seen: the waiting list changes, the tokens do not.
LEMMA WaitingChanges ==
    ASSUME TableInv, UNCHANGED <<nodes, tokens, expired, dead, stale, closed, mixed>>,
           pending' \in [Names -> RequestRecords],
           asked' \in Seq(Names), Len(asked') <= MaxRequests, DOMAIN asked \subseteq DOMAIN asked',
           \A r \in DOMAIN asked : asked'[r] = asked[r],
           \A m \in Names : pending'[m].at # 0 => pending'[m].at \in DOMAIN asked',
           \A r \in DOMAIN asked' : r \notin closed /\ r \notin stale => pending'[asked'[r]].at = r,
           (asked' = asked /\ UNCHANGED <<disk, unsaved, failures>>) \/ Save(nodes, pending')
    PROVE  TableInv'
<1>1. TableTypes
  BY DEF TableInv
<1>2. \/ asked' = asked /\ UNCHANGED <<disk, unsaved, failures>>
      \/ /\ failures' \in 0..MaxFailures /\ unsaved' \in BOOLEAN
         /\ disk' = disk \/ disk' = [nodes |-> nodes, pending |-> pending']
         /\ disk' = [nodes |-> nodes, pending |-> pending'] \/ unsaved'
  <2>1. failures \in 0..MaxFailures
    BY <1>1 DEF TableTypes
  <2> QED
    BY <2>1, SaveDoes
<1>3. disk' = disk \/ disk' = [nodes |-> nodes, pending |-> pending']
  BY <1>2
<1>4. TableTypes'
  <2>1. disk' \in Table /\ failures' \in 0..MaxFailures /\ unsaved' \in BOOLEAN
    BY <1>1, <1>2, TableIsPair DEF TableTypes
  <2> QED
    BY <1>1, <2>1 DEF TableTypes
<1>5. Known(nodes, pending)' /\ Kept(nodes, pending)'
  BY DEF TableInv, Known, Kept
<1>6. Known(disk.nodes, disk.pending)'
  <2>1. CASE disk' = disk
    BY <2>1 DEF TableInv, Known
  <2>2. CASE disk' = [nodes |-> nodes, pending |-> pending']
    BY <1>5, <2>2 DEF Known
  <2> QED
    BY <1>3, <2>1, <2>2
<1>7. unsaved' \/ Kept(disk.nodes, disk.pending)'
  <2>1. CASE asked' = asked /\ UNCHANGED <<disk, unsaved, failures>>
    BY <2>1 DEF TableInv, Kept
  <2>2. CASE disk' = [nodes |-> nodes, pending |-> pending']
    BY <1>5, <2>2 DEF Kept
  <2> QED
    BY <1>2, <2>1, <2>2
<1>8. \A m \in Names : nodes'[m] # 0 => disk'.nodes[m] <= nodes'[m]
  <2>1. CASE disk' = disk
    BY <2>1 DEF TableInv
  <2>2. CASE disk' = [nodes |-> nodes, pending |-> pending']
    BY <1>1, <2>2 DEF TableTypes
  <2> QED
    BY <1>3, <2>1, <2>2
<1> QED
  BY <1>4, <1>5, <1>6, <1>7, <1>8 DEF TableInv

\* _prune_pending drops the requests that are too old and touches no other.
LEMMA PrunedIsWaiting ==
    ASSUME TableInv
    PROVE  /\ Pruned \in [Names -> RequestRecords]
           /\ \A m \in Names : Pruned[m].at # 0 => Pruned[m].at \in DOMAIN asked
           /\ \A r \in DOMAIN asked : r \notin closed /\ r \notin stale =>
                 Pruned[asked[r]].at = r /\ Pruned[asked[r]] # NoRequest
<1>1. pending \in [Names -> RequestRecords] /\ asked \in Seq(Names)
  BY DEF TableInv, TableTypes
<1>2. Pruned \in [Names -> RequestRecords]
  BY <1>1, NoRequestIsRequest DEF Pruned
<1>3. ASSUME NEW m \in Names, Pruned[m].at # 0 PROVE Pruned[m].at \in DOMAIN asked
  BY <1>3, NoRequestIsRequest DEF Pruned, TableInv, Known
<1>4. ASSUME NEW r \in DOMAIN asked, r \notin closed, r \notin stale
      PROVE  Pruned[asked[r]].at = r /\ Pruned[asked[r]] # NoRequest
  <2>1. asked[r] \in Names /\ r # 0
    BY <1>1
  <2>2. pending[asked[r]].at = r
    BY <1>4 DEF TableInv, Kept
  <2>3. Pruned[asked[r]] = pending[asked[r]]
    BY <1>4, <2>1, <2>2 DEF Pruned
  <2> QED
    BY <2>1, <2>2, <2>3, NoRequestIsRequest
<1> QED
  BY <1>2, <1>3, <1>4

LEMMA PruneKeeps ==
    ASSUME TableInv, PruneOnly, UNCHANGED <<asked, tokens, expired, dead, stale, closed, mixed>>
    PROVE  TableInv'
<1>1. asked \in Seq(Names) /\ Len(asked) <= MaxRequests
  BY DEF TableInv, TableTypes
<1>2. pending' = Pruned /\ UNCHANGED <<nodes, disk, unsaved, failures>>
  BY DEF PruneOnly
<1> QED
  BY <1>1, <1>2, PrunedIsWaiting, WaitingChanges

LEMMA SaveKeeps ==
    ASSUME TableInv, UNCHANGED <<nodes, pending, asked, tokens, expired, dead, stale, closed, mixed>>,
           Save(nodes, pending)
    PROVE  TableInv'
<1>1. /\ asked \in Seq(Names) /\ Len(asked) <= MaxRequests
      /\ pending \in [Names -> RequestRecords]
  BY DEF TableInv, TableTypes
<1>2. Known(nodes, pending) /\ Kept(nodes, pending) /\ Save(nodes, pending')
  BY DEF TableInv
<1> QED
  BY <1>1, <1>2, WaitingChanges DEF Known, Kept

\* revoke: the name's token and its request go.
LEMMA RevokeKeeps ==
    ASSUME TableInv, NEW n \in Names, Revoke(n)
    PROVE  TableInv'
<1>1. /\ nodes' = [nodes EXCEPT ![n] = 0] /\ pending' = [pending EXCEPT ![n] = NoRequest]
      /\ dead' = dead \cup ({nodes[n]} \ {0}) /\ closed' = closed \cup ({pending[n].at} \ {0})
      /\ UNCHANGED <<tokens, asked, expired, stale, mixed>>
  BY DEF Revoke, OpKeeps, timeVars
<1>2. TableTypes /\ 0 \notin DOMAIN tokens
  BY DEF TableInv, TableTypes
<1>3. /\ nodes \in [Names -> 0..MaxTokens] /\ nodes' \in [Names -> 0..MaxTokens]
      /\ pending \in [Names -> RequestRecords] /\ pending' \in [Names -> RequestRecords]
      /\ nodes'[n] = 0 /\ pending'[n].at = 0
      /\ \A m \in Names \ {n} : nodes'[m] = nodes[m] /\ pending'[m] = pending[m]
  BY <1>1, <1>2, BoundsAreNat, NoRequestIsRequest DEF TableTypes
<1>4. \/ nodes[n] = 0 /\ UNCHANGED <<disk, unsaved, failures>>
      \/ /\ failures' \in 0..MaxFailures /\ unsaved' \in BOOLEAN
         /\ disk' = disk \/ disk' = [nodes |-> nodes', pending |-> pending']
         /\ disk' = [nodes |-> nodes', pending |-> pending'] \/ unsaved'
  <2>1. failures \in 0..MaxFailures
    BY <1>2 DEF TableTypes
  <2> QED
    BY <2>1, SaveDoes DEF Revoke
<1>5. disk' = disk \/ disk' = [nodes |-> nodes', pending |-> pending']
  BY <1>4
<1>6. TableTypes'
  <2>1. disk' \in Table /\ failures' \in 0..MaxFailures /\ unsaved' \in BOOLEAN
    BY <1>2, <1>3, <1>4, TableIsPair DEF TableTypes
  <2>2. dead' \subseteq DOMAIN tokens /\ closed' \subseteq DOMAIN asked
    BY <1>1, <1>2 DEF TableInv, TableTypes, Known
  <2> QED
    BY <1>1, <1>2, <1>3, <2>1, <2>2 DEF TableTypes
<1>7. Known(nodes, pending)'
  BY <1>1, <1>3 DEF TableInv, Known
<1>8. Kept(nodes, pending)'
  <2>1. ASSUME NEW t \in DOMAIN tokens, t \notin dead' PROVE nodes'[tokens[t].name] = t
    <3>1. tokens[t].name \in Names
      <4>1. tokens[t] \in TokenRecords
        BY <1>2 DEF TableTypes
      <4> QED
        BY <4>1 DEF TokenRecords
    <3>2. nodes[tokens[t].name] = t /\ nodes[n] # t
      BY <1>1, <1>2, <2>1 DEF TableInv, Kept
    <3> QED
      BY <1>3, <3>1, <3>2
  <2>2. ASSUME NEW m \in Names PROVE nodes'[m] \notin dead'
    <3>1. CASE m = n
      BY <1>1, <1>2, <1>3, <3>1 DEF TableTypes
    <3>2. CASE m # n
      BY <1>1, <1>3, <3>2 DEF TableInv, Known, Kept
    <3> QED
      BY <3>1, <3>2
  <2>3. ASSUME NEW r \in DOMAIN asked, r \notin closed', r \notin stale
        PROVE  pending'[asked[r]].at = r
    <3>1. asked[r] \in Names /\ r # 0
      BY <1>2 DEF TableTypes
    <3>2. pending[asked[r]].at = r /\ pending[n].at # r
      BY <1>1, <2>3, <3>1 DEF TableInv, Kept
    <3> QED
      BY <1>3, <3>1, <3>2
  <2> QED
    BY <1>1, <2>1, <2>2, <2>3 DEF Kept
<1>9. Known(disk.nodes, disk.pending)'
  <2>1. CASE disk' = disk
    BY <1>1, <2>1 DEF TableInv, Known
  <2>2. CASE disk' = [nodes |-> nodes', pending |-> pending']
    BY <1>7, <2>2 DEF Known
  <2> QED
    BY <1>5, <2>1, <2>2
<1>10. unsaved' \/ Kept(disk.nodes, disk.pending)'
  <2>1. CASE nodes[n] = 0 /\ UNCHANGED <<disk, unsaved, failures>>
    BY <1>1, <2>1 DEF TableInv, Kept
  <2>2. CASE disk' = [nodes |-> nodes', pending |-> pending']
    BY <1>8, <2>2 DEF Kept
  <2> QED
    BY <1>4, <2>1, <2>2
<1>11. \A m \in Names : nodes'[m] # 0 => disk'.nodes[m] <= nodes'[m]
  <2>1. CASE disk' = disk
    BY <1>3, <2>1 DEF TableInv
  <2>2. CASE disk' = [nodes |-> nodes', pending |-> pending']
    BY <1>3, <2>2
  <2> QED
    BY <1>5, <2>1, <2>2
<1> QED
  BY <1>6, <1>7, <1>8, <1>9, <1>10, <1>11 DEF TableInv

\* __init__ reads the file again: what is there is live, the rest is not.
LEMMA RestartKeeps ==
    ASSUME TableInv, Restart
    PROVE  TableInv'
<1>1. /\ nodes' = disk.nodes /\ pending' = disk.pending /\ unsaved' = FALSE
      /\ UNCHANGED <<disk, failures, tokens, asked, expired, stale>>
  BY DEF Restart
<1>2. TableTypes /\ 0 \notin DOMAIN tokens
  BY DEF TableInv, TableTypes
<1>3. disk.nodes \in [Names -> 0..MaxTokens] /\ disk.pending \in [Names -> RequestRecords]
  BY <1>2 DEF TableTypes, Table, RequestRecords, AppNames
<1>4. Kept(disk.nodes, disk.pending)' /\ dead' \subseteq DOMAIN tokens /\ closed' \subseteq DOMAIN asked
  <2>1. CASE unsaved
    <3>1. /\ dead' = (dead \cup DOMAIN tokens) \ {disk.nodes[n] : n \in Names}
          /\ closed' = closed \cup {r \in DOMAIN asked : disk.pending[asked[r]].at # r}
      BY <2>1 DEF Restart
    <3>2. ASSUME NEW t \in DOMAIN tokens, t \notin dead' PROVE disk.nodes[tokens[t].name] = t
      <4>1. PICK n \in Names : disk.nodes[n] = t
        BY <3>1, <3>2
      <4> QED
        BY <1>2, <4>1 DEF TableInv, Known
    <3>3. /\ dead' \subseteq DOMAIN tokens /\ \A m \in Names : disk.nodes[m] \notin dead'
          /\ closed' \subseteq DOMAIN asked
      BY <1>2, <3>1 DEF TableTypes
    <3> QED
      BY <1>1, <3>1, <3>2, <3>3 DEF Kept
  <2>2. CASE ~unsaved
    BY <1>1, <1>2, <2>2 DEF Restart, TableInv, TableTypes, Kept
  <2> QED
    BY <2>1, <2>2
<1>5. mixed' \in BOOLEAN
  BY DEF Restart
<1>6. TableTypes'
  BY <1>1, <1>2, <1>3, <1>4, <1>5 DEF TableTypes
<1>7. \A m \in Names : disk.nodes[m] <= disk.nodes[m]
  BY <1>3
<1>8. Known(disk.nodes, disk.pending)' /\ Known(nodes, pending)' /\ Kept(nodes, pending)'
  BY <1>1, <1>4 DEF TableInv, Known, Kept
<1> QED
  BY <1>1, <1>4, <1>6, <1>7, <1>8 DEF TableInv

\* Time only takes away what the table has to keep.
LEMMA TimeKeeps ==
    ASSUME TableInv, expired \subseteq expired', expired' \subseteq DOMAIN tokens,
           stale \subseteq stale', stale' \subseteq DOMAIN asked,
           UNCHANGED <<nodes, pending, disk, tokens, asked, dead, closed, unsaved, mixed, failures>>
    PROVE  TableInv'
<1>1. TableTypes'
  BY DEF TableInv, TableTypes
<1>2. Known(nodes, pending)' /\ Known(disk.nodes, disk.pending)'
  BY DEF TableInv, Known
<1>3. Kept(nodes, pending)' /\ (unsaved' \/ Kept(disk.nodes, disk.pending)')
  BY DEF TableInv, Kept
<1> QED
  BY <1>1, <1>2, <1>3 DEF TableInv
-----------------------------------------------------------------------------
(* Every step keeps the table's invariant and the threads' types. *)

TypedInv == TableInv /\ ThreadTypes

LEMMA IdleIsTyped == Idle \in OpRecords /\ NoConn \in ConnRecords /\ BotName \in Names
<1>1. BotName \in Names
  BY BotIsAnInstance, NamesGiven DEF BotName
<1> QED
  BY <1>1, BotIsAnInstance, BoundsAreNat DEF Idle, NoConn, OpRecords, ConnRecords, AppNames, BotName

LEMMA IdleIsIdle == Idle.pc = "idle" /\ Idle.pc # "sync"
  BY DEF Idle

LEMMA NameIsName ==
    ASSUME ThreadTypes, NEW c \in Conns
    PROVE  Name(c) \in Names /\ conn[c].inst \in Insts /\ AppOf(conn[c].inst) \in AppNames
<1>1. conn[c].inst \in Insts
  BY DEF ThreadTypes, ConnRecords
<1> QED
  BY <1>1, NamesGiven DEF Name, AppOf, AppNames, Apps

LEMMA TokenRecord ==
    ASSUME TableInv, NEW n \in Names, nodes[n] # 0
    PROVE  /\ nodes[n] \in DOMAIN tokens /\ tokens[nodes[n]].name = n
           /\ tokens[nodes[n]].app \in AppNames
<1>1. nodes[n] \in DOMAIN tokens /\ tokens[nodes[n]].name = n /\ tokens \in Seq(TokenRecords)
  BY DEF TableInv, TableTypes, Known
<1>2. tokens[nodes[n]] \in TokenRecords
  BY <1>1
<1> QED
  BY <1>1, <1>2 DEF TokenRecords

\* A write of the bot's config, whether it succeeds or not, leaves the table.
LEMMA ConfigWriteKeeps ==
    ASSUME TypedInv, NEW t \in 0..MaxTokens, WriteBotConfig(t),
           UNCHANGED <<nodes, pending, disk, tokens, asked, expired, dead, stale, closed, unsaved>>
    PROVE  /\ TableInv' /\ ident' \in [Insts -> 0..MaxTokens]
           /\ \/ mixed'
              \/ mixed' = mixed /\ ident'[Bot] = t
<1>1. TableInv /\ TableTypes /\ ident \in [Insts -> 0..MaxTokens] /\ 0 \in 0..MaxTokens
  BY BoundsAreNat DEF TypedInv, TableInv, ThreadTypes
<1>2. failures' \in 0..MaxFailures /\ mixed' \in BOOLEAN
  <2>1. failures \in 0..MaxFailures /\ mixed \in BOOLEAN /\ MaxFailures \in Nat
    BY <1>1, BoundsAreNat DEF TableTypes
  <2>2. mixed' \in BOOLEAN
    BY <2>1 DEF WriteBotConfig
  <2>3. failures' = failures \/ (failures < MaxFailures /\ failures' = failures + 1)
    BY DEF WriteBotConfig
  <2>4. failures' \in 0..MaxFailures
    BY <2>1, <2>3
  <2> QED
    BY <2>2, <2>4
<1>3. TableTypes'
  BY <1>1, <1>2 DEF TableTypes
<1>4. TableInv'
  BY <1>1, <1>3 DEF TableInv, Known, Kept
<1>5. ident[Bot] \in 0..MaxTokens
  BY <1>1, BotIsAnInstance
<1>6. /\ ident' \in [Insts -> 0..MaxTokens]
      /\ mixed' \/ (mixed' = mixed /\ ident'[Bot] = t)
  BY <1>1, <1>5, BotIsAnInstance DEF WriteBotConfig
<1> QED
  BY <1>4, <1>6

LEMMA EnrolKeeps ==
    ASSUME TypedInv, NEW c \in Conns, Enrol(c)
    PROVE  TableInv'
<1> DEFINE n == Name(c)
           i == conn[c].inst
<1>1. TableInv /\ n \in Names /\ AppOf(i) \in AppNames
  BY NameIsName DEF TypedInv
<1>2. UNCHANGED <<nodes, tokens, expired, dead, stale, closed, mixed>>
  BY DEF Enrol, PruneOnly, tokenVars
<1>3. /\ asked \in Seq(Names) /\ Len(asked) <= MaxRequests
      /\ Len(asked) \in Nat /\ DOMAIN asked = 1..Len(asked)
  BY <1>1 DEF TableInv, TableTypes
<1>4. CASE PruneOnly /\ UNCHANGED asked
  BY <1>1, <1>2, <1>4, PruneKeeps
<1>5. CASE /\ Pruned[n] = NoRequest /\ Len(asked) < MaxRequests
           /\ asked' = Append(asked, n)
           /\ pending' = [Pruned EXCEPT ![n] = [at |-> Len(asked'), app |-> AppOf(i)]]
           /\ Save(nodes, pending')
  <2> DEFINE k == Len(asked) + 1
  <2>1. /\ asked' \in Seq(Names) /\ Len(asked') = k /\ DOMAIN asked' = 1..k
        /\ asked'[k] = n /\ \A r \in DOMAIN asked : asked'[r] = asked[r]
    BY <1>1, <1>3, <1>5
  <2>2. k \in 0..MaxRequests /\ k <= MaxRequests /\ k \in DOMAIN asked' /\ DOMAIN asked \subseteq DOMAIN asked'
        /\ \A r \in DOMAIN asked' : r # k => r \in DOMAIN asked
    BY <1>3, <1>5, <2>1, BoundsAreNat
  <2>3. pending' = [Pruned EXCEPT ![n] = [at |-> k, app |-> AppOf(i)]]
    BY <1>5, <2>1
  <2> HIDE DEF k, n, i
  <2>4. [at |-> k, app |-> AppOf(i)] \in RequestRecords
    BY <1>1, <2>2 DEF RequestRecords
  <2>5. pending' \in [Names -> RequestRecords]
    BY <1>1, <2>3, <2>4, PrunedIsWaiting
  <2>6. \A m \in Names : pending'[m].at # 0 => pending'[m].at \in DOMAIN asked'
    BY <1>1, <2>2, <2>3, PrunedIsWaiting
  <2>7. ASSUME NEW r \in DOMAIN asked', r \notin closed, r \notin stale
        PROVE  pending'[asked'[r]].at = r
    <3>1. CASE r = k
      BY <1>1, <2>1, <2>3, <3>1, PrunedIsWaiting
    <3>2. CASE r # k
      <4>1. r \in DOMAIN asked /\ asked'[r] = asked[r] /\ asked[r] \in Names
        BY <1>3, <2>1, <2>2, <3>2
      <4>2. Pruned[asked[r]].at = r /\ Pruned[asked[r]] # NoRequest
        BY <1>1, <2>7, <4>1, PrunedIsWaiting
      <4>3. asked[r] # n
        BY <1>5, <4>2 DEF n
      <4> QED
        BY <1>1, <2>3, <4>1, <4>2, <4>3, PrunedIsWaiting
    <3> QED
      BY <3>1, <3>2
  <2>8. Save(nodes, pending')
    BY <1>5
  <2>9. Len(asked') <= MaxRequests
    BY <2>1, <2>2
  <2> QED
    BY <1>1, <1>2, <2>1, <2>2, <2>5, <2>6, <2>7, <2>8, <2>9, WaitingChanges
<1>6. CASE /\ pending' = [Pruned EXCEPT ![n].app = AppOf(i)] /\ UNCHANGED asked
           /\ Save(nodes, pending') \/ UNCHANGED <<disk, unsaved, failures>>
  <2> HIDE DEF n, i
  <2>1. /\ pending' \in [Names -> RequestRecords]
        /\ \A m \in Names : pending'[m].at = Pruned[m].at
    BY <1>1, <1>6, PrunedIsWaiting DEF RequestRecords
  <2>2. \A r \in DOMAIN asked : asked[r] \in Names
    BY <1>3
  <2>3. \A m \in Names : pending'[m].at # 0 => pending'[m].at \in DOMAIN asked'
    BY <1>1, <1>6, <2>1, PrunedIsWaiting
  <2>4. \A r \in DOMAIN asked' : r \notin closed /\ r \notin stale => pending'[asked'[r]].at = r
    BY <1>1, <1>6, <2>1, <2>2, PrunedIsWaiting
  <2> QED
    BY <1>1, <1>2, <1>3, <1>6, <2>1, <2>3, <2>4, WaitingChanges
<1> QED
  BY <1>4, <1>5, <1>6 DEF Enrol

LEMMA TableStep ==
    ASSUME TypedInv, [Next]_vars
    PROVE  TableInv'
<1> USE DEF TypedInv
<1>0. TableInv /\ op.name \in Names /\ op.app \in AppNames
  BY DEF ThreadTypes, OpRecords
<1>1. CASE Operator
  <2> USE DEF OpKeeps, timeVars, tokenVars
  <2>1. CASE Pending \/ TokenIsPending \/ TokenReadRequest
    BY <1>0, <2>1, PruneKeeps DEF Pending, TokenIsPending, TokenReadRequest
  <2>2. CASE TokenIssue \/ RotateIssue
    <3>1. CASE Mint(op.name, op.app, "token") \/ Mint(op.name, op.app, "rotate")
      BY <1>0, <2>2, <3>1, MintKeeps DEF TokenIssue, RotateIssue
    <3>2. CASE UNCHANGED <<tableVars, tokenVars>>
      BY <1>0, <2>2, <3>2, TableUntouched DEF TokenIssue, RotateIssue, tableVars, tableParts
    <3> QED
      BY <2>2, <3>1, <3>2 DEF TokenIssue, RotateIssue
  <2>3. CASE \E n \in Names : TokenCommand(n) \/ RotateCommand(n)
    BY <1>0, <2>3, TableUntouched DEF TokenCommand, RotateCommand, tableVars, tableParts
  <2>4. CASE RotateReadEntry
    BY <1>0, <2>4, TableUntouched DEF RotateReadEntry, tableVars, tableParts
  <2>6. CASE SyncLocalBotToken
    <3>1. UNCHANGED <<nodes, pending, disk, tokens, asked, expired, dead, stale, closed, unsaved>>
      BY <2>6 DEF SyncLocalBotToken
    <3>2. CASE op.name = BotName
      <4>1. WriteBotConfig(op.tok) /\ op.tok \in 0..MaxTokens
        BY <2>6, <3>2 DEF SyncLocalBotToken, ThreadTypes, OpRecords
      <4> QED
        BY <3>1, <4>1, ConfigWriteKeeps
    <3>3. CASE op.name # BotName
      BY <1>0, <2>6, <3>1, <3>3, TableUntouched DEF SyncLocalBotToken, tableParts
    <3> QED
      BY <3>2, <3>3
  <2>5. CASE \E n \in Names : Revoke(n)
    BY <1>0, <2>5, RevokeKeeps
  <2> QED
    BY <1>1, <2>1, <2>2, <2>3, <2>4, <2>5, <2>6 DEF Operator
<1>2. ASSUME NEW c \in Conns, Handler(c) PROVE TableInv'
  <2> USE DEF HandlerKeeps, timeVars, tokenVars
  <2>1. CASE AutoIssue(c)
    <3>1. Name(c) \in Names /\ AppOf(Bot) \in AppNames
      BY NameIsName DEF AppOf, AppNames, Apps
    <3>2. Mint(Name(c), AppOf(Bot), "auto") /\ UNCHANGED <<asked, expired, stale>>
      BY <2>1 DEF AutoIssue
    <3> QED
      BY <1>0, <3>1, <3>2, MintKeeps
  <2>2. CASE Enrol(c)
    BY <2>2, EnrolKeeps
  <2>3. CASE RecordSeen(c)
    <3>1. UNCHANGED <<nodes, pending, asked, tokens, expired, dead, stale, closed, mixed>>
      BY <2>3 DEF RecordSeen
    <3>2. CASE Save(nodes, pending)
      BY <1>0, <3>1, <3>2, SaveKeeps
    <3>3. CASE UNCHANGED <<disk, unsaved, failures>>
      BY <1>0, <3>1, <3>3, TableUntouched DEF tableParts
    <3> QED
      BY <2>3, <3>2, <3>3 DEF RecordSeen
  <2>4. CASE Verify(c) \/ ExpiresIn(c) \/ Register(c)
    BY <1>0, <2>4, TableUntouched DEF Verify, ExpiresIn, Register, tableVars, tableParts
  <2>5. CASE StoreBotToken(c)
    <3>1. UNCHANGED <<nodes, pending, disk, tokens, asked, expired, dead, stale, closed, unsaved>>
      BY <2>5 DEF StoreBotToken
    <3>2. WriteBotConfig(conn[c].tok) /\ conn[c].tok \in 0..MaxTokens
      BY <2>5 DEF StoreBotToken, ThreadTypes, ConnRecords
    <3> QED
      BY <3>1, <3>2, ConfigWriteKeeps
  <2> QED
    BY <1>2, <2>1, <2>2, <2>3, <2>4, <2>5 DEF Handler
<1>3. ASSUME NEW i \in Insts, Instance(i) PROVE TableInv'
  <2>1. UNCHANGED <<tableVars, tokenVars, timeVars, asked>>
    BY <1>3 DEF Instance, Drop, Start, ClaimSave, Forget, Dial, ClaimProbe, InstKeeps
  <2> QED
    BY <1>0, <2>1, TableUntouched DEF tableVars, tokenVars, timeVars, tableParts
<1>4. CASE Passing
  <2>1. \/ \E t \in DOMAIN tokens : expired' = expired \cup {t} /\ stale' = stale
        \/ \E r \in DOMAIN asked : stale' = stale \cup {r} /\ expired' = expired
        \/ UNCHANGED <<expired, stale>>
    BY <1>4 DEF Passing, Expire, GetStale, WindowPasses
  <2>2. UNCHANGED <<nodes, pending, disk, tokens, asked, dead, closed, unsaved, mixed, failures>>
    BY <1>4 DEF Passing, Expire, GetStale, WindowPasses, tableVars, tokenVars
  <2>3. expired \subseteq DOMAIN tokens /\ stale \subseteq DOMAIN asked
    BY <1>0 DEF TableInv, TableTypes
  <2> QED
    BY <1>0, <2>1, <2>2, <2>3, TimeKeeps
<1>5. CASE Restart
  BY <1>0, <1>5, RestartKeeps
<1>6. CASE UNCHANGED vars
  BY <1>0, <1>6, TableUntouched DEF vars, tableVars, tokenVars, timeVars, tableParts
<1>7. CASE RewriteReads
  <2>1. /\ UNCHANGED <<nodes, pending, disk, tokens, asked, expired, dead, stale, closed, unsaved, failures>>
        /\ mixed' \in BOOLEAN
    BY <1>7 DEF RewriteReads, tableVars, timeVars
  <2>2. TableTypes'
    BY <1>0, <2>1 DEF TableInv, TableTypes
  <2> QED
    BY <1>0, <2>1, <2>2 DEF TableInv, Known, Kept
<1>8. CASE RewriteWrites
  <2>1. PICK t \in rewriting : WriteBotConfig(t)
    BY <1>8 DEF RewriteWrites
  <2>2. t \in 0..MaxTokens
    BY <2>1 DEF ThreadTypes
  <2>3. UNCHANGED <<nodes, pending, disk, tokens, asked, expired, dead, stale, closed, unsaved>>
    BY <1>8 DEF RewriteWrites, timeVars
  <2> QED
    BY <2>1, <2>2, <2>3, ConfigWriteKeeps
<1> QED
  BY <1>1, <1>2, <1>3, <1>4, <1>5, <1>6, <1>7, <1>8 DEF Next

\* What each thread's record becomes.
LEMMA OpStep ==
    ASSUME TypedInv, Operator
    PROVE  /\ op' \in OpRecords /\ ident' \in [Insts -> 0..MaxTokens]
           /\ UNCHANGED <<conn, rewriting, claiming, link, carried, rate, restarts>>
<1> USE DEF OpKeeps, timeVars, instVars
<1>1. TableInv /\ TableInv' /\ op \in OpRecords /\ ident \in [Insts -> 0..MaxTokens]
  BY TableStep DEF TypedInv, ThreadTypes, Next
<1>2. /\ \A m \in Names : pending'[m].app \in AppNames
      /\ Len(tokens') \in 0..MaxTokens
  <2>1. pending' \in [Names -> RequestRecords] /\ tokens' \in Seq(TokenRecords) /\ Len(tokens') <= MaxTokens
    BY <1>1 DEF TableInv, TableTypes
  <2>2. Len(tokens') \in Nat
    BY <2>1
  <2> QED
    BY <2>1, <2>2, BoundsAreNat DEF RequestRecords
<1>3. op.name \in Names /\ op.tok \in 0..MaxTokens
  BY <1>1 DEF OpRecords
<1>4. ASSUME NEW n \in Names, TokenCommand(n) \/ RotateCommand(n) \/ Revoke(n)
      PROVE  /\ op' \in OpRecords /\ UNCHANGED ident
             /\ UNCHANGED <<conn, rewriting, claiming, link, carried, rate, restarts>>
  BY <1>1, <1>4, IdleIsTyped DEF TokenCommand, RotateCommand, Revoke, OpRecords
<1>5. CASE Pending \/ TokenIsPending \/ TokenReadRequest
  BY <1>1, <1>2, <1>3, <1>5, IdleIsTyped DEF Pending, TokenIsPending, TokenReadRequest, OpRecords
<1>6. CASE TokenIssue \/ RotateIssue
  BY <1>1, <1>2, <1>6, IdleIsTyped DEF TokenIssue, RotateIssue, OpRecords
<1>7. CASE RotateReadEntry
  <2>1. nodes[op.name] = 0 \/ tokens[nodes[op.name]].app \in AppNames
    BY <1>1, <1>3, TokenRecord
  <2> QED
    BY <1>1, <1>7, <2>1, IdleIsTyped DEF RotateReadEntry, OpRecords
<1>8. CASE SyncLocalBotToken
  <2>1. UNCHANGED <<nodes, pending, disk, tokens, asked, expired, dead, stale, closed, unsaved>>
    BY <1>8 DEF SyncLocalBotToken
  <2>2. ident' \in [Insts -> 0..MaxTokens]
    BY <1>1, <1>3, <1>8, <2>1, ConfigWriteKeeps DEF SyncLocalBotToken
  <2> QED
    BY <1>8, <2>2, IdleIsTyped DEF SyncLocalBotToken
<1> QED
  BY <1>1, <1>4, <1>5, <1>6, <1>7, <1>8 DEF Operator

LEMMA HandlerStep ==
    ASSUME TypedInv, NEW c \in Conns, Handler(c)
    PROVE  ThreadTypes'
<1> USE DEF HandlerKeeps, timeVars
<1>1. TableInv' /\ ThreadTypes /\ conn[c] \in ConnRecords /\ conn[c].inst \in Insts
      /\ conn[c].tok \in 0..MaxTokens
  BY TableStep DEF TypedInv, ThreadTypes, Next, ConnRecords
<1>2. Len(tokens') \in 0..MaxTokens
  <2>1. tokens' \in Seq(TokenRecords) /\ Len(tokens') <= MaxTokens
    BY <1>1 DEF TableInv, TableTypes
  <2>2. Len(tokens') \in Nat
    BY <2>1
  <2> QED
    BY <2>1, <2>2, BoundsAreNat
<1>3. ASSUME Refuse(c)
      PROVE  conn' \in [Conns -> ConnRecords] /\ link' \in [Insts -> {"off", "idle", "dialing", "up", "fatal"}]
  BY <1>1, <1>3, IdleIsTyped DEF Refuse, ThreadTypes
<1>4. CASE AutoIssue(c)
  <2>1. conn' = [conn EXCEPT ![c].pc = "store", ![c].tok = Len(tokens')]
    BY <1>4 DEF AutoIssue
  <2>2. conn' \in [Conns -> ConnRecords]
    BY <1>1, <1>2, <2>1 DEF ThreadTypes, ConnRecords
  <2> QED
    BY <1>1, <1>4, <2>2 DEF AutoIssue, ThreadTypes
<1>5. CASE StoreBotToken(c)
  <2>1. conn' \in [Conns -> ConnRecords]
    BY <1>1, <1>5 DEF StoreBotToken, ThreadTypes, ConnRecords
  <2>2. UNCHANGED <<nodes, pending, disk, tokens, asked, expired, dead, stale, closed, unsaved>>
    BY <1>5 DEF StoreBotToken
  <2>3. ident' \in [Insts -> 0..MaxTokens]
    BY <1>1, <1>5, <2>2, ConfigWriteKeeps DEF StoreBotToken
  <2> QED
    BY <1>1, <1>5, <2>1, <2>3 DEF StoreBotToken, ThreadTypes
<1>6. CASE Enrol(c)
  <2>1. rate' \in [{AddrOf[j] : j \in Insts} -> 0..RateLimit]
    <3> DEFINE a == AddrOf[conn[c].inst]
    <3>1. a \in {AddrOf[j] : j \in Insts} /\ rate[a] \in 0..RateLimit
      BY <1>1 DEF ThreadTypes
    <3>2. rate' = rate \/ (rate[a] < RateLimit /\ rate' = [rate EXCEPT ![a] = @ + 1])
      BY <1>6 DEF Enrol
    <3> HIDE DEF a
    <3> QED
      BY <1>1, <3>1, <3>2, BoundsAreNat DEF ThreadTypes
  <2> QED
    BY <1>1, <1>3, <1>6, <2>1 DEF Enrol, ThreadTypes
<1>7. CASE Verify(c) \/ ExpiresIn(c)
  <2>1. \/ Refuse(c)
        \/ /\ conn' = [conn EXCEPT ![c].pc = "expiry"] \/ conn' = [conn EXCEPT ![c].pc = "seen"]
           /\ UNCHANGED link
    BY <1>7 DEF Verify, ExpiresIn
  <2>2. conn' \in [Conns -> ConnRecords] /\ link' \in [Insts -> {"off", "idle", "dialing", "up", "fatal"}]
    BY <1>1, <1>3, <2>1 DEF ThreadTypes, ConnRecords
  <2> QED
    BY <1>1, <1>7, <2>2 DEF Verify, ExpiresIn, ThreadTypes
<1>8. CASE RecordSeen(c)
  <2>1. conn' \in [Conns -> ConnRecords]
    BY <1>1, <1>8 DEF RecordSeen, ThreadTypes, ConnRecords
  <2> QED
    BY <1>1, <1>8, <2>1 DEF RecordSeen, ThreadTypes
<1>9. CASE Register(c)
  <2>1. conn' \in [Conns -> ConnRecords] /\ carried' \in [Insts -> 0..MaxTokens]
    BY <1>1, <1>9, IdleIsTyped DEF Register, ThreadTypes
  <2>2. link' \in [Insts -> {"off", "idle", "dialing", "up", "fatal"}]
    BY <1>1, <1>9 DEF Register, ThreadTypes
  <2> QED
    BY <1>1, <1>9, <2>1, <2>2 DEF Register, ThreadTypes
<1> QED
  BY <1>4, <1>5, <1>6, <1>7, <1>8, <1>9 DEF Handler

LEMMA InstanceStep ==
    ASSUME TypedInv, NEW i \in Insts, Instance(i)
    PROVE  ThreadTypes'
<1> USE DEF InstKeeps, timeVars
<1>1. ThreadTypes /\ ident[i] \in 0..MaxTokens /\ claiming[i] \in 0..MaxTokens /\ carried[i] \in 0..MaxTokens
  BY DEF TypedInv, ThreadTypes
<1>2. ASSUME HangUp(i) PROVE conn' \in [Conns -> ConnRecords]
  <2>1. ASSUME NEW c \in Conns PROVE conn[c] \in ConnRecords /\ [conn[c] EXCEPT !.open = FALSE] \in ConnRecords
    BY <1>1 DEF ThreadTypes, ConnRecords
  <2> QED BY <1>2, <2>1 DEF HangUp
<1>3. CASE Drop(i) \/ Start(i)
  BY <1>1, <1>2, <1>3 DEF Drop, Start, ThreadTypes
<1>4. CASE ClaimSave(i)
  BY <1>1, <1>2, <1>4, BoundsAreNat DEF ClaimSave, ThreadTypes
<1>5. CASE Forget(i)
  BY <1>1, <1>2, <1>5, BoundsAreNat DEF Forget, ThreadTypes
<1>6. ASSUME NEW c \in Conns, Dial(i, c) PROVE ThreadTypes'
  <2>1. conn' \in [Conns -> ConnRecords]
    BY <1>1, <1>6 DEF Dial, Hello, ThreadTypes, ConnRecords
  <2> QED
    BY <1>1, <1>6, <2>1 DEF Dial, ThreadTypes
<1>7. ASSUME NEW t \in Tokens, ClaimProbe(i, t) PROVE ThreadTypes'
  <2>1. t \in 0..MaxTokens
    BY BoundsAreNat DEF Tokens
  <2> QED
    BY <1>1, <1>7, <2>1 DEF ClaimProbe, ThreadTypes
<1> QED
  BY <1>3, <1>4, <1>5, <1>6, <1>7 DEF Instance

LEMMA TypedStep ==
    ASSUME TypedInv, [Next]_vars
    PROVE  TypedInv'
<1>1. TableInv' /\ ThreadTypes
  BY TableStep DEF TypedInv
<1>2. CASE Operator
  BY <1>1, <1>2, OpStep DEF ThreadTypes, TypedInv
<1>3. CASE \E c \in Conns : Handler(c)
  BY <1>1, <1>3, HandlerStep DEF TypedInv
<1>4. CASE \E i \in Insts : Instance(i)
  BY <1>1, <1>4, InstanceStep DEF TypedInv
<1>5. CASE Passing
  <2>1. rate' \in [{AddrOf[j] : j \in Insts} -> 0..RateLimit]
    BY <1>1, <1>5, BoundsAreNat DEF Passing, Expire, GetStale, WindowPasses, ThreadTypes
  <2>2. UNCHANGED <<op, conn, ident, rewriting, claiming, carried, link, restarts>>
    BY <1>5 DEF Passing, Expire, GetStale, WindowPasses, instVars
  <2> QED
    BY <1>1, <2>1, <2>2 DEF TypedInv, ThreadTypes
<1>6. CASE Restart
  <2>1. rate' \in [{AddrOf[j] : j \in Insts} -> 0..RateLimit] /\ restarts' \in 0..MaxRestarts
    BY <1>1, <1>6, BoundsAreNat DEF Restart, ThreadTypes
  <2>2. op' \in OpRecords /\ conn' \in [Conns -> ConnRecords]
    BY <1>6, IdleIsTyped DEF Restart
  <2>3. link' \in [Insts -> {"off", "idle", "dialing", "up", "fatal"}]
    BY <1>1, <1>6 DEF Restart, ThreadTypes
  <2>4. ident' \in [Insts -> 0..MaxTokens] /\ rewriting' = {}
    BY <1>1, <1>6, BoundsAreNat DEF Restart, ThreadTypes
  <2> QED
    BY <1>1, <1>6, <2>1, <2>2, <2>3, <2>4 DEF Restart, TypedInv, ThreadTypes
<1>7. CASE UNCHANGED vars
  BY <1>1, <1>7 DEF vars, instVars, timeVars, TypedInv, ThreadTypes
<1>8. CASE RewriteReads
  <2>1. ident[Bot] \in 0..MaxTokens /\ 0 \in 0..MaxTokens
    BY <1>1, BotIsAnInstance, BoundsAreNat DEF ThreadTypes
  <2>2. rewriting' \subseteq 0..MaxTokens
    BY <1>8, <2>1 DEF RewriteReads
  <2> QED
    BY <1>1, <1>8, <2>2 DEF RewriteReads, timeVars, TypedInv, ThreadTypes
<1>9. CASE RewriteWrites
  <2>1. PICK t \in rewriting : WriteBotConfig(t)
    BY <1>9 DEF RewriteWrites
  <2>2. /\ t \in 0..MaxTokens
        /\ UNCHANGED <<nodes, pending, disk, tokens, asked, expired, dead, stale, closed, unsaved>>
    BY <1>1, <1>9, <2>1 DEF RewriteWrites, timeVars, ThreadTypes
  <2>3. ident' \in [Insts -> 0..MaxTokens] /\ rewriting' = {}
    BY <1>9, <2>1, <2>2, ConfigWriteKeeps DEF RewriteWrites
  <2> QED
    BY <1>1, <1>9, <2>3 DEF RewriteWrites, timeVars, TypedInv, ThreadTypes
<1> QED
  BY <1>2, <1>3, <1>4, <1>5, <1>6, <1>7, <1>8, <1>9 DEF Next

LEMMA TypedInit == Init => TypedInv
<1> SUFFICES ASSUME Init PROVE ThreadTypes
  BY TableInit DEF TypedInv
<1> QED
  BY IdleIsTyped, BoundsAreNat DEF Init, ThreadTypes

LEMMA TypedIsTypeOK == TypedInv => TypeOK
<1> SUFFICES ASSUME TypedInv PROVE TypeOK
  OBVIOUS
<1>1. TableTypes /\ ThreadTypes
  BY DEF TypedInv, TableInv
<1>2. [nodes |-> nodes, pending |-> pending] \in Table /\ disk \in Table
  BY <1>1, TableIsPair DEF TableTypes
<1>3. tokens \in Seq([name : Names, app : Apps \cup {""}, via : {"token", "rotate", "auto"}])
  BY <1>1 DEF TableTypes, TokenRecords, AppNames
<1>4. op \in [pc : {"idle", "waiting?", "request", "issue", "entry", "reissue", "sync"},
               name : Names, app : Apps \cup {""}, tok : 0..MaxTokens]
  BY <1>1 DEF ThreadTypes, OpRecords, AppNames
<1>5. conn \in [Conns -> [pc : {"none", "hello", "store", "expiry", "seen", "register"},
                           inst : Insts, tok : 0..MaxTokens, open : BOOLEAN,
                           hello : {"good", "dead", "expired"}]]
  BY <1>1 DEF ThreadTypes, ConnRecords
<1> QED
  BY <1>1, <1>2, <1>3, <1>4, <1>5 DEF TableTypes, ThreadTypes, TypeOK

\* The hub's table, its threads and the instances' links are always well formed
\* (websockets_server.py _nodes, _enrol_pending; __init__.py identity).
THEOREM Types == Spec => []TypeOK
<1>1. Init => TypedInv
  BY TypedInit
<1>2. TypedInv /\ [Next]_vars => TypedInv'
  BY TypedStep
<1>3. TypedInv => TypeOK
  BY TypedIsTypeOK
<1> QED
  BY <1>1, <1>2, <1>3, PTL DEF Spec

\* A token that was issued and neither revoked nor replaced is under its name in
\* the table, one that was is nowhere, over any number of restarts, and the file
\* agrees unless its last save failed (issue, revoke, enrol, _save_nodes, _load_nodes).
THEOREM TableSurvives == Spec => []TableKept
<1>1. Init => TypedInv
  BY TypedInit
<1>2. TypedInv /\ [Next]_vars => TypedInv'
  BY TypedStep
<1>3. TypedInv => TableKept
  BY KeptIsTableKept DEF TypedInv, TableInv
<1> QED
  BY <1>1, <1>2, <1>3, PTL DEF Spec
-----------------------------------------------------------------------------
(* What a handshake has established, by where it is. *)

Standing(c) ==
    LET k == conn[c] IN
    /\ k.pc = "hello" => /\ k.hello = "dead" => k.tok \in dead
                         /\ k.hello = "expired" => k.tok \in expired
    /\ k.pc = "store" => k.hello = "good"
    /\ k.pc = "expiry" => /\ k.hello # "dead" /\ k.tok # 0
                          /\ k.hello = "expired" => k.tok \in expired
                          /\ nodes[Name(c)] = k.tok \/ k.tok \in dead
    /\ k.pc \in {"seen", "register"} => /\ k.hello # "dead"
                                        /\ k.hello = "expired" => k.tok \in dead

AdmissionInv == TypedInv /\ \A c \in Conns : Standing(c)

\* But for a restart, a token once dead or expired remains so, and a name loses
\* its token only to the dead (issue, revoke).
LEMMA DeadGrows ==
    ASSUME TypedInv, [Next]_vars, ~Restart
    PROVE  /\ dead \subseteq dead' /\ expired \subseteq expired'
           /\ \A n \in Names : nodes'[n] = nodes[n] \/ nodes[n] = 0 \/ nodes[n] \in dead'
<1>1. nodes \in [Names -> 0..MaxTokens]
  BY DEF TypedInv, TableInv, TableTypes
<1>2. ASSUME UNCHANGED <<nodes, dead>>, expired \subseteq expired'
      PROVE  /\ dead \subseteq dead' /\ expired \subseteq expired'
             /\ \A n \in Names : nodes'[n] = nodes[n] \/ nodes[n] = 0 \/ nodes[n] \in dead'
  BY <1>2
<1>3. ASSUME NEW n, NEW new, nodes' = [nodes EXCEPT ![n] = new], dead' = dead \cup ({nodes[n]} \ {0}),
             UNCHANGED expired
      PROVE  /\ dead \subseteq dead' /\ expired \subseteq expired'
             /\ \A m \in Names : nodes'[m] = nodes[m] \/ nodes[m] = 0 \/ nodes[m] \in dead'
  BY <1>1, <1>3
<1>4. CASE Operator
  <2>1. \/ UNCHANGED <<nodes, dead>>
        \/ \E n \in Names : Revoke(n)
        \/ Mint(op.name, op.app, "token") \/ Mint(op.name, op.app, "rotate")
    BY <1>4 DEF Operator, Pending, TokenCommand, RotateCommand, TokenIsPending, TokenReadRequest,
       TokenIssue, RotateReadEntry, RotateIssue, SyncLocalBotToken, PruneOnly, tableVars, tokenVars
  <2>2. UNCHANGED expired
    BY <1>4 DEF Operator, Pending, TokenCommand, RotateCommand, TokenIsPending, TokenReadRequest,
       TokenIssue, RotateReadEntry, RotateIssue, SyncLocalBotToken, Revoke, OpKeeps, timeVars
  <2> QED
    BY <1>2, <1>3, <2>1, <2>2 DEF Mint, Revoke
<1>5. ASSUME NEW c \in Conns, Handler(c)
      PROVE  /\ dead \subseteq dead' /\ expired \subseteq expired'
             /\ \A m \in Names : nodes'[m] = nodes[m] \/ nodes[m] = 0 \/ nodes[m] \in dead'
  <2>1. UNCHANGED <<nodes, dead>> \/ Mint(Name(c), AppOf(Bot), "auto")
    BY <1>5 DEF Handler, AutoIssue, StoreBotToken, Enrol, Verify, ExpiresIn, RecordSeen, Register,
       PruneOnly, tableVars, tokenVars
  <2>2. UNCHANGED expired
    BY <1>5 DEF Handler, AutoIssue, StoreBotToken, Enrol, Verify, ExpiresIn, RecordSeen, Register,
       HandlerKeeps, timeVars
  <2> QED
    BY <1>2, <1>3, <2>1, <2>2 DEF Mint
<1>6. ASSUME NEW i \in Insts, Instance(i) PROVE UNCHANGED <<nodes, dead, expired>>
  BY <1>6 DEF Instance, Drop, Start, ClaimSave, Forget, Dial, ClaimProbe, InstKeeps,
     tableVars, tokenVars, timeVars
<1>7. CASE Passing
  BY <1>2, <1>7 DEF Passing, Expire, GetStale, WindowPasses, tableVars, tokenVars
<1>8. CASE UNCHANGED vars
  BY <1>2, <1>8 DEF vars, tableVars, tokenVars, timeVars
<1>9. CASE RewriteReads \/ RewriteWrites
  BY <1>2, <1>9 DEF RewriteReads, RewriteWrites, tableVars, timeVars
<1> QED
  BY <1>2, <1>4, <1>5, <1>6, <1>7, <1>8, <1>9 DEF Next

\* A handshake that does not move keeps what it has established.
LEMMA StandingStays ==
    ASSUME AdmissionInv, [Next]_vars, ~Restart, NEW c \in Conns,
           \/ conn'[c] = conn[c] \/ conn'[c] = [conn[c] EXCEPT !.open = FALSE]
    PROVE  Standing(c)'
<1>1. /\ conn[c] \in ConnRecords /\ Standing(c) /\ TypedInv /\ Name(c) \in Names
      /\ nodes[Name(c)] # 0 \/ nodes[Name(c)] = 0
  BY NameIsName DEF AdmissionInv, TypedInv, ThreadTypes
<1>2. /\ conn'[c].pc = conn[c].pc /\ conn'[c].tok = conn[c].tok
      /\ conn'[c].hello = conn[c].hello /\ Name(c)' = Name(c)
  BY <1>1 DEF ConnRecords, Name
<1>3. /\ dead \subseteq dead' /\ expired \subseteq expired'
      /\ \A n \in Names : nodes'[n] = nodes[n] \/ nodes[n] = 0 \/ nodes[n] \in dead'
  BY <1>1, DeadGrows
<1> QED
  BY <1>1, <1>2, <1>3 DEF Standing

\* An empty place has nothing to establish.
LEMMA NoConnStands == ASSUME NEW c, conn[c] = NoConn PROVE Standing(c)
  BY DEF NoConn, Standing

LEMMA OthersMove ==
    ASSUME TypedInv, NEW c \in Conns, Handler(c), NEW d \in Conns, d # c
    PROVE  conn'[d] = conn[d]
<1>1. conn \in [Conns -> ConnRecords]
  BY DEF TypedInv, ThreadTypes
<1> QED
  BY <1>1 DEF Handler, AutoIssue, StoreBotToken, Enrol, Verify, ExpiresIn, RecordSeen, Register, Refuse

LEMMA HandshakeStands ==
    ASSUME AdmissionInv, NEW c \in Conns, Handler(c)
    PROVE  Standing(c)'
<1>1. /\ conn \in [Conns -> ConnRecords] /\ conn[c] \in ConnRecords /\ Standing(c)
      /\ TypedInv /\ Name(c) \in Names /\ nodes[Name(c)] \notin dead /\ 0 \notin dead
  <2>1. TypedInv /\ Standing(c) /\ conn \in [Conns -> ConnRecords] /\ Name(c) \in Names
    BY NameIsName DEF AdmissionInv, TypedInv, ThreadTypes
  <2>2. nodes[Name(c)] \notin dead /\ 0 \notin dead
    BY <2>1 DEF TypedInv, TableInv, TableTypes, Kept
  <2> QED
    BY <2>1, <2>2
<1>2. CASE Refuse(c)
  <2>1. conn'[c] = NoConn
    BY <1>1, <1>2 DEF Refuse
  <2> QED
    BY <2>1 DEF NoConn, Standing
<1>3. CASE AutoIssue(c)
  <2>1. conn'[c].pc = "store" /\ conn'[c].hello = conn[c].hello
    BY <1>1, <1>3 DEF AutoIssue, ConnRecords
  <2>2. conn[c].hello \in {"good", "expired"} /\ 0 \notin expired
    BY <1>1, <1>3 DEF AutoIssue, Standing, ConnRecords, TypedInv, TableInv, TableTypes
  <2> QED
    BY <1>1, <1>3, <2>1, <2>2 DEF AutoIssue, Standing
<1>4. CASE StoreBotToken(c) \/ RecordSeen(c)
  <2>1. /\ conn'[c].pc = "register" /\ conn'[c].hello = conn[c].hello /\ conn'[c].tok = conn[c].tok
        /\ conn[c].pc \in {"store", "seen"} /\ UNCHANGED dead
    BY <1>1, <1>4 DEF StoreBotToken, RecordSeen, Storing, ConnRecords, tokenVars
  <2> QED
    BY <1>1, <2>1 DEF Standing
<1>5. CASE Verify(c) /\ ~Refuse(c)
  <2>1. /\ conn'[c].pc = "expiry" /\ conn'[c].hello = conn[c].hello /\ conn'[c].tok = conn[c].tok
        /\ conn[c].pc = "hello" /\ conn[c].tok # 0 /\ nodes[Name(c)] = conn[c].tok
        /\ Name(c)' = Name(c) /\ UNCHANGED <<nodes, dead, expired>>
    <3>1. /\ conn[c].pc = "hello" /\ conn[c].tok # 0 /\ nodes[Name(c)] = conn[c].tok
          /\ conn' = [conn EXCEPT ![c].pc = "expiry"] /\ UNCHANGED <<nodes, dead, expired>>
      BY <1>5 DEF Verify, tokenVars, tableVars, timeVars, HandlerKeeps
    <3> QED
      BY <1>1, <3>1 DEF ConnRecords, Name
  <2> QED
    BY <1>1, <2>1 DEF Standing
<1>6. CASE ExpiresIn(c) /\ ~Refuse(c)
  <2>1. /\ conn'[c].pc = "seen" /\ conn'[c].hello = conn[c].hello /\ conn'[c].tok = conn[c].tok
        /\ conn[c].pc = "expiry" /\ nodes[Name(c)] \notin expired /\ UNCHANGED dead
    BY <1>1, <1>6 DEF ExpiresIn, ConnRecords, tokenVars
  <2> QED
    BY <1>1, <2>1 DEF Standing
<1>7. CASE Register(c)
  <2>1. conn'[c] = NoConn
    BY <1>1, <1>7 DEF Register
  <2> QED
    BY <2>1 DEF NoConn, Standing
<1> QED
  BY <1>2, <1>3, <1>4, <1>5, <1>6, <1>7 DEF Handler, Enrol

LEMMA AdmissionStep ==
    ASSUME AdmissionInv, [Next]_vars
    PROVE  AdmissionInv'
<1>1. TypedInv /\ TypedInv' /\ conn \in [Conns -> ConnRecords]
  BY TypedStep DEF AdmissionInv, TypedInv, ThreadTypes
<1> SUFFICES ASSUME NEW c \in Conns PROVE Standing(c)'
  BY <1>1 DEF AdmissionInv
<1>2. CASE Restart
  BY <1>2 DEF Restart, NoConn, Standing
<1>3. ASSUME NEW d \in Conns, Handler(d), ~Restart PROVE Standing(c)'
  BY <1>1, <1>3, HandshakeStands, OthersMove, StandingStays DEF Next
<1>4. ASSUME NEW i \in Insts, Instance(i), ~Restart PROVE Standing(c)'
  <2>1. ASSUME NEW d \in Conns, Dial(i, d) PROVE Standing(c)'
    <3>1. conn' = [conn EXCEPT ![d] = [pc |-> "hello", inst |-> i, tok |-> carried[i],
                                       open |-> TRUE, hello |-> Hello(carried[i])]]
          /\ UNCHANGED <<dead, expired>>
      BY <2>1 DEF Dial, tokenVars, timeVars
    <3>2. CASE c = d
      <4>1. conn'[c].pc = "hello" /\ conn'[c].hello = Hello(conn'[c].tok)
        BY <1>1, <3>1, <3>2
      <4>2. conn'[c].hello = "dead" => conn'[c].tok \in dead
        BY <4>1 DEF Hello
      <4>3. conn'[c].hello = "expired" => conn'[c].tok \in expired
        BY <4>1 DEF Hello
      <4> QED
        BY <3>1, <4>1, <4>2, <4>3 DEF Standing
    <3>3. CASE c # d
      BY <1>1, <1>4, <3>1, <3>3, StandingStays DEF Next
    <3> QED
      BY <3>2, <3>3
  <2>2. CASE HangUp(i) \/ UNCHANGED conn
    BY <1>1, <1>4, <2>2, StandingStays DEF HangUp, Next
  <2> QED
    BY <1>4, <2>1, <2>2 DEF Instance, Drop, Start, ClaimSave, Forget, ClaimProbe
<1>5. ASSUME UNCHANGED conn, ~Restart PROVE Standing(c)'
  BY <1>5, StandingStays
<1>6. CASE Operator \/ Passing \/ RewriteReads \/ RewriteWrites \/ UNCHANGED vars
  <2>1. UNCHANGED conn
    BY <1>6, <1>1, OpStep DEF Passing, Expire, GetStale, WindowPasses, RewriteReads, RewriteWrites, vars
  <2> QED
    BY <1>2, <1>5, <2>1
<1> QED
  BY <1>2, <1>3, <1>4, <1>6 DEF Next

LEMMA AdmissionInit == Init => AdmissionInv
<1> SUFFICES ASSUME Init PROVE AdmissionInv
  OBVIOUS
<1>1. \A c \in Conns : conn[c] = NoConn
  BY DEF Init
<1> QED
  BY <1>1, TypedInit, NoConnStands DEF AdmissionInv

\* An instance that dials with a token revoked or replaced before its hello never
\* registers; one whose token had expired does so only when the entry was replaced
\* while its handshake ran (_handshake, verify, expires_in).
THEOREM AdmissionHolds == Spec => []AdmissionIsCurrent
<1>1. Init => AdmissionInv
  BY AdmissionInit
<1>2. AdmissionInv /\ [Next]_vars => AdmissionInv'
  BY AdmissionStep
<1>3. AdmissionInv => AdmissionIsCurrent
  BY DEF AdmissionInv, Standing, AdmissionIsCurrent
<1> QED
  BY <1>1, <1>2, <1>3, PTL DEF Spec
-----------------------------------------------------------------------------
(* Who may take the place of a name. *)

LEMMA TakeoverStep ==
    ASSUME TypedInv, [Next]_vars, NEW n \in Names, nodes[n] # 0, nodes'[n] > nodes[n]
    PROVE  tokens'[nodes'[n]].via # "token"
<1>1. /\ nodes \in [Names -> 0..MaxTokens] /\ nodes[n] \in 0..MaxTokens
      /\ tokens \in Seq(TokenRecords) /\ disk.nodes[n] <= nodes[n]
  BY DEF TypedInv, TableInv, TableTypes
<1>2. nodes'[n] # nodes[n]
  BY <1>1, BoundsAreNat
<1>3. ASSUME NEW m, NEW app, NEW via, Mint(m, app, via), nodes[m] = 0 \/ via # "token"
      PROVE  tokens'[nodes'[n]].via # "token"
  <2>1. nodes' = [nodes EXCEPT ![m] = Len(tokens) + 1] /\ tokens' = Append(tokens, [name |-> m, app |-> app, via |-> via])
    BY <1>3 DEF Mint
  <2>2. m = n /\ via # "token" /\ nodes'[n] = Len(tokens) + 1
    BY <1>1, <1>2, <1>3, <2>1
  <2>3. tokens'[Len(tokens) + 1] = [name |-> m, app |-> app, via |-> via]
    BY <1>1, <2>1
  <2> QED
    BY <2>2, <2>3
<1>4. CASE Operator
  <2>1. \/ UNCHANGED nodes
        \/ \E m \in Names : Revoke(m)
        \/ Mint(op.name, op.app, "token") /\ nodes[op.name] = 0
        \/ Mint(op.name, op.app, "rotate")
    BY <1>4 DEF Operator, Pending, TokenCommand, RotateCommand, TokenIsPending, TokenReadRequest,
       TokenIssue, RotateReadEntry, RotateIssue, SyncLocalBotToken, PruneOnly, tableVars, MayIssue
  <2>2. ~ \E m \in Names : Revoke(m)
    <3> SUFFICES ASSUME NEW m \in Names, nodes' = [nodes EXCEPT ![m] = 0] PROVE FALSE
      BY DEF Revoke
    <3> QED
      BY <1>1, <1>2
  <2> QED
    BY <1>2, <1>3, <2>1, <2>2
<1>5. ASSUME NEW c \in Conns, Handler(c) PROVE tokens'[nodes'[n]].via # "token"
  <2>1. Mint(Name(c), AppOf(Bot), "auto")
    BY <1>2, <1>5 DEF Handler, AutoIssue, StoreBotToken, Enrol, Verify, ExpiresIn, RecordSeen, Register,
       PruneOnly, tableVars
  <2> QED
    BY <1>3, <2>1
<1>6. CASE Restart
  <2>1. disk.nodes \in [Names -> 0..MaxTokens]
    BY DEF TypedInv, TableInv, TableTypes, Table
  <2>2. nodes'[n] = disk.nodes[n] /\ disk.nodes[n] \in 0..MaxTokens
    BY <1>6, <2>1 DEF Restart
  <2> QED
    BY <1>1, <2>2, BoundsAreNat
<1>7. UNCHANGED nodes \/ Operator \/ (\E c \in Conns : Handler(c)) \/ Restart
  BY DEF Next, Instance, Drop, Start, ClaimSave, Forget, Dial, ClaimProbe, InstKeeps,
     Passing, Expire, GetStale, WindowPasses, RewriteReads, RewriteWrites, vars, tableVars
<1> QED
  BY <1>2, <1>4, <1>5, <1>6, <1>7

\* `node token` never takes the place of a name that is enrolled (issue's look at
\* the table under the lock): only a rotation or the bot's own provisioning does.
THEOREM TakeoverIsAsked == Spec => NoSilentTakeover
<1>1. Init => TypedInv
  BY TypedInit
<1>2. TypedInv /\ [Next]_vars => TypedInv'
  BY TypedStep
<1>3. TypedInv /\ [Next]_vars =>
        [\A n \in Names : nodes[n] # 0 /\ nodes'[n] > nodes[n]
            => tokens'[nodes'[n]].via # "token"]_vars
  BY TakeoverStep
<1> QED
  BY <1>1, <1>2, <1>3, PTL DEF Spec, NoSilentTakeover

-----------------------------------------------------------------------------
(* The bot's token. *)

OpProvides == op.pc = "sync" /\ op.name = BotName

\* Unless writers were mixed, at most one provisioning is under way, beside no
\* rewrite; it carries the token of the table, and when none is under way the
\* bot's config has that token, and so has whoever rewrites it.
BotInv ==
    /\ TypedInv
    /\ claiming[Bot] = 0
    /\ \A c \in Conns : Storing(c) => conn[c].inst = Bot
    /\ ~mixed =>
          /\ \A c, d \in Conns : Storing(c) /\ Storing(d) => c = d
          /\ \A c \in Conns : Storing(c) => ~OpProvides
          /\ rewriting # {} => ~Provisioning /\ rewriting = {ident[Bot]}
          /\ nodes[BotName] # 0 =>
                /\ \A c \in Conns : Storing(c) => conn[c].tok = nodes[BotName]
                /\ OpProvides => op.tok = nodes[BotName]
                /\ ~Provisioning => ident[Bot] = nodes[BotName]

LEMMA ProvisioningIs == Provisioning <=> (\E c \in Conns : Storing(c)) \/ OpProvides
  BY DEF Provisioning, OpProvides

\* A step that leaves every provisioning where it is.
LEMMA BotStays ==
    ASSUME BotInv, TypedInv', mixed' = mixed, claiming'[Bot] = 0, ident'[Bot] = ident[Bot],
           rewriting' = rewriting,
           \A c \in Conns : /\ Storing(c)' <=> Storing(c)
                            /\ Storing(c) => conn'[c].tok = conn[c].tok /\ conn'[c].inst = conn[c].inst,
           OpProvides' <=> OpProvides, OpProvides => op'.tok = op.tok,
           nodes'[BotName] = 0 \/ nodes'[BotName] = nodes[BotName]
    PROVE  BotInv'
<1>1. Provisioning' <=> Provisioning
  BY ProvisioningIs DEF Provisioning, OpProvides
<1> QED
  BY <1>1 DEF BotInv

\* Once writers are mixed, nothing more is asked than where provisionings are.
LEMMA BotMixed ==
    ASSUME TypedInv', mixed', claiming'[Bot] = 0,
           \A c \in Conns : Storing(c)' => conn'[c].inst = Bot
    PROVE  BotInv'
  BY DEF BotInv

\* issue for the bot's name.
LEMMA BotMint ==
    ASSUME BotInv, TypedInv', NEW app, NEW via, Mint(BotName, app, via),
           UNCHANGED <<claiming, ident, rewriting>>,
           \/ /\ UNCHANGED conn /\ ~OpProvides
              /\ op'.pc = "sync" /\ op'.name = BotName /\ op'.tok = Len(tokens')
           \/ /\ UNCHANGED op
              /\ \E c \in Conns : /\ ~Storing(c) /\ conn[c].inst = Bot
                                  /\ conn' = [conn EXCEPT ![c].pc = "store", ![c].tok = Len(tokens')]
    PROVE  BotInv'
<1>1. /\ mixed' = (Provisioning \/ rewriting # {}) /\ tokens \in Seq(TokenRecords)
      /\ nodes \in [Names -> 0..MaxTokens] /\ BotName \in Names /\ conn \in [Conns -> ConnRecords]
      /\ nodes' = [nodes EXCEPT ![BotName] = Len(tokens) + 1]
      /\ tokens' = Append(tokens, [name |-> BotName, app |-> app, via |-> via])
  BY IdleIsTyped DEF Mint, BotInv, TypedInv, TableInv, TableTypes, ThreadTypes
<1>2. Len(tokens') = nodes'[BotName] /\ Provisioning'
  <2>1. Len(tokens') = nodes'[BotName]
    BY <1>1
  <2>2. Provisioning'
    BY <1>1, ProvisioningIs DEF Provisioning, Storing, ConnRecords
  <2> QED
    BY <2>1, <2>2
<1>3. CASE /\ UNCHANGED conn /\ ~OpProvides
           /\ op'.pc = "sync" /\ op'.name = BotName /\ op'.tok = Len(tokens')
  <2>1. \A c \in Conns : (Storing(c)' <=> Storing(c)) /\ conn'[c] = conn[c]
    BY <1>3 DEF Storing
  <2>2. ~mixed' => rewriting' = {} /\ \A c \in Conns : ~Storing(c)'
    BY <1>1, <2>1, ProvisioningIs
  <2> QED
    BY <1>2, <1>3, <2>1, <2>2 DEF BotInv
<1>4. ASSUME UNCHANGED op, NEW c \in Conns, ~Storing(c), conn[c].inst = Bot,
             conn' = [conn EXCEPT ![c].pc = "store", ![c].tok = Len(tokens')]
      PROVE  BotInv'
  <2>1. /\ conn'[c].pc = "store" /\ conn'[c].tok = Len(tokens') /\ conn'[c].inst = Bot
        /\ \A d \in Conns \ {c} : conn'[d] = conn[d]
    BY <1>1, <1>4 DEF ConnRecords
  <2>2. \A d \in Conns : Storing(d)' => conn'[d].inst = Bot
    BY <2>1 DEF BotInv, Storing
  <2>3. ASSUME ~Provisioning
        PROVE  \A d \in Conns : Storing(d)' => d = c
    BY <2>1, <2>3, ProvisioningIs DEF Storing
  <2>4. ~Provisioning => ~OpProvides /\ ~OpProvides'
    BY <1>4, ProvisioningIs DEF OpProvides
  <2> QED
    BY <1>1, <1>2, <1>4, <2>1, <2>2, <2>3, <2>4 DEF BotInv
<1> QED
  BY <1>3, <1>4
LEMMA BotOperatorStep ==
    ASSUME BotInv, TypedInv', Operator
    PROVE  BotInv'
<1>1. /\ nodes \in [Names -> 0..MaxTokens] /\ BotName \in Names /\ op.name \in Names
      /\ op \in OpRecords /\ ident \in [Insts -> 0..MaxTokens] /\ TypedInv
  BY IdleIsTyped DEF BotInv, TypedInv, TableInv, TableTypes, ThreadTypes, OpRecords
<1>2. UNCHANGED <<conn, rewriting, claiming, link, carried, rate, restarts>>
  BY <1>1, OpStep
<1>3. /\ \A c \in Conns : (Storing(c)' <=> Storing(c)) /\ conn'[c] = conn[c]
      /\ claiming'[Bot] = 0 /\ rewriting' = rewriting
  BY <1>2 DEF Storing, BotInv
<1>4. ASSUME UNCHANGED <<mixed, ident>>, ~OpProvides, ~OpProvides',
             nodes'[BotName] = 0 \/ nodes'[BotName] = nodes[BotName]
      PROVE  BotInv'
  BY <1>3, <1>4, BotStays
<1>5. CASE Pending \/ TokenIsPending \/ TokenReadRequest \/ RotateReadEntry
           \/ \E n \in Names : TokenCommand(n) \/ RotateCommand(n)
  <2>1. UNCHANGED <<mixed, ident, nodes>>
    BY <1>5 DEF Pending, TokenIsPending, TokenReadRequest, RotateReadEntry, TokenCommand, RotateCommand,
       PruneOnly, OpKeeps, instVars, tokenVars, tableVars
  <2>2. op.pc # "sync"
    BY <1>5, IdleIsIdle DEF Pending, TokenIsPending, TokenReadRequest, RotateReadEntry, TokenCommand, RotateCommand
  <2>3. op'.pc # "sync"
    <3>1. CASE Pending \/ TokenIsPending \/ TokenReadRequest \/ RotateReadEntry
      <4>1. CASE Pending \/ op' = Idle
        BY <2>2, <4>1, IdleIsIdle DEF Pending
      <4>2. CASE TokenIsPending /\ op' # Idle
        BY <1>1, <4>2 DEF TokenIsPending, OpRecords
      <4>3. CASE TokenReadRequest
        BY <1>1, <4>3 DEF TokenReadRequest, OpRecords
      <4>4. CASE RotateReadEntry /\ op' # Idle
        BY <1>1, <4>4 DEF RotateReadEntry, OpRecords
      <4> QED
        BY <3>1, <4>1, <4>2, <4>3, <4>4
    <3>2. CASE \E n \in Names : TokenCommand(n) \/ RotateCommand(n)
      BY <3>2 DEF TokenCommand, RotateCommand, Idle
    <3> QED
      BY <1>5, <3>1, <3>2
  <2> QED
    BY <1>4, <2>1, <2>2, <2>3 DEF OpProvides
<1>6. CASE \E n \in Names : Revoke(n)
  <2>1. UNCHANGED <<mixed, ident, op>> /\ op = Idle
    BY <1>6 DEF Revoke, OpKeeps, instVars
  <2>2. nodes'[BotName] = 0 \/ nodes'[BotName] = nodes[BotName]
    BY <1>1, <1>6 DEF Revoke
  <2> QED
    BY <1>4, <2>1, <2>2 DEF OpProvides, Idle
<1>7. CASE TokenIssue \/ RotateIssue
  <2>1. UNCHANGED ident /\ ~OpProvides
    BY <1>7 DEF TokenIssue, RotateIssue, OpKeeps, instVars, OpProvides
  <2>2. CASE op' = Idle /\ UNCHANGED <<tableVars, tokenVars>>
    BY <1>4, <2>1, <2>2 DEF tableVars, tokenVars, OpProvides, Idle
  <2>3. ASSUME NEW via, Mint(op.name, op.app, via),
               op'.pc = "sync", op'.name = op.name, op'.tok = Len(tokens')
        PROVE  BotInv'
    <3>1. CASE op.name = BotName
      BY <1>2, <2>1, <2>3, <3>1, BotMint
    <3>2. CASE op.name # BotName
      <4>1. UNCHANGED mixed /\ nodes'[BotName] = nodes[BotName] /\ ~OpProvides'
        BY <1>1, <2>3, <3>2 DEF Mint, OpProvides
      <4> QED
        BY <1>4, <2>1, <4>1
    <3> QED
      BY <3>1, <3>2
  <2>4. op' = [op EXCEPT !.pc = "sync", !.tok = Len(tokens')] =>
          op'.pc = "sync" /\ op'.name = op.name /\ op'.tok = Len(tokens')
    BY <1>1 DEF OpRecords
  <2> QED
    BY <1>7, <2>2, <2>3, <2>4 DEF TokenIssue, RotateIssue
<1>8. CASE SyncLocalBotToken
  <2>1. /\ op' = Idle /\ ~OpProvides' /\ op.pc = "sync"
        /\ UNCHANGED <<nodes, pending, disk, tokens, asked, expired, dead, stale, closed, unsaved>>
    BY <1>8 DEF SyncLocalBotToken, timeVars, OpProvides, Idle
  <2>2. CASE op.name = BotName
    <3>1. OpProvides /\ (mixed' \/ (mixed' = mixed /\ ident'[Bot] = op.tok))
      <4>1. WriteBotConfig(op.tok) /\ op.tok \in 0..MaxTokens
        BY <1>1, <1>8, <2>2 DEF SyncLocalBotToken, OpRecords
      <4> QED
        BY <1>1, <2>1, <2>2, <4>1, ConfigWriteKeeps DEF OpProvides
    <3>2. CASE mixed'
      BY <1>3, <3>2, BotMixed DEF BotInv
    <3>3. CASE mixed' = mixed /\ ident'[Bot] = op.tok
      BY <1>2, <1>3, <2>1, <3>1, <3>3, ProvisioningIs DEF BotInv
    <3> QED
      BY <3>1, <3>2, <3>3
  <2>3. CASE op.name # BotName
    <3>1. UNCHANGED <<ident, mixed>> /\ ~OpProvides
      BY <1>8, <2>3 DEF SyncLocalBotToken, OpProvides
    <3> QED
      BY <1>4, <2>1, <3>1
  <2> QED
    BY <2>2, <2>3
<1> QED
  BY <1>5, <1>6, <1>7, <1>8 DEF Operator

LEMMA BotHandlerStep ==
    ASSUME BotInv, TypedInv', NEW c \in Conns, Handler(c)
    PROVE  BotInv'
<1>1. /\ BotName \in Names /\ conn \in [Conns -> ConnRecords] /\ conn[c] \in ConnRecords
      /\ ident \in [Insts -> 0..MaxTokens] /\ TypedInv
  BY IdleIsTyped DEF BotInv, TypedInv, ThreadTypes
<1>2. \A d \in Conns \ {c} : conn'[d] = conn[d]
  BY <1>1, OthersMove
<1>3. UNCHANGED <<rewriting, claiming, op>>
  BY DEF Handler, AutoIssue, StoreBotToken, Enrol, Verify, ExpiresIn, RecordSeen, Register, HandlerKeeps
<1>4. CASE AutoIssue(c)
  <2>1. /\ Mint(BotName, AppOf(Bot), "auto") /\ UNCHANGED ident
        /\ ~Storing(c) /\ conn[c].inst = Bot
        /\ conn' = [conn EXCEPT ![c].pc = "store", ![c].tok = Len(tokens')]
    BY <1>4 DEF AutoIssue, HandlerKeeps, Storing, Name, BotName
  <2> QED
    BY <1>3, <2>1, BotMint
<1>5. CASE StoreBotToken(c)
  <2>1. /\ Storing(c) /\ ~Storing(c)'
        /\ UNCHANGED <<nodes, pending, disk, tokens, asked, expired, dead, stale, closed, unsaved>>
    BY <1>1, <1>5 DEF StoreBotToken, Storing, timeVars, ConnRecords
  <2>5. mixed' \/ (mixed' = mixed /\ ident'[Bot] = conn[c].tok)
    <3>1. WriteBotConfig(conn[c].tok) /\ conn[c].tok \in 0..MaxTokens
      BY <1>1, <1>5 DEF StoreBotToken, ConnRecords
    <3> QED
      BY <1>1, <2>1, <3>1, ConfigWriteKeeps
  <2>2. \A d \in Conns : Storing(d)' => Storing(d) /\ conn'[d] = conn[d]
    BY <1>2, <2>1 DEF Storing
  <2>3. OpProvides' <=> OpProvides
    BY <1>3 DEF OpProvides
  <2>4. ~mixed => ~(\E d \in Conns : Storing(d)') /\ ~OpProvides /\ rewriting = {}
    BY <2>1, <2>2, ProvisioningIs DEF BotInv
  <2>6. CASE mixed'
    BY <1>3, <2>2, <2>6, BotMixed DEF BotInv
  <2>7. CASE mixed' = mixed /\ ident'[Bot] = conn[c].tok
    BY <1>3, <2>1, <2>2, <2>3, <2>4, <2>7 DEF BotInv
  <2> QED
    BY <2>5, <2>6, <2>7
<1>6. CASE Enrol(c) \/ Verify(c) \/ ExpiresIn(c) \/ RecordSeen(c) \/ Register(c)
  <2>1. UNCHANGED <<mixed, nodes, ident>>
    BY <1>6 DEF Enrol, Verify, ExpiresIn, RecordSeen, Register, PruneOnly, HandlerKeeps, tokenVars, tableVars
  <2>2. ~Storing(c)
    BY <1>6 DEF Enrol, Verify, ExpiresIn, RecordSeen, Register, Storing
  <2>3. ~Storing(c)'
    <3>1. conn'[c] = NoConn \/ conn' = [conn EXCEPT ![c].pc = "expiry"]
          \/ conn' = [conn EXCEPT ![c].pc = "seen"] \/ conn' = [conn EXCEPT ![c].pc = "register"]
      BY <1>1, <1>6 DEF Enrol, Verify, ExpiresIn, RecordSeen, Register, Refuse
    <3> QED
      BY <1>1, <3>1 DEF Storing, NoConn, ConnRecords
  <2>4. \A d \in Conns : /\ Storing(d)' <=> Storing(d)
                         /\ Storing(d) => conn'[d].tok = conn[d].tok /\ conn'[d].inst = conn[d].inst
    BY <1>2, <2>2, <2>3 DEF Storing
  <2>5. /\ claiming'[Bot] = 0 /\ rewriting' = rewriting
        /\ (OpProvides' <=> OpProvides) /\ op'.tok = op.tok
    BY <1>3 DEF BotInv, OpProvides
  <2> QED
    BY <2>1, <2>4, <2>5, BotStays
<1> QED
  BY <1>4, <1>5, <1>6 DEF Handler

LEMMA BotStep ==
    ASSUME BotInv, [Next]_vars
    PROVE  BotInv'
<1>1. /\ TypedInv /\ TypedInv' /\ conn \in [Conns -> ConnRecords] /\ claiming[Bot] = 0
      /\ ident \in [Insts -> 0..MaxTokens] /\ claiming \in [Insts -> 0..MaxTokens]
  BY TypedStep DEF BotInv, TypedInv, ThreadTypes
<1>2. ASSUME UNCHANGED <<mixed, op, nodes, rewriting>>, claiming'[Bot] = 0, ident'[Bot] = ident[Bot],
             \A c \in Conns : /\ Storing(c)' <=> Storing(c)
                              /\ Storing(c) => conn'[c].tok = conn[c].tok /\ conn'[c].inst = conn[c].inst
      PROVE  BotInv'
  <2>1. OpProvides' <=> OpProvides
    BY <1>2 DEF OpProvides
  <2> QED
    BY <1>1, <1>2, <2>1, BotStays
<1>3. ASSUME NEW i \in Insts, Instance(i) PROVE BotInv'
  <2>1. UNCHANGED <<mixed, op, nodes, rewriting>>
    BY <1>3 DEF Instance, Drop, Start, ClaimSave, Forget, Dial, ClaimProbe, InstKeeps, tableVars, tokenVars
  <2>2. claiming'[Bot] = 0 /\ ident'[Bot] = ident[Bot]
    BY <1>1, <1>3, BotIsAnInstance DEF Instance, Drop, Start, ClaimSave, Forget, Dial, ClaimProbe
  <2>3. \A c \in Conns : /\ Storing(c)' <=> Storing(c)
                         /\ Storing(c) => conn'[c].tok = conn[c].tok /\ conn'[c].inst = conn[c].inst
    <3>1. CASE HangUp(i) \/ UNCHANGED conn
      BY <1>1, <3>1 DEF HangUp, Storing, ConnRecords
    <3>2. CASE \E c \in Conns : Dial(i, c)
      BY <1>1, <3>2 DEF Dial, Storing
    <3> QED
      BY <1>3, <3>1, <3>2 DEF Instance, Drop, Start, ClaimSave, Forget, ClaimProbe
  <2> QED
    BY <1>2, <2>1, <2>2, <2>3
<1>4. CASE Passing \/ UNCHANGED vars
  BY <1>1, <1>2, <1>4 DEF Passing, Expire, GetStale, WindowPasses, vars, tableVars, tokenVars, instVars, Storing
<1>5. CASE Restart
  <2>1. /\ nodes' = disk.nodes /\ mixed' = (mixed \/ Provisioning \/ rewriting # {} \/ unsaved)
        /\ ident' = ident \/ mixed'
        /\ rewriting' = {}
        /\ UNCHANGED claiming /\ op' = Idle /\ conn' = [c \in Conns |-> NoConn]
    BY <1>5 DEF Restart
  <2>2. ~OpProvides' /\ \A c \in Conns : ~Storing(c)'
    BY <2>1 DEF OpProvides, Storing, Idle, NoConn
  <2>3. ~mixed' /\ nodes'[BotName] # 0 => ident'[Bot] = nodes'[BotName]
    <3> SUFFICES ASSUME ~mixed, ~Provisioning, ~unsaved, disk.nodes[BotName] # 0
                 PROVE  ident[Bot] = disk.nodes[BotName]
      BY <2>1
    <3>1. /\ Known(disk.nodes, disk.pending) /\ Kept(disk.nodes, disk.pending) /\ Kept(nodes, pending)
          /\ BotName \in Names
      BY <1>1, IdleIsTyped DEF TypedInv, TableInv
    <3>2. nodes[BotName] = disk.nodes[BotName]
      BY <3>1 DEF Known, Kept
    <3> QED
      BY <3>2 DEF BotInv
  <2> QED
    BY <1>1, <2>1, <2>2, <2>3 DEF BotInv
<1>6. CASE RewriteReads
  <2>1. /\ rewriting = {} /\ mixed' = (mixed \/ Provisioning)
        /\ UNCHANGED <<nodes, ident, claiming, op, conn>>
        /\ ~Provisioning => rewriting' = {ident[Bot]}
    BY <1>6 DEF RewriteReads, tableVars
  <2>2. /\ \A c \in Conns : (Storing(c)' <=> Storing(c)) /\ conn'[c] = conn[c]
        /\ Provisioning' <=> Provisioning
    BY <2>1 DEF Storing, Provisioning
  <2>3. OpProvides' <=> OpProvides
    BY <2>1 DEF OpProvides
  <2> QED
    BY <1>1, <2>1, <2>2, <2>3 DEF BotInv
<1>7. CASE RewriteWrites
  <2>1. PICK t \in rewriting : WriteBotConfig(t)
    BY <1>7 DEF RewriteWrites
  <2>2. /\ t \in 0..MaxTokens /\ rewriting' = {} /\ UNCHANGED <<claiming, op, conn>>
        /\ UNCHANGED <<nodes, pending, disk, tokens, asked, expired, dead, stale, closed, unsaved>>
    BY <1>1, <1>7, <2>1 DEF RewriteWrites, timeVars, TypedInv, ThreadTypes
  <2>3. mixed' \/ (mixed' = mixed /\ ident'[Bot] = t)
    BY <1>1, <2>1, <2>2, ConfigWriteKeeps
  <2>4. /\ \A c \in Conns : (Storing(c)' <=> Storing(c)) /\ conn'[c] = conn[c]
        /\ Provisioning' <=> Provisioning
    BY <2>2 DEF Storing, Provisioning
  <2>5. OpProvides' <=> OpProvides
    BY <2>2 DEF OpProvides
  <2>6. CASE mixed'
    BY <1>1, <2>2, <2>4, <2>6, BotMixed DEF BotInv
  <2>7. CASE mixed' = mixed /\ ident'[Bot] = t /\ ~mixed'
    <3>1. t = ident[Bot] /\ ~Provisioning
      BY <2>1, <2>7 DEF BotInv
    <3> QED
      BY <1>1, <2>2, <2>4, <2>5, <2>7, <3>1 DEF BotInv
  <2> QED
    BY <2>3, <2>6, <2>7
<1> QED
  BY <1>1, <1>3, <1>4, <1>5, <1>6, <1>7, BotOperatorStep, BotHandlerStep DEF Next

LEMMA BotInit == Init => BotInv
<1> SUFFICES ASSUME Init PROVE BotInv
  OBVIOUS
<1>1. /\ nodes[BotName] = 0 /\ claiming[Bot] = 0 /\ rewriting = {}
  BY IdleIsTyped, BotIsAnInstance DEF Init
<1>2. \A c \in Conns : ~Storing(c)
  BY DEF Init, Storing, NoConn
<1> QED
  BY <1>1, <1>2, TypedInit DEF BotInv

\* A provisioning of the bot leaves the token of the table in its config, no later
\* rewrite loses it, and it ends whatever disagreement there was before, unless
\* another writer of that file overlapped with it, or one failed or was cut short
\* (_sync_local_bot_token, _store_bot_token, _write_mineflayer_config).
THEOREM BotIsProvided == Spec => []BotConfigFollows
<1>1. Init => BotInv
  BY BotInit
<1>2. BotInv /\ [Next]_vars => BotInv'
  BY BotStep
<1>3. BotInv => BotConfigFollows
  BY DEF BotInv, BotConfigFollows
<1> QED
  BY <1>1, <1>2, <1>3, PTL DEF Spec

=============================================================================
