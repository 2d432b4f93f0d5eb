--------------------------- MODULE ContextProofs ---------------------------
(***************************************************************************)
(* What is proved of the conversation's window (ContextWindow), of the      *)
(* stateless questions (StatelessAsk) and of the stored conversation        *)
(* (HistoryStore), for any number of questions, relayed messages,           *)
(* compactions, stops, switches, clears and loads, and histories of any     *)
(* length.                                                                  *)
(***************************************************************************)
EXTENDS ContextWindow, StatelessAsk, HistoryStore, FiniteSetTheorems, WellFoundedInduction, TLAPS

-----------------------------------------------------------------------------
(* Sets of positions in a list.                                            *)

\* A set of positions that is not empty has a greatest one, and Max is it.  (By
\* the well-foundedness of the finite sets under inclusion: the set of the
\* positions above m is smallest for the greatest m.)
LEMMA MaxOfPositions ==
    ASSUME NEW n \in Nat, NEW S \in SUBSET (1..n), S # {}
    PROVE  /\ Max(S) \in S
           /\ \A k \in S : k <= Max(S)
<1> DEFINE Above(m) == {k \in S : k > m}
           T == {Above(m) : m \in S}
<1>1. T \subseteq FiniteSubsetsOf(S)
  <2>1. IsFiniteSet(S)
    <3>1. IsFiniteSet(1..n)
      BY FS_Interval
    <3> QED BY <3>1, FS_Subset
  <2>2. ASSUME NEW m \in S PROVE Above(m) \in FiniteSubsetsOf(S)
    BY <2>1, FS_Subset DEF FiniteSubsetsOf
  <2> QED BY <2>2
<1>2. PICK x \in T : \A y \in T : <<y, x>> \notin StrictSubsetOrdering(S)
  <2>1. T # {}
    OBVIOUS
  <2> HIDE DEF T
  <2> QED BY <1>1, <2>1, WFMin, FS_StrictSubsetOrderingWellFounded
<1>3. PICK m \in S : x = Above(m)
  OBVIOUS
<1>4. \A k \in S : k <= m
  <2> SUFFICES ASSUME NEW k \in S, ~(k <= m) PROVE FALSE
    OBVIOUS
  <2>1. k \in Nat /\ m \in Nat
    OBVIOUS
  <2>2. k \in {i \in S : i > m} /\ k \notin {i \in S : i > k}
    BY <2>1
  <2>3. {i \in S : i > k} \subseteq {i \in S : i > m}
    <3>1. \A i \in S : i > k => i > m
      BY <2>1
    <3> QED BY <3>1
  <2>4. <<Above(k), Above(m)>> \in StrictSubsetOrdering(S)
    BY <2>2, <2>3 DEF StrictSubsetOrdering
  <2> QED BY <1>2, <1>3, <2>4
<1> QED BY <1>4 DEF Max

\* ... and a least one.
LEMMA LeastPosition ==
    ASSUME NEW n \in Nat, NEW S \in SUBSET (1..n), S # {}
    PROVE  \E m \in S : \A k \in S : m <= k
<1> DEFINE R == {i \in 1..n : n + 1 - i \in S}
<1>1. R \in SUBSET (1..n)
  OBVIOUS
<1>2. R # {}
  <2>1. PICK s \in S : TRUE
    OBVIOUS
  <2>2. n + 1 - s \in 1..n /\ n + 1 - (n + 1 - s) = s
    OBVIOUS
  <2> QED BY <2>1, <2>2
<1>3. PICK r \in R : \A i \in R : i <= r
  <2> HIDE DEF R
  <2> QED BY <1>1, <1>2, MaxOfPositions
<1>4. \A k \in S : n + 1 - r <= k
  <2> SUFFICES ASSUME NEW k \in S PROVE n + 1 - r <= k
    OBVIOUS
  <2>1. n + 1 - k \in 1..n /\ n + 1 - (n + 1 - k) = k
    OBVIOUS
  <2>2. n + 1 - k \in R
    BY <2>1
  <2>3. n + 1 - k <= r /\ r \in 1..n /\ k \in 1..n
    BY <1>3, <2>2
  <2> QED BY <2>3
<1> QED BY <1>4

-----------------------------------------------------------------------------
(* Where a history is cut.                                                 *)

LEMMA OpensArePositions ==
    ASSUME NEW list \in Seq(Message)
    PROVE  /\ Opens(list) \in SUBSET (1..Len(list))
           /\ IsFiniteSet(Opens(list))
           /\ Cardinality(Opens(list)) \in Nat
<1>1. Opens(list) \in SUBSET (1..Len(list))
  BY DEF Opens
<1>2. IsFiniteSet(1..Len(list))
  BY FS_Interval
<1> QED BY <1>1, <1>2, FS_Subset, FS_CardinalityType

\* The newest n rounds begin somewhere in the history, and not behind an opening.
LEMMA CutIsInside ==
    ASSUME NEW list \in Seq(Message), NEW n \in Nat \ {0}, n <= Cardinality(Opens(list))
    PROVE  /\ NewestFrom(list, n) \in 1..Len(list)
           /\ \E i \in Opens(list) : NewestFrom(list, n) <= i
<1> DEFINE opens == Opens(list)
           firsts == {i \in opens : Cardinality({j \in opens : j >= i}) >= n}
           first == Max(firsts)
           starts == {i \in 1..first : i = 1 \/ list[i - 1].role # "system"}
<1>1. /\ opens \in SUBSET (1..Len(list))
      /\ Len(list) \in Nat
  BY OpensArePositions
<1>2. opens # {}
  <2>1. Cardinality({}) = 0 /\ n >= 1
    BY FS_EmptySet
  <2>2. opens = {} => Cardinality(opens) = 0
    <3> HIDE DEF opens, first
    <3> QED BY <2>1
  <2>3. Cardinality(opens) # 0
    <3> HIDE DEF first
    <3> QED BY <2>1, OpensArePositions
  <2> QED BY <2>2, <2>3
<1>3. PICK m \in opens : \A k \in opens : m <= k
  <2> HIDE DEF opens
  <2> QED BY <1>1, <1>2, LeastPosition
<1>4. {j \in opens : j >= m} = opens
  <2> HIDE DEF opens
  <2>1. \A j \in opens : j >= m
    BY <1>1, <1>3
  <2> QED BY <2>1
<1>5. firsts # {} /\ firsts \in SUBSET (1..Len(list))
  <2>1. Cardinality({j \in opens : j >= m}) >= n
    BY <1>4, OpensArePositions
  <2> HIDE DEF opens
  <2> QED BY <1>1, <2>1
<1>6. first \in firsts
  <2> HIDE DEF firsts
  <2> QED BY <1>1, <1>5, MaxOfPositions
<1>7. first \in opens /\ first \in 1..Len(list)
  BY <1>1, <1>6
<1>8. /\ Max(starts) \in 1..first
      /\ Max(starts) = NewestFrom(list, n)
  <2>1. starts \in SUBSET (1..first) /\ first \in Nat /\ 1 \in starts
    <3> HIDE DEF first
    <3> QED BY <1>1, <1>7
  <2>2. Max(starts) \in starts
    <3> HIDE DEF starts
    <3> QED BY <2>1, MaxOfPositions
  <2>3. Max(starts) = NewestFrom(list, n)
    BY DEF NewestFrom
  <2> HIDE DEF starts
  <2> QED BY <2>1, <2>2, <2>3
<1>9. NewestFrom(list, n) \in 1..Len(list) /\ NewestFrom(list, n) <= first
  <2> HIDE DEF first, starts
  <2> QED BY <1>1, <1>7, <1>8
<1> HIDE DEF first
<1> QED BY <1>7, <1>9

\* A cut in front of a position inside the list takes no message away.
LEMMA CutKeepsTheWords ==
    ASSUME NEW list \in Seq(Message), NEW c \in 1..Len(list)
    PROVE  /\ SubSeq(list, 1, c - 1) \in Seq(Message)
           /\ SubSeq(list, c, Len(list)) \in Seq(Message)
           /\ Words(list) \subseteq Words(SubSeq(list, 1, c - 1))
                                      \cup Words(SubSeq(list, c, Len(list)))
           /\ Words(SubSeq(list, c, Len(list))) \subseteq Words(list)
<1> DEFINE old == SubSeq(list, 1, c - 1)
           keep == SubSeq(list, c, Len(list))
<1>1. /\ old \in Seq(Message) /\ Len(old) = c - 1
      /\ \A i \in 1..(c - 1) : old[i] = list[i]
  OBVIOUS
<1>2. /\ keep \in Seq(Message) /\ Len(keep) = Len(list) - c + 1
      /\ \A i \in 1..(Len(list) - c + 1) : keep[i] = list[i + c - 1]
  OBVIOUS
<1> HIDE DEF old, keep
<1>3. ASSUME NEW i \in 1..Len(list)
      PROVE  list[i] \in {old[j] : j \in 1..Len(old)} \cup {keep[j] : j \in 1..Len(keep)}
  <2>1. CASE i < c
    BY <1>1, <2>1
  <2>2. CASE i >= c
    <3>1. i - c + 1 \in 1..Len(keep) /\ keep[i - c + 1] = list[i]
      BY <1>2, <2>2
    <3> QED BY <3>1
  <2> QED BY <2>1, <2>2
<1>4. ASSUME NEW i \in 1..Len(keep)
      PROVE  keep[i] \in {list[j] : j \in 1..Len(list)}
  <2>1. i + c - 1 \in 1..Len(list) /\ keep[i] = list[i + c - 1]
    BY <1>2
  <2> QED BY <2>1
<1>5. DOMAIN list = 1..Len(list) /\ DOMAIN old = 1..Len(old) /\ DOMAIN keep = 1..Len(keep)
  BY <1>1, <1>2
<1>6. Words(list) \subseteq Words(old) \cup Words(keep)
  BY <1>3, <1>5 DEF Words
<1>7. Words(keep) \subseteq Words(list)
  BY <1>4, <1>5 DEF Words
<1> QED BY <1>1, <1>2, <1>6, <1>7 DEF old, keep

\* m stands in the last turn of the list: behind it are user messages only.
InLastTurn(m, list) ==
    \E p \in 1..Len(list) :
        list[p] = m /\ \A j \in p..Len(list) : list[j].role = "user"

\* The last turn survives every cut: no round begins behind its first message.
LEMMA CutKeepsTheLastTurn ==
    ASSUME NEW list \in Seq(Message), NEW n \in Nat \ {0}, n <= Cardinality(Opens(list)),
           NEW m, InLastTurn(m, list)
    PROVE  InLastTurn(m, Newest(list, n))
<1> DEFINE c == NewestFrom(list, n)
<1>1. PICK p \in 1..Len(list) :
          list[p] = m /\ \A j \in p..Len(list) : list[j].role = "user"
  BY DEF InLastTurn
<1>2. PICK i \in Opens(list) : c <= i
  BY CutIsInside
<1>3. c \in 1..Len(list) /\ i \in 1..Len(list)
  BY CutIsInside, OpensArePositions
<1> HIDE DEF c
<1>4. i <= p
  <2> SUFFICES ASSUME ~(i <= p) PROVE FALSE
    OBVIOUS
  <2>1. i - 1 \in p..Len(list) /\ p \in 1..(i - 1)
    BY <1>3
  <2>2. list[i - 1].role = "user" /\ list[p].role = "user"
    BY <1>1, <2>1
  <2> QED BY <1>2, <2>1, <2>2 DEF Opens
<1> DEFINE keep == SubSeq(list, c, Len(list))
<1>5. /\ Len(keep) = Len(list) - c + 1
      /\ \A k \in 1..(Len(list) - c + 1) : keep[k] = list[k + c - 1]
  BY <1>3
<1> HIDE DEF keep
<1>6. p - c + 1 \in 1..Len(keep) /\ keep[p - c + 1] = m
  <2>1. p - c + 1 \in 1..(Len(list) - c + 1) /\ (p - c + 1) + c - 1 = p
    BY <1>2, <1>3, <1>4
  <2>2. keep[p - c + 1] = list[(p - c + 1) + c - 1]
    BY <1>5, <2>1
  <2> QED BY <1>1, <1>5, <2>1, <2>2
<1>7. \A j \in (p - c + 1)..Len(keep) : keep[j].role = "user"
  <2> SUFFICES ASSUME NEW j \in (p - c + 1)..Len(keep) PROVE keep[j].role = "user"
    OBVIOUS
  <2>1. j + c - 1 \in p..Len(list) /\ keep[j] = list[j + c - 1]
    BY <1>2, <1>3, <1>4, <1>5
  <2> QED BY <1>1, <2>1
<1>8. InLastTurn(m, keep)
  BY <1>6, <1>7 DEF InLastTurn
<1> QED BY <1>8 DEF keep, c, Newest

-----------------------------------------------------------------------------
(* Types.                                                                  *)

LEMMA MessagesAreTyped ==
    /\ \A a \in Asks \cup Relays \cup ToSet(Old) : User(a) \in Message
    /\ Time \in Message /\ Summary \in Message
    /\ \A q \in Asks \cup ToSet(Old), n \in 1..MaxReplies, c \in BOOLEAN :
           Assistant(q, n, c) \in Message
    /\ \A q \in Asks, n \in 1..MaxReplies : Tool(q, n) \in Message
BY DEF Message, User, Time, Summary, Assistant, Tool

LEMMA StoredIsTyped ==
    ASSUME NEW n \in 0..Len(Old)
    PROVE  Stored(n) \in Seq(Message)
<1>1. Old \in Seq(ToSet(Old)) /\ Len(Old) \in Nat
  BY OldAreListed
<1>2. 1 \in 1..MaxReplies
  BY SomethingIsKept
<1>3. ASSUME NEW i \in 1..(2 * n)
      PROVE  (IF i % 2 = 1 THEN User(Old[(i + 1) \div 2])
              ELSE Assistant(Old[i \div 2], 1, FALSE)) \in Message
  <2>1. CASE i % 2 = 1
    <3>1. (i + 1) \div 2 \in 1..Len(Old)
      BY <1>1
    <3>2. Old[(i + 1) \div 2] \in ToSet(Old)
      BY <1>1, <3>1
    <3> QED BY <2>1, <3>2, MessagesAreTyped
  <2>2. CASE i % 2 # 1
    <3>1. i \div 2 \in 1..Len(Old)
      BY <1>1, <2>2
    <3>2. Old[i \div 2] \in ToSet(Old)
      BY <1>1, <3>1
    <3> QED BY <1>2, <2>2, <3>2, MessagesAreTyped
  <2> QED BY <2>1, <2>2
<1>4. Stored(n) \in [1..(2 * n) -> Message]
  BY <1>3 DEF Stored
<1>5. 2 * n \in Nat
  BY <1>1
<1> QED BY <1>4, <1>5

\* _validate_sequence returns messages of the history it was given.
LEMMA ValidatedIsTyped ==
    ASSUME NEW list \in Seq(Message)
    PROVE  Validated(list) \in Seq(Message)
<1> DEFINE called(i) == list[i].role = "assistant" /\ list[i].calls
           answered(i) == i < Len(list) /\ list[i + 1] = Tool(list[i].to, list[i].nth)
           keeps(j) == CASE called(j) -> answered(j)
                         [] list[j].role = "tool" ->
                                \E i \in 1..(j - 1) : /\ called(i) /\ answered(i)
                                                      /\ list[i].to = list[j].to
                                                      /\ list[i].nth = list[j].nth
                         [] OTHER -> TRUE
           kept == {j \in DOMAIN list : keeps(j)}
           upTo(k) == {j \in kept : Cardinality({i \in kept : i <= j}) <= k}
<1>1. kept \in SUBSET (1..Len(list)) /\ Len(list) \in Nat
  <2> HIDE DEF keeps
  <2> QED OBVIOUS
<1>2. Validated(list) = [k \in 1..Cardinality(kept) |-> list[Max(upTo(k))]]
  BY DEF Validated
<1> HIDE DEF kept
<1>3. IsFiniteSet(kept) /\ Cardinality(kept) \in Nat
  <2>1. IsFiniteSet(1..Len(list))
    BY FS_Interval
  <2> QED BY <1>1, <2>1, FS_Subset, FS_CardinalityType
<1>4. ASSUME NEW k \in 1..Cardinality(kept)
      PROVE  list[Max(upTo(k))] \in Message
  <2>1. kept # {}
    BY <1>3, FS_EmptySet
  <2>2. PICK m \in kept : \A i \in kept : m <= i
    BY <1>1, <2>1, LeastPosition
  <2>3. {i \in kept : i <= m} = {m}
    <3>1. (\A i \in kept : i <= m => i = m) /\ m <= m
      BY <1>1, <2>2
    <3> QED BY <3>1
  <2>4. Cardinality({m}) = 1
    BY FS_Singleton
  <2>5. m \in upTo(k)
    <3>1. Cardinality({i \in kept : i <= m}) <= k
      <4>1. \A c : c = 1 => c <= k
        BY <1>3
      <4> QED BY <2>3, <2>4, <4>1, Zenon
    <3> QED BY <3>1
  <2>6. upTo(k) \in SUBSET (1..Len(list)) /\ upTo(k) \in SUBSET kept
    BY <1>1
  <2> HIDE DEF upTo
  <2>7. Max(upTo(k)) \in upTo(k)
    BY <1>1, <2>5, <2>6, MaxOfPositions
  <2> QED BY <1>1, <2>6, <2>7
<1>5. Validated(list) \in [1..Cardinality(kept) -> Message]
  <2> HIDE DEF upTo
  <2> QED BY <1>2, <1>4
<1> QED BY <1>3, <1>5

Places == {"idle", "start", "preflight", "summary", "reduce", "shrink", "wait", "tool",
           "merge", "weigh", "validate", "clean", "finish", "giveBack", "done"}
Snapshot == [old : Seq(Message), keep : Seq(Message),
             after : {"none", "preflight", "reduce", "shrink"}]
Relayed == {User(r) : r \in Relays}

Types ==
    /\ responseList \in Seq(Message) /\ responseQueue \in Seq(Relayed)
    /\ roundActive \in BOOLEAN /\ isStopped \in BOOLEAN
    /\ compaction \in BOOLEAN /\ timed \in BOOLEAN
    /\ at \in [Commands -> Places]
    /\ answers \in [Asks -> 0..MaxReplies] /\ goOn \in [Asks -> BOOLEAN]
    /\ snapshot \in [Asks -> Snapshot]
    /\ outdated \in SUBSET Asks /\ beside \in SUBSET Asks

\* Who waits for a summary has a snapshot to come back from, and nobody else.
Matched ==
    \A t \in Asks : /\ at[t] = "summary" <=> snapshot[t].after # "none"
                    /\ t \in outdated => at[t] = "summary"

\* Behind an answer is where an answer was given.
Working == {"tool", "merge", "weigh", "shrink", "validate", "clean"}
Answered ==
    \A t \in Asks : at[t] \in Working \/ (at[t] = "summary" /\ snapshot[t].after = "shrink")
                      => answers[t] > 0

LEMMA RelaysAreMessages == Relayed \subseteq Message
BY MessagesAreTyped DEF Relayed

LEMMA MergedIsTyped ==
    ASSUME Types
    PROVE  responseList \o responseQueue \in Seq(Message)
<1>1. responseQueue \in [1..Len(responseQueue) -> Message] /\ Len(responseQueue) \in Nat
  BY RelaysAreMessages DEF Types
<1>2. responseQueue \in Seq(Message)
  BY <1>1
<1> QED BY <1>2 DEF Types

\* The time reading is put in somewhere, in front of a user message if there is one.
LEMMA TimeGoesIn ==
    ASSUME NEW list \in Seq(Message)
    PROVE  /\ TimeInserted(list) \in Seq(Message)
           /\ \/ TimeInserted(list) = Append(list, Time)
              \/ \E u \in 1..Len(list) :
                    /\ list[u].role = "user"
                    /\ \A j \in 1..Len(list) : list[j].role = "user" => j <= u
                    /\ TimeInserted(list) = SubSeq(list, 1, u - 1) \o <<Time>>
                                              \o SubSeq(list, u, Len(list))
<1> DEFINE users == {i \in DOMAIN list : list[i].role = "user"}
<1>1. CASE users = {}
  <2>1. TimeInserted(list) = Append(list, Time)
    BY <1>1 DEF TimeInserted
  <2> QED BY <2>1, MessagesAreTyped
<1>2. CASE users # {}
  <2>1. users \in SUBSET (1..Len(list)) /\ Len(list) \in Nat
    OBVIOUS
  <2>2. Max(users) \in users /\ \A k \in users : k <= Max(users)
    <3> HIDE DEF users
    <3> QED BY <1>2, <2>1, MaxOfPositions
  <2>3. PICK u : u = Max(users)
    OBVIOUS
  <2>4. /\ u \in 1..Len(list) /\ list[u].role = "user"
        /\ \A j \in 1..Len(list) : list[j].role = "user" => j <= u
    BY <2>2, <2>3
  <2>5. TimeInserted(list) = SubSeq(list, 1, u - 1) \o <<Time>> \o SubSeq(list, u, Len(list))
    BY <1>2, <2>3 DEF TimeInserted, InsertAt
  <2> HIDE DEF users
  <2>6. SubSeq(list, 1, u - 1) \in Seq(Message) /\ SubSeq(list, u, Len(list)) \in Seq(Message)
    BY <2>4
  <2>7. <<Time>> \in Seq(Message)
    BY MessagesAreTyped
  <2>8. TimeInserted(list) \in Seq(Message)
    BY <2>5, <2>6, <2>7
  <2> QED BY <2>4, <2>5, <2>8
<1> QED BY <1>1, <1>2

\* What a snapshot looks like.
Taken(t, after) ==
    [old  |-> SubSeq(responseList, 1, NewestFrom(responseList, KEEP_ROUNDS) - 1),
     keep |-> Newest(responseList, KEEP_ROUNDS), after |-> after]

LEMMA SnapshotIsTyped ==
    ASSUME Types, NEW t, NEW after \in {"preflight", "reduce", "shrink"},
           Cardinality(Opens(responseList)) > KEEP_ROUNDS
    PROVE  /\ Taken(t, after) \in Snapshot
           /\ Words(responseList) \subseteq Words(Taken(t, after).old)
                                             \cup Words(Taken(t, after).keep)
<1>1. responseList \in Seq(Message) /\ KEEP_ROUNDS \in Nat \ {0}
  BY SomethingIsKept DEF Types
<1>2. NewestFrom(responseList, KEEP_ROUNDS) \in 1..Len(responseList)
  BY <1>1, OpensArePositions, CutIsInside
<1> QED BY <1>1, <1>2, CutKeepsTheWords DEF Taken, Snapshot, Newest

LEMMA RoundIsDropped ==
    ASSUME Types, Cardinality(Opens(responseList)) > 1
    PROVE  LET kept == Newest(responseList, Cardinality(Opens(responseList)) - 1)
           IN  kept \in Seq(Message) /\ Words(kept) \subseteq Words(responseList)
<1> DEFINE n == Cardinality(Opens(responseList))
<1>1. responseList \in Seq(Message) /\ n \in Nat
  BY OpensArePositions DEF Types
<1>2. n - 1 \in Nat \ {0} /\ n - 1 <= n
  BY <1>1
<1>3. NewestFrom(responseList, n - 1) \in 1..Len(responseList)
  BY <1>1, <1>2, CutIsInside
<1> QED BY <1>1, <1>3, CutKeepsTheWords DEF Newest

LEMMA CompressedIsTyped ==
    ASSUME Types, NEW t \in Asks, NEW s \in BOOLEAN
    PROVE  Compressed(t, s) \in Seq(Message)
BY MessagesAreTyped DEF Compressed, Types, Snapshot

\* A thread that goes somewhere is there, and the others stay.
LEMMA GoesThere ==
    ASSUME Types, NEW t \in Commands, NEW l \in Places, Goto(t, l)
    PROVE  at' \in [Commands -> Places] /\ at'[t] = l /\ \A u \in Commands \ {t} : at'[u] = at[u]
BY DEF Goto, Types

\* Taking a snapshot, or not.
LEMMA TakingASnapshot ==
    ASSUME Types, NEW t \in Asks, NEW after \in {"preflight", "reduce", "shrink"},
           TakeSnapshot(t, after)
    PROVE  /\ at' \in [Commands -> Places] /\ \A u \in Commands \ {t} : at'[u] = at[u]
           /\ \/ at'[t] = after /\ snapshot' = snapshot /\ outdated' = outdated
              \/ /\ at'[t] = "summary" /\ outdated' = outdated \ {t}
                 /\ Cardinality(Opens(responseList)) > KEEP_ROUNDS
                 /\ snapshot' = [snapshot EXCEPT ![t] = Taken(t, after)]
           /\ snapshot' \in [Asks -> Snapshot]
<1>1. t \in Commands /\ after \in Places /\ "summary" \in Places
  BY DEF Commands, Places
<1>2. /\ Cardinality(Opens(responseList)) \in Nat /\ KEEP_ROUNDS \in Nat
      /\ snapshot \in [Asks -> Snapshot]
  BY OpensArePositions, SomethingIsKept DEF Types
<1>3. CASE Cardinality(Opens(responseList)) <= KEEP_ROUNDS
  BY <1>1, <1>2, <1>3, GoesThere DEF TakeSnapshot
<1>4. CASE ~(Cardinality(Opens(responseList)) <= KEEP_ROUNDS)
  <2>1. /\ snapshot' = [snapshot EXCEPT ![t] = Taken(t, after)]
        /\ outdated' = outdated \ {t} /\ Goto(t, "summary")
    BY <1>4 DEF TakeSnapshot, Taken
  <2>2. Taken(t, after) \in Snapshot
    BY <1>2, <1>4, SnapshotIsTyped
  <2>3. snapshot' \in [Asks -> Snapshot]
    BY <1>2, <2>1, <2>2
  <2> QED BY <1>1, <1>2, <1>4, <2>1, <2>3, GoesThere
<1> QED BY <1>3, <1>4

LEMMA TypesKept ==
    ASSUME Types, Matched, Answered, [CtxNext]_ctxVars
    PROVE  Types'
<1>1. /\ Asks \subseteq Commands /\ Relays \subseteq Commands /\ Compacts \subseteq Commands
      /\ MaxReplies \in Nat
  BY SomethingIsKept DEF Commands
<1>2. /\ \A u \in Asks : User(u) \in Message
      /\ \A r \in Relays : User(r) \in Message /\ User(r) \in Relayed
  BY MessagesAreTyped DEF Relayed
<1>3. << >> \in Seq(Message) /\ << >> \in Seq(Relayed)
  OBVIOUS
<1>4. {u \in Asks : at[u] = "summary"} \in SUBSET Asks
  OBVIOUS
<1>5. ASSUME NEW t \in Asks, Claim(t) PROVE Types'
  <2>1. Append(responseList, User(t)) \in Seq(Message)
    BY <1>2 DEF Types
  <2>2. InRound \in SUBSET Asks
    BY DEF InRound
  <2> QED BY <1>1, <1>4, <1>5, <2>1, <2>2 DEF Claim, Goto, Write, Types, Places
<1>6. ASSUME NEW t \in Asks, Begin(t) PROVE Types'
  <2>1. TimeInserted(responseList \o responseQueue) \in Seq(Message)
    BY MergedIsTyped, TimeGoesIn
  <2> QED BY <1>1, <1>3, <1>4, <1>6, <2>1, MergedIsTyped DEF Begin, Goto, Write, Types, Places
<1>7. ASSUME NEW t \in Asks, ApplyCompaction(t) PROVE Types'
  BY <1>7, TakingASnapshot DEF ApplyCompaction, Types
<1>8. ASSUME NEW t \in Asks, Preflight(t) PROVE Types'
  <2>1. at' \in [Commands -> Places] /\ snapshot' \in [Asks -> Snapshot]
                                     /\ outdated' \in SUBSET Asks
    BY <1>1, <1>8, TakingASnapshot DEF Preflight, Goto, Types, Places
  <2> QED BY <1>8, <2>1 DEF Preflight, Types
<1>9. ASSUME NEW t \in Asks, Replace(t) PROVE Types'
  <2>1. /\ snapshot[t] \in Snapshot /\ NoSnapshot \in Snapshot
    BY <1>3 DEF Types, NoSnapshot, Snapshot
  <2>2. snapshot[t].after \in {"preflight", "reduce", "shrink"} /\ snapshot[t].after \in Places
    BY <1>9, <2>1 DEF Replace, Matched, Snapshot, Places
  <2>3. at' \in [Commands -> Places]
    BY <1>1, <1>9, <2>2 DEF Replace, Goto, Types
  <2>4. snapshot' \in [Asks -> Snapshot]
    BY <1>9, <2>1 DEF Replace, Types
  <2>5. responseList' \in Seq(Message) /\ outdated' \in SUBSET Asks
    BY <1>9, CompressedIsTyped DEF Replace, Types
  <2> QED BY <1>9, <2>3, <2>4, <2>5 DEF Replace, Types
<1>10. ASSUME NEW t \in Asks, DropOldestRound(t) PROVE Types'
  BY <1>10, RoundIsDropped DEF DropOldestRound, Types
<1>11. ASSUME NEW t \in Asks, Reduced(t) PROVE Types'
  BY <1>1, <1>11 DEF Reduced, Goto, Types, Places
<1>12. ASSUME NEW t \in Asks, Answer(t) PROVE Types'
  <2>1. answers[t] + 1 \in 1..MaxReplies
    BY <1>1, <1>12 DEF Answer, Types
  <2>2. PICK calls \in BOOLEAN :
            /\ Write(Append(responseList, Assistant(t, answers[t] + 1, calls)))
            /\ goOn' = [goOn EXCEPT ![t] = calls]
            /\ Goto(t, IF calls THEN "tool" ELSE "merge")
    BY <1>12 DEF Answer
  <2>3. Assistant(t, answers[t] + 1, calls) \in Message
    BY <2>1, MessagesAreTyped
  <2>4. Append(responseList, Assistant(t, answers[t] + 1, calls)) \in Seq(Message)
    BY <2>3 DEF Types
  <2>5. responseList' \in Seq(Message) /\ outdated' \in SUBSET Asks
    BY <1>4, <2>2, <2>4 DEF Write
  <2>6. at' \in [Commands -> Places]
    BY <1>1, <2>2 DEF Goto, Types, Places
  <2>7. goOn' \in [Asks -> BOOLEAN]
    BY <2>2 DEF Types
  <2>8. answers' \in [Asks -> 0..MaxReplies]
    BY <1>1, <1>12, <2>1 DEF Answer, Types
  <2> QED BY <1>12, <2>5, <2>6, <2>7, <2>8 DEF Answer, Types
<1>13. ASSUME NEW t \in Asks, RequestFails(t) PROVE Types'
  BY <1>1, <1>13 DEF RequestFails, Goto, Types, Places
<1>14. ASSUME NEW t \in Asks, RunTool(t) PROVE Types'
  <2>1. answers[t] \in 1..MaxReplies
    BY <1>1, <1>14 DEF RunTool, Answered, Working, Types
  <2>2. Tool(t, answers[t]) \in Message
    BY <2>1, MessagesAreTyped
  <2>3. Append(responseList, Tool(t, answers[t])) \in Seq(Message)
    BY <2>2 DEF Types
  <2> QED BY <1>1, <1>4, <1>14, <2>3 DEF RunTool, Goto, Write, Types, Places
<1>15. ASSUME NEW t \in Asks, Merge(t) PROVE Types'
  <2>1. goOn' \in [Asks -> BOOLEAN]
    BY <1>15 DEF Merge, Types
  <2>2. responseList' \in Seq(Message) /\ outdated' \in SUBSET Asks
    BY <1>4, <1>15, MergedIsTyped DEF Merge, Write, Types
  <2>3. at' \in [Commands -> Places]
    BY <1>1, <1>15 DEF Merge, Goto, Types, Places
  <2> QED BY <1>3, <1>15, <2>1, <2>2, <2>3 DEF Merge, Types
<1>16. ASSUME NEW t \in Asks, Weigh(t) PROVE Types'
  <2>1. at' \in [Commands -> Places] /\ snapshot' \in [Asks -> Snapshot]
                                     /\ outdated' \in SUBSET Asks
    BY <1>1, <1>16, TakingASnapshot DEF Weigh, Goto, Types, Places
  <2> QED BY <1>16, <2>1 DEF Weigh, Types
<1>17. ASSUME NEW t \in Asks, Scan(t) PROVE Types'
  <2>1. snapshot' \in [Asks -> Snapshot]
    BY <1>17, ValidatedIsTyped DEF Scan, Types, Snapshot
  <2> QED BY <1>1, <1>17, <2>1 DEF Scan, Goto, Types, Places
<1>18. ASSUME NEW t \in Asks, Clean(t) PROVE Types'
  <2>1. snapshot[t].keep \in Seq(Message) /\ NoSnapshot \in Snapshot
    BY <1>3 DEF Types, Snapshot, NoSnapshot
  <2>2. snapshot' \in [Asks -> Snapshot]
    BY <1>18, <2>1 DEF Clean, Types
  <2> QED BY <1>1, <1>4, <1>18, <2>1, <2>2 DEF Clean, Goto, Write, Types, Places
<1>19. ASSUME NEW t \in Asks, Finish(t) PROVE Types'
  BY <1>1, <1>19 DEF Finish, Goto, Types, Places
<1>20. ASSUME NEW t \in Asks, GiveBack(t) PROVE Types'
  BY <1>1, <1>20 DEF GiveBack, Goto, Types, Places
<1>21. ASSUME NEW t \in Relays, Relay(t) PROVE Types'
  <2>1. /\ Append(responseList, User(t)) \in Seq(Message)
        /\ Append(responseQueue, User(t)) \in Seq(Relayed)
    BY <1>2 DEF Types
  <2> QED BY <1>1, <1>4, <1>21, <2>1 DEF Relay, Goto, Write, Types, Places
<1>22. ASSUME NEW t \in Compacts, Compact(t) PROVE Types'
  BY <1>1, <1>22 DEF Compact, Goto, Types, Places
<1>23. CASE UNCHANGED ctxVars
  BY <1>23 DEF ctxVars, Types
<1> QED
  BY <1>5, <1>6, <1>7, <1>8, <1>9, <1>10, <1>11, <1>12, <1>13, <1>14, <1>15, <1>16, <1>17,
     <1>18, <1>19, <1>20, <1>21, <1>22, <1>23 DEF CtxNext, AskStep

\* ... and with or without one, who has it is where it says.
LEMMA SnapshotMatches ==
    ASSUME Types, Matched, Answered, NEW t \in Asks,
           NEW after \in {"preflight", "reduce", "shrink"}, TakeSnapshot(t, after),
           at[t] \in {"preflight", "weigh"}, after = "shrink" => at[t] = "weigh",
           answers' = answers
    PROVE  Matched' /\ Answered'
<1>1. Asks \subseteq Commands /\ after \notin {"none", "summary"}
  BY DEF Commands
<1>2. answers[t] \in 0..MaxReplies /\ snapshot[t] \in Snapshot /\ DOMAIN snapshot = Asks
  BY DEF Types
<1>3. after \in Working => answers[t] > 0
  BY DEF Answered, Working
<1>4. CASE at'[t] = after /\ snapshot' = snapshot /\ outdated' = outdated
  BY <1>1, <1>3, <1>4, TakingASnapshot DEF Matched, Answered
<1>5. CASE /\ at'[t] = "summary" /\ outdated' = outdated \ {t}
           /\ snapshot' = [snapshot EXCEPT ![t] = Taken(t, after)]
  <2>1. snapshot'[t].after = after /\ \A u \in Asks \ {t} : snapshot'[u] = snapshot[u]
    BY <1>2, <1>5 DEF Taken
  <2>2. \A u \in Asks \ {t} : at'[u] = at[u]
    BY <1>1, TakingASnapshot
  <2>3. Matched'
    BY <1>1, <1>5, <2>1, <2>2 DEF Matched
  <2>4. Answered'
    BY <1>3, <1>5, <2>1, <2>2 DEF Answered, Working
  <2> QED BY <2>3, <2>4
<1> QED BY <1>4, <1>5, TakingASnapshot

LEMMA MatchedKept ==
    ASSUME Types, Types', Matched, Answered, [CtxNext]_ctxVars
    PROVE  Matched' /\ Answered'
<1>1. Asks \subseteq Commands /\ Relays \subseteq Commands /\ Compacts \subseteq Commands
  BY DEF Commands
<1>2. ASSUME NEW t \in Asks, Claim(t) PROVE Matched' /\ Answered'
  BY <1>1, <1>2 DEF Claim, Goto, Write, Matched, Answered, Working, Types
<1>3. ASSUME NEW t \in Asks, Begin(t) PROVE Matched' /\ Answered'
  BY <1>1, <1>3 DEF Begin, Goto, Write, Matched, Answered, Working, Types
<1>4. ASSUME NEW t \in Asks, ApplyCompaction(t) PROVE Matched' /\ Answered'
  BY <1>4, SnapshotMatches DEF ApplyCompaction
<1>5. ASSUME NEW t \in Asks, Preflight(t) PROVE Matched' /\ Answered'
  <2>1. CASE TakeSnapshot(t, "reduce")
    BY <1>5, <2>1, SnapshotMatches DEF Preflight
  <2>2. CASE ~TakeSnapshot(t, "reduce")
    BY <1>1, <1>5, <2>2 DEF Preflight, Goto, Matched, Answered, Working, Types
  <2> QED BY <2>1, <2>2
<1>6. ASSUME NEW t \in Asks, Replace(t) PROVE Matched' /\ Answered'
  <2>1. /\ at[t] = "summary" /\ snapshot[t].after \notin {"none", "summary"}
        /\ snapshot[t].after \in Working => snapshot[t].after = "shrink"
    BY <1>6 DEF Replace, Types, Snapshot, Matched, Working
  <2>2. at'[t] = snapshot[t].after /\ \A u \in Asks \ {t} : at'[u] = at[u]
    BY <1>1, <1>6 DEF Replace, Goto, Types
  <2>3. snapshot'[t].after = "none" /\ \A u \in Asks \ {t} : snapshot'[u] = snapshot[u]
    BY <1>6 DEF Replace, Types, NoSnapshot
  <2>4. /\ t \notin outdated' /\ answers' = answers
        /\ \A u \in Asks \ {t} : u \in outdated' => u \in outdated \/ at[u] = "summary"
    BY <1>6 DEF Replace
  <2>5. Matched'
    BY <2>1, <2>2, <2>3, <2>4 DEF Matched
  <2>6. Answered'
    BY <2>1, <2>2, <2>3, <2>4 DEF Answered, Working
  <2> QED BY <2>5, <2>6
<1>7. ASSUME NEW t \in Asks, DropOldestRound(t) PROVE Matched' /\ Answered'
  BY <1>1, <1>7 DEF DropOldestRound, Goto, Write, Matched, Answered, Working, Types
<1>8. ASSUME NEW t \in Asks, Reduced(t) PROVE Matched' /\ Answered'
  BY <1>1, <1>8 DEF Reduced, Goto, Write, Matched, Answered, Working, Types
<1>9. ASSUME NEW t \in Asks, Answer(t) PROVE Matched' /\ Answered'
  BY <1>1, <1>9 DEF Answer, Goto, Write, Matched, Answered, Working, Types
<1>10. ASSUME NEW t \in Asks, RequestFails(t) PROVE Matched' /\ Answered'
  BY <1>1, <1>10 DEF RequestFails, Goto, Write, Matched, Answered, Working, Types
<1>11. ASSUME NEW t \in Asks, RunTool(t) PROVE Matched' /\ Answered'
  BY <1>1, <1>11 DEF RunTool, Goto, Write, Matched, Answered, Working, Types
<1>12. ASSUME NEW t \in Asks, Merge(t) PROVE Matched' /\ Answered'
  BY <1>1, <1>12 DEF Merge, Goto, Write, Matched, Answered, Working, Types
<1>13. ASSUME NEW t \in Asks, Weigh(t) PROVE Matched' /\ Answered'
  <2>1. CASE TakeSnapshot(t, "shrink")
    BY <1>13, <2>1, SnapshotMatches DEF Weigh
  <2>2. CASE ~TakeSnapshot(t, "shrink")
    BY <1>1, <1>13, <2>2 DEF Weigh, Goto, Matched, Answered, Working, Types
  <2> QED BY <2>1, <2>2
<1>14. ASSUME NEW t \in Asks, Scan(t) PROVE Matched' /\ Answered'
  BY <1>1, <1>14 DEF Scan, Goto, Write, Matched, Answered, Working, Types, NoSnapshot, Snapshot
<1>15. ASSUME NEW t \in Asks, Clean(t) PROVE Matched' /\ Answered'
  BY <1>1, <1>15 DEF Clean, Goto, Write, Matched, Answered, Working, Types, NoSnapshot, Snapshot
<1>16. ASSUME NEW t \in Asks, Finish(t) PROVE Matched' /\ Answered'
  BY <1>1, <1>16 DEF Finish, Goto, Write, Matched, Answered, Working, Types
<1>17. ASSUME NEW t \in Asks, GiveBack(t) PROVE Matched' /\ Answered'
  BY <1>1, <1>17 DEF GiveBack, Goto, Write, Matched, Answered, Working, Types
<1>18. ASSUME NEW t \in Relays, Relay(t) PROVE Matched' /\ Answered'
  BY <1>1, <1>18 DEF Relay, Goto, Write, Matched, Answered, Working, Types
<1>19. ASSUME NEW t \in Compacts, Compact(t) PROVE Matched' /\ Answered'
  BY <1>1, <1>19 DEF Compact, Goto, Write, Matched, Answered, Working, Types
<1>20. CASE UNCHANGED ctxVars
  BY <1>20 DEF ctxVars, Matched, Answered
<1> QED
  BY <1>2, <1>3, <1>4, <1>5, <1>6, <1>7, <1>8, <1>9, <1>10, <1>11, <1>12, <1>13, <1>14,
     <1>15, <1>16, <1>17, <1>18, <1>19, <1>20 DEF CtxNext, AskStep

-----------------------------------------------------------------------------
(* A compression keeps the rest.                                           *)

\* While nobody has counted the version up, every word of the history is in the
\* snapshot: only the emergency reduction changes it then, and only takes away.
Held ==
    \A t \in Asks : at[t] = "summary" /\ t \notin outdated
        => Words(responseList) \subseteq Words(snapshot[t].old) \cup Words(snapshot[t].keep)

LEMMA SnapshotHolds ==
    ASSUME Types, Held, NEW t \in Asks, NEW after \in {"preflight", "reduce", "shrink"},
           TakeSnapshot(t, after), responseList' = responseList, at[t] # "summary"
    PROVE  Held'
<1>1. Asks \subseteq Commands /\ after # "summary" /\ DOMAIN snapshot = Asks
  BY DEF Commands, Types
<1>2. CASE at'[t] = after /\ snapshot' = snapshot /\ outdated' = outdated
  BY <1>1, <1>2, TakingASnapshot DEF Held
<1>3. CASE /\ at'[t] = "summary" /\ outdated' = outdated \ {t}
           /\ Cardinality(Opens(responseList)) > KEEP_ROUNDS
           /\ snapshot' = [snapshot EXCEPT ![t] = Taken(t, after)]
  <2>1. snapshot'[t] = Taken(t, after) /\ \A u \in Asks \ {t} : snapshot'[u] = snapshot[u]
    BY <1>1, <1>3
  <2>2. \A u \in Asks \ {t} : at'[u] = at[u]
    BY <1>1, TakingASnapshot
  <2>3. Words(responseList) \subseteq Words(Taken(t, after).old)
                                         \cup Words(Taken(t, after).keep)
    BY <1>3, SnapshotIsTyped
  <2> QED BY <1>3, <2>1, <2>2, <2>3 DEF Held
<1> QED BY <1>2, <1>3, TakingASnapshot

LEMMA HeldKept ==
    ASSUME Types, Types', Matched, Held, [CtxNext]_ctxVars
    PROVE  Held'
<1>1. Asks \subseteq Commands /\ Relays \subseteq Commands /\ Compacts \subseteq Commands
  BY DEF Commands
<1>2. ASSUME NEW t \in Asks, Claim(t) PROVE Held'
  BY <1>1, <1>2 DEF Claim, Goto, Write, Held, Types
<1>3. ASSUME NEW t \in Asks, Begin(t) PROVE Held'
  BY <1>1, <1>3 DEF Begin, Goto, Write, Held, Types
<1>4. ASSUME NEW t \in Asks, ApplyCompaction(t) PROVE Held'
  BY <1>4, SnapshotHolds DEF ApplyCompaction
<1>5. ASSUME NEW t \in Asks, Preflight(t) PROVE Held'
  <2>1. CASE TakeSnapshot(t, "reduce")
    BY <1>5, <2>1, SnapshotHolds DEF Preflight
  <2>2. CASE ~TakeSnapshot(t, "reduce")
    BY <1>1, <1>5, <2>2 DEF Preflight, Goto, Held, Types
  <2> QED BY <2>1, <2>2
<1>6. ASSUME NEW t \in Asks, Replace(t) PROVE Held'
  BY <1>1, <1>6 DEF Replace, Goto, Held, Types, Matched, Snapshot
<1>7. ASSUME NEW t \in Asks, DropOldestRound(t) PROVE Held'
  BY <1>7, RoundIsDropped DEF DropOldestRound, Held
<1>8. ASSUME NEW t \in Asks, Reduced(t) PROVE Held'
  BY <1>1, <1>8 DEF Reduced, Goto, Write, Held, Types
<1>9. ASSUME NEW t \in Asks, Answer(t) PROVE Held'
  BY <1>1, <1>9 DEF Answer, Goto, Write, Held, Types
<1>10. ASSUME NEW t \in Asks, RequestFails(t) PROVE Held'
  BY <1>1, <1>10 DEF RequestFails, Goto, Write, Held, Types
<1>11. ASSUME NEW t \in Asks, RunTool(t) PROVE Held'
  BY <1>1, <1>11 DEF RunTool, Goto, Write, Held, Types
<1>12. ASSUME NEW t \in Asks, Merge(t) PROVE Held'
  BY <1>1, <1>12 DEF Merge, Goto, Write, Held, Types
<1>13. ASSUME NEW t \in Asks, Weigh(t) PROVE Held'
  <2>1. CASE TakeSnapshot(t, "shrink")
    BY <1>13, <2>1, SnapshotHolds DEF Weigh
  <2>2. CASE ~TakeSnapshot(t, "shrink")
    BY <1>1, <1>13, <2>2 DEF Weigh, Goto, Held, Types
  <2> QED BY <2>1, <2>2
<1>14. ASSUME NEW t \in Asks, Scan(t) PROVE Held'
  BY <1>1, <1>14 DEF Scan, Goto, Write, Held, Types
<1>15. ASSUME NEW t \in Asks, Clean(t) PROVE Held'
  BY <1>1, <1>15 DEF Clean, Goto, Write, Held, Types
<1>16. ASSUME NEW t \in Asks, Finish(t) PROVE Held'
  BY <1>1, <1>16 DEF Finish, Goto, Write, Held, Types
<1>17. ASSUME NEW t \in Asks, GiveBack(t) PROVE Held'
  BY <1>1, <1>17 DEF GiveBack, Goto, Write, Held, Types
<1>18. ASSUME NEW t \in Relays, Relay(t) PROVE Held'
  BY <1>1, <1>18 DEF Relay, Goto, Write, Held, Types
<1>19. ASSUME NEW t \in Compacts, Compact(t) PROVE Held'
  BY <1>1, <1>19 DEF Compact, Goto, Write, Held, Types
<1>20. CASE UNCHANGED ctxVars
  BY <1>20 DEF ctxVars, Held
<1> QED
  BY <1>2, <1>3, <1>4, <1>5, <1>6, <1>7, <1>8, <1>9, <1>10, <1>11, <1>12, <1>13, <1>14,
     <1>15, <1>16, <1>17, <1>18, <1>19, <1>20 DEF CtxNext, AskStep

-----------------------------------------------------------------------------
(* The request that is to answer a question carries it.                    *)

LEMMA UserJoinsTheTurn ==
    ASSUME NEW list \in Seq(Message), NEW x \in Message, x.role = "user"
    PROVE  /\ InLastTurn(x, Append(list, x))
           /\ \A m : InLastTurn(m, list) => InLastTurn(m, Append(list, x))
<1> DEFINE longer == Append(list, x)
<1>1. /\ Len(longer) = Len(list) + 1 /\ Len(list) \in Nat
      /\ longer[Len(list) + 1] = x
      /\ \A i \in 1..Len(list) : longer[i] = list[i]
  OBVIOUS
<1> HIDE DEF longer
<1>2. InLastTurn(x, longer)
  BY <1>1 DEF InLastTurn
<1>3. ASSUME NEW m, InLastTurn(m, list)
      PROVE  InLastTurn(m, longer)
  <2>1. PICK p \in 1..Len(list) :
            list[p] = m /\ \A j \in p..Len(list) : list[j].role = "user"
    BY <1>3 DEF InLastTurn
  <2>2. \A j \in p..Len(longer) : longer[j].role = "user"
    <3> SUFFICES ASSUME NEW j \in p..Len(longer) PROVE longer[j].role = "user"
      OBVIOUS
    <3>1. CASE j = Len(list) + 1
      BY <1>1, <3>1
    <3>2. CASE j \in p..Len(list)
      BY <1>1, <2>1, <3>2
    <3> QED BY <1>1, <3>1, <3>2
  <2> QED BY <1>1, <2>1, <2>2 DEF InLastTurn
<1> QED BY <1>2, <1>3 DEF longer

LEMMA PlacesOfAConcatenation ==
    ASSUME NEW s \in Seq(Message), NEW r \in Seq(Message)
    PROVE  /\ Len(s \o r) = Len(s) + Len(r)
           /\ \A i \in 1..Len(s) : (s \o r)[i] = s[i]
           /\ \A i \in (Len(s) + 1)..(Len(s) + Len(r)) : (s \o r)[i] = r[i - Len(s)]
OBVIOUS

LEMMA QueueJoinsTheTurn ==
    ASSUME NEW list \in Seq(Message), NEW relays \in Seq(Relayed), NEW m, InLastTurn(m, list)
    PROVE  InLastTurn(m, list \o relays)
<1> DEFINE longer == list \o relays
<1>1. relays \in Seq(Message)
  <2>1. relays \in [1..Len(relays) -> Message] /\ Len(relays) \in Nat
    BY RelaysAreMessages
  <2> QED BY <2>1
<1>2. /\ Len(longer) = Len(list) + Len(relays)
      /\ Len(list) \in Nat /\ Len(relays) \in Nat
      /\ \A i \in 1..Len(list) : longer[i] = list[i]
      /\ \A i \in (Len(list) + 1)..(Len(list) + Len(relays)) : longer[i] = relays[i - Len(list)]
  BY <1>1
<1>3. \A i \in 1..Len(relays) : relays[i].role = "user"
  <2>1. \A i \in 1..Len(relays) : relays[i] \in Relayed
    OBVIOUS
  <2> QED BY <2>1 DEF Relayed, User
<1> HIDE DEF longer
<1>4. PICK p \in 1..Len(list) :
          list[p] = m /\ \A j \in p..Len(list) : list[j].role = "user"
  BY DEF InLastTurn
<1>5. \A j \in p..Len(longer) : longer[j].role = "user"
  <2> SUFFICES ASSUME NEW j \in p..Len(longer) PROVE longer[j].role = "user"
    OBVIOUS
  <2>1. CASE j \in p..Len(list)
    BY <1>2, <1>4, <2>1
  <2>2. CASE j > Len(list)
    <3>1. j - Len(list) \in 1..Len(relays) /\ longer[j] = relays[j - Len(list)]
      BY <1>2, <2>2
    <3> QED BY <1>3, <3>1
  <2> QED BY <1>2, <2>1, <2>2
<1>6. longer[p] = m /\ p \in 1..Len(longer)
  BY <1>2, <1>4
<1>7. InLastTurn(m, longer)
  BY <1>5, <1>6 DEF InLastTurn
<1> QED BY <1>7 DEF longer

\* A time reading stands in front of the turn's last message.
LEMMA TimeJoinsTheTurn ==
    ASSUME NEW list \in Seq(Message), NEW m, InLastTurn(m, list)
    PROVE  InLastTurn(m, TimeInserted(list))
<1>1. PICK p \in 1..Len(list) :
          list[p] = m /\ \A j \in p..Len(list) : list[j].role = "user"
  BY DEF InLastTurn
<1>2. Time \in Message /\ Time.role = "user"
  BY MessagesAreTyped DEF Time
<1>3. CASE TimeInserted(list) = Append(list, Time)
  BY <1>2, <1>3, UserJoinsTheTurn
<1>4. ASSUME NEW u \in 1..Len(list),
             \A j \in 1..Len(list) : list[j].role = "user" => j <= u,
             TimeInserted(list) = SubSeq(list, 1, u - 1) \o <<Time>> \o SubSeq(list, u, Len(list))
      PROVE  InLastTurn(m, TimeInserted(list))
  <2>1. u = Len(list)
    <3>1. Len(list) \in p..Len(list) /\ Len(list) \in 1..Len(list)
      OBVIOUS
    <3>2. Len(list) <= u
      BY <1>1, <1>4, <3>1
    <3> QED BY <3>2
  <2> DEFINE front == SubSeq(list, 1, u - 1)
             back  == SubSeq(list, u, Len(list))
             longer == front \o <<Time>> \o back
  <2>2. /\ front \in Seq(Message) /\ Len(front) = u - 1
        /\ \A i \in 1..(u - 1) : front[i] = list[i]
    OBVIOUS
  <2>3. back \in Seq(Message) /\ Len(back) = 1 /\ back[1] = list[u]
    BY <2>1
  <2> HIDE DEF front, back
  <2>4. /\ Len(longer) = u + 1
        /\ \A i \in 1..(u - 1) : longer[i] = list[i]
        /\ longer[u] = Time /\ longer[u + 1] = list[u]
    <3> DEFINE start == front \o <<Time>>
    <3>1. /\ start \in Seq(Message) /\ Len(start) = u /\ start[u] = Time
          /\ \A i \in 1..(u - 1) : start[i] = list[i]
      BY <1>2, <2>2
    <3> HIDE DEF start
    <3>2. /\ Len(start \o back) = Len(start) + Len(back)
          /\ \A i \in 1..Len(start) : (start \o back)[i] = start[i]
          /\ \A i \in (Len(start) + 1)..(Len(start) + Len(back)) :
                 (start \o back)[i] = back[i - Len(start)]
      BY <2>3, <3>1, PlacesOfAConcatenation
    <3>3. longer = start \o back
      BY DEF start
    <3>4. u \in 1..u /\ u + 1 \in (u + 1)..(u + 1) /\ (u + 1) - u = 1
      OBVIOUS
    <3> HIDE DEF longer
    <3>5. Len(longer) = u + 1 /\ longer[u] = Time /\ longer[u + 1] = list[u]
      BY <2>3, <3>1, <3>2, <3>3, <3>4
    <3>6. \A i \in 1..(u - 1) : longer[i] = list[i]
      BY <3>1, <3>2, <3>3
    <3> QED BY <3>5, <3>6
  <2> HIDE DEF longer
  <2>5. CASE p = u
    <3>1. longer[u + 1] = m /\ longer[u + 1].role = "user"
      BY <1>1, <2>1, <2>4, <2>5
    <3>2. u + 1 \in 1..Len(longer) /\ \A j \in (u + 1)..Len(longer) : j = u + 1
      BY <2>4
    <3> QED BY <1>4, <3>1, <3>2 DEF InLastTurn, longer, front, back
  <2>6. CASE p # u
    <3>1. p \in 1..(u - 1) /\ p \in 1..Len(longer) /\ longer[p] = m
      BY <1>1, <2>1, <2>4, <2>6
    <3>2. ASSUME NEW j \in p..Len(longer)
          PROVE  longer[j].role = "user"
      <4>1. CASE j \in p..(u - 1)
        BY <1>1, <2>1, <2>4, <4>1
      <4>2. CASE j = u
        BY <1>2, <2>4, <4>2
      <4>3. CASE j = u + 1
        BY <1>1, <2>1, <2>4, <4>3
      <4> QED BY <2>4, <4>1, <4>2, <4>3
    <3> QED BY <1>4, <3>1, <3>2 DEF InLastTurn, longer, front, back
  <2> QED BY <2>5, <2>6
<1> QED BY <1>3, <1>4, TimeGoesIn

LEMMA SummaryStandsInFront ==
    ASSUME NEW keep \in Seq(Message), NEW m, InLastTurn(m, keep)
    PROVE  InLastTurn(m, <<Summary>> \o keep)
<1> DEFINE longer == <<Summary>> \o keep
<1>1. /\ Len(longer) = Len(keep) + 1 /\ Len(keep) \in Nat
      /\ \A i \in 1..Len(keep) : longer[i + 1] = keep[i]
  BY MessagesAreTyped
<1> HIDE DEF longer
<1>2. PICK p \in 1..Len(keep) :
          keep[p] = m /\ \A j \in p..Len(keep) : keep[j].role = "user"
  BY DEF InLastTurn
<1>3. \A j \in (p + 1)..Len(longer) : longer[j].role = "user"
  <2> SUFFICES ASSUME NEW j \in (p + 1)..Len(longer) PROVE longer[j].role = "user"
    OBVIOUS
  <2>1. j - 1 \in p..Len(keep) /\ longer[(j - 1) + 1] = keep[j - 1]
    BY <1>1
  <2> QED BY <1>2, <2>1
<1>4. p + 1 \in 1..Len(longer) /\ longer[p + 1] = m
  BY <1>1, <1>2
<1>5. InLastTurn(m, longer)
  BY <1>3, <1>4 DEF InLastTurn
<1> QED BY <1>5 DEF longer

\* A question whose round did not run beside another's has the round to itself.
Alone == \A t \in InRound \ beside : \A u \in InRound : u = t

\* Until it is answered, its question stands in the last turn of the history, and of
\* what a compression is going to leave of it.
Asked ==
    \A t \in InRound \ beside : answers[t] = 0
        => /\ InLastTurn(User(t), responseList)
           /\ at[t] = "summary" => InLastTurn(User(t), snapshot[t].keep)

\* Only a claim begins a round.
LEMMA AloneKept ==
    ASSUME Types, Types', Alone, [CtxNext]_ctxVars
    PROVE  /\ Alone'
           /\ beside \subseteq beside'
           /\ \A t \in InRound' : t \in InRound \/ Claim(t)
<1>1. Asks \subseteq Commands /\ Relays \subseteq Commands /\ Compacts \subseteq Commands
  BY DEF Commands
<1>2. ASSUME NEW t \in Asks, Claim(t)
      PROVE  Alone' /\ beside \subseteq beside' /\ \A u \in InRound' : u = t \/ u \in InRound
  <2>1. \A u \in InRound' : u = t \/ u \in InRound
    BY <1>1, <1>2 DEF Claim, Goto, InRound, Types
  <2>2. InRound \in SUBSET Asks
    BY DEF InRound
  <2>3. CASE InRound = {}
    BY <1>2, <2>1, <2>3 DEF Claim, Alone
  <2>4. CASE InRound # {}
    <3>1. beside' = beside \cup InRound \cup {t}
      BY <1>2, <2>4 DEF Claim
    <3> QED BY <2>1, <3>1 DEF Alone
  <2> QED BY <2>1, <2>3, <2>4
<1>3. ASSUME InRound' \subseteq InRound, beside' = beside
      PROVE  Alone' /\ beside \subseteq beside' /\ \A u \in InRound' : u \in InRound
  BY <1>3 DEF Alone
<1>4. ASSUME NEW t \in Asks, Begin(t) PROVE InRound' \subseteq InRound /\ beside' = beside
  BY <1>1, <1>4 DEF Begin, Goto, InRound, Types
<1>5. ASSUME NEW t \in Asks, ApplyCompaction(t) PROVE InRound' \subseteq InRound /\ beside' = beside
  BY <1>1, <1>5 DEF ApplyCompaction, Goto, InRound, Types, TakeSnapshot
<1>6. ASSUME NEW t \in Asks, Preflight(t) PROVE InRound' \subseteq InRound /\ beside' = beside
  BY <1>1, <1>6 DEF Preflight, Goto, InRound, Types, TakeSnapshot
<1>7. ASSUME NEW t \in Asks, Replace(t) PROVE InRound' \subseteq InRound /\ beside' = beside
  BY <1>1, <1>7 DEF Replace, Goto, InRound, Types
<1>8. ASSUME NEW t \in Asks, DropOldestRound(t) PROVE InRound' \subseteq InRound /\ beside' = beside
  BY <1>1, <1>8 DEF DropOldestRound, Goto, InRound, Types
<1>9. ASSUME NEW t \in Asks, Reduced(t) PROVE InRound' \subseteq InRound /\ beside' = beside
  BY <1>1, <1>9 DEF Reduced, Goto, InRound, Types
<1>10. ASSUME NEW t \in Asks, Answer(t) PROVE InRound' \subseteq InRound /\ beside' = beside
  BY <1>1, <1>10 DEF Answer, Goto, InRound, Types
<1>11. ASSUME NEW t \in Asks, RequestFails(t) PROVE InRound' \subseteq InRound /\ beside' = beside
  BY <1>1, <1>11 DEF RequestFails, Goto, InRound, Types
<1>12. ASSUME NEW t \in Asks, RunTool(t) PROVE InRound' \subseteq InRound /\ beside' = beside
  BY <1>1, <1>12 DEF RunTool, Goto, InRound, Types
<1>13. ASSUME NEW t \in Asks, Merge(t) PROVE InRound' \subseteq InRound /\ beside' = beside
  BY <1>1, <1>13 DEF Merge, Goto, InRound, Types
<1>14. ASSUME NEW t \in Asks, Weigh(t) PROVE InRound' \subseteq InRound /\ beside' = beside
  BY <1>1, <1>14 DEF Weigh, Goto, InRound, Types, TakeSnapshot
<1>15. ASSUME NEW t \in Asks, Scan(t) PROVE InRound' \subseteq InRound /\ beside' = beside
  BY <1>1, <1>15 DEF Scan, Goto, InRound, Types
<1>16. ASSUME NEW t \in Asks, Clean(t) PROVE InRound' \subseteq InRound /\ beside' = beside
  BY <1>1, <1>16 DEF Clean, Goto, InRound, Types
<1>17. ASSUME NEW t \in Asks, Finish(t) PROVE InRound' \subseteq InRound /\ beside' = beside
  BY <1>1, <1>17 DEF Finish, Goto, InRound, Types
<1>18. ASSUME NEW t \in Asks, GiveBack(t) PROVE InRound' \subseteq InRound /\ beside' = beside
  BY <1>1, <1>18 DEF GiveBack, Goto, InRound, Types
<1>19. ASSUME NEW t \in Relays, Relay(t) PROVE InRound' \subseteq InRound /\ beside' = beside
  BY <1>1, <1>19 DEF Relay, Goto, InRound, Types
<1>20. ASSUME NEW t \in Compacts, Compact(t) PROVE InRound' \subseteq InRound /\ beside' = beside
  BY <1>1, <1>20 DEF Compact, Goto, InRound, Types
<1>21. ASSUME UNCHANGED ctxVars PROVE InRound' \subseteq InRound /\ beside' = beside
  BY <1>21 DEF ctxVars, InRound
<1> QED
  BY <1>2, <1>3, <1>4, <1>5, <1>6, <1>7, <1>8, <1>9, <1>10, <1>11, <1>12, <1>13, <1>14,
     <1>15, <1>16, <1>17, <1>18, <1>19, <1>20, <1>21 DEF CtxNext, AskStep

\* What a snapshot leaves holds the last turn.
LEMMA SnapshotKeepsTheTurn ==
    ASSUME Types, NEW t, NEW after, NEW m, InLastTurn(m, responseList),
           Cardinality(Opens(responseList)) > KEEP_ROUNDS
    PROVE  InLastTurn(m, Taken(t, after).keep)
<1>1. responseList \in Seq(Message) /\ KEEP_ROUNDS \in Nat \ {0}
  BY SomethingIsKept DEF Types
<1>2. KEEP_ROUNDS <= Cardinality(Opens(responseList))
  BY <1>1, OpensArePositions
<1>3. InLastTurn(m, Newest(responseList, KEEP_ROUNDS))
  BY <1>1, <1>2, CutKeepsTheLastTurn
<1> QED BY <1>3 DEF Taken

LEMMA AskedKept ==
    ASSUME Types, Types', Matched, Answered, Alone, Asked, [CtxNext]_ctxVars
    PROVE  Asked'
<1> SUFFICES ASSUME NEW u \in InRound', u \notin beside', answers'[u] = 0
             PROVE  /\ InLastTurn(User(u), responseList')
                    /\ at'[u] = "summary" => InLastTurn(User(u), snapshot'[u].keep)
  BY DEF Asked
<1> DEFINE Goal == /\ InLastTurn(User(u), responseList')
                   /\ at'[u] = "summary" => InLastTurn(User(u), snapshot'[u].keep)
<1>1. /\ u \in Asks /\ u \in Commands /\ u \notin beside
      /\ Asks \subseteq Commands /\ Relays \subseteq Commands /\ Compacts \subseteq Commands
  BY AloneKept DEF InRound, Commands
<1>2. /\ User(u) \in Message /\ User(u).role = "user"
      /\ responseList \in Seq(Message)
  BY <1>1, MessagesAreTyped DEF User, Types
<1>3. CASE Claim(u)
  <2>1. responseList' = Append(responseList, User(u)) /\ at'[u] = "start"
    BY <1>1, <1>3 DEF Claim, Write, Goto, Types
  <2> QED BY <1>2, <2>1, UserJoinsTheTurn
<1>4. CASE ~Claim(u)
  <2>1. u \in InRound /\ at[u] \notin {"idle", "giveBack", "done"} /\ \A v \in InRound : v = u
    BY <1>1, <1>4, AloneKept DEF Alone, InRound
  <2>2. answers[u] = 0 => /\ InLastTurn(User(u), responseList)
                          /\ at[u] = "summary" => InLastTurn(User(u), snapshot[u].keep)
    BY <1>1, <2>1 DEF Asked
  <2>3. answers[u] = 0 => /\ at[u] \notin Working
                          /\ at[u] = "summary" => snapshot[u].after # "shrink"
    BY <1>1 DEF Answered
  <2>4. ASSUME responseList' = responseList, snapshot' = snapshot, answers' = answers,
               at'[u] = at[u] \/ at'[u] # "summary"
        PROVE  Goal
    BY <2>2, <2>4
  <2>5. ASSUME NEW t \in Asks, at[t] \notin {"idle", "giveBack", "done"}
        PROVE  t = u
    BY <2>1, <2>5 DEF InRound
  <2>6. ASSUME NEW t \in Asks, Claim(t) PROVE Goal
    <3>1. t # u /\ beside' = beside \cup InRound \cup {t}
      BY <1>4, <2>1, <2>6 DEF Claim
    <3> QED BY <2>1, <3>1
  <2>7. ASSUME NEW t \in Asks, Begin(t) PROVE Goal
    <3>1. t = u /\ at'[u] = "preflight" /\ answers' = answers
      BY <1>1, <2>5, <2>7 DEF Begin, Goto, Types
    <3>2. InLastTurn(User(u), responseList \o responseQueue)
      BY <1>2, <2>2, <3>1, QueueJoinsTheTurn DEF Types
    <3>3. InLastTurn(User(u), TimeInserted(responseList \o responseQueue))
      BY <3>2, MergedIsTyped, TimeJoinsTheTurn
    <3>4. \/ responseList' = responseList
          \/ responseList' = responseList \o responseQueue
          \/ responseList' = TimeInserted(responseList \o responseQueue)
      BY <2>7 DEF Begin, Write
    <3> QED BY <2>2, <3>1, <3>2, <3>3, <3>4
  <2>8. ASSUME NEW t \in Asks, NEW after \in {"preflight", "reduce", "shrink"},
               TakeSnapshot(t, after), t = u, responseList' = responseList, answers' = answers,
               at[t] # "summary"
        PROVE  Goal
    <3>1. CASE at'[t] = after /\ snapshot' = snapshot
      BY <2>4, <2>8, <3>1
    <3>2. CASE /\ Cardinality(Opens(responseList)) > KEEP_ROUNDS
               /\ snapshot' = [snapshot EXCEPT ![t] = Taken(t, after)]
      <4>1. snapshot'[u] = Taken(t, after)
        BY <1>1, <2>8, <3>2 DEF Types
      <4>2. InLastTurn(User(u), Taken(t, after).keep)
        BY <2>2, <2>8, <3>2, SnapshotKeepsTheTurn
      <4> QED BY <2>2, <2>8, <4>1, <4>2
    <3> QED BY <2>8, <3>1, <3>2, TakingASnapshot
  <2>9. ASSUME NEW t \in Asks, ApplyCompaction(t) PROVE Goal
    BY <2>5, <2>8, <2>9 DEF ApplyCompaction
  <2>10. ASSUME NEW t \in Asks, Preflight(t) PROVE Goal
    <3>1. t = u
      BY <2>5, <2>10 DEF Preflight
    <3>2. CASE TakeSnapshot(t, "reduce")
      BY <2>8, <2>10, <3>1, <3>2 DEF Preflight
    <3>3. CASE ~TakeSnapshot(t, "reduce")
      BY <1>1, <2>4, <2>10, <3>1, <3>3 DEF Preflight, Goto, Types
    <3> QED BY <3>2, <3>3
  <2>11. ASSUME NEW t \in Asks, Replace(t) PROVE Goal
    <3>1. t = u /\ answers' = answers /\ at'[u] # "summary"
      BY <1>1, <2>5, <2>11 DEF Replace, Goto, Types, Matched, Snapshot
    <3>2. InLastTurn(User(u), snapshot[u].keep)
      BY <2>2, <2>11, <3>1 DEF Replace
    <3>3. CASE responseList' = responseList
      BY <2>2, <3>1, <3>3
    <3>4. CASE \E s \in BOOLEAN : responseList' = Compressed(t, s)
      <4>1. PICK s \in BOOLEAN : responseList' = Compressed(t, s)
        BY <3>4
      <4>2. snapshot[u].keep \in Seq(Message)
        BY <1>1 DEF Types, Snapshot
      <4>3. InLastTurn(User(u), <<Summary>> \o snapshot[u].keep)
        BY <3>2, <4>2, SummaryStandsInFront
      <4>4. << >> \o snapshot[u].keep = snapshot[u].keep
        BY <4>2
      <4> QED BY <3>1, <3>2, <4>1, <4>3, <4>4 DEF Compressed
    <3> QED BY <2>11, <3>3, <3>4 DEF Replace
  <2>12. ASSUME NEW t \in Asks, DropOldestRound(t) PROVE Goal
    <3>1. /\ t = u /\ answers' = answers /\ at' = at /\ at[u] # "summary"
          /\ Cardinality(Opens(responseList)) > 1
          /\ responseList' = Newest(responseList, Cardinality(Opens(responseList)) - 1)
      BY <2>5, <2>12 DEF DropOldestRound
    <3>2. Cardinality(Opens(responseList)) \in Nat
      BY <1>2, OpensArePositions
    <3>3. InLastTurn(User(u), responseList')
      BY <1>2, <2>2, <3>1, <3>2, CutKeepsTheLastTurn
    <3> QED BY <3>1, <3>3
  <2>13. ASSUME NEW t \in Asks, Reduced(t) PROVE Goal
    BY <1>1, <2>4, <2>5, <2>13 DEF Reduced, Goto, Types
  <2>14. ASSUME NEW t \in Asks, Answer(t) PROVE Goal
    <3>1. t = u /\ answers'[u] = answers[u] + 1 /\ answers[u] \in Nat
      <4>1. t = u
        BY <2>5, <2>14 DEF Answer
      <4>2. answers[u] \in 0..MaxReplies /\ MaxReplies \in Nat /\ u \in DOMAIN answers
        BY <1>1, SomethingIsKept DEF Types
      <4>3. answers' = [answers EXCEPT ![u] = @ + 1]
        BY <2>14, <4>1 DEF Answer
      <4> QED BY <4>1, <4>2, <4>3
    <3> QED BY <3>1
  <2>15. ASSUME NEW t \in Asks, RequestFails(t) PROVE Goal
    BY <1>1, <2>4, <2>5, <2>15 DEF RequestFails, Goto, Types
  <2>16. ASSUME NEW t \in Asks, RunTool(t) PROVE Goal
    BY <2>3, <2>5, <2>16 DEF RunTool, Working
  <2>17. ASSUME NEW t \in Asks, Merge(t) PROVE Goal
    BY <2>3, <2>5, <2>17 DEF Merge, Working
  <2>18. ASSUME NEW t \in Asks, Weigh(t) PROVE Goal
    BY <2>3, <2>5, <2>18 DEF Weigh, Working
  <2>19. ASSUME NEW t \in Asks, Scan(t) PROVE Goal
    BY <2>3, <2>5, <2>19 DEF Scan, Working
  <2>20. ASSUME NEW t \in Asks, Clean(t) PROVE Goal
    BY <2>3, <2>5, <2>20 DEF Clean, Working
  <2>21. ASSUME NEW t \in Asks, Finish(t) PROVE Goal
    BY <1>1, <2>4, <2>5, <2>21 DEF Finish, Goto, Types
  <2>22. ASSUME NEW t \in Asks, GiveBack(t) PROVE Goal
    BY <1>1, <2>1, <2>4, <2>22 DEF GiveBack, Goto, Types
  <2>23. ASSUME NEW t \in Relays, Relay(t) PROVE Goal
    <3>1. /\ at'[u] = at[u] /\ snapshot' = snapshot /\ answers' = answers
          /\ responseList' \in {responseList, Append(responseList, User(t))}
      BY <1>1, <2>1, <2>23 DEF Relay, Write, Goto, Types
    <3>2. User(t) \in Message /\ User(t).role = "user"
      BY <2>23, MessagesAreTyped DEF User
    <3> QED BY <1>2, <2>2, <3>1, <3>2, UserJoinsTheTurn
  <2>24. ASSUME NEW t \in Compacts, Compact(t) PROVE Goal
    BY <1>1, <2>1, <2>4, <2>24 DEF Compact, Goto, Types
  <2>25. CASE UNCHANGED ctxVars
    BY <2>4, <2>25 DEF ctxVars
  <2>26. Goal
    BY <2>6, <2>7, <2>9, <2>10, <2>11, <2>12, <2>13, <2>14, <2>15, <2>16, <2>17, <2>18,
       <2>19, <2>20, <2>21, <2>22, <2>23, <2>24, <2>25 DEF CtxNext, AskStep
  <2> QED BY <2>26
<1> QED BY <1>3, <1>4

-----------------------------------------------------------------------------
(* The theorems of a conversation's window.                                *)

CtxInv == Types /\ Matched /\ Answered /\ Held /\ Alone /\ Asked

LEMMA CtxInvHolds == CtxSpec => []CtxInv
<1>1. CtxInit => CtxInv
  <2> SUFFICES ASSUME CtxInit PROVE CtxInv
    OBVIOUS
  <2>1. Types
    <3>1. responseList \in Seq(Message)
      BY StoredIsTyped DEF CtxInit
    <3>2. timed \in BOOLEAN
      BY DEF CtxInit
    <3>3. snapshot \in [Asks -> Snapshot]
      BY DEF CtxInit, NoSnapshot, Snapshot
    <3>4. answers \in [Asks -> 0..MaxReplies]
      BY SomethingIsKept DEF CtxInit
    <3>5. at \in [Commands -> Places]
      BY DEF CtxInit, Places
    <3>6. responseQueue \in Seq(Relayed)
      BY DEF CtxInit
    <3>7. goOn \in [Asks -> BOOLEAN]
      BY DEF CtxInit
    <3>8. roundActive \in BOOLEAN /\ isStopped \in BOOLEAN /\ compaction \in BOOLEAN
      BY DEF CtxInit
    <3>9. outdated = {} /\ beside = {}
      BY DEF CtxInit
    <3> QED BY <3>1, <3>2, <3>3, <3>4, <3>5, <3>6, <3>7, <3>8, <3>9 DEF Types
  <2>2. \A t \in Asks : at[t] = "idle" /\ snapshot[t].after = "none"
    BY DEF CtxInit, Commands, NoSnapshot
  <2>3. outdated = {} /\ InRound = {}
    BY <2>2 DEF CtxInit, InRound
  <2>4. Matched /\ Answered /\ Held
    BY <2>2, <2>3 DEF Matched, Answered, Held, Working
  <2>5. Alone /\ Asked
    BY <2>3 DEF Alone, Asked
  <2> QED BY <2>1, <2>4, <2>5 DEF CtxInv
<1>2. CtxInv /\ [CtxNext]_ctxVars => CtxInv'
  BY TypesKept, MatchedKept, HeldKept, AloneKept, AskedKept DEF CtxInv
<1> QED BY <1>1, <1>2, PTL DEF CtxSpec

\* The window's state keeps its types: the history and every snapshot are lists of
\* messages, and who waits for a summary has a snapshot to come back from.
THEOREM WindowTypes == CtxSpec => []CtxTypeOK
<1>1. CtxInv => CtxTypeOK
  <2> SUFFICES ASSUME CtxInv PROVE CtxTypeOK
    OBVIOUS
  <2>1. Asks \subseteq Commands
    BY DEF Commands
  <2>2. \A t \in Asks : at[t] \in Places
    BY <2>1 DEF CtxInv, Types
  <2>3. \A t \in Asks : (at[t] = "summary") = (snapshot[t].after # "none")
    BY DEF CtxInv, Matched
  <2>4. outdated \subseteq {t \in Asks : at[t] = "summary"}
    BY DEF CtxInv, Types, Matched
  <2>5. responseQueue \in Seq({User(r) : r \in Relays})
    BY DEF CtxInv, Types, Relayed
  <2> QED BY <2>2, <2>3, <2>4, <2>5 DEF CtxTypeOK, CtxInv, Types, Places
<1> QED BY <1>1, CtxInvHolds, PTL

\* The request that is to answer a question carries it, however long the history,
\* whatever is compressed and reduced in front of it, and whoever's messages are
\* relayed into its turn.
THEOREM QuestionsAreAsked == CtxSpec => []QuestionIsAsked
<1>1. CtxInv => QuestionIsAsked
  <2> SUFFICES ASSUME CtxInv, NEW t \in Asks \ beside, at[t] = "wait", answers[t] = 0
               PROVE  User(t) \in Words(responseList)
    BY DEF QuestionIsAsked
  <2>1. t \in InRound
    BY DEF InRound
  <2>2. InLastTurn(User(t), responseList)
    BY <2>1 DEF CtxInv, Asked
  <2>3. User(t) # Summary /\ User(t) # Time
    BY NobodyIsTheClock DEF User, Summary, Time
  <2>4. DOMAIN responseList = 1..Len(responseList)
    BY DEF CtxInv, Types
  <2> QED BY <2>2, <2>3, <2>4 DEF InLastTurn, Words
<1> QED BY <1>1, CtxInvHolds, PTL

\* A thread that no longer waits for a summary has ended its compression.
LEMMA CompressionEnds ==
    ASSUME Types, CtxNext, NEW t \in Asks, at[t] = "summary", at'[t] # "summary"
    PROVE  Replace(t)
<1>1. Asks \subseteq Commands /\ Relays \subseteq Commands /\ Compacts \subseteq Commands
  BY DEF Commands
<1>2. ASSUME NEW u \in Commands, NEW l, Goto(u, l) \/ at' = at
      PROVE  u = t
  BY <1>1, <1>2 DEF Goto, Types
<1>3. ASSUME NEW u \in Asks, AskStep(u)
      PROVE  (\E l : Goto(u, l)) \/ at' = at
  BY <1>3 DEF AskStep, Claim, Begin, ApplyCompaction, Preflight, Replace, DropOldestRound,
              Reduced, Answer, RequestFails, RunTool, Merge, Weigh, Scan, Clean, Finish,
              GiveBack, TakeSnapshot
<1>4. ASSUME NEW u \in Asks, AskStep(u)
      PROVE  AskStep(t)
  BY <1>1, <1>2, <1>3, <1>4
<1>5. ASSUME NEW u \in Relays, Relay(u)
      PROVE  u = t
  BY <1>1, <1>2, <1>5 DEF Relay
<1>6. ASSUME NEW u \in Compacts, Compact(u)
      PROVE  u = t
  BY <1>1, <1>2, <1>6 DEF Compact
<1>7. AskStep(t)
  BY <1>4, <1>5, <1>6 DEF CtxNext, Relay, Compact
<1> QED
  BY <1>7 DEF AskStep, Claim, Begin, ApplyCompaction, Preflight, DropOldestRound, Reduced,
              Answer, RequestFails, RunTool, Merge, Weigh, Scan, Clean, Finish, GiveBack

\* A compression takes nothing out of the history but the rounds it summarized,
\* whoever writes to the history while the summary is requested.
THEOREM CompressionIsExact == CtxSpec => CompressionKeepsTheRest
<1> DEFINE Replacing == \A t \in Asks : at[t] = "summary" /\ at'[t] # "summary"
                           => Words(responseList) \ Words(snapshot[t].old) \subseteq Words(responseList')
<1>1. CtxInv /\ [CtxNext]_ctxVars => [Replacing]_ctxVars
  <2> SUFFICES ASSUME CtxInv, CtxNext, NEW t \in Asks, at[t] = "summary", at'[t] # "summary"
               PROVE  Words(responseList) \ Words(snapshot[t].old) \subseteq Words(responseList')
    OBVIOUS
  <2>1. Types /\ Held
    BY DEF CtxInv
  <2>2. Replace(t)
    BY <2>1, CompressionEnds
  <2>3. CASE t \in outdated
    BY <2>2, <2>3 DEF Replace
  <2>4. CASE t \notin outdated
    <3>1. PICK s \in BOOLEAN : responseList' = Compressed(t, s)
      BY <2>2, <2>4 DEF Replace
    <3>2. Words(responseList) \subseteq Words(snapshot[t].old) \cup Words(snapshot[t].keep)
      BY <2>1, <2>4 DEF Held
    <3>3. Words(snapshot[t].keep) \subseteq Words(Compressed(t, s))
      <4> DEFINE keep == snapshot[t].keep
      <4>1. keep \in Seq(Message) /\ << >> \in Seq(Message) /\ <<Summary>> \in Seq(Message)
        BY <2>1, MessagesAreTyped DEF Types, Snapshot
      <4>2. \A front \in Seq(Message) : Words(keep) \subseteq Words(front \o keep)
        <5> SUFFICES ASSUME NEW front \in Seq(Message)
                     PROVE  Words(keep) \subseteq Words(front \o keep)
          OBVIOUS
        <5> HIDE DEF keep
        <5>1. ASSUME NEW i \in DOMAIN keep
              PROVE  \E j \in DOMAIN (front \o keep) : (front \o keep)[j] = keep[i]
          <6>1. i + Len(front) \in (Len(front) + 1)..(Len(front) + Len(keep))
            BY <4>1
          <6>2. (front \o keep)[i + Len(front)] = keep[(i + Len(front)) - Len(front)]
            BY <4>1, <6>1, PlacesOfAConcatenation
          <6>3. i + Len(front) \in DOMAIN (front \o keep)
            BY <4>1, <6>1
          <6> QED BY <4>1, <6>2, <6>3
        <5> QED BY <5>1 DEF Words
      <4> QED BY <4>1, <4>2 DEF Compressed
    <3> QED BY <3>1, <3>2, <3>3
  <2> QED BY <2>3, <2>4
<1> QED BY <1>1, CtxInvHolds, PTL DEF CtxSpec, CompressionKeepsTheRest

-----------------------------------------------------------------------------
(* The newest questions live through a compression.                        *)

\* Directly behind a time reading stands a user message, so the turn a reading
\* stands in also holds a message somebody wrote.
TimeIsFollowed(list) ==
    \A i \in 1..Len(list) : list[i] = Time => i < Len(list) /\ list[i + 1].role = "user"

SomebodyWrote(list) == \E i \in 1..Len(list) : list[i].role = "user"

LEMMA MessagesHaveRoles ==
    \A m \in Message : m.role \in {"user", "system", "assistant", "tool"}
BY DEF Message, User, Time, Summary

LEMMA RelaysAreNoReadings ==
    \A m \in Relayed : m \in Message /\ m.role = "user" /\ m # Time
BY RelaysAreMessages, NobodyIsTheClock DEF Relayed, User, Time

\* A message at the end, which is no reading ...
LEMMA AppendKeepsTheTimes ==
    ASSUME NEW list \in Seq(Message), NEW x \in Message, x # Time
    PROVE  /\ TimeIsFollowed(list) => TimeIsFollowed(Append(list, x))
           /\ SomebodyWrote(list) => SomebodyWrote(Append(list, x))
           /\ x.role = "user" => SomebodyWrote(Append(list, x))
<1> DEFINE longer == Append(list, x)
<1>1. /\ Len(longer) = Len(list) + 1 /\ Len(list) \in Nat
      /\ longer[Len(list) + 1] = x
      /\ \A i \in 1..Len(list) : longer[i] = list[i]
  OBVIOUS
<1> HIDE DEF longer
<1>2. ASSUME TimeIsFollowed(list) PROVE TimeIsFollowed(longer)
  <2> SUFFICES ASSUME NEW i \in 1..Len(longer), longer[i] = Time
               PROVE  i < Len(longer) /\ longer[i + 1].role = "user"
    BY DEF TimeIsFollowed
  <2>1. i \in 1..Len(list)
    BY <1>1
  <2>2. i < Len(list) /\ list[i + 1].role = "user"
    BY <1>1, <1>2, <2>1 DEF TimeIsFollowed
  <2>3. i + 1 \in 1..Len(list)
    BY <1>1, <2>1, <2>2
  <2> QED BY <1>1, <2>1, <2>2, <2>3
<1>3. ASSUME SomebodyWrote(list) PROVE SomebodyWrote(longer)
  <2>1. PICK i \in 1..Len(list) : list[i].role = "user"
    BY <1>3 DEF SomebodyWrote
  <2> QED BY <1>1, <2>1 DEF SomebodyWrote
<1>4. ASSUME x.role = "user" PROVE SomebodyWrote(longer)
  <2>1. Len(list) + 1 \in 1..Len(longer)
    BY <1>1
  <2> QED BY <1>1, <1>4, <2>1 DEF SomebodyWrote
<1> QED BY <1>2, <1>3, <1>4 DEF longer

\* ... what was queued ...
LEMMA QueueKeepsTheTimes ==
    ASSUME NEW list \in Seq(Message), NEW relays \in Seq(Relayed)
    PROVE  /\ TimeIsFollowed(list) => TimeIsFollowed(list \o relays)
           /\ SomebodyWrote(list) => SomebodyWrote(list \o relays)
<1> DEFINE longer == list \o relays
<1>1. relays \in Seq(Message)
  <2>1. relays \in [1..Len(relays) -> Message] /\ Len(relays) \in Nat
    BY RelaysAreMessages
  <2> QED BY <2>1
<1>2. /\ Len(longer) = Len(list) + Len(relays)
      /\ Len(list) \in Nat /\ Len(relays) \in Nat
      /\ \A i \in 1..Len(list) : longer[i] = list[i]
      /\ \A i \in (Len(list) + 1)..(Len(list) + Len(relays)) : longer[i] = relays[i - Len(list)]
  BY <1>1
<1>3. \A i \in 1..Len(relays) : relays[i] # Time
  <2>1. \A i \in 1..Len(relays) : relays[i] \in Relayed
    OBVIOUS
  <2> QED BY <2>1, RelaysAreNoReadings
<1> HIDE DEF longer
<1>4. ASSUME TimeIsFollowed(list) PROVE TimeIsFollowed(longer)
  <2> SUFFICES ASSUME NEW i \in 1..Len(longer), longer[i] = Time
               PROVE  i < Len(longer) /\ longer[i + 1].role = "user"
    BY DEF TimeIsFollowed
  <2>1. i \in 1..Len(list)
    <3> SUFFICES ASSUME i \notin 1..Len(list) PROVE FALSE
      OBVIOUS
    <3>1. i \in (Len(list) + 1)..(Len(list) + Len(relays)) /\ i - Len(list) \in 1..Len(relays)
      BY <1>2
    <3> QED BY <1>2, <1>3, <3>1
  <2>2. i < Len(list) /\ list[i + 1].role = "user"
    BY <1>2, <1>4, <2>1 DEF TimeIsFollowed
  <2>3. i + 1 \in 1..Len(list) /\ i < Len(longer)
    BY <1>2, <2>1, <2>2
  <2> QED BY <1>2, <2>2, <2>3
<1>5. ASSUME SomebodyWrote(list) PROVE SomebodyWrote(longer)
  <2>1. PICK i \in 1..Len(list) : list[i].role = "user"
    BY <1>5 DEF SomebodyWrote
  <2>2. i \in 1..Len(longer) /\ longer[i] = list[i]
    BY <1>2
  <2> QED BY <2>1, <2>2 DEF SomebodyWrote
<1> QED BY <1>4, <1>5 DEF longer

\* ... a reading, which goes in front of a user message where there is one ...
LEMMA ReadingKeepsTheTimes ==
    ASSUME NEW list \in Seq(Message), TimeIsFollowed(list), SomebodyWrote(list)
    PROVE  TimeIsFollowed(TimeInserted(list)) /\ SomebodyWrote(TimeInserted(list))
<1>1. PICK u \in 1..Len(list) :
          /\ list[u].role = "user"
          /\ TimeInserted(list) = SubSeq(list, 1, u - 1) \o <<Time>> \o SubSeq(list, u, Len(list))
  <2> DEFINE users == {i \in DOMAIN list : list[i].role = "user"}
  <2>1. users # {} /\ users \in SUBSET (1..Len(list)) /\ Len(list) \in Nat
    BY DEF SomebodyWrote
  <2>2. Max(users) \in users
    <3> HIDE DEF users
    <3> QED BY <2>1, MaxOfPositions
  <2>3. TimeInserted(list) = SubSeq(list, 1, Max(users) - 1) \o <<Time>>
                                \o SubSeq(list, Max(users), Len(list))
    BY <2>1 DEF TimeInserted, InsertAt
  <2>4. Max(users) \in 1..Len(list) /\ list[Max(users)].role = "user"
    BY <2>2
  <2> HIDE DEF users
  <2> QED BY <2>3, <2>4
<1> DEFINE front == SubSeq(list, 1, u - 1)
           back  == SubSeq(list, u, Len(list))
           longer == front \o <<Time>> \o back
<1>2. /\ front \in Seq(Message) /\ Len(front) = u - 1
      /\ \A i \in 1..(u - 1) : front[i] = list[i]
  OBVIOUS
<1>3. /\ back \in Seq(Message) /\ Len(back) = Len(list) - u + 1
      /\ \A i \in 1..(Len(list) - u + 1) : back[i] = list[i + u - 1]
  OBVIOUS
<1> HIDE DEF front, back
<1>4. /\ Len(longer) = Len(list) + 1 /\ longer[u] = Time
      /\ \A i \in 1..(u - 1) : longer[i] = list[i]
      /\ \A i \in (u + 1)..(Len(list) + 1) : longer[i] = list[i - 1]
  <2> DEFINE start == front \o <<Time>>
  <2>1. /\ start \in Seq(Message) /\ Len(start) = u /\ start[u] = Time
        /\ \A i \in 1..(u - 1) : start[i] = list[i]
    BY <1>2, MessagesAreTyped
  <2> HIDE DEF start
  <2>2. /\ Len(start \o back) = Len(start) + Len(back)
        /\ \A i \in 1..Len(start) : (start \o back)[i] = start[i]
        /\ \A i \in (Len(start) + 1)..(Len(start) + Len(back)) :
               (start \o back)[i] = back[i - Len(start)]
    BY <1>3, <2>1, PlacesOfAConcatenation
  <2>3. longer = start \o back
    BY DEF start
  <2> HIDE DEF longer
  <2>4. Len(longer) = Len(list) + 1 /\ longer[u] = Time
    BY <1>3, <2>1, <2>2, <2>3
  <2>5. \A i \in 1..(u - 1) : longer[i] = list[i]
    BY <2>1, <2>2, <2>3
  <2>6. ASSUME NEW i \in (u + 1)..(Len(list) + 1) PROVE longer[i] = list[i - 1]
    <3>1. i \in (Len(start) + 1)..(Len(start) + Len(back)) /\ i - u \in 1..(Len(list) - u + 1)
      BY <1>3, <2>1
    <3>2. longer[i] = back[i - u] /\ back[i - u] = list[(i - u) + u - 1]
      BY <1>3, <2>1, <2>2, <2>3, <3>1
    <3>3. (i - u) + u - 1 = i - 1
      OBVIOUS
    <3> QED BY <3>2, <3>3
  <2> QED BY <2>4, <2>5, <2>6
<1> HIDE DEF longer
<1>5. Time.role = "user" /\ Len(list) \in Nat
  BY DEF Time
<1>6. TimeIsFollowed(longer)
  <2> SUFFICES ASSUME NEW i \in 1..Len(longer), longer[i] = Time
               PROVE  i < Len(longer) /\ longer[i + 1].role = "user"
    BY DEF TimeIsFollowed
  <2>1. CASE i < u
    <3>1. i \in 1..Len(list) /\ i \in 1..(u - 1) /\ list[i] = Time
      BY <1>4, <2>1
    <3>2. list[i + 1].role = "user"
      BY <3>1 DEF TimeIsFollowed
    <3>3. CASE i + 1 = u
      BY <1>4, <1>5, <2>1, <3>3
    <3>4. CASE i + 1 # u
      <4>1. i + 1 \in 1..(u - 1) /\ i < Len(longer)
        BY <1>4, <2>1, <3>4
      <4> QED BY <1>4, <3>2, <4>1
    <3> QED BY <3>3, <3>4
  <2>2. CASE i = u
    <3>1. u + 1 \in (u + 1)..(Len(list) + 1) /\ (u + 1) - 1 = u /\ u < Len(longer)
      BY <1>4
    <3>2. longer[u + 1] = list[u]
      BY <1>4, <3>1
    <3> QED BY <1>1, <2>2, <3>1, <3>2
  <2>3. CASE i > u
    <3>1. i \in (u + 1)..(Len(list) + 1) /\ i - 1 \in 1..Len(list)
      BY <1>4, <2>3
    <3>2. list[i - 1] = Time
      BY <1>4, <3>1
    <3>3. i - 1 < Len(list) /\ list[(i - 1) + 1].role = "user"
      BY <3>1, <3>2 DEF TimeIsFollowed
    <3>4. i + 1 \in (u + 1)..(Len(list) + 1) /\ (i + 1) - 1 = (i - 1) + 1 /\ i < Len(longer)
      BY <1>4, <3>1, <3>3
    <3>5. longer[i + 1] = list[(i + 1) - 1]
      BY <1>4, <3>4
    <3> QED BY <3>3, <3>4, <3>5
  <2> QED BY <2>1, <2>2, <2>3
<1>7. SomebodyWrote(longer)
  <2>1. u \in 1..Len(longer)
    BY <1>4
  <2> QED BY <1>4, <1>5, <2>1 DEF SomebodyWrote
<1> QED BY <1>1, <1>6, <1>7 DEF longer, front, back

\* ... a cut, behind which there is a user message where another round begins in
\* front of it ...
LEMMA CutKeepsTheTimes ==
    ASSUME NEW list \in Seq(Message), NEW n \in Nat \ {0}, n <= Cardinality(Opens(list)),
           TimeIsFollowed(list)
    PROVE  /\ TimeIsFollowed(Newest(list, n))
           /\ Cardinality(Opens(list)) > 1 => SomebodyWrote(Newest(list, n))
<1> DEFINE c == NewestFrom(list, n)
           keep == SubSeq(list, c, Len(list))
<1>1. c \in 1..Len(list) /\ \E i \in Opens(list) : c <= i
  BY CutIsInside
<1> HIDE DEF c
<1>2. /\ Len(keep) = Len(list) - c + 1 /\ Len(list) \in Nat
      /\ \A k \in 1..(Len(list) - c + 1) : keep[k] = list[k + c - 1]
  BY <1>1
<1> HIDE DEF keep
<1>3. TimeIsFollowed(keep)
  <2> SUFFICES ASSUME NEW i \in 1..Len(keep), keep[i] = Time
               PROVE  i < Len(keep) /\ keep[i + 1].role = "user"
    BY DEF TimeIsFollowed
  <2>1. i + c - 1 \in 1..Len(list) /\ list[i + c - 1] = Time
    BY <1>1, <1>2
  <2>2. i + c - 1 < Len(list) /\ list[(i + c - 1) + 1].role = "user"
    BY <2>1 DEF TimeIsFollowed
  <2>3. i + 1 \in 1..(Len(list) - c + 1) /\ (i + 1) + c - 1 = (i + c - 1) + 1 /\ i < Len(keep)
    <3>1. i \in Nat \ {0} /\ c \in Nat \ {0}
      BY <1>1
    <3>2. Len(list) \in Nat /\ Len(keep) = Len(list) - c + 1
      BY <1>2
    <3> HIDE DEF keep
    <3>3. i + 1 \in 1..(Len(list) - c + 1)
      BY <2>2, <3>1, <3>2
    <3>4. (i + 1) + c - 1 = (i + c - 1) + 1
      BY <3>1
    <3>5. i < Len(keep)
      BY <2>2, <3>1, <3>2
    <3> QED BY <3>3, <3>4, <3>5
  <2>4. keep[i + 1] = list[(i + 1) + c - 1]
    BY <1>2, <2>3
  <2> QED BY <2>2, <2>3, <2>4
<1>4. ASSUME Cardinality(Opens(list)) > 1 PROVE SomebodyWrote(keep)
  <2>1. PICK o \in Opens(list) : c <= o
    BY <1>1
  <2>2. Opens(list) \in SUBSET (1..Len(list)) /\ Opens(list) # {}
    BY <2>1, OpensArePositions
  <2>3. /\ Max(Opens(list)) \in Opens(list)
        /\ \A k \in Opens(list) : k <= Max(Opens(list))
    BY <1>2, <2>2, MaxOfPositions
  <2>4. PICK g \in Opens(list) : \A k \in Opens(list) : k <= g
    BY <2>3
  <2>5. PICK e \in Opens(list) : e # g
    <3> SUFFICES ASSUME \A e \in Opens(list) : e = g PROVE FALSE
      OBVIOUS
    <3>1. Opens(list) = {g}
      BY <2>4
    <3>2. Cardinality({g}) = 1
      BY FS_Singleton
    <3>3. Cardinality(Opens(list)) = 1
      BY <3>1, <3>2, Zenon
    <3> QED BY <1>4, <3>3
  <2>6. g \in 1..Len(list) /\ e \in 1..Len(list) /\ e < g /\ c <= g
    BY <1>1, <2>1, <2>2, <2>4, <2>5
  <2>7. list[e].role # "system"
    BY <2>5 DEF Opens
  <2>8. e \in 1..(g - 1)
    BY <2>6
  <2>9. list[g].role = "user"
    BY <2>4, <2>7, <2>8 DEF Opens
  <2>10. g - c + 1 \in 1..(Len(list) - c + 1) /\ (g - c + 1) + c - 1 = g
    BY <1>1, <1>2, <2>6
  <2>11. keep[g - c + 1] = list[(g - c + 1) + c - 1]
    BY <1>2, <2>10
  <2>12. keep[g - c + 1].role = "user" /\ g - c + 1 \in 1..Len(keep)
    BY <1>2, <2>9, <2>10, <2>11
  <2> QED BY <2>12 DEF SomebodyWrote
<1> QED BY <1>3, <1>4 DEF keep, c, Newest

\* ... and a summary in front.
LEMMA SummaryKeepsTheTimes ==
    ASSUME NEW keep \in Seq(Message)
    PROVE  /\ TimeIsFollowed(keep) => TimeIsFollowed(<<Summary>> \o keep)
           /\ SomebodyWrote(keep) => SomebodyWrote(<<Summary>> \o keep)
<1> DEFINE longer == <<Summary>> \o keep
<1>1. /\ Len(longer) = Len(keep) + 1 /\ Len(keep) \in Nat
      /\ longer[1] = Summary
      /\ \A i \in 1..Len(keep) : longer[i + 1] = keep[i]
  BY MessagesAreTyped
<1>2. Summary # Time
  BY DEF Summary, Time
<1> HIDE DEF longer
<1>3. ASSUME TimeIsFollowed(keep) PROVE TimeIsFollowed(longer)
  <2> SUFFICES ASSUME NEW i \in 1..Len(longer), longer[i] = Time
               PROVE  i < Len(longer) /\ longer[i + 1].role = "user"
    BY DEF TimeIsFollowed
  <2>1. i - 1 \in 1..Len(keep) /\ (i - 1) + 1 = i
    BY <1>1, <1>2
  <2>2. keep[i - 1] = Time
    BY <1>1, <2>1
  <2>3. i - 1 < Len(keep) /\ keep[(i - 1) + 1].role = "user"
    BY <1>3, <2>1, <2>2 DEF TimeIsFollowed
  <2>4. i \in 1..Len(keep) /\ keep[i].role = "user"
    BY <1>1, <2>1, <2>3
  <2>5. longer[i + 1] = keep[i] /\ i < Len(longer)
    BY <1>1, <2>4
  <2> QED BY <2>4, <2>5
<1>4. ASSUME SomebodyWrote(keep) PROVE SomebodyWrote(longer)
  <2>1. PICK i \in 1..Len(keep) : keep[i].role = "user"
    BY <1>4 DEF SomebodyWrote
  <2>2. i + 1 \in 1..Len(longer) /\ longer[i + 1] = keep[i]
    BY <1>1
  <2> QED BY <2>1, <2>2 DEF SomebodyWrote
<1> QED BY <1>3, <1>4 DEF longer

\* _validate_sequence takes tool calls and tool results away, so whatever stands
\* behind a time reading stays there.
LEMMA RankOfKept ==
    ASSUME NEW n \in Nat, NEW kept \in SUBSET (1..n), NEW j \in kept
    PROVE  /\ IsFiniteSet(kept) /\ Cardinality(kept) \in Nat
           /\ Cardinality({i \in kept : i <= j}) \in 1..Cardinality(kept)
           /\ \A x \in kept : x > j =>
                  Cardinality({i \in kept : i <= x}) > Cardinality({i \in kept : i <= j})
           /\ j + 1 \in kept => Cardinality({i \in kept : i <= j + 1})
                                  = Cardinality({i \in kept : i <= j}) + 1
           /\ Max({x \in kept : Cardinality({i \in kept : i <= x})
                                  <= Cardinality({i \in kept : i <= j})}) = j
<1> DEFINE upTo(x) == {i \in kept : i <= x}
           rank(x) == Cardinality(upTo(x))
<1>1. IsFiniteSet(kept) /\ Cardinality(kept) \in Nat
  <2>1. IsFiniteSet(1..n)
    BY FS_Interval
  <2> QED BY <2>1, FS_Subset, FS_CardinalityType
<1>2. ASSUME NEW x PROVE IsFiniteSet(upTo(x)) /\ rank(x) \in Nat /\ rank(x) <= Cardinality(kept)
  <2>1. upTo(x) \in SUBSET kept
    OBVIOUS
  <2> HIDE DEF upTo
  <2> QED BY <1>1, <2>1, FS_Subset, FS_CardinalityType
<1>3. rank(j) \in 1..Cardinality(kept)
  <2>1. j \in upTo(j)
    OBVIOUS
  <2> HIDE DEF upTo
  <2>2. rank(j) # 0
    BY <1>2, <2>1, FS_EmptySet
  <2> QED BY <1>1, <1>2, <2>2
<1>4. ASSUME NEW x \in kept, x > j PROVE rank(x) > rank(j)
  <2>1. x \notin upTo(j) /\ upTo(j) \cup {x} \in SUBSET upTo(x)
    <3>1. ~(x <= j) /\ x <= x /\ \A i \in kept : i <= j => i <= x
      BY <1>4
    <3> QED BY <3>1
  <2> HIDE DEF upTo
  <2>2. Cardinality(upTo(j) \cup {x}) = rank(j) + 1
    BY <1>2, <2>1, FS_AddElement
  <2>3. Cardinality(upTo(j) \cup {x}) <= rank(x)
    BY <1>2, <2>1, FS_Subset
  <2>4. rank(j) \in Nat /\ rank(x) \in Nat
    BY <1>2
  <2> QED BY <2>2, <2>3, <2>4
<1>5. ASSUME j + 1 \in kept PROVE rank(j + 1) = rank(j) + 1
  <2>1. j + 1 \notin upTo(j) /\ upTo(j + 1) = upTo(j) \cup {j + 1}
    <3>1. ~(j + 1 <= j) /\ \A i \in kept : i <= j + 1 <=> i <= j \/ i = j + 1
      OBVIOUS
    <3> QED BY <1>5, <3>1
  <2> HIDE DEF upTo
  <2> QED BY <1>2, <2>1, FS_AddElement
<1> DEFINE low == {x \in kept : rank(x) <= rank(j)}
<1>6. Max(low) = j
  <2>1. j \in low /\ low \in SUBSET (1..n)
    <3>1. rank(j) <= rank(j)
      BY <1>3
    <3> HIDE DEF rank
    <3> QED BY <3>1
  <2>2. \A x \in low : x <= j
    <3> SUFFICES ASSUME NEW x \in kept, rank(x) <= rank(j) PROVE x <= j
      BY DEF low
    <3>1. x > j => rank(x) > rank(j)
      BY <1>4
    <3>2. rank(x) \in Nat /\ rank(j) \in Nat /\ x \in Nat /\ j \in Nat
      BY <1>2
    <3> HIDE DEF rank
    <3> QED BY <3>1, <3>2
  <2> HIDE DEF low
  <2>3. Max(low) \in low /\ \A x \in low : x <= Max(low)
    BY <2>1, MaxOfPositions
  <2>4. Max(low) <= j /\ j <= Max(low) /\ Max(low) \in 1..n
    BY <2>1, <2>2, <2>3
  <2> QED BY <2>4
<1> QED BY <1>1, <1>3, <1>4, <1>5, <1>6

LEMMA ValidationKeepsTheTimes ==
    ASSUME NEW list \in Seq(Message), TimeIsFollowed(list)
    PROVE  /\ TimeIsFollowed(Validated(list))
           /\ SomebodyWrote(list) => SomebodyWrote(Validated(list))
<1> DEFINE called(i) == list[i].role = "assistant" /\ list[i].calls
           answered(i) == i < Len(list) /\ list[i + 1] = Tool(list[i].to, list[i].nth)
           keeps(j) == CASE called(j) -> answered(j)
                         [] list[j].role = "tool" ->
                                \E i \in 1..(j - 1) : /\ called(i) /\ answered(i)
                                                      /\ list[i].to = list[j].to
                                                      /\ list[i].nth = list[j].nth
                         [] OTHER -> TRUE
           kept == {j \in DOMAIN list : keeps(j)}
           rank(j) == Cardinality({i \in kept : i <= j})
           place(k) == Max({j \in kept : rank(j) <= k})
<1>1. kept \in SUBSET (1..Len(list)) /\ Len(list) \in Nat
  <2> HIDE DEF keeps
  <2> QED OBVIOUS
<1>2. Validated(list) = [k \in 1..Cardinality(kept) |-> list[place(k)]]
  BY DEF Validated
<1>3. ASSUME NEW j \in 1..Len(list), list[j].role = "user" PROVE j \in kept
  <2>1. keeps(j) = TRUE
    BY <1>3
  <2> HIDE DEF keeps
  <2> QED BY <2>1
<1> HIDE DEF kept
<1>4. Cardinality(kept) \in Nat
  <2>1. IsFiniteSet(1..Len(list))
    BY FS_Interval
  <2> QED BY <1>1, <2>1, FS_Subset, FS_CardinalityType
<1>5. Len(Validated(list)) = Cardinality(kept)
  <2> HIDE DEF place
  <2> QED BY <1>2, <1>4
<1>6. ASSUME NEW k \in 1..Cardinality(kept) PROVE Validated(list)[k] = list[place(k)]
  <2> HIDE DEF place
  <2> QED BY <1>2
<1>7. ASSUME NEW j \in kept
      PROVE  /\ rank(j) \in 1..Cardinality(kept) /\ place(rank(j)) = j
             /\ \A x \in kept : x > j => rank(x) > rank(j)
             /\ j + 1 \in kept => rank(j + 1) = rank(j) + 1
  BY <1>1, RankOfKept
<1>8. ASSUME NEW k \in 1..Cardinality(kept)
      PROVE  /\ place(k) \in kept /\ rank(place(k)) <= k
             /\ \A x \in kept : rank(x) <= k => x <= place(k)
  <2> DEFINE low == {j \in kept : rank(j) <= k}
  <2>1. kept # {}
    <3>1. Cardinality({}) = 0 /\ Cardinality(kept) # 0
      BY <1>4, FS_EmptySet
    <3> QED BY <3>1
  <2>2. PICK m \in kept : \A i \in kept : m <= i
    BY <1>1, <2>1, LeastPosition
  <2>3. {i \in kept : i <= m} = {m}
    <3>1. (\A i \in kept : i <= m => i = m) /\ m <= m
      BY <1>1, <2>2
    <3> QED BY <3>1
  <2>4. Cardinality({m}) = 1
    BY FS_Singleton
  <2>5. rank(m) <= k
    <3>1. \A c : c = 1 => c <= k
      BY <1>4
    <3> QED BY <2>3, <2>4, <3>1, Zenon
  <2>6. m \in low /\ low \in SUBSET (1..Len(list))
    <3> HIDE DEF rank
    <3> QED BY <1>1, <2>5
  <2> HIDE DEF low
  <2>7. Max(low) \in low /\ \A x \in low : x <= Max(low)
    BY <1>1, <2>6, MaxOfPositions
  <2> HIDE DEF rank
  <2> QED BY <2>7 DEF low
<1> HIDE DEF rank, place
<1>9. TimeIsFollowed(Validated(list))
  <2> SUFFICES ASSUME NEW k \in 1..Len(Validated(list)), Validated(list)[k] = Time
               PROVE  k < Len(Validated(list)) /\ Validated(list)[k + 1].role = "user"
    BY DEF TimeIsFollowed
  <2>1. k \in 1..Cardinality(kept)
    BY <1>5
  <2>2. PICK j \in kept : j = place(k)
    BY <1>8, <2>1
  <2>3. list[j] = Time /\ j \in 1..Len(list)
    BY <1>1, <1>6, <2>1, <2>2
  <2>4. j < Len(list) /\ list[j + 1].role = "user"
    BY <2>3 DEF TimeIsFollowed
  <2>5. j + 1 \in 1..Len(list)
    BY <1>1, <2>3, <2>4
  <2>6. j + 1 \in kept
    BY <1>3, <2>4, <2>5
  <2>7. /\ rank(j) \in 1..Cardinality(kept) /\ rank(j + 1) = rank(j) + 1
        /\ rank(j + 1) \in 1..Cardinality(kept) /\ place(rank(j + 1)) = j + 1
    BY <1>7, <2>6
  <2>8. rank(j) <= k
    BY <1>8, <2>1, <2>2
  <2>9. ~(rank(j + 1) <= k)
    <3>1. rank(j + 1) <= k => j + 1 <= j
      BY <1>8, <2>1, <2>2, <2>6
    <3> QED BY <2>3, <3>1
  <2>10. rank(j + 1) = k + 1 /\ k + 1 \in 1..Cardinality(kept)
    BY <2>1, <2>7, <2>8, <2>9
  <2>11. Validated(list)[k + 1] = list[j + 1]
    BY <1>6, <2>7, <2>10
  <2>12. k < Cardinality(kept)
    BY <1>4, <2>1, <2>10
  <2> QED BY <1>5, <2>4, <2>11, <2>12
<1>10. ASSUME SomebodyWrote(list) PROVE SomebodyWrote(Validated(list))
  <2>1. PICK j \in 1..Len(list) : list[j].role = "user"
    BY <1>10 DEF SomebodyWrote
  <2>2. j \in kept
    BY <1>3, <2>1
  <2>3. rank(j) \in 1..Cardinality(kept) /\ place(rank(j)) = j
    BY <1>7, <2>2
  <2>4. Validated(list)[rank(j)].role = "user" /\ rank(j) \in 1..Len(Validated(list))
    BY <1>5, <1>6, <2>1, <2>3
  <2> QED BY <2>4 DEF SomebodyWrote
<1> QED BY <1>9, <1>10

\* A history holds as many questions behind a position as rounds begin behind it:
\* every turn that begins there has a question of its own.  So the newest n
\* questions stand in the newest n rounds.
LEMMA CutKeepsTheNewestQuestions ==
    ASSUME NEW list \in Seq(Message), NEW n \in Nat \ {0}, n <= Cardinality(Opens(list)),
           TimeIsFollowed(list), NEW i \in NewestQuestions(list, n)
    PROVE  NewestFrom(list, n) <= i
<1> DEFINE opens == Opens(list)
           firsts == {o \in opens : Cardinality({j \in opens : j >= o}) >= n}
           first == Max(firsts)
           starts == {j \in 1..first : j = 1 \/ list[j - 1].role # "system"}
           behind == {j \in (i + 1)..Len(list) : IsQuestion(list[j])}
<1>1. /\ opens \in SUBSET (1..Len(list)) /\ Len(list) \in Nat
      /\ IsFiniteSet(opens) /\ Cardinality(opens) \in Nat
  BY OpensArePositions
<1>2. i \in 1..Len(list) /\ list[i].role = "user" /\ Cardinality(behind) < n
  BY DEF NewestQuestions, IsQuestion
<1>3. firsts # {} /\ firsts \in SUBSET (1..Len(list))
  <2>1. opens # {}
    <3>1. Cardinality({}) = 0
      BY FS_EmptySet
    <3>2. opens = {} => Cardinality(opens) = 0
      <4> HIDE DEF opens, first
      <4> QED BY <3>1
    <3>3. Cardinality(opens) # 0
      <4> HIDE DEF first
      <4> QED BY <1>1
    <3> QED BY <3>2, <3>3
  <2>2. PICK m \in opens : \A k \in opens : m <= k
    <3> HIDE DEF opens
    <3> QED BY <1>1, <2>1, LeastPosition
  <2>3. {j \in opens : j >= m} = opens
    <3> HIDE DEF opens
    <3>1. \A j \in opens : j >= m
      BY <1>1, <2>2
    <3> QED BY <3>1
  <2>4. Cardinality({j \in opens : j >= m}) >= n
    BY <2>3
  <2> HIDE DEF opens
  <2> QED BY <1>1, <2>2, <2>4
<1>4. first \in opens /\ Cardinality({j \in opens : j >= first}) >= n
  <2>1. first \in firsts
    <3> HIDE DEF firsts
    <3> QED BY <1>1, <1>3, MaxOfPositions
  <2> HIDE DEF opens
  <2> QED BY <2>1
<1>5. NewestFrom(list, n) \in 1..first
  <2>1. starts \in SUBSET (1..first) /\ first \in Nat /\ 1 \in starts
    <3>1. first \in 1..Len(list)
      BY <1>1, <1>4
    <3> HIDE DEF first
    <3> QED BY <1>1, <3>1
  <2>2. Max(starts) \in starts
    <3> HIDE DEF starts
    <3> QED BY <2>1, MaxOfPositions
  <2>3. Max(starts) = NewestFrom(list, n)
    BY DEF NewestFrom
  <2> HIDE DEF starts
  <2> QED BY <2>1, <2>2, <2>3
<1> HIDE DEF first, firsts, starts
<1> SUFFICES ASSUME first > i PROVE FALSE
  <2>1. first \in 1..Len(list) /\ NewestFrom(list, n) \in 1..first
    BY <1>1, <1>4, <1>5
  <2>2. first <= i => NewestFrom(list, n) <= i
    BY <1>2, <2>1
  <2> QED BY <1>2, <2>1, <2>2
<1> DEFINE Turns == {j \in opens : j >= first}
<1>6. ASSUME NEW o \in Turns
      PROVE  o \in 1..Len(list) /\ o > i /\ list[o].role = "user" /\ list[o - 1].role # "user"
  <2>1. o \in Opens(list) /\ o \in 1..Len(list) /\ o > i
    BY <1>1, <1>2, <1>4
  <2>2. i \in 1..(o - 1)
    BY <1>2, <2>1
  <2>3. list[i].role # "system"
    BY <1>2
  <2> QED BY <2>1, <2>2, <2>3 DEF Opens
<1>7. ASSUME NEW o \in Turns
      PROVE  \E q \in behind : o <= q /\ \A j \in o..q : list[j].role = "user"
  <2> DEFINE others == {j \in o..Len(list) : list[j] # Time}
  <2>0. o \in 1..Len(list) /\ o > i
    BY <1>6
  <2> HIDE DEF Turns, behind, opens
  <2>1. others # {} /\ others \in SUBSET (1..Len(list))
    <3>1. Len(list) \in o..Len(list) /\ Len(list) \in 1..Len(list)
      BY <1>1, <2>0
    <3>2. list[Len(list)] # Time
      BY <1>1, <3>1 DEF TimeIsFollowed
    <3> QED BY <2>0, <3>1, <3>2
  <2>2. PICK q \in others : \A j \in others : q <= j
    <3> HIDE DEF others
    <3> QED BY <1>1, <2>1, LeastPosition
  <2>3. q \in 1..Len(list) /\ q \in o..Len(list) /\ list[q] # Time
    BY <2>1, <2>2
  <2>4. ASSUME NEW j \in o..q, j # q PROVE list[j] = Time
    <3>1. j \in o..Len(list) /\ j < q
      BY <2>0, <2>3, <2>4
    <3>2. j \notin others
      BY <2>2, <2>3, <3>1
    <3> QED BY <3>1, <3>2
  <2>5. ASSUME NEW j \in o..q PROVE list[j].role = "user"
    <3>1. CASE j = o
      BY <1>6, <3>1
    <3>2. CASE j # o
      <4>1. j - 1 \in o..q /\ j - 1 # q /\ j - 1 \in 1..Len(list) /\ (j - 1) + 1 = j
        BY <2>0, <2>3, <3>2
      <4>2. list[j - 1] = Time
        BY <2>4, <4>1
      <4>3. list[(j - 1) + 1].role = "user"
        BY <4>1, <4>2 DEF TimeIsFollowed
      <4> QED BY <4>1, <4>3
    <3> QED BY <3>1, <3>2
  <2>6. q \in o..q /\ o <= q /\ q \in (i + 1)..Len(list)
    BY <1>2, <2>0, <2>3
  <2>7. q \in behind
    BY <2>3, <2>5, <2>6 DEF behind, IsQuestion
  <2> QED BY <2>5, <2>6, <2>7
<1> DEFINE of == [o \in Turns |-> CHOOSE q \in behind :
                        o <= q /\ \A j \in o..q : list[j].role = "user"]
<1>8. ASSUME NEW o \in Turns
      PROVE  of[o] \in behind /\ o <= of[o] /\ \A j \in o..of[o] : list[j].role = "user"
  <2> HIDE DEF Turns, behind
  <2> QED BY <1>7, <1>8
<1>9. of \in [Turns -> behind]
  <2> HIDE DEF Turns, behind
  <2> QED BY <1>8
<1>10. IsFiniteSet(Turns) /\ IsFiniteSet(behind) /\ Cardinality(behind) < Cardinality(Turns)
  <2>1. behind \in SUBSET (1..Len(list)) /\ Turns \in SUBSET opens
    BY <1>2
  <2>2. IsFiniteSet(1..Len(list))
    BY FS_Interval
  <2>3. IsFiniteSet(Turns) /\ IsFiniteSet(behind)
    <3> HIDE DEF Turns, behind, opens
    <3> QED BY <1>1, <2>1, <2>2, FS_Subset
  <2>4. Cardinality(Turns) >= n
    BY <1>4
  <2> HIDE DEF Turns, behind, opens
  <2>5. Cardinality(Turns) \in Nat /\ Cardinality(behind) \in Nat
    BY <2>3, FS_CardinalityType
  <2> QED BY <1>2, <2>3, <2>4, <2>5
<1>11. ASSUME NEW o \in Turns, NEW p \in Turns, o < p, of[o] = of[p] PROVE FALSE
  <2>1. o \in 1..Len(list) /\ p \in 1..Len(list) /\ list[p - 1].role # "user"
    BY <1>6
  <2>2. of[p] \in behind /\ p <= of[p]
    BY <1>8
  <2>3. of[p] \in Nat
    BY <1>2, <2>2
  <2> HIDE DEF of, Turns, behind
  <2>4. p - 1 \in o..of[o]
    BY <1>11, <2>1, <2>2, <2>3
  <2> QED BY <1>8, <2>1, <2>4
<1>12. PICK o \in Turns, p \in Turns : o # p /\ of[o] = of[p]
  <2> HIDE DEF of, Turns, behind
  <2> QED BY <1>9, <1>10, FS_PigeonHole
<1>13. o \in 1..Len(list) /\ p \in 1..Len(list)
  BY <1>6
<1> HIDE DEF of, Turns, behind
<1>14. o < p \/ p < o
  BY <1>12, <1>13
<1> QED BY <1>11, <1>12, <1>14

\* A cut leaves its own newest questions among those of the whole history.
LEMMA NewestStayNewest ==
    ASSUME NEW list \in Seq(Message), NEW c \in 1..Len(list), NEW n \in Nat,
           NEW i \in NewestQuestions(SubSeq(list, c, Len(list)), n)
    PROVE  /\ i + c - 1 \in NewestQuestions(list, n)
           /\ list[i + c - 1] = SubSeq(list, c, Len(list))[i]
<1> DEFINE keep == SubSeq(list, c, Len(list))
           mine == {j \in (i + 1)..Len(keep) : IsQuestion(keep[j])}
           theirs == {j \in (i + c)..Len(list) : IsQuestion(list[j])}
<1>1. /\ Len(keep) = Len(list) - c + 1 /\ Len(list) \in Nat
      /\ \A k \in 1..(Len(list) - c + 1) : keep[k] = list[k + c - 1]
      /\ DOMAIN keep = 1..Len(keep) /\ DOMAIN list = 1..Len(list)
  OBVIOUS
<1>2. i \in 1..Len(keep) /\ IsQuestion(keep[i]) /\ Cardinality(mine) < n
  BY <1>1 DEF NewestQuestions
<1> HIDE DEF keep
<1>3. i + c - 1 \in 1..Len(list) /\ keep[i] = list[i + c - 1] /\ (i + c - 1) + 1 = i + c
  BY <1>1, <1>2
<1> DEFINE move == [j \in theirs |-> j - c + 1]
<1>4. ASSUME NEW j \in theirs PROVE j - c + 1 \in mine /\ j \in Nat
  <2>1. j \in (i + c)..Len(list) /\ IsQuestion(list[j])
    OBVIOUS
  <2>2. j - c + 1 \in (i + 1)..Len(keep) /\ (j - c + 1) + c - 1 = j
    BY <1>1, <1>2, <2>1
  <2>3. keep[j - c + 1] = list[(j - c + 1) + c - 1]
    BY <1>1, <1>2, <2>2
  <2>4. j \in Nat
    BY <1>2, <2>1
  <2>5. IsQuestion(keep[j - c + 1])
    BY <2>1, <2>2, <2>3
  <2> QED BY <2>2, <2>4, <2>5
<1>5. IsFiniteSet(theirs) /\ IsFiniteSet(mine)
  <2>1. theirs \in SUBSET (1..Len(list)) /\ mine \in SUBSET (1..Len(keep))
    BY <1>1, <1>2
  <2>2. IsFiniteSet(1..Len(list)) /\ IsFiniteSet(1..Len(keep))
    BY FS_Interval
  <2> HIDE DEF theirs, mine
  <2> QED BY <2>1, <2>2, FS_Subset
<1> HIDE DEF theirs, mine
<1>6. Cardinality(theirs) \in Nat /\ Cardinality(mine) \in Nat
  BY <1>5, FS_CardinalityType
<1>7. Cardinality(theirs) <= Cardinality(mine)
  <2> SUFFICES ASSUME Cardinality(mine) < Cardinality(theirs) PROVE FALSE
    BY <1>6
  <2>1. move \in [theirs -> mine]
    BY <1>4
  <2> HIDE DEF move
  <2>2. PICK x \in theirs, y \in theirs : x # y /\ move[x] = move[y]
    BY <1>5, <2>1, FS_PigeonHole
  <2>3. x - c + 1 = y - c + 1 /\ x \in Nat /\ y \in Nat
    BY <1>4, <2>2 DEF move
  <2> QED BY <2>2, <2>3
<1>8. Cardinality(theirs) < n
  BY <1>2, <1>6, <1>7
<1>9. i + c - 1 \in NewestQuestions(list, n)
  <2>1. Cardinality({j \in ((i + c - 1) + 1)..Len(list) : IsQuestion(list[j])}) < n
    BY <1>3, <1>8 DEF theirs
  <2> QED BY <1>1, <1>2, <1>3, <2>1 DEF NewestQuestions
<1> QED BY <1>3, <1>9 DEF keep

\* Every history, and every part of one a round holds, has somebody's message
\* behind each time reading.  The history is not without one while a round runs,
\* so a reading never goes to its end.
Timely ==
    /\ TimeIsFollowed(responseList)
    /\ \A t \in Asks :
           /\ at[t] \notin {"idle", "done"} => SomebodyWrote(responseList)
           /\ at[t] \in {"summary", "clean"} => /\ TimeIsFollowed(snapshot[t].keep)
                                                /\ SomebodyWrote(snapshot[t].keep)

\* While nobody has counted the version up, what a snapshot leaves has the newest
\* questions of the history: a reduction only takes rounds away in front of them.
NewestHeld ==
    \A t \in Asks : at[t] = "summary" /\ t \notin outdated
        => \A i \in NewestQuestions(responseList, KEEP_ROUNDS) :
               responseList[i] \in Words(snapshot[t].keep)

LEMMA CompressedKeepsTheTimes ==
    ASSUME Types, Timely, NEW t \in Asks, at[t] = "summary", NEW s \in BOOLEAN
    PROVE  /\ TimeIsFollowed(Compressed(t, s)) /\ SomebodyWrote(Compressed(t, s))
           /\ Words(snapshot[t].keep) \subseteq Words(Compressed(t, s))
<1> DEFINE keep == snapshot[t].keep
<1>1. keep \in Seq(Message) /\ TimeIsFollowed(keep) /\ SomebodyWrote(keep)
  BY DEF Types, Snapshot, Timely
<1>2. Compressed(t, s) = IF s THEN <<Summary>> \o keep ELSE << >> \o keep
  BY DEF Compressed
<1> HIDE DEF keep
<1>3. << >> \o keep = keep
  BY <1>1
<1>4. Words(keep) \subseteq Words(<<Summary>> \o keep)
  <2>1. /\ Len(<<Summary>> \o keep) = Len(keep) + 1 /\ Len(keep) \in Nat
        /\ \A i \in 1..Len(keep) : (<<Summary>> \o keep)[i + 1] = keep[i]
        /\ DOMAIN keep = 1..Len(keep)
        /\ DOMAIN (<<Summary>> \o keep) = 1..Len(<<Summary>> \o keep)
    BY <1>1, MessagesAreTyped
  <2>2. ASSUME NEW i \in DOMAIN keep
        PROVE  \E j \in DOMAIN (<<Summary>> \o keep) : (<<Summary>> \o keep)[j] = keep[i]
    <3>1. i + 1 \in DOMAIN (<<Summary>> \o keep)
      BY <2>1
    <3> QED BY <2>1, <3>1
  <2> QED BY <2>2 DEF Words
<1>5. CASE s
  <2>1. Compressed(t, s) = <<Summary>> \o keep
    BY <1>2, <1>5
  <2> QED BY <1>1, <1>4, <2>1, SummaryKeepsTheTimes DEF keep
<1>6. CASE ~s
  <2>1. Compressed(t, s) = keep
    BY <1>2, <1>3, <1>6
  <2> QED BY <1>1, <2>1 DEF keep
<1> QED BY <1>5, <1>6

\* What the steps make of the history.
LEMMA HistoryKeepsTheTimes ==
    ASSUME Types, Matched, Answered, Timely, [CtxNext]_ctxVars
    PROVE  /\ TimeIsFollowed(responseList')
           /\ SomebodyWrote(responseList) => SomebodyWrote(responseList')
           /\ \A t \in Asks : Claim(t) => SomebodyWrote(responseList')
<1> DEFINE Stays == /\ TimeIsFollowed(responseList')
                    /\ SomebodyWrote(responseList) => SomebodyWrote(responseList')
<1>1. /\ responseList \in Seq(Message) /\ TimeIsFollowed(responseList)
      /\ responseQueue \in Seq(Relayed)
  BY DEF Types, Timely
<1>2. ASSUME responseList' = responseList PROVE Stays
  BY <1>1, <1>2
<1>3. ASSUME NEW x \in Message, x # Time, responseList' = Append(responseList, x)
      PROVE  Stays
  BY <1>1, <1>3, AppendKeepsTheTimes
<1>4. /\ TimeIsFollowed(responseList \o responseQueue)
      /\ SomebodyWrote(responseList) => SomebodyWrote(responseList \o responseQueue)
  BY <1>1, QueueKeepsTheTimes
<1>5. ASSUME NEW t \in Asks, Claim(t) PROVE Stays /\ SomebodyWrote(responseList')
  <2>1. User(t) \in Message /\ User(t) # Time /\ User(t).role = "user"
    BY MessagesAreTyped, NobodyIsTheClock DEF User, Time
  <2>2. responseList' = Append(responseList, User(t))
    BY <1>5 DEF Claim, Write
  <2> QED BY <1>1, <2>1, <2>2, AppendKeepsTheTimes
<1>6. ASSUME NEW t \in Asks, Begin(t) PROVE Stays
  <2>1. SomebodyWrote(responseList)
    BY <1>6 DEF Begin, Timely
  <2>2. responseList \o responseQueue \in Seq(Message)
    BY MergedIsTyped
  <2>3. CASE responseList' = TimeInserted(responseList \o responseQueue)
    BY <1>4, <2>1, <2>2, <2>3, ReadingKeepsTheTimes
  <2>4. CASE responseList' = responseList \o responseQueue
    BY <1>4, <2>1, <2>4
  <2>5. CASE responseList' = responseList
    BY <1>2, <2>5
  <2> QED BY <1>6, <2>3, <2>4, <2>5 DEF Begin, Write
<1>7. ASSUME NEW t \in Asks, ApplyCompaction(t) PROVE Stays
  BY <1>2, <1>7 DEF ApplyCompaction
<1>8. ASSUME NEW t \in Asks, Preflight(t) PROVE Stays
  BY <1>2, <1>8 DEF Preflight
<1>9. ASSUME NEW t \in Asks, Replace(t) PROVE Stays
  <2>1. CASE responseList' = responseList
    BY <1>2, <2>1
  <2>2. ASSUME NEW s \in BOOLEAN, responseList' = Compressed(t, s) PROVE Stays
    BY <1>9, <2>2, CompressedKeepsTheTimes DEF Replace
  <2> QED BY <1>9, <2>1, <2>2 DEF Replace
<1>10. ASSUME NEW t \in Asks, DropOldestRound(t) PROVE Stays
  <2> DEFINE n == Cardinality(Opens(responseList))
  <2>1. n \in Nat /\ n > 1 /\ responseList' = Newest(responseList, n - 1)
    BY <1>1, <1>10, OpensArePositions DEF DropOldestRound
  <2>2. n - 1 \in Nat \ {0} /\ n - 1 <= n
    <3> HIDE DEF n
    <3> QED BY <2>1
  <2> QED BY <1>1, <2>1, <2>2, CutKeepsTheTimes
<1>11. ASSUME NEW t \in Asks, Reduced(t) PROVE Stays
  BY <1>2, <1>11 DEF Reduced
<1>12. ASSUME NEW t \in Asks, Answer(t) PROVE Stays
  <2>1. PICK calls \in BOOLEAN :
            responseList' = Append(responseList, Assistant(t, answers[t] + 1, calls))
    BY <1>12 DEF Answer, Write
  <2>2. answers[t] + 1 \in 1..MaxReplies
    BY <1>12, SomethingIsKept DEF Answer, Types
  <2>3. Assistant(t, answers[t] + 1, calls) \in Message
    BY <2>2, MessagesAreTyped
  <2>4. Assistant(t, answers[t] + 1, calls) # Time
    BY DEF Assistant, Time
  <2> QED BY <1>3, <2>1, <2>3, <2>4
<1>13. ASSUME NEW t \in Asks, RequestFails(t) PROVE Stays
  BY <1>2, <1>13 DEF RequestFails
<1>14. ASSUME NEW t \in Asks, RunTool(t) PROVE Stays
  <2>1. answers[t] \in 1..MaxReplies
    BY <1>14, SomethingIsKept DEF RunTool, Answered, Working, Types
  <2>2. Tool(t, answers[t]) \in Message /\ Tool(t, answers[t]) # Time
    BY <2>1, MessagesAreTyped DEF Tool, Time
  <2>3. responseList' = Append(responseList, Tool(t, answers[t]))
    BY <1>14 DEF RunTool, Write
  <2> QED BY <1>3, <2>2, <2>3
<1>15. ASSUME NEW t \in Asks, Merge(t) PROVE Stays
  <2>1. CASE responseList' = responseList \o responseQueue
    BY <1>4, <2>1
  <2>2. CASE responseList' = responseList
    BY <1>2, <2>2
  <2> QED BY <1>15, <2>1, <2>2 DEF Merge, Write
<1>16. ASSUME NEW t \in Asks, Weigh(t) PROVE Stays
  BY <1>2, <1>16 DEF Weigh
<1>17. ASSUME NEW t \in Asks, Scan(t) PROVE Stays
  BY <1>2, <1>17 DEF Scan
<1>18. ASSUME NEW t \in Asks, Clean(t) PROVE Stays
  <2>1. TimeIsFollowed(snapshot[t].keep) /\ SomebodyWrote(snapshot[t].keep)
    BY <1>18 DEF Clean, Timely
  <2>2. CASE responseList' = snapshot[t].keep
    BY <2>1, <2>2
  <2>3. CASE responseList' = responseList
    BY <1>2, <2>3
  <2> QED BY <1>18, <2>2, <2>3 DEF Clean, Write
<1>19. ASSUME NEW t \in Asks, Finish(t) PROVE Stays
  BY <1>2, <1>19 DEF Finish
<1>20. ASSUME NEW t \in Asks, GiveBack(t) PROVE Stays
  BY <1>2, <1>20 DEF GiveBack
<1>21. ASSUME NEW t \in Relays, Relay(t) PROVE Stays
  <2>1. User(t) \in Message /\ User(t) # Time
    BY MessagesAreTyped, NobodyIsTheClock DEF User, Time
  <2>2. CASE responseList' = Append(responseList, User(t))
    BY <1>3, <2>1, <2>2
  <2>3. CASE responseList' = responseList
    BY <1>2, <2>3
  <2> QED BY <1>21, <2>2, <2>3 DEF Relay, Write
<1>22. ASSUME NEW t \in Compacts, Compact(t) PROVE Stays
  BY <1>2, <1>22 DEF Compact
<1>23. ASSUME UNCHANGED ctxVars PROVE Stays
  BY <1>2, <1>23 DEF ctxVars
<1> HIDE DEF Stays
<1>24. Stays
  BY <1>5, <1>6, <1>7, <1>8, <1>9, <1>10, <1>11, <1>12, <1>13, <1>14, <1>15, <1>16, <1>17,
     <1>18, <1>19, <1>20, <1>21, <1>22, <1>23 DEF CtxNext, AskStep
<1> QED BY <1>5, <1>24 DEF Stays

\* What a snapshot leaves of a history that has a message of somebody behind each
\* reading: so has it, and the newest questions are in it.
LEMMA SnapshotKeepsTheNewest ==
    ASSUME Types, Timely, NEW t, NEW after,
           Cardinality(Opens(responseList)) > KEEP_ROUNDS
    PROVE  /\ TimeIsFollowed(Taken(t, after).keep) /\ SomebodyWrote(Taken(t, after).keep)
           /\ \A i \in NewestQuestions(responseList, KEEP_ROUNDS) :
                  responseList[i] \in Words(Taken(t, after).keep)
<1> DEFINE c == NewestFrom(responseList, KEEP_ROUNDS)
           keep == SubSeq(responseList, c, Len(responseList))
<1>1. /\ responseList \in Seq(Message) /\ TimeIsFollowed(responseList)
      /\ KEEP_ROUNDS \in Nat \ {0} /\ Len(responseList) \in Nat
  BY SomethingIsKept DEF Types, Timely
<1>2. Cardinality(Opens(responseList)) \in Nat
  BY <1>1, OpensArePositions
<1>3. KEEP_ROUNDS <= Cardinality(Opens(responseList)) /\ Cardinality(Opens(responseList)) > 1
  BY <1>1, <1>2
<1>4. Taken(t, after).keep = keep /\ Newest(responseList, KEEP_ROUNDS) = keep
  BY DEF Taken, Newest
<1>5. TimeIsFollowed(keep) /\ SomebodyWrote(keep)
  BY <1>1, <1>3, <1>4, CutKeepsTheTimes
<1>6. ASSUME NEW i \in NewestQuestions(responseList, KEEP_ROUNDS)
      PROVE  responseList[i] \in Words(keep)
  <2>1. c \in 1..Len(responseList) /\ c <= i
    BY <1>1, <1>3, CutIsInside, CutKeepsTheNewestQuestions
  <2>2. i \in 1..Len(responseList) /\ IsQuestion(responseList[i])
    BY <1>1 DEF NewestQuestions
  <2> HIDE DEF c
  <2>3. /\ Len(keep) = Len(responseList) - c + 1
        /\ \A k \in 1..(Len(responseList) - c + 1) : keep[k] = responseList[k + c - 1]
        /\ DOMAIN keep = 1..Len(keep)
    BY <1>1, <2>1
  <2> HIDE DEF keep
  <2>4. i - c + 1 \in 1..(Len(responseList) - c + 1) /\ (i - c + 1) + c - 1 = i
    BY <1>1, <2>1, <2>2
  <2>5. keep[i - c + 1] = responseList[(i - c + 1) + c - 1]
    BY <2>3, <2>4
  <2>6. responseList[i] \notin {Summary, Time}
    BY <2>2 DEF IsQuestion, Summary
  <2> QED BY <2>3, <2>4, <2>5, <2>6 DEF Words
<1> QED BY <1>4, <1>5, <1>6

LEMMA TimelyKept ==
    ASSUME Types, Types', Matched, Answered, Timely, [CtxNext]_ctxVars
    PROVE  Timely'
<1>1. /\ Asks \subseteq Commands /\ Relays \subseteq Commands /\ Compacts \subseteq Commands
      /\ DOMAIN snapshot = Asks
  BY DEF Commands, Types
<1>2. /\ TimeIsFollowed(responseList')
      /\ SomebodyWrote(responseList) => SomebodyWrote(responseList')
      /\ \A t \in Asks : Claim(t) => SomebodyWrote(responseList')
  BY HistoryKeepsTheTimes
<1>3. ASSUME NEW t \in Commands, \A u \in Commands \ {t} : at'[u] = at[u],
             t \in Asks /\ at'[t] \notin {"idle", "done"} => SomebodyWrote(responseList'),
             \A u \in Asks \ {t} : snapshot'[u] = snapshot[u],
             t \in Asks /\ at'[t] \in {"summary", "clean"}
                 => TimeIsFollowed(snapshot'[t].keep) /\ SomebodyWrote(snapshot'[t].keep)
      PROVE  Timely'
  BY <1>1, <1>2, <1>3 DEF Timely
\* A step of a round in progress that takes no snapshot.
<1>4. ASSUME NEW t \in Asks, NEW l, Goto(t, l), l \notin {"summary", "clean"},
             at[t] \notin {"idle", "done"} \/ Claim(t),
             \A u \in Asks \ {t} : snapshot'[u] = snapshot[u]
      PROVE  Timely'
  <2>1. t \in Commands /\ at'[t] = l /\ \A u \in Commands \ {t} : at'[u] = at[u]
    BY <1>1, <1>4 DEF Goto, Types
  <2>2. SomebodyWrote(responseList')
    BY <1>2, <1>4 DEF Timely
  <2> QED BY <1>3, <1>4, <2>1, <2>2
<1>5. ASSUME NEW t \in Asks, NEW after \in {"preflight", "reduce", "shrink"},
             TakeSnapshot(t, after), at[t] \in {"preflight", "weigh"}
      PROVE  Timely'
  <2>1. SomebodyWrote(responseList')
    BY <1>2, <1>5 DEF Timely
  <2>2. /\ t \in Commands /\ \A u \in Commands \ {t} : at'[u] = at[u]
        /\ \/ at'[t] = after /\ snapshot' = snapshot
           \/ /\ at'[t] = "summary" /\ Cardinality(Opens(responseList)) > KEEP_ROUNDS
              /\ snapshot' = [snapshot EXCEPT ![t] = Taken(t, after)]
    BY <1>1, <1>5, TakingASnapshot
  <2>3. CASE at'[t] = after /\ snapshot' = snapshot
    BY <1>3, <2>1, <2>2, <2>3
  <2>4. CASE /\ at'[t] = "summary" /\ Cardinality(Opens(responseList)) > KEEP_ROUNDS
             /\ snapshot' = [snapshot EXCEPT ![t] = Taken(t, after)]
    <3>1. snapshot'[t] = Taken(t, after) /\ \A u \in Asks \ {t} : snapshot'[u] = snapshot[u]
      BY <1>1, <2>4
    <3>2. TimeIsFollowed(snapshot'[t].keep) /\ SomebodyWrote(snapshot'[t].keep)
      BY <2>4, <3>1, SnapshotKeepsTheNewest
    <3> QED BY <1>3, <2>1, <2>2, <3>1, <3>2
  <2> QED BY <2>2, <2>3, <2>4
<1>6. ASSUME NEW t \in Asks, Claim(t) PROVE Timely'
  BY <1>4, <1>6 DEF Claim
<1>7. ASSUME NEW t \in Asks, Begin(t) PROVE Timely'
  BY <1>4, <1>7 DEF Begin
<1>8. ASSUME NEW t \in Asks, ApplyCompaction(t) PROVE Timely'
  BY <1>5, <1>8 DEF ApplyCompaction
<1>9. ASSUME NEW t \in Asks, Preflight(t) PROVE Timely'
  <2>1. CASE TakeSnapshot(t, "reduce")
    BY <1>5, <1>9, <2>1 DEF Preflight
  <2>2. CASE (Goto(t, "wait") \/ Goto(t, "reduce")) /\ snapshot' = snapshot
    BY <1>4, <1>9, <2>2 DEF Preflight
  <2> QED BY <1>9, <2>1, <2>2 DEF Preflight
<1>10. ASSUME NEW t \in Asks, Replace(t) PROVE Timely'
  <2>1. snapshot[t].after \notin {"summary", "clean"} /\ at[t] = "summary"
    BY <1>10 DEF Replace, Types, Snapshot
  <2>2. \A u \in Asks \ {t} : snapshot'[u] = snapshot[u]
    BY <1>1, <1>10 DEF Replace
  <2> QED BY <1>4, <1>10, <2>1, <2>2 DEF Replace
<1>11. ASSUME NEW t \in Asks, DropOldestRound(t) PROVE Timely'
  BY <1>2, <1>11 DEF DropOldestRound, Timely
<1>12. ASSUME NEW t \in Asks, Reduced(t) PROVE Timely'
  BY <1>4, <1>12 DEF Reduced
<1>13. ASSUME NEW t \in Asks, Answer(t) PROVE Timely'
  BY <1>4, <1>13 DEF Answer
<1>14. ASSUME NEW t \in Asks, RequestFails(t) PROVE Timely'
  BY <1>4, <1>14 DEF RequestFails
<1>15. ASSUME NEW t \in Asks, RunTool(t) PROVE Timely'
  BY <1>4, <1>15 DEF RunTool
<1>16. ASSUME NEW t \in Asks, Merge(t) PROVE Timely'
  BY <1>4, <1>16 DEF Merge
<1>17. ASSUME NEW t \in Asks, Weigh(t) PROVE Timely'
  <2>1. CASE TakeSnapshot(t, "shrink")
    BY <1>5, <1>17, <2>1 DEF Weigh
  <2>2. CASE Goto(t, IF goOn[t] THEN "preflight" ELSE "validate") /\ snapshot' = snapshot
    BY <1>4, <1>17, <2>2 DEF Weigh
  <2> QED BY <1>17, <2>1, <2>2 DEF Weigh
<1>18. ASSUME NEW t \in Asks, Scan(t) PROVE Timely'
  <2>1. /\ responseList \in Seq(Message) /\ TimeIsFollowed(responseList)
        /\ SomebodyWrote(responseList)
    BY <1>18 DEF Scan, Types, Timely
  <2>2. TimeIsFollowed(Validated(responseList)) /\ SomebodyWrote(Validated(responseList))
    BY <2>1, ValidationKeepsTheTimes
  <2>3. /\ snapshot'[t].keep = Validated(responseList)
        /\ \A u \in Asks \ {t} : snapshot'[u] = snapshot[u]
    BY <1>1, <1>18 DEF Scan, Types, Snapshot
  <2>4. t \in Commands /\ \A u \in Commands \ {t} : at'[u] = at[u]
    BY <1>1, <1>18 DEF Scan, Goto, Types
  <2> QED BY <1>2, <1>3, <2>1, <2>2, <2>3, <2>4
<1>19. ASSUME NEW t \in Asks, Clean(t) PROVE Timely'
  <2>1. \A u \in Asks \ {t} : snapshot'[u] = snapshot[u]
    BY <1>1, <1>19 DEF Clean
  <2> QED BY <1>4, <1>19, <2>1 DEF Clean
<1>20. ASSUME NEW t \in Asks, Finish(t) PROVE Timely'
  BY <1>4, <1>20 DEF Finish
<1>21. ASSUME NEW t \in Asks, GiveBack(t) PROVE Timely'
  BY <1>4, <1>21 DEF GiveBack
<1>22. ASSUME NEW t \in Relays, Relay(t) PROVE Timely'
  <2>1. t \in Commands /\ at'[t] = "done" /\ \A u \in Commands \ {t} : at'[u] = at[u]
    BY <1>1, <1>22 DEF Relay, Goto, Types
  <2> QED BY <1>3, <1>22, <2>1 DEF Relay
<1>23. ASSUME NEW t \in Compacts, Compact(t) PROVE Timely'
  <2>1. t \in Commands /\ at'[t] = "done" /\ \A u \in Commands \ {t} : at'[u] = at[u]
    BY <1>1, <1>23 DEF Compact, Goto, Types
  <2> QED BY <1>3, <1>23, <2>1 DEF Compact
<1>24. CASE UNCHANGED ctxVars
  BY <1>2, <1>24 DEF ctxVars, Timely
<1> QED
  BY <1>6, <1>7, <1>8, <1>9, <1>10, <1>11, <1>12, <1>13, <1>14, <1>15, <1>16, <1>17, <1>18,
     <1>19, <1>20, <1>21, <1>22, <1>23, <1>24 DEF CtxNext, AskStep

LEMMA SnapshotHoldsTheNewest ==
    ASSUME Types, Timely, NewestHeld, NEW t \in Asks,
           NEW after \in {"preflight", "reduce", "shrink"},
           TakeSnapshot(t, after), responseList' = responseList, at[t] # "summary"
    PROVE  NewestHeld'
<1>1. Asks \subseteq Commands /\ after # "summary" /\ DOMAIN snapshot = Asks
  BY DEF Commands, Types
<1>2. CASE at'[t] = after /\ snapshot' = snapshot /\ outdated' = outdated
  BY <1>1, <1>2, TakingASnapshot DEF NewestHeld
<1>3. CASE /\ at'[t] = "summary" /\ outdated' = outdated \ {t}
           /\ Cardinality(Opens(responseList)) > KEEP_ROUNDS
           /\ snapshot' = [snapshot EXCEPT ![t] = Taken(t, after)]
  <2>1. snapshot'[t] = Taken(t, after) /\ \A u \in Asks \ {t} : snapshot'[u] = snapshot[u]
    BY <1>1, <1>3
  <2>2. \A u \in Asks \ {t} : at'[u] = at[u]
    BY <1>1, TakingASnapshot
  <2>3. \A i \in NewestQuestions(responseList, KEEP_ROUNDS) :
            responseList[i] \in Words(Taken(t, after).keep)
    BY <1>3, SnapshotKeepsTheNewest
  <2> QED BY <1>3, <2>1, <2>2, <2>3 DEF NewestHeld
<1> QED BY <1>2, <1>3, TakingASnapshot

LEMMA NewestHeldKept ==
    ASSUME Types, Types', Matched, Timely, NewestHeld, [CtxNext]_ctxVars
    PROVE  NewestHeld'
<1>1. /\ Asks \subseteq Commands /\ Relays \subseteq Commands /\ Compacts \subseteq Commands
      /\ DOMAIN snapshot = Asks
  BY DEF Commands, Types
\* A thread that goes on without a snapshot, the history as it was or another version.
<1>2. ASSUME NEW t \in Commands, NEW l, Goto(t, l), l # "summary",
             \A u \in Asks \ {t} : snapshot'[u] = snapshot[u],
             \/ responseList' = responseList /\ outdated \ {t} \subseteq outdated'
             \/ \A u \in Asks : at[u] = "summary" /\ u # t => u \in outdated'
      PROVE  NewestHeld'
  <2>1. at'[t] = l /\ \A u \in Commands \ {t} : at'[u] = at[u]
    BY <1>2 DEF Goto, Types
  <2> QED BY <1>1, <1>2, <2>1 DEF NewestHeld
<1>3. ASSUME NEW t \in Asks, Claim(t) PROVE NewestHeld'
  BY <1>1, <1>2, <1>3 DEF Claim, Write
<1>4. ASSUME NEW t \in Asks, Begin(t) PROVE NewestHeld'
  BY <1>1, <1>2, <1>4 DEF Begin, Write
<1>5. ASSUME NEW t \in Asks, ApplyCompaction(t) PROVE NewestHeld'
  BY <1>5, SnapshotHoldsTheNewest DEF ApplyCompaction
<1>6. ASSUME NEW t \in Asks, Preflight(t) PROVE NewestHeld'
  <2>1. CASE TakeSnapshot(t, "reduce")
    BY <1>6, <2>1, SnapshotHoldsTheNewest DEF Preflight
  <2>2. CASE (Goto(t, "wait") \/ Goto(t, "reduce")) /\ UNCHANGED <<snapshot, outdated>>
    BY <1>1, <1>2, <1>6, <2>2 DEF Preflight
  <2> QED BY <1>6, <2>1, <2>2 DEF Preflight
<1>7. ASSUME NEW t \in Asks, Replace(t) PROVE NewestHeld'
  <2>1. snapshot[t].after # "summary"
    BY DEF Types, Snapshot
  <2>2. \A u \in Asks \ {t} : snapshot'[u] = snapshot[u]
    BY <1>1, <1>7 DEF Replace
  <2>3. CASE t \in outdated
    BY <1>1, <1>2, <1>7, <2>1, <2>2, <2>3 DEF Replace
  <2>4. CASE t \notin outdated
    BY <1>1, <1>2, <1>7, <2>1, <2>2, <2>4 DEF Replace
  <2> QED BY <2>3, <2>4
<1>8. ASSUME NEW t \in Asks, DropOldestRound(t) PROVE NewestHeld'
  <2> DEFINE n == Cardinality(Opens(responseList))
             c == NewestFrom(responseList, n - 1)
  <2>1. n \in Nat /\ n > 1 /\ responseList' = Newest(responseList, n - 1)
    BY <1>8, OpensArePositions DEF DropOldestRound, Types
  <2>2. responseList \in Seq(Message) /\ KEEP_ROUNDS \in Nat
    BY SomethingIsKept DEF Types
  <2>3. n - 1 \in Nat \ {0} /\ n - 1 <= n
    <3> HIDE DEF n
    <3> QED BY <2>1
  <2>4. c \in 1..Len(responseList)
    BY <2>2, <2>3, CutIsInside
  <2>5. responseList' = SubSeq(responseList, c, Len(responseList))
    BY <2>1 DEF Newest
  <2> HIDE DEF n, c
  <2>6. ASSUME NEW i \in NewestQuestions(responseList', KEEP_ROUNDS)
        PROVE  \E j \in NewestQuestions(responseList, KEEP_ROUNDS) :
                   responseList[j] = responseList'[i]
    <3>1. i \in NewestQuestions(SubSeq(responseList, c, Len(responseList)), KEEP_ROUNDS)
      BY <2>5, <2>6
    <3>2. /\ i + c - 1 \in NewestQuestions(responseList, KEEP_ROUNDS)
          /\ responseList[i + c - 1] = SubSeq(responseList, c, Len(responseList))[i]
      BY <2>2, <2>4, <3>1, NewestStayNewest
    <3> QED BY <2>5, <3>2
  <2>7. at' = at /\ snapshot' = snapshot /\ outdated' = outdated
    BY <1>8 DEF DropOldestRound
  <2> QED BY <2>6, <2>7 DEF NewestHeld
<1>9. ASSUME NEW t \in Asks, Reduced(t) PROVE NewestHeld'
  BY <1>1, <1>2, <1>9 DEF Reduced
<1>10. ASSUME NEW t \in Asks, Answer(t) PROVE NewestHeld'
  BY <1>1, <1>2, <1>10 DEF Answer, Write
<1>11. ASSUME NEW t \in Asks, RequestFails(t) PROVE NewestHeld'
  BY <1>1, <1>2, <1>11 DEF RequestFails
<1>12. ASSUME NEW t \in Asks, RunTool(t) PROVE NewestHeld'
  BY <1>1, <1>2, <1>12 DEF RunTool, Write
<1>13. ASSUME NEW t \in Asks, Merge(t) PROVE NewestHeld'
  BY <1>1, <1>2, <1>13 DEF Merge, Write
<1>14. ASSUME NEW t \in Asks, Weigh(t) PROVE NewestHeld'
  <2>1. CASE TakeSnapshot(t, "shrink")
    BY <1>14, <2>1, SnapshotHoldsTheNewest DEF Weigh
  <2>2. CASE /\ Goto(t, IF goOn[t] THEN "preflight" ELSE "validate")
             /\ UNCHANGED <<snapshot, outdated>>
    BY <1>1, <1>2, <1>14, <2>2 DEF Weigh
  <2> QED BY <1>14, <2>1, <2>2 DEF Weigh
<1>15. ASSUME NEW t \in Asks, Scan(t) PROVE NewestHeld'
  BY <1>1, <1>2, <1>15 DEF Scan
<1>16. ASSUME NEW t \in Asks, Clean(t) PROVE NewestHeld'
  BY <1>1, <1>2, <1>16 DEF Clean, Write
<1>17. ASSUME NEW t \in Asks, Finish(t) PROVE NewestHeld'
  BY <1>1, <1>2, <1>17 DEF Finish
<1>18. ASSUME NEW t \in Asks, GiveBack(t) PROVE NewestHeld'
  BY <1>1, <1>2, <1>18 DEF GiveBack
<1>19. ASSUME NEW t \in Relays, Relay(t) PROVE NewestHeld'
  BY <1>1, <1>2, <1>19 DEF Relay, Write
<1>20. ASSUME NEW t \in Compacts, Compact(t) PROVE NewestHeld'
  BY <1>1, <1>2, <1>20 DEF Compact
<1>21. CASE UNCHANGED ctxVars
  BY <1>21 DEF ctxVars, NewestHeld
<1> QED
  BY <1>3, <1>4, <1>5, <1>6, <1>7, <1>8, <1>9, <1>10, <1>11, <1>12, <1>13, <1>14, <1>15,
     <1>16, <1>17, <1>18, <1>19, <1>20, <1>21 DEF CtxNext, AskStep

\* The invariant under which the newest questions stay.
LEMMA NewestInvHolds == CtxSpec => [](Timely /\ NewestHeld)
<1>1. CtxInit => Timely /\ NewestHeld
  <2> SUFFICES ASSUME CtxInit PROVE Timely /\ NewestHeld
    OBVIOUS
  <2>1. \A t \in Asks : at[t] = "idle"
    BY DEF CtxInit, Commands
  <2>2. PICK n \in 0..Len(Old) : responseList = Stored(n)
    BY DEF CtxInit
  <2>3. Stored(n) \in Seq(Message) /\ Len(Stored(n)) = 2 * n
    <3>1. 2 * n \in Nat
      BY <2>2, OldAreListed
    <3>2. DOMAIN Stored(n) = 1..(2 * n)
      BY DEF Stored
    <3>3. Stored(n) \in Seq(Message)
      BY StoredIsTyped
    <3> QED BY <3>1, <3>2, <3>3
  <2>4. ASSUME NEW i \in 1..(2 * n) PROVE Stored(n)[i] # Time
    <3>1. Old \in Seq(ToSet(Old)) /\ Len(Old) \in Nat
      BY OldAreListed
    <3>2. Stored(n)[i] = IF i % 2 = 1 THEN User(Old[(i + 1) \div 2])
                         ELSE Assistant(Old[i \div 2], 1, FALSE)
      BY DEF Stored
    <3>3. CASE i % 2 = 1
      <4>1. (i + 1) \div 2 \in 1..Len(Old)
        BY <2>2, <3>1, <3>3
      <4>2. Old[(i + 1) \div 2] \in ToSet(Old)
        BY <3>1, <4>1
      <4>3. Stored(n)[i] = User(Old[(i + 1) \div 2])
        BY <3>2, <3>3
      <4> QED BY <4>2, <4>3, NobodyIsTheClock DEF User, Time
    <3>4. CASE i % 2 # 1
      <4>1. Stored(n)[i] = Assistant(Old[i \div 2], 1, FALSE)
        BY <3>2, <3>4
      <4> QED BY <4>1 DEF Assistant, Time
    <3> QED BY <3>3, <3>4
  <2>5. TimeIsFollowed(responseList)
    BY <2>2, <2>3, <2>4 DEF TimeIsFollowed
  <2> QED BY <2>1, <2>5 DEF Timely, NewestHeld
<1>2. CtxInv /\ CtxInv' /\ Timely /\ NewestHeld /\ [CtxNext]_ctxVars => Timely' /\ NewestHeld'
  BY TimelyKept, NewestHeldKept DEF CtxInv
<1> QED BY <1>1, <1>2, CtxInvHolds, PTL DEF CtxSpec

\* The newest KEEP_ROUNDS questions live through every compression, however long
\* the history, whatever readings and relayed messages stand between them, and
\* whatever is written or reduced while the summary is requested.
THEOREM NewestAreKept == CtxSpec => NewestQuestionsStay
<1> DEFINE Replacing == \A t \in Asks : at[t] = "summary" /\ at'[t] # "summary"
                           => \A i \in NewestQuestions(responseList, KEEP_ROUNDS) :
                                  responseList[i] \in Words(responseList')
<1>1. CtxInv /\ Timely /\ NewestHeld /\ [CtxNext]_ctxVars => [Replacing]_ctxVars
  <2> SUFFICES ASSUME CtxInv, Timely, NewestHeld, CtxNext,
                      NEW t \in Asks, at[t] = "summary", at'[t] # "summary",
                      NEW i \in NewestQuestions(responseList, KEEP_ROUNDS)
               PROVE  responseList[i] \in Words(responseList')
    OBVIOUS
  <2>1. Types /\ Replace(t)
    BY CompressionEnds DEF CtxInv
  <2>2. CASE t \in outdated
    <3>1. responseList' = responseList
      BY <2>1, <2>2 DEF Replace
    <3>2. i \in DOMAIN responseList /\ responseList[i].role = "user" /\ responseList[i] # Time
      BY DEF NewestQuestions, IsQuestion
    <3>3. responseList[i] # Summary
      BY <3>2 DEF Summary
    <3> QED BY <3>1, <3>2, <3>3 DEF Words
  <2>3. CASE t \notin outdated
    <3>1. PICK s \in BOOLEAN : responseList' = Compressed(t, s)
      BY <2>1, <2>3 DEF Replace
    <3>2. responseList[i] \in Words(snapshot[t].keep)
      BY <2>3 DEF NewestHeld
    <3> QED BY <2>1, <3>1, <3>2, CompressedKeepsTheTimes
  <2> QED BY <2>2, <2>3
<1> QED BY <1>1, CtxInvHolds, NewestInvHolds, PTL DEF CtxSpec, NewestQuestionsStay

-----------------------------------------------------------------------------
(* Stateless questions.                                                    *)

Begun    == {"check", "wait", "show", "tools", "leave"}
InFlight == Begun \cup {"marked"}
NhPlaces == InFlight \cup {"typed", "registered", "ended", "done"}

NhTypes ==
    /\ running \in [Questions -> BOOLEAN]
    /\ stopEpoch \in [Questions -> Nat] /\ roundEpoch \in [Questions -> Nat]
    /\ asks \in [Questions -> NhPlaces]
    /\ accepted \in [Questions -> {"no", "before", "during"}]
    /\ said \in [Questions -> Nat]
    /\ newest \in Questions \cup {Nobody}

\* A stop that was accepted behind begin_round keeps the stop's epoch ahead of the
\* round's for the rest of the round, so every look at it sees the stop.
Overtaken ==
    \A q \in Questions :
        /\ running[q] <=> asks[q] \in InFlight
        /\ roundEpoch[q] <= stopEpoch[q]
        /\ accepted[q] = "during" => asks[q] \in Begun \cup {"ended", "done"}
        /\ accepted[q] = "during" /\ asks[q] \in Begun => roundEpoch[q] # stopEpoch[q]

NhInv == NhTypes /\ Overtaken /\ StoppedIsSilent /\ NewestCanBeStopped

LEMMA NhInvKept ==
    ASSUME NhInv, [NhNext]_nhVars
    PROVE  NhInv'
<1> USE DEF Begun, InFlight, NhPlaces
<1>1. ASSUME NEW q \in Questions, Register(q) PROVE NhInv'
  BY <1>1, NobodyAsks DEF Register, Step, NhInv, NhTypes, Overtaken, StoppedIsSilent,
     NewestCanBeStopped
<1>2. ASSUME NEW q \in Questions, MarkRunning(q) PROVE NhInv'
  BY <1>2, NobodyAsks DEF MarkRunning, Step, NhInv, NhTypes, Overtaken, StoppedIsSilent,
     NewestCanBeStopped
<1>3. ASSUME NEW q \in Questions, BeginRound(q) PROVE NhInv'
  BY <1>3, NobodyAsks DEF BeginRound, Step, NhInv, NhTypes, Overtaken, StoppedIsSilent,
     NewestCanBeStopped
<1>4. ASSUME NEW q \in Questions, Send(q) PROVE NhInv'
  BY <1>4, NobodyAsks DEF Send, Step, StopRequested, NhInv, NhTypes, Overtaken,
     StoppedIsSilent, NewestCanBeStopped
<1>5. ASSUME NEW q \in Questions, SendFails(q) PROVE NhInv'
  BY <1>5, NobodyAsks DEF SendFails, Step, NhInv, NhTypes, Overtaken, StoppedIsSilent,
     NewestCanBeStopped
<1>6. ASSUME NEW q \in Questions, Receive(q) PROVE NhInv'
  BY <1>6, NobodyAsks DEF Receive, Step, StopRequested, NhInv, NhTypes, Overtaken,
     StoppedIsSilent, NewestCanBeStopped
<1>7. ASSUME NEW q \in Questions, Show(q) PROVE NhInv'
  BY <1>7, NobodyAsks DEF Show, Step, NhInv, NhTypes, Overtaken, StoppedIsSilent,
     NewestCanBeStopped
<1>8. ASSUME NEW q \in Questions, RunTools(q) PROVE NhInv'
  BY <1>8, NobodyAsks DEF RunTools, Step, NhInv, NhTypes, Overtaken, StoppedIsSilent,
     NewestCanBeStopped
<1>9. ASSUME NEW q \in Questions, EndRound(q) PROVE NhInv'
  BY <1>9, NobodyAsks DEF EndRound, Step, NhInv, NhTypes, Overtaken, StoppedIsSilent,
     NewestCanBeStopped
<1>10. ASSUME NEW q \in Questions, Unregister(q) PROVE NhInv'
  BY <1>10, NobodyAsks DEF Unregister, Step, NhInv, NhTypes, Overtaken, StoppedIsSilent,
     NewestCanBeStopped
<1>11. ASSUME NEW s \in Stops, FindTracked(s) PROVE NhInv'
  BY <1>11, NobodyAsks DEF FindTracked, NhInv, NhTypes, Overtaken, StoppedIsSilent,
     NewestCanBeStopped
<1>12. ASSUME NEW s \in Stops, RequestStop(s) PROVE NhInv'
  BY <1>12, NobodyAsks DEF RequestStop, NhInv, NhTypes, Overtaken, StoppedIsSilent,
     NewestCanBeStopped
<1>13. CASE UNCHANGED nhVars
  BY <1>13 DEF nhVars, NhInv, NhTypes, Overtaken, StoppedIsSilent, NewestCanBeStopped
<1> QED
  BY <1>1, <1>2, <1>3, <1>4, <1>5, <1>6, <1>7, <1>8, <1>9, <1>10, <1>11, <1>12, <1>13 DEF
     NhNext

LEMMA NhInvHolds == NhSpec => []NhInv
<1>1. NhInit => NhInv
  BY NobodyAsks DEF NhInit, NhInv, NhTypes, Overtaken, StoppedIsSilent, NewestCanBeStopped,
                    Begun, InFlight, NhPlaces
<1>2. NhInv /\ [NhNext]_nhVars => NhInv'
  BY NhInvKept
<1> QED BY <1>1, <1>2, PTL DEF NhSpec

\* A stop that was accepted while a stateless question was out silences it: no answer
\* that arrives behind the stop is shown, in that round or a later one.
THEOREM StopsSilence == NhSpec => []StoppedIsSilent
BY NhInvHolds, PTL DEF NhInv

\* The question the player asked last is the one `!!ask stop` finds, for as long as it
\* is in flight, whichever of the player's questions ends first.
THEOREM NewestIsFound == NhSpec => []NewestCanBeStopped
BY NhInvHolds, PTL DEF NhInv

-----------------------------------------------------------------------------
(* The stored conversation.                                                *)

\* The threads that have begun, and the instances that have registered what
\* they read: none of them brings its ChatParam into play once more.
InPlay ==
    {t \in Threads : pc[t] # "idle"}
    \cup {i \in Instances : i < instance \/ (i = instance /\ phase # "loading")}

Engaged(t) == pc[t] \notin {"idle", "done"}
Saving(t) == pc[t] \in SavePCs

\* What a completed save stored and nobody has dropped since.
Due == completed \ dropped

\* Conversations in play are known to be; each is registered by one instance at
\* most, and no longer once a clear has begun.
Registrations ==
    \A i \in Instances :
        /\ registered[i] # None => registered[i] \in InPlay /\ registered[i] \notin gone
        /\ i > instance => registered[i] = None
        /\ i = instance /\ phase = "loading" => registered[i] = None
        /\ \A j \in Instances : registered[i] = registered[j] => i = j \/ registered[i] = None

Holders ==
    /\ \A t \in Threads : held[t] # None => held[t] \in InPlay
    /\ \A t \in Savers : Engaged(t) => held[t] # None
    /\ gone \cup rowOf \subseteq InPlay
    /\ \A c \in Clears : pc[c] = "drop" /\ held[c] # None =>
          \A i \in Instances : registered[i] # held[c]
    /\ rowOf = {} => row = {}

\* An instance is frozen while threads of its own still run without it, and not
\* before it is loaded.
OldThreadsFrozen ==
    /\ \A t \in Threads : Engaged(t) =>
          /\ home[t] \in Instances
          /\ frozen[home[t]] \/ (home[t] = instance /\ phase = "up")
    /\ \A i \in Instances : i > instance => ~frozen[i]

\* A thread that writes a message has it in its conversation or in the record,
\* or a clear or a switch dropped it.
OwnMessage ==
    \A t \in Authors :
        /\ pc[t] = "check" => t \in dropped \cup Holds(held[t])
        /\ Saving(t) => t \in dropped
                        \/ (registered[home[t]] = held[t] /\ t \in Holds(held[t]))
        /\ pc[t] = "save" => t \in dropped \cup Messages(record[t])

\* A save that is not outdated is one of the current instance, and no clear of
\* its conversation is finished.
FreshSaves ==
    \A t \in Savers : Saving(t) /\ ~stale[t] =>
        /\ home[t] = instance /\ phase # "loading"
        /\ held[t] \notin gone

\* ... and has everything that is due.
FreshSavesHaveDue ==
    \A t \in Savers : Saving(t) /\ ~stale[t] =>
        /\ pc[t] \in {"look", "take"} => Due \subseteq Holds(held[t])
        /\ pc[t] = "save" => Due \subseteq Messages(record[t])
        /\ pc[t] = "delete" => Due = {}

\* What is due is in the table, in what a load has read, and in the registered
\* conversation.
DueIsKept ==
    /\ Due \subseteq InTable
    /\ phase = "up" =>
          IF registered[instance] = None THEN Due = {} ELSE Due \subseteq Holds(registered[instance])
    /\ phase = "loading" /\ ~stale[instance] =>
          \A a \in Due : \E r \in loadedRow : a \in Messages(r)

\* A clear on its way deletes nothing that is due.
ClearedIsNotDue ==
    \A c \in Clears :
        /\ pc[c] = "drop"
        /\ \/ rowOf = {held[c]}
           \/ \E t \in Savers : Saving(t) /\ ~stale[t] /\ held[t] = held[c]
        => Due = {}

StoreInv ==
    /\ TypeOK /\ Registrations /\ Holders /\ OldThreadsFrozen /\ OwnMessage /\ FreshSaves
    /\ ~staleWrite => rowOf \cap gone = {}
    /\ ~staleWrite /\ "read" \notin failed => FreshSavesHaveDue /\ DueIsKept /\ ClearedIsNotDue

LEMMA StoreInit == Init => StoreInv
<1> SUFFICES ASSUME Init PROVE StoreInv
  OBVIOUS
<1>1. TypeOK
  BY LoadsCount DEF Init, TypeOK, Records, Empty, PCs, Savers, Authors, Threads, Instances
<1>2. Registrations /\ Holders /\ OldThreadsFrozen /\ OwnMessage /\ FreshSaves
  BY ActorsDisjoint DEF Init, Registrations, Holders, OldThreadsFrozen, OwnMessage, FreshSaves, Engaged,
     Saving, SavePCs, Threads, Savers, Authors
<1>3. FreshSavesHaveDue /\ DueIsKept /\ ClearedIsNotDue /\ rowOf \cap gone = {}
  BY DEF Init, FreshSavesHaveDue, DueIsKept, ClearedIsNotDue, Due, Saving, SavePCs, Savers, Authors,
     Threads
<1> QED
  BY <1>1, <1>2, <1>3 DEF StoreInv

\* One thread goes on, the others stay where they are.
LEMMA GoingOn ==
    ASSUME TypeOK, NEW t \in Threads, NEW l, Goes(t, l)
    PROVE  /\ pc'[t] = l /\ DOMAIN pc' = Threads
           /\ \A u \in Threads : u # t => pc'[u] = pc[u]
           /\ l \in PCs => pc' \in [Threads -> PCs]
  BY DEF TypeOK, Goes

LEMMA Actors ==
    /\ Rounds \subseteq Authors /\ Senders \subseteq Authors /\ Authors \subseteq Savers
    /\ Savers \subseteq Threads /\ Switches \subseteq Savers /\ Clears \subseteq Threads
    /\ Rounds \subseteq Makers /\ Switches \subseteq Makers /\ Instances \subseteq Makers
    /\ Clears \cap Savers = {} /\ Switches \cap Authors = {} /\ Threads \cap Instances = {}
    /\ None \notin Makers /\ Instances \subseteq Nat /\ 0 \notin Instances
  BY ActorsDisjoint, LoadsCount DEF Authors, Savers, Threads, Makers, Instances

\* A ChatParam in play stays one.
LEMMA InPlayStays ==
    ASSUME TypeOK,
           \A t \in Threads : pc[t] # "idle" => pc'[t] # "idle",
           \/ instance' = instance /\ (phase' = "loading" => phase = "loading")
           \/ instance' = instance + 1
    PROVE  InPlay \subseteq InPlay'
<1>1. instance \in Nat /\ Instances \subseteq Nat
  BY LoadsCount DEF TypeOK, Instances
<1>2. \A t \in Threads : pc[t] # "idle" => t \in InPlay'
  BY DEF InPlay
<1>3. \A i \in Instances : i < instance \/ (i = instance /\ phase # "loading") => i \in InPlay'
  <2>1. \A i \in Instances : i < instance \/ (i = instance /\ phase # "loading") =>
            i < instance' \/ (i = instance' /\ phase' # "loading")
    BY <1>1
  <2> QED
    BY <2>1 DEF InPlay
<1> QED
  BY <1>2, <1>3 DEF InPlay

\* A step that only moves a thread, and neither into a save nor into a clear.
LEMMA QuietMove ==
    ASSUME StoreInv, NEW t \in Threads, NEW l \in PCs, Goes(t, l), Engaged(t),
           l \notin SavePCs \cup {"idle", "drop"}, l = "check" => t \notin Authors,
           owned' \in [Makers -> BOOLEAN], failed' \in SUBSET {"read", "write"}, failed \subseteq failed',
           UNCHANGED <<pluginVars, registered, history, queue, row, threadVars, stale, staleWrite,
                       completed, dropped, rowOf, gone>>
    PROVE  StoreInv'
<1> USE DEF pluginVars, threadVars
<1>1. /\ pc'[t] = l /\ pc' \in [Threads -> PCs]
      /\ \A u \in Threads : u # t => pc'[u] = pc[u]
  BY GoingOn DEF StoreInv
<1>2. TypeOK'
  BY <1>1 DEF StoreInv, TypeOK
<1>3. InPlay \subseteq InPlay'
  BY <1>1, InPlayStays DEF StoreInv, Engaged
<1>4. /\ \A u \in Threads : Engaged(u)' => Engaged(u)
      /\ \A u \in Threads : Saving(u)' => Saving(u) /\ pc'[u] = pc[u]
      /\ \A u \in Threads : pc'[u] = "drop" => pc[u] = "drop"
      /\ \A u \in Authors : pc'[u] = "check" => pc[u] = "check"
  BY <1>1, Actors DEF Engaged, Saving
<1>5. Registrations'
  BY <1>3 DEF StoreInv, Registrations
<1>6. Holders'
  BY <1>3, <1>4, Actors DEF StoreInv, Holders
<1>7. OldThreadsFrozen'
  BY <1>4 DEF StoreInv, OldThreadsFrozen
<1>8. OwnMessage'
  BY <1>4, Actors DEF StoreInv, OwnMessage, Holds, SavePCs, Saving
<1>9. FreshSaves'
  BY <1>4, Actors DEF StoreInv, FreshSaves
<1>10. ~staleWrite /\ "read" \notin failed => (FreshSavesHaveDue /\ DueIsKept /\ ClearedIsNotDue)'
  <2> SUFFICES ASSUME FreshSavesHaveDue, DueIsKept, ClearedIsNotDue
               PROVE  (FreshSavesHaveDue /\ DueIsKept /\ ClearedIsNotDue)'
    BY DEF StoreInv
  <2>1. FreshSavesHaveDue'
    BY <1>4, Actors DEF FreshSavesHaveDue, Due, Holds
  <2>2. DueIsKept'
    BY DEF DueIsKept, Due, Holds, InTable
  <2>3. ClearedIsNotDue'
    BY <1>4, Actors DEF ClearedIsNotDue, Due
  <2> QED
    BY <2>1, <2>2, <2>3
<1> QED
  BY <1>2, <1>5, <1>6, <1>7, <1>8, <1>9, <1>10 DEF StoreInv

LEMMA QuietMoves ==
    ASSUME StoreInv, NEW t \in Savers,
           \/ SaveSkipped(t) \/ StoreFails(t)
           \/ t \in Rounds /\ (AskClaims(t) \/ RoundEnds(t))
           \/ t \in Switches /\ (SwitchClaims(t) \/ SwitchGivesBack(t))
    PROVE  StoreInv'
<1> USE DEF convVars, Engaged, PCs, SavePCs
<1>1. TypeOK /\ t \in Threads /\ Saved(t) \in {"giveBack", "done"}
  BY Actors DEF StoreInv, Saved
<1>2. CASE SaveSkipped(t)
  BY <1>1, <1>2, QuietMove DEF SaveSkipped, TypeOK
<1>3. CASE StoreFails(t)
  BY <1>1, <1>3, QuietMove DEF StoreFails, TypeOK
<1>4. CASE AskClaims(t)
  BY <1>1, <1>4, QuietMove DEF AskClaims, TypeOK
<1>5. CASE RoundEnds(t)
  BY <1>1, <1>5, QuietMove DEF RoundEnds, TypeOK
<1>6. CASE SwitchClaims(t)
  BY <1>1, <1>6, QuietMove DEF SwitchClaims, TypeOK
<1>7. CASE t \in Switches /\ SwitchGivesBack(t)
  BY <1>1, <1>7, Actors, QuietMove DEF SwitchGivesBack, TypeOK
<1> QED
  BY <1>2, <1>3, <1>4, <1>5, <1>6, <1>7

LEMMA ClearFailsStays ==
    ASSUME StoreInv, NEW c \in Clears, ClearFails(c)
    PROVE  StoreInv'
<1> USE DEF convVars, Engaged, PCs, SavePCs
<1>1. TypeOK /\ c \in Threads /\ c \notin Authors
  BY Actors DEF StoreInv
<1> QED
  BY <1>1, QuietMove DEF ClearFails, TypeOK

\* What the move of a thread into a later part of its save leaves as it was.
LEMMA SaveMove ==
    ASSUME StoreInv, NEW t \in Savers, NEW l \in PCs, Goes(t, l), Engaged(t),
           l \notin {"idle", "drop", "check"},
           UNCHANGED <<pluginVars, registered, convVars, home, held, gone>>
    PROVE  /\ pc'[t] = l /\ pc' \in [Threads -> PCs]
           /\ \A u \in Threads : u # t => pc'[u] = pc[u]
           /\ Registrations' /\ OldThreadsFrozen'
           /\ rowOf' \subseteq InPlay /\ (rowOf' = {} => row' = {}) => Holders'
<1> USE DEF pluginVars, convVars
<1>1. /\ pc'[t] = l /\ pc' \in [Threads -> PCs]
      /\ \A u \in Threads : u # t => pc'[u] = pc[u]
  BY GoingOn, Actors DEF StoreInv
<1>2. InPlay \subseteq InPlay'
  BY <1>1, InPlayStays DEF StoreInv, Engaged
<1>3. \A u \in Threads : (Engaged(u)' => Engaged(u)) /\ (pc'[u] = "drop" => pc[u] = "drop")
  BY <1>1 DEF Engaged
<1>4. Registrations'
  BY <1>2 DEF StoreInv, Registrations
<1>5. OldThreadsFrozen'
  BY <1>3 DEF StoreInv, OldThreadsFrozen
<1>6. rowOf' \subseteq InPlay /\ (rowOf' = {} => row' = {}) => Holders'
  BY <1>2, <1>3, Actors DEF StoreInv, Holders
<1> QED
  BY <1>1, <1>4, <1>5, <1>6

LEMMA SaveStartsStores ==
    ASSUME StoreInv, NEW t \in Savers, SaveStarts(t)
    PROVE  StoreInv'
<1> USE DEF SaveStarts, pluginVars, threadVars, convVars
<1>1. /\ pc'[t] = "look" /\ pc' \in [Threads -> PCs]
      /\ \A u \in Threads : u # t => pc'[u] = pc[u]
      /\ Registrations' /\ OldThreadsFrozen'
      /\ Holders'
  <2>1. "look" \in PCs /\ Engaged(t)
    BY DEF PCs, SavePCs, Engaged
  <2> QED
    BY <2>1, SaveMove DEF StoreInv, Holders
<1>2. TypeOK'
  BY <1>1 DEF StoreInv, TypeOK
<1>3. /\ \A u \in Savers : u # t => (Saving(u)' <=> Saving(u)) /\ stale'[u] = stale[u]
      /\ ~stale'[t] /\ Saving(t)' /\ ~Saving(t)
      /\ \A i \in Instances : stale'[i] = stale[i]
  <2>1. /\ stale'[t] = FALSE
        /\ \A u \in Savers \cup Instances : u # t => stale'[u] = stale[u]
    BY DEF StoreInv, TypeOK
  <2>2. Saving(t)' /\ ~Saving(t)
    BY <1>1 DEF Saving, SavePCs
  <2>3. \A u \in Savers : u # t => (Saving(u)' <=> Saving(u))
    BY <1>1, Actors DEF Saving
  <2> QED
    BY <2>1, <2>2, <2>3, Actors
<1>4. home[t] = instance /\ phase = "up" /\ instance \in Instances /\ held[t] # None
  BY Actors DEF StoreInv, OldThreadsFrozen, Holders, Engaged
<1>5. OwnMessage'
  BY <1>1, <1>3, Actors DEF StoreInv, OwnMessage, Holds, SavePCs, Saving
<1>6. FreshSaves'
  BY <1>1, <1>3, <1>4 DEF StoreInv, FreshSaves, Registrations
<1>7. ~staleWrite /\ "read" \notin failed => (FreshSavesHaveDue /\ DueIsKept /\ ClearedIsNotDue)'
  <2> SUFFICES ASSUME FreshSavesHaveDue, DueIsKept, ClearedIsNotDue
               PROVE  (FreshSavesHaveDue /\ DueIsKept /\ ClearedIsNotDue)'
    BY DEF StoreInv
  <2>1. Due \subseteq Holds(held[t])
    BY <1>4 DEF DueIsKept
  <2>2. FreshSavesHaveDue'
    BY <1>1, <1>3, <2>1, Actors DEF FreshSavesHaveDue, Due, Holds
  <2>3. DueIsKept'
    BY <1>3, <1>4 DEF DueIsKept, Due, Holds, InTable
  <2>4. ClearedIsNotDue'
    <3> SUFFICES ASSUME NEW c \in Clears, pc'[c] = "drop",
                        \/ rowOf = {held[c]}
                        \/ \E u \in Savers : Saving(u)' /\ ~stale'[u] /\ held[u] = held[c]
                 PROVE  Due = {}
      BY DEF ClearedIsNotDue, Due
    <3>1. pc[c] = "drop"
      BY <1>1, Actors
    <3>2. held[c] # held[t]
      BY <1>4, <3>1 DEF StoreInv, Holders
    <3> QED
      BY <1>3, <3>1, <3>2 DEF ClearedIsNotDue
  <2> QED
    BY <2>2, <2>3, <2>4
<1> QED
  BY <1>1, <1>2, <1>5, <1>6, <1>7 DEF StoreInv

\* Between the look at a conversation and the write nothing is lost.
LEMMA SaveGoesOnStores ==
    ASSUME StoreInv, NEW t \in Savers, SaveLooks(t) \/ TakeRecord(t)
    PROVE  StoreInv'
<1> USE DEF SaveLooks, TakeRecord, pluginVars, threadVars, convVars
<1> DEFINE l == IF pc[t] = "take" THEN "save"
                ELSE IF Holds(held[t]) = {} THEN "delete" ELSE "take"
<1>1. l \in PCs /\ l \in SavePCs /\ l # "look" /\ Engaged(t) /\ Goes(t, l) /\ Saving(t)
  BY DEF PCs, SavePCs, Engaged, Saving
<1>2. /\ pc'[t] = l /\ pc' \in [Threads -> PCs]
      /\ \A u \in Threads : u # t => pc'[u] = pc[u]
      /\ Registrations' /\ OldThreadsFrozen'
      /\ Holders'
  BY <1>1, SaveMove DEF StoreInv, Holders
<1>3. /\ held[t] \in Makers
      /\ \A u \in Savers : u # t => record'[u] = record[u]
      /\ l = "save" => pc[t] = "take" /\ Messages(record'[t]) = Holds(held[t])
      /\ l = "take" => pc[t] = "look"
      /\ l = "delete" => pc[t] = "look" /\ Holds(held[t]) = {}
  BY <1>1, Actors DEF StoreInv, TypeOK, Holders, Messages, Holds
<1>4. TypeOK'
  <2>1. record' \in [Savers -> Records]
    BY <1>3 DEF StoreInv, TypeOK, Records
  <2> QED
    BY <1>2, <2>1 DEF StoreInv, TypeOK
<1>5. \A u \in Savers : Saving(u)' <=> Saving(u)
  BY <1>1, <1>2, Actors DEF Saving
<1> HIDE DEF l
<1>6. OwnMessage'
  <2> SUFFICES ASSUME NEW u \in Authors
               PROVE  /\ pc'[u] = "check" => u \in dropped \cup Holds(held[u])
                      /\ Saving(u) => u \in dropped
                            \/ (registered[home[u]] = held[u] /\ u \in Holds(held[u]))
                      /\ pc'[u] = "save" => u \in dropped \cup Messages(record'[u])
    BY <1>5, Actors DEF OwnMessage, Holds
  <2>1. CASE u # t
    BY <1>2, <1>3, <2>1, Actors DEF StoreInv, OwnMessage
  <2>2. CASE u = t
    BY <1>1, <1>2, <1>3, <2>2, Actors DEF StoreInv, OwnMessage, SavePCs
  <2> QED
    BY <2>1, <2>2
<1>7. FreshSaves'
  BY <1>5 DEF StoreInv, FreshSaves
<1>8. ~staleWrite /\ "read" \notin failed => (FreshSavesHaveDue /\ DueIsKept /\ ClearedIsNotDue)'
  <2> SUFFICES ASSUME FreshSavesHaveDue, DueIsKept, ClearedIsNotDue
               PROVE  (FreshSavesHaveDue /\ DueIsKept /\ ClearedIsNotDue)'
    BY DEF StoreInv
  <2>1. FreshSavesHaveDue'
    <3> SUFFICES ASSUME NEW u \in Savers, Saving(u), ~stale[u]
                 PROVE  /\ pc'[u] \in {"look", "take"} => Due \subseteq Holds(held[u])
                        /\ pc'[u] = "save" => Due \subseteq Messages(record'[u])
                        /\ pc'[u] = "delete" => Due = {}
      BY <1>5 DEF FreshSavesHaveDue, Due, Holds
    <3>1. CASE u # t
      BY <1>2, <1>3, <3>1, Actors DEF FreshSavesHaveDue
    <3>2. CASE u = t
      BY <1>1, <1>2, <1>3, <3>2 DEF FreshSavesHaveDue
    <3> QED
      BY <3>1, <3>2
  <2>2. DueIsKept'
    BY DEF DueIsKept, Due, Holds, InTable
  <2>3. ClearedIsNotDue'
    BY <1>1, <1>2, <1>5, Actors DEF ClearedIsNotDue, Due
  <2> QED
    BY <2>1, <2>2, <2>3
<1> QED
  BY <1>2, <1>4, <1>6, <1>7, <1>8 DEF StoreInv

\* Who writes to the table outdates every other save, and a load.
LEMMA Outdated ==
    ASSUME TypeOK, NEW a, OutdatesOthers(a)
    PROVE  /\ stale' \in [Savers \cup Instances -> BOOLEAN]
           /\ \A u \in Savers : (stale[u] => stale'[u]) /\ (u # a /\ Saving(u) => stale'[u])
           /\ a # instance /\ phase = "loading" => stale'[instance]
  BY DEF OutdatesOthers, TypeOK, Saving

LEMMA WriteStores ==
    ASSUME StoreInv, NEW t \in Savers, StoreRecord(t) \/ DeleteEmpty(t)
    PROVE  StoreInv'
<1> USE DEF StoreRecord, DeleteEmpty, pluginVars, threadVars, convVars
<1> DEFINE l == Saved(t)
<1>1. l \in {"giveBack", "done"} /\ l \in PCs /\ Engaged(t) /\ Saving(t) /\ Goes(t, l)
  BY DEF Saved, PCs, SavePCs, Engaged, Saving
<1>2. held[t] \in Makers /\ held[t] \in InPlay
  BY <1>1, Actors DEF StoreInv, TypeOK, Holders
<1>3. rowOf' \in {{}, {held[t]}} /\ (rowOf' = {} => row' = {})
  OBVIOUS
<1>4. /\ pc'[t] = l /\ pc' \in [Threads -> PCs]
      /\ \A u \in Threads : u # t => pc'[u] = pc[u]
      /\ Registrations' /\ OldThreadsFrozen'
      /\ Holders'
  BY <1>1, <1>2, <1>3, SaveMove DEF StoreInv
<1>5. /\ stale' \in [Savers \cup Instances -> BOOLEAN]
      /\ \A u \in Savers : (stale[u] => stale'[u]) /\ (u # t /\ Saving(u) => stale'[u])
      /\ phase = "loading" => stale'[instance]
  BY Outdated, Actors DEF StoreInv, TypeOK
<1>6. TypeOK'
  <2>1. record[t] \in Records /\ staleWrite' \in BOOLEAN
    BY DEF StoreInv, TypeOK
  <2>2. row' = {} \/ \E r \in Records : row' = {r}
    BY <2>1
  <2>3. rowOf' \subseteq Makers /\ completed' \subseteq Authors
    BY <1>2, <1>3 DEF StoreInv, TypeOK
  <2> QED
    BY <1>4, <1>5, <2>1, <2>2, <2>3 DEF StoreInv, TypeOK
<1>7. /\ \A u \in Savers : Saving(u)' => Saving(u) /\ u # t /\ stale'[u]
      /\ ~Saving(t)'
  BY <1>1, <1>4, <1>5, Actors DEF Saving, SavePCs
<1>8. OwnMessage'
  BY <1>1, <1>4, <1>7, Actors DEF StoreInv, OwnMessage, Holds, SavePCs, Saving
<1>9. FreshSaves'
  BY <1>7 DEF FreshSaves
<1>10. ~staleWrite' => ~staleWrite /\ ~stale[t]
  BY DEF StoreInv, TypeOK
<1>11. ~staleWrite' => rowOf' \cap gone' = {}
  BY <1>1, <1>3, <1>10 DEF StoreInv, FreshSaves
<1>12. ~staleWrite' /\ "read" \notin failed' => (FreshSavesHaveDue /\ DueIsKept /\ ClearedIsNotDue)'
  <2> SUFFICES ASSUME ~staleWrite', FreshSavesHaveDue, DueIsKept, ClearedIsNotDue
               PROVE  (FreshSavesHaveDue /\ DueIsKept /\ ClearedIsNotDue)'
    BY <1>10 DEF StoreInv
  <2>1. FreshSavesHaveDue'
    BY <1>7 DEF FreshSavesHaveDue
  <2>2. home[t] = instance /\ phase # "loading"
    BY <1>1, <1>10 DEF StoreInv, FreshSaves
  <2>3. CASE DeleteEmpty(t)
    <3>1. Due = {} /\ Due' = {}
      BY <1>1, <1>10, <2>3 DEF FreshSavesHaveDue, Due
    <3> QED
      BY <2>1, <2>2, <3>1 DEF DueIsKept, ClearedIsNotDue
  <2>4. CASE StoreRecord(t)
    <3>1. /\ Due \subseteq Messages(record[t])
          /\ t \in Authors => t \in dropped \cup Messages(record[t])
          /\ Due' \subseteq Due \cup (({t} \cap Authors) \ dropped)
      BY <1>1, <1>10, <2>4 DEF FreshSavesHaveDue, Due, StoreInv, OwnMessage
    <3>2. Due' \subseteq InTable'
      <4>1. InTable' = Messages(record[t])
        BY <2>4 DEF InTable
      <4> QED
        BY <3>1, <4>1
    <3>3. t \in Authors \ dropped => registered[home[t]] = held[t] /\ t \in Holds(held[t])
      BY <1>1 DEF StoreInv, OwnMessage
    <3>4. phase = "up" => IF registered[instance] = None THEN Due' = {}
                          ELSE Due' \subseteq Holds(registered[instance])
      BY <1>2, <2>2, <3>1, <3>3, Actors DEF DueIsKept
    <3>5. DueIsKept'
      BY <2>2, <3>2, <3>4 DEF DueIsKept, Holds
    <3>6. ClearedIsNotDue'
      <4> SUFFICES ASSUME NEW c \in Clears, pc'[c] = "drop",
                          \/ rowOf' = {held[c]}
                          \/ \E u \in Savers : Saving(u)' /\ ~stale'[u] /\ held[u] = held[c]
                   PROVE  Due' = {}
        BY DEF ClearedIsNotDue
      <4>1. pc[c] = "drop" /\ held[c] = held[t]
        BY <1>4, <1>7, <2>4, Actors
      <4>2. Due = {}
        BY <1>1, <1>10, <4>1 DEF ClearedIsNotDue
      <4>3. registered[home[t]] # held[t]
        BY <1>1, <1>2, <4>1, Actors DEF StoreInv, Holders, OldThreadsFrozen
      <4> QED
        BY <3>1, <3>3, <4>2, <4>3
    <3> QED
      BY <2>1, <3>5, <3>6
  <2> QED
    BY <2>3, <2>4
<1> QED
  BY <1>4, <1>6, <1>8, <1>9, <1>11, <1>12 DEF StoreInv

\* Nobody knows a ChatParam that is not in play yet.
LEMMA NotUsedYet ==
    ASSUME StoreInv, NEW m, m \notin InPlay, m # None
    PROVE  /\ m \notin gone /\ m \notin rowOf
           /\ \A i \in Instances : registered[i] # m
           /\ \A u \in Threads : held[u] # m
<1>1. \A x \in gone \cup rowOf : x \in InPlay
  BY DEF StoreInv, Holders
<1>2. \A i \in Instances : registered[i] # None => registered[i] \in InPlay
  BY DEF StoreInv, Registrations
<1>3. \A u \in Threads : held[u] # None => held[u] \in InPlay
  BY DEF StoreInv, Holders
<1>4. m \notin gone /\ m \notin rowOf
  BY <1>1
<1>5. ASSUME NEW i \in Instances, registered[i] = m PROVE FALSE
  BY <1>2, <1>5
<1>6. ASSUME NEW u \in Threads, held[u] = m PROVE FALSE
  BY <1>3, <1>6
<1> QED
  BY <1>4, <1>5, <1>6

\* A step that a command begins with: it finds the registered conversation, or
\* creates one that nobody had.
LEMMA FindStores ==
    ASSUME StoreInv, NEW t \in Threads, NEW l \in PCs, Goes(t, l), phase = "up", pc[t] = "idle",
           l \notin SavePCs \cup {"idle", "drop"},
           l = "check" => t \notin Authors,
           \/ registered' = registered /\ held' = [held EXCEPT ![t] = registered[instance]]
           \/ /\ registered[instance] = None /\ t \in Makers
              /\ registered' = [registered EXCEPT ![instance] = t]
              /\ held' = [held EXCEPT ![t] = t],
           home' = [home EXCEPT ![t] = instance],
           registered'[instance] = None => l = "done",
           UNCHANGED <<pluginVars, convVars, row, record, stale, staleWrite, completed,
                       dropped, rowOf, gone, failed>>
    PROVE  StoreInv'
<1> USE DEF pluginVars, convVars
<1>1. /\ pc'[t] = l /\ pc' \in [Threads -> PCs]
      /\ \A u \in Threads : u # t => pc'[u] = pc[u]
  BY GoingOn DEF StoreInv
<1>2. /\ instance \in Instances /\ instance \in Nat /\ registered[instance] \in Makers \cup {None}
      /\ registered \in [Instances -> Makers \cup {None}]
      /\ held \in [Threads -> Makers \cup {None}] /\ home \in [Threads -> Instances \cup {0}]
  BY Actors DEF StoreInv, TypeOK
<1>3. TypeOK'
  BY <1>1, <1>2 DEF StoreInv, TypeOK
<1>4. InPlay \subseteq InPlay'
  BY <1>1, InPlayStays DEF StoreInv
<1>5. /\ held'[t] = registered'[instance] /\ home'[t] = instance
      /\ \A u \in Threads : u # t => held'[u] = held[u] /\ home'[u] = home[u]
      /\ \A i \in Instances : i # instance => registered'[i] = registered[i]
      /\ \/ registered'[instance] = registered[instance]
         \/ registered[instance] = None /\ registered'[instance] = t /\ t # None
  BY <1>2, Actors
<1>6. t \notin InPlay /\ t \in InPlay'
  BY <1>1, Actors DEF InPlay
<1>7. /\ \A u \in Threads : u # t => (Engaged(u)' <=> Engaged(u)) /\ (Saving(u)' <=> Saving(u))
      /\ ~Saving(t)'
  BY <1>1 DEF Engaged, Saving
<1>8. Registrations'
  <2> SUFFICES ASSUME NEW i \in Instances
               PROVE  /\ registered'[i] # None => registered'[i] \in InPlay' /\ registered'[i] \notin gone
                      /\ i > instance => registered'[i] = None
                      /\ ~(i = instance /\ phase = "loading")
                      /\ \A j \in Instances :
                            registered'[i] = registered'[j] => i = j \/ registered'[i] = None
    BY DEF Registrations
  <2>1. \A j \in Instances :
            /\ registered[j] # None => registered[j] \in InPlay' /\ registered[j] \notin gone
            /\ j > instance => registered[j] = None
            /\ \A k \in Instances :
                  registered[j] = registered[k] => j = k \/ registered[j] = None
    BY <1>4 DEF StoreInv, Registrations
  <2>2. CASE registered'[instance] = registered[instance]
    <3>1. \A j \in Instances : registered'[j] = registered[j]
      BY <1>5, <2>2
    <3> QED
      BY <2>1, <3>1
  <2>3. CASE registered'[instance] = t /\ t # None
    <3>1. t \notin gone /\ \A j \in Instances : registered[j] # t
      BY <1>6, <2>3, NotUsedYet
    <3>2. ~(instance > instance)
      BY <1>2
    <3>3. \A j \in Instances : registered'[j] = IF j = instance THEN t ELSE registered[j]
      BY <1>5, <2>3
    <3> QED
      BY <1>6, <2>1, <3>1, <3>2, <3>3, <2>3
  <2> QED
    BY <1>5, <2>2, <2>3
<1>9. Holders'
  <2>1. \A u \in Threads : held'[u] # None => held'[u] \in InPlay'
    <3>1. registered'[instance] # None => registered'[instance] \in InPlay'
      BY <1>2, <1>8 DEF Registrations
    <3>2. \A u \in Threads : held[u] # None => held[u] \in InPlay'
      BY <1>4 DEF StoreInv, Holders
    <3> QED
      BY <1>5, <3>1, <3>2
  <2>2. \A u \in Savers : Engaged(u)' => held'[u] # None
    BY <1>1, <1>5, <1>7, Actors DEF StoreInv, Holders, Engaged
  <2>3. \A c \in Clears : pc'[c] = "drop" /\ held'[c] # None =>
            \A i \in Instances : registered'[i] # held'[c]
    <3> SUFFICES ASSUME NEW c \in Clears, pc'[c] = "drop", held'[c] # None, NEW i \in Instances
                 PROVE  registered'[i] # held'[c]
      OBVIOUS
    <3>1. c # t /\ pc[c] = "drop" /\ held'[c] = held[c]
      BY <1>1, <1>5, Actors
    <3>2. (t # None => held[c] # t) /\ registered[i] # held[c]
      BY <1>6, <3>1, NotUsedYet, Actors DEF StoreInv, Holders
    <3> QED
      BY <1>5, <3>1, <3>2
  <2>4. gone \cup rowOf \subseteq InPlay' /\ (rowOf = {} => row = {})
    BY <1>4 DEF StoreInv, Holders
  <2> QED
    BY <2>1, <2>2, <2>3, <2>4 DEF Holders
<1>10. OldThreadsFrozen'
  BY <1>2, <1>5, <1>7 DEF StoreInv, OldThreadsFrozen
<1>11. OwnMessage'
  <2> SUFFICES ASSUME NEW u \in Authors
               PROVE  /\ pc'[u] = "check" => u \in dropped \cup Holds(held'[u])
                      /\ Saving(u)' => u \in dropped
                            \/ (registered'[home'[u]] = held'[u] /\ u \in Holds(held'[u]))
                      /\ pc'[u] = "save" => u \in dropped \cup Messages(record[u])
    BY DEF OwnMessage, Holds
  <2>1. CASE u = t
    BY <1>1, <1>7, <2>1 DEF SavePCs
  <2>2. CASE u # t
    <3>1. pc'[u] = pc[u] /\ held'[u] = held[u] /\ home'[u] = home[u] /\ (Saving(u)' <=> Saving(u))
      BY <1>1, <1>5, <1>7, <2>2, Actors
    <3>2. Saving(u) => held[u] # None /\ home[u] \in Instances
      BY Actors DEF StoreInv, Holders, OldThreadsFrozen, Saving, Engaged, SavePCs
    <3> QED
      BY <1>5, <3>1, <3>2 DEF StoreInv, OwnMessage
  <2> QED
    BY <2>1, <2>2
<1>12. FreshSaves'
  BY <1>5, <1>7, Actors DEF StoreInv, FreshSaves
<1>13. ~staleWrite /\ "read" \notin failed => (FreshSavesHaveDue /\ DueIsKept /\ ClearedIsNotDue)'
  <2> SUFFICES ASSUME FreshSavesHaveDue, DueIsKept, ClearedIsNotDue
               PROVE  (FreshSavesHaveDue /\ DueIsKept /\ ClearedIsNotDue)'
    BY DEF StoreInv
  <2>1. FreshSavesHaveDue'
    BY <1>1, <1>5, <1>7, Actors DEF FreshSavesHaveDue, Due, Holds
  <2>2. DueIsKept'
    BY <1>5 DEF DueIsKept, Due, Holds, InTable
  <2>3. ClearedIsNotDue'
    BY <1>1, <1>5, <1>7, Actors DEF ClearedIsNotDue, Due
  <2> QED
    BY <2>1, <2>2, <2>3
<1> QED
  BY <1>3, <1>8, <1>9, <1>10, <1>11, <1>12, <1>13 DEF StoreInv

LEMMA FindsStore ==
    ASSUME StoreInv, NEW t \in Savers,
           \/ t \in Rounds /\ AskFindsConversation(t)
           \/ t \in Senders /\ RelayFindsConversation(t)
           \/ t \in Switches /\ SwitchFindsConversation(t)
    PROVE  StoreInv'
<1> USE DEF convVars
<1>1. /\ t \in Threads /\ {"claim", "append", "done", "check"} \subseteq PCs
      /\ {"claim", "append", "done", "check"} \cap (SavePCs \cup {"idle", "drop"}) = {}
  BY Actors DEF PCs, SavePCs
<1>2. registered \in [Instances -> Makers \cup {None}] /\ (phase = "up" => instance \in Instances)
  BY DEF StoreInv, TypeOK
<1>3. CASE t \in Rounds /\ AskFindsConversation(t)
  <2>1. t \in Makers /\ t # None /\ Goes(t, "claim")
    BY <1>3, Actors DEF AskFindsConversation
  <2>2. registered'[instance] # None
    BY <1>2, <1>3, <2>1 DEF AskFindsConversation
  <2> QED
    BY <1>1, <1>3, <2>1, <2>2, FindStores DEF AskFindsConversation
<1>4. CASE RelayFindsConversation(t)
  <2>1. CASE registered[instance] = None
    BY <1>1, <1>4, <2>1, FindStores DEF RelayFindsConversation
  <2>2. CASE registered[instance] # None
    BY <1>1, <1>4, <2>2, FindStores DEF RelayFindsConversation
  <2> QED
    BY <2>1, <2>2
<1>5. CASE t \in Switches /\ SwitchFindsConversation(t)
  <2>1. t \in Makers /\ t # None /\ t \notin Authors
    BY <1>5, Actors
  <2>2. CASE registered[instance] = None
    <3>1. Goes(t, "done") /\ registered'[instance] # None
      BY <1>2, <1>5, <2>1, <2>2 DEF SwitchFindsConversation
    <3> QED
      BY <1>1, <1>5, <2>1, <2>2, <3>1, FindStores DEF SwitchFindsConversation
  <2>3. CASE registered[instance] # None
    <3>1. PICK l \in {"claim", "check"} : Goes(t, l)
      BY <1>5, <2>3 DEF SwitchFindsConversation
    <3> QED
      BY <1>1, <1>5, <2>1, <2>3, <3>1, FindStores DEF SwitchFindsConversation
  <2> QED
    BY <2>2, <2>3
<1> QED
  BY <1>3, <1>4, <1>5

\* A step that writes or drops messages of a conversation: what it takes from it
\* is dropped, and its author has its message there.
LEMMA WriteMemoryStores ==
    ASSUME StoreInv, NEW t \in Savers, NEW l \in PCs, Goes(t, l), Engaged(t), ~Saving(t),
           l \notin SavePCs \cup {"idle", "drop"},
           history' \in [Makers -> SUBSET Authors], queue' \in [Makers -> SUBSET Authors],
           dropped' \in SUBSET Authors, dropped \subseteq dropped',
           \A m \in Makers : Holds(m) \subseteq Holds(m)' \cup dropped',
           l = "check" => t \in Holds(held[t])',
           UNCHANGED <<pluginVars, registered, owned, row, threadVars, stale, staleWrite,
                       completed, rowOf, gone, failed>>
    PROVE  StoreInv'
<1> USE DEF pluginVars, threadVars
<1>1. /\ pc'[t] = l /\ pc' \in [Threads -> PCs]
      /\ \A u \in Threads : u # t => pc'[u] = pc[u]
  BY GoingOn, Actors DEF StoreInv
<1>2. TypeOK'
  BY <1>1 DEF StoreInv, TypeOK
<1>3. InPlay \subseteq InPlay'
  BY <1>1, InPlayStays DEF StoreInv, Engaged
<1>4. /\ \A u \in Threads : Engaged(u)' => Engaged(u)
      /\ \A u \in Threads : Saving(u)' => Saving(u) /\ pc'[u] = pc[u] /\ u # t
      /\ \A u \in Threads : pc'[u] = "drop" => pc[u] = "drop"
      /\ \A u \in Threads : pc'[u] = "check" => pc[u] = "check" \/ u = t
  BY <1>1 DEF Engaged, Saving
<1>5. Registrations'
  BY <1>3 DEF StoreInv, Registrations
<1>6. Holders'
  BY <1>3, <1>4, Actors DEF StoreInv, Holders
<1>7. OldThreadsFrozen'
  BY <1>4 DEF StoreInv, OldThreadsFrozen
<1>8. \A u \in Savers : pc[u] = "check" \/ Saving(u) => held[u] \in Makers
  BY Actors DEF StoreInv, TypeOK, Holders, Engaged, Saving, SavePCs
<1>9. OwnMessage'
  <2> SUFFICES ASSUME NEW u \in Authors
               PROVE  /\ pc'[u] = "check" => u \in dropped' \cup Holds(held[u])'
                      /\ Saving(u)' => u \in dropped'
                            \/ (registered[home[u]] = held[u] /\ u \in Holds(held[u])')
                      /\ pc'[u] = "save" => u \in dropped' \cup Messages(record[u])
    BY DEF OwnMessage, Holds
  <2>1. u \in Threads /\ u \in Savers
    BY Actors
  <2>2. pc'[u] = "check" => u \in dropped' \cup Holds(held[u])'
    BY <1>1, <1>4, <1>8, <2>1 DEF StoreInv, OwnMessage
  <2>3. Saving(u)' => u \in dropped'
                        \/ (registered[home[u]] = held[u] /\ u \in Holds(held[u])')
    BY <1>4, <1>8, <2>1 DEF StoreInv, OwnMessage
  <2>4. pc'[u] = "save" => u \in dropped' \cup Messages(record[u])
    BY <1>4, <2>1 DEF StoreInv, OwnMessage, Saving, SavePCs
  <2> QED
    BY <2>2, <2>3, <2>4
<1>10. FreshSaves'
  BY <1>4, Actors DEF StoreInv, FreshSaves
<1>11. ~staleWrite /\ "read" \notin failed => (FreshSavesHaveDue /\ DueIsKept /\ ClearedIsNotDue)'
  <2> SUFFICES ASSUME FreshSavesHaveDue, DueIsKept, ClearedIsNotDue
               PROVE  (FreshSavesHaveDue /\ DueIsKept /\ ClearedIsNotDue)'
    BY DEF StoreInv
  <2>1. /\ Due' \subseteq Due
        /\ \A m \in Makers : Due \subseteq Holds(m) => Due' \subseteq Holds(m)'
    BY DEF Due
  <2>2. FreshSavesHaveDue'
    <3> SUFFICES ASSUME NEW u \in Savers, Saving(u)', ~stale[u]
                 PROVE  /\ pc'[u] \in {"look", "take"} => Due' \subseteq Holds(held[u])'
                        /\ pc'[u] = "save" => Due' \subseteq Messages(record[u])
                        /\ pc'[u] = "delete" => Due' = {}
      BY DEF FreshSavesHaveDue, Holds
    <3> QED
      BY <1>4, <1>8, <2>1, Actors DEF FreshSavesHaveDue
  <2>3. DueIsKept'
    <3>1. phase = "up" => registered[instance] \in Makers \cup {None}
      BY DEF StoreInv, TypeOK
    <3>2. phase = "up" => IF registered[instance] = None THEN Due' = {}
                          ELSE Due' \subseteq Holds(registered[instance])'
      BY <2>1, <3>1 DEF DueIsKept
    <3> QED
      BY <2>1, <3>2 DEF DueIsKept, InTable, Holds
  <2>4. ClearedIsNotDue'
    BY <1>4, <2>1, Actors DEF ClearedIsNotDue
  <2> QED
    BY <2>2, <2>3, <2>4
<1> QED
  BY <1>2, <1>5, <1>6, <1>7, <1>9, <1>10, <1>11 DEF StoreInv

LEMMA WritesStore ==
    ASSUME StoreInv, NEW t \in Savers,
           \/ t \in Rounds /\ RoundWrites(t)
           \/ t \in Senders /\ RelayAppends(t)
           \/ t \in Switches /\ SwitchClearsHistory(t)
    PROVE  StoreInv'
<1>1. /\ {"check", "giveBack"} \subseteq PCs
      /\ {"check", "giveBack"} \cap (SavePCs \cup {"idle", "drop"}) = {}
      /\ {"round", "append", "rewrite"} \cap (SavePCs \cup {"idle", "done"}) = {}
  BY DEF PCs, SavePCs
<1>2. /\ history \in [Makers -> SUBSET Authors] /\ queue \in [Makers -> SUBSET Authors]
      /\ dropped \in SUBSET Authors
  BY DEF StoreInv, TypeOK
<1>3. Engaged(t) => held[t] \in Makers
  BY Actors DEF StoreInv, TypeOK, Holders
<1>4. pc[t] \in {"round", "append", "rewrite"} => Engaged(t) /\ ~Saving(t)
  BY <1>1 DEF Engaged, Saving
<1>5. CASE t \in Rounds /\ RoundWrites(t)
  <2>1. /\ history' \in [Makers -> SUBSET Authors] /\ queue' \in [Makers -> SUBSET Authors]
        /\ t \in Holds(held[t])'
        /\ \A m \in Makers : Holds(m) \subseteq Holds(m)'
    <3>1. /\ held'[t] = held[t] /\ held[t] \in Makers /\ t \in Authors
          /\ history' = [history EXCEPT ![held[t]] = @ \cup queue[held[t]] \cup {t}]
          /\ queue' = [queue EXCEPT ![held[t]] = {}]
      BY <1>3, <1>4, <1>5, Actors DEF RoundWrites, threadVars
    <3>2. \A m \in Makers : m # held[t] => history'[m] = history[m] /\ queue'[m] = queue[m]
      BY <1>2, <3>1
    <3>3. history'[held[t]] = history[held[t]] \cup queue[held[t]] \cup {t}
      BY <1>2, <3>1
    <3> QED
      BY <1>2, <3>1, <3>2, <3>3 DEF Holds
  <2> QED
    BY <1>1, <1>2, <1>4, <1>5, <2>1, WriteMemoryStores DEF RoundWrites
<1>6. CASE t \in Senders /\ RelayAppends(t)
  <2>1. /\ history' \in [Makers -> SUBSET Authors] /\ queue' \in [Makers -> SUBSET Authors]
        /\ t \in Holds(held[t])'
        /\ \A m \in Makers : Holds(m) \subseteq Holds(m)'
    BY <1>2, <1>3, <1>4, <1>6, Actors DEF RelayAppends, Holds, threadVars
  <2> QED
    BY <1>1, <1>2, <1>4, <1>6, <2>1, WriteMemoryStores DEF RelayAppends
<1>7. CASE t \in Switches /\ SwitchClearsHistory(t)
  <2>1. /\ history' \in [Makers -> SUBSET Authors] /\ queue' \in [Makers -> SUBSET Authors]
        /\ dropped' \in SUBSET Authors /\ dropped \subseteq dropped'
        /\ \A m \in Makers : Holds(m) \subseteq Holds(m)' \cup dropped'
    BY <1>2, <1>3, <1>4, <1>7 DEF SwitchClearsHistory, Holds, threadVars
  <2> QED
    BY <1>1, <1>4, <1>7, <2>1, WriteMemoryStores DEF SwitchClearsHistory
<1> QED
  BY <1>5, <1>6, <1>7

\* The first step of a clear drops whatever is due.
LEMMA ClearUnregistersStores ==
    ASSUME StoreInv, NEW c \in Clears, ClearUnregisters(c)
    PROVE  StoreInv'
<1> USE DEF ClearUnregisters, pluginVars, convVars
<1>1. c \in Threads /\ c \notin Savers /\ c \notin Authors /\ "drop" \in PCs /\ "drop" \notin SavePCs
  BY Actors DEF PCs, SavePCs
<1>2. instance \in Instances /\ registered[instance] \in Makers \cup {None} /\ instance \in Nat
  BY Actors DEF StoreInv, TypeOK
<1>3. /\ pc'[c] = "drop" /\ pc' \in [Threads -> PCs]
      /\ \A u \in Threads : u # c => pc'[u] = pc[u]
  BY <1>1, GoingOn DEF StoreInv
<1>4. /\ held'[c] = registered[instance] /\ home'[c] = instance
      /\ \A u \in Threads : u # c => held'[u] = held[u] /\ home'[u] = home[u]
      /\ \A i \in Instances : registered'[i] = IF i = instance THEN None ELSE registered[i]
  BY <1>1 DEF StoreInv, TypeOK
<1>5. TypeOK'
  <2>1. dropped' \subseteq Authors
    BY <1>2 DEF StoreInv, TypeOK, Holds
  <2>2. /\ registered' \in [Instances -> Makers \cup {None}]
        /\ held' \in [Threads -> Makers \cup {None}] /\ home' \in [Threads -> Instances \cup {0}]
    BY <1>2 DEF StoreInv, TypeOK
  <2> QED
    BY <1>3, <2>1, <2>2 DEF StoreInv, TypeOK
<1>6. InPlay \subseteq InPlay'
  BY <1>3, InPlayStays DEF StoreInv
<1>7. \A u \in Savers : (Saving(u)' <=> Saving(u)) /\ pc'[u] = pc[u] /\ held'[u] = held[u]
                        /\ home'[u] = home[u] /\ u \in Threads
  BY <1>1, <1>3, <1>4, Actors DEF Saving
<1>8. Registrations'
  BY <1>4, <1>6 DEF StoreInv, Registrations
<1>9. Holders'
  <2>1. \A u \in Threads : held'[u] # None => held'[u] \in InPlay'
    BY <1>2, <1>4, <1>6 DEF StoreInv, Holders, Registrations
  <2>2. \A u \in Savers : Engaged(u)' => held'[u] # None
    BY <1>7 DEF StoreInv, Holders, Engaged
  <2>3. \A d \in Clears : pc'[d] = "drop" /\ held'[d] # None =>
            \A i \in Instances : registered'[i] # held'[d]
    <3> SUFFICES ASSUME NEW d \in Clears, pc'[d] = "drop", held'[d] # None, NEW i \in Instances,
                        i # instance
                 PROVE  registered[i] # held'[d]
      BY <1>4
    <3>1. CASE d = c
      BY <1>2, <1>4, <3>1 DEF StoreInv, Registrations
    <3>2. CASE d # c
      BY <1>3, <1>4, <3>2, Actors DEF StoreInv, Holders
    <3> QED
      BY <3>1, <3>2
  <2> QED
    BY <1>6, <2>1, <2>2, <2>3 DEF StoreInv, Holders
<1>10. OldThreadsFrozen'
  BY <1>2, <1>3, <1>4 DEF StoreInv, OldThreadsFrozen, Engaged
<1>11. OwnMessage'
  <2> SUFFICES ASSUME NEW u \in Authors
               PROVE  /\ pc[u] = "check" => u \in dropped' \cup Holds(held[u])
                      /\ Saving(u) => u \in dropped'
                            \/ (registered'[home[u]] = held[u] /\ u \in Holds(held[u]))
                      /\ pc[u] = "save" => u \in dropped' \cup Messages(record[u])
    BY <1>7, Actors DEF OwnMessage, Holds
  <2>1. dropped \subseteq dropped'
    OBVIOUS
  <2>2. Saving(u) => held[u] # None /\ home[u] \in Instances
    BY Actors DEF StoreInv, Holders, OldThreadsFrozen, Saving, Engaged, SavePCs
  <2>3. registered[instance] = held[u] /\ held[u] # None /\ u \in Holds(held[u]) => u \in dropped'
    BY <1>2
  <2> QED
    BY <1>4, <2>1, <2>2, <2>3 DEF StoreInv, OwnMessage
<1>12. FreshSaves'
  BY <1>7 DEF StoreInv, FreshSaves
<1>13. ~staleWrite /\ "read" \notin failed => (FreshSavesHaveDue /\ DueIsKept /\ ClearedIsNotDue)'
  <2> SUFFICES ASSUME DueIsKept
               PROVE  (FreshSavesHaveDue /\ DueIsKept /\ ClearedIsNotDue)'
    BY DEF StoreInv
  <2>1. Due' = {}
    BY DEF DueIsKept, Due
  <2> QED
    BY <2>1, <1>2, <1>4 DEF FreshSavesHaveDue, DueIsKept, ClearedIsNotDue
<1> QED
  BY <1>5, <1>8, <1>9, <1>10, <1>11, <1>12, <1>13 DEF StoreInv

\* The deletion takes no row but the cleared conversation's, or someone was late.
LEMMA ClearDeletesStores ==
    ASSUME StoreInv, NEW c \in Clears, ClearDeletesRow(c)
    PROVE  StoreInv'
<1> USE DEF ClearDeletesRow, pluginVars, convVars, threadVars
<1>1. c \in Threads /\ c \notin Savers /\ c \notin Authors /\ "done" \in PCs
      /\ "done" \notin SavePCs /\ held[c] \in Makers \cup {None} /\ None \notin Makers
  BY Actors DEF PCs, SavePCs, StoreInv, TypeOK
<1>2. /\ pc'[c] = "done" /\ pc' \in [Threads -> PCs]
      /\ \A u \in Threads : u # c => pc'[u] = pc[u]
  BY <1>1, GoingOn DEF StoreInv
<1>3. /\ stale' \in [Savers \cup Instances -> BOOLEAN]
      /\ \A u \in Savers : /\ stale[u] => stale'[u]
                           /\ Saving(u) /\ held[u] = held[c] => stale'[u]
  BY DEF StoreInv, TypeOK, Saving
<1>4. TypeOK'
  BY <1>1, <1>2, <1>3 DEF StoreInv, TypeOK
<1>5. InPlay \subseteq InPlay'
  BY <1>2, InPlayStays DEF StoreInv
<1>6. \A u \in Savers : (Saving(u)' <=> Saving(u)) /\ pc'[u] = pc[u]
  BY <1>1, <1>2, Actors DEF Saving
<1>7. Registrations'
  BY <1>1, <1>5 DEF StoreInv, Registrations, Holders
<1>8. Holders'
  <2>1. gone' \subseteq InPlay'
    BY <1>1, <1>5 DEF StoreInv, Holders
  <2> QED
    BY <1>2, <1>5, <1>6, <2>1, Actors DEF StoreInv, Holders, Engaged
<1>9. OldThreadsFrozen'
  BY <1>2 DEF StoreInv, OldThreadsFrozen, Engaged
<1>10. OwnMessage'
  BY <1>6, Actors DEF StoreInv, OwnMessage, Holds
<1>11. FreshSaves'
  BY <1>3, <1>6 DEF StoreInv, FreshSaves
<1>12. ~staleWrite' /\ "read" \notin failed' => (FreshSavesHaveDue /\ DueIsKept /\ ClearedIsNotDue)'
  <2> SUFFICES ASSUME ~staleWrite', FreshSavesHaveDue, DueIsKept, ClearedIsNotDue
               PROVE  (FreshSavesHaveDue /\ DueIsKept /\ ClearedIsNotDue)'
    BY DEF StoreInv
  <2>1. rowOf \subseteq {held[c]}
    OBVIOUS
  <2>2. Due = {}
    <3>1. CASE rowOf = {}
      BY <3>1 DEF StoreInv, Holders, DueIsKept, InTable
    <3>2. CASE rowOf = {held[c]}
      BY <3>2 DEF ClearedIsNotDue
    <3> QED
      BY <2>1, <3>1, <3>2
  <2>3. Due' = {}
    BY <2>2 DEF Due
  <2> QED
    BY <2>3 DEF FreshSavesHaveDue, DueIsKept, ClearedIsNotDue
<1>13. rowOf' \cap gone' = {}
  OBVIOUS
<1> QED
  BY <1>4, <1>7, <1>8, <1>9, <1>10, <1>11, <1>12, <1>13 DEF StoreInv

\* A load outdates every save that is still on its way.
LEMMA LoadReadsStores ==
    ASSUME StoreInv, NEW i \in Instances, LoadReads(i)
    PROVE  StoreInv'
<1> USE DEF LoadReads, convVars, threadVars
<1>1. i \in Nat /\ instance \in Nat /\ i = instance + 1 /\ Instances \subseteq Nat
  BY Actors DEF StoreInv, TypeOK
<1>2. TypeOK'
  <2>1. stale' \in [Savers \cup Instances -> BOOLEAN]
    BY DEF StoreInv, TypeOK
  <2> QED
    BY <2>1 DEF StoreInv, TypeOK
<1>3. InPlay \subseteq InPlay'
  BY <1>1, InPlayStays DEF StoreInv
<1>4. Registrations'
  BY <1>1, <1>3 DEF StoreInv, Registrations
<1>5. Holders'
  BY <1>3 DEF StoreInv, Holders, Engaged
<1>6. OldThreadsFrozen'
  <2>1. \A j \in Instances : frozen[j] => frozen'[j]
    BY <1>1 DEF StoreInv, OldThreadsFrozen, TypeOK
  <2>2. \A j \in Instances : j > instance' => ~frozen'[j]
    BY <1>1 DEF StoreInv, OldThreadsFrozen, TypeOK
  <2> QED
    BY <2>1, <2>2 DEF StoreInv, OldThreadsFrozen, Engaged
<1>7. OwnMessage'
  BY DEF StoreInv, OwnMessage, Holds, Saving
<1>8. \A u \in Savers : ~(Saving(u)' /\ ~stale'[u])
  BY DEF Saving
<1>9. FreshSaves'
  BY <1>8 DEF FreshSaves
<1>10. ~staleWrite /\ "read" \notin failed => (FreshSavesHaveDue /\ DueIsKept /\ ClearedIsNotDue)'
  <2> SUFFICES ASSUME DueIsKept, ClearedIsNotDue
               PROVE  (FreshSavesHaveDue /\ DueIsKept /\ ClearedIsNotDue)'
    BY DEF StoreInv
  <2>1. FreshSavesHaveDue'
    BY <1>8 DEF FreshSavesHaveDue
  <2>2. DueIsKept'
    BY DEF DueIsKept, Due, InTable
  <2>3. ClearedIsNotDue'
    BY <1>8 DEF ClearedIsNotDue, Due
  <2> QED
    BY <2>1, <2>2, <2>3
<1> QED
  BY <1>2, <1>4, <1>5, <1>6, <1>7, <1>9, <1>10 DEF StoreInv

\* While an instance loads, no save is up to date, and nobody uses its ChatParam.
LEMMA Loading ==
    ASSUME StoreInv, NEW i \in Instances, phase = "loading", i = instance
    PROVE  /\ \A u \in Savers : Saving(u) => stale[u]
           /\ i \notin InPlay /\ i \in Makers /\ i # None /\ registered[i] = None
           /\ i \notin gone /\ \A u \in Threads : held[u] # i
           /\ \A u \in Threads : Engaged(u) => home[u] \in Instances /\ frozen[home[u]]
<1>1. \A u \in Savers : Saving(u) => stale[u]
  BY DEF StoreInv, FreshSaves
<1>2. i \notin InPlay
  <2>1. i \in Nat /\ i \notin Threads
    BY Actors
  <2> QED
    BY <2>1 DEF InPlay
<1>3. i \in Makers /\ i # None /\ registered[i] = None
  BY Actors DEF StoreInv, Registrations
<1>4. \A u \in Threads : Engaged(u) => home[u] \in Instances /\ frozen[home[u]]
  BY DEF StoreInv, OldThreadsFrozen
<1> QED
  BY <1>1, <1>2, <1>3, <1>4, NotUsedYet

\* The load ends without registering anything: there was no row or an empty one,
\* or it could not be read.
LEMMA LoadFindsNothingStores ==
    ASSUME StoreInv, NEW i \in Instances, phase = "loading", i = instance, phase' = "up",
           failed' \in SUBSET {"read", "write"}, failed \subseteq failed',
           staleWrite' \in BOOLEAN, staleWrite => staleWrite',
           \/ "read" \in failed'
           \/ (staleWrite' <=> staleWrite \/ stale[i]) /\ \A r \in loadedRow : Messages(r) = {},
           \/ UNCHANGED <<row, rowOf, stale>>
           \/ row' = {} /\ rowOf' = {} /\ OutdatesOthers(i),
           UNCHANGED <<instance, frozen, loadedRow, registered, convVars, pc, threadVars, completed,
                       dropped, gone>>
    PROVE  StoreInv'
<1> USE DEF convVars, threadVars
<1>1. /\ stale' \in [Savers \cup Instances -> BOOLEAN]
      /\ \A u \in Savers : stale[u] => stale'[u]
  BY Outdated DEF StoreInv, TypeOK
<1>2. TypeOK'
  BY <1>1 DEF StoreInv, TypeOK
<1>3. InPlay \subseteq InPlay'
  BY InPlayStays DEF StoreInv
<1>4. Registrations'
  BY <1>3 DEF StoreInv, Registrations
<1>5. Holders'
  BY <1>3 DEF StoreInv, Holders, Engaged
<1>6. OldThreadsFrozen'
  BY DEF StoreInv, OldThreadsFrozen, Engaged
<1>7. OwnMessage'
  BY DEF StoreInv, OwnMessage, Holds, Saving
<1>8. \A u \in Savers : ~(Saving(u)' /\ ~stale'[u])
  BY <1>1, Loading DEF Saving
<1>9. FreshSaves'
  BY <1>8 DEF FreshSaves
<1>10. ~staleWrite' /\ "read" \notin failed' => (FreshSavesHaveDue /\ DueIsKept /\ ClearedIsNotDue)'
  <2> SUFFICES ASSUME ~staleWrite', "read" \notin failed', DueIsKept, ClearedIsNotDue
               PROVE  (FreshSavesHaveDue /\ DueIsKept /\ ClearedIsNotDue)'
    BY DEF StoreInv
  <2>1. Due = {} /\ Due' = {}
    BY DEF DueIsKept, Due
  <2>2. registered[i] = None
    BY Loading
  <2> QED
    BY <1>8, <2>1, <2>2 DEF FreshSavesHaveDue, DueIsKept, ClearedIsNotDue
<1>11. ~staleWrite' => rowOf' \cap gone' = {}
  BY DEF StoreInv, TypeOK
<1> QED
  BY <1>2, <1>4, <1>5, <1>6, <1>7, <1>9, <1>10, <1>11 DEF StoreInv

LEMMA LoadRestoresStores ==
    ASSUME StoreInv, NEW i \in Instances, phase = "loading", i = instance, phase' = "up",
           staleWrite' = (staleWrite \/ stale[i]),
           NEW r \in loadedRow, Restore(i, r), rowOf' = {i},
           registered' = [registered EXCEPT ![i] = i],
           UNCHANGED <<instance, frozen, loadedRow, owned, row, pc, threadVars, stale, completed,
                       dropped, gone, failed>>
    PROVE  StoreInv'
<1> USE DEF threadVars
<1>1. /\ i \notin InPlay /\ i \in Makers /\ i # None /\ i \notin gone
      /\ \A u \in Threads : held[u] # i
      /\ \A u \in Threads : Engaged(u) => home[u] \in Instances /\ frozen[home[u]]
      /\ i \in InPlay' /\ registered[i] = None
  BY Loading DEF InPlay
<1>2. r \in Records /\ loadedRow = {r}
  BY DEF StoreInv, TypeOK
<1>3. /\ history' \in [Makers -> SUBSET Authors] /\ queue' \in [Makers -> SUBSET Authors]
      /\ Holds(i)' = Messages(r)
      /\ \A m \in Makers : m # i => Holds(m)' = Holds(m)
  BY <1>1, <1>2 DEF StoreInv, TypeOK, Restore, Records, Messages, Holds
<1>4. /\ registered'[i] = i
      /\ \A j \in Instances : j # i => registered'[j] = registered[j]
      /\ registered' \in [Instances -> Makers \cup {None}]
  BY <1>1 DEF StoreInv, TypeOK
<1>5. TypeOK'
  BY <1>1, <1>3, <1>4 DEF StoreInv, TypeOK
<1>6. InPlay \subseteq InPlay'
  BY InPlayStays DEF StoreInv
<1>7. \A j \in Instances : registered[j] # i
  BY <1>1, NotUsedYet
<1>8. Registrations'
  <2>1. instance \in Nat
    BY Actors
  <2> QED
    BY <1>1, <1>4, <1>6, <1>7, <2>1 DEF StoreInv, Registrations
<1>9. Holders'
  <2>1. \A c \in Clears : pc[c] = "drop" /\ held[c] # None =>
            \A j \in Instances : registered'[j] # held[c]
    BY <1>1, <1>4, Actors DEF StoreInv, Holders
  <2> QED
    BY <1>1, <1>6, <2>1 DEF StoreInv, Holders, Engaged
<1>10. OldThreadsFrozen'
  BY <1>1 DEF StoreInv, OldThreadsFrozen, Engaged
<1>11. \A u \in Authors : pc[u] = "check" \/ Saving(u) =>
           held[u] \in Makers /\ held[u] # i /\ home[u] \in Instances
  BY <1>1, Actors DEF StoreInv, TypeOK, Holders, Engaged, Saving, SavePCs
<1>12. OwnMessage'
  <2> SUFFICES ASSUME NEW u \in Authors
               PROVE  /\ pc[u] = "check" => u \in dropped \cup Holds(held[u])'
                      /\ Saving(u) => u \in dropped
                            \/ (registered'[home[u]] = held[u] /\ u \in Holds(held[u])')
                      /\ pc[u] = "save" => u \in dropped \cup Messages(record[u])
    BY DEF OwnMessage, Holds, Saving
  <2>1. Saving(u) => u \in dropped
                     \/ (registered'[home[u]] = held[u] /\ u \in Holds(held[u])')
    <3>1. Saving(u) /\ home[u] = i /\ registered[home[u]] = held[u] => FALSE
      BY <1>1, Actors DEF StoreInv, Holders, Engaged, Saving, SavePCs
    <3> QED
      BY <1>3, <1>4, <1>11, <3>1 DEF StoreInv, OwnMessage
  <2> QED
    BY <1>3, <1>11, <2>1 DEF StoreInv, OwnMessage
<1>13. \A u \in Savers : ~(Saving(u)' /\ ~stale'[u])
  BY Loading DEF Saving
<1>14. FreshSaves'
  BY <1>13 DEF FreshSaves
<1>15. ~staleWrite' /\ "read" \notin failed' => (FreshSavesHaveDue /\ DueIsKept /\ ClearedIsNotDue)'
  <2> SUFFICES ASSUME ~staleWrite', DueIsKept
               PROVE  (FreshSavesHaveDue /\ DueIsKept /\ ClearedIsNotDue)'
    BY DEF StoreInv
  <2>1. FreshSavesHaveDue'
    BY <1>13 DEF FreshSavesHaveDue
  <2>2. Due' \subseteq Messages(r) /\ Due' \subseteq InTable'
    BY <1>2 DEF DueIsKept, Due, InTable
  <2>3. DueIsKept'
    BY <1>1, <1>3, <1>4, <2>2 DEF DueIsKept
  <2>4. ClearedIsNotDue'
    BY <1>1, <1>13, Actors DEF ClearedIsNotDue
  <2> QED
    BY <2>1, <2>3, <2>4
<1>16. rowOf' \cap gone' = {}
  BY <1>1
<1> QED
  BY <1>5, <1>8, <1>9, <1>10, <1>12, <1>14, <1>15, <1>16 DEF StoreInv

LEMMA LoadEndsStores ==
    ASSUME StoreInv, NEW i \in Instances, LoadRegisters(i) \/ LoadSkips(i)
    PROVE  StoreInv'
<1> USE DEF convVars
<1>1. /\ staleWrite \in BOOLEAN /\ stale[i] \in BOOLEAN /\ failed \in SUBSET {"read", "write"}
      /\ \A r, s \in loadedRow : r = s
  BY DEF StoreInv, TypeOK
<1>2. CASE LoadSkips(i)
  BY <1>1, <1>2, LoadFindsNothingStores DEF LoadSkips
<1>3. CASE LoadRegisters(i)
  <2>1. CASE loadedRow = {} /\ UNCHANGED <<registered, history, queue, row, rowOf, stale>>
    BY <1>1, <1>3, <2>1, LoadFindsNothingStores DEF LoadRegisters
  <2>2. ASSUME NEW r \in loadedRow, Restore(i, r), registered' = [registered EXCEPT ![i] = i],
               rowOf' = {i}, UNCHANGED <<row, stale>>
        PROVE  StoreInv'
    BY <1>3, <2>2, LoadRestoresStores DEF LoadRegisters
  <2>3. ASSUME NEW r \in loadedRow, Messages(r) = {}, row' = {}, rowOf' = {}, OutdatesOthers(i),
               UNCHANGED <<registered, history, queue>>
        PROVE  StoreInv'
    <3>1. \A s \in loadedRow : Messages(s) = {}
      BY <1>1, <2>3
    <3> QED
      BY <1>1, <1>3, <2>3, <3>1, LoadFindsNothingStores DEF LoadRegisters
  <2> QED
    BY <1>3, <2>1, <2>2, <2>3 DEF LoadRegisters
<1> QED
  BY <1>2, <1>3

LEMMA UnloadStores ==
    ASSUME StoreInv, Unload
    PROVE  StoreInv'
<1> USE DEF Unload, convVars, threadVars
<1>1. instance \in Instances /\ instance \in Nat
  BY Actors DEF StoreInv, TypeOK
<1>2. TypeOK'
  BY <1>1 DEF StoreInv, TypeOK
<1>3. InPlay \subseteq InPlay'
  BY InPlayStays DEF StoreInv
<1>4. Registrations'
  BY <1>3 DEF StoreInv, Registrations
<1>5. Holders'
  BY <1>3 DEF StoreInv, Holders, Engaged
<1>6. OldThreadsFrozen'
  <2>1. \A j \in Instances : frozen'[j] <=> frozen[j] \/ j = instance
    BY <1>1 DEF StoreInv, TypeOK
  <2> QED
    BY <1>1, <2>1 DEF StoreInv, OldThreadsFrozen, Engaged
<1>7. OwnMessage'
  BY DEF StoreInv, OwnMessage, Holds, Saving
<1>8. FreshSaves'
  BY DEF StoreInv, FreshSaves, Saving
<1>9. ~staleWrite /\ "read" \notin failed => (FreshSavesHaveDue /\ DueIsKept /\ ClearedIsNotDue)'
  BY DEF StoreInv, FreshSavesHaveDue, DueIsKept, ClearedIsNotDue, Due, Holds, InTable, Saving
<1> QED
  BY <1>2, <1>4, <1>5, <1>6, <1>7, <1>8, <1>9 DEF StoreInv

LEMMA CrashStores ==
    ASSUME StoreInv, Crash
    PROVE  StoreInv'
<1> USE DEF Crash, convVars, threadVars
<1>1. /\ pc' \in [Threads -> PCs]
      /\ \A u \in Threads : pc'[u] \in {"idle", "done"} /\ (pc[u] # "idle" => pc'[u] # "idle")
  BY DEF PCs
<1>2. TypeOK'
  BY <1>1 DEF StoreInv, TypeOK
<1>3. InPlay \subseteq InPlay'
  BY <1>1, InPlayStays DEF StoreInv
<1>4. \A u \in Threads : ~Engaged(u)' /\ ~Saving(u)' /\ pc'[u] # "drop" /\ pc'[u] # "check"
  BY <1>1 DEF Engaged, Saving, SavePCs
<1>5. Registrations'
  BY <1>3 DEF StoreInv, Registrations
<1>6. Holders'
  BY <1>3, <1>4, Actors DEF StoreInv, Holders
<1>7. OldThreadsFrozen'
  BY <1>4 DEF StoreInv, OldThreadsFrozen
<1>8. OwnMessage'
  BY <1>1, <1>4, Actors DEF OwnMessage
<1>9. FreshSaves'
  BY <1>4, Actors DEF FreshSaves
<1>10. ~staleWrite /\ "read" \notin failed => (FreshSavesHaveDue /\ DueIsKept /\ ClearedIsNotDue)'
  BY <1>4, Actors DEF StoreInv, FreshSavesHaveDue, DueIsKept, ClearedIsNotDue, Due, InTable
<1> QED
  BY <1>2, <1>5, <1>6, <1>7, <1>8, <1>9, <1>10 DEF StoreInv

LEMMA StoreStutters ==
    ASSUME StoreInv, UNCHANGED vars
    PROVE  StoreInv'
  BY DEF vars, pluginVars, convVars, threadVars, StoreInv, TypeOK, Registrations, Holders,
     OldThreadsFrozen, OwnMessage, FreshSaves, FreshSavesHaveDue, DueIsKept, ClearedIsNotDue,
     InPlay, Engaged, Saving, Due, Holds, InTable

LEMMA StoreNext == StoreInv /\ [Next]_vars => StoreInv'
<1> SUFFICES ASSUME StoreInv, [Next]_vars PROVE StoreInv'
  OBVIOUS
<1>1. ASSUME NEW t \in Savers, Save(t) PROVE StoreInv'
  BY <1>1, QuietMoves, SaveStartsStores, SaveGoesOnStores, WriteStores DEF Save
<1>2. ASSUME NEW t \in Rounds, Round(t) PROVE StoreInv'
  BY <1>1, <1>2, Actors, FindsStore, WritesStore, QuietMoves DEF Round
<1>3. ASSUME NEW t \in Senders, Deliver(t) PROVE StoreInv'
  BY <1>1, <1>3, Actors, FindsStore, WritesStore DEF Deliver
<1>4. ASSUME NEW t \in Switches, Switch(t) PROVE StoreInv'
  BY <1>1, <1>4, Actors, FindsStore, WritesStore, QuietMoves DEF Switch
<1>5. ASSUME NEW c \in Clears, Clear(c) PROVE StoreInv'
  BY <1>5, ClearUnregistersStores, ClearDeletesStores, ClearFailsStays DEF Clear
<1>6. CASE Plugin
  BY <1>6, LoadReadsStores, LoadEndsStores, UnloadStores, CrashStores DEF Plugin
<1>7. CASE UNCHANGED vars
  BY <1>7, StoreStutters
<1> QED
  BY <1>2, <1>3, <1>4, <1>5, <1>6, <1>7 DEF Next, Terminated

LEMMA StoreAlways == Spec => []StoreInv
  BY StoreInit, StoreNext, PTL DEF Spec

\* Every variable of the stored conversation keeps its type; the user has one row
\* in chat_history at most.
THEOREM HistoryTypes == Spec => []TypeOK
<1>1. StoreInv => TypeOK
  BY DEF StoreInv
<1> QED
  BY <1>1, StoreAlways, PTL

\* What a finished _save_history stored is in the table, over every unload, crash
\* and reload, until a clear or a switch drops it -- unless somebody acted on what
\* it had seen of the row too late, or a load could not read it.
THEOREM RoundsSurvive == Spec => []CompletedRoundsSurvive
<1>1. StoreInv => CompletedRoundsSurvive
  BY DEF StoreInv, CompletedRoundsSurvive, DueIsKept, Due
<1> QED
  BY <1>1, StoreAlways, PTL

\* The table never holds a record of a conversation whose clear is finished, unless
\* a thread had passed the registration test of _save_history before the deletion.
THEOREM ClearsAreFinal == Spec => []ClearIsFinalUnlessStale
<1>1. StoreInv => ClearIsFinalUnlessStale
  BY DEF StoreInv, ClearIsFinalUnlessStale, ClearIsFinal
<1> QED
  BY <1>1, StoreAlways, PTL

=============================================================================
