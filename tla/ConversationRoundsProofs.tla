---------------------- MODULE ConversationRoundsProofs ----------------------
(***************************************************************************)
(* What holds of a conversation whatever the number of its command threads *)
(* and whatever the bounds: the types, the ownership of the round, the     *)
(* effect of a stop, that nothing that was said is lost or overtaken by    *)
(* what was said later, and that every request is well formed.             *)
(***************************************************************************)
EXTENDS ConversationRounds, FiniteSetTheorems, SequenceTheorems, TLAPS

\* A round owner that writes its batch has a question left to write.
BatchInv == \A t \in Askers : pc[t] = "add" => batch[t] # << >>

\* ControlTypeOK is not inductive alone: AddQuestion takes the tail of a batch.
TypeInv == ControlTypeOK /\ BatchInv

-----------------------------------------------------------------------------

\* A new conversation (ChatParam.__init__) is in its types.
LEMMA InitTypeInv == Init => TypeInv
<1> SUFFICES ASSUME Init PROVE TypeInv
  OBVIOUS
<1> USE DEF Init
<1>1. pc \in [Threads -> PCs]
  BY DEF PCs
<1>2. /\ pendingAsks \in Seq(Askers) /\ arrivals \in Seq(Askers)
      /\ batch \in [Askers -> Seq(Askers)]
  BY EmptySeq
<1>3. /\ claimedHere \in [Askers -> BOOLEAN]
      /\ stopped \in [Askers -> {"none", "early", "running", "using"}]
  OBVIOUS
<1>4. BatchInv
  BY DEF BatchInv, Threads
<1> QED
  BY <1>1, <1>2, <1>3, <1>4 DEF TypeInv, ControlTypeOK

\* The steps of a question's thread keep the control state in its types.
LEMMA AskTypeInv ==
    ASSUME TypeInv, NEW t \in Askers, Ask(t)
    PROVE  TypeInv'
<1> USE DEF TypeInv, ControlTypeOK, BatchInv, Goto, PCs, OwningPCs, RoundPCs,
            convVars, roundVars, epochVars, localVars, pastVars
<1>0. t \in Threads
  BY DEF Threads
<1>1. CASE AskClaims(t)
  <2>a. <<t>> \in Seq(Askers) /\ <<t>> # << >>
    OBVIOUS
  <2>b. batch' \in [Askers -> Seq(Askers)]
    BY <1>1, <2>a DEF AskClaims
  <2>1. ControlTypeOK'
    BY <1>0, <1>1, <2>b DEF AskClaims, ClaimRound
  <2>2. BatchInv'
    BY <1>0, <1>1 DEF AskClaims, ClaimRound
  <2> QED  BY <2>1, <2>2
<1>2. CASE AskFindsRound(t)
  BY <1>0, <1>2 DEF AskFindsRound
<1>3. CASE ForcedAdd(t)
  BY <1>0, <1>3 DEF ForcedAdd
<1>4. CASE QueuePendingAsk(t)
  BY <1>0, <1>4 DEF QueuePendingAsk
<1>5. CASE AddQuestion(t)
  <2>1. ControlTypeOK'
    BY <1>0, <1>5 DEF AddQuestion
  <2>a. batch[t] \in Seq(Askers) /\ batch[t] # << >>
    BY <1>5 DEF AddQuestion
  <2>b. Len(batch[t]) # 1 => Tail(batch[t]) # << >>
    <3> DEFINE n == Len(Tail(batch[t]))
    <3>1. n = Len(batch[t]) - 1 /\ Len(batch[t]) \in Nat \ {0}
      BY <2>a, HeadTailProperties, EmptySeq
    <3>2. Tail(batch[t]) = << >> => n = 0
      BY EmptySeq
    <3> HIDE DEF n
    <3> QED  BY <3>1, <3>2
  <2>c. batch'[t] = Tail(batch[t]) /\ \A u \in Askers \ {t} : batch'[u] = batch[u]
    BY <1>5 DEF AddQuestion
  <2>d. /\ Len(batch[t]) = 1 => pc'[t] = "enter"
        /\ \A u \in Askers \ {t} : pc'[u] = pc[u]
    BY <1>0, <1>5 DEF AddQuestion, Threads
  <2>e. pc'[t] = "add" => Len(batch[t]) # 1
    BY <2>d
  <2>2. BatchInv'
    BY <2>b, <2>c, <2>d, <2>e, Zenon DEF BatchInv, TypeInv
  <2> QED  BY <2>1, <2>2
<1>6. CASE EnterRound(t)
  BY <1>0, <1>6 DEF EnterRound
<1>7. CASE BeginRound(t)
  BY <1>0, <1>7 DEF BeginRound
<1>8. CASE MergeLeftover(t)
  BY <1>0, <1>8 DEF MergeLeftover, MergeQueue
<1>9. CASE CheckStop(t)
  BY <1>0, <1>9 DEF CheckStop
<1>10. CASE SendRequest(t)
  BY <1>0, <1>10 DEF SendRequest
<1>11. CASE \E n \in 0..MaxCalls : ReceiveReply(t, n)
  BY <1>0, <1>11 DEF ReceiveReply, StepEnds
<1>12. CASE DiscardReply(t)
  BY <1>0, <1>12 DEF DiscardReply
<1>13. CASE RequestFails(t)
  BY <1>0, <1>13 DEF RequestFails
<1>14. CASE RunToolCall(t)
  BY <1>0, <1>14 DEF RunToolCall, StepEnds
<1>15. CASE SkipToolCalls(t)
  BY <1>0, <1>15 DEF SkipToolCalls
<1>16. CASE MergeQueued(t)
  BY <1>0, <1>16 DEF MergeQueued, MergeQueue
<1>17. CASE AbortRound(t)
  BY <1>0, <1>17 DEF AbortRound
<1>18. CASE ComputeCleaned(t)
  BY <1>0, <1>18 DEF ComputeCleaned
<1>19. CASE ReplaceHistory(t)
  BY <1>0, <1>19 DEF ReplaceHistory
<1>20. CASE LeaveRound(t)
  BY <1>0, <1>20 DEF LeaveRound
<1>21. CASE TakeNextBatch(t)
  <2>a. pendingAsks' \in Seq(Askers) /\ batch' \in [Askers -> Seq(Askers)]
    BY <1>21, EmptySeq DEF TakeNextBatch
  <2>1. ControlTypeOK'
    BY <1>0, <1>21, <2>a DEF TakeNextBatch
  <2>2. BatchInv'
    BY <1>0, <1>21 DEF TakeNextBatch
  <2> QED  BY <2>1, <2>2
<1>22. CASE TakeQueueRound(t)
  <2>1. ControlTypeOK'
    BY <1>0, <1>22 DEF TakeQueueRound
  <2>2. BatchInv'
    BY <1>0, <1>22 DEF TakeQueueRound
  <2> QED  BY <2>1, <2>2
<1>23. CASE FinishSequence(t)
  <2>1. ControlTypeOK'
    BY <1>0, <1>23 DEF FinishSequence
  <2>2. BatchInv'
    BY <1>0, <1>23 DEF FinishSequence
  <2> QED  BY <2>1, <2>2
<1>24. CASE ReleaseAgain(t)
  <2>1. ControlTypeOK'
    BY <1>0, <1>24 DEF ReleaseAgain, ReleaseRound
  <2>2. BatchInv'
    BY <1>0, <1>24 DEF ReleaseAgain, ReleaseRound
  <2> QED  BY <2>1, <2>2
<1>25. CASE AcceptReply(t)
  BY <1>0, <1>25 DEF AcceptReply
<1>26. CASE BeginToolCall(t)
  BY <1>0, <1>26 DEF BeginToolCall
<1> QED
  BY <1>1, <1>2, <1>3, <1>4, <1>5, <1>6, <1>7, <1>8, <1>9, <1>10, <1>11, <1>12,
     <1>13, <1>14, <1>15, <1>16, <1>17, <1>18, <1>19, <1>20, <1>21, <1>22, <1>23,
     <1>24, <1>25, <1>26 DEF Ask

\* ... and so do the steps of the other commands.
LEMMA StopTypeInv ==
    ASSUME TypeInv, NEW s \in Stops, Stop(s)
    PROVE  TypeInv'
<1> USE DEF TypeInv, ControlTypeOK, BatchInv, Goto, PCs, OwningPCs, RoundPCs,
            convVars, roundVars, epochVars, localVars, pastVars
<1>0. s \in Threads /\ s \notin Askers
  BY KindsDisjoint DEF Threads
<1>1. CASE StopFindsNothing(s)
  BY <1>0, <1>1 DEF StopFindsNothing
<1>2. CASE RequestStop(s)
  <2>1. stopped' \in [Askers -> {"none", "early", "running", "using"}]
    BY <1>2 DEF RequestStop
  <2>2. ControlTypeOK'
    BY <1>0, <1>2, <2>1 DEF RequestStop
  <2>3. BatchInv'
    BY <1>0, <1>2 DEF RequestStop, Threads
  <2> QED
    BY <2>2, <2>3
<1> QED
  BY <1>1, <1>2 DEF Stop

\* add_external_message keeps the control state in its types.
LEMMA RelayTypeInv ==
    ASSUME TypeInv, NEW r \in Relays, Relay(r)
    PROVE  TypeInv'
<1> USE DEF TypeInv, ControlTypeOK, BatchInv, Goto, PCs, OwningPCs, RoundPCs,
            convVars, roundVars, epochVars, localVars, pastVars
<1>0. r \in Threads
  BY DEF Threads
<1>1. CASE RelayToHistory(r)
  BY <1>0, <1>1 DEF RelayToHistory
<1>2. CASE RelayFindsRound(r)
  BY <1>0, <1>2 DEF RelayFindsRound
<1>3. CASE ForcedAdd(r)
  BY <1>0, <1>3 DEF ForcedAdd
<1>4. CASE RelayFindsIdle(r)
  BY <1>0, <1>4 DEF RelayFindsIdle
<1> QED
  BY <1>1, <1>2, <1>3, <1>4 DEF Relay

\* change_model keeps the control state in its types.
LEMMA SwitchTypeInv ==
    ASSUME TypeInv, NEW w \in Switches, Switch(w)
    PROVE  TypeInv'
<1> USE DEF TypeInv, ControlTypeOK, BatchInv, Goto, PCs, OwningPCs, RoundPCs,
            convVars, roundVars, epochVars, localVars, pastVars
<1>0. w \in Threads
  BY DEF Threads
<1>1. CASE SwitchStarts(w)
  BY <1>0, <1>1 DEF SwitchStarts
<1>2. CASE SwitchWaits(w)
  BY <1>0, <1>2 DEF SwitchWaits
<1>3. CASE SwitchRetries(w)
  BY <1>0, <1>3 DEF SwitchRetries
<1>4. CASE SwitchClaims(w)
  <2>1. ControlTypeOK'
    BY <1>0, <1>4 DEF SwitchClaims, ClaimRound
  <2>2. BatchInv'
    BY <1>0, <1>4 DEF SwitchClaims, ClaimRound
  <2> QED  BY <2>1, <2>2
<1>5. CASE TakeSnapshot(w)
  BY <1>0, <1>5 DEF TakeSnapshot
<1>6. CASE ClearConversation(w)
  BY <1>0, <1>6 DEF ClearConversation
<1>7. CASE GiveBack(w)
  <2>1. ControlTypeOK'
    BY <1>0, <1>7 DEF GiveBack, ReleaseRound
  <2>2. BatchInv'
    BY <1>0, <1>7 DEF GiveBack, ReleaseRound
  <2> QED  BY <2>1, <2>2
<1> QED
  BY <1>1, <1>2, <1>3, <1>4, <1>5, <1>6, <1>7 DEF Switch

\* compact_history keeps the control state in its types.
LEMMA CompactTypeInv ==
    ASSUME TypeInv, NEW c \in Compacts, Compact(c)
    PROVE  TypeInv'
<1> USE DEF TypeInv, ControlTypeOK, BatchInv, Goto, PCs, OwningPCs, RoundPCs,
            convVars, roundVars, epochVars, localVars, pastVars
<1>0. c \in Threads
  BY DEF Threads
<1>1. CASE CompactFindsRound(c)
  BY <1>0, <1>1 DEF CompactFindsRound
<1>2. CASE CompactClaims(c)
  <2>1. ControlTypeOK'
    BY <1>0, <1>2 DEF CompactClaims, ClaimRound
  <2>2. BatchInv'
    BY <1>0, <1>2 DEF CompactClaims, ClaimRound
  <2> QED  BY <2>1, <2>2
<1>3. CASE GiveBack(c)
  <2>1. ControlTypeOK'
    BY <1>0, <1>3 DEF GiveBack, ReleaseRound
  <2>2. BatchInv'
    BY <1>0, <1>3 DEF GiveBack, ReleaseRound
  <2> QED  BY <2>1, <2>2
<1> QED
  BY <1>1, <1>2, <1>3 DEF Compact

\* A step that changes nothing keeps everything in its types.
LEMMA StutterTypeInv ==
    ASSUME TypeInv, UNCHANGED vars
    PROVE  TypeInv'
  BY DEF TypeInv, ControlTypeOK, BatchInv, vars, convVars, roundVars, epochVars,
         localVars, pastVars

\* TypeInv is inductive.
LEMMA NextTypeInv == TypeInv /\ [Next]_vars => TypeInv'
<1> SUFFICES ASSUME TypeInv, [Next]_vars PROVE TypeInv'
  OBVIOUS
<1> QED
  BY AskTypeInv, StopTypeInv, RelayTypeInv, SwitchTypeInv, CompactTypeInv,
     StutterTypeInv DEF Next, Terminated

\* The control state keeps its types, whatever the threads do.
THEOREM ControlTypes == Spec => []ControlTypeOK
<1>1. TypeInv => ControlTypeOK
  BY DEF TypeInv
<1> QED
  BY <1>1, InitTypeInv, NextTypeInv, PTL DEF Spec

-----------------------------------------------------------------------------
(* Round ownership.  Every step of Next is of one of four kinds, and each   *)
(* kind keeps RoundOwnership: a thread moves without taking or handing back *)
(* the round, claims it, hands back the round it owns, or releases it once  *)
(* more.                                                                    *)

\* A step inside a round, or outside of any, that leaves the claim alone.
LEMMA MoveKeepsOwnership ==
    ASSUME TypeInv, RoundOwnership, NEW t \in Threads, NEW l \in PCs,
           Goto(t, l), (l \in OwningPCs) <=> Owns(t),
           UNCHANGED <<roundActive, isStopped, claimedHere, strayRelease>>
    PROVE  RoundOwnership'
<1>1. \A u \in Threads : Owns(u)' <=> Owns(u)
  BY DEF TypeInv, ControlTypeOK, Goto, Owns
<1> QED
  BY <1>1 DEF RoundOwnership, OneRoundAtATime

\* try_claim_round succeeds.
LEMMA ClaimKeepsOwnership ==
    ASSUME TypeInv, RoundOwnership, NEW t \in Threads, NEW l \in OwningPCs,
           Goto(t, l), ClaimRound, UNCHANGED <<claimedHere, strayRelease>>
    PROVE  RoundOwnership'
<1> SUFFICES ASSUME ~strayRelease
             PROVE  /\ OneRoundAtATime'
                    /\ roundActive' <=> \E u \in Threads : Owns(u)'
                    /\ isStopped' = ~roundActive'
                    /\ \A u \in Askers : ~claimedHere'[u]
  BY DEF RoundOwnership
<1>1. \A u \in Threads : ~Owns(u)
  BY DEF RoundOwnership, ClaimRound
<1>2. Owns(t)' /\ \A u \in Threads \ {t} : ~Owns(u)'
  BY <1>1 DEF TypeInv, ControlTypeOK, Goto, Owns
<1>3. OneRoundAtATime'
  BY <1>2 DEF OneRoundAtATime
<1>4. roundActive' = TRUE /\ isStopped' = FALSE
  BY DEF ClaimRound
<1> QED
  BY <1>2, <1>3, <1>4 DEF RoundOwnership

\* The round is handed back, by its owner or by someone who owns none; the
\* latter is recorded when it hits the round of another thread.
LEMMA ReleaseKeepsOwnership ==
    ASSUME TypeInv, RoundOwnership, NEW t \in Threads, NEW l \in PCs \ OwningPCs,
           Goto(t, l), roundActive' = FALSE, isStopped' = TRUE,
           strayRelease' \/ \A u \in Threads \ {t} : ~Owns(u),
           strayRelease => strayRelease', UNCHANGED claimedHere
    PROVE  RoundOwnership'
<1> SUFFICES ASSUME ~strayRelease'
             PROVE  /\ OneRoundAtATime'
                    /\ roundActive' <=> \E u \in Threads : Owns(u)'
                    /\ isStopped' = ~roundActive'
                    /\ \A u \in Askers : ~claimedHere'[u]
  BY DEF RoundOwnership
<1>1. \A u \in Threads : ~Owns(u)'
  BY DEF TypeInv, ControlTypeOK, Goto, Owns
<1> QED
  BY <1>1 DEF RoundOwnership, OneRoundAtATime

\* response_ai finds the round claimed by its own thread and claims nothing.
LEMMA EnterKeepsOwnership ==
    ASSUME TypeInv, RoundOwnership, NEW t \in Askers, EnterRound(t)
    PROVE  RoundOwnership'
<1> SUFFICES ASSUME ~strayRelease PROVE RoundOwnership'
  BY DEF RoundOwnership, EnterRound, pastVars
<1>0. t \in Threads /\ Owns(t)
  BY DEF Threads, EnterRound, Owns, OwningPCs
<1>1. roundActive = TRUE /\ isStopped = FALSE
  BY <1>0 DEF RoundOwnership, TypeInv, ControlTypeOK
<1>2. claimedHere' = claimedHere
  BY <1>1 DEF EnterRound, RoundOwnership, TypeInv, ControlTypeOK
<1>3. UNCHANGED <<roundActive, isStopped, strayRelease>>
  BY <1>1 DEF EnterRound, pastVars
<1>4. Goto(t, "begin") /\ "begin" \in OwningPCs /\ "begin" \in PCs
  BY DEF EnterRound, OwningPCs, PCs
<1> QED
  BY <1>0, <1>2, <1>3, <1>4, MoveKeepsOwnership

\* response_ai returns; it releases nothing, because it claimed nothing.
LEMMA LeaveKeepsOwnership ==
    ASSUME TypeInv, RoundOwnership, NEW t \in Askers, LeaveRound(t)
    PROVE  RoundOwnership'
<1> SUFFICES ASSUME ~strayRelease PROVE RoundOwnership'
  BY DEF RoundOwnership, LeaveRound
<1>0. t \in Threads /\ Owns(t)
  BY DEF Threads, LeaveRound, Owns, OwningPCs, RoundPCs
<1>1. claimedHere[t] = FALSE
  BY DEF RoundOwnership, TypeInv, ControlTypeOK
<1>2. claimedHere' = claimedHere
  BY <1>1 DEF LeaveRound, TypeInv, ControlTypeOK
<1>3. UNCHANGED <<roundActive, isStopped, strayRelease>>
  BY <1>1 DEF LeaveRound, TypeInv, ControlTypeOK
<1>4. Goto(t, "finish") /\ "finish" \in OwningPCs /\ "finish" \in PCs
  BY DEF LeaveRound, OwningPCs, PCs
<1> QED
  BY <1>0, <1>2, <1>3, <1>4, MoveKeepsOwnership

\* The steps of a question's thread keep the ownership straight.
LEMMA AskKeepsOwnership ==
    ASSUME TypeInv, RoundOwnership, NEW t \in Askers, Ask(t)
    PROVE  RoundOwnership'
<1> USE DEF Owns, PCs, OwningPCs, RoundPCs, convVars, roundVars, epochVars, localVars, pastVars
<1>0. t \in Threads
  BY DEF Threads
<1>1. CASE AskClaims(t)
  BY <1>0, <1>1, ClaimKeepsOwnership DEF AskClaims
<1>2. CASE AskFindsRound(t)
  BY <1>0, <1>2, MoveKeepsOwnership DEF AskFindsRound
<1>3. CASE ForcedAdd(t)
  BY <1>0, <1>3, MoveKeepsOwnership DEF ForcedAdd
<1>4. CASE QueuePendingAsk(t)
  BY <1>0, <1>4, MoveKeepsOwnership DEF QueuePendingAsk
<1>5. CASE AddQuestion(t)
  <2> DEFINE l == IF Len(batch[t]) = 1 THEN "enter" ELSE "add"
  <2>1. Goto(t, l) /\ l \in OwningPCs /\ l \in PCs /\ Owns(t)
    BY <1>5 DEF AddQuestion
  <2> QED
    BY <1>0, <1>5, <2>1, MoveKeepsOwnership DEF AddQuestion
<1>6. CASE EnterRound(t)
  BY <1>6, EnterKeepsOwnership
<1>7. CASE BeginRound(t)
  BY <1>0, <1>7, MoveKeepsOwnership DEF BeginRound
<1>8. CASE MergeLeftover(t)
  BY <1>0, <1>8, MoveKeepsOwnership DEF MergeLeftover
<1>9. CASE CheckStop(t)
  <2> DEFINE l == IF StopRequested THEN "abort" ELSE "send"
  <2>1. Goto(t, l) /\ l \in OwningPCs /\ l \in PCs /\ Owns(t)
    BY <1>9 DEF CheckStop
  <2> QED
    BY <1>0, <1>9, <2>1, MoveKeepsOwnership DEF CheckStop
<1>10. CASE SendRequest(t)
  BY <1>0, <1>10, MoveKeepsOwnership DEF SendRequest
<1>11. CASE \E n \in 0..MaxCalls : ReceiveReply(t, n)
  <2> PICK n \in 0..MaxCalls : ReceiveReply(t, n)
    BY <1>11
  <2> DEFINE l == IF n = 0 THEN "more" ELSE "tools"
  <2>1. Goto(t, l) /\ l \in OwningPCs /\ l \in PCs /\ Owns(t)
    BY DEF ReceiveReply
  <2> QED
    BY <1>0, <2>1, MoveKeepsOwnership DEF ReceiveReply
<1>12. CASE DiscardReply(t)
  BY <1>0, <1>12, MoveKeepsOwnership DEF DiscardReply
<1>13. CASE RequestFails(t)
  BY <1>0, <1>13, MoveKeepsOwnership DEF RequestFails
<1>14. CASE RunToolCall(t)
  <2> DEFINE l == IF reply[t].done + 1 = reply[t].calls THEN "more" ELSE "tools"
  <2>1. Goto(t, l) /\ l \in OwningPCs /\ l \in PCs /\ Owns(t)
    BY <1>14 DEF RunToolCall
  <2> QED
    BY <1>0, <1>14, <2>1, MoveKeepsOwnership DEF RunToolCall
<1>15. CASE SkipToolCalls(t)
  BY <1>0, <1>15, MoveKeepsOwnership DEF SkipToolCalls
<1>16. CASE MergeQueued(t)
  <2> DEFINE l == IF reply[t].calls > 0 \/ responseQueue # << >> THEN "check" ELSE "validate"
  <2>1. Goto(t, l) /\ l \in OwningPCs /\ l \in PCs /\ Owns(t)
    BY <1>16 DEF MergeQueued
  <2> QED
    BY <1>0, <1>16, <2>1, MoveKeepsOwnership DEF MergeQueued
<1>17. CASE AbortRound(t)
  BY <1>0, <1>17, MoveKeepsOwnership DEF AbortRound
<1>18. CASE ComputeCleaned(t)
  BY <1>0, <1>18, MoveKeepsOwnership DEF ComputeCleaned
<1>19. CASE ReplaceHistory(t)
  BY <1>0, <1>19, MoveKeepsOwnership DEF ReplaceHistory
<1>20. CASE LeaveRound(t)
  BY <1>20, LeaveKeepsOwnership
<1>21. CASE TakeNextBatch(t)
  <2>1. SUFFICES ASSUME ~strayRelease PROVE RoundOwnership'
    BY <1>21 DEF RoundOwnership, TakeNextBatch
  <2>2. isStopped' = isStopped
    BY <1>0, <2>1, <1>21 DEF TakeNextBatch, RoundOwnership, TypeInv, ControlTypeOK
  <2> QED
    BY <1>0, <1>21, <2>2, MoveKeepsOwnership DEF TakeNextBatch
<1>22. CASE TakeQueueRound(t)
  <2>1. SUFFICES ASSUME ~strayRelease PROVE RoundOwnership'
    BY <1>22 DEF RoundOwnership, TakeQueueRound
  <2>2. isStopped' = isStopped
    BY <1>0, <2>1, <1>22 DEF TakeQueueRound, RoundOwnership, TypeInv, ControlTypeOK
  <2> QED
    BY <1>0, <1>22, <2>2, MoveKeepsOwnership DEF TakeQueueRound
<1>23. CASE FinishSequence(t)
  <2>1. Owns(t)
    BY <1>23 DEF FinishSequence
  <2>2. strayRelease \/ \A u \in Threads \ {t} : ~Owns(u)
    BY <1>0, <2>1 DEF RoundOwnership, OneRoundAtATime
  <2>3. Goto(t, "release") /\ "release" \in PCs \ OwningPCs
    BY <1>23 DEF FinishSequence
  <2> QED
    BY <1>0, <1>23, <2>2, <2>3, ReleaseKeepsOwnership DEF FinishSequence
<1>24. CASE ReleaseAgain(t)
  BY <1>0, <1>24, ReleaseKeepsOwnership DEF ReleaseAgain, ReleaseRound
<1>25. CASE AcceptReply(t)
  BY <1>0, <1>25, MoveKeepsOwnership DEF AcceptReply
<1>26. CASE BeginToolCall(t)
  BY <1>0, <1>26, MoveKeepsOwnership DEF BeginToolCall
<1> QED
  BY <1>1, <1>2, <1>3, <1>4, <1>5, <1>6, <1>7, <1>8, <1>9, <1>10, <1>11,
     <1>12, <1>13, <1>14, <1>15, <1>16, <1>17, <1>18, <1>19, <1>20, <1>21,
     <1>22, <1>23, <1>24, <1>25, <1>26 DEF Ask

\* ... and so do those of the other commands.
LEMMA OtherKeepsOwnership ==
    ASSUME TypeInv, RoundOwnership,
           \/ \E s \in Stops    : Stop(s)
           \/ \E r \in Relays   : Relay(r)
           \/ \E w \in Switches : Switch(w)
           \/ \E c \in Compacts : Compact(c)
    PROVE  RoundOwnership'
<1> USE DEF Owns, PCs, OwningPCs, RoundPCs, convVars, roundVars, epochVars, localVars, pastVars
<1>0. Stops \cup Relays \cup Switches \cup Compacts \subseteq Threads
  BY DEF Threads
<1>1. ASSUME NEW s \in Stops, StopFindsNothing(s) PROVE RoundOwnership'
  BY <1>0, <1>1, MoveKeepsOwnership DEF StopFindsNothing
<1>2. ASSUME NEW s \in Stops, RequestStop(s) PROVE RoundOwnership'
  BY <1>0, <1>2, MoveKeepsOwnership DEF RequestStop
<1>3. ASSUME NEW r \in Relays, RelayToHistory(r) PROVE RoundOwnership'
  BY <1>0, <1>3, MoveKeepsOwnership DEF RelayToHistory
<1>4. ASSUME NEW r \in Relays, RelayFindsRound(r) PROVE RoundOwnership'
  BY <1>0, <1>4, MoveKeepsOwnership DEF RelayFindsRound
<1>5. ASSUME NEW r \in Relays, ForcedAdd(r) PROVE RoundOwnership'
  BY <1>0, <1>5, MoveKeepsOwnership DEF ForcedAdd
<1>6. ASSUME NEW w \in Switches, SwitchStarts(w) PROVE RoundOwnership'
  BY <1>0, <1>6, MoveKeepsOwnership DEF SwitchStarts
<1>7. ASSUME NEW w \in Switches, SwitchWaits(w) PROVE RoundOwnership'
  BY <1>0, <1>7, MoveKeepsOwnership DEF SwitchWaits
<1>8. ASSUME NEW w \in Switches, SwitchRetries(w) PROVE RoundOwnership'
  BY <1>0, <1>8, MoveKeepsOwnership DEF SwitchRetries
<1>9. ASSUME NEW w \in Switches, SwitchClaims(w) PROVE RoundOwnership'
  BY <1>0, <1>9, ClaimKeepsOwnership DEF SwitchClaims
<1>10. ASSUME NEW w \in Switches, TakeSnapshot(w) PROVE RoundOwnership'
  BY <1>0, <1>10, MoveKeepsOwnership DEF TakeSnapshot
<1>11. ASSUME NEW w \in Switches, ClearConversation(w) PROVE RoundOwnership'
  BY <1>0, <1>11, MoveKeepsOwnership DEF ClearConversation
<1>12. ASSUME NEW c \in Compacts, CompactFindsRound(c) PROVE RoundOwnership'
  BY <1>0, <1>12, MoveKeepsOwnership DEF CompactFindsRound
<1>13. ASSUME NEW c \in Compacts, CompactClaims(c) PROVE RoundOwnership'
  BY <1>0, <1>13, ClaimKeepsOwnership DEF CompactClaims
<1>14. ASSUME NEW t \in Switches \cup Compacts, GiveBack(t) PROVE RoundOwnership'
  BY <1>0, <1>14, ReleaseKeepsOwnership DEF GiveBack, ReleaseRound
<1>15. ASSUME NEW r \in Relays, RelayFindsIdle(r) PROVE RoundOwnership'
  BY <1>0, <1>15, MoveKeepsOwnership DEF RelayFindsIdle
<1> QED
  BY <1>1, <1>2, <1>3, <1>4, <1>5, <1>6, <1>7, <1>8, <1>9, <1>10, <1>11, <1>12,
     <1>13, <1>14, <1>15 DEF Stop, Relay, Switch, Compact

\* RoundOwnership is inductive relative to the types.
LEMMA NextKeepsOwnership ==
    TypeInv /\ RoundOwnership /\ [Next]_vars => RoundOwnership'
<1> SUFFICES ASSUME TypeInv, RoundOwnership, [Next]_vars PROVE RoundOwnership'
  OBVIOUS
<1>1. CASE UNCHANGED vars
  BY <1>1 DEF RoundOwnership, OneRoundAtATime, Owns, vars, roundVars, localVars, pastVars
<1>2. CASE \E t \in Askers : Ask(t)
  BY <1>2, AskKeepsOwnership
<1>3. CASE \/ \E s \in Stops    : Stop(s)
           \/ \E r \in Relays   : Relay(r)
           \/ \E w \in Switches : Switch(w)
           \/ \E c \in Compacts : Compact(c)
  BY <1>3, OtherKeepsOwnership
<1> QED
  BY <1>1, <1>2, <1>3 DEF Next, Terminated

\* Exactly one thread runs rounds, and _round_active and is_stopped say so, as
\* long as no release_round hits a round that another thread owns.
THEOREM Ownership == Spec => []RoundOwnership
<1>1. Init => RoundOwnership
  BY DEF Init, RoundOwnership, OneRoundAtATime, Owns, OwningPCs, RoundPCs
<1> QED
  BY <1>1, InitTypeInv, NextTypeInv, NextKeepsOwnership, PTL DEF Spec

-----------------------------------------------------------------------------
(* A stop that was accepted against a running round.  StopInv says why the  *)
(* round notices it: its thread is still inside response_ai, the epoch it   *)
(* compares with lags behind, and it is not past a test any more.           *)

StopInv ==
    /\ roundEpoch <= stopEpoch
    /\ ~strayRelease =>
         \A t \in Askers :
           /\ stopped[t] \in {"running", "using"} => InRound(t) /\ roundEpoch < stopEpoch
           /\ stopped[t] = "running" => pc[t] \notin {"answer", "run"}

ReplyInv ==
    /\ toolReplies \in Nat
    /\ reply \in [Askers -> [id : Nat, calls : Nat, done : Nat]]

\* A step that touches neither the epochs nor the record of stops, and leaves
\* response_ai only where it was not in.
LEMMA MoveKeepsStop ==
    ASSUME TypeInv, StopInv, NEW u \in Threads, NEW l \in PCs, Goto(u, l),
           InRound(u) => l \in RoundPCs, l \in {"answer", "run"} => ~StopRequested,
           UNCHANGED <<stopEpoch, roundEpoch, stopped>>, strayRelease => strayRelease'
    PROVE  StopInv'
<1>1. \A t \in Askers : InRound(t) => InRound(t)'
  BY DEF TypeInv, ControlTypeOK, Goto, InRound, Threads
<1>2. \A t \in Askers : pc'[t] = pc[t] \/ (t = u /\ pc'[t] = l)
  BY DEF TypeInv, ControlTypeOK, Goto, Threads
<1>3. roundEpoch < stopEpoch => StopRequested
  BY DEF StopRequested, TypeInv, ControlTypeOK
<1> QED
  BY <1>1, <1>2, <1>3 DEF StopInv

\* A round begins: try_claim_round, response_ai and finish_round_or_take_next
\* take a new epoch, but none does while a thread is inside response_ai.
LEMMA NewEpochKeepsStop ==
    ASSUME TypeInv, StopInv,
           strayRelease \/ \A t \in Askers : ~InRound(t),
           roundEpoch' = stopEpoch, UNCHANGED <<stopEpoch, stopped>>,
           strayRelease => strayRelease'
    PROVE  StopInv'
<1>1. roundEpoch' <= stopEpoch'
  BY DEF TypeInv, ControlTypeOK
<1>2. ~strayRelease' => \A t \in Askers : stopped'[t] \notin {"running", "using"}
  BY DEF StopInv
<1> QED
  BY <1>1, <1>2 DEF StopInv

\* A thread that owns the round outside of response_ai is the only owner.
LEMMA NobodyInRound ==
    ASSUME RoundOwnership, NEW u \in Threads, ~InRound(u),
           Owns(u) \/ ~roundActive
    PROVE  strayRelease \/ \A t \in Askers : ~InRound(t)
<1>1. \A t \in Askers : t \in Threads /\ (InRound(t) => Owns(t))
  BY DEF Threads, InRound, Owns, OwningPCs
<1> QED
  BY <1>1 DEF RoundOwnership, OneRoundAtATime

\* request_stop itself: the epoch it takes is newer than that of any round.
LEMMA RequestKeepsStop ==
    ASSUME TypeInv, StopInv, NEW s \in Stops, RequestStop(s)
    PROVE  StopInv'
<1>1. \A t \in Askers : pc'[t] = pc[t]
  BY KindsDisjoint DEF TypeInv, ControlTypeOK, RequestStop, Goto, Threads
<1>2. roundEpoch' = roundEpoch /\ stopEpoch' = stopEpoch + 1 /\ strayRelease' = strayRelease
  BY DEF RequestStop
<1>3. \A t \in Askers :
        /\ stopped'[t] \in {"running", "using"} => InRound(t) \/ stopped[t] \in {"running", "using"}
        /\ stopped'[t] = "running" => pc[t] \notin {"answer", "run"}
  BY DEF RequestStop, InRound, RoundPCs
<1>4. roundEpoch < stopEpoch + 1 /\ roundEpoch <= stopEpoch + 1
  BY DEF StopInv, TypeInv, ControlTypeOK
<1> QED
  BY <1>1, <1>2, <1>3, <1>4 DEF StopInv, InRound

\* The answer is written, or the tool that was under way returns: from now on
\* the thread meets its next test first.
LEMMA EndKeepsStop ==
    ASSUME TypeInv, StopInv, NEW t \in Askers, NEW l \in RoundPCs \ {"answer", "run"},
           InRound(t), Goto(t, l), StepEnds(t),
           UNCHANGED <<stopEpoch, roundEpoch, strayRelease>>
    PROVE  StopInv'
<1>1. \A u \in Askers \ {t} : pc'[u] = pc[u] /\ stopped'[u] = stopped[u]
  BY DEF TypeInv, ControlTypeOK, Goto, StepEnds, Threads
<1>2. pc'[t] = l
  BY DEF TypeInv, ControlTypeOK, Goto, Threads
<1>3. stopped'[t] \in {"running", "using"} => stopped[t] \in {"running", "using"}
  BY DEF TypeInv, ControlTypeOK, StepEnds
<1> QED
  BY <1>1, <1>2, <1>3 DEF StopInv, InRound

\* response_ai returns: whatever was asked of this round is over.
LEMMA LeaveKeepsStop ==
    ASSUME TypeInv, StopInv, NEW t \in Askers, LeaveRound(t)
    PROVE  StopInv'
<1>1. \A u \in Askers \ {t} : pc'[u] = pc[u] /\ stopped'[u] = stopped[u]
  BY DEF TypeInv, ControlTypeOK, LeaveRound, Goto, Threads
<1>2. stopped'[t] = "none"
  BY DEF TypeInv, ControlTypeOK, LeaveRound
<1>3. UNCHANGED <<roundEpoch, stopEpoch, strayRelease>>
  BY DEF LeaveRound, epochVars
<1> QED
  BY <1>1, <1>2, <1>3 DEF StopInv, InRound

\* The steps of a question's thread keep StopInv.
LEMMA AskKeepsStop ==
    ASSUME TypeInv, RoundOwnership, StopInv, NEW t \in Askers, Ask(t)
    PROVE  StopInv'
<1> USE DEF Owns, InRound, PCs, OwningPCs, RoundPCs, convVars, roundVars, epochVars,
            localVars, pastVars
<1>0. t \in Threads
  BY DEF Threads
<1>1. CASE AskClaims(t)
  <2>1. strayRelease \/ \A u \in Askers : ~InRound(u)
    BY <1>0, <1>1, NobodyInRound DEF AskClaims, ClaimRound
  <2> QED
    BY <2>1, <1>1, NewEpochKeepsStop DEF AskClaims, ClaimRound
<1>2. CASE AskFindsRound(t)
  BY <1>0, <1>2, MoveKeepsStop DEF AskFindsRound
<1>3. CASE ForcedAdd(t)
  BY <1>0, <1>3, MoveKeepsStop DEF ForcedAdd
<1>4. CASE QueuePendingAsk(t)
  BY <1>0, <1>4, MoveKeepsStop DEF QueuePendingAsk
<1>5. CASE AddQuestion(t)
  <2> DEFINE l == IF Len(batch[t]) = 1 THEN "enter" ELSE "add"
  <2>1. Goto(t, l) /\ l \in PCs /\ (InRound(t) => l \in RoundPCs)
    BY <1>5 DEF AddQuestion
  <2> QED
    BY <1>0, <1>5, <2>1, MoveKeepsStop DEF AddQuestion
<1>6. CASE EnterRound(t)
  BY <1>0, <1>6, MoveKeepsStop DEF EnterRound
<1>7. CASE BeginRound(t)
  <2>1. strayRelease \/ \A u \in Askers : ~InRound(u)
    BY <1>0, <1>7, NobodyInRound DEF BeginRound
  <2> QED
    BY <2>1, <1>7, NewEpochKeepsStop DEF BeginRound
<1>8. CASE MergeLeftover(t)
  BY <1>0, <1>8, MoveKeepsStop DEF MergeLeftover
<1>9. CASE CheckStop(t)
  <2> DEFINE l == IF StopRequested THEN "abort" ELSE "send"
  <2>1. Goto(t, l) /\ l \in PCs /\ (InRound(t) => l \in RoundPCs)
    BY <1>9 DEF CheckStop
  <2> QED
    BY <1>0, <1>9, <2>1, MoveKeepsStop DEF CheckStop
<1>10. CASE SendRequest(t)
  BY <1>0, <1>10, MoveKeepsStop DEF SendRequest
<1>11. CASE \E n \in 0..MaxCalls : ReceiveReply(t, n)
  <2> PICK n \in 0..MaxCalls : ReceiveReply(t, n)
    BY <1>11
  <2> DEFINE l == IF n = 0 THEN "more" ELSE "tools"
  <2>1. Goto(t, l) /\ l \in RoundPCs \ {"answer", "run"}
    BY DEF ReceiveReply
  <2> QED
    BY <2>1, EndKeepsStop DEF ReceiveReply
<1>12. CASE DiscardReply(t)
  BY <1>0, <1>12, MoveKeepsStop DEF DiscardReply
<1>13. CASE RequestFails(t)
  BY <1>0, <1>13, MoveKeepsStop DEF RequestFails
<1>14. CASE RunToolCall(t)
  <2> DEFINE l == IF reply[t].done + 1 = reply[t].calls THEN "more" ELSE "tools"
  <2>1. Goto(t, l) /\ l \in RoundPCs \ {"answer", "run"}
    BY <1>14 DEF RunToolCall
  <2> QED
    BY <1>14, <2>1, EndKeepsStop DEF RunToolCall
<1>15. CASE SkipToolCalls(t)
  BY <1>0, <1>15, MoveKeepsStop DEF SkipToolCalls
<1>16. CASE MergeQueued(t)
  <2> DEFINE l == IF reply[t].calls > 0 \/ responseQueue # << >> THEN "check" ELSE "validate"
  <2>1. Goto(t, l) /\ l \in PCs /\ (InRound(t) => l \in RoundPCs)
    BY <1>16 DEF MergeQueued
  <2> QED
    BY <1>0, <1>16, <2>1, MoveKeepsStop DEF MergeQueued
<1>17. CASE AbortRound(t)
  BY <1>0, <1>17, MoveKeepsStop DEF AbortRound
<1>18. CASE ComputeCleaned(t)
  BY <1>0, <1>18, MoveKeepsStop DEF ComputeCleaned
<1>19. CASE ReplaceHistory(t)
  BY <1>0, <1>19, MoveKeepsStop DEF ReplaceHistory
<1>20. CASE LeaveRound(t)
  BY <1>20, LeaveKeepsStop
<1>21. CASE TakeNextBatch(t)
  <2>1. strayRelease \/ \A u \in Askers : ~InRound(u)
    BY <1>0, <1>21, NobodyInRound DEF TakeNextBatch
  <2> QED
    BY <2>1, <1>21, NewEpochKeepsStop DEF TakeNextBatch
<1>22. CASE TakeQueueRound(t)
  <2>1. strayRelease \/ \A u \in Askers : ~InRound(u)
    BY <1>0, <1>22, NobodyInRound DEF TakeQueueRound
  <2> QED
    BY <2>1, <1>22, NewEpochKeepsStop DEF TakeQueueRound
<1>23. CASE FinishSequence(t)
  BY <1>0, <1>23, MoveKeepsStop DEF FinishSequence
<1>24. CASE ReleaseAgain(t)
  BY <1>0, <1>24, MoveKeepsStop DEF ReleaseAgain, ReleaseRound
<1>25. CASE AcceptReply(t)
  BY <1>0, <1>25, MoveKeepsStop DEF AcceptReply
<1>26. CASE BeginToolCall(t)
  BY <1>0, <1>26, MoveKeepsStop DEF BeginToolCall
<1> QED
  BY <1>1, <1>2, <1>3, <1>4, <1>5, <1>6, <1>7, <1>8, <1>9, <1>10, <1>11,
     <1>12, <1>13, <1>14, <1>15, <1>16, <1>17, <1>18, <1>19, <1>20, <1>21,
     <1>22, <1>23, <1>24, <1>25, <1>26 DEF Ask

\* The steps of the other commands keep StopInv.
LEMMA OtherKeepsStop ==
    ASSUME TypeInv, RoundOwnership, StopInv,
           \/ \E s \in Stops    : Stop(s)
           \/ \E r \in Relays   : Relay(r)
           \/ \E w \in Switches : Switch(w)
           \/ \E c \in Compacts : Compact(c)
    PROVE  StopInv'
<1> USE DEF InRound, Owns, PCs, OwningPCs, RoundPCs, convVars, roundVars, epochVars,
            localVars, pastVars
<1>0. Stops \cup Relays \cup Switches \cup Compacts \subseteq Threads
  BY DEF Threads
<1>1. ASSUME NEW s \in Stops, StopFindsNothing(s) PROVE StopInv'
  BY <1>0, <1>1, MoveKeepsStop DEF StopFindsNothing
<1>2. ASSUME NEW s \in Stops, RequestStop(s) PROVE StopInv'
  BY <1>2, RequestKeepsStop
<1>3. ASSUME NEW r \in Relays, RelayToHistory(r) PROVE StopInv'
  BY <1>0, <1>3, MoveKeepsStop DEF RelayToHistory
<1>4. ASSUME NEW r \in Relays, RelayFindsRound(r) PROVE StopInv'
  BY <1>0, <1>4, MoveKeepsStop DEF RelayFindsRound
<1>5. ASSUME NEW r \in Relays, ForcedAdd(r) PROVE StopInv'
  BY <1>0, <1>5, MoveKeepsStop DEF ForcedAdd
<1>6. ASSUME NEW w \in Switches, SwitchStarts(w) PROVE StopInv'
  BY <1>0, <1>6, MoveKeepsStop DEF SwitchStarts
<1>7. ASSUME NEW w \in Switches, SwitchWaits(w) PROVE StopInv'
  BY <1>0, <1>7, MoveKeepsStop DEF SwitchWaits
<1>8. ASSUME NEW w \in Switches, SwitchRetries(w) PROVE StopInv'
  BY <1>0, <1>8, MoveKeepsStop DEF SwitchRetries
<1>9. ASSUME NEW w \in Switches, SwitchClaims(w) PROVE StopInv'
  <2>1. strayRelease \/ \A u \in Askers : ~InRound(u)
    BY <1>0, <1>9, NobodyInRound DEF SwitchClaims, ClaimRound
  <2> QED
    BY <1>9, <2>1, NewEpochKeepsStop DEF SwitchClaims, ClaimRound
<1>10. ASSUME NEW w \in Switches, TakeSnapshot(w) PROVE StopInv'
  BY <1>0, <1>10, MoveKeepsStop DEF TakeSnapshot
<1>11. ASSUME NEW w \in Switches, ClearConversation(w) PROVE StopInv'
  BY <1>0, <1>11, MoveKeepsStop DEF ClearConversation
<1>12. ASSUME NEW c \in Compacts, CompactFindsRound(c) PROVE StopInv'
  BY <1>0, <1>12, MoveKeepsStop DEF CompactFindsRound
<1>13. ASSUME NEW c \in Compacts, CompactClaims(c) PROVE StopInv'
  <2>1. strayRelease \/ \A u \in Askers : ~InRound(u)
    BY <1>0, <1>13, NobodyInRound DEF CompactClaims, ClaimRound
  <2> QED
    BY <1>13, <2>1, NewEpochKeepsStop DEF CompactClaims, ClaimRound
<1>14. ASSUME NEW t \in Switches \cup Compacts, GiveBack(t) PROVE StopInv'
  BY <1>0, <1>14, MoveKeepsStop DEF GiveBack, ReleaseRound
<1>15. ASSUME NEW r \in Relays, RelayFindsIdle(r) PROVE StopInv'
  BY <1>0, <1>15, MoveKeepsStop DEF RelayFindsIdle
<1> QED
  BY <1>1, <1>2, <1>3, <1>4, <1>5, <1>6, <1>7, <1>8, <1>9, <1>10, <1>11, <1>12,
     <1>13, <1>14, <1>15 DEF Stop, Relay, Switch, Compact

\* StopInv is inductive relative to the types and the ownership.
LEMMA NextKeepsStop ==
    TypeInv /\ RoundOwnership /\ StopInv /\ [Next]_vars => StopInv'
<1> SUFFICES ASSUME TypeInv, RoundOwnership, StopInv, [Next]_vars PROVE StopInv'
  OBVIOUS
<1>1. CASE UNCHANGED vars
  BY <1>1 DEF StopInv, InRound, vars, epochVars, pastVars
<1>2. CASE \E t \in Askers : Ask(t)
  BY <1>2, AskKeepsStop
<1>3. CASE \/ \E s \in Stops    : Stop(s)
           \/ \E r \in Relays   : Relay(r)
           \/ \E w \in Switches : Switch(w)
           \/ \E c \in Compacts : Compact(c)
  BY <1>3, OtherKeepsStop
<1> QED
  BY <1>1, <1>2, <1>3 DEF Next, Terminated

\* Only three steps touch the record of the calls a round is executing.
OtherAskStep(t) ==
    \/ AskClaims(t) \/ AskFindsRound(t) \/ ForcedAdd(t) \/ QueuePendingAsk(t)
    \/ AddQuestion(t) \/ EnterRound(t) \/ BeginRound(t) \/ MergeLeftover(t)
    \/ CheckStop(t) \/ SendRequest(t) \/ AcceptReply(t) \/ DiscardReply(t)
    \/ RequestFails(t) \/ BeginToolCall(t) \/ SkipToolCalls(t) \/ MergeQueued(t) \/ AbortRound(t) \/ ComputeCleaned(t)
    \/ ReplaceHistory(t) \/ TakeNextBatch(t) \/ TakeQueueRound(t)
    \/ FinishSequence(t) \/ ReleaseAgain(t)

\* The steps of a question's thread, sorted by what they do to its reply.
LEMMA AskSteps ==
    ASSUME NEW t \in Askers, Ask(t)
    PROVE  \/ \E n \in 0..MaxCalls : ReceiveReply(t, n)
           \/ RunToolCall(t) \/ LeaveRound(t) \/ OtherAskStep(t)
  BY DEF Ask, OtherAskStep

\* All but three of those steps leave the replies and the tool counts alone.
LEMMA OtherAskStepKeepsReply ==
    ASSUME NEW t \in Askers, OtherAskStep(t)
    PROVE  UNCHANGED <<reply, toolReplies>>
  BY DEF OtherAskStep, AskClaims, AskFindsRound, ForcedAdd, QueuePendingAsk, AddQuestion,
         EnterRound, BeginRound, MergeLeftover, CheckStop, SendRequest, AcceptReply,
         DiscardReply, BeginToolCall,
         RequestFails, SkipToolCalls, MergeQueued, AbortRound, ComputeCleaned,
         ReplaceHistory, TakeNextBatch, TakeQueueRound, FinishSequence, ReleaseAgain,
         localVars

\* The other commands leave the rounds' threads where they are.
OtherCommandStep ==
    \/ \E s \in Stops    : Stop(s)
    \/ \E r \in Relays   : Relay(r)
    \/ \E w \in Switches : Switch(w)
    \/ \E c \in Compacts : Compact(c)

\* The other commands never touch a reply.
LEMMA OtherCommandKeepsReply ==
    ASSUME OtherCommandStep
    PROVE  UNCHANGED <<reply, toolReplies>>
  BY DEF OtherCommandStep, Stop, Relay, Switch, Compact, StopFindsNothing, RequestStop,
         RelayFindsIdle, RelayToHistory, RelayFindsRound, ForcedAdd, SwitchStarts, SwitchWaits,
         SwitchRetries, SwitchClaims, TakeSnapshot, ClearConversation, GiveBack,
         CompactFindsRound, CompactClaims, localVars

\* ReplyInv is inductive.
LEMMA NextKeepsReply == ReplyInv /\ [Next]_vars => ReplyInv'
<1> SUFFICES ASSUME ReplyInv, [Next]_vars PROVE ReplyInv'
  OBVIOUS
<1> USE BoundsAreNumbers DEF ReplyInv
<1>1. ASSUME UNCHANGED <<reply, toolReplies>> PROVE ReplyInv'
  BY <1>1
<1>2. ASSUME NEW t \in Askers, NEW n \in 0..MaxCalls, ReceiveReply(t, n) PROVE ReplyInv'
  BY <1>2 DEF ReceiveReply
<1>3. ASSUME NEW t \in Askers, RunToolCall(t) PROVE ReplyInv'
  BY <1>3 DEF RunToolCall
<1>4. ASSUME NEW t \in Askers, LeaveRound(t) PROVE ReplyInv'
  BY <1>4 DEF LeaveRound, NoReply
<1>5. ASSUME NEW t \in Askers, Ask(t) PROVE ReplyInv'
  BY <1>1, <1>2, <1>3, <1>4, <1>5, AskSteps, OtherAskStepKeepsReply
<1>6. ASSUME OtherCommandStep PROVE ReplyInv'
  BY <1>1, <1>6, OtherCommandKeepsReply
<1>7. CASE UNCHANGED vars
  BY <1>1, <1>7 DEF vars, localVars
<1> QED
  BY <1>5, <1>6, <1>7 DEF Next, OtherCommandStep, Terminated

\* The steps of one thread, or of a command, do not move another thread.
LEMMA AskMovesOneThread ==
    ASSUME TypeInv, NEW u \in Askers, Ask(u), NEW t \in Askers \ {u}
    PROVE  pc'[t] = pc[t]
<1>1. t \in Threads /\ u \in Threads
  BY DEF Threads
<1>2. \E l : Goto(u, l)
  BY DEF Ask, AskClaims, AskFindsRound, ForcedAdd, QueuePendingAsk, AddQuestion,
         EnterRound, BeginRound, MergeLeftover, CheckStop, SendRequest, AcceptReply,
         BeginToolCall, ReceiveReply,
         DiscardReply, RequestFails, RunToolCall, SkipToolCalls, MergeQueued, AbortRound,
         ComputeCleaned, ReplaceHistory, LeaveRound, TakeNextBatch, TakeQueueRound,
         FinishSequence, ReleaseAgain
<1> QED
  BY <1>1, <1>2 DEF Goto, TypeInv, ControlTypeOK

\* A step of another command leaves every question's thread where it is.
LEMMA OtherCommandMovesNoAsker ==
    ASSUME TypeInv, OtherCommandStep, NEW t \in Askers
    PROVE  pc'[t] = pc[t]
<1>1. \E u \in Threads \ Askers : \E l : Goto(u, l)
  BY KindsDisjoint DEF OtherCommandStep, Threads, Stop, Relay, Switch, Compact,
         StopFindsNothing, RequestStop, RelayFindsIdle, RelayToHistory, RelayFindsRound, ForcedAdd,
         SwitchStarts, SwitchWaits, SwitchRetries, SwitchClaims, TakeSnapshot,
         ClearConversation, GiveBack, CompactFindsRound, CompactClaims
<1> QED
  BY <1>1 DEF Goto, TypeInv, ControlTypeOK, Threads

\* What a step does to a thread whose round was stopped.
LEMMA StoppedStep ==
    ASSUME TypeInv, StopInv, ReplyInv, [Next]_vars, NEW t \in Askers,
           stopped[t] = "running", ~strayRelease
    PROVE  /\ pc[t] = "wait" => pc'[t] \in {"wait", "abort", "leave"}
           /\ pc[t] = "tools" => pc'[t] \in {"tools", "more"}
           /\ pc[t] = "check" => pc'[t] \in {"check", "abort"}
           /\ reply'[t] \in {reply[t], NoReply}
<1>0. StopRequested /\ pc[t] \notin {"answer", "run"} /\ t \in Threads
  BY DEF StopInv, StopRequested, TypeInv, ControlTypeOK, Threads
<1>1. CASE UNCHANGED vars
  BY <1>1 DEF vars, localVars
<1>2. CASE OtherCommandStep
  BY <1>2, OtherCommandKeepsReply, OtherCommandMovesNoAsker
<1>3. ASSUME NEW u \in Askers \ {t}, Ask(u)
      PROVE  pc'[t] = pc[t] /\ reply'[t] = reply[t]
  <2>1. pc'[t] = pc[t]
    BY <1>3, AskMovesOneThread
  <2>2. reply'[t] = reply[t]
    BY <1>3, AskSteps, OtherAskStepKeepsReply
       DEF ReceiveReply, RunToolCall, LeaveRound, ReplyInv
  <2> QED
    BY <2>1, <2>2
<1>4. CASE Ask(t)
  <2>1. ~ \E n \in 0..MaxCalls : ReceiveReply(t, n)
    BY <1>0 DEF ReceiveReply
  <2>2. ~ RunToolCall(t)
    BY <1>0 DEF RunToolCall
  <2>3. CASE LeaveRound(t)
    BY <2>3 DEF LeaveRound, ReplyInv
  <2>4. CASE OtherAskStep(t)
    <3>1. reply'[t] = reply[t]
      BY <2>4, OtherAskStepKeepsReply
    <3>2. /\ pc[t] = "wait" => DiscardReply(t) \/ RequestFails(t)
          /\ pc[t] = "tools" => SkipToolCalls(t)
          /\ pc[t] = "check" => CheckStop(t)
      BY <1>0, <2>4 DEF OtherAskStep, AskClaims, AskFindsRound, ForcedAdd, QueuePendingAsk,
         AddQuestion, EnterRound, BeginRound, MergeLeftover, CheckStop, SendRequest,
         AcceptReply, DiscardReply, RequestFails, BeginToolCall, SkipToolCalls,
         MergeQueued, AbortRound, ComputeCleaned, ReplaceHistory,
         TakeNextBatch, TakeQueueRound, FinishSequence, ReleaseAgain
    <3>3. /\ DiscardReply(t) => pc'[t] = "abort"
          /\ RequestFails(t) => pc'[t] = "leave"
          /\ SkipToolCalls(t) => pc'[t] = "more"
          /\ CheckStop(t) => pc'[t] = "abort"
      BY <1>0 DEF DiscardReply, RequestFails, SkipToolCalls, CheckStop, Goto, TypeInv,
         ControlTypeOK
    <3> QED
      BY <3>1, <3>2, <3>3
  <2> QED
    BY <1>4, <2>1, <2>2, <2>3, <2>4, AskSteps
<1> QED
  BY <1>1, <1>2, <1>3, <1>4 DEF Next, OtherCommandStep, Terminated

\* Once request_stop was accepted against a running round, no answer of it
\* passes its test, none of its tool calls begins and it starts no further
\* request; only a step that was past its test is completed -- unless a stray
\* release_round let a second round begin, which takes a new epoch for both.
THEOREM StoppedRounds == Spec => StoppedRoundTurnsBack
<1> DEFINE Inv == TypeInv /\ RoundOwnership /\ StopInv /\ ReplyInv
<1>1. Init => Inv
  <2>1. Init => RoundOwnership
    BY DEF Init, RoundOwnership, OneRoundAtATime, Owns, OwningPCs, RoundPCs
  <2>2. Init => StopInv /\ ReplyInv
    BY DEF Init, StopInv, ReplyInv, NoReply
  <2> QED
    BY <2>1, <2>2, InitTypeInv
<1>2. Inv /\ [Next]_vars => Inv'
  BY NextTypeInv, NextKeepsOwnership, NextKeepsStop, NextKeepsReply
<1>3. Inv /\ [Next]_vars =>
        [\A t \in Askers : stopped[t] = "running" /\ ~strayRelease =>
           /\ pc[t] = "wait"  => pc'[t] \in {"wait", "abort", "leave"}
           /\ pc[t] = "tools" => pc'[t] \in {"tools", "more"}
           /\ pc[t] = "check" => pc'[t] \in {"check", "abort"}
           /\ reply'[t] \in {reply[t], NoReply}]_vars
  BY StoppedStep
<1> QED
  BY <1>1, <1>2, <1>3, PTL DEF Spec, StoppedRoundTurnsBack

-----------------------------------------------------------------------------
(* The lock of the history.  A relay that found the conversation idle holds  *)
(* _ctx_lock: a round that is claimed meanwhile does not get past its first  *)
(* question before the message is in the history.                           *)

CtxInv ==
    ~strayRelease /\ ~CtxFree => \A t \in Askers : Owns(t) => pc[t] = "add"

\* Nobody moved: nobody holds the lock.
LEMMA InitCtx == Init => CtxInv
  BY DEF Init, CtxInv, CtxFree, Threads

\* A step of a thread that holds no lock and does not get further in a round.
LEMMA MoveKeepsCtx ==
    ASSUME TypeInv, CtxInv, strayRelease => strayRelease', NEW t \in Threads, NEW l, Goto(t, l),
           t \in Relays => l # "append",
           t \in Askers => l = "add" \/ l \notin OwningPCs
    PROVE  CtxInv'
<1>1. pc'[t] = l /\ \A u \in Threads \ {t} : pc'[u] = pc[u]
  BY DEF Goto, TypeInv, ControlTypeOK
<1>2. Relays \subseteq Threads /\ Askers \subseteq Threads
  BY DEF Threads
<1>3. ~CtxFree' => ~CtxFree
  BY <1>1, <1>2 DEF CtxFree
<1> QED
  BY <1>1, <1>2, <1>3 DEF CtxInv, Owns

\* A step of the owner of a round that is past its questions: nobody holds it.
LEMMA OwnerKeepsCtx ==
    ASSUME TypeInv, CtxInv, strayRelease => strayRelease', NEW t \in Askers, NEW l, Goto(t, l),
           CtxFree \/ (Owns(t) /\ pc[t] # "add")
    PROVE  CtxInv'
<1>1. \A u \in Threads \ {t} : pc'[u] = pc[u]
  BY DEF Goto, TypeInv, ControlTypeOK
<1>2. Relays \subseteq Threads \ {t}
  BY KindsDisjoint DEF Threads
<1>3. CtxFree' <=> CtxFree
  BY <1>1, <1>2 DEF CtxFree
<1> QED
  BY <1>3 DEF CtxInv

\* The steps of a question's thread respect the lock.
LEMMA AskKeepsCtx ==
    ASSUME TypeInv, CtxInv, NEW t \in Askers, Ask(t)
    PROVE  CtxInv'
<1> USE DEF Owns, OwningPCs, RoundPCs, pastVars
<1>0. t \in Threads /\ t \notin Relays
  BY KindsDisjoint DEF Threads
<1>1. CASE AskClaims(t)
  BY <1>0, <1>1, MoveKeepsCtx DEF AskClaims
<1>2. CASE AskFindsRound(t)
  BY <1>0, <1>2, MoveKeepsCtx DEF AskFindsRound
<1>3. CASE ForcedAdd(t)
  BY <1>0, <1>3, MoveKeepsCtx DEF ForcedAdd
<1>4. CASE QueuePendingAsk(t)
  BY <1>0, <1>4, MoveKeepsCtx DEF QueuePendingAsk
<1>5. CASE AddQuestion(t)
  BY <1>5, OwnerKeepsCtx DEF AddQuestion
<1>24. CASE ReleaseAgain(t)
  BY <1>0, <1>24, MoveKeepsCtx DEF ReleaseAgain, ReleaseRound
<1>6. CASE EnterRound(t) \/ BeginRound(t) \/ MergeLeftover(t) \/ CheckStop(t) \/ SendRequest(t)
  BY <1>6, OwnerKeepsCtx DEF EnterRound, BeginRound, MergeLeftover, CheckStop, SendRequest
<1>7. CASE \/ AcceptReply(t) \/ \E n \in 0..MaxCalls : ReceiveReply(t, n)
           \/ DiscardReply(t) \/ RequestFails(t)
  BY <1>7, OwnerKeepsCtx DEF AcceptReply, ReceiveReply, DiscardReply, RequestFails
<1>8. CASE BeginToolCall(t) \/ RunToolCall(t) \/ SkipToolCalls(t) \/ MergeQueued(t) \/ AbortRound(t)
  BY <1>8, OwnerKeepsCtx DEF BeginToolCall, RunToolCall, SkipToolCalls, MergeQueued, AbortRound
<1>9. CASE ComputeCleaned(t) \/ ReplaceHistory(t) \/ LeaveRound(t)
  BY <1>9, OwnerKeepsCtx DEF ComputeCleaned, ReplaceHistory, LeaveRound
<1>10. CASE TakeNextBatch(t) \/ TakeQueueRound(t) \/ FinishSequence(t)
  BY <1>10, OwnerKeepsCtx DEF TakeNextBatch, TakeQueueRound, FinishSequence
<1> QED
  BY <1>1, <1>2, <1>3, <1>4, <1>5, <1>6, <1>7, <1>8, <1>9, <1>10, <1>24 DEF Ask

\* ... and so do those of the other commands.
LEMMA OtherKeepsCtx ==
    ASSUME TypeInv, RoundOwnership, CtxInv, OtherCommandStep
    PROVE  CtxInv'
<1> USE DEF pastVars
<1>0. /\ Stops \cup Relays \cup Switches \cup Compacts \subseteq Threads \ Askers
      /\ (Stops \cup Switches \cup Compacts) \cap Relays = {}
  BY KindsDisjoint DEF Threads
<1>1. ASSUME NEW r \in Relays, RelayFindsIdle(r) PROVE CtxInv'
  <2>1. /\ r \in Threads \ Askers /\ pc[r] = "idle" /\ isStopped /\ Goto(r, "append")
        /\ strayRelease' = strayRelease
    BY <1>0, <1>1 DEF RelayFindsIdle
  <2>2. ~strayRelease => \A u \in Threads : ~Owns(u)
    BY <2>1 DEF RoundOwnership, TypeInv, ControlTypeOK
  <2>3. \A u \in Askers : u \in Threads /\ pc'[u] = pc[u]
    BY <2>1 DEF Goto, TypeInv, ControlTypeOK, Threads
  <2> QED
    BY <2>1, <2>2, <2>3 DEF CtxInv, Owns
<1>2. ASSUME NEW r \in Relays, RelayToHistory(r) \/ RelayFindsRound(r) \/ ForcedAdd(r) PROVE CtxInv'
  BY <1>0, <1>2, MoveKeepsCtx DEF RelayToHistory, RelayFindsRound, ForcedAdd
<1>3. ASSUME NEW s \in Stops, Stop(s) PROVE CtxInv'
  BY <1>0, <1>3, MoveKeepsCtx DEF Stop, StopFindsNothing, RequestStop
<1>4. ASSUME NEW w \in Switches, Switch(w) PROVE CtxInv'
  <2>1. w \in Threads /\ w \notin Askers /\ w \notin Relays
    BY <1>0
  <2>2. CASE SwitchStarts(w) \/ SwitchWaits(w) \/ SwitchRetries(w)
    BY <2>1, <2>2, MoveKeepsCtx DEF SwitchStarts, SwitchWaits, SwitchRetries
  <2>3. CASE SwitchClaims(w)
    BY <2>1, <2>3, MoveKeepsCtx DEF SwitchClaims
  <2>4. CASE TakeSnapshot(w) \/ ClearConversation(w)
    BY <2>1, <2>4, MoveKeepsCtx DEF TakeSnapshot, ClearConversation
  <2>5. CASE GiveBack(w)
    BY <2>1, <2>5, MoveKeepsCtx DEF GiveBack, ReleaseRound
  <2> QED
    BY <1>4, <2>2, <2>3, <2>4, <2>5 DEF Switch
<1>5. ASSUME NEW c \in Compacts, Compact(c) PROVE CtxInv'
  <2>1. c \in Threads /\ c \notin Askers /\ c \notin Relays
    BY <1>0
  <2>2. CASE CompactFindsRound(c) \/ CompactClaims(c)
    BY <2>1, <2>2, MoveKeepsCtx DEF CompactFindsRound, CompactClaims
  <2>3. CASE GiveBack(c)
    BY <2>1, <2>3, MoveKeepsCtx DEF GiveBack, ReleaseRound
  <2> QED
    BY <1>5, <2>2, <2>3 DEF Compact
<1> QED
  BY <1>1, <1>2, <1>3, <1>4, <1>5 DEF OtherCommandStep, Relay

\* CtxInv is inductive relative to the types and the ownership.
LEMMA NextKeepsCtx == TypeInv /\ RoundOwnership /\ CtxInv /\ [Next]_vars => CtxInv'
<1> SUFFICES ASSUME TypeInv, RoundOwnership, CtxInv, [Next]_vars PROVE CtxInv'
  OBVIOUS
<1>1. CASE UNCHANGED vars
  BY <1>1 DEF CtxInv, CtxFree, Owns, vars, pastVars
<1>2. CASE \E t \in Askers : Ask(t)
  BY <1>2, AskKeepsCtx
<1>3. CASE OtherCommandStep
  BY <1>3, OtherKeepsCtx
<1> QED
  BY <1>1, <1>2, <1>3 DEF Next, OtherCommandStep, Terminated

-----------------------------------------------------------------------------
(* Messages and histories.                                                 *)

\* Whose words the messages carry, as response_ai and change_model write them.
LEMMA WhoseWords ==
    /\ \A a : Carries(User(a)) = {a}
    /\ \A S : Carries(Summary(S)) = S
    /\ \A id, n : Carries(Assistant(id, n)) = {}
    /\ \A id, c : Carries(Tool(id, c)) = {}
  BY DEF Carries, User, Summary, Assistant, Tool

\* The messages that the steps write are messages.
LEMMA MessagesTyped ==
    /\ \A a \in Authors : User(a) \in Message
    /\ \A S \in SUBSET Authors : Summary(S) \in Message
    /\ \A id \in 0..MaxToolReplies, n \in 0..MaxCalls : Assistant(id, n) \in Message
    /\ \A id \in 1..MaxToolReplies, c \in 1..MaxCalls : Tool(id, c) \in Message
  BY DEF Message

\* Only authors have words: nobody else is carried by a message, ...
LEMMA WordsOfAuthors ==
    ASSUME NEW m \in Message
    PROVE  Carries(m) \subseteq Authors
<1>1. CASE \E a \in Authors : m = User(a)
  BY <1>1, WhoseWords
<1>2. CASE \E id \in 0..MaxToolReplies, n \in 0..MaxCalls : m = Assistant(id, n)
  BY <1>2, WhoseWords
<1>3. CASE \E id \in 1..MaxToolReplies, c \in 1..MaxCalls : m = Tool(id, c)
  BY <1>3, WhoseWords
<1>4. CASE \E S \in SUBSET Authors : m = Summary(S)
  BY <1>4, WhoseWords
<1> QED
  BY <1>1, <1>2, <1>3, <1>4 DEF Message

\* ... nor by a list of messages.
LEMMA WordsOfList ==
    ASSUME NEW list \in Seq(Message)
    PROVE  /\ CarriedBy(list) \subseteq Authors
           /\ \A a : a \in CarriedBy(list) <=> CarryingIn(list, a) # {}
<1>1. \A i \in DOMAIN list : Carries(list[i]) \subseteq Authors
  BY WordsOfAuthors
<1> QED
  BY <1>1 DEF CarriedBy, CarryingIn

\* The rank of a position among the positions that are kept: they are numbered
\* without a gap.
RankIn(S, i) == Cardinality({j \in S : j <= i})

\* Ranks are numbers up to the number of positions, each taken once.
LEMMA Ranks ==
    ASSUME NEW n \in Nat, NEW S \in SUBSET (1..n)
    PROVE  /\ Cardinality(S) \in 0..n
           /\ \A i \in S : RankIn(S, i) \in 1..Cardinality(S)
           /\ \A i, k \in S : RankIn(S, i) = RankIn(S, k) => i = k
           /\ \A r \in 1..Cardinality(S) : \E i \in S : RankIn(S, i) = r
<1> DEFINE Upto(i) == {j \in S : j <= i}
           rank == [i \in S |-> RankIn(S, i)]
<1>1. IsFiniteSet(1..n) /\ Cardinality(1..n) = n
  BY FS_Interval
<1>2. IsFiniteSet(S) /\ Cardinality(S) \in 0..n
  <2>1. IsFiniteSet(S) /\ Cardinality(S) <= n
    BY <1>1, FS_Subset
  <2>2. Cardinality(S) \in Nat
    BY <2>1, FS_CardinalityType
  <2> QED
    BY <2>1, <2>2
<1>3. \A i \in S : RankIn(S, i) = Cardinality(Upto(i))
  BY DEF RankIn
<1>4. \A i \in S : RankIn(S, i) \in 1..Cardinality(S)
  <2> TAKE i \in S
  <2>1. Upto(i) \in SUBSET S /\ i \in Upto(i)
    OBVIOUS
  <2> HIDE DEF Upto
  <2>2. IsFiniteSet(Upto(i)) /\ Cardinality(Upto(i)) <= Cardinality(S)
    BY <1>2, <2>1, FS_Subset
  <2>3. Cardinality(Upto(i)) \in Nat /\ Cardinality(Upto(i)) # 0
    BY <2>1, <2>2, FS_CardinalityType, FS_EmptySet
  <2> QED
    BY <1>2, <1>3, <2>2, <2>3
<1>5. \A i, k \in S : i < k => RankIn(S, i) # RankIn(S, k)
  <2> SUFFICES ASSUME NEW i \in S, NEW k \in S, i < k, RankIn(S, i) = RankIn(S, k)
               PROVE  FALSE
    OBVIOUS
  <2>1. /\ \A j \in S : j <= i => j <= k
        /\ k <= k /\ ~(k <= i)
    OBVIOUS
  <2>2. Upto(i) \in SUBSET Upto(k) /\ Upto(k) \in SUBSET S /\ k \in Upto(k) /\ k \notin Upto(i)
    BY <2>1
  <2> HIDE DEF Upto
  <2>3. IsFiniteSet(Upto(k))
    BY <1>2, <2>2, FS_Subset
  <2>4. Cardinality(Upto(i)) = Cardinality(Upto(k))
    BY <1>3
  <2>5. Upto(i) = Upto(k)
    BY <2>2, <2>3, <2>4, FS_Subset
  <2> QED
    BY <2>2, <2>5
<1> HIDE DEF Upto
<1>6. \A i, k \in S : RankIn(S, i) = RankIn(S, k) => i = k
  BY <1>5
<1>7. rank \in Injection(S, 1..Cardinality(S))
  BY <1>4, <1>6 DEF Injection, IsInjective
<1>8. rank \in Surjection(S, 1..Cardinality(S))
  <2>1. /\ IsFiniteSet(1..Cardinality(S))
        /\ Cardinality(1..Cardinality(S)) = Cardinality(S)
    BY <1>2, FS_Interval
  <2> HIDE DEF rank
  <2> QED
    BY <1>7, <2>1, FS_Injection
<1>9. \A r \in 1..Cardinality(S) : \E i \in S : RankIn(S, i) = r
  BY <1>8 DEF Surjection
<1> QED
  BY <1>2, <1>4, <1>6, <1>9

\* Every position that is kept has one place in what is picked, and every place
\* comes from one.
LEMMA PickedPlaces ==
    ASSUME NEW list \in Seq(Message), NEW S \in SUBSET (DOMAIN list)
    PROVE  /\ Picked(list, S) \in Seq(Message)
           /\ \A i \in S : /\ RankIn(S, i) \in 1..Len(Picked(list, S))
                           /\ Picked(list, S)[RankIn(S, i)] = list[i]
           /\ \A k \in 1..Len(Picked(list, S)) : \E i \in S : k = RankIn(S, i)
<1> DEFINE n == Cardinality(S)
           at(k) == CHOOSE i \in S : RankIn(S, i) = k
<1>1. Len(list) \in Nat /\ S \in SUBSET (1..Len(list))
  OBVIOUS
<1>2. /\ n \in Nat
      /\ \A i \in S : RankIn(S, i) \in 1..n
      /\ \A i, k \in S : RankIn(S, i) = RankIn(S, k) => i = k
      /\ \A r \in 1..n : \E i \in S : RankIn(S, i) = r
  BY <1>1, Ranks
<1>3. Picked(list, S) = [k \in 1..n |-> list[at(k)]]
  BY DEF Picked, RankIn
<1> HIDE DEF n
<1>4. \A k \in 1..n : at(k) \in S /\ RankIn(S, at(k)) = k
  BY <1>2
<1> HIDE DEF at
<1>5. \A i \in S : at(RankIn(S, i)) = i
  BY <1>2, <1>4
<1>6. \A k \in 1..n : list[at(k)] \in Message
  BY <1>1, <1>4
<1>7. Picked(list, S) \in Seq(Message) /\ Len(Picked(list, S)) = n
  BY <1>2, <1>3, <1>6
<1>8. \A i \in S : Picked(list, S)[RankIn(S, i)] = list[i]
  BY <1>2, <1>3, <1>5
<1>9. \A k \in 1..n : \E i \in S : k = RankIn(S, i)
  BY <1>2
<1> QED
  BY <1>2, <1>7, <1>8, <1>9

\* _validate_sequence keeps whatever carries somebody's words.
LEMMA ValidationKeepsWords ==
    ASSUME NEW list \in Seq(Message), NEW a
    PROVE  /\ Validated(list) \in Seq(Message)
           /\ CarryingIn(list, a) = {} => CarryingIn(Validated(list), a) = {}
           /\ \A i : CarryingIn(list, a) = {i} => \E k : CarryingIn(Validated(list), a) = {k}
<1> DEFINE S == {i \in DOMAIN list : Keeps(list, i)}
<1>1. S \in SUBSET (DOMAIN list) /\ Validated(list) = Picked(list, S)
  BY DEF Validated
<1>2. \A i \in CarryingIn(list, a) : i \in S
  <2> SUFFICES ASSUME NEW i \in DOMAIN list, a \in Carries(list[i])
               PROVE  Keeps(list, i)
    BY DEF CarryingIn
  <2>1. list[i].role # "assistant" /\ list[i].role # "tool"
    BY DEF Carries
  <2> QED
    BY <2>1 DEF Keeps, IsCalling
<1> HIDE DEF S
<1> DEFINE kept == Validated(list)
<1>3. /\ kept \in Seq(Message)
      /\ \A i \in S : RankIn(S, i) \in 1..Len(kept) /\ kept[RankIn(S, i)] = list[i]
      /\ \A k \in 1..Len(kept) : \E i \in S : k = RankIn(S, i)
  <2>1. /\ Picked(list, S) \in Seq(Message)
        /\ \A i \in S : /\ RankIn(S, i) \in 1..Len(Picked(list, S))
                        /\ Picked(list, S)[RankIn(S, i)] = list[i]
        /\ \A k \in 1..Len(Picked(list, S)) : \E i \in S : k = RankIn(S, i)
    BY <1>1, PickedPlaces
  <2> QED
    BY <1>1, <2>1
<1> HIDE DEF kept
<1>4. DOMAIN kept = 1..Len(kept)
  BY <1>3
<1>5. \A k \in CarryingIn(kept, a) : \E i \in CarryingIn(list, a) : k = RankIn(S, i)
  BY <1>1, <1>3, <1>4 DEF CarryingIn
<1>6. \A i \in CarryingIn(list, a) : RankIn(S, i) \in CarryingIn(kept, a)
  BY <1>2, <1>3, <1>4 DEF CarryingIn
<1>7. CarryingIn(list, a) = {} => CarryingIn(kept, a) = {}
  BY <1>5
<1>8. ASSUME NEW i, CarryingIn(list, a) = {i}
      PROVE  CarryingIn(kept, a) = {RankIn(S, i)}
  BY <1>5, <1>6, <1>8
<1> QED
  BY <1>3, <1>7, <1>8 DEF kept

\* What the history operations do to the places of somebody's words.
LEMMA AppendWords ==
    ASSUME NEW list \in Seq(Message), NEW m \in Message, NEW a
    PROVE  CarryingIn(Append(list, m), a) =
             CarryingIn(list, a) \cup (IF a \in Carries(m) THEN {Len(list) + 1} ELSE {})
<1> DEFINE longer == Append(list, m)
<1>1. /\ Len(list) \in Nat /\ DOMAIN list = 1..Len(list)
      /\ DOMAIN longer = 1..(Len(list) + 1)
      /\ \A i \in 1..Len(list) : longer[i] = list[i]
      /\ longer[Len(list) + 1] = m
  BY AppendProperties
<1> HIDE DEF longer
<1>2. \A i \in DOMAIN longer : a \in Carries(longer[i]) <=>
         \/ i \in DOMAIN list /\ a \in Carries(list[i])
         \/ i = Len(list) + 1 /\ a \in Carries(m)
  BY <1>1
<1>3. CarryingIn(longer, a) = {i \in DOMAIN longer : a \in Carries(longer[i])}
  BY DEF CarryingIn
<1>4. CarryingIn(list, a) = {i \in DOMAIN list : a \in Carries(list[i])}
  BY DEF CarryingIn
<1>5. DOMAIN longer = DOMAIN list \cup {Len(list) + 1}
  BY <1>1
<1> QED
  BY <1>2, <1>3, <1>4, <1>5 DEF longer

\* A second list behind the first: its places move by the length of the first.
LEMMA ConcatWords ==
    ASSUME NEW list \in Seq(Message), NEW more \in Seq(Message), NEW a
    PROVE  CarryingIn(list \o more, a) =
             CarryingIn(list, a) \cup {Len(list) + i : i \in CarryingIn(more, a)}
<1> DEFINE all == list \o more
           n == Len(list)
           k == Len(more)
<1>1. /\ n \in Nat /\ k \in Nat /\ DOMAIN list = 1..n /\ DOMAIN more = 1..k
      /\ DOMAIN all = 1..(n + k)
      /\ \A i \in 1..(n + k) : all[i] = IF i <= n THEN list[i] ELSE more[i - n]
  BY ConcatProperties
<1> HIDE DEF all, n, k
<1>2. \A i \in CarryingIn(all, a) :
         i \in CarryingIn(list, a) \/ (i - n \in CarryingIn(more, a) /\ i = n + (i - n))
  BY <1>1 DEF CarryingIn
<1>3. \A i \in CarryingIn(list, a) : i \in CarryingIn(all, a)
  BY <1>1 DEF CarryingIn
<1>4. \A i \in CarryingIn(more, a) : n + i \in CarryingIn(all, a)
  <2> TAKE i \in CarryingIn(more, a)
  <2>1. i \in 1..k /\ a \in Carries(more[i])
    BY <1>1 DEF CarryingIn
  <2>2. n + i \in 1..(n + k) /\ all[n + i] = more[i]
    BY <1>1, <2>1
  <2> QED
    BY <1>1, <2>1, <2>2 DEF CarryingIn
<1>5. CarryingIn(all, a) = CarryingIn(list, a) \cup {n + i : i \in CarryingIn(more, a)}
  BY <1>2, <1>3, <1>4
<1> QED
  BY <1>5 DEF all, n

\* The call that an abort drops carries nobody's words.
LEMMA AbortWords ==
    ASSUME NEW list \in Seq(Message), NEW a
    PROVE  /\ WithoutTrailingCall(list) \in Seq(Message)
           /\ CarryingIn(WithoutTrailingCall(list), a) = CarryingIn(list, a)
<1>1. CASE list # << >> /\ IsCalling(list[Len(list)])
  <2> DEFINE short == SubSeq(list, 1, Len(list) - 1)
  <2>1. Len(list) \in Nat \ {0} /\ DOMAIN list = 1..Len(list)
    BY <1>1, EmptySeq
  <2>2. /\ short \in Seq(Message) /\ DOMAIN short = 1..(Len(list) - 1)
        /\ \A i \in 1..(Len(list) - 1) : short[i] = list[i]
    BY <2>1, SubSeqProperties
  <2>3. a \notin Carries(list[Len(list)])
    BY <1>1 DEF IsCalling, Carries
  <2>4. WithoutTrailingCall(list) = short
    BY <1>1 DEF WithoutTrailingCall
  <2> HIDE DEF short
  <2>5. CarryingIn(short, a) = CarryingIn(list, a)
    BY <2>1, <2>2, <2>3 DEF CarryingIn
  <2> QED
    BY <2>2, <2>4, <2>5
<1>2. CASE ~(list # << >> /\ IsCalling(list[Len(list)]))
  BY <1>2 DEF WithoutTrailingCall
<1> QED
  BY <1>1, <1>2

-----------------------------------------------------------------------------
(* Places.  A step moves somebody's words between two of the places of      *)
(* Where, and leaves the others alone.                                      *)

One(S) == \E p \in S : S = {p}
Together(S, T) == (One(S) /\ T = {}) \/ (S = {} /\ One(T))

\* Whatever was in one of two places is in one of the two afterwards.
Handed(S, T, S2, T2) ==
    /\ Together(S, T) => Together(S2, T2)
    /\ S = {} /\ T = {} => S2 = {} /\ T2 = {}

PlaceKept(at, at2) ==
    /\ InOnePlace(at) => InOnePlace(at2)
    /\ Nowhere(at) => Nowhere(at2)

\* Handing words over between two places keeps them in one place.
LEMMA PlacesHanded ==
    ASSUME NEW at, NEW at2, DOMAIN at2 = DOMAIN at, NEW j \in DOMAIN at, NEW k \in DOMAIN at,
           j # k, \A l \in DOMAIN at \ {j, k} : at2[l] = at[l],
           Handed(at[j], at[k], at2[j], at2[k])
    PROVE  PlaceKept(at, at2)
<1>1. ASSUME Nowhere(at) PROVE Nowhere(at2)
  BY <1>1 DEF Nowhere, Handed
<1>2. ASSUME InOnePlace(at) PROVE InOnePlace(at2)
  <2>1. PICK l \in DOMAIN at : One(at[l]) /\ \A o \in DOMAIN at \ {l} : at[o] = {}
    BY <1>2 DEF InOnePlace, One
  <2>2. CASE l \in {j, k}
    <3>1. Together(at2[j], at2[k])
      BY <2>1, <2>2 DEF Handed, Together
    <3>2. \A o \in DOMAIN at \ {j, k} : at2[o] = {}
      BY <2>1, <2>2
    <3>3. CASE One(at2[j]) /\ at2[k] = {}
      <4>1. \A o \in DOMAIN at2 \ {j} : at2[o] = {}
        BY <3>2, <3>3
      <4> QED
        BY <3>3, <4>1 DEF InOnePlace, One
    <3>4. CASE at2[j] = {} /\ One(at2[k])
      <4>1. \A o \in DOMAIN at2 \ {k} : at2[o] = {}
        BY <3>2, <3>4
      <4> QED
        BY <3>4, <4>1 DEF InOnePlace, One
    <3> QED
      BY <3>1, <3>3, <3>4 DEF Together
  <2>3. CASE l \notin {j, k}
    <3>1. at2[j] = {} /\ at2[k] = {} /\ at2[l] = at[l]
      BY <2>1, <2>3 DEF Handed
    <3>2. \A o \in DOMAIN at2 \ {l} : at2[o] = {}
      BY <2>1, <3>1
    <3> QED
      BY <2>1, <3>1, <3>2 DEF InOnePlace, One
  <2> QED
    BY <2>2, <2>3
<1> QED
  BY <1>1, <1>2 DEF PlaceKept

\* A new message is put where nothing was.
LEMMA PlaceTaken ==
    ASSUME NEW at, NEW at2, DOMAIN at2 = DOMAIN at, NEW j \in DOMAIN at,
           \A l \in DOMAIN at \ {j} : at2[l] = at[l], Nowhere(at), One(at2[j])
    PROVE  InOnePlace(at2)
<1>1. \A l \in DOMAIN at2 \ {j} : at2[l] = {}
  BY DEF Nowhere
<1> QED
  BY <1>1 DEF InOnePlace, One

-----------------------------------------------------------------------------
(* The types of the histories.                                             *)

\* The round that executes tool calls has one left, of a reply with an id.
CallsLeft ==
    \A t \in Askers : pc[t] \in {"tools", "run"} => reply[t].id # 0 /\ reply[t].done < reply[t].calls

\* Only a round owner that writes its batch has one.
IdleBatches == \A t \in Askers : pc[t] # "add" => batch[t] = << >>

HistInv == HistoryTypeOK /\ CallsLeft /\ IdleBatches

\* A new conversation has empty histories, and no thread has a batch or a reply.
LEMMA InitHistInv == Init => HistInv
<1> SUFFICES ASSUME Init PROVE HistInv
  OBVIOUS
<1> USE BoundsAreNumbers DEF Init
<1>1. /\ responseList \in Seq(Message) /\ responseQueue \in Seq(Message)
      /\ handOff \in Seq(Message) /\ cleaned \in [Askers -> Seq(Message)]
  BY EmptySeq
<1>2. toolReplies \in 0..MaxToolReplies
  OBVIOUS
<1>3. NoReply \in [id : 0..MaxToolReplies, calls : 0..MaxCalls, done : 0..MaxCalls]
  BY DEF NoReply
<1>4. reply \in [Askers -> [id : 0..MaxToolReplies, calls : 0..MaxCalls, done : 0..MaxCalls]]
  BY <1>3
<1>5. forgotten \subseteq Authors
  OBVIOUS
<1>6. HistoryTypeOK
  BY <1>1, <1>2, <1>4, <1>5 DEF HistoryTypeOK
<1>7. \A t \in Askers : pc[t] = "idle" /\ batch[t] = << >>
  BY DEF Threads
<1> QED
  BY <1>6, <1>7 DEF HistInv, CallsLeft, IdleBatches

\* A step of one thread that leaves replies and batches alone.
LEMMA MoveKeepsLocals ==
    ASSUME TypeInv, CallsLeft, IdleBatches, NEW t \in Threads, NEW l,
           Goto(t, l), t \in Askers => pc[t] # "add",
           t \in Askers /\ l \in {"tools", "run"} => pc[t] = "tools",
           UNCHANGED <<reply, batch>>
    PROVE  CallsLeft' /\ IdleBatches'
<1>1. \A u \in Askers : pc'[u] = IF u = t THEN l ELSE pc[u]
  BY DEF Goto, TypeInv, ControlTypeOK, Threads
<1> QED
  BY <1>1 DEF CallsLeft, IdleBatches

\* The histories with one more message of an author.
LEMMA GrownHistories ==
    ASSUME HistoryTypeOK
    PROVE  /\ \A a \in Authors : /\ Append(responseList, User(a)) \in Seq(Message)
                                 /\ Append(responseQueue, User(a)) \in Seq(Message)
           /\ responseList \o responseQueue \in Seq(Message)
           /\ <<Summary(CarriedBy(handOff))>> \o responseList \in Seq(Message)
           /\ \A list \in {responseList, responseQueue, handOff} : CarriedBy(list) \subseteq Authors
           /\ << >> \in Seq(Message)
<1>0. responseList \in Seq(Message) /\ responseQueue \in Seq(Message) /\ handOff \in Seq(Message)
  BY DEF HistoryTypeOK
<1>1. \A a \in Authors : User(a) \in Message
  BY MessagesTyped
<1>2. \A list \in {responseList, responseQueue, handOff} : CarriedBy(list) \subseteq Authors
  BY <1>0, WordsOfList
<1>3. Summary(CarriedBy(handOff)) \in Message
  BY <1>2, MessagesTyped
<1>4. \A m \in Message : <<m>> \in Seq(Message)
  OBVIOUS
<1>5. <<Summary(CarriedBy(handOff))>> \o responseList \in Seq(Message)
  BY <1>0, <1>3, <1>4, ConcatProperties
<1>6. responseList \o responseQueue \in Seq(Message)
  BY <1>0, ConcatProperties
<1>7. \A m \in Message : Append(responseList, m) \in Seq(Message) /\ Append(responseQueue, m) \in Seq(Message)
  BY <1>0, AppendProperties
<1> QED
  BY <1>1, <1>2, <1>5, <1>6, <1>7, EmptySeq

\* A question's thread keeps the histories in their types.
LEMMA AskHistInv ==
    ASSUME TypeInv, HistInv, NEW t \in Askers, Ask(t)
    PROVE  HistInv'
<1> USE DEF convVars, roundVars, epochVars, localVars, pastVars
<1>0. t \in Threads /\ t \in Authors
  BY DEF Threads, Authors
<1>a. CallsLeft /\ IdleBatches
  BY DEF HistInv
<1>b. HistoryTypeOK
  BY DEF HistInv
<1>1. CASE AskClaims(t)
  <2>1. HistoryTypeOK'
    BY <1>1, <1>b DEF AskClaims, ClaimRound, HistoryTypeOK
  <2>2. \A u \in Askers : pc'[u] = IF u = t THEN "add" ELSE pc[u]
    BY <1>0, <1>1 DEF AskClaims, Goto, TypeInv, ControlTypeOK, Threads
  <2>3. \A u \in Askers \ {t} : batch'[u] = batch[u]
    BY <1>1 DEF AskClaims, TypeInv, ControlTypeOK
  <2>4. CallsLeft' /\ IdleBatches'
    BY <1>1, <1>a, <2>2, <2>3 DEF CallsLeft, IdleBatches, AskClaims
  <2> QED
    BY <2>1, <2>4 DEF HistInv
<1>2. CASE AskFindsRound(t)
  BY <1>0, <1>2, <1>a, <1>b, MoveKeepsLocals DEF AskFindsRound, HistInv, HistoryTypeOK
<1>3. CASE ForcedAdd(t)
  BY <1>0, <1>3, <1>a, <1>b, MoveKeepsLocals, GrownHistories DEF ForcedAdd, HistInv, HistoryTypeOK
<1>4. CASE QueuePendingAsk(t)
  BY <1>0, <1>4, <1>a, <1>b, MoveKeepsLocals DEF QueuePendingAsk, HistInv, HistoryTypeOK
<1>5. CASE AddQuestion(t)
  <2>1. batch[t] \in Seq(Askers) /\ batch[t] # << >>
    BY <1>5 DEF AddQuestion, TypeInv, ControlTypeOK, BatchInv
  <2>2. Head(batch[t]) \in Askers /\ (Len(batch[t]) = 1 => Tail(batch[t]) = << >>)
    <3>1. /\ Len(batch[t]) \in Nat \ {0}
          /\ Tail(batch[t]) \in Seq(Askers) /\ Len(Tail(batch[t])) = Len(batch[t]) - 1
          /\ Head(batch[t]) \in Askers
      BY <2>1, HeadTailProperties, EmptySeq
    <3> DEFINE rest == Tail(batch[t])
    <3> HIDE DEF rest
    <3>2. rest \in Seq(Askers) /\ Len(rest) = 0 => rest = << >>
      BY EmptySeq
    <3> QED
      BY <3>1, <3>2 DEF rest
  <2>3. HistoryTypeOK'
    BY <1>5, <1>b, <2>2, GrownHistories DEF AddQuestion, HistoryTypeOK, Authors
  <2>4. \A u \in Askers : pc'[u] = IF u = t THEN IF Len(batch[t]) = 1 THEN "enter" ELSE "add" ELSE pc[u]
    BY <1>0, <1>5 DEF AddQuestion, Goto, TypeInv, ControlTypeOK, Threads
  <2>5. \A u \in Askers : batch'[u] = IF u = t THEN Tail(batch[t]) ELSE batch[u]
    BY <1>5 DEF AddQuestion, TypeInv, ControlTypeOK
  <2>6. IdleBatches'
    BY <1>a, <2>2, <2>4, <2>5 DEF IdleBatches
  <2>7. CallsLeft'
    BY <1>5, <1>a, <2>4 DEF CallsLeft, AddQuestion
  <2> QED
    BY <2>3, <2>6, <2>7 DEF HistInv
<1>6. CASE EnterRound(t)
  BY <1>0, <1>6, <1>a, <1>b, MoveKeepsLocals DEF EnterRound, HistInv, HistoryTypeOK
<1>7. CASE BeginRound(t)
  BY <1>0, <1>7, <1>a, <1>b, MoveKeepsLocals DEF BeginRound, HistInv, HistoryTypeOK
<1>8. CASE MergeLeftover(t)
  BY <1>0, <1>8, <1>a, <1>b, MoveKeepsLocals, GrownHistories DEF MergeLeftover, MergeQueue, HistInv, HistoryTypeOK
<1>9. CASE CheckStop(t)
  BY <1>0, <1>9, <1>a, <1>b, MoveKeepsLocals DEF CheckStop, HistInv, HistoryTypeOK
<1>10. CASE SendRequest(t)
  <2>1. HistoryTypeOK'
    BY <1>10, <1>b, GrownHistories DEF SendRequest, HistoryTypeOK
  <2> QED
    BY <1>0, <1>10, <1>a, <2>1, MoveKeepsLocals DEF SendRequest, HistInv
<1>11. CASE \E n \in 0..MaxCalls : ReceiveReply(t, n)
  <2> PICK n \in 0..MaxCalls : ReceiveReply(t, n)
    BY <1>11
  <2> DEFINE id == IF n = 0 THEN 0 ELSE toolReplies + 1
  <2>1. id \in 0..MaxToolReplies /\ toolReplies' \in 0..MaxToolReplies /\ (n # 0 => id # 0)
    BY <1>b, BoundsAreNumbers DEF ReceiveReply, HistoryTypeOK
  <2>2. Assistant(id, n) \in Message
    BY <2>1, MessagesTyped
  <2>3. responseList' = Append(responseList, Assistant(id, n))
    BY DEF ReceiveReply
  <2>4. responseList' \in Seq(Message)
    BY <1>b, <2>2, <2>3, AppendProperties DEF HistoryTypeOK
  <2>5. reply' = [reply EXCEPT ![t] = [id |-> id, calls |-> n, done |-> 0]]
    BY DEF ReceiveReply
  <2> HIDE DEF id
  <2>6. [id |-> id, calls |-> n, done |-> 0]
           \in [id : 0..MaxToolReplies, calls : 0..MaxCalls, done : 0..MaxCalls]
    BY <2>1, BoundsAreNumbers
  <2>7. reply' \in [Askers -> [id : 0..MaxToolReplies, calls : 0..MaxCalls, done : 0..MaxCalls]]
    BY <1>b, <2>5, <2>6 DEF HistoryTypeOK
  <2>8. HistoryTypeOK'
    BY <1>b, <2>1, <2>4, <2>7 DEF ReceiveReply, HistoryTypeOK
  <2>9. \A u \in Askers : pc'[u] = IF u = t THEN IF n = 0 THEN "more" ELSE "tools" ELSE pc[u]
    BY <1>0 DEF ReceiveReply, Goto, TypeInv, ControlTypeOK, Threads
  <2>10. /\ \A u \in Askers \ {t} : reply'[u] = reply[u]
         /\ reply'[t].id = id /\ reply'[t].calls = n /\ reply'[t].done = 0
    BY <1>b, <2>5 DEF HistoryTypeOK
  <2>11. CallsLeft'
    BY <1>a, <2>1, <2>9, <2>10, BoundsAreNumbers DEF CallsLeft
  <2>12. IdleBatches'
    BY <1>a, <2>9 DEF IdleBatches, ReceiveReply
  <2> QED
    BY <2>8, <2>11, <2>12 DEF HistInv
<1>12. CASE DiscardReply(t)
  BY <1>0, <1>12, <1>a, <1>b, MoveKeepsLocals DEF DiscardReply, HistInv, HistoryTypeOK
<1>13. CASE RequestFails(t)
  BY <1>0, <1>13, <1>a, <1>b, MoveKeepsLocals DEF RequestFails, HistInv, HistoryTypeOK
<1>14. CASE RunToolCall(t)
  <2> DEFINE c == reply[t].done + 1
             id == reply[t].id
             l == IF c = reply[t].calls THEN "more" ELSE "tools"
  <2>1. /\ reply[t] \in [id : 0..MaxToolReplies, calls : 0..MaxCalls, done : 0..MaxCalls]
        /\ reply[t].id # 0 /\ reply[t].done < reply[t].calls
    BY <1>14, <1>a, <1>b DEF RunToolCall, HistoryTypeOK, CallsLeft
  <2>2. /\ id \in 1..MaxToolReplies /\ c \in 1..MaxCalls
        /\ c \in 0..MaxCalls /\ c <= reply[t].calls /\ reply[t].calls \in Nat /\ c \in Nat
    BY <2>1, BoundsAreNumbers
  <2>3. /\ responseList' = Append(responseList, Tool(id, c))
        /\ reply' = [reply EXCEPT ![t].done = c]
        /\ Goto(t, l)
    BY <1>14 DEF RunToolCall
  <2> HIDE DEF c, id
  <2>4. responseList' \in Seq(Message)
    BY <1>b, <2>2, <2>3, MessagesTyped, AppendProperties DEF HistoryTypeOK
  <2>5. reply' \in [Askers -> [id : 0..MaxToolReplies, calls : 0..MaxCalls, done : 0..MaxCalls]]
    BY <1>b, <2>2, <2>3 DEF HistoryTypeOK
  <2>6. HistoryTypeOK'
    BY <1>14, <1>b, <2>4, <2>5 DEF RunToolCall, HistoryTypeOK
  <2>7. \A u \in Askers : pc'[u] = IF u = t THEN l ELSE pc[u]
    BY <1>0, <2>3 DEF Goto, TypeInv, ControlTypeOK, Threads
  <2>8. /\ \A u \in Askers \ {t} : reply'[u] = reply[u]
        /\ reply'[t].id = reply[t].id /\ reply'[t].calls = reply[t].calls /\ reply'[t].done = c
    BY <1>b, <2>1, <2>3 DEF HistoryTypeOK
  <2>9. l = "tools" => c < reply[t].calls
    BY <2>2
  <2>10. CallsLeft'
    BY <1>a, <2>1, <2>7, <2>8, <2>9 DEF CallsLeft
  <2>11. IdleBatches'
    BY <1>14, <1>a, <2>7 DEF IdleBatches, RunToolCall
  <2> QED
    BY <2>6, <2>10, <2>11 DEF HistInv
<1>15. CASE SkipToolCalls(t)
  BY <1>0, <1>15, <1>a, <1>b, MoveKeepsLocals DEF SkipToolCalls, HistInv, HistoryTypeOK
<1>16. CASE MergeQueued(t)
  <2> DEFINE l == IF reply[t].calls > 0 \/ responseQueue # << >> THEN "check" ELSE "validate"
  <2>1. Goto(t, l) /\ l \notin {"tools", "run"} /\ pc[t] # "add" /\ UNCHANGED <<reply, batch>>
    BY <1>16 DEF MergeQueued
  <2>2. HistoryTypeOK'
    BY <1>16, <1>b, GrownHistories DEF MergeQueued, MergeQueue, HistoryTypeOK
  <2> QED
    BY <1>0, <1>a, <2>1, <2>2, MoveKeepsLocals DEF HistInv
<1>17. CASE AbortRound(t)
  BY <1>0, <1>17, <1>a, <1>b, MoveKeepsLocals, AbortWords DEF AbortRound, HistInv, HistoryTypeOK
<1>18. CASE ComputeCleaned(t)
  BY <1>0, <1>18, <1>a, <1>b, MoveKeepsLocals, ValidationKeepsWords DEF ComputeCleaned, HistInv, HistoryTypeOK
<1>19. CASE ReplaceHistory(t)
  BY <1>0, <1>19, <1>a, <1>b, MoveKeepsLocals, GrownHistories DEF ReplaceHistory, HistInv, HistoryTypeOK
<1>20. CASE LeaveRound(t)
  <2>1. NoReply \in [id : 0..MaxToolReplies, calls : 0..MaxCalls, done : 0..MaxCalls]
    BY BoundsAreNumbers DEF NoReply
  <2>2. HistoryTypeOK'
    BY <1>20, <1>b, <2>1 DEF LeaveRound, HistoryTypeOK
  <2>3. \A u \in Askers : pc'[u] = IF u = t THEN "finish" ELSE pc[u]
    BY <1>0, <1>20 DEF LeaveRound, Goto, TypeInv, ControlTypeOK, Threads
  <2>4. \A u \in Askers \ {t} : reply'[u] = reply[u]
    BY <1>20, <1>b DEF LeaveRound, HistoryTypeOK
  <2>5. CallsLeft' /\ IdleBatches'
    BY <1>20, <1>a, <2>3, <2>4 DEF CallsLeft, IdleBatches, LeaveRound
  <2> QED
    BY <2>2, <2>5 DEF HistInv
<1>21. CASE TakeNextBatch(t)
  <2>1. HistoryTypeOK'
    BY <1>21, <1>b DEF TakeNextBatch, HistoryTypeOK
  <2>2. \A u \in Askers : pc'[u] = IF u = t THEN "add" ELSE pc[u]
    BY <1>0, <1>21 DEF TakeNextBatch, Goto, TypeInv, ControlTypeOK, Threads
  <2>3. \A u \in Askers \ {t} : batch'[u] = batch[u]
    BY <1>21 DEF TakeNextBatch, TypeInv, ControlTypeOK
  <2>4. CallsLeft' /\ IdleBatches'
    BY <1>21, <1>a, <2>2, <2>3 DEF CallsLeft, IdleBatches, TakeNextBatch
  <2> QED
    BY <2>1, <2>4 DEF HistInv
<1>22. CASE TakeQueueRound(t)
  BY <1>0, <1>22, <1>a, <1>b, MoveKeepsLocals DEF TakeQueueRound, HistInv, HistoryTypeOK
<1>23. CASE FinishSequence(t)
  BY <1>0, <1>23, <1>a, <1>b, MoveKeepsLocals DEF FinishSequence, HistInv, HistoryTypeOK
<1>24. CASE ReleaseAgain(t)
  BY <1>0, <1>24, <1>a, <1>b, MoveKeepsLocals DEF ReleaseAgain, ReleaseRound, HistInv, HistoryTypeOK
<1>25. CASE AcceptReply(t)
  BY <1>0, <1>25, <1>a, <1>b, MoveKeepsLocals DEF AcceptReply, HistInv, HistoryTypeOK
<1>26. CASE BeginToolCall(t)
  BY <1>0, <1>26, <1>a, <1>b, MoveKeepsLocals DEF BeginToolCall, HistInv, HistoryTypeOK
<1> QED
  BY <1>1, <1>2, <1>3, <1>4, <1>5, <1>6, <1>7, <1>8, <1>9, <1>10, <1>11,
     <1>12, <1>13, <1>14, <1>15, <1>16, <1>17, <1>18, <1>19, <1>20, <1>21,
     <1>22, <1>23, <1>24, <1>25, <1>26 DEF Ask

\* So do the other commands.
LEMMA OtherHistInv ==
    ASSUME TypeInv, HistInv, OtherCommandStep
    PROVE  HistInv'
<1> USE DEF convVars, roundVars, epochVars, localVars, pastVars
<1>0. /\ Stops \cup Relays \cup Switches \cup Compacts \subseteq Threads \ Askers
      /\ Relays \subseteq Authors
  BY KindsDisjoint DEF Threads, Authors
<1>a. CallsLeft /\ IdleBatches
  BY DEF HistInv
<1>b. HistoryTypeOK
  BY DEF HistInv
<1> USE <1>0, <1>a, <1>b, MoveKeepsLocals DEF HistInv, HistoryTypeOK
<1>1. ASSUME NEW s \in Stops, StopFindsNothing(s) PROVE HistInv'
  BY <1>1 DEF StopFindsNothing
<1>2. ASSUME NEW s \in Stops, RequestStop(s) PROVE HistInv'
  BY <1>2 DEF RequestStop
<1>3. ASSUME NEW r \in Relays, RelayToHistory(r) PROVE HistInv'
  BY <1>3, GrownHistories DEF RelayToHistory
<1>4. ASSUME NEW r \in Relays, RelayFindsRound(r) PROVE HistInv'
  BY <1>4 DEF RelayFindsRound
<1>5. ASSUME NEW r \in Relays, ForcedAdd(r) PROVE HistInv'
  BY <1>5, GrownHistories DEF ForcedAdd
<1>6. ASSUME NEW w \in Switches, SwitchStarts(w) PROVE HistInv'
  BY <1>6 DEF SwitchStarts
<1>7. ASSUME NEW w \in Switches, SwitchWaits(w) PROVE HistInv'
  BY <1>7 DEF SwitchWaits
<1>8. ASSUME NEW w \in Switches, SwitchRetries(w) PROVE HistInv'
  BY <1>8 DEF SwitchRetries
<1>9. ASSUME NEW w \in Switches, SwitchClaims(w) PROVE HistInv'
  BY <1>9 DEF SwitchClaims, ClaimRound
<1>10. ASSUME NEW w \in Switches, TakeSnapshot(w) PROVE HistInv'
  BY <1>10, GrownHistories DEF TakeSnapshot
<1>11. ASSUME NEW w \in Switches, ClearConversation(w) PROVE HistInv'
  BY <1>11, GrownHistories DEF ClearConversation
<1>12. ASSUME NEW c \in Compacts, CompactFindsRound(c) PROVE HistInv'
  BY <1>12 DEF CompactFindsRound
<1>13. ASSUME NEW c \in Compacts, CompactClaims(c) PROVE HistInv'
  BY <1>13 DEF CompactClaims, ClaimRound
<1>14. ASSUME NEW t \in Switches \cup Compacts, GiveBack(t) PROVE HistInv'
  BY <1>14 DEF GiveBack, ReleaseRound
<1>15. ASSUME NEW r \in Relays, RelayFindsIdle(r) PROVE HistInv'
  BY <1>15 DEF RelayFindsIdle
<1> QED
  BY <1>1, <1>2, <1>3, <1>4, <1>5, <1>6, <1>7, <1>8, <1>9, <1>10, <1>11, <1>12,
     <1>13, <1>14, <1>15 DEF OtherCommandStep, Stop, Relay, Switch, Compact

\* HistInv is inductive relative to the types of the control state.
LEMMA NextHistInv == TypeInv /\ HistInv /\ [Next]_vars => HistInv'
<1> SUFFICES ASSUME TypeInv, HistInv, [Next]_vars PROVE HistInv'
  OBVIOUS
<1>1. CASE UNCHANGED vars
  BY <1>1 DEF HistInv, HistoryTypeOK, CallsLeft, IdleBatches, vars, convVars, localVars, pastVars
<1>2. CASE \E t \in Askers : Ask(t)
  BY <1>2, AskHistInv
<1>3. CASE OtherCommandStep
  BY <1>3, OtherHistInv
<1> QED
  BY <1>1, <1>2, <1>3 DEF Next, OtherCommandStep, Terminated

\* Every variable of a conversation stays in its range, the messages of its
\* histories included: each has an author, a reply and a call that exist.
THEOREM ConversationTypes == Spec => []TypeOK
<1>1. TypeInv /\ HistInv => TypeOK
  BY DEF TypeInv, HistInv, TypeOK
<1> QED
  BY <1>1, InitTypeInv, NextTypeInv, InitHistInv, NextHistInv, PTL DEF Spec

-----------------------------------------------------------------------------
(* What the single steps hand over.                                        *)

PlacesIn(questions, a) == {i \in DOMAIN questions : questions[i] = a}
PlacesInBatches(b, a) == UNION {{<<t, i>> : i \in PlacesIn(b[t], a)} : t \in Askers}

\* The merge of the queue, and of the summary of a hand-off, into a history.
LEMMA MergeHands ==
    ASSUME NEW list \in Seq(Message), NEW queue \in Seq(Message), NEW a
    PROVE  Handed(CarryingIn(list, a), CarryingIn(queue, a),
                  CarryingIn(list \o queue, a), CarryingIn(<< >>, a))
<1> DEFINE n == Len(list)
           S == CarryingIn(list, a)
           T == CarryingIn(queue, a)
           both == CarryingIn(list \o queue, a)
<1>1. both = S \cup {n + i : i \in T}
  BY ConcatWords
<1>2. CarryingIn(<< >>, a) = {}
  BY DEF CarryingIn
<1> HIDE DEF n, S, T, both
<1>3. T = {} => both = S
  BY <1>1
<1>4. S = {} /\ One(T) => One(both)
  <2> SUFFICES ASSUME S = {}, NEW p, T = {p} PROVE both = {n + p}
    BY DEF One
  <2> QED
    BY <1>1
<1>5. Handed(S, T, both, {})
  BY <1>3, <1>4 DEF Handed, Together
<1> QED
  BY <1>2, <1>5 DEF S, T, both

\* The summary of a hand-off carries what the hand-off carried.
LEMMA SummaryHands ==
    ASSUME NEW list \in Seq(Message), NEW old \in Seq(Message), NEW a
    PROVE  Handed(CarryingIn(list, a), CarryingIn(old, a),
                  CarryingIn(<<Summary(CarriedBy(old))>> \o list, a), CarryingIn(<< >>, a))
<1> DEFINE m == Summary(CarriedBy(old))
           S == CarryingIn(list, a)
           T == CarryingIn(old, a)
           first == CarryingIn(<<m>>, a)
           both == CarryingIn(<<m>> \o list, a)
<1>1. m \in Message /\ (a \in Carries(m) <=> T # {})
  BY WordsOfList, MessagesTyped, WhoseWords
<1>2. first = IF T # {} THEN {1} ELSE {}
  BY <1>1 DEF CarryingIn
<1>3. both = first \cup {1 + i : i \in S}
  <2>1. <<m>> \in Seq(Message) /\ Len(<<m>>) = 1
    BY <1>1
  <2> DEFINE l == Len(<<m>>)
  <2>2. both = first \cup {l + i : i \in S}
    BY <2>1, ConcatWords
  <2>3. l = 1
    BY <2>1
  <2> HIDE DEF l, both, first, S, m
  <2> QED
    BY <2>2, <2>3
<1>4. CarryingIn(<< >>, a) = {}
  BY DEF CarryingIn
<1> HIDE DEF m, S, T, first, both
<1>5. S = {} => both = first
  BY <1>3
<1>6. One(S) /\ T = {} => One(both)
  <2> SUFFICES ASSUME T = {}, NEW p, S = {p} PROVE both = {1 + p}
    BY DEF One
  <2> QED
    BY <1>2, <1>3
<1>7. One(T) => T # {} /\ One({1})
  BY DEF One
<1>8. T = {} /\ S = {} => both = {}
  BY <1>2, <1>5
<1>9. Handed(S, T, both, {})
  BY <1>2, <1>5, <1>6, <1>7, <1>8 DEF Handed, Together
<1> QED
  BY <1>4, <1>9 DEF m, S, T, both

\* Words that are dropped with a list are recorded.
LEMMA DropHands ==
    ASSUME NEW list \in Seq(Message), NEW a, NEW gone
    PROVE  Handed(CarryingIn(list, a), gone \cap {a},
                  CarryingIn(<< >>, a), (gone \cup CarriedBy(list)) \cap {a})
<1> DEFINE S == CarryingIn(list, a)
           T == gone \cap {a}
           all == (gone \cup CarriedBy(list)) \cap {a}
<1>1. CarryingIn(<< >>, a) = {}
  BY DEF CarryingIn
<1>2. a \in CarriedBy(list) <=> S # {}
  BY WordsOfList
<1>3. S # {} => all = {a}
  BY <1>2
<1>4. S = {} => all = T
  BY <1>2
<1> HIDE DEF S, T, all
<1>5. One({a}) /\ ~One({})
  BY DEF One
<1>6. Handed(S, T, {}, all)
  BY <1>3, <1>4, <1>5 DEF Handed, Together
<1> QED
  BY <1>1, <1>6 DEF S, T, all

\* The owner moves the head of its batch to the end of the history.
LEMMA BatchHeadHands ==
    ASSUME NEW b \in [Askers -> Seq(Askers)], NEW t \in Askers, b[t] # << >>,
           NEW list \in Seq(Message), NEW a
    PROVE  Handed(PlacesInBatches(b, a), CarryingIn(list, a),
                  PlacesInBatches([b EXCEPT ![t] = Tail(b[t])], a),
                  CarryingIn(Append(list, User(Head(b[t]))), a))
<1> DEFINE b2 == [b EXCEPT ![t] = Tail(b[t])]
           S == PlacesInBatches(b, a)
           S2 == PlacesInBatches(b2, a)
           T == CarryingIn(list, a)
           T2 == CarryingIn(Append(list, User(Head(b[t]))), a)
<1>1. /\ Len(b[t]) \in Nat \ {0} /\ DOMAIN b[t] = 1..Len(b[t])
      /\ Head(b[t]) = b[t][1] /\ b[t][1] \in Askers
      /\ DOMAIN Tail(b[t]) = 1..(Len(b[t]) - 1)
      /\ \A i \in 1..(Len(b[t]) - 1) : Tail(b[t])[i] = b[t][i + 1]
  <2>1. b[t] \in Seq(Askers) /\ b[t] # << >>
    OBVIOUS
  <2>2. Len(b[t]) \in Nat \ {0}
    BY <2>1, EmptySeq
  <2>3. /\ Tail(b[t]) \in Seq(Askers) /\ Len(Tail(b[t])) = Len(b[t]) - 1
        /\ \A i \in 1..(Len(b[t]) - 1) : Tail(b[t])[i] = b[t][i + 1]
    BY <2>1, HeadTailProperties
  <2> QED
    BY <2>1, <2>2, <2>3
<1>2. T2 = T \cup (IF b[t][1] = a THEN {Len(list) + 1} ELSE {})
  <2>1. User(b[t][1]) \in Message
    BY <1>1, MessagesTyped DEF Authors
  <2>2. a \in Carries(User(b[t][1])) <=> b[t][1] = a
    BY WhoseWords
  <2> QED
    BY <1>1, <2>1, <2>2, AppendWords
<1>3. \A p : p \in S <=> \E u \in Askers : \E i \in PlacesIn(b[u], a) : p = <<u, i>>
  BY DEF PlacesInBatches
<1>4. \A p : p \in S2 <=> \E u \in Askers : \E i \in PlacesIn(b2[u], a) : p = <<u, i>>
  BY DEF PlacesInBatches
<1>5. PlacesIn(b2[t], a) = {i \in 1..(Len(b[t]) - 1) : b[t][i + 1] = a}
  BY <1>1 DEF PlacesIn
<1>6. \A u \in Askers \ {t} : PlacesIn(b2[u], a) = PlacesIn(b[u], a)
  OBVIOUS
<1>7. PlacesIn(b[t], a) = {i \in 1..Len(b[t]) : b[t][i] = a}
  BY <1>1 DEF PlacesIn
<1>8. CASE b[t][1] = a
  <2>1. <<t, 1>> \in S
    <3>1. 1 \in PlacesIn(b[t], a)
      BY <1>1, <1>7, <1>8
    <3> HIDE DEF S
    <3> QED
      BY <1>3, <3>1
  <2>2. S = {<<t, 1>>} => S2 = {}
    <3> SUFFICES ASSUME S = {<<t, 1>>}, NEW u \in Askers, NEW i \in PlacesIn(b2[u], a)
                 PROVE  FALSE
      BY <1>4
    <3>1. CASE u = t
      <4>1. i \in Nat /\ i # 0 /\ i + 1 \in PlacesIn(b[t], a)
        BY <1>1, <1>5, <1>7, <3>1
      <4>2. <<t, i + 1>> \in S
        BY <1>3, <4>1
      <4> QED
        BY <4>1, <4>2
    <3>2. CASE u # t
      <4>1. <<u, i>> \in S
        BY <1>3, <1>6, <3>2
      <4> QED
        BY <3>2, <4>1
    <3> QED
      BY <3>1, <3>2
  <2>3. T = {} => T2 = {Len(list) + 1}
    BY <1>2, <1>8
  <2> HIDE DEF b2, S, S2, T, T2
  <2>4. One(S) => S = {<<t, 1>>}
    BY <2>1 DEF One
  <2>5. T = {} => One(T2)
    BY <2>3 DEF One
  <2>6. Handed(S, T, S2, T2)
    BY <2>1, <2>2, <2>4, <2>5 DEF Handed, Together
  <2> QED
    BY <2>6 DEF b2, S, S2, T, T2
<1>9. CASE b[t][1] # a
  <2>1. T2 = T
    BY <1>2, <1>9
  <2> DEFINE back(u, i) == IF u = t THEN <<u, i - 1>> ELSE <<u, i>>
  <2>2. ASSUME NEW u \in Askers, NEW i \in PlacesIn(b[u], a) PROVE back(u, i) \in S2
    <3>1. CASE u = t
      <4>1. i \in 1..Len(b[t]) /\ b[t][i] = a /\ i # 1
        BY <1>7, <1>9, <3>1
      <4> DEFINE k == i - 1
      <4>2. k \in 1..(Len(b[t]) - 1) /\ k + 1 = i
        BY <1>1, <4>1
      <4> HIDE DEF k, b2
      <4>3. k \in PlacesIn(b2[t], a)
        BY <1>5, <4>1, <4>2
      <4>4. <<t, k>> \in S2
        BY <1>4, <4>3
      <4> QED
        BY <3>1, <4>4 DEF k
    <3>2. CASE u # t
      BY <1>4, <1>6, <3>2
    <3> QED
      BY <3>1, <3>2
  <2>3. ASSUME NEW u \in Askers, NEW i \in PlacesIn(b2[u], a)
        PROVE  \E k \in PlacesIn(b[u], a) : back(u, k) = <<u, i>>
    <3>1. CASE u = t
      <4>1. i + 1 \in PlacesIn(b[t], a) /\ (i + 1) - 1 = i
        BY <1>1, <1>5, <1>7, <3>1
      <4> QED
        BY <3>1, <4>1
    <3>2. CASE u # t
      BY <1>6, <3>2
    <3> QED
      BY <3>1, <3>2
  <2> HIDE DEF b2, S, S2, T, T2, back
  <2>4. S = {} => S2 = {}
    <3> SUFFICES ASSUME NEW u \in Askers, NEW k \in PlacesIn(b2[u], a)
                 PROVE  \E p : p \in S
      BY <1>4
    <3> PICK i \in PlacesIn(b[u], a) : back(u, i) = <<u, k>>
      BY <2>3
    <3> QED
      BY <1>3
  <2>5. ASSUME NEW p, S = {p} PROVE One(S2)
    <3>1. PICK u \in Askers : \E i \in PlacesIn(b[u], a) : p = <<u, i>>
      BY <1>3, <2>5
    <3> PICK i \in PlacesIn(b[u], a) : p = <<u, i>>
      BY <3>1
    <3>2. back(u, i) \in S2
      BY <2>2
    <3>3. ASSUME NEW q \in S2 PROVE q = back(u, i)
      <4>1. PICK v \in Askers : \E k \in PlacesIn(b2[v], a) : q = <<v, k>>
        BY <1>4
      <4> PICK k \in PlacesIn(b2[v], a) : q = <<v, k>>
        BY <4>1
      <4>2. PICK o \in PlacesIn(b[v], a) : back(v, o) = <<v, k>>
        BY <2>3
      <4>3. <<v, o>> \in S
        BY <1>3
      <4>4. v = u /\ o = i
        BY <2>5, <3>1, <4>3
      <4> QED
        BY <4>1, <4>2, <4>4
    <3>4. S2 = {back(u, i)}
      BY <3>2, <3>3
    <3> QED
      BY <3>4 DEF One
  <2>6. Handed(S, T, S2, T2)
    BY <2>1, <2>4, <2>5 DEF Handed, Together, One
  <2> QED
    BY <2>6 DEF b2, S, S2, T, T2
<1> QED
  BY <1>8, <1>9

\* A batch is filled with the questions that were waiting.
LEMMA BatchFilled ==
    ASSUME NEW b \in [Askers -> Seq(Askers)], NEW t \in Askers, b[t] = << >>,
           NEW b2, \A u \in Askers \ {t} : b2[u] = b[u], NEW a
    PROVE  \A p : p \in PlacesInBatches(b2, a) <=>
                    p \in PlacesInBatches(b, a) \/ \E i \in PlacesIn(b2[t], a) : p = <<t, i>>
<1> DEFINE S == PlacesInBatches(b, a)
           S2 == PlacesInBatches(b2, a)
<1>1. \A p : p \in S <=> \E u \in Askers : \E i \in PlacesIn(b[u], a) : p = <<u, i>>
  BY DEF PlacesInBatches
<1>2. \A p : p \in S2 <=> \E u \in Askers : \E i \in PlacesIn(b2[u], a) : p = <<u, i>>
  BY DEF PlacesInBatches
<1>3. PlacesIn(b[t], a) = {}
  BY DEF PlacesIn
<1> HIDE DEF S, S2
<1>4. ASSUME NEW p \in S2
      PROVE  p \in S \/ \E i \in PlacesIn(b2[t], a) : p = <<t, i>>
  <2>1. PICK u \in Askers : \E i \in PlacesIn(b2[u], a) : p = <<u, i>>
    BY <1>2
  <2> QED
    BY <1>1, <2>1
<1>5. ASSUME NEW p \in S PROVE p \in S2
  <2>1. PICK u \in Askers : \E i \in PlacesIn(b[u], a) : p = <<u, i>>
    BY <1>1
  <2>2. u # t
    BY <1>3, <2>1
  <2> QED
    BY <1>2, <2>1, <2>2
<1>6. \A i \in PlacesIn(b2[t], a) : <<t, i>> \in S2
  BY <1>2
<1>7. \A p : p \in S2 <=> p \in S \/ \E i \in PlacesIn(b2[t], a) : p = <<t, i>>
  BY <1>4, <1>5, <1>6
<1> QED
  BY <1>7 DEF S, S2

\* A batch takes over the places of the questions that waited.
LEMMA BatchHands ==
    ASSUME NEW b \in [Askers -> Seq(Askers)], NEW t \in Askers, b[t] = << >>,
           NEW b2, \A u \in Askers \ {t} : b2[u] = b[u], NEW a
    PROVE  Handed(PlacesIn(b2[t], a), PlacesInBatches(b, a),
                  PlacesIn(<< >>, a), PlacesInBatches(b2, a))
<1> DEFINE S == PlacesIn(b2[t], a)
           T == PlacesInBatches(b, a)
           T2 == PlacesInBatches(b2, a)
<1>1. \A p : p \in T2 <=> p \in T \/ \E i \in S : p = <<t, i>>
  BY BatchFilled
<1>2. PlacesIn(<< >>, a) = {}
  BY DEF PlacesIn
<1> HIDE DEF S, T, T2
<1>3. S = {} => T2 = T
  BY <1>1
<1>4. T = {} /\ One(S) => One(T2)
  <2> SUFFICES ASSUME T = {}, NEW p, S = {p} PROVE T2 = {<<t, p>>}
    BY DEF One
  <2> QED
    BY <1>1
<1>5. Handed(S, T, {}, T2)
  BY <1>3, <1>4 DEF Handed, Together
<1> QED
  BY <1>2, <1>5 DEF S, T, T2

-----------------------------------------------------------------------------
(* NothingLost.                                                            *)

At(h, q, f, p, b, x) ==
    [history |-> h, queue |-> q, handOff |-> f, pending |-> p, batch |-> b, forgotten |-> x]

\* The six places, by name.
LEMMA AtPlaces ==
    ASSUME NEW h, NEW q, NEW f, NEW p, NEW b, NEW x
    PROVE  /\ DOMAIN At(h, q, f, p, b, x) =
                {"history", "queue", "handOff", "pending", "batch", "forgotten"}
           /\ At(h, q, f, p, b, x)["history"] = h
           /\ At(h, q, f, p, b, x)["queue"] = q
           /\ At(h, q, f, p, b, x)["handOff"] = f
           /\ At(h, q, f, p, b, x)["pending"] = p
           /\ At(h, q, f, p, b, x)["batch"] = b
           /\ At(h, q, f, p, b, x)["forgotten"] = x
  BY DEF At

\* The pairs of places between which the steps move words.
LEMMA AtHands ==
    ASSUME NEW h, NEW q, NEW f, NEW p, NEW b, NEW x, NEW h2, NEW q2, NEW f2, NEW p2, NEW b2, NEW x2
    PROVE  /\ Handed(h, q, h2, q2) =>
                PlaceKept(At(h, q, f, p, b, x), At(h2, q2, f, p, b, x))
           /\ Handed(h, f, h2, f2) =>
                PlaceKept(At(h, q, f, p, b, x), At(h2, q, f2, p, b, x))
           /\ Handed(b, h, b2, h2) =>
                PlaceKept(At(h, q, f, p, b, x), At(h2, q, f, p, b2, x))
           /\ Handed(p, b, p2, b2) =>
                PlaceKept(At(h, q, f, p, b, x), At(h, q, f, p2, b2, x))
           /\ Handed(f, x, f2, x2) =>
                PlaceKept(At(h, q, f, p, b, x), At(h, q, f2, p, b, x2))
           /\ Handed(q, x, q2, x2) =>
                PlaceKept(At(h, q, f, p, b, x), At(h, q2, f, p, b, x2))
<1>1. ASSUME Handed(h, q, h2, q2)
      PROVE  PlaceKept(At(h, q, f, p, b, x), At(h2, q2, f, p, b, x))
  <2> DEFINE at == At(h, q, f, p, b, x)
             at2 == At(h2, q2, f, p, b, x)
  <2>1. /\ DOMAIN at = DOMAIN at2 /\ "history" \in DOMAIN at /\ "queue" \in DOMAIN at
        /\ \A l \in DOMAIN at \ {"history", "queue"} : at2[l] = at[l]
        /\ Handed(at["history"], at["queue"], at2["history"], at2["queue"])
    BY <1>1, AtPlaces
  <2> HIDE DEF at, at2
  <2>2. PlaceKept(at, at2)
    BY <2>1, PlacesHanded
  <2> QED
    BY <2>2 DEF at, at2
<1>2. ASSUME Handed(h, f, h2, f2)
      PROVE  PlaceKept(At(h, q, f, p, b, x), At(h2, q, f2, p, b, x))
  <2> DEFINE at == At(h, q, f, p, b, x)
             at2 == At(h2, q, f2, p, b, x)
  <2>1. /\ DOMAIN at = DOMAIN at2 /\ "history" \in DOMAIN at /\ "handOff" \in DOMAIN at
        /\ \A l \in DOMAIN at \ {"history", "handOff"} : at2[l] = at[l]
        /\ Handed(at["history"], at["handOff"], at2["history"], at2["handOff"])
    BY <1>2, AtPlaces
  <2> HIDE DEF at, at2
  <2>2. PlaceKept(at, at2)
    BY <2>1, PlacesHanded
  <2> QED
    BY <2>2 DEF at, at2
<1>3. ASSUME Handed(b, h, b2, h2)
      PROVE  PlaceKept(At(h, q, f, p, b, x), At(h2, q, f, p, b2, x))
  <2> DEFINE at == At(h, q, f, p, b, x)
             at2 == At(h2, q, f, p, b2, x)
  <2>1. /\ DOMAIN at = DOMAIN at2 /\ "batch" \in DOMAIN at /\ "history" \in DOMAIN at
        /\ \A l \in DOMAIN at \ {"batch", "history"} : at2[l] = at[l]
        /\ Handed(at["batch"], at["history"], at2["batch"], at2["history"])
    BY <1>3, AtPlaces
  <2> HIDE DEF at, at2
  <2>2. PlaceKept(at, at2)
    BY <2>1, PlacesHanded
  <2> QED
    BY <2>2 DEF at, at2
<1>4. ASSUME Handed(p, b, p2, b2)
      PROVE  PlaceKept(At(h, q, f, p, b, x), At(h, q, f, p2, b2, x))
  <2> DEFINE at == At(h, q, f, p, b, x)
             at2 == At(h, q, f, p2, b2, x)
  <2>1. /\ DOMAIN at = DOMAIN at2 /\ "pending" \in DOMAIN at /\ "batch" \in DOMAIN at
        /\ \A l \in DOMAIN at \ {"pending", "batch"} : at2[l] = at[l]
        /\ Handed(at["pending"], at["batch"], at2["pending"], at2["batch"])
    BY <1>4, AtPlaces
  <2> HIDE DEF at, at2
  <2>2. PlaceKept(at, at2)
    BY <2>1, PlacesHanded
  <2> QED
    BY <2>2 DEF at, at2
<1>5. ASSUME Handed(f, x, f2, x2)
      PROVE  PlaceKept(At(h, q, f, p, b, x), At(h, q, f2, p, b, x2))
  <2> DEFINE at == At(h, q, f, p, b, x)
             at2 == At(h, q, f2, p, b, x2)
  <2>1. /\ DOMAIN at = DOMAIN at2 /\ "handOff" \in DOMAIN at /\ "forgotten" \in DOMAIN at
        /\ \A l \in DOMAIN at \ {"handOff", "forgotten"} : at2[l] = at[l]
        /\ Handed(at["handOff"], at["forgotten"], at2["handOff"], at2["forgotten"])
    BY <1>5, AtPlaces
  <2> HIDE DEF at, at2
  <2>2. PlaceKept(at, at2)
    BY <2>1, PlacesHanded
  <2> QED
    BY <2>2 DEF at, at2
<1>6. ASSUME Handed(q, x, q2, x2)
      PROVE  PlaceKept(At(h, q, f, p, b, x), At(h, q2, f, p, b, x2))
  <2> DEFINE at == At(h, q, f, p, b, x)
             at2 == At(h, q2, f, p, b, x2)
  <2>1. /\ DOMAIN at = DOMAIN at2 /\ "queue" \in DOMAIN at /\ "forgotten" \in DOMAIN at
        /\ \A l \in DOMAIN at \ {"queue", "forgotten"} : at2[l] = at[l]
        /\ Handed(at["queue"], at["forgotten"], at2["queue"], at2["forgotten"])
    BY <1>6, AtPlaces
  <2> HIDE DEF at, at2
  <2>2. PlaceKept(at, at2)
    BY <2>1, PlacesHanded
  <2> QED
    BY <2>2 DEF at, at2
<1> QED
  BY <1>1, <1>2, <1>3, <1>4, <1>5, <1>6

\* The places at which the words of an author are accepted.
LEMMA AtTakes ==
    ASSUME NEW h, NEW q, NEW f, NEW p, NEW b, NEW x, NEW new
    PROVE  /\ Nowhere(At(h, q, f, p, b, x)) /\ (h = {} => One(new)) =>
                InOnePlace(At(new, q, f, p, b, x))
           /\ Nowhere(At(h, q, f, p, b, x)) /\ (q = {} => One(new)) =>
                InOnePlace(At(h, new, f, p, b, x))
           /\ Nowhere(At(h, q, f, p, b, x)) /\ (p = {} => One(new)) =>
                InOnePlace(At(h, q, f, new, b, x))
           /\ Nowhere(At(h, q, f, p, b, x)) /\ (b = {} => One(new)) =>
                InOnePlace(At(h, q, f, p, new, x))
<1> SUFFICES ASSUME Nowhere(At(h, q, f, p, b, x))
             PROVE  /\ (h = {} => One(new)) => InOnePlace(At(new, q, f, p, b, x))
                    /\ (q = {} => One(new)) => InOnePlace(At(h, new, f, p, b, x))
                    /\ (p = {} => One(new)) => InOnePlace(At(h, q, f, new, b, x))
                    /\ (b = {} => One(new)) => InOnePlace(At(h, q, f, p, new, x))
  OBVIOUS
<1>1. h = {} /\ q = {} /\ f = {} /\ p = {} /\ b = {} /\ x = {}
  BY AtPlaces DEF Nowhere
<1>2. ASSUME One(new) PROVE InOnePlace(At(new, q, f, p, b, x))
  BY <1>1, <1>2, AtPlaces DEF InOnePlace, One
<1>3. ASSUME One(new) PROVE InOnePlace(At(h, new, f, p, b, x))
  BY <1>1, <1>3, AtPlaces DEF InOnePlace, One
<1>4. ASSUME One(new) PROVE InOnePlace(At(h, q, f, new, b, x))
  BY <1>1, <1>4, AtPlaces DEF InOnePlace, One
<1>5. ASSUME One(new) PROVE InOnePlace(At(h, q, f, p, new, x))
  BY <1>1, <1>5, AtPlaces DEF InOnePlace, One
<1> QED
  BY <1>1, <1>2, <1>3, <1>4, <1>5

\* Where the words of a are while no switch is between its two halves.
Spots(a) ==
    At(CarryingIn(responseList, a), CarryingIn(responseQueue, a), CarryingIn(handOff, a),
       PlacesIn(pendingAsks, a), PlacesInBatches(batch, a), forgotten \cap {a})

\* A step that moves the words of a between two lists, and changes no other.
LEMMA SpotsHanded ==
    ASSUME NEW a
    PROVE  /\ /\ UNCHANGED <<handOff, pendingAsks, batch, forgotten>>
              /\ Handed(CarryingIn(responseList, a), CarryingIn(responseQueue, a),
                        CarryingIn(responseList', a), CarryingIn(responseQueue', a))
              => PlaceKept(Spots(a), Spots(a)')
           /\ /\ UNCHANGED <<responseQueue, pendingAsks, batch, forgotten>>
              /\ Handed(CarryingIn(responseList, a), CarryingIn(handOff, a),
                        CarryingIn(responseList', a), CarryingIn(handOff', a))
              => PlaceKept(Spots(a), Spots(a)')
           /\ /\ UNCHANGED <<responseQueue, handOff, pendingAsks, forgotten>>
              /\ Handed(PlacesInBatches(batch, a), CarryingIn(responseList, a),
                        PlacesInBatches(batch', a), CarryingIn(responseList', a))
              => PlaceKept(Spots(a), Spots(a)')
           /\ /\ UNCHANGED <<responseList, responseQueue, handOff, forgotten>>
              /\ Handed(PlacesIn(pendingAsks, a), PlacesInBatches(batch, a),
                        PlacesIn(pendingAsks', a), PlacesInBatches(batch', a))
              => PlaceKept(Spots(a), Spots(a)')
           /\ /\ UNCHANGED <<responseList, responseQueue, pendingAsks, batch>>
              /\ Handed(CarryingIn(handOff, a), forgotten \cap {a},
                        CarryingIn(handOff', a), forgotten' \cap {a})
              => PlaceKept(Spots(a), Spots(a)')
<1> DEFINE h  == CarryingIn(responseList, a)
           q  == CarryingIn(responseQueue, a)
           f  == CarryingIn(handOff, a)
           p  == PlacesIn(pendingAsks, a)
           b  == PlacesInBatches(batch, a)
           x  == forgotten \cap {a}
           h2 == CarryingIn(responseList', a)
           q2 == CarryingIn(responseQueue', a)
           f2 == CarryingIn(handOff', a)
           p2 == PlacesIn(pendingAsks', a)
           b2 == PlacesInBatches(batch', a)
           x2 == forgotten' \cap {a}
<1>1. Spots(a) = At(h, q, f, p, b, x) /\ Spots(a)' = At(h2, q2, f2, p2, b2, x2)
  BY DEF Spots
<1>2. /\ UNCHANGED responseList  => h2 = h
      /\ UNCHANGED responseQueue => q2 = q
      /\ UNCHANGED handOff       => f2 = f
      /\ UNCHANGED pendingAsks   => p2 = p
      /\ UNCHANGED batch         => b2 = b
      /\ UNCHANGED forgotten     => x2 = x
  OBVIOUS
<1>3. ASSUME UNCHANGED <<handOff, pendingAsks, batch, forgotten>>, Handed(h, q, h2, q2)
      PROVE  PlaceKept(Spots(a), Spots(a)')
  <2>1. Spots(a)' = At(h2, q2, f, p, b, x)
    BY <1>1, <1>2, <1>3
  <2>2. Handed(h, q, h2, q2)
    BY <1>3
  <2> HIDE DEF h, q, f, p, b, x, h2, q2, f2, p2, b2, x2
  <2>3. PlaceKept(At(h, q, f, p, b, x), At(h2, q2, f, p, b, x))
    BY <2>2, AtHands
  <2> QED
    BY <1>1, <2>1, <2>3
<1>4. ASSUME UNCHANGED <<responseQueue, pendingAsks, batch, forgotten>>, Handed(h, f, h2, f2)
      PROVE  PlaceKept(Spots(a), Spots(a)')
  <2>1. Spots(a)' = At(h2, q, f2, p, b, x)
    BY <1>1, <1>2, <1>4
  <2>2. Handed(h, f, h2, f2)
    BY <1>4
  <2> HIDE DEF h, q, f, p, b, x, h2, q2, f2, p2, b2, x2
  <2>3. PlaceKept(At(h, q, f, p, b, x), At(h2, q, f2, p, b, x))
    BY <2>2, AtHands
  <2> QED
    BY <1>1, <2>1, <2>3
<1>5. ASSUME UNCHANGED <<responseQueue, handOff, pendingAsks, forgotten>>, Handed(b, h, b2, h2)
      PROVE  PlaceKept(Spots(a), Spots(a)')
  <2>1. Spots(a)' = At(h2, q, f, p, b2, x)
    BY <1>1, <1>2, <1>5
  <2>2. Handed(b, h, b2, h2)
    BY <1>5
  <2> HIDE DEF h, q, f, p, b, x, h2, q2, f2, p2, b2, x2
  <2>3. PlaceKept(At(h, q, f, p, b, x), At(h2, q, f, p, b2, x))
    BY <2>2, AtHands
  <2> QED
    BY <1>1, <2>1, <2>3
<1>6. ASSUME UNCHANGED <<responseList, responseQueue, handOff, forgotten>>, Handed(p, b, p2, b2)
      PROVE  PlaceKept(Spots(a), Spots(a)')
  <2>1. Spots(a)' = At(h, q, f, p2, b2, x)
    BY <1>1, <1>2, <1>6
  <2>2. Handed(p, b, p2, b2)
    BY <1>6
  <2> HIDE DEF h, q, f, p, b, x, h2, q2, f2, p2, b2, x2
  <2>3. PlaceKept(At(h, q, f, p, b, x), At(h, q, f, p2, b2, x))
    BY <2>2, AtHands
  <2> QED
    BY <1>1, <2>1, <2>3
<1>7. ASSUME UNCHANGED <<responseList, responseQueue, pendingAsks, batch>>, Handed(f, x, f2, x2)
      PROVE  PlaceKept(Spots(a), Spots(a)')
  <2>1. Spots(a)' = At(h, q, f2, p, b, x2)
    BY <1>1, <1>2, <1>7
  <2>2. Handed(f, x, f2, x2)
    BY <1>7
  <2> HIDE DEF h, q, f, p, b, x, h2, q2, f2, p2, b2, x2
  <2>3. PlaceKept(At(h, q, f, p, b, x), At(h, q, f2, p, b, x2))
    BY <2>2, AtHands
  <2> QED
    BY <1>1, <2>1, <2>3
<1> QED
  BY <1>3, <1>4, <1>5, <1>6, <1>7

\* ... and while one is: the history is about to go.
SpotsCleared(a) ==
    At({}, CarryingIn(responseQueue, a), CarryingIn(handOff, a),
       PlacesIn(pendingAsks, a), PlacesInBatches(batch, a), forgotten \cap {a})

\* A step that puts new words of a into one list, and changes no other.
TakenIn(a) ==
    /\ Nowhere(Spots(a)) => InOnePlace(Spots(a)')
    /\ Nowhere(SpotsCleared(a)) => InOnePlace(SpotsCleared(a)')

LEMMA SpotsTaken ==
    ASSUME NEW a, UNCHANGED <<handOff, forgotten>>
    PROVE  /\ /\ UNCHANGED <<responseQueue, pendingAsks, batch>>
              /\ CarryingIn(responseList, a) = {} => One(CarryingIn(responseList', a))
              => (Nowhere(Spots(a)) => InOnePlace(Spots(a)'))
           /\ /\ UNCHANGED <<responseList, pendingAsks, batch>>
              /\ CarryingIn(responseQueue, a) = {} => One(CarryingIn(responseQueue', a))
              => TakenIn(a)
           /\ /\ UNCHANGED <<responseList, responseQueue, batch>>
              /\ PlacesIn(pendingAsks, a) = {} => One(PlacesIn(pendingAsks', a))
              => TakenIn(a)
           /\ /\ UNCHANGED <<responseList, responseQueue, pendingAsks>>
              /\ PlacesInBatches(batch, a) = {} => One(PlacesInBatches(batch', a))
              => TakenIn(a)
<1> DEFINE h  == CarryingIn(responseList, a)
           q  == CarryingIn(responseQueue, a)
           f  == CarryingIn(handOff, a)
           p  == PlacesIn(pendingAsks, a)
           b  == PlacesInBatches(batch, a)
           x  == forgotten \cap {a}
           h2 == CarryingIn(responseList', a)
           q2 == CarryingIn(responseQueue', a)
           p2 == PlacesIn(pendingAsks', a)
           b2 == PlacesInBatches(batch', a)
<1>1. /\ Spots(a) = At(h, q, f, p, b, x) /\ Spots(a)' = At(h2, q2, f, p2, b2, x)
      /\ SpotsCleared(a) = At({}, q, f, p, b, x) /\ SpotsCleared(a)' = At({}, q2, f, p2, b2, x)
  BY DEF Spots, SpotsCleared
<1>2. /\ UNCHANGED responseList  => h2 = h
      /\ UNCHANGED responseQueue => q2 = q
      /\ UNCHANGED pendingAsks   => p2 = p
      /\ UNCHANGED batch         => b2 = b
  OBVIOUS
<1>3. ASSUME UNCHANGED <<responseQueue, pendingAsks, batch>>, h = {} => One(h2)
      PROVE  Nowhere(Spots(a)) => InOnePlace(Spots(a)')
  <2>1. Spots(a)' = At(h2, q, f, p, b, x)
    BY <1>1, <1>2, <1>3
  <2>2. h = {} => One(h2)
    BY <1>3
  <2> HIDE DEF h, q, f, p, b, x, h2, q2, p2, b2
  <2>3. Nowhere(At(h, q, f, p, b, x)) => InOnePlace(At(h2, q, f, p, b, x))
    BY <2>2, AtTakes
  <2> QED
    BY <1>1, <2>1, <2>3
<1>4. ASSUME UNCHANGED <<responseList, pendingAsks, batch>>, q = {} => One(q2)
      PROVE  TakenIn(a)
  <2>1. Spots(a)' = At(h, q2, f, p, b, x) /\ SpotsCleared(a)' = At({}, q2, f, p, b, x)
    BY <1>1, <1>2, <1>4
  <2>2. q = {} => One(q2)
    BY <1>4
  <2> HIDE DEF h, q, f, p, b, x, h2, q2, p2, b2
  <2>3. Nowhere(At(h, q, f, p, b, x)) => InOnePlace(At(h, q2, f, p, b, x))
    BY <2>2, AtTakes
  <2>4. Nowhere(At({}, q, f, p, b, x)) => InOnePlace(At({}, q2, f, p, b, x))
    BY <2>2, AtTakes
  <2> QED
    BY <1>1, <2>1, <2>3, <2>4 DEF TakenIn
<1>5. ASSUME UNCHANGED <<responseList, responseQueue, batch>>, p = {} => One(p2)
      PROVE  TakenIn(a)
  <2>1. Spots(a)' = At(h, q, f, p2, b, x) /\ SpotsCleared(a)' = At({}, q, f, p2, b, x)
    BY <1>1, <1>2, <1>5
  <2>2. p = {} => One(p2)
    BY <1>5
  <2> HIDE DEF h, q, f, p, b, x, h2, q2, p2, b2
  <2>3. Nowhere(At(h, q, f, p, b, x)) => InOnePlace(At(h, q, f, p2, b, x))
    BY <2>2, AtTakes
  <2>4. Nowhere(At({}, q, f, p, b, x)) => InOnePlace(At({}, q, f, p2, b, x))
    BY <2>2, AtTakes
  <2> QED
    BY <1>1, <2>1, <2>3, <2>4 DEF TakenIn
<1>6. ASSUME UNCHANGED <<responseList, responseQueue, pendingAsks>>, b = {} => One(b2)
      PROVE  TakenIn(a)
  <2>1. Spots(a)' = At(h, q, f, p, b2, x) /\ SpotsCleared(a)' = At({}, q, f, p, b2, x)
    BY <1>1, <1>2, <1>6
  <2>2. b = {} => One(b2)
    BY <1>6
  <2> HIDE DEF h, q, f, p, b, x, h2, q2, p2, b2
  <2>3. Nowhere(At(h, q, f, p, b, x)) => InOnePlace(At(h, q, f, p, b2, x))
    BY <2>2, AtTakes
  <2>4. Nowhere(At({}, q, f, p, b, x)) => InOnePlace(At({}, q, f, p, b2, x))
    BY <2>2, AtTakes
  <2> QED
    BY <1>1, <2>1, <2>3, <2>4 DEF TakenIn
<1> QED
  BY <1>3, <1>4, <1>5, <1>6

\* Words that are forgotten the moment they are accepted.
LEMMA SpotsForgotten ==
    ASSUME NEW a, UNCHANGED <<responseQueue, handOff, pendingAsks, batch>>,
           a \in forgotten', Nowhere(SpotsCleared(a))
    PROVE  InOnePlace(SpotsCleared(a)')
<1> DEFINE q == CarryingIn(responseQueue, a)
           f == CarryingIn(handOff, a)
           p == PlacesIn(pendingAsks, a)
           b == PlacesInBatches(batch, a)
           x == forgotten \cap {a}
<1>1. /\ SpotsCleared(a) = At({}, q, f, p, b, x)
      /\ SpotsCleared(a)' = At({}, q, f, p, b, {a})
  BY DEF SpotsCleared
<1> HIDE DEF q, f, p, b, x
<1>2. q = {} /\ f = {} /\ p = {} /\ b = {}
  BY <1>1, AtPlaces DEF Nowhere
<1>3. InOnePlace(At({}, {}, {}, {}, {}, {a}))
  BY AtPlaces DEF InOnePlace
<1> QED
  BY <1>1, <1>2, <1>3

\* Where, in both cases, and one step later.
LEMMA WhereSpots ==
    ASSUME NEW a
    PROVE  /\ Where(a) = IF BeingCleared THEN SpotsCleared(a) ELSE Spots(a)
           /\ Where(a)' = IF BeingCleared' THEN SpotsCleared(a)' ELSE Spots(a)'
<1>1. Where(a) = IF BeingCleared THEN SpotsCleared(a) ELSE Spots(a)
  BY DEF Where, Spots, SpotsCleared, At, PlacesIn, PlacesInBatches
<1>2. Where(a)' = IF BeingCleared' THEN SpotsCleared(a)' ELSE Spots(a)'
  BY DEF Where, Spots, SpotsCleared, At, PlacesIn, PlacesInBatches
<1> QED
  BY <1>1, <1>2

\* A step that accepts nobody's words and keeps the places of all.
LEMMA KeptPlaces ==
    ASSUME NothingLost, strayRelease => strayRelease',
           ~strayRelease' => \A a \in Authors : /\ Accepted(a)' <=> Accepted(a)
                                                /\ PlaceKept(Where(a), Where(a)')
    PROVE  NothingLost'
  BY DEF NothingLost, PlaceKept

\* A step that accepts the words of t.
LEMMA NewPlace ==
    ASSUME NothingLost, strayRelease => strayRelease', NEW t \in Authors,
           ~Accepted(t), Accepted(t)',
           ~strayRelease' => \A a \in Authors \ {t} : /\ Accepted(a)' <=> Accepted(a)
                                                      /\ PlaceKept(Where(a), Where(a)'),
           ~strayRelease' /\ Nowhere(Where(t)) => InOnePlace(Where(t)')
    PROVE  NothingLost'
  BY DEF NothingLost, PlaceKept

\* A thread moves; all others stay where they are.
LEMMA OneMoves ==
    ASSUME TypeInv, NEW t \in Threads, NEW l, Goto(t, l)
    PROVE  /\ pc'[t] = l /\ \A u \in Threads \ {t} : pc'[u] = pc[u]
           /\ \A a \in Authors \ {t} : Accepted(a)' <=> Accepted(a)
           /\ t \in Authors => (Accepted(t)' <=> l \notin {"idle", "append", "enqueue"})
<1>1. pc'[t] = l /\ \A u \in Threads \ {t} : pc'[u] = pc[u]
  BY DEF Goto, TypeInv, ControlTypeOK
<1>2. Authors \subseteq Threads
  BY DEF Authors, Threads
<1> QED
  BY <1>1, <1>2 DEF Accepted

\* A thread moves and touches no list.
LEMMA QuietKeepsPlaces ==
    ASSUME TypeInv, NothingLost, strayRelease => strayRelease', NEW t \in Threads, NEW l,
           Goto(t, l), t \in Switches => pc[t] # "rewrite" /\ l # "rewrite",
           t \in Authors => (Accepted(t) <=> l \notin {"idle", "append", "enqueue"}),
           UNCHANGED <<responseList, responseQueue, handOff, pendingAsks, batch, forgotten>>
    PROVE  NothingLost'
<1>1. \A a \in Authors : Accepted(a)' <=> Accepted(a)
  BY OneMoves
<1>2. BeingCleared' <=> BeingCleared
  <2>1. \A w \in Switches : pc'[w] = "rewrite" <=> pc[w] = "rewrite"
    BY OneMoves DEF Threads
  <2> QED
    BY <2>1 DEF BeingCleared
<1>3. \A a \in Authors : Where(a)' = Where(a)
  <2> TAKE a \in Authors
  <2>1. Spots(a)' = Spots(a) /\ SpotsCleared(a)' = SpotsCleared(a)
    BY DEF Spots, SpotsCleared
  <2> QED
    BY <1>2, <2>1, WhereSpots
<1>4. \A a \in Authors : PlaceKept(Where(a), Where(a)')
  BY <1>3 DEF PlaceKept
<1> QED
  BY <1>1, <1>4, KeptPlaces

\* The owner of the round is alone: no switch is between its two halves.
LEMMA OwnerAlone ==
    ASSUME TypeInv, RoundOwnership, ~strayRelease, NEW t \in Threads, Owns(t)
    PROVE  /\ \A u \in Threads \ {t} : pc[u] \notin OwningPCs
           /\ roundActive = TRUE /\ isStopped = FALSE
  BY DEF RoundOwnership, OneRoundAtATime, Owns, TypeInv, ControlTypeOK

\* The owner of the round moves words.
LEMMA OwnerKeepsPlaces ==
    ASSUME TypeInv, RoundOwnership, NothingLost, UNCHANGED strayRelease,
           NEW t \in Threads, Owns(t), pc[t] # "rewrite", NEW l, Goto(t, l),
           l \notin {"idle", "append", "enqueue", "rewrite"},
           ~strayRelease => \A a \in Authors : PlaceKept(Spots(a), Spots(a)')
    PROVE  NothingLost'
<1> SUFFICES ASSUME ~strayRelease, ~strayRelease' PROVE NothingLost'
  BY DEF NothingLost
<1>1. \A u \in Threads : pc[u] # "rewrite" /\ pc'[u] # "rewrite"
  BY OwnerAlone, OneMoves DEF OwningPCs
<1>2. ~BeingCleared /\ ~BeingCleared'
  BY <1>1 DEF BeingCleared, Threads
<1>3. \A a \in Authors : PlaceKept(Where(a), Where(a)')
  BY <1>2, WhereSpots
<1>4. t \in Authors => Accepted(t)
  BY DEF Owns, OwningPCs, RoundPCs, Accepted
<1>5. \A a \in Authors : Accepted(a)' <=> Accepted(a)
  BY <1>4, OneMoves
<1> QED
  BY <1>3, <1>5, KeptPlaces

\* What _validate_sequence stores is computed from the history it replaces, and
\* the questions a switch clears are in the hand-off: only relays came later.
CopyInv ==
    ~strayRelease =>
        /\ \A t \in Askers : pc[t] = "replace" => cleaned[t] = Validated(responseList)
        /\ BeingCleared => \A a \in Plain :
             CarryingIn(responseList, a) # {} => CarryingIn(handOff, a) # {}

LossInv == NothingLost /\ CopyInv

\* A step that changes neither the history nor the hand-off leaves the copies fresh.
LEMMA QuietKeepsCopies ==
    ASSUME TypeInv, CopyInv, strayRelease => strayRelease', NEW t \in Threads, NEW l,
           Goto(t, l), l \notin {"replace", "rewrite"},
           UNCHANGED <<responseList, handOff, cleaned>>
    PROVE  CopyInv'
<1>1. \A u \in Threads : pc'[u] = pc[u] \/ pc'[u] = l
  BY OneMoves
<1>2. BeingCleared' => BeingCleared
  BY <1>1 DEF BeingCleared, Threads
<1> QED
  BY <1>1, <1>2 DEF CopyInv, Threads

\* The owner is alone: while it is elsewhere, nobody has a copy.
LEMMA OwnerKeepsCopies ==
    ASSUME TypeInv, RoundOwnership, UNCHANGED strayRelease,
           NEW t \in Threads, Owns(t), NEW l, Goto(t, l), l \notin {"replace", "rewrite"}
    PROVE  CopyInv'
<1> SUFFICES ASSUME ~strayRelease PROVE CopyInv'
  BY DEF CopyInv
<1>1. \A u \in Threads : pc'[u] \notin {"replace", "rewrite"}
  BY OwnerAlone, OneMoves DEF OwningPCs, RoundPCs
<1> QED
  BY <1>1 DEF CopyInv, BeingCleared, Threads

\* A step that touches no list and computes no copy.
LEMMA QuietKeepsLoss ==
    ASSUME TypeInv, LossInv, strayRelease => strayRelease', NEW t \in Threads, NEW l,
           Goto(t, l), l \notin {"replace", "rewrite"}, t \in Switches => pc[t] # "rewrite",
           t \in Authors => (Accepted(t) <=> l \notin {"idle", "append", "enqueue"}),
           UNCHANGED <<responseList, responseQueue, handOff, pendingAsks, batch, forgotten, cleaned>>
    PROVE  LossInv'
<1>1. NothingLost'
  BY QuietKeepsPlaces DEF LossInv
<1>2. CopyInv'
  BY QuietKeepsCopies DEF LossInv
<1> QED
  BY <1>1, <1>2 DEF LossInv

\* The owner of the round moves words.
LEMMA OwnerKeepsLoss ==
    ASSUME TypeInv, RoundOwnership, LossInv, UNCHANGED strayRelease,
           NEW t \in Threads, Owns(t), pc[t] # "rewrite", NEW l, Goto(t, l),
           l \notin {"idle", "append", "enqueue", "rewrite", "replace"},
           ~strayRelease => \A a \in Authors : PlaceKept(Spots(a), Spots(a)')
    PROVE  LossInv'
<1>1. NothingLost'
  BY OwnerKeepsPlaces DEF LossInv
<1>2. CopyInv'
  BY OwnerKeepsCopies
<1> QED
  BY <1>1, <1>2 DEF LossInv

\* A message is accepted: from then on it is in one place.
LEMMA AcceptKeepsPlaces ==
    ASSUME TypeInv, NothingLost, UNCHANGED strayRelease, NEW t \in Authors,
           pc[t] \in {"idle", "append", "enqueue"}, NEW l, l \notin {"idle", "append", "enqueue"}, Goto(t, l),
           ~strayRelease => (BeingCleared' <=> BeingCleared),
           \A a \in Authors \ {t} : Spots(a)' = Spots(a) /\ SpotsCleared(a)' = SpotsCleared(a),
           ~strayRelease /\ Nowhere(Where(t)) => InOnePlace(Where(t)')
    PROVE  NothingLost'
<1>0. t \in Threads
  BY DEF Authors, Threads
<1>1. ~Accepted(t) /\ Accepted(t)'
  BY <1>0, OneMoves DEF Accepted
<1>2. ASSUME NEW a \in Authors \ {t}, ~strayRelease'
      PROVE  (Accepted(a)' <=> Accepted(a)) /\ PlaceKept(Where(a), Where(a)')
  <2>1. Where(a)' = Where(a)
    BY <1>2, WhereSpots
  <2> QED
    BY <1>0, <2>1, OneMoves DEF PlaceKept
<1>3. ASSUME ~strayRelease', Nowhere(Where(t)) PROVE InOnePlace(Where(t)')
  BY <1>3
<1> QED
  BY <1>1, <1>2, <1>3, NewPlace

\* A thread that is not a switch neither begins nor ends the clearing.
LEMMA CopyStays ==
    ASSUME TypeInv, NEW t \in Threads \ Switches, NEW l, Goto(t, l)
    PROVE  BeingCleared' <=> BeingCleared
<1>1. \A w \in Switches : pc'[w] = pc[w]
  BY OneMoves DEF Threads
<1> QED
  BY <1>1 DEF BeingCleared

\* The first question of a round, in the batch of its thread.
LEMMA AskClaimsKeepsLoss ==
    ASSUME TypeInv, HistInv, LossInv, NEW t \in Askers, AskClaims(t)
    PROVE  LossInv'
<1>0. /\ t \in Threads \ Switches /\ t \in Authors /\ pc[t] = "idle" /\ Goto(t, "add")
      /\ UNCHANGED <<responseList, responseQueue, handOff, pendingAsks, cleaned, forgotten, strayRelease>>
  BY KindsDisjoint DEF Threads, Authors, AskClaims, convVars, pastVars
<1>1. /\ batch \in [Askers -> Seq(Askers)] /\ batch[t] = << >>
      /\ \A u \in Askers \ {t} : batch'[u] = batch[u]
  BY DEF AskClaims, TypeInv, ControlTypeOK, HistInv, IdleBatches
<1>2. PlacesIn(batch'[t], t) = {1} /\ \A a : a # t => PlacesIn(batch'[t], a) = {}
  <2>1. PlacesIn(<<t>>, t) = {1} /\ \A a : a # t => PlacesIn(<<t>>, a) = {}
    BY DEF PlacesIn
  <2>2. batch'[t] = <<t>>
    BY DEF AskClaims, TypeInv, ControlTypeOK
  <2> QED
    BY <2>1, <2>2
<1>3. ASSUME NEW a
      PROVE  \A p : p \in PlacesInBatches(batch', a) <=>
                      \/ p \in PlacesInBatches(batch, a)
                      \/ \E i \in PlacesIn(batch'[t], a) : p = <<t, i>>
  BY <1>1, BatchFilled
<1>4. ASSUME NEW a, a # t PROVE PlacesInBatches(batch', a) = PlacesInBatches(batch, a)
  BY <1>2, <1>3, <1>4
<1>5. PlacesInBatches(batch, t) = {} => One(PlacesInBatches(batch', t))
  <2>1. PlacesInBatches(batch, t) = {} => PlacesInBatches(batch', t) = {<<t, 1>>}
    BY <1>2, <1>3
  <2> QED
    BY <2>1 DEF One
<1>6. \A a : a # t => Spots(a)' = Spots(a) /\ SpotsCleared(a)' = SpotsCleared(a)
  BY <1>0, <1>4 DEF Spots, SpotsCleared
<1>8. TakenIn(t)
  BY <1>0, <1>5, SpotsTaken
<1>9. BeingCleared' <=> BeingCleared
  BY <1>0, CopyStays
<1>t. Nowhere(Where(t)) => InOnePlace(Where(t)')
  BY <1>8, <1>9, WhereSpots DEF TakenIn
<1>10. NothingLost'
  BY <1>0, <1>6, <1>9, <1>t, AcceptKeepsPlaces DEF LossInv
<1>11. CopyInv'
  BY <1>0, QuietKeepsCopies DEF LossInv
<1> QED
  BY <1>10, <1>11 DEF LossInv

\* A question behind a round, in the queue of the questions.
LEMMA QueuePendingAskKeepsLoss ==
    ASSUME TypeInv, LossInv, NEW t \in Askers, QueuePendingAsk(t)
    PROVE  LossInv'
<1>0. /\ t \in Threads \ Switches /\ t \in Authors /\ pc[t] = "enqueue" /\ Goto(t, "done")
      /\ UNCHANGED <<responseList, responseQueue, handOff, batch, cleaned, forgotten, strayRelease>>
  BY KindsDisjoint DEF Threads, Authors, QueuePendingAsk, convVars, localVars
<1>1. /\ pendingAsks \in Seq(Askers) /\ Len(pendingAsks) \in Nat
      /\ pendingAsks' = Append(pendingAsks, t)
  BY DEF QueuePendingAsk, TypeInv, ControlTypeOK
<1>2. /\ DOMAIN pendingAsks = 1..Len(pendingAsks)
      /\ DOMAIN pendingAsks' = 1..(Len(pendingAsks) + 1)
      /\ \A i \in 1..Len(pendingAsks) : pendingAsks'[i] = pendingAsks[i]
      /\ pendingAsks'[Len(pendingAsks) + 1] = t
  BY <1>1, AppendProperties
<1>3. \A a : a # t => PlacesIn(pendingAsks', a) = PlacesIn(pendingAsks, a)
  BY <1>1, <1>2 DEF PlacesIn
<1>4. PlacesIn(pendingAsks, t) = {} => One(PlacesIn(pendingAsks', t))
  <2>1. PlacesIn(pendingAsks, t) = {} => PlacesIn(pendingAsks', t) = {Len(pendingAsks) + 1}
    BY <1>1, <1>2 DEF PlacesIn
  <2> QED
    BY <2>1 DEF One
<1>5. \A a : a # t => Spots(a)' = Spots(a) /\ SpotsCleared(a)' = SpotsCleared(a)
  BY <1>0, <1>3 DEF Spots, SpotsCleared
<1>7. TakenIn(t)
  BY <1>0, <1>4, SpotsTaken
<1>8. BeingCleared' <=> BeingCleared
  BY <1>0, CopyStays
<1>t. Nowhere(Where(t)) => InOnePlace(Where(t)')
  BY <1>7, <1>8, WhereSpots DEF TakenIn
<1>9. NothingLost'
  BY <1>0, <1>5, <1>8, <1>t, AcceptKeepsPlaces DEF LossInv
<1>10. CopyInv'
  BY <1>0, QuietKeepsCopies DEF LossInv
<1> QED
  BY <1>9, <1>10 DEF LossInv

\* A list with one more message, of t.
LEMMA AuthorAppended ==
    ASSUME NEW list \in Seq(Message), NEW t \in Authors
    PROVE  /\ \A a : a # t => CarryingIn(Append(list, User(t)), a) = CarryingIn(list, a)
           /\ CarryingIn(list, t) = {} => One(CarryingIn(Append(list, User(t)), t))
<1>1. User(t) \in Message /\ \A a : a \in Carries(User(t)) <=> a = t
  BY MessagesTyped, WhoseWords
<1>2. \A a : CarryingIn(Append(list, User(t)), a) =
               CarryingIn(list, a) \cup (IF a = t THEN {Len(list) + 1} ELSE {})
  BY <1>1, AppendWords
<1> QED
  BY <1>2 DEF One

\* A forced question or a relayed message, in the queue of a running round.
LEMMA ForcedAddKeepsLoss ==
    ASSUME TypeInv, HistInv, LossInv, NEW t \in Authors, ForcedAdd(t)
    PROVE  LossInv'
<1>0. /\ t \in Threads \ Switches /\ pc[t] = "enqueue" /\ Goto(t, "done")
      /\ UNCHANGED <<responseList, handOff, pendingAsks, batch, cleaned, forgotten, strayRelease>>
  BY KindsDisjoint DEF Threads, Authors, ForcedAdd, localVars, roundVars, pastVars
<1>1. responseQueue \in Seq(Message) /\ responseQueue' = Append(responseQueue, User(t))
  BY DEF ForcedAdd, HistInv, HistoryTypeOK
<1>2. \A a : a # t => CarryingIn(responseQueue', a) = CarryingIn(responseQueue, a)
  BY <1>1, AuthorAppended
<1>3. CarryingIn(responseQueue, t) = {} => One(CarryingIn(responseQueue', t))
  BY <1>1, AuthorAppended
<1>4. \A a : a # t => Spots(a)' = Spots(a) /\ SpotsCleared(a)' = SpotsCleared(a)
  BY <1>0, <1>2 DEF Spots, SpotsCleared
<1>5. TakenIn(t)
  BY <1>0, <1>3, SpotsTaken
<1>7. BeingCleared' <=> BeingCleared
  BY <1>0, CopyStays
<1>t. Nowhere(Where(t)) => InOnePlace(Where(t)')
  BY <1>5, <1>7, WhereSpots DEF TakenIn
<1>8. NothingLost'
  BY <1>0, <1>4, <1>7, <1>t, AcceptKeepsPlaces DEF LossInv
<1>9. CopyInv'
  BY <1>0, QuietKeepsCopies DEF LossInv
<1> QED
  BY <1>8, <1>9 DEF LossInv

\* A message relayed into the history -- where it stays, unless a switch that
\* took its snapshot is about to clear it.
LEMMA RelayKeepsLoss ==
    ASSUME TypeInv, CtxInv, HistInv, LossInv, NEW t \in Relays, RelayToHistory(t)
    PROVE  LossInv'
<1>0. /\ t \in Threads \ Switches /\ t \in Authors /\ pc[t] = "append" /\ Goto(t, "done")
      /\ forgotten' = (IF BeingCleared THEN forgotten \cup {t} ELSE forgotten)
      /\ UNCHANGED <<responseQueue, handOff, pendingAsks, batch, cleaned, strayRelease>>
  BY KindsDisjoint DEF Threads, Authors, RelayToHistory, localVars, roundVars, pastVars
<1>1. responseList \in Seq(Message) /\ responseList' = Append(responseList, User(t))
  BY DEF RelayToHistory, HistInv, HistoryTypeOK
<1>2. \A a : a # t => CarryingIn(responseList', a) = CarryingIn(responseList, a)
  BY <1>0, <1>1, AuthorAppended
<1>3. CarryingIn(responseList, t) = {} => One(CarryingIn(responseList', t))
  BY <1>0, <1>1, AuthorAppended
<1>4. ASSUME NEW a, a # t PROVE Spots(a)' = Spots(a) /\ SpotsCleared(a)' = SpotsCleared(a)
  <2>1. forgotten' \cap {a} = forgotten \cap {a}
    BY <1>0, <1>4
  <2> QED
    BY <1>0, <1>2, <1>4, <2>1 DEF Spots, SpotsCleared
<1>5. BeingCleared' <=> BeingCleared
  BY <1>0, CopyStays
<1>6. Nowhere(Where(t)) => InOnePlace(Where(t)')
  <2>1. CASE BeingCleared
    <3>1. Nowhere(SpotsCleared(t)) => InOnePlace(SpotsCleared(t)')
      BY <1>0, <2>1, SpotsForgotten
    <3> QED
      BY <1>5, <2>1, <3>1, WhereSpots
  <2>2. CASE ~BeingCleared
    <3>1. Nowhere(Spots(t)) => InOnePlace(Spots(t)')
      BY <1>0, <1>3, <2>2, SpotsTaken
    <3> QED
      BY <1>5, <2>2, <3>1, WhereSpots
  <2> QED
    BY <2>1, <2>2
<1>7. NothingLost'
  BY <1>0, <1>4, <1>5, <1>6, AcceptKeepsPlaces DEF LossInv
<1>8. ASSUME ~strayRelease, NEW u \in Askers PROVE pc'[u] # "replace"
  <2>1. ~CtxFree
    BY <1>0 DEF CtxFree
  <2>2. pc[u] # "replace"
    BY <1>8, <2>1 DEF CtxInv, Owns, OwningPCs, RoundPCs
  <2> QED
    BY <1>0, <2>2, OneMoves DEF Threads
<1>9. CopyInv'
  <2>1. \A a \in Plain : CarryingIn(responseList', a) = CarryingIn(responseList, a)
    BY <1>2, KindsDisjoint DEF Askers
  <2> QED
    BY <1>0, <1>5, <1>8, <2>1 DEF LossInv, CopyInv
<1> QED
  BY <1>7, <1>9 DEF LossInv

\* The owner writes a question of its batch into the history.
LEMMA AddQuestionKeepsLoss ==
    ASSUME TypeInv, RoundOwnership, HistInv, LossInv, NEW t \in Askers, AddQuestion(t)
    PROVE  LossInv'
<1> DEFINE l == IF Len(batch[t]) = 1 THEN "enter" ELSE "add"
<1>0. /\ t \in Threads /\ Owns(t) /\ pc[t] = "add" /\ Goto(t, l)
      /\ UNCHANGED <<responseQueue, handOff, pendingAsks, cleaned, forgotten, strayRelease>>
  BY DEF Threads, AddQuestion, Owns, OwningPCs, roundVars, pastVars
<1>1. /\ batch \in [Askers -> Seq(Askers)] /\ batch[t] # << >> /\ responseList \in Seq(Message)
      /\ batch' = [batch EXCEPT ![t] = Tail(batch[t])]
      /\ responseList' = Append(responseList, User(Head(batch[t])))
  BY DEF AddQuestion, TypeInv, ControlTypeOK, BatchInv, HistInv, HistoryTypeOK
<1>2. ASSUME NEW a
      PROVE  Handed(PlacesInBatches(batch, a), CarryingIn(responseList, a),
                    PlacesInBatches(batch', a), CarryingIn(responseList', a))
  BY <1>1, BatchHeadHands
<1>3. \A a \in Authors : PlaceKept(Spots(a), Spots(a)')
  BY <1>0, <1>2, SpotsHanded
<1>4. l \notin {"idle", "append", "enqueue", "rewrite", "replace"}
  OBVIOUS
<1> HIDE DEF l
<1> QED
  BY <1>0, <1>3, <1>4, OwnerKeepsLoss

\* The queue joins the history.
LEMMA MergeKeepsLoss ==
    ASSUME TypeInv, RoundOwnership, HistInv, LossInv, NEW t \in Askers,
           pc[t] \in {"merge", "more"}, NEW l \in {"check", "validate"}, Goto(t, l), MergeQueue,
           UNCHANGED <<pendingAsks, batch, cleaned, forgotten, strayRelease>>
    PROVE  LossInv'
<1>1. t \in Threads /\ Owns(t) /\ pc[t] # "rewrite"
  BY DEF Threads, Owns, OwningPCs, RoundPCs
<1>2. /\ responseList \in Seq(Message) /\ responseQueue \in Seq(Message)
      /\ responseList' = responseList \o responseQueue /\ responseQueue' = << >>
      /\ handOff' = handOff
  BY DEF MergeQueue, HistInv, HistoryTypeOK
<1>3. ASSUME NEW a
      PROVE  Handed(CarryingIn(responseList, a), CarryingIn(responseQueue, a),
                    CarryingIn(responseList', a), CarryingIn(responseQueue', a))
  BY <1>2, MergeHands
<1>4. \A a \in Authors : PlaceKept(Spots(a), Spots(a)')
  BY <1>2, <1>3, SpotsHanded
<1> QED
  BY <1>1, <1>4, OwnerKeepsLoss

\* A pending hand-off becomes the first message of the history, or is dropped.
LEMMA SendRequestKeepsLoss ==
    ASSUME TypeInv, RoundOwnership, HistInv, LossInv, NEW t \in Askers, SendRequest(t)
    PROVE  LossInv'
<1>0. /\ t \in Threads /\ Owns(t) /\ pc[t] = "send" /\ Goto(t, "wait")
      /\ UNCHANGED <<responseQueue, pendingAsks, batch, cleaned, strayRelease>>
  BY DEF Threads, SendRequest, Owns, OwningPCs, RoundPCs, roundVars, localVars
<1>1. responseList \in Seq(Message) /\ handOff \in Seq(Message) /\ handOff' = << >>
  BY DEF SendRequest, HistInv, HistoryTypeOK
<1>2. CASE handOff = << >> /\ UNCHANGED <<responseList, forgotten>>
  <2>1. \A a \in Authors : PlaceKept(Spots(a), Spots(a)')
    BY <1>0, <1>1, <1>2 DEF Spots, PlaceKept
  <2> QED
    BY <1>0, <2>1, OwnerKeepsLoss
<1>3. CASE /\ responseList' = <<Summary(CarriedBy(handOff))>> \o responseList
           /\ UNCHANGED forgotten
  <2>1. ASSUME NEW a
        PROVE  Handed(CarryingIn(responseList, a), CarryingIn(handOff, a),
                      CarryingIn(responseList', a), CarryingIn(handOff', a))
    BY <1>1, <1>3, SummaryHands
  <2>2. \A a \in Authors : PlaceKept(Spots(a), Spots(a)')
    BY <1>0, <1>3, <2>1, SpotsHanded
  <2> QED
    BY <1>0, <2>2, OwnerKeepsLoss
<1>4. CASE forgotten' = forgotten \cup CarriedBy(handOff) /\ UNCHANGED responseList
  <2>1. ASSUME NEW a
        PROVE  Handed(CarryingIn(handOff, a), forgotten \cap {a},
                      CarryingIn(handOff', a), forgotten' \cap {a})
    BY <1>1, <1>4, DropHands
  <2>2. \A a \in Authors : PlaceKept(Spots(a), Spots(a)')
    BY <1>0, <1>4, <2>1, SpotsHanded
  <2> QED
    BY <1>0, <2>2, OwnerKeepsLoss
<1> QED
  BY <1>2, <1>3, <1>4 DEF SendRequest

\* The owner changes its history, and everybody's words stay where they are.
LEMMA RewriteKeepsLoss ==
    ASSUME TypeInv, RoundOwnership, LossInv, NEW t \in Askers, Owns(t), pc[t] # "rewrite",
           NEW l, Goto(t, l), l \notin {"idle", "append", "enqueue", "rewrite", "replace"},
           \A a : Handed(CarryingIn(responseList, a), CarryingIn(responseQueue, a),
                         CarryingIn(responseList', a), CarryingIn(responseQueue', a)),
           UNCHANGED <<responseQueue, handOff, pendingAsks, batch, forgotten, strayRelease>>
    PROVE  LossInv'
<1>1. t \in Threads
  BY DEF Threads
<1>2. \A a \in Authors : PlaceKept(Spots(a), Spots(a)')
  BY SpotsHanded
<1> QED
  BY <1>1, <1>2, OwnerKeepsLoss

\* The same words are in as many places.
LEMMA SameWords ==
    ASSUME NEW S, NEW T, NEW S2, S = {} => S2 = {}, One(S) => One(S2)
    PROVE  Handed(S, T, S2, T)
  BY DEF Handed, Together

\* What the model and its tools write carries nobody's words.
LEMMA ReplyWords ==
    ASSUME NEW list \in Seq(Message), NEW m \in Message, \A a : Carries(m) = {}, NEW a
    PROVE  CarryingIn(Append(list, m), a) = CarryingIn(list, a)
  BY AppendWords

\* The questions that waited become the batch of the owner.
LEMMA TakeNextBatchKeepsLoss ==
    ASSUME TypeInv, RoundOwnership, HistInv, LossInv, NEW t \in Askers, TakeNextBatch(t)
    PROVE  LossInv'
<1>0. /\ t \in Threads /\ Owns(t) /\ pc[t] = "finish" /\ Goto(t, "add")
      /\ UNCHANGED <<responseList, responseQueue, handOff, cleaned, forgotten, strayRelease>>
  BY DEF Threads, TakeNextBatch, Owns, OwningPCs, convVars, pastVars
<1>1. /\ batch \in [Askers -> Seq(Askers)] /\ batch[t] = << >> /\ pendingAsks \in Seq(Askers)
      /\ batch'[t] = pendingAsks /\ \A u \in Askers \ {t} : batch'[u] = batch[u]
      /\ pendingAsks' = << >>
  BY <1>0 DEF TakeNextBatch, TypeInv, ControlTypeOK, HistInv, IdleBatches
<1>2. ASSUME NEW a
      PROVE  Handed(PlacesIn(pendingAsks, a), PlacesInBatches(batch, a),
                    PlacesIn(pendingAsks', a), PlacesInBatches(batch', a))
  BY <1>1, BatchHands
<1>3. \A a \in Authors : PlaceKept(Spots(a), Spots(a)')
  BY <1>0, <1>2, SpotsHanded
<1> QED
  BY <1>0, <1>3, OwnerKeepsLoss

\* _validate_sequence: the copy is fresh, because the owner alone writes.
LEMMA ValidateKeepsLoss ==
    ASSUME TypeInv, RoundOwnership, HistInv, LossInv, NEW t \in Askers,
           ComputeCleaned(t) \/ ReplaceHistory(t)
    PROVE  LossInv'
<1>0. t \in Threads /\ Owns(t) /\ t \notin Switches
  BY KindsDisjoint DEF Threads, ComputeCleaned, ReplaceHistory, Owns, OwningPCs, RoundPCs
<1>1. CASE ComputeCleaned(t)
  <2>1. /\ pc[t] = "validate" /\ Goto(t, "replace")
        /\ UNCHANGED <<responseList, responseQueue, handOff, pendingAsks, batch, forgotten, strayRelease>>
    BY <1>1 DEF ComputeCleaned, convVars, roundVars, pastVars
  <2>2. NothingLost'
    BY <1>0, <2>1, QuietKeepsPlaces DEF LossInv, Accepted
  <2>3. cleaned'[t] = Validated(responseList)
    BY <1>1 DEF ComputeCleaned, HistInv, HistoryTypeOK
  <2>4. CopyInv'
    <3> SUFFICES ASSUME ~strayRelease PROVE CopyInv'
      BY <2>1 DEF CopyInv
    <3>1. \A u \in Threads \ {t} : pc'[u] \notin {"replace", "rewrite"}
      BY <1>0, <2>1, OwnerAlone, OneMoves DEF OwningPCs, RoundPCs
    <3> QED
      BY <1>0, <2>1, <2>3, <3>1, OneMoves DEF CopyInv, BeingCleared, Threads
  <2> QED
    BY <2>2, <2>4 DEF LossInv
<1>2. CASE ReplaceHistory(t)
  <2>1. /\ pc[t] = "replace" /\ Goto(t, "leave")
        /\ UNCHANGED <<responseQueue, handOff, pendingAsks, batch, forgotten, strayRelease>>
    BY <1>2 DEF ReplaceHistory, roundVars, pastVars
  <2>2. responseList \in Seq(Message)
    BY DEF HistInv, HistoryTypeOK
  <2>3. ASSUME ~strayRelease, NEW a
        PROVE  /\ CarryingIn(responseList, a) = {} => CarryingIn(responseList', a) = {}
               /\ One(CarryingIn(responseList, a)) => One(CarryingIn(responseList', a))
    <3>1. responseList' \in {responseList, Validated(responseList)}
      BY <1>2, <2>3 DEF ReplaceHistory, LossInv, CopyInv
    <3>2. CarryingIn(responseList, a) = {} => CarryingIn(responseList', a) = {}
      BY <2>2, <3>1, ValidationKeepsWords
    <3>3. ASSUME NEW i, CarryingIn(responseList, a) = {i} PROVE One(CarryingIn(responseList', a))
      <4>1. CASE responseList' = responseList
        BY <3>3, <4>1 DEF One
      <4>2. CASE responseList' = Validated(responseList)
        <5>1. PICK k : CarryingIn(Validated(responseList), a) = {k}
          BY <2>2, <3>3, ValidationKeepsWords
        <5> QED
          BY <4>2, <5>1 DEF One
      <4> QED
        BY <3>1, <4>1, <4>2
    <3> QED
      BY <3>2, <3>3 DEF One
  <2>4. ASSUME ~strayRelease, NEW a \in Authors PROVE PlaceKept(Spots(a), Spots(a)')
    <3>1. Handed(CarryingIn(responseList, a), CarryingIn(responseQueue, a),
                 CarryingIn(responseList', a), CarryingIn(responseQueue', a))
      BY <2>1, <2>3, <2>4, SameWords
    <3> QED
      BY <2>1, <3>1, SpotsHanded
  <2> QED
    BY <1>0, <2>1, <2>4, OwnerKeepsLoss
<1> QED
  BY <1>1, <1>2

\* The first half of a switch: the history is copied into the hand-off, and a
\* hand-off that was still pending is dropped for it.
LEMMA TakeSnapshotKeepsLoss ==
    ASSUME TypeInv, RoundOwnership, HistInv, LossInv, NEW w \in Switches, TakeSnapshot(w)
    PROVE  LossInv'
<1>0. /\ w \in Threads /\ w \notin Authors /\ Owns(w) /\ pc[w] = "snapshot" /\ Goto(w, "rewrite")
      /\ UNCHANGED <<responseList, responseQueue, pendingAsks, batch, cleaned, strayRelease>>
  BY KindsDisjoint DEF Threads, Authors, TakeSnapshot, Owns, OwningPCs, roundVars, localVars
<1> SUFFICES ASSUME ~strayRelease PROVE LossInv'
  BY <1>0 DEF LossInv, NothingLost, CopyInv
<1>1. /\ pc'[w] = "rewrite"
      /\ \A u \in Threads \ {w} : pc[u] \notin OwningPCs /\ pc'[u] \notin OwningPCs
  BY <1>0, OwnerAlone, OneMoves
<1>2. ~BeingCleared
  BY <1>0, <1>1 DEF BeingCleared, Threads, OwningPCs
<1>3. \A a \in Authors : Accepted(a)' <=> Accepted(a)
  BY <1>0, OneMoves
<1>4. BeingCleared'
  BY <1>1 DEF BeingCleared
<1>5. ASSUME NEW a \in Authors PROVE PlaceKept(Where(a), Where(a)')
  <2> DEFINE h == CarryingIn(responseList, a)
             q == CarryingIn(responseQueue, a)
             f == CarryingIn(handOff, a)
             f2 == CarryingIn(handOff', a)
             p == PlacesIn(pendingAsks, a)
             b == PlacesInBatches(batch, a)
             x == forgotten \cap {a}
             x2 == forgotten' \cap {a}
  <2>1. Where(a) = At(h, q, f, p, b, x) /\ Where(a)' = At({}, q, f2, p, b, x2)
    BY <1>0, <1>2, <1>4, WhereSpots DEF Spots, SpotsCleared
  <2>2. CASE responseList # << >>
    <3>1. handOff' = responseList /\ forgotten' = forgotten \cup CarriedBy(handOff)
      BY <2>2 DEF TakeSnapshot
    <3>2. handOff \in Seq(Message) /\ CarryingIn(<< >>, a) = {}
      BY DEF HistInv, HistoryTypeOK, CarryingIn
    <3>3. Handed(f, x, {}, x2) /\ f2 = h
      BY <3>1, <3>2, DropHands
    <3> HIDE DEF h, q, f, f2, p, b, x, x2
    <3>4. PlaceKept(At(h, q, f, p, b, x), At(h, q, {}, p, b, x2))
      BY <3>3, AtHands
    <3>5. Handed(h, {}, {}, f2)
      BY <3>3 DEF Handed, Together
    <3>6. PlaceKept(At(h, q, {}, p, b, x2), At({}, q, f2, p, b, x2))
      BY <3>5, AtHands
    <3> QED
      BY <2>1, <3>4, <3>6 DEF PlaceKept
  <2>3. CASE responseList = << >>
    <3>1. h = {} /\ f2 = f /\ x2 = x
      BY <2>3 DEF TakeSnapshot, CarryingIn
    <3> QED
      BY <2>1, <3>1 DEF PlaceKept
  <2> QED
    BY <2>2, <2>3
<1>6. NothingLost'
  BY <1>0, <1>3, <1>5, KeptPlaces DEF LossInv
<1>7. CopyInv'
  <2>1. handOff' = responseList \/ responseList = << >>
    BY DEF TakeSnapshot
  <2>2. \A a : CarryingIn(responseList', a) # {} => CarryingIn(handOff', a) # {}
    BY <1>0, <2>1 DEF CarryingIn
  <2> QED
    BY <1>0, <1>1, <2>2, KindsDisjoint DEF CopyInv, Threads, OwningPCs, RoundPCs
<1> QED
  BY <1>6, <1>7 DEF LossInv

\* The second half: the history, whose words are in the hand-off or forgotten,
\* is cleared, and the queue is dropped.
LEMMA ClearConversationKeepsLoss ==
    ASSUME TypeInv, RoundOwnership, HistInv, LossInv, NEW w \in Switches, ClearConversation(w)
    PROVE  LossInv'
<1>0. /\ w \in Threads /\ w \notin Authors /\ Owns(w) /\ pc[w] = "rewrite" /\ Goto(w, "giveBack")
      /\ responseList' = << >> /\ responseQueue' = << >>
      /\ forgotten' = forgotten \cup CarriedBy(responseQueue)
      /\ UNCHANGED <<handOff, pendingAsks, batch, cleaned, strayRelease>>
  BY KindsDisjoint DEF Threads, Authors, ClearConversation, Owns, OwningPCs, roundVars, localVars
<1> SUFFICES ASSUME ~strayRelease PROVE LossInv'
  BY <1>0 DEF LossInv, NothingLost, CopyInv
<1>1. /\ pc'[w] = "giveBack"
      /\ \A u \in Threads \ {w} : pc[u] \notin OwningPCs /\ pc'[u] \notin OwningPCs
  BY <1>0, OwnerAlone, OneMoves
<1>2. ~BeingCleared'
  BY <1>1 DEF BeingCleared, Threads, OwningPCs
<1>3. \A a \in Authors : Accepted(a)' <=> Accepted(a)
  BY <1>0, OneMoves
<1>4. BeingCleared
  BY <1>0 DEF BeingCleared
<1>5. ASSUME NEW a \in Authors PROVE PlaceKept(Where(a), Where(a)')
  <2> DEFINE q == CarryingIn(responseQueue, a)
             f == CarryingIn(handOff, a)
             p == PlacesIn(pendingAsks, a)
             b == PlacesInBatches(batch, a)
             x == forgotten \cap {a}
             x2 == forgotten' \cap {a}
  <2>1. CarryingIn(<< >>, a) = {}
    BY DEF CarryingIn
  <2>2. Handed(q, x, {}, x2)
    <3>1. responseQueue \in Seq(Message)
      BY DEF HistInv, HistoryTypeOK
    <3> QED
      BY <1>0, <2>1, <3>1, DropHands
  <2>3. Where(a) = At({}, q, f, p, b, x) /\ Where(a)' = At({}, {}, f, p, b, x2)
    BY <1>0, <1>2, <1>4, <2>1, WhereSpots DEF Spots, SpotsCleared
  <2> HIDE DEF q, f, p, b, x, x2
  <2>4. PlaceKept(At({}, q, f, p, b, x), At({}, {}, f, p, b, x2))
    BY <2>2, AtHands
  <2> QED
    BY <2>3, <2>4
<1>6. NothingLost'
  BY <1>0, <1>3, <1>5, KeptPlaces DEF LossInv
<1>7. CopyInv'
  BY <1>0, OwnerKeepsCopies
<1> QED
  BY <1>6, <1>7 DEF LossInv

\* The steps of a question's thread keep everybody's words.
LEMMA AskKeepsLoss ==
    ASSUME TypeInv, RoundOwnership, HistInv, LossInv, NEW t \in Askers, Ask(t)
    PROVE  LossInv'
<1> USE DEF convVars, roundVars, epochVars, localVars, pastVars
<1>0. t \in Threads /\ t \notin Switches
  BY KindsDisjoint DEF Threads
<1>a. responseList \in Seq(Message)
  BY DEF HistInv, HistoryTypeOK
<1>1. CASE AskClaims(t)
  BY <1>1, AskClaimsKeepsLoss
<1>2. CASE AskFindsRound(t)
  BY <1>0, <1>2, QuietKeepsLoss DEF AskFindsRound, Accepted
<1>3. CASE ForcedAdd(t)
  BY <1>3, ForcedAddKeepsLoss DEF Authors
<1>4. CASE QueuePendingAsk(t)
  BY <1>4, QueuePendingAskKeepsLoss
<1>5. CASE AddQuestion(t)
  BY <1>5, AddQuestionKeepsLoss
<1>6. CASE EnterRound(t)
  BY <1>0, <1>6, QuietKeepsLoss DEF EnterRound, Accepted
<1>7. CASE BeginRound(t)
  BY <1>0, <1>7, QuietKeepsLoss DEF BeginRound, Accepted
<1>8. CASE MergeLeftover(t)
  BY <1>8, MergeKeepsLoss DEF MergeLeftover
<1>9. CASE CheckStop(t)
  <2> DEFINE l == IF StopRequested THEN "abort" ELSE "send"
  <2>1. Goto(t, l) /\ l \notin {"idle", "append", "enqueue", "rewrite", "replace"}
    BY <1>9 DEF CheckStop
  <2> HIDE DEF l
  <2> QED
    BY <1>0, <1>9, <2>1, QuietKeepsLoss DEF CheckStop, Accepted
<1>10. CASE SendRequest(t)
  BY <1>10, SendRequestKeepsLoss
<1>11. CASE \E n \in 0..MaxCalls : ReceiveReply(t, n)
  <2> PICK n \in 0..MaxCalls : ReceiveReply(t, n)
    BY <1>11
  <2> DEFINE id == IF n = 0 THEN 0 ELSE toolReplies + 1
             l == IF n = 0 THEN "more" ELSE "tools"
  <2>1. /\ Goto(t, l) /\ l \notin {"idle", "append", "enqueue", "rewrite", "replace"}
        /\ Owns(t) /\ pc[t] # "rewrite"
        /\ UNCHANGED <<responseQueue, handOff, pendingAsks, batch, forgotten, strayRelease>>
    BY DEF ReceiveReply, Owns, OwningPCs, RoundPCs
  <2>2. Assistant(id, n) \in Message
    <3>1. id \in 0..MaxToolReplies
      BY BoundsAreNumbers DEF ReceiveReply, HistInv, HistoryTypeOK
    <3> QED
      BY <3>1, MessagesTyped
  <2>3. responseList' = Append(responseList, Assistant(id, n))
    BY DEF ReceiveReply
  <2> HIDE DEF id, l
  <2>4. \A a : CarryingIn(responseList', a) = CarryingIn(responseList, a)
    BY <1>a, <2>2, <2>3, ReplyWords, WhoseWords
  <2> QED
    BY <2>1, <2>4, SameWords, RewriteKeepsLoss
<1>12. CASE DiscardReply(t)
  BY <1>0, <1>12, QuietKeepsLoss DEF DiscardReply, Accepted
<1>13. CASE RequestFails(t)
  BY <1>0, <1>13, QuietKeepsLoss DEF RequestFails, Accepted
<1>14. CASE RunToolCall(t)
  <2> DEFINE c == reply[t].done + 1
             l == IF c = reply[t].calls THEN "more" ELSE "tools"
  <2>1. /\ Goto(t, l) /\ l \notin {"idle", "append", "enqueue", "rewrite", "replace"}
        /\ Owns(t) /\ pc[t] # "rewrite"
        /\ UNCHANGED <<responseQueue, handOff, pendingAsks, batch, forgotten, strayRelease>>
    BY <1>14 DEF RunToolCall, Owns, OwningPCs, RoundPCs
  <2>2. Tool(reply[t].id, c) \in Message
    <3>1. /\ reply[t] \in [id : 0..MaxToolReplies, calls : 0..MaxCalls, done : 0..MaxCalls]
          /\ reply[t].id # 0 /\ reply[t].done < reply[t].calls
      BY <1>14 DEF RunToolCall, HistInv, HistoryTypeOK, CallsLeft
    <3>2. reply[t].id \in 1..MaxToolReplies /\ c \in 1..MaxCalls
      BY <3>1, BoundsAreNumbers
    <3> QED
      BY <3>2, MessagesTyped
  <2>3. responseList' = Append(responseList, Tool(reply[t].id, c))
    BY <1>14 DEF RunToolCall
  <2> HIDE DEF c, l
  <2>4. \A a : CarryingIn(responseList', a) = CarryingIn(responseList, a)
    BY <1>a, <2>2, <2>3, ReplyWords, WhoseWords
  <2> QED
    BY <2>1, <2>4, SameWords, RewriteKeepsLoss
<1>15. CASE SkipToolCalls(t)
  BY <1>0, <1>15, QuietKeepsLoss DEF SkipToolCalls, Accepted
<1>16. CASE MergeQueued(t)
  <2> DEFINE l == IF reply[t].calls > 0 \/ responseQueue # << >> THEN "check" ELSE "validate"
  <2>1. Goto(t, l) /\ l \in {"check", "validate"}
    BY <1>16 DEF MergeQueued
  <2> HIDE DEF l
  <2> QED
    BY <1>16, <2>1, MergeKeepsLoss DEF MergeQueued
<1>17. CASE AbortRound(t)
  <2>1. /\ Goto(t, "validate") /\ Owns(t) /\ pc[t] # "rewrite"
        /\ responseList' = WithoutTrailingCall(responseList)
        /\ UNCHANGED <<responseQueue, handOff, pendingAsks, batch, forgotten, strayRelease>>
    BY <1>17 DEF AbortRound, Owns, OwningPCs, RoundPCs
  <2>2. \A a : CarryingIn(responseList', a) = CarryingIn(responseList, a)
    BY <1>a, <2>1, AbortWords
  <2> QED
    BY <2>1, <2>2, SameWords, RewriteKeepsLoss
<1>18. CASE ComputeCleaned(t) \/ ReplaceHistory(t)
  BY <1>18, ValidateKeepsLoss
<1>20. CASE LeaveRound(t)
  BY <1>0, <1>20, QuietKeepsLoss DEF LeaveRound, Accepted
<1>21. CASE TakeNextBatch(t)
  BY <1>21, TakeNextBatchKeepsLoss
<1>22. CASE TakeQueueRound(t)
  BY <1>0, <1>22, QuietKeepsLoss DEF TakeQueueRound, Accepted
<1>23. CASE FinishSequence(t)
  BY <1>0, <1>23, QuietKeepsLoss DEF FinishSequence, Accepted
<1>24. CASE ReleaseAgain(t)
  BY <1>0, <1>24, QuietKeepsLoss DEF ReleaseAgain, ReleaseRound, Accepted
<1>25. CASE AcceptReply(t)
  BY <1>0, <1>25, QuietKeepsLoss DEF AcceptReply, Accepted
<1>26. CASE BeginToolCall(t)
  BY <1>0, <1>26, QuietKeepsLoss DEF BeginToolCall, Accepted
<1> QED
  BY <1>1, <1>2, <1>3, <1>4, <1>5, <1>6, <1>7, <1>8, <1>9, <1>10, <1>11,
     <1>12, <1>13, <1>14, <1>15, <1>16, <1>17, <1>18, <1>20, <1>21, <1>22,
     <1>23, <1>24, <1>25, <1>26 DEF Ask

\* So do those of the other commands.
LEMMA OtherKeepsLoss ==
    ASSUME TypeInv, RoundOwnership, CtxInv, HistInv, LossInv, OtherCommandStep
    PROVE  LossInv'
<1> USE DEF convVars, roundVars, epochVars, localVars, pastVars
<1>0. /\ Stops \cup Relays \cup Switches \cup Compacts \subseteq Threads
      /\ (Stops \cup Switches \cup Compacts) \cap Authors = {}
      /\ (Stops \cup Relays \cup Compacts) \cap Switches = {}
      /\ Relays \subseteq Authors
  BY KindsDisjoint DEF Threads, Authors
<1>1. ASSUME NEW s \in Stops, StopFindsNothing(s) PROVE LossInv'
  BY <1>0, <1>1, QuietKeepsLoss DEF StopFindsNothing
<1>2. ASSUME NEW s \in Stops, RequestStop(s) PROVE LossInv'
  BY <1>0, <1>2, QuietKeepsLoss DEF RequestStop
<1>3. ASSUME NEW r \in Relays, RelayToHistory(r) PROVE LossInv'
  BY <1>3, RelayKeepsLoss
<1>4. ASSUME NEW r \in Relays, RelayFindsRound(r) PROVE LossInv'
  BY <1>0, <1>4, QuietKeepsLoss DEF RelayFindsRound, Accepted
<1>5. ASSUME NEW r \in Relays, ForcedAdd(r) PROVE LossInv'
  BY <1>0, <1>5, ForcedAddKeepsLoss
<1>6. ASSUME NEW w \in Switches, SwitchStarts(w) PROVE LossInv'
  BY <1>0, <1>6, QuietKeepsLoss DEF SwitchStarts
<1>7. ASSUME NEW w \in Switches, SwitchWaits(w) PROVE LossInv'
  BY <1>0, <1>7, QuietKeepsLoss DEF SwitchWaits
<1>8. ASSUME NEW w \in Switches, SwitchRetries(w) PROVE LossInv'
  BY <1>0, <1>8, QuietKeepsLoss DEF SwitchRetries
<1>9. ASSUME NEW w \in Switches, SwitchClaims(w) PROVE LossInv'
  BY <1>0, <1>9, QuietKeepsLoss DEF SwitchClaims
<1>10. ASSUME NEW w \in Switches, TakeSnapshot(w) PROVE LossInv'
  BY <1>10, TakeSnapshotKeepsLoss
<1>11. ASSUME NEW w \in Switches, ClearConversation(w) PROVE LossInv'
  BY <1>11, ClearConversationKeepsLoss
<1>12. ASSUME NEW c \in Compacts, CompactFindsRound(c) PROVE LossInv'
  BY <1>0, <1>12, QuietKeepsLoss DEF CompactFindsRound
<1>13. ASSUME NEW c \in Compacts, CompactClaims(c) PROVE LossInv'
  BY <1>0, <1>13, QuietKeepsLoss DEF CompactClaims
<1>14. ASSUME NEW t \in Switches \cup Compacts, GiveBack(t) PROVE LossInv'
  BY <1>0, <1>14, QuietKeepsLoss DEF GiveBack, ReleaseRound
<1>15. ASSUME NEW r \in Relays, RelayFindsIdle(r) PROVE LossInv'
  BY <1>0, <1>15, QuietKeepsLoss DEF RelayFindsIdle, Accepted
<1> QED
  BY <1>1, <1>2, <1>3, <1>4, <1>5, <1>6, <1>7, <1>8, <1>9, <1>10, <1>11, <1>12,
     <1>13, <1>14, <1>15 DEF OtherCommandStep, Stop, Relay, Switch, Compact

\* LossInv is inductive relative to the types and the ownership.
LEMMA NextKeepsLoss ==
    TypeInv /\ RoundOwnership /\ CtxInv /\ HistInv /\ LossInv /\ [Next]_vars => LossInv'
<1> SUFFICES ASSUME TypeInv, RoundOwnership, CtxInv, HistInv, LossInv, [Next]_vars PROVE LossInv'
  OBVIOUS
<1>1. CASE UNCHANGED vars
  <2>1. \A a \in Authors : /\ Accepted(a)' <=> Accepted(a)
                           /\ PlaceKept(Where(a), Where(a)')
    <3>0. UNCHANGED <<responseList, responseQueue, handOff, pendingAsks, batch, forgotten, pc>>
      BY <1>1 DEF vars, convVars, roundVars, localVars, pastVars
    <3>1. ASSUME NEW a \in Authors PROVE Where(a)' = Where(a)
      BY <3>0 DEF Where, BeingCleared
    <3> QED
      BY <3>0, <3>1 DEF Accepted, PlaceKept
  <2>2. NothingLost'
    BY <1>1, <2>1, KeptPlaces DEF LossInv, vars, pastVars
  <2>3. CopyInv'
    <3>1. CopyInv /\ UNCHANGED <<responseList, handOff, cleaned, pc, strayRelease>>
      BY <1>1 DEF LossInv, vars, convVars, localVars, pastVars
    <3> QED
      BY <3>1 DEF CopyInv, BeingCleared
  <2> QED
    BY <2>2, <2>3 DEF LossInv
<1>2. CASE \E t \in Askers : Ask(t)
  BY <1>2, AskKeepsLoss
<1>3. CASE OtherCommandStep
  BY <1>3, OtherKeepsLoss
<1> QED
  BY <1>1, <1>2, <1>3 DEF Next, OtherCommandStep, Terminated

\* At first nothing is accepted and nothing is anywhere.
LEMMA InitLoss == Init => LossInv
<1> SUFFICES ASSUME Init PROVE LossInv
  OBVIOUS
<1>1. /\ \A t \in Threads : pc[t] = "idle"
      /\ responseList = << >> /\ responseQueue = << >> /\ handOff = << >>
      /\ pendingAsks = << >> /\ forgotten = {} /\ \A t \in Askers : batch[t] = << >>
  BY DEF Init
<1>2. CopyInv
  BY <1>1 DEF CopyInv, Threads
<1>3. ASSUME NEW a \in Authors PROVE Nowhere(Where(a)) /\ ~Accepted(a)
  <2>1. \A k \in DOMAIN Spots(a) : Spots(a)[k] = {}
    <3>1. /\ CarryingIn(<< >>, a) = {} /\ PlacesIn(<< >>, a) = {}
          /\ PlacesInBatches(batch, a) = {} /\ forgotten \cap {a} = {}
      BY <1>1 DEF CarryingIn, PlacesInBatches, PlacesIn
    <3> QED
      BY <1>1, <3>1, AtPlaces DEF Spots
  <2>2. ~BeingCleared
    BY <1>1 DEF BeingCleared, Threads
  <2>3. Nowhere(Where(a))
    BY <2>1, <2>2, WhereSpots DEF Nowhere
  <2>4. ~Accepted(a)
    BY <1>1 DEF Accepted, Authors, Threads
  <2> QED
    BY <2>3, <2>4
<1> QED
  BY <1>2, <1>3 DEF LossInv, NothingLost

\* What a player or another assistant said, and the conversation accepted, is in
\* exactly one place, or was dropped by a switch, however the rounds, stops,
\* switches and validations of a conversation interleave -- unless a stray
\* release_round lets two threads in.
THEOREM NothingIsLost == Spec => []NothingLost
<1> DEFINE Inv == TypeInv /\ RoundOwnership /\ CtxInv /\ HistInv /\ LossInv
<1>1. Init => Inv
  <2>1. Init => RoundOwnership
    BY DEF Init, RoundOwnership, OneRoundAtATime, Owns, OwningPCs, RoundPCs
  <2> QED
    BY <2>1, InitTypeInv, InitCtx, InitHistInv, InitLoss
<1>2. Inv /\ [Next]_vars => Inv'
  BY NextTypeInv, NextKeepsOwnership, NextKeepsCtx, NextHistInv, NextKeepsLoss
<1>3. Inv => NothingLost
  BY DEF LossInv
<1> QED
  BY <1>1, <1>2, <1>3, PTL DEF Spec

\* The summary of a hand-off stands in front of the history.
LEMMA SummaryPlaces ==
    ASSUME NEW list \in Seq(Message), NEW old \in Seq(Message), NEW x
    PROVE  \A i : i \in CarryingIn(<<Summary(CarriedBy(old))>> \o list, x) <=>
             (i = 1 /\ CarryingIn(old, x) # {}) \/ \E j \in CarryingIn(list, x) : i = 1 + j
<1> DEFINE m == Summary(CarriedBy(old))
           S == CarryingIn(list, x)
           first == CarryingIn(<<m>>, x)
<1>1. m \in Message /\ (x \in Carries(m) <=> CarryingIn(old, x) # {})
  BY WordsOfList, MessagesTyped, WhoseWords
<1>2. first = IF CarryingIn(old, x) # {} THEN {1} ELSE {}
  BY <1>1 DEF CarryingIn
<1>3. CarryingIn(<<m>> \o list, x) = first \cup {1 + j : j \in S}
  <2>1. <<m>> \in Seq(Message) /\ Len(<<m>>) = 1
    BY <1>1
  <2> DEFINE l == Len(<<m>>)
             both == CarryingIn(<<m>> \o list, x)
  <2>2. both = first \cup {l + j : j \in S}
    BY <2>1, ConcatWords
  <2>3. l = 1
    BY <2>1
  <2> HIDE DEF l, both, first, S, m
  <2>4. both = first \cup {1 + j : j \in S}
    BY <2>2, <2>3
  <2> QED
    BY <2>4 DEF both
<1> HIDE DEF first, S
<1>4. \A i : i \in CarryingIn(<<m>> \o list, x) <=> i \in first \/ \E j \in S : i = 1 + j
  BY <1>3
<1> QED
  BY <1>2, <1>4 DEF S

\* Of two positions that are kept, the one in front has the smaller rank.
LEMMA RanksGrow ==
    ASSUME NEW n \in Nat, NEW S \in SUBSET (1..n), NEW i \in S, NEW j \in S, i <= j
    PROVE  RankIn(S, i) <= RankIn(S, j)
<1> DEFINE Upto(k) == {o \in S : o <= k}
<1>1. Upto(i) \in SUBSET Upto(j) /\ Upto(j) \in SUBSET S
  <2>1. \A o \in S : o <= i => o <= j
    OBVIOUS
  <2> QED
    BY <2>1
<1>2. IsFiniteSet(S)
  <2>1. IsFiniteSet(1..n)
    BY FS_Interval
  <2> QED
    BY <2>1, FS_Subset
<1>3. RankIn(S, i) = Cardinality(Upto(i)) /\ RankIn(S, j) = Cardinality(Upto(j))
  BY DEF RankIn
<1> HIDE DEF Upto
<1>4. IsFiniteSet(Upto(j))
  BY <1>1, <1>2, FS_Subset
<1> QED
  BY <1>1, <1>3, <1>4, FS_Subset

-----------------------------------------------------------------------------
(* The order of arrival.  The questions that queue_pending_ask took travel  *)
(* through the waiting questions, a batch, the history and the hand-off.    *)

\* No place of S is behind one of T.
NoneBehind(S, T) == \A i \in S, j \in T : i <= j

\* Within every list, a is in front of c, ...
LinedUpInside(a, c) ==
    /\ NoneBehind(CarryingIn(responseList, a), CarryingIn(responseList, c))
    /\ NoneBehind(CarryingIn(handOff, a), CarryingIn(handOff, c))
    /\ NoneBehind(PlacesIn(pendingAsks, a), PlacesIn(pendingAsks, c))
    /\ \A t \in Askers : NoneBehind(PlacesIn(batch[t], a), PlacesIn(batch[t], c))

NotInBatch(a) == \A t \in Askers : PlacesIn(batch[t], a) = {}

\* ... and c is in no list that comes before the one of a.
LinedUpAcross(a, c) ==
    /\ NotInBatch(c) \/ PlacesIn(pendingAsks, a) = {}
    /\ CarryingIn(responseList, c) # {} \/ CarryingIn(handOff, c) # {} =>
         PlacesIn(pendingAsks, a) = {} /\ NotInBatch(a)
    /\ CarryingIn(handOff, c) # {} /\ ~BeingCleared => CarryingIn(responseList, a) = {}

LinedUp(a, c) == LinedUpInside(a, c) /\ LinedUpAcross(a, c)

ArrivedBefore(a, c) ==
    \E m, n \in DOMAIN arrivals : m < n /\ arrivals[m] = a /\ arrivals[n] = c

\* The threads of the questions in arrivals are done, the queue of the forced
\* questions holds none of them, and all of them are lined up.
LineInv ==
    /\ \A a \in Plain : CarryingIn(responseQueue, a) = {}
    /\ \A m \in DOMAIN arrivals : arrivals[m] \in Plain /\ pc[arrivals[m]] = "done"
    /\ ~strayRelease => \A a, c \in Plain : ArrivedBefore(a, c) => LinedUp(a, c)

\* Whoever is lined up stays so while the places are the same.
LEMMA SamePlacesLinedUp ==
    ASSUME NEW a, NEW c, LinedUp(a, c), BeingCleared => BeingCleared',
           \A x \in {a, c} : /\ CarryingIn(responseList', x) = CarryingIn(responseList, x)
                             /\ CarryingIn(handOff', x) = CarryingIn(handOff, x)
                             /\ PlacesIn(pendingAsks', x) = PlacesIn(pendingAsks, x)
                             /\ \A t \in Askers : PlacesIn(batch'[t], x) = PlacesIn(batch[t], x)
    PROVE  LinedUp(a, c)'
<1>1. LinedUpInside(a, c)'
  BY DEF LinedUp, LinedUpInside
<1>2. LinedUpAcross(a, c)'
  BY DEF LinedUp, LinedUpAcross, NotInBatch
<1> QED
  BY <1>1, <1>2 DEF LinedUp

\* A thread that is not done moves: it is none of those in arrivals.
LEMMA MoveKeepsLine ==
    ASSUME TypeInv, LineInv, strayRelease => strayRelease', UNCHANGED arrivals,
           NEW t \in Threads, pc[t] # "done", NEW l, Goto(t, l),
           \A a \in Plain : CarryingIn(responseQueue, a) = {} => CarryingIn(responseQueue', a) = {},
           ~strayRelease' =>
             \A a, c \in Plain : a # t /\ c # t /\ LinedUp(a, c) => LinedUp(a, c)'
    PROVE  LineInv'
<1>1. Plain \subseteq Threads
  BY DEF Threads, Askers
<1>2. \A m \in DOMAIN arrivals : arrivals[m] # t /\ arrivals[m] \in Plain /\ pc'[arrivals[m]] = "done"
  BY <1>1, OneMoves DEF LineInv
<1>3. ASSUME ~strayRelease', NEW a \in Plain, NEW c \in Plain, ArrivedBefore(a, c)'
      PROVE  LinedUp(a, c)'
  <2>1. ArrivedBefore(a, c) /\ a # t /\ c # t
    BY <1>2, <1>3 DEF ArrivedBefore
  <2>2. LinedUp(a, c)
    BY <1>3, <2>1 DEF LineInv
  <2> QED
    BY <1>3, <2>1, <2>2
<1> QED
  BY <1>2, <1>3 DEF LineInv

\* A step that touches no list.
LEMMA QuietKeepsLine ==
    ASSUME TypeInv, LineInv, strayRelease => strayRelease',
           NEW t \in Threads, pc[t] # "done", NEW l, Goto(t, l),
           t \in Switches => pc[t] # "rewrite",
           UNCHANGED <<responseList, responseQueue, handOff, pendingAsks, batch, arrivals>>
    PROVE  LineInv'
<1>1. BeingCleared => BeingCleared'
  <2>1. \A w \in Switches : pc[w] = "rewrite" => pc'[w] = "rewrite"
    BY OneMoves DEF Threads
  <2> QED
    BY <2>1 DEF BeingCleared
<1>2. \A a, c \in Plain : LinedUp(a, c) => LinedUp(a, c)'
  BY <1>1, SamePlacesLinedUp
<1> QED
  BY <1>2, MoveKeepsLine

\* The owner of the round moves words while nobody switches.
LEMMA OwnerKeepsLine ==
    ASSUME TypeInv, RoundOwnership, LineInv, UNCHANGED <<strayRelease, arrivals>>,
           NEW t \in Threads, Owns(t), pc[t] # "rewrite", NEW l, Goto(t, l),
           \A a \in Plain : CarryingIn(responseQueue, a) = {} => CarryingIn(responseQueue', a) = {},
           ~strayRelease =>
             \A a, c \in Plain : LinedUp(a, c) /\ ~BeingCleared => LinedUp(a, c)'
    PROVE  LineInv'
<1>1. pc[t] # "done"
  BY DEF Owns, OwningPCs, RoundPCs
<1>2. ASSUME ~strayRelease PROVE ~BeingCleared
  <2>1. \A u \in Threads : pc[u] # "rewrite"
    BY <1>2, OwnerAlone DEF OwningPCs
  <2> QED
    BY <2>1 DEF BeingCleared, Threads
<1> QED
  BY <1>1, <1>2, MoveKeepsLine

\* The owner changes its history, and everybody's words stay where they are.
LEMMA RewriteKeepsLine ==
    ASSUME TypeInv, RoundOwnership, LineInv, UNCHANGED <<strayRelease, arrivals>>,
           NEW t \in Threads, Owns(t), pc[t] # "rewrite", NEW l, Goto(t, l),
           \A a \in Plain : CarryingIn(responseQueue, a) = {} =>
             /\ CarryingIn(responseQueue', a) = {}
             /\ CarryingIn(responseList', a) = CarryingIn(responseList, a),
           UNCHANGED <<handOff, pendingAsks, batch>>
    PROVE  LineInv'
<1>1. \A a \in Plain : CarryingIn(responseList', a) = CarryingIn(responseList, a)
  BY DEF LineInv
<1>2. \A a, c \in Plain : LinedUp(a, c) /\ ~BeingCleared => LinedUp(a, c)'
  BY <1>1, SamePlacesLinedUp
<1> QED
  BY <1>2, OwnerKeepsLine

\* The first question of a round was not queued.
LEMMA AskClaimsKeepsLine ==
    ASSUME TypeInv, HistInv, LineInv, NEW t \in Askers, AskClaims(t)
    PROVE  LineInv'
<1>0. /\ t \in Threads \ Switches /\ pc[t] = "idle" /\ Goto(t, "add")
      /\ UNCHANGED <<responseList, responseQueue, handOff, pendingAsks, strayRelease, arrivals>>
  BY KindsDisjoint DEF Threads, AskClaims, convVars, pastVars
<1>1. /\ batch \in [Askers -> Seq(Askers)] /\ batch[t] = << >>
      /\ batch'[t] = <<t>> /\ \A u \in Askers \ {t} : batch'[u] = batch[u]
  BY <1>0 DEF AskClaims, TypeInv, ControlTypeOK, HistInv, IdleBatches
<1>2. ASSUME NEW a, a # t, NEW u \in Askers
      PROVE  PlacesIn(batch'[u], a) = PlacesIn(batch[u], a)
  <2>1. PlacesIn(<<t>>, a) = {} /\ PlacesIn(<< >>, a) = {}
    BY <1>2 DEF PlacesIn
  <2> QED
    BY <1>1, <2>1
<1>3. BeingCleared' <=> BeingCleared
  BY <1>0, CopyStays
<1>4. \A a, c \in Plain : a # t /\ c # t /\ LinedUp(a, c) => LinedUp(a, c)'
  BY <1>0, <1>2, <1>3, SamePlacesLinedUp
<1> QED
  BY <1>0, <1>4, MoveKeepsLine

\* A question that is queued stands behind all that were: it was nowhere.
LEMMA QueuePendingAskKeepsLine ==
    ASSUME TypeInv, RoundOwnership, LossInv, LineInv, NEW t \in Askers, QueuePendingAsk(t)
    PROVE  LineInv'
<1>0. /\ t \in Threads \ Switches /\ t \in Authors /\ t \in Plain
      /\ pc[t] = "enqueue" /\ Goto(t, "done") /\ arrivals' = Append(arrivals, t)
      /\ UNCHANGED <<responseList, responseQueue, handOff, batch, strayRelease>>
  BY KindsDisjoint DEF Threads, Authors, QueuePendingAsk, convVars, localVars
<1>1. /\ pendingAsks \in Seq(Askers) /\ Len(pendingAsks) \in Nat
      /\ DOMAIN pendingAsks = 1..Len(pendingAsks)
      /\ DOMAIN pendingAsks' = 1..(Len(pendingAsks) + 1)
      /\ \A i \in 1..Len(pendingAsks) : pendingAsks'[i] = pendingAsks[i]
      /\ pendingAsks'[Len(pendingAsks) + 1] = t
  <2>1. pendingAsks \in Seq(Askers) /\ pendingAsks' = Append(pendingAsks, t)
    BY DEF QueuePendingAsk, TypeInv, ControlTypeOK
  <2> QED
    BY <2>1, AppendProperties
<1>2. /\ arrivals \in Seq(Askers) /\ Len(arrivals) \in Nat
      /\ DOMAIN arrivals = 1..Len(arrivals)
      /\ DOMAIN arrivals' = 1..(Len(arrivals) + 1)
      /\ \A m \in 1..Len(arrivals) : arrivals'[m] = arrivals[m]
      /\ arrivals'[Len(arrivals) + 1] = t
  <2>1. arrivals \in Seq(Askers)
    BY DEF TypeInv, ControlTypeOK
  <2> QED
    BY <1>0, <2>1, AppendProperties
<1>3. pc'[t] = "done" /\ \A u \in Threads \ {t} : pc'[u] = pc[u]
  BY <1>0, OneMoves
<1>4. Plain \subseteq Threads
  BY DEF Threads, Askers
<1>5. \A m \in DOMAIN arrivals : arrivals[m] \in Plain /\ arrivals[m] # t /\ pc'[arrivals[m]] = "done"
  BY <1>0, <1>3, <1>4 DEF LineInv
<1>6. \A m \in DOMAIN arrivals' : arrivals'[m] \in Plain /\ pc'[arrivals'[m]] = "done"
  BY <1>0, <1>2, <1>3, <1>5
<1>7. BeingCleared' <=> BeingCleared
  BY <1>0, CopyStays
<1>8. \A a : a # t => PlacesIn(pendingAsks', a) = PlacesIn(pendingAsks, a)
  BY <1>1 DEF PlacesIn
<1>9. ASSUME ~strayRelease, NEW a \in Plain, NEW c \in Plain, ArrivedBefore(a, c)'
      PROVE  LinedUp(a, c)'
  <2>1. PICK m \in DOMAIN arrivals', n \in DOMAIN arrivals' :
               m < n /\ arrivals'[m] = a /\ arrivals'[n] = c
    BY <1>9 DEF ArrivedBefore
  <2>2. m \in DOMAIN arrivals /\ arrivals[m] = a /\ a # t
    BY <1>2, <1>5, <2>1
  <2>3. CASE n \in DOMAIN arrivals
    <3>1. arrivals[n] = c /\ c # t
      BY <1>2, <1>5, <2>1, <2>3
    <3>2. LinedUp(a, c)
      BY <1>9, <2>1, <2>2, <2>3, <3>1 DEF ArrivedBefore, LineInv
    <3> QED
      BY <1>0, <1>7, <1>8, <2>2, <3>1, <3>2, SamePlacesLinedUp
  <2>4. CASE n \notin DOMAIN arrivals
    <3>1. c = t
      BY <1>2, <2>1, <2>4
    <3>2. Nowhere(Where(t))
      BY <1>0, <1>9 DEF LossInv, NothingLost, Accepted
    <3>3. /\ CarryingIn(responseList, t) = {} /\ PlacesIn(pendingAsks, t) = {}
          /\ PlacesInBatches(batch, t) = {} /\ CarryingIn(handOff, t) = {}
      <4>1. CASE BeingCleared
        <5>1. Nowhere(SpotsCleared(t))
          BY <3>2, <4>1, WhereSpots
        <5>2. /\ CarryingIn(handOff, t) = {} /\ PlacesIn(pendingAsks, t) = {}
              /\ PlacesInBatches(batch, t) = {}
          BY <5>1, AtPlaces DEF Nowhere, SpotsCleared
        <5> QED
          BY <1>0, <1>9, <4>1, <5>2 DEF LossInv, CopyInv
      <4>2. CASE ~BeingCleared
        <5>1. Nowhere(Spots(t))
          BY <3>2, <4>2, WhereSpots
        <5> QED
          BY <5>1, AtPlaces DEF Nowhere, Spots
      <4> QED
        BY <4>1, <4>2
    <3>4. NotInBatch(t)
      <4>1. \A u \in Askers : \A i \in PlacesIn(batch[u], t) : <<u, i>> \in PlacesInBatches(batch, t)
        BY DEF PlacesInBatches
      <4> QED
        BY <3>3, <4>1 DEF NotInBatch
    <3>5. \A i \in PlacesIn(pendingAsks', a), j \in PlacesIn(pendingAsks', t) : i <= j
      BY <1>1, <2>2, <3>3 DEF PlacesIn
    <3>6. LinedUpInside(a, t)'
      BY <1>0, <3>3, <3>4, <3>5 DEF LinedUpInside, NoneBehind, NotInBatch
    <3>7. LinedUpAcross(a, t)'
      BY <1>0, <3>3, <3>4 DEF LinedUpAcross, NotInBatch
    <3> QED
      BY <3>1, <3>6, <3>7 DEF LinedUp
  <2> QED
    BY <2>3, <2>4
<1> QED
  BY <1>0, <1>6, <1>9 DEF LineInv

\* A forced question or a relayed message was not queued with the others.
LEMMA ForcedAddKeepsLine ==
    ASSUME TypeInv, HistInv, LineInv, NEW t \in Authors, ForcedAdd(t)
    PROVE  LineInv'
<1>0. /\ t \in Threads \ Switches /\ t \notin Plain /\ pc[t] = "enqueue" /\ Goto(t, "done")
      /\ UNCHANGED <<responseList, handOff, pendingAsks, batch, strayRelease, arrivals>>
  BY KindsDisjoint DEF Threads, Authors, Askers, ForcedAdd, localVars, roundVars, pastVars
<1>1. responseQueue \in Seq(Message) /\ responseQueue' = Append(responseQueue, User(t))
  BY DEF ForcedAdd, HistInv, HistoryTypeOK
<1>2. \A a \in Plain : CarryingIn(responseQueue', a) = CarryingIn(responseQueue, a)
  BY <1>0, <1>1, AuthorAppended
<1>3. BeingCleared' <=> BeingCleared
  BY <1>0, CopyStays
<1>4. \A a, c \in Plain : LinedUp(a, c) => LinedUp(a, c)'
  BY <1>0, <1>3, SamePlacesLinedUp
<1> QED
  BY <1>0, <1>2, <1>4, MoveKeepsLine

\* Neither was a message that is relayed into the history.
LEMMA RelayKeepsLine ==
    ASSUME TypeInv, HistInv, LineInv, NEW t \in Relays, RelayToHistory(t)
    PROVE  LineInv'
<1>0. /\ t \in Threads \ Switches /\ t \in Authors /\ t \notin Plain
      /\ pc[t] = "append" /\ Goto(t, "done")
      /\ UNCHANGED <<responseQueue, handOff, pendingAsks, batch, strayRelease, arrivals>>
  BY KindsDisjoint DEF Threads, Authors, Askers, RelayToHistory, localVars, roundVars, pastVars
<1>1. responseList \in Seq(Message) /\ responseList' = Append(responseList, User(t))
  BY DEF RelayToHistory, HistInv, HistoryTypeOK
<1>2. \A a \in Plain : CarryingIn(responseList', a) = CarryingIn(responseList, a)
  BY <1>0, <1>1, AuthorAppended
<1>3. BeingCleared' <=> BeingCleared
  BY <1>0, CopyStays
<1>4. \A a, c \in Plain : LinedUp(a, c) => LinedUp(a, c)'
  BY <1>0, <1>2, <1>3, SamePlacesLinedUp
<1> QED
  BY <1>0, <1>4, MoveKeepsLine

\* Every batch gives its first question to the end of the history.
LEMMA AddQuestionKeepsLine ==
    ASSUME TypeInv, RoundOwnership, HistInv, LineInv, NEW t \in Askers, AddQuestion(t)
    PROVE  LineInv'
<1> DEFINE l == IF Len(batch[t]) = 1 THEN "enter" ELSE "add"
           q == batch[t]
           k == Len(responseList) + 1
<1>0. /\ t \in Threads /\ Owns(t) /\ pc[t] = "add" /\ Goto(t, l)
      /\ UNCHANGED <<responseQueue, handOff, pendingAsks, strayRelease, arrivals>>
  BY DEF Threads, AddQuestion, Owns, OwningPCs, roundVars, pastVars
<1>1. /\ batch \in [Askers -> Seq(Askers)] /\ q \in Seq(Askers) /\ q # << >>
      /\ responseList \in Seq(Message)
      /\ batch' = [batch EXCEPT ![t] = Tail(q)]
      /\ responseList' = Append(responseList, User(Head(q)))
  BY <1>0 DEF AddQuestion, TypeInv, ControlTypeOK, BatchInv, HistInv, HistoryTypeOK
<1>2. /\ Len(q) \in Nat \ {0} /\ DOMAIN q = 1..Len(q) /\ Head(q) = q[1] /\ q[1] \in Askers
      /\ DOMAIN Tail(q) = 1..(Len(q) - 1)
      /\ \A i \in 1..(Len(q) - 1) : Tail(q)[i] = q[i + 1]
  <2> HIDE DEF q
  <2>1. Len(q) \in Nat \ {0}
    BY <1>1, EmptySeq
  <2>2. /\ Tail(q) \in Seq(Askers) /\ Len(Tail(q)) = Len(q) - 1
        /\ \A i \in 1..(Len(q) - 1) : Tail(q)[i] = q[i + 1]
    BY <1>1, HeadTailProperties
  <2> QED
    BY <1>1, <2>1, <2>2
<1>3. ASSUME NEW a
      PROVE  CarryingIn(responseList', a) =
               CarryingIn(responseList, a) \cup (IF a = q[1] THEN {k} ELSE {})
  <2>1. User(q[1]) \in Message /\ (a \in Carries(User(q[1])) <=> a = q[1])
    BY <1>2, MessagesTyped, WhoseWords DEF Authors
  <2> QED
    BY <1>1, <1>2, <2>1, AppendWords
<1>4. ASSUME NEW a PROVE \A i \in CarryingIn(responseList, a) : i \in Nat /\ i < k
  BY <1>1 DEF CarryingIn
<1>5. batch'[t] = Tail(q) /\ \A u \in Askers \ {t} : batch'[u] = batch[u]
  BY <1>1
<1> HIDE DEF q, k
<1>6. ASSUME NEW a PROVE \A i \in PlacesIn(Tail(q), a) : i \in Nat \ {0} /\ i + 1 \in PlacesIn(q, a)
  BY <1>2 DEF PlacesIn
<1>7. 1 \in PlacesIn(q, q[1])
  BY <1>2 DEF PlacesIn
<1>8. ASSUME ~strayRelease, NEW u \in Askers \ {t} PROVE batch[u] = << >>
  <2>1. pc[u] # "add"
    BY <1>0, <1>8, OwnerAlone DEF Threads, OwningPCs
  <2> QED
    BY <2>1 DEF HistInv, IdleBatches
<1>9. ASSUME ~strayRelease, NEW a \in Plain, NEW c \in Plain, LinedUp(a, c), ~BeingCleared
      PROVE  LinedUp(a, c)'
  <2>1. NoneBehind(PlacesIn(q, a), PlacesIn(q, c)) /\ LinedUpInside(a, c) /\ LinedUpAcross(a, c)
    BY <1>9 DEF LinedUp, LinedUpInside, q
  <2>2. c = q[1] => PlacesIn(pendingAsks, a) = {} /\ PlacesIn(Tail(q), a) = {}
    <3> SUFFICES ASSUME c = q[1] PROVE PlacesIn(pendingAsks, a) = {} /\ PlacesIn(Tail(q), a) = {}
      OBVIOUS
    <3>1. PlacesIn(pendingAsks, a) = {}
      BY <1>7, <2>1 DEF LinedUpAcross, NotInBatch, q
    <3>2. \A i \in PlacesIn(q, a) : i <= 1
      BY <1>7, <2>1 DEF NoneBehind
    <3>3. PlacesIn(Tail(q), a) = {}
      <4> SUFFICES ASSUME NEW i \in PlacesIn(Tail(q), a) PROVE FALSE
        OBVIOUS
      <4>1. i \in Nat \ {0} /\ i + 1 <= 1
        BY <1>6, <3>2
      <4> QED
        BY <4>1
    <3> QED
      BY <3>1, <3>3
  <2>3. c = q[1] => NotInBatch(a)'
    <3>1. ASSUME c = q[1], NEW u \in Askers PROVE PlacesIn(batch'[u], a) = {}
      <4>1. CASE u = t
        BY <1>5, <2>2, <3>1, <4>1
      <4>2. CASE u # t
        <5>1. batch'[u] = << >>
          BY <1>5, <1>8, <1>9, <4>2
        <5> QED
          BY <5>1 DEF PlacesIn
      <4> QED
        BY <4>1, <4>2
    <3> QED
      BY <3>1 DEF NotInBatch
  <2>4. NotInBatch(a) => NotInBatch(a)' /\ a # q[1]
    <3>1. ASSUME NotInBatch(a) PROVE a # q[1]
      BY <1>7, <3>1 DEF NotInBatch, q
    <3>2. ASSUME NotInBatch(a), NEW u \in Askers PROVE PlacesIn(batch'[u], a) = {}
      BY <1>5, <1>6, <3>2 DEF NotInBatch, q
    <3> QED
      BY <3>1, <3>2 DEF NotInBatch
  <2>5. NotInBatch(c) => NotInBatch(c)'
    <3>1. ASSUME NotInBatch(c), NEW u \in Askers PROVE PlacesIn(batch'[u], c) = {}
      BY <1>5, <1>6, <3>1 DEF NotInBatch, q
    <3> QED
      BY <3>1 DEF NotInBatch
  <2>6. NoneBehind(CarryingIn(responseList, a)', CarryingIn(responseList, c)')
    <3> SUFFICES ASSUME NEW i \in CarryingIn(responseList', a), NEW j \in CarryingIn(responseList', c)
                 PROVE  i <= j
      BY DEF NoneBehind
    <3>1. CASE i \in CarryingIn(responseList, a) /\ j \in CarryingIn(responseList, c)
      BY <2>1, <3>1 DEF LinedUpInside, NoneBehind
    <3>2. CASE j = k
      <4>1. i = k \/ (i \in Nat /\ i < k)
        BY <1>3, <1>4
      <4>2. k \in Nat
        BY <1>1 DEF k
      <4> QED
        BY <3>2, <4>1, <4>2
    <3>3. CASE j \in CarryingIn(responseList, c) /\ i \notin CarryingIn(responseList, a)
      <4>1. a = q[1] /\ NotInBatch(a)
        BY <1>3, <2>1, <3>3 DEF LinedUpAcross
      <4> QED
        BY <2>4, <4>1
    <3> QED
      BY <1>3, <3>1, <3>2, <3>3
  <2>7. \A u \in Askers : NoneBehind(PlacesIn(batch'[u], a), PlacesIn(batch'[u], c))
    <3> SUFFICES ASSUME NEW u \in Askers, NEW i \in PlacesIn(batch'[u], a), NEW j \in PlacesIn(batch'[u], c)
                 PROVE  i <= j
      BY DEF NoneBehind
    <3>1. CASE u = t
      <4>1. /\ i \in Nat /\ i + 1 \in PlacesIn(q, a)
            /\ j \in Nat /\ j + 1 \in PlacesIn(q, c)
        BY <1>5, <1>6, <3>1
      <4>2. i + 1 <= j + 1
        BY <2>1, <4>1 DEF NoneBehind
      <4> QED
        BY <4>1, <4>2
    <3>2. CASE u # t
      BY <1>5, <2>1, <3>2 DEF LinedUpInside, NoneBehind
    <3> QED
      BY <3>1, <3>2
  <2>8. LinedUpInside(a, c)'
    BY <1>0, <2>1, <2>6, <2>7 DEF LinedUpInside
  <2>9. CarryingIn(responseList', c) # {} => CarryingIn(responseList, c) # {} \/ c = q[1]
    BY <1>3
  <2>10. a # q[1] => CarryingIn(responseList', a) = CarryingIn(responseList, a)
    BY <1>3
  <2>11. LinedUpAcross(a, c)'
    <3>1. NotInBatch(c)' \/ PlacesIn(pendingAsks', a) = {}
      BY <1>0, <2>1, <2>5 DEF LinedUpAcross
    <3>2. CarryingIn(responseList', c) # {} \/ CarryingIn(handOff', c) # {} =>
            PlacesIn(pendingAsks', a) = {} /\ NotInBatch(a)'
      BY <1>0, <2>1, <2>2, <2>3, <2>4, <2>9 DEF LinedUpAcross
    <3>3. CarryingIn(handOff', c) # {} => CarryingIn(responseList', a) = {}
      BY <1>0, <1>9, <2>1, <2>4, <2>10 DEF LinedUpAcross
    <3> QED
      BY <3>1, <3>2, <3>3 DEF LinedUpAcross
  <2> QED
    BY <2>8, <2>11 DEF LinedUp
<1> HIDE DEF l
<1> QED
  BY <1>0, <1>9, OwnerKeepsLine

\* The queue, which holds none of the questions in arrivals, joins the history.
LEMMA MergeKeepsLine ==
    ASSUME TypeInv, RoundOwnership, HistInv, LineInv, NEW t \in Askers,
           pc[t] \in {"merge", "more"}, NEW l, Goto(t, l), MergeQueue,
           UNCHANGED <<pendingAsks, batch, strayRelease, arrivals>>
    PROVE  LineInv'
<1>1. t \in Threads /\ Owns(t) /\ pc[t] # "rewrite"
  BY DEF Threads, Owns, OwningPCs, RoundPCs
<1>2. /\ responseList \in Seq(Message) /\ responseQueue \in Seq(Message)
      /\ responseList' = responseList \o responseQueue /\ responseQueue' = << >>
      /\ handOff' = handOff
  BY DEF MergeQueue, HistInv, HistoryTypeOK
<1>3. ASSUME NEW a \in Plain, CarryingIn(responseQueue, a) = {}
      PROVE  /\ CarryingIn(responseQueue', a) = {}
             /\ CarryingIn(responseList', a) = CarryingIn(responseList, a)
  <2>1. CarryingIn(responseList', a) =
          CarryingIn(responseList, a) \cup {Len(responseList) + i : i \in CarryingIn(responseQueue, a)}
    BY <1>2, ConcatWords
  <2>2. CarryingIn(responseList', a) = CarryingIn(responseList, a)
    BY <1>3, <2>1
  <2>3. CarryingIn(<< >>, a) = {}
    BY DEF CarryingIn
  <2> QED
    BY <1>2, <2>2, <2>3
<1> QED
  BY <1>1, <1>2, <1>3, RewriteKeepsLine

\* The summary of a hand-off, whose questions came before those of the history.
LEMMA SendRequestKeepsLine ==
    ASSUME TypeInv, RoundOwnership, HistInv, LineInv, NEW t \in Askers, SendRequest(t)
    PROVE  LineInv'
<1>0. /\ t \in Threads /\ Owns(t) /\ pc[t] = "send" /\ Goto(t, "wait")
      /\ UNCHANGED <<responseQueue, pendingAsks, batch, strayRelease, arrivals>>
  BY DEF Threads, SendRequest, Owns, OwningPCs, RoundPCs, roundVars, localVars
<1>1. responseList \in Seq(Message) /\ handOff \in Seq(Message) /\ handOff' = << >>
  BY DEF SendRequest, HistInv, HistoryTypeOK
<1>2. \A a : CarryingIn(handOff', a) = {}
  BY <1>1 DEF CarryingIn
<1>3. \/ UNCHANGED responseList
      \/ responseList' = <<Summary(CarriedBy(handOff))>> \o responseList
  BY DEF SendRequest
<1>4. ASSUME NEW a \in Plain, NEW c \in Plain, LinedUp(a, c), ~BeingCleared
      PROVE  LinedUp(a, c)'
  <2>1. CASE UNCHANGED responseList
    <3>1. LinedUpInside(a, c)'
      BY <1>0, <1>2, <1>4, <2>1 DEF LinedUp, LinedUpInside, NoneBehind
    <3>2. LinedUpAcross(a, c)'
      BY <1>0, <1>2, <1>4, <2>1 DEF LinedUp, LinedUpAcross, NotInBatch
    <3> QED
      BY <3>1, <3>2 DEF LinedUp
  <2>2. CASE responseList' = <<Summary(CarriedBy(handOff))>> \o responseList
    <3> DEFINE old(x) == CarryingIn(responseList, x)
    <3>1. ASSUME NEW x
          PROVE  \A i : i \in CarryingIn(responseList', x) <=>
                   (i = 1 /\ CarryingIn(handOff, x) # {}) \/ \E j \in old(x) : i = 1 + j
      BY <1>1, <2>2, SummaryPlaces
    <3>2. \A x : \A j \in old(x) : j \in Nat \ {0}
      BY <1>1 DEF CarryingIn
    <3> HIDE DEF old
    <3>3. /\ \A i \in old(a), j \in old(c) : i <= j
          /\ CarryingIn(handOff, c) # {} => old(a) = {}
          /\ CarryingIn(handOff, c) # {} \/ old(c) # {} =>
               PlacesIn(pendingAsks, a) = {} /\ NotInBatch(a)
          /\ NotInBatch(c) \/ PlacesIn(pendingAsks, a) = {}
      BY <1>4 DEF LinedUp, LinedUpInside, LinedUpAcross, NoneBehind, old
    <3>4. ASSUME NEW i \in CarryingIn(responseList', a), NEW j \in CarryingIn(responseList', c)
          PROVE  i <= j
      <4>1. CASE i = 1
        BY <3>1, <3>2, <4>1
      <4>2. CASE i # 1
        <5>1. PICK i0 \in old(a) : i = 1 + i0
          BY <3>1, <4>2
        <5>2. PICK j0 \in old(c) : j = 1 + j0
          BY <3>1, <3>3, <5>1
        <5>3. i0 <= j0
          BY <3>3
        <5> QED
          BY <3>2, <5>1, <5>2, <5>3
      <4> QED
        BY <4>1, <4>2
    <3>5. CarryingIn(responseList', c) # {} => CarryingIn(handOff, c) # {} \/ old(c) # {}
      BY <3>1
    <3>6. LinedUpInside(a, c)'
      BY <1>0, <1>2, <1>4, <3>4 DEF LinedUp, LinedUpInside, NoneBehind
    <3>7. NotInBatch(a)' <=> NotInBatch(a)
      BY <1>0 DEF NotInBatch
    <3>8. NotInBatch(c)' <=> NotInBatch(c)
      BY <1>0 DEF NotInBatch
    <3>9. LinedUpAcross(a, c)'
      BY <1>0, <1>2, <3>3, <3>5, <3>7, <3>8 DEF LinedUpAcross
    <3> QED
      BY <3>6, <3>9 DEF LinedUp
  <2> QED
    BY <1>3, <2>1, <2>2
<1> QED
  BY <1>0, <1>4, OwnerKeepsLine

\* The questions that waited become the batch, in the same order.
LEMMA TakeNextBatchKeepsLine ==
    ASSUME TypeInv, RoundOwnership, LineInv, NEW t \in Askers, TakeNextBatch(t)
    PROVE  LineInv'
<1>0. /\ t \in Threads /\ Owns(t) /\ pc[t] = "finish" /\ Goto(t, "add")
      /\ UNCHANGED <<responseList, responseQueue, handOff, strayRelease, arrivals>>
  BY DEF Threads, TakeNextBatch, Owns, OwningPCs, convVars, pastVars
<1>1. /\ batch'[t] = pendingAsks /\ \A u \in Askers \ {t} : batch'[u] = batch[u]
      /\ pendingAsks' = << >>
  BY <1>0 DEF TakeNextBatch, TypeInv, ControlTypeOK
<1>2. \A x : PlacesIn(pendingAsks', x) = {}
  BY <1>1 DEF PlacesIn
<1>3. ~BeingCleared' \/ BeingCleared
  <2>1. \A w \in Switches : pc'[w] = "rewrite" => pc[w] = "rewrite"
    BY <1>0, OneMoves DEF Threads
  <2> QED
    BY <1>0, <2>1 DEF BeingCleared
<1>4. ASSUME NEW a \in Plain, NEW c \in Plain, LinedUp(a, c), ~BeingCleared
      PROVE  LinedUp(a, c)'
  <2>1. \A u \in Askers : NoneBehind(PlacesIn(batch'[u], a), PlacesIn(batch'[u], c))
    BY <1>1, <1>4 DEF LinedUp, LinedUpInside
  <2>2. LinedUpInside(a, c)'
    BY <1>0, <1>2, <1>4, <2>1 DEF LinedUp, LinedUpInside, NoneBehind
  <2>3. PlacesIn(pendingAsks, a) = {} /\ NotInBatch(a) => NotInBatch(a)'
    BY <1>1 DEF NotInBatch
  <2>4. LinedUpAcross(a, c)'
    BY <1>0, <1>2, <1>4, <2>3 DEF LinedUp, LinedUpAcross
  <2> QED
    BY <2>2, <2>4 DEF LinedUp
<1> QED
  BY <1>0, <1>4, OwnerKeepsLine

\* Ranks grow with the positions: what _validate_sequence keeps stays in order.
LEMMA ValidationKeepsOrder ==
    ASSUME NEW list \in Seq(Message), NEW a, NEW c,
           NoneBehind(CarryingIn(list, a), CarryingIn(list, c))
    PROVE  NoneBehind(CarryingIn(Validated(list), a), CarryingIn(Validated(list), c))
<1> DEFINE S == {i \in DOMAIN list : Keeps(list, i)}
           kept == Picked(list, S)
<1>1. S \in SUBSET (DOMAIN list) /\ DOMAIN list = 1..Len(list) /\ Len(list) \in Nat
  OBVIOUS
<1>2. Validated(list) = kept
  BY DEF Validated
<1> HIDE DEF S
<1>3. /\ kept \in Seq(Message)
      /\ \A i \in S : kept[RankIn(S, i)] = list[i]
      /\ \A k \in 1..Len(kept) : \E i \in S : k = RankIn(S, i)
  BY <1>1, PickedPlaces
<1> HIDE DEF kept
<1>4. \A x : \A k \in CarryingIn(kept, x) : \E i \in CarryingIn(list, x) : i \in S /\ k = RankIn(S, i)
  BY <1>1, <1>3 DEF CarryingIn
<1>5. ASSUME NEW k \in CarryingIn(kept, a), NEW m \in CarryingIn(kept, c) PROVE k <= m
  <2>1. PICK i \in CarryingIn(list, a) : i \in S /\ k = RankIn(S, i)
    BY <1>4
  <2>2. PICK j \in CarryingIn(list, c) : j \in S /\ m = RankIn(S, j)
    BY <1>4
  <2>3. i <= j
    BY DEF NoneBehind
  <2> QED
    BY <1>1, <2>1, <2>2, <2>3, RanksGrow
<1> QED
  BY <1>2, <1>5 DEF NoneBehind

\* _validate_sequence neither moves nor adds anybody.
LEMMA ReplaceHistoryKeepsLine ==
    ASSUME TypeInv, RoundOwnership, HistInv, LossInv, LineInv, NEW t \in Askers, ReplaceHistory(t)
    PROVE  LineInv'
<1>0. /\ t \in Threads /\ Owns(t) /\ pc[t] = "replace" /\ Goto(t, "leave")
      /\ UNCHANGED <<responseQueue, handOff, pendingAsks, batch, strayRelease, arrivals>>
  BY DEF Threads, ReplaceHistory, Owns, OwningPCs, RoundPCs, roundVars, pastVars
<1>1. responseList \in Seq(Message)
  BY DEF HistInv, HistoryTypeOK
<1>2. ASSUME ~strayRelease PROVE responseList' \in {responseList, Validated(responseList)}
  BY <1>0, <1>2 DEF ReplaceHistory, LossInv, CopyInv
<1>3. ASSUME ~strayRelease, NEW a \in Plain, NEW c \in Plain, LinedUp(a, c), ~BeingCleared
      PROVE  LinedUp(a, c)'
  <2>1. NoneBehind(CarryingIn(responseList', a), CarryingIn(responseList', c))
    <3>1. NoneBehind(CarryingIn(responseList, a), CarryingIn(responseList, c))
      BY <1>3 DEF LinedUp, LinedUpInside
    <3> QED
      BY <1>1, <1>2, <1>3, <3>1, ValidationKeepsOrder
  <2>2. \A x : CarryingIn(responseList, x) = {} => CarryingIn(responseList', x) = {}
    BY <1>1, <1>2, <1>3, ValidationKeepsWords
  <2>3. LinedUpInside(a, c)'
    BY <1>0, <1>3, <2>1 DEF LinedUp, LinedUpInside
  <2>4. LinedUpAcross(a, c)'
    BY <1>0, <1>3, <2>2 DEF LinedUp, LinedUpAcross, NotInBatch
  <2> QED
    BY <2>3, <2>4 DEF LinedUp
<1> QED
  BY <1>0, <1>3, OwnerKeepsLine

\* A snapshot has the order of the history, and until the history is cleared it
\* is only a copy.
LEMMA TakeSnapshotKeepsLine ==
    ASSUME TypeInv, RoundOwnership, LineInv, NEW w \in Switches, TakeSnapshot(w)
    PROVE  LineInv'
<1>0. /\ w \in Threads /\ Owns(w) /\ pc[w] = "snapshot" /\ Goto(w, "rewrite")
      /\ UNCHANGED <<responseList, responseQueue, pendingAsks, batch, strayRelease, arrivals>>
  BY DEF Threads, TakeSnapshot, Owns, OwningPCs, roundVars, localVars
<1>1. pc'[w] = "rewrite"
  BY <1>0, OneMoves
<1>2. \/ handOff' = handOff
      \/ handOff' = responseList /\ BeingCleared'
  BY <1>0, <1>1 DEF TakeSnapshot, BeingCleared
<1>3. ASSUME NEW a \in Plain, NEW c \in Plain, LinedUp(a, c), ~BeingCleared
      PROVE  LinedUp(a, c)'
  <2>1. LinedUpInside(a, c)'
    BY <1>0, <1>2, <1>3 DEF LinedUp, LinedUpInside
  <2>2. NotInBatch(a)' = NotInBatch(a) /\ NotInBatch(c)' = NotInBatch(c)
    BY <1>0 DEF NotInBatch
  <2>3. LinedUpAcross(a, c)'
    BY <1>0, <1>2, <1>3, <2>2 DEF LinedUp, LinedUpAcross
  <2> QED
    BY <2>1, <2>3 DEF LinedUp
<1> QED
  BY <1>0, <1>3, OwnerKeepsLine

\* The history that is cleared leaves its questions in front of the next ones.
LEMMA ClearConversationKeepsLine ==
    ASSUME TypeInv, LineInv, NEW w \in Switches, ClearConversation(w)
    PROVE  LineInv'
<1>0. /\ w \in Threads /\ pc[w] = "rewrite" /\ Goto(w, "giveBack")
      /\ responseList' = << >> /\ responseQueue' = << >>
      /\ UNCHANGED <<handOff, pendingAsks, batch, strayRelease, arrivals>>
  BY DEF Threads, ClearConversation, roundVars, localVars
<1>1. \A x : CarryingIn(responseList', x) = {} /\ CarryingIn(responseQueue', x) = {}
  BY <1>0 DEF CarryingIn
<1>2. ASSUME NEW a \in Plain, NEW c \in Plain, LinedUp(a, c) PROVE LinedUp(a, c)'
  <2>1. LinedUpInside(a, c)'
    BY <1>0, <1>1, <1>2 DEF LinedUp, LinedUpInside, NoneBehind
  <2>2. NotInBatch(a)' = NotInBatch(a) /\ NotInBatch(c)' = NotInBatch(c)
    BY <1>0 DEF NotInBatch
  <2>3. LinedUpAcross(a, c)'
    BY <1>0, <1>1, <1>2, <2>2 DEF LinedUp, LinedUpAcross
  <2> QED
    BY <2>1, <2>3 DEF LinedUp
<1> QED
  BY <1>0, <1>1, <1>2, MoveKeepsLine

\* The steps of a question's thread keep the questions lined up.
LEMMA AskKeepsLine ==
    ASSUME TypeInv, RoundOwnership, HistInv, LossInv, LineInv, NEW t \in Askers, Ask(t)
    PROVE  LineInv'
<1> USE DEF convVars, roundVars, epochVars, localVars, pastVars
<1>0. t \in Threads /\ t \notin Switches /\ t \in Authors
  BY KindsDisjoint DEF Threads, Authors
<1>a. responseList \in Seq(Message)
  BY DEF HistInv, HistoryTypeOK
<1>1. CASE AskClaims(t)
  BY <1>1, AskClaimsKeepsLine
<1>2. CASE AskFindsRound(t)
  BY <1>0, <1>2, QuietKeepsLine DEF AskFindsRound
<1>3. CASE ForcedAdd(t)
  BY <1>0, <1>3, ForcedAddKeepsLine
<1>4. CASE QueuePendingAsk(t)
  BY <1>4, QueuePendingAskKeepsLine
<1>5. CASE AddQuestion(t)
  BY <1>5, AddQuestionKeepsLine
<1>6. CASE EnterRound(t)
  BY <1>0, <1>6, QuietKeepsLine DEF EnterRound
<1>7. CASE BeginRound(t)
  BY <1>0, <1>7, QuietKeepsLine DEF BeginRound
<1>8. CASE MergeLeftover(t)
  BY <1>8, MergeKeepsLine DEF MergeLeftover
<1>9. CASE CheckStop(t)
  BY <1>0, <1>9, QuietKeepsLine DEF CheckStop
<1>10. CASE SendRequest(t)
  BY <1>10, SendRequestKeepsLine
<1>11. CASE \E n \in 0..MaxCalls : ReceiveReply(t, n)
  <2> PICK n \in 0..MaxCalls : ReceiveReply(t, n)
    BY <1>11
  <2> DEFINE id == IF n = 0 THEN 0 ELSE toolReplies + 1
             l == IF n = 0 THEN "more" ELSE "tools"
  <2>1. /\ Goto(t, l) /\ Owns(t) /\ pc[t] # "rewrite"
        /\ UNCHANGED <<responseQueue, handOff, pendingAsks, batch, strayRelease, arrivals>>
    BY DEF ReceiveReply, Owns, OwningPCs, RoundPCs
  <2>2. Assistant(id, n) \in Message
    <3>1. id \in 0..MaxToolReplies
      BY BoundsAreNumbers DEF ReceiveReply, HistInv, HistoryTypeOK
    <3> QED
      BY <3>1, MessagesTyped
  <2>3. responseList' = Append(responseList, Assistant(id, n))
    BY DEF ReceiveReply
  <2> HIDE DEF id, l
  <2>4. \A a : CarryingIn(responseList', a) = CarryingIn(responseList, a)
    BY <1>a, <2>2, <2>3, ReplyWords, WhoseWords
  <2> QED
    BY <1>0, <2>1, <2>4, RewriteKeepsLine
<1>12. CASE DiscardReply(t)
  BY <1>0, <1>12, QuietKeepsLine DEF DiscardReply
<1>13. CASE RequestFails(t)
  BY <1>0, <1>13, QuietKeepsLine DEF RequestFails
<1>14. CASE RunToolCall(t)
  <2> DEFINE c == reply[t].done + 1
             l == IF c = reply[t].calls THEN "more" ELSE "tools"
  <2>1. /\ Goto(t, l) /\ Owns(t) /\ pc[t] # "rewrite"
        /\ UNCHANGED <<responseQueue, handOff, pendingAsks, batch, strayRelease, arrivals>>
    BY <1>14 DEF RunToolCall, Owns, OwningPCs, RoundPCs
  <2>2. Tool(reply[t].id, c) \in Message
    <3>1. /\ reply[t] \in [id : 0..MaxToolReplies, calls : 0..MaxCalls, done : 0..MaxCalls]
          /\ reply[t].id # 0 /\ reply[t].done < reply[t].calls
      BY <1>14 DEF RunToolCall, HistInv, HistoryTypeOK, CallsLeft
    <3>2. reply[t].id \in 1..MaxToolReplies /\ c \in 1..MaxCalls
      BY <3>1, BoundsAreNumbers
    <3> QED
      BY <3>2, MessagesTyped
  <2>3. responseList' = Append(responseList, Tool(reply[t].id, c))
    BY <1>14 DEF RunToolCall
  <2> HIDE DEF c, l
  <2>4. \A a : CarryingIn(responseList', a) = CarryingIn(responseList, a)
    BY <1>a, <2>2, <2>3, ReplyWords, WhoseWords
  <2> QED
    BY <1>0, <2>1, <2>4, RewriteKeepsLine
<1>15. CASE SkipToolCalls(t)
  BY <1>0, <1>15, QuietKeepsLine DEF SkipToolCalls
<1>16. CASE MergeQueued(t)
  BY <1>16, MergeKeepsLine DEF MergeQueued
<1>17. CASE AbortRound(t)
  <2>1. /\ Goto(t, "validate") /\ Owns(t) /\ pc[t] # "rewrite"
        /\ responseList' = WithoutTrailingCall(responseList)
        /\ UNCHANGED <<responseQueue, handOff, pendingAsks, batch, strayRelease, arrivals>>
    BY <1>17 DEF AbortRound, Owns, OwningPCs, RoundPCs
  <2>2. \A a : CarryingIn(responseList', a) = CarryingIn(responseList, a)
    BY <1>a, <2>1, AbortWords
  <2> QED
    BY <1>0, <2>1, <2>2, RewriteKeepsLine
<1>18. CASE ComputeCleaned(t)
  BY <1>0, <1>18, QuietKeepsLine DEF ComputeCleaned
<1>19. CASE ReplaceHistory(t)
  BY <1>19, ReplaceHistoryKeepsLine
<1>20. CASE LeaveRound(t)
  BY <1>0, <1>20, QuietKeepsLine DEF LeaveRound
<1>21. CASE TakeNextBatch(t)
  BY <1>21, TakeNextBatchKeepsLine
<1>22. CASE TakeQueueRound(t)
  BY <1>0, <1>22, QuietKeepsLine DEF TakeQueueRound
<1>23. CASE FinishSequence(t)
  BY <1>0, <1>23, QuietKeepsLine DEF FinishSequence
<1>24. CASE ReleaseAgain(t)
  BY <1>0, <1>24, QuietKeepsLine DEF ReleaseAgain, ReleaseRound
<1>25. CASE AcceptReply(t)
  BY <1>0, <1>25, QuietKeepsLine DEF AcceptReply
<1>26. CASE BeginToolCall(t)
  BY <1>0, <1>26, QuietKeepsLine DEF BeginToolCall
<1> QED
  BY <1>1, <1>2, <1>3, <1>4, <1>5, <1>6, <1>7, <1>8, <1>9, <1>10, <1>11,
     <1>12, <1>13, <1>14, <1>15, <1>16, <1>17, <1>18, <1>19, <1>20, <1>21,
     <1>22, <1>23, <1>24, <1>25, <1>26 DEF Ask

\* So do those of the other commands.
LEMMA OtherKeepsLine ==
    ASSUME TypeInv, RoundOwnership, HistInv, LineInv, OtherCommandStep
    PROVE  LineInv'
<1> USE DEF convVars, roundVars, epochVars, localVars, pastVars
<1>0. /\ Stops \cup Relays \cup Switches \cup Compacts \subseteq Threads
      /\ (Stops \cup Relays \cup Compacts) \cap Switches = {}
      /\ Relays \subseteq Authors
  BY KindsDisjoint DEF Threads, Authors
<1>1. ASSUME NEW s \in Stops, StopFindsNothing(s) PROVE LineInv'
  BY <1>0, <1>1, QuietKeepsLine DEF StopFindsNothing
<1>2. ASSUME NEW s \in Stops, RequestStop(s) PROVE LineInv'
  BY <1>0, <1>2, QuietKeepsLine DEF RequestStop
<1>3. ASSUME NEW r \in Relays, RelayToHistory(r) PROVE LineInv'
  BY <1>3, RelayKeepsLine
<1>4. ASSUME NEW r \in Relays, RelayFindsRound(r) PROVE LineInv'
  BY <1>0, <1>4, QuietKeepsLine DEF RelayFindsRound
<1>5. ASSUME NEW r \in Relays, ForcedAdd(r) PROVE LineInv'
  BY <1>0, <1>5, ForcedAddKeepsLine
<1>6. ASSUME NEW w \in Switches, SwitchStarts(w) PROVE LineInv'
  BY <1>0, <1>6, QuietKeepsLine DEF SwitchStarts
<1>7. ASSUME NEW w \in Switches, SwitchWaits(w) PROVE LineInv'
  BY <1>0, <1>7, QuietKeepsLine DEF SwitchWaits
<1>8. ASSUME NEW w \in Switches, SwitchRetries(w) PROVE LineInv'
  BY <1>0, <1>8, QuietKeepsLine DEF SwitchRetries
<1>9. ASSUME NEW w \in Switches, SwitchClaims(w) PROVE LineInv'
  BY <1>0, <1>9, QuietKeepsLine DEF SwitchClaims
<1>10. ASSUME NEW w \in Switches, TakeSnapshot(w) PROVE LineInv'
  BY <1>10, TakeSnapshotKeepsLine
<1>11. ASSUME NEW w \in Switches, ClearConversation(w) PROVE LineInv'
  BY <1>11, ClearConversationKeepsLine
<1>12. ASSUME NEW c \in Compacts, CompactFindsRound(c) PROVE LineInv'
  BY <1>0, <1>12, QuietKeepsLine DEF CompactFindsRound
<1>13. ASSUME NEW c \in Compacts, CompactClaims(c) PROVE LineInv'
  BY <1>0, <1>13, QuietKeepsLine DEF CompactClaims
<1>14. ASSUME NEW t \in Switches \cup Compacts, GiveBack(t) PROVE LineInv'
  BY <1>0, <1>14, QuietKeepsLine DEF GiveBack, ReleaseRound
<1>15. ASSUME NEW r \in Relays, RelayFindsIdle(r) PROVE LineInv'
  BY <1>0, <1>15, QuietKeepsLine DEF RelayFindsIdle
<1> QED
  BY <1>1, <1>2, <1>3, <1>4, <1>5, <1>6, <1>7, <1>8, <1>9, <1>10, <1>11, <1>12,
     <1>13, <1>14, <1>15 DEF OtherCommandStep, Stop, Relay, Switch, Compact

\* LineInv is inductive relative to what is proved above.
LEMMA NextKeepsLine ==
    TypeInv /\ RoundOwnership /\ HistInv /\ LossInv /\ LineInv /\ [Next]_vars => LineInv'
<1> SUFFICES ASSUME TypeInv, RoundOwnership, HistInv, LossInv, LineInv, [Next]_vars PROVE LineInv'
  OBVIOUS
<1>1. CASE UNCHANGED vars
  <2>1. UNCHANGED <<responseList, responseQueue, handOff, pendingAsks, batch, pc,
                    strayRelease, arrivals>>
    BY <1>1 DEF vars, convVars, roundVars, localVars, pastVars
  <2>2. BeingCleared' <=> BeingCleared
    BY <2>1 DEF BeingCleared
  <2>3. ASSUME NEW a \in Plain, NEW c \in Plain
        PROVE  (ArrivedBefore(a, c)' <=> ArrivedBefore(a, c)) /\ (LinedUp(a, c) => LinedUp(a, c)')
    <3>1. ArrivedBefore(a, c)' <=> ArrivedBefore(a, c)
      BY <2>1 DEF ArrivedBefore
    <3>2. LinedUp(a, c) => LinedUp(a, c)'
      BY <2>1, <2>2, SamePlacesLinedUp
    <3> QED
      BY <3>1, <3>2
  <2> QED
    BY <2>1, <2>3 DEF LineInv
<1>2. CASE \E t \in Askers : Ask(t)
  BY <1>2, AskKeepsLine
<1>3. CASE OtherCommandStep
  BY <1>3, OtherKeepsLine
<1> QED
  BY <1>1, <1>2, <1>3 DEF Next, OtherCommandStep, Terminated

\* Questions that found a round in flight reach the history in the order in
\* which queue_pending_ask took them -- through batches, requests, validations,
\* summaries and switches -- unless a stray release_round lets two threads in.
THEOREM QuestionsInOrder == Spec => []ArrivalOrder
<1> DEFINE Inv == TypeInv /\ RoundOwnership /\ CtxInv /\ HistInv /\ LossInv /\ LineInv
<1>1. Init => Inv
  <2>1. Init => RoundOwnership
    BY DEF Init, RoundOwnership, OneRoundAtATime, Owns, OwningPCs, RoundPCs
  <2>2. Init => LineInv
    BY DEF Init, LineInv, ArrivedBefore, CarryingIn
  <2> QED
    BY <2>1, <2>2, InitTypeInv, InitCtx, InitHistInv, InitLoss
<1>2. Inv /\ [Next]_vars => Inv'
  BY NextTypeInv, NextKeepsOwnership, NextKeepsCtx, NextHistInv, NextKeepsLoss, NextKeepsLine
<1>3. Inv => ArrivalOrder
  <2> SUFFICES ASSUME LineInv, ~strayRelease,
                      NEW m \in DOMAIN arrivals, NEW n \in DOMAIN arrivals, m < n,
                      NEW i \in DOMAIN responseList, NEW j \in DOMAIN responseList,
                      arrivals[m] \in Carries(responseList[i]),
                      arrivals[n] \in Carries(responseList[j])
               PROVE  i <= j
    BY DEF ArrivalOrder
  <2>1. LinedUp(arrivals[m], arrivals[n])
    BY DEF LineInv, ArrivedBefore
  <2> QED
    BY <2>1 DEF LinedUp, LinedUpInside, NoneBehind, CarryingIn
<1> QED
  BY <1>1, <1>2, <1>3, PTL DEF Spec

-----------------------------------------------------------------------------
(* Well-formed histories.  Up to a position the tool groups are complete;   *)
(* a stopped round may leave one open group behind it, followed by words.   *)

\* A message that has nothing to do with tool calls.
Speech(m) == ~IsCalling(m) /\ m.role # "tool"

\* The first n messages: every call has its results, every result its call.
SoundUpTo(list, n) ==
    \A i \in 1..n :
        /\ IsCalling(list[i]) =>
             /\ i + list[i].calls <= n
             /\ \A c \in 1..list[i].calls : list[i + c] = Tool(list[i].id, c)
        /\ list[i].role = "tool" =>
             \E h \in 1..n : IsCalling(list[h]) /\ h < i /\ i <= h + list[h].calls
Sound(list) == SoundUpTo(list, Len(list))

\* The reply at p has got the results of d of its calls, and no more.
BrokenAt(list, p, d) ==
    /\ p \in 1..Len(list) /\ d \in Nat /\ p + d <= Len(list)
    /\ SoundUpTo(list, p - 1)
    /\ IsCalling(list[p]) /\ d < list[p].calls
    /\ \A c \in 1..d : list[p + c] = Tool(list[p].id, c)
    /\ \A k \in (p + d + 1)..Len(list) : Speech(list[k])
Broken(list) == \E p \in 1..Len(list), d \in Nat : BrokenAt(list, p, d)

\* What a calling message and a tool result look like.
LEMMA ReplyFields ==
    ASSUME NEW m \in Message
    PROVE  /\ IsCalling(m) => /\ m.calls \in Nat \ {0} /\ m.role # "tool"
                              /\ m = Assistant(m.id, m.calls)
           /\ m.role = "tool" => ~IsCalling(m) /\ m.call \in Nat
<1>1. CASE \E a \in Authors : m = User(a)
  BY <1>1 DEF User, IsCalling
<1>2. CASE \E id \in 0..MaxToolReplies, n \in 0..MaxCalls : m = Assistant(id, n)
  BY <1>2, BoundsAreNumbers DEF Assistant, IsCalling
<1>3. CASE \E id \in 1..MaxToolReplies, c \in 1..MaxCalls : m = Tool(id, c)
  BY <1>3, BoundsAreNumbers DEF Tool, IsCalling
<1>4. CASE \E S \in SUBSET Authors : m = Summary(S)
  BY <1>4 DEF Summary, IsCalling
<1> QED
  BY <1>1, <1>2, <1>3, <1>4 DEF Message

\* Which messages are speech.
LEMMA SpeechWritten ==
    /\ \A a : Speech(User(a))
    /\ \A S : Speech(Summary(S))
    /\ \A id : Speech(Assistant(id, 0))
    /\ \A id, c : Tool(id, c).role = "tool" /\ ~IsCalling(Tool(id, c))
    /\ \A id : \A n \in Nat \ {0} : IsCalling(Assistant(id, n)) /\ Assistant(id, n).calls = n
  BY DEF Speech, IsCalling, User, Summary, Assistant, Tool

\* Soundness depends on the messages it is about.
LEMMA SoundAlike ==
    ASSUME NEW list \in Seq(Message), NEW list2 \in Seq(Message), NEW n \in Nat,
           n <= Len(list), \A i \in 1..n : list2[i] = list[i], SoundUpTo(list, n)
    PROVE  SoundUpTo(list2, n)
<1> SUFFICES ASSUME NEW i \in 1..n
             PROVE  /\ IsCalling(list2[i]) =>
                         /\ i + list2[i].calls <= n
                         /\ \A c \in 1..list2[i].calls : list2[i + c] = Tool(list2[i].id, c)
                    /\ list2[i].role = "tool" =>
                         \E h \in 1..n : IsCalling(list2[h]) /\ h < i /\ i <= h + list2[h].calls
  BY DEF SoundUpTo
<1>1. list2[i] = list[i] /\ list[i] \in Message
  OBVIOUS
<1>2. ASSUME IsCalling(list2[i])
      PROVE  /\ i + list2[i].calls <= n
             /\ \A c \in 1..list2[i].calls : list2[i + c] = Tool(list2[i].id, c)
  <2>1. /\ i + list[i].calls <= n /\ list[i].calls \in Nat
        /\ \A c \in 1..list[i].calls : list[i + c] = Tool(list[i].id, c)
    BY <1>1, <1>2, ReplyFields DEF SoundUpTo
  <2>2. \A c \in 1..list[i].calls : i + c \in 1..n
    BY <2>1
  <2> QED
    BY <1>1, <2>1, <2>2
<1>3. ASSUME list2[i].role = "tool"
      PROVE  \E h \in 1..n : IsCalling(list2[h]) /\ h < i /\ i <= h + list2[h].calls
  <2>1. PICK h \in 1..n : IsCalling(list[h]) /\ h < i /\ i <= h + list[h].calls
    BY <1>1, <1>3 DEF SoundUpTo
  <2> QED
    BY <2>1
<1> QED
  BY <1>2, <1>3

\* Speech behind sound messages leaves them sound.
LEMMA SoundThenSpeech ==
    ASSUME NEW list \in Seq(Message), NEW n \in Nat, NEW m \in Nat, n <= m, m <= Len(list),
           SoundUpTo(list, n), \A k \in (n + 1)..m : Speech(list[k])
    PROVE  SoundUpTo(list, m)
<1> SUFFICES ASSUME NEW i \in 1..m
             PROVE  /\ IsCalling(list[i]) =>
                         /\ i + list[i].calls <= m
                         /\ \A c \in 1..list[i].calls : list[i + c] = Tool(list[i].id, c)
                    /\ list[i].role = "tool" =>
                         \E h \in 1..m : IsCalling(list[h]) /\ h < i /\ i <= h + list[h].calls
  BY DEF SoundUpTo
<1>1. CASE i \in (n + 1)..m
  BY <1>1 DEF Speech
<1>2. CASE i \in 1..n
  <2>1. list[i] \in Message
    OBVIOUS
  <2>2. ASSUME IsCalling(list[i])
        PROVE  /\ i + list[i].calls <= m
               /\ \A c \in 1..list[i].calls : list[i + c] = Tool(list[i].id, c)
    BY <1>2, <2>1, <2>2, ReplyFields DEF SoundUpTo
  <2>3. ASSUME list[i].role = "tool"
        PROVE  \E h \in 1..m : IsCalling(list[h]) /\ h < i /\ i <= h + list[h].calls
    <3>1. PICK h \in 1..n : IsCalling(list[h]) /\ h < i /\ i <= h + list[h].calls
      BY <1>2, <2>3 DEF SoundUpTo
    <3> QED
      BY <3>1
  <2> QED
    BY <2>2, <2>3
<1> QED
  BY <1>1, <1>2

\* A group with all its results joins the sound messages.
LEMMA SoundThenGroup ==
    ASSUME NEW list \in Seq(Message), NEW p \in 1..Len(list), SoundUpTo(list, p - 1),
           IsCalling(list[p]), p + list[p].calls <= Len(list),
           \A c \in 1..list[p].calls : list[p + c] = Tool(list[p].id, c)
    PROVE  SoundUpTo(list, p + list[p].calls)
<1> DEFINE m == p + list[p].calls
<1>1. list[p] \in Message /\ list[p].calls \in Nat \ {0} /\ list[p].role # "tool" /\ p \in Nat \ {0}
  BY ReplyFields
<1> SUFFICES ASSUME NEW i \in 1..m
             PROVE  /\ IsCalling(list[i]) =>
                         /\ i + list[i].calls <= m
                         /\ \A c \in 1..list[i].calls : list[i + c] = Tool(list[i].id, c)
                    /\ list[i].role = "tool" =>
                         \E h \in 1..m : IsCalling(list[h]) /\ h < i /\ i <= h + list[h].calls
  BY DEF SoundUpTo
<1>2. list[i] \in Message
  BY <1>1
<1>3. CASE i = p
  BY <1>1, <1>3
<1>4. CASE i > p
  <2>1. i - p \in 1..list[p].calls /\ p + (i - p) = i
    BY <1>1, <1>4
  <2>2. list[i] = Tool(list[p].id, i - p)
    BY <2>1
  <2>3. ~IsCalling(list[i])
    BY <2>2, SpeechWritten
  <2>4. p \in 1..m
    BY <1>1
  <2> QED
    BY <1>4, <2>3, <2>4
<1>5. CASE i < p
  <2>1. i \in 1..(p - 1)
    BY <1>1, <1>5
  <2>2. ASSUME IsCalling(list[i])
        PROVE  /\ i + list[i].calls <= m
               /\ \A c \in 1..list[i].calls : list[i + c] = Tool(list[i].id, c)
    BY <1>1, <1>2, <2>1, <2>2, ReplyFields DEF SoundUpTo
  <2>3. ASSUME list[i].role = "tool"
        PROVE  \E h \in 1..m : IsCalling(list[h]) /\ h < i /\ i <= h + list[h].calls
    <3>1. PICK h \in 1..(p - 1) : IsCalling(list[h]) /\ h < i /\ i <= h + list[h].calls
      BY <2>1, <2>3 DEF SoundUpTo
    <3>2. h \in 1..m
      BY <1>1
    <3> QED
      BY <3>1, <3>2
  <2> QED
    BY <2>2, <2>3
<1> QED
  BY <1>1, <1>3, <1>4, <1>5

\* A sound history has intact tool groups.
LEMMA SoundIsIntact ==
    ASSUME NEW list \in Seq(Message), Sound(list)
    PROVE  ToolGroupsIntact(list)
<1> SUFFICES ASSUME NEW i \in 1..Len(list)
             PROVE  /\ IsCalling(list[i]) =>
                         /\ i + list[i].calls <= Len(list)
                         /\ \A c \in 1..list[i].calls : list[i + c] = Tool(list[i].id, c)
                    /\ list[i].role = "tool" =>
                         /\ i > list[i].call
                         /\ list[i - list[i].call].role = "assistant"
                         /\ list[i - list[i].call].id = list[i].id
  BY DEF ToolGroupsIntact
<1>1. ASSUME list[i].role = "tool"
      PROVE  /\ i > list[i].call
             /\ list[i - list[i].call].role = "assistant"
             /\ list[i - list[i].call].id = list[i].id
  <2>1. PICK h \in 1..Len(list) : IsCalling(list[h]) /\ h < i /\ i <= h + list[h].calls
    BY <1>1 DEF Sound, SoundUpTo
  <2>2. list[h] \in Message /\ list[h].calls \in Nat
    BY <2>1, ReplyFields
  <2>3. i - h \in 1..list[h].calls /\ h + (i - h) = i
    BY <2>1, <2>2
  <2>4. list[i] = Tool(list[h].id, i - h)
    BY <2>1, <2>3 DEF Sound, SoundUpTo
  <2>5. list[i].call = i - h /\ list[i].id = list[h].id
    BY <2>4 DEF Tool
  <2>6. i - list[i].call = h
    BY <2>5
  <2> QED
    BY <2>1, <2>5, <2>6 DEF IsCalling
<1> QED
  BY <1>1 DEF Sound, SoundUpTo

\* The operations on a history, and what they do to its groups.

\* Words join a history.
LEMMA SpeechJoins ==
    ASSUME NEW list \in Seq(Message), NEW more \in Seq(Message),
           \A i \in 1..Len(more) : Speech(more[i])
    PROVE  /\ list \o more \in Seq(Message)
           /\ Sound(list) => Sound(list \o more)
           /\ Broken(list) => Broken(list \o more)
<1> DEFINE all == list \o more
           n == Len(list)
           m == Len(list) + Len(more)
<1>1. /\ all \in Seq(Message) /\ Len(all) = m /\ n \in Nat /\ m \in Nat /\ n <= m
      /\ \A i \in 1..n : all[i] = list[i]
      /\ \A i \in (n + 1)..m : i - n \in 1..Len(more) /\ all[i] = more[i - n]
  BY ConcatProperties
<1> HIDE DEF all, n, m
<1>2. \A i \in (n + 1)..m : Speech(all[i])
  BY <1>1
<1>3. ASSUME Sound(list) PROVE Sound(all)
  <2>1. SoundUpTo(all, n)
    <3>1. SoundUpTo(list, n) /\ n <= Len(list)
      BY <1>1, <1>3 DEF Sound, n
    <3>2. \A i \in 1..n : all[i] = list[i]
      BY <1>1
    <3> QED
      BY <1>1, <3>1, <3>2, SoundAlike
  <2>2. m <= Len(all)
    BY <1>1
  <2>3. SoundUpTo(all, m)
    BY <1>1, <1>2, <2>1, <2>2, SoundThenSpeech
  <2> QED
    BY <1>1, <2>3 DEF Sound
<1>4. ASSUME NEW p \in 1..n, NEW d \in Nat, BrokenAt(list, p, d) PROVE BrokenAt(all, p, d)
  <2>1. p + d <= n /\ p - 1 \in Nat /\ p - 1 <= n /\ p \in 1..m
    BY <1>1, <1>4 DEF BrokenAt, n
  <2>2. SoundUpTo(all, p - 1)
    <3>1. \A i \in 1..(p - 1) : all[i] = list[i]
      BY <1>1
    <3>2. SoundUpTo(list, p - 1)
      BY <1>4 DEF BrokenAt
    <3> QED
      BY <1>1, <2>1, <3>1, <3>2, SoundAlike DEF n
  <2>3. all[p] = list[p] /\ \A c \in 1..d : p + c \in 1..n /\ all[p + c] = list[p + c]
    BY <1>1, <2>1
  <2>4. \A k \in (p + d + 1)..m : Speech(all[k])
    <3> TAKE k \in (p + d + 1)..m
    <3>1. CASE k <= n
      <4>1. k \in 1..n /\ all[k] = list[k] /\ k \in (p + d + 1)..n
        BY <1>1, <2>1, <3>1
      <4> QED
        BY <1>4, <4>1 DEF BrokenAt, n
    <3>2. CASE k > n
      BY <1>1, <1>2, <2>1, <3>2
    <3> QED
      BY <1>1, <2>1, <3>1, <3>2
  <2> QED
    BY <1>1, <1>4, <2>1, <2>2, <2>3, <2>4 DEF BrokenAt
<1>5. ASSUME Broken(list) PROVE Broken(all)
  <2> PICK p \in 1..n, d \in Nat : BrokenAt(list, p, d)
    BY <1>5 DEF Broken, n
  <2>1. p \in 1..Len(all)
    BY <1>1
  <2> QED
    BY <1>4, <2>1 DEF Broken
<1> QED
  BY <1>1, <1>3, <1>5 DEF all

\* One more word.
LEMMA SpeechAppended ==
    ASSUME NEW list \in Seq(Message), NEW m \in Message, Speech(m), Sound(list)
    PROVE  Sound(Append(list, m))
<1>1. Append(list, m) = list \o <<m>>
  BY AppendIsConcat
<1>2. <<m>> \in Seq(Message) /\ \A i \in 1..Len(<<m>>) : Speech(<<m>>[i])
  OBVIOUS
<1> QED
  BY <1>1, <1>2, SpeechJoins

\* A reply with calls opens a group.
LEMMA CallAppended ==
    ASSUME NEW list \in Seq(Message), Sound(list), NEW m \in Message, IsCalling(m)
    PROVE  /\ Append(list, m) \in Seq(Message) /\ Len(Append(list, m)) = Len(list) + 1
           /\ Append(list, m)[Len(list) + 1] = m
           /\ BrokenAt(Append(list, m), Len(list) + 1, 0)
<1> DEFINE all == Append(list, m)
           n == Len(list)
<1>1. /\ n \in Nat /\ all \in Seq(Message) /\ Len(all) = n + 1 /\ all[n + 1] = m
      /\ \A i \in 1..n : all[i] = list[i]
  BY AppendProperties
<1>2. m.calls \in Nat \ {0}
  BY ReplyFields
<1> HIDE DEF all
<1>3. SoundUpTo(all, n)
  BY <1>1, SoundAlike DEF Sound
<1> HIDE DEF n
<1>4. (n + 1) - 1 = n /\ n + 1 \in 1..(n + 1)
  BY <1>1
<1>5. BrokenAt(all, n + 1, 0)
  BY <1>1, <1>2, <1>3, <1>4 DEF BrokenAt
<1> QED
  BY <1>1, <1>5 DEF all, n

\* The next result of the open group; the last one closes it.
LEMMA ResultAppended ==
    ASSUME NEW list \in Seq(Message), NEW p \in Nat, NEW d \in Nat, BrokenAt(list, p, d), p + d = Len(list),
           Tool(list[p].id, d + 1) \in Message
    PROVE  LET all == Append(list, Tool(list[p].id, d + 1))
           IN  /\ all \in Seq(Message) /\ Len(all) = Len(list) + 1
               /\ all[p] = list[p]
               /\ IF d + 1 = list[p].calls THEN Sound(all) ELSE BrokenAt(all, p, d + 1)
<1> DEFINE m == Tool(list[p].id, d + 1)
           all == Append(list, m)
           n == Len(list)
<1>1. /\ n \in Nat /\ all \in Seq(Message) /\ Len(all) = n + 1 /\ all[n + 1] = m
      /\ \A i \in 1..n : all[i] = list[i]
  BY AppendProperties
<1>2. /\ p \in 1..n /\ d \in Nat /\ n = p + d /\ SoundUpTo(list, p - 1)
      /\ IsCalling(list[p]) /\ d < list[p].calls
      /\ \A c \in 1..d : list[p + c] = Tool(list[p].id, c)
  BY DEF BrokenAt
<1>3. list[p].calls \in Nat
  BY <1>2, ReplyFields
<1>4. all[p] = list[p]
  BY <1>1, <1>2
<1>5. SoundUpTo(all, p - 1)
  <2>1. p - 1 \in Nat /\ p - 1 <= n /\ \A i \in 1..(p - 1) : i \in 1..n
    BY <1>1, <1>2
  <2>2. \A i \in 1..(p - 1) : all[i] = list[i]
    BY <1>1, <2>1
  <2>3. SoundUpTo(list, p - 1)
    BY <1>2
  <2> HIDE DEF all
  <2> QED
    BY <1>1, <2>1, <2>2, <2>3, SoundAlike
<1> HIDE DEF all, n, m
<1>6. \A c \in 1..(d + 1) : all[p + c] = Tool(all[p].id, c)
  <2> TAKE c \in 1..(d + 1)
  <2>1. CASE c = d + 1
    <3>1. p + c = n + 1
      BY <1>1, <1>2, <2>1
    <3> QED
      BY <1>1, <1>4, <2>1, <3>1 DEF m
  <2>2. CASE c # d + 1
    <3>1. c \in 1..d /\ p + c \in 1..n
      BY <1>1, <1>2, <2>2
    <3> QED
      BY <1>1, <1>2, <1>4, <3>1
  <2> QED
    BY <2>1, <2>2
<1>7. CASE d + 1 = list[p].calls
  <2>1. /\ p \in 1..Len(all) /\ p + all[p].calls = Len(all) /\ p + all[p].calls <= Len(all)
        /\ IsCalling(all[p])
    <3>1. p + all[p].calls = n + 1 /\ n + 1 \in Nat /\ p \in 1..(n + 1) /\ IsCalling(all[p])
      BY <1>1, <1>2, <1>3, <1>4, <1>7
    <3>2. Len(all) = n + 1 /\ n + 1 <= n + 1
      BY <1>1
    <3> QED
      BY <3>1, <3>2
  <2>2. \A c \in 1..all[p].calls : all[p + c] = Tool(all[p].id, c)
    BY <1>4, <1>6, <1>7
  <2>3. all \in Seq(Message)
    BY <1>1
  <2>4. SoundUpTo(all, p + all[p].calls)
    BY <1>5, <2>1, <2>2, <2>3, SoundThenGroup
  <2> QED
    BY <1>1, <1>4, <1>7, <2>1, <2>4 DEF Sound, all, n, m
<1>8. CASE d + 1 # list[p].calls
  <2>1. d + 1 < all[p].calls /\ d + 1 \in Nat /\ p \in 1..Len(all) /\ p + (d + 1) = Len(all)
    BY <1>1, <1>2, <1>3, <1>4, <1>8
  <2>2. \A k \in (p + (d + 1) + 1)..Len(all) : FALSE
    BY <1>1, <1>2
  <2>3. BrokenAt(all, p, d + 1)
    BY <1>2, <1>4, <1>5, <1>6, <2>1, <2>2 DEF BrokenAt
  <2> QED
    BY <1>1, <1>4, <1>8, <2>3 DEF all, n, m
<1> QED
  BY <1>7, <1>8

\* A summary in front moves every group by one position.
LEMMA SpeechInFront ==
    ASSUME NEW list \in Seq(Message), NEW m \in Message, Speech(m), Sound(list)
    PROVE  Sound(<<m>> \o list)
<1> DEFINE all == <<m>> \o list
           n == Len(list)
<1>1. /\ all \in Seq(Message) /\ Len(all) = n + 1 /\ n \in Nat /\ all[1] = m
      /\ \A i \in 1..n : all[i + 1] = list[i] /\ list[i] \in Message
  <2> DEFINE f == <<m>>
  <2>1. f \in Seq(Message) /\ Len(f) = 1 /\ f[1] = m
    OBVIOUS
  <2>2. n \in Nat /\ \A i \in 1..n : list[i] \in Message
    OBVIOUS
  <2> HIDE DEF f
  <2>3. /\ f \o list \in Seq(Message) /\ Len(f \o list) = Len(f) + n
        /\ \A i \in 1..(Len(f) + n) :
             (f \o list)[i] = IF i <= Len(f) THEN f[i] ELSE list[i - Len(f)]
    BY <2>1, ConcatProperties
  <2> HIDE DEF n
  <2>4. (f \o list)[1] = m
    BY <2>1, <2>2, <2>3
  <2>5. ASSUME NEW i \in 1..n PROVE (f \o list)[i + 1] = list[i]
    <3>1. i + 1 \in 1..(Len(f) + n) /\ ~(i + 1 <= Len(f)) /\ (i + 1) - Len(f) = i
      BY <2>1, <2>2
    <3> QED
      BY <2>3, <3>1
  <2> QED
    BY <2>1, <2>2, <2>3, <2>4, <2>5 DEF f
<1>n. n \in Nat
  BY <1>1
<1> HIDE DEF all, n
<1>2. SUFFICES ASSUME NEW i \in 1..(n + 1)
               PROVE  /\ IsCalling(all[i]) =>
                           /\ i + all[i].calls <= n + 1
                           /\ \A c \in 1..all[i].calls : all[i + c] = Tool(all[i].id, c)
                      /\ all[i].role = "tool" =>
                           \E h \in 1..(n + 1) : IsCalling(all[h]) /\ h < i /\ i <= h + all[h].calls
  BY <1>1 DEF Sound, SoundUpTo, all
<1>3. CASE i = 1
  BY <1>1, <1>3 DEF Speech
<1>4. CASE i # 1
  <2> DEFINE j == i - 1
  <2>1. j \in 1..n /\ i = j + 1
    BY <1>1, <1>4
  <2> HIDE DEF j
  <2>2. all[i] = list[j]
    BY <1>1, <2>1
  <2>3. ASSUME IsCalling(all[i])
        PROVE  /\ i + all[i].calls <= n + 1
               /\ \A c \in 1..all[i].calls : all[i + c] = Tool(all[i].id, c)
    <3>1. /\ list[j].calls \in Nat /\ j + list[j].calls <= n
          /\ \A c \in 1..list[j].calls : list[j + c] = Tool(list[j].id, c)
      <4>1. list[j] \in Message /\ IsCalling(list[j])
        BY <1>1, <2>1, <2>2, <2>3
      <4>2. SoundUpTo(list, n)
        BY DEF Sound, n
      <4>3. list[j].calls \in Nat
        BY <4>1, ReplyFields
      <4>4. /\ j + list[j].calls <= n
            /\ \A c \in 1..list[j].calls : list[j + c] = Tool(list[j].id, c)
        BY <2>1, <4>1, <4>2 DEF SoundUpTo
      <4> QED
        BY <4>3, <4>4
    <3>2. \A c \in 1..list[j].calls : j + c \in 1..n /\ i + c = (j + c) + 1
      BY <1>n, <2>1, <3>1
    <3>3. \A c \in 1..list[j].calls : all[i + c] = list[j + c]
      BY <1>1, <3>2
    <3> QED
      BY <1>1, <2>1, <2>2, <3>1, <3>3
  <2>4. ASSUME all[i].role = "tool"
        PROVE  \E h \in 1..(n + 1) : IsCalling(all[h]) /\ h < i /\ i <= h + all[h].calls
    <3>1. PICK g \in 1..n : IsCalling(list[g]) /\ g < j /\ j <= g + list[g].calls
      BY <2>1, <2>2, <2>4 DEF Sound, SoundUpTo, n
    <3>2. list[g].calls \in Nat /\ all[g + 1] = list[g] /\ g + 1 \in 1..(n + 1)
      <4>1. list[g] \in Message /\ all[g + 1] = list[g]
        BY <1>1
      <4> QED
        BY <1>n, <3>1, <4>1, ReplyFields
    <3>3. g + 1 < i /\ i <= (g + 1) + list[g].calls
      BY <1>n, <2>1, <3>1, <3>2
    <3> QED
      BY <3>1, <3>2, <3>3
  <2> QED
    BY <2>3, <2>4
<1> QED
  BY <1>3, <1>4

\* An abort drops a call that got no result at all, and nothing else.
LEMMA AbortKeepsShape ==
    ASSUME NEW list \in Seq(Message), Sound(list) \/ Broken(list)
    PROVE  Sound(WithoutTrailingCall(list)) \/ Broken(WithoutTrailingCall(list))
<1> DEFINE n == Len(list)
<1>1. CASE list # << >> /\ IsCalling(list[n])
  <2>1. n \in Nat \ {0} /\ list[n] \in Message /\ list[n].calls \in Nat \ {0}
    BY <1>1, EmptySeq, ReplyFields
  <2>2. ~Sound(list)
    BY <1>1, <2>1 DEF Sound, SoundUpTo
  <2>3. PICK p \in 1..n, d \in Nat : BrokenAt(list, p, d)
    BY <2>2 DEF Broken
  <2>4. p = n
    <3>1. CASE n > p + d
      BY <1>1, <2>1, <2>3, <3>1 DEF BrokenAt, Speech
    <3>2. CASE n = p + d /\ d # 0
      <4>1. list[p + d] = Tool(list[p].id, d) /\ list[n] = list[p + d]
        BY <2>3, <3>2 DEF BrokenAt
      <4> QED
        BY <1>1, <4>1, SpeechWritten
    <3> QED
      BY <2>1, <2>3, <3>1, <3>2 DEF BrokenAt
  <2> DEFINE short == SubSeq(list, 1, n - 1)
  <2>5. /\ short \in Seq(Message) /\ Len(short) = n - 1 /\ n - 1 \in Nat /\ n - 1 <= n
        /\ \A i \in 1..(n - 1) : short[i] = list[i]
    <3>1. \A i \in 1..(n - 1) : list[i] \in Message
      OBVIOUS
    <3> HIDE DEF n
    <3>2. /\ short \in Seq(Message) /\ Len(short) = (n - 1) - 1 + 1
          /\ \A i \in 1..((n - 1) - 1 + 1) : short[i] = list[1 + i - 1]
      BY <2>1, <3>1, SubSeqProperties
    <3> HIDE DEF short
    <3>3. (n - 1) - 1 + 1 = n - 1 /\ n - 1 \in Nat /\ n - 1 <= n
      BY <2>1
    <3>4. \A i \in 1..(n - 1) : 1 + i - 1 = i
      BY <2>1
    <3> QED
      BY <3>2, <3>3, <3>4
  <2>6. WithoutTrailingCall(list) = short
    BY <1>1 DEF WithoutTrailingCall
  <2>7. SoundUpTo(list, n - 1)
    BY <2>3, <2>4 DEF BrokenAt
  <2> HIDE DEF short
  <2>8. SoundUpTo(short, n - 1)
    BY <2>5, <2>7, SoundAlike
  <2> QED
    BY <2>5, <2>6, <2>8 DEF Sound
<1>2. CASE ~(list # << >> /\ IsCalling(list[n]))
  BY <1>2 DEF WithoutTrailingCall
<1> QED
  BY <1>1, <1>2

\* A call all of whose results stand behind it is answered.
LEMMA GroupAnswered ==
    ASSUME NEW list \in Seq(Message), NEW p \in 1..Len(list), IsCalling(list[p]),
           p + list[p].calls <= Len(list),
           \A c \in 1..list[p].calls : list[p + c] = Tool(list[p].id, c)
    PROVE  /\ Answered(list, p)
           /\ \A c \in 1..list[p].calls : p + c \in ResultsAfter(list, p)
<1>1. list[p] \in Message /\ list[p].calls \in Nat /\ Len(list) \in Nat /\ DOMAIN list = 1..Len(list)
  BY ReplyFields
<1>2. ASSUME NEW c \in 1..list[p].calls
      PROVE  /\ p + c \in ResultsAfter(list, p)
             /\ list[p + c].id = list[p].id /\ list[p + c].call = c
  <2>1. p + c \in DOMAIN list /\ p + c > p
    BY <1>1
  <2>2. ASSUME NEW k \in (p + 1)..(p + c) PROVE list[k].role = "tool"
    <3>1. k - p \in 1..list[p].calls /\ p + (k - p) = k
      BY <1>1
    <3>2. list[k] = Tool(list[p].id, k - p)
      BY <3>1
    <3> QED
      BY <3>2 DEF Tool
  <2>3. p + c \in ResultsAfter(list, p)
    BY <2>1, <2>2 DEF ResultsAfter
  <2>4. list[p + c] = Tool(list[p].id, c)
    OBVIOUS
  <2>5. list[p + c].id = list[p].id /\ list[p + c].call = c
    BY <2>4 DEF Tool
  <2> QED
    BY <2>3, <2>5
<1>3. \A c \in 1..list[p].calls :
        <<list[p].id, c>> \in {<<list[j].id, list[j].call>> : j \in ResultsAfter(list, p)}
  BY <1>2
<1> QED
  BY <1>2, <1>3 DEF Answered

\* _validate_sequence keeps whatever is in a complete group, and all words.
LEMMA SoundIsKept ==
    ASSUME NEW list \in Seq(Message), NEW n \in Nat, n <= Len(list), SoundUpTo(list, n),
           NEW j \in 1..n
    PROVE  Keeps(list, j)
<1>0. \A i \in 1..n : i \in 1..Len(list) /\ list[i] \in Message
  OBVIOUS
<1>1. ASSUME NEW i \in 1..n, IsCalling(list[i])
      PROVE  /\ Answered(list, i)
             /\ \A c \in 1..list[i].calls : i + c \in ResultsAfter(list, i)
  <2>1. /\ i + list[i].calls <= n
        /\ \A c \in 1..list[i].calls : list[i + c] = Tool(list[i].id, c)
    BY <1>1 DEF SoundUpTo
  <2>2. i \in 1..Len(list) /\ list[i].calls \in Nat
    BY <1>0, <1>1, ReplyFields
  <2>3. i + list[i].calls <= Len(list)
    BY <2>1, <2>2
  <2> QED
    BY <1>1, <2>1, <2>2, <2>3, GroupAnswered
<1>2. CASE IsCalling(list[j])
  <2>1. Answered(list, j) /\ list[j].role # "tool"
    BY <1>0, <1>1, <1>2, ReplyFields
  <2> QED
    BY <1>2, <2>1 DEF Keeps
<1>3. CASE list[j].role = "tool"
  <2>1. PICK h \in 1..n : IsCalling(list[h]) /\ h < j /\ j <= h + list[h].calls
    BY <1>3 DEF SoundUpTo
  <2>2. list[h].calls \in Nat
    BY <1>0, <2>1, ReplyFields
  <2>3. j - h \in 1..list[h].calls /\ h + (j - h) = j /\ h \in 1..(j - 1)
    BY <2>1, <2>2
  <2>4. j \in ResultsAfter(list, h)
    BY <1>1, <2>1, <2>3
  <2>5. \A i \in 1..(j - 1) : i \in 1..n
    OBVIOUS
  <2>6. \A i \in 1..(j - 1) : IsCalling(list[i]) => Answered(list, i)
    BY <1>1, <2>5
  <2>7. ~IsCalling(list[j])
    BY <1>3 DEF IsCalling
  <2> DEFINE calling == {i \in 1..(j - 1) : IsCalling(list[i])}
             group == {i \in calling : j \in ResultsAfter(list, i)}
  <2>8. h \in group /\ \A i \in group : Answered(list, i)
    BY <2>1, <2>3, <2>4, <2>6
  <2>9. Keeps(list, j) = \A i \in group : Answered(list, i)
    <3>1. group # {}
      BY <2>8
    <3> QED
      BY <1>3, <2>7, <3>1 DEF Keeps
  <2> QED
    BY <2>8, <2>9
<1>4. CASE ~IsCalling(list[j]) /\ list[j].role # "tool"
  BY <1>4 DEF Keeps
<1> QED
  BY <1>2, <1>3, <1>4

\* How long what is picked is.
LEMMA PickedLength ==
    ASSUME NEW list \in Seq(Message), NEW S \in SUBSET (1..Len(list))
    PROVE  Len(Picked(list, S)) = Cardinality(S)
<1>1. Len(list) \in Nat
  OBVIOUS
<1>2. Cardinality(S) \in Nat
  BY <1>1, Ranks
<1> QED
  BY <1>2 DEF Picked

\* Validation leaves a sound history as long as it is.
LEMMA SoundIsLeftAlone ==
    ASSUME NEW list \in Seq(Message), Sound(list)
    PROVE  Len(Validated(list)) = Len(list)
<1> DEFINE n == Len(list)
           S == {i \in DOMAIN list : Keeps(list, i)}
<1>1. n \in Nat /\ DOMAIN list = 1..n /\ n <= Len(list)
  OBVIOUS
<1>2. SoundUpTo(list, n)
  BY DEF Sound
<1>3. S = 1..n
  <2>1. \A j \in 1..n : Keeps(list, j)
    BY <1>1, <1>2, SoundIsKept
  <2> QED
    BY <1>1, <2>1
<1>4. Validated(list) = Picked(list, 1..n)
  BY <1>3 DEF Validated
<1>5. Len(Picked(list, 1..n)) = Cardinality(1..n)
  BY PickedLength
<1> HIDE DEF S, n
<1>6. Cardinality(1..n) = n
  BY <1>1, FS_Interval
<1> QED
  BY <1>4, <1>5, <1>6 DEF n

\* The numbers up to m without d + 1 successive ones.
LEMMA GapSize ==
    ASSUME NEW m \in Nat, NEW p \in Nat \ {0}, NEW d \in Nat, p + d <= m
    PROVE  Cardinality((1..m) \ (p..(p + d))) = m - (d + 1)
<1>1. IsFiniteSet(1..m) /\ Cardinality(1..m) = m
  BY FS_Interval
<1>2. Cardinality(p..(p + d)) = d + 1
  <2>1. p \in Int /\ p + d \in Int /\ ~(p > p + d) /\ (p + d) - p + 1 = d + 1
    OBVIOUS
  <2>2. Cardinality(p..(p + d)) = IF p > p + d THEN 0 ELSE (p + d) - p + 1
    BY <2>1, FS_Interval
  <2> QED
    BY <2>1, <2>2
<1>3. (1..m) \cap (p..(p + d)) = p..(p + d)
  OBVIOUS
<1>4. Cardinality((1..m) \ (p..(p + d))) = Cardinality(1..m) - Cardinality((1..m) \cap (p..(p + d)))
  BY <1>1, FS_Difference
<1> QED
  BY <1>1, <1>2, <1>3, <1>4

\* What validation keeps of a broken history: all but the open group.
LEMMA OpenGroupIsDropped ==
    ASSUME NEW list \in Seq(Message), NEW p, NEW d, BrokenAt(list, p, d)
    PROVE  {i \in DOMAIN list : Keeps(list, i)} = (1..Len(list)) \ (p..(p + d))
<1> DEFINE n == Len(list)
<1>1. /\ p \in 1..n /\ d \in Nat /\ p + d <= n /\ n \in Nat /\ DOMAIN list = 1..n
      /\ SoundUpTo(list, p - 1) /\ IsCalling(list[p]) /\ d < list[p].calls
      /\ \A c \in 1..d : list[p + c] = Tool(list[p].id, c)
      /\ \A k \in (p + d + 1)..n : Speech(list[k])
      /\ list[p].calls \in Nat
  BY ReplyFields DEF BrokenAt
<1>2. \A j \in 1..(p - 1) : Keeps(list, j)
  <2>1. p - 1 \in Nat /\ p - 1 <= Len(list) /\ SoundUpTo(list, p - 1)
    BY <1>1
  <2> QED
    BY <2>1, SoundIsKept
<1>3. ~Answered(list, p)
  <2> SUFFICES ASSUME Answered(list, p) PROVE FALSE
    OBVIOUS
  <2>1. d + 1 \in 1..list[p].calls
    BY <1>1
  <2>2. PICK j \in ResultsAfter(list, p) : <<list[p].id, d + 1>> = <<list[j].id, list[j].call>>
    BY <2>1 DEF Answered
  <2>3. j \in 1..n /\ j > p /\ \A k \in (p + 1)..j : list[k].role = "tool"
    BY <1>1, <2>2 DEF ResultsAfter
  <2>4. CASE j <= p + d
    <3>1. j - p \in 1..d /\ p + (j - p) = j
      BY <1>1, <2>3, <2>4
    <3>2. list[j] = Tool(list[p].id, j - p)
      BY <1>1, <3>1
    <3>3. list[j].call = j - p /\ list[j].call = d + 1
      BY <2>2, <3>2 DEF Tool
    <3> QED
      BY <1>1, <3>1, <3>3
  <2>5. CASE j > p + d
    <3>1. p + d + 1 \in (p + 1)..j /\ p + d + 1 \in (p + d + 1)..n
      BY <1>1, <2>3, <2>5
    <3>2. list[p + d + 1].role = "tool" /\ Speech(list[p + d + 1])
      BY <1>1, <2>3, <3>1
    <3> QED
      BY <3>2 DEF Speech
  <2> QED
    BY <1>1, <2>3, <2>4, <2>5
<1>4. ~Keeps(list, p)
  <2>1. list[p].role # "tool"
    BY <1>1, ReplyFields
  <2> QED
    BY <1>1, <1>3, <2>1 DEF Keeps
<1>5. ASSUME NEW i \in (p + 1)..(p + d) PROVE ~Keeps(list, i)
  <2>1. i - p \in 1..d /\ p + (i - p) = i /\ i \in 1..n /\ p \in 1..(i - 1)
    BY <1>1
  <2>2. ASSUME NEW k \in (p + 1)..i PROVE list[k].role = "tool" /\ ~IsCalling(list[k])
    <3>1. k - p \in 1..d /\ p + (k - p) = k
      BY <1>1
    <3>2. list[k] = Tool(list[p].id, k - p)
      BY <1>1, <3>1
    <3> QED
      BY <3>2, SpeechWritten
  <2>3. i \in (p + 1)..i /\ i > p
    BY <1>1
  <2>4. list[i].role = "tool" /\ ~IsCalling(list[i])
    BY <2>2, <2>3
  <2>5. p \in {h \in {g \in 1..(i - 1) : IsCalling(list[g])} : i \in ResultsAfter(list, h)}
    <3>1. i \in ResultsAfter(list, p)
      BY <1>1, <2>1, <2>2, <2>3 DEF ResultsAfter
    <3> QED
      BY <1>1, <2>1, <3>1
  <2> DEFINE group == {h \in {g \in 1..(i - 1) : IsCalling(list[g])} : i \in ResultsAfter(list, h)}
  <2>6. group # {} /\ ~\A h \in group : Answered(list, h)
    BY <1>3, <2>5
  <2> QED
    BY <2>4, <2>6 DEF Keeps
<1>6. \A k \in (p + d + 1)..n : Keeps(list, k)
  BY <1>1 DEF Keeps, Speech
<1> HIDE DEF n
<1>7. ASSUME NEW i \in 1..n PROVE Keeps(list, i) <=> i \notin p..(p + d)
  <2>1. CASE i < p
    BY <1>1, <1>2, <2>1
  <2>2. CASE i = p
    BY <1>1, <1>4, <2>2
  <2>3. CASE p < i /\ i <= p + d
    BY <1>1, <1>5, <2>3
  <2>4. CASE p + d < i
    BY <1>1, <1>6, <2>4
  <2> QED
    BY <1>1, <2>1, <2>2, <2>3, <2>4
<1> QED
  BY <1>1, <1>7 DEF n

\* Validation mends a broken history, and makes it shorter.
LEMMA BrokenIsMended ==
    ASSUME NEW list \in Seq(Message), Broken(list)
    PROVE  Sound(Validated(list)) /\ Len(Validated(list)) # Len(list)
<1> PICK p \in 1..Len(list), d \in Nat : BrokenAt(list, p, d)
  BY DEF Broken
<1> DEFINE n == Len(list)
           S == (1..n) \ (p..(p + d))
           kept == Picked(list, S)
<1>1. /\ p \in Nat \ {0} /\ d \in Nat /\ p + d <= n /\ n \in Nat /\ DOMAIN list = 1..n
      /\ SoundUpTo(list, p - 1)
      /\ \A k \in (p + d + 1)..n : Speech(list[k])
  BY DEF BrokenAt
<1>2. Validated(list) = kept
  BY OpenGroupIsDropped DEF Validated
<1>3. S \in SUBSET (DOMAIN list) /\ S \in SUBSET (1..Len(list)) /\ S \in SUBSET (1..n)
  BY <1>1
<1>4. Cardinality(S) = n - (d + 1)
  BY <1>1, GapSize
<1> HIDE DEF n
<1>5. ASSUME NEW i \in 1..(p - 1) PROVE i \in S /\ RankIn(S, i) = i
  <2>1. i \in S /\ {j \in S : j <= i} = 1..i
    BY <1>1
  <2>2. Cardinality(1..i) = i
    BY <1>1, FS_Interval
  <2> QED
    BY <2>1, <2>2 DEF RankIn
<1>14. ASSUME NEW i \in (p + d + 1)..n PROVE i \in S /\ RankIn(S, i) = i - (d + 1)
  <2>1. i \in S /\ {j \in S : j <= i} = (1..i) \ (p..(p + d)) /\ i \in Nat /\ p + d <= i
    BY <1>1
  <2>2. Cardinality((1..i) \ (p..(p + d))) = i - (d + 1)
    BY <1>1, <2>1, GapSize
  <2> QED
    BY <2>1, <2>2 DEF RankIn
<1> HIDE DEF S
<1>6. Len(kept) = n - (d + 1)
  BY <1>3, <1>4, PickedLength
<1>7. /\ kept \in Seq(Message)
      /\ \A i \in S : kept[RankIn(S, i)] = list[i]
  BY <1>3, PickedPlaces
<1> HIDE DEF kept, n
<1>8. \A i \in 1..(p - 1) : kept[i] = list[i]
  BY <1>5, <1>7
<1>9. ASSUME NEW k \in ((p - 1) + 1)..Len(kept) PROVE Speech(kept[k])
  <2>1. k + (d + 1) \in (p + d + 1)..n /\ (k + (d + 1)) - (d + 1) = k
    BY <1>1, <1>6
  <2>2. kept[k] = list[k + (d + 1)]
    BY <1>7, <1>14, <2>1
  <2> QED
    BY <1>1, <2>1, <2>2
<1>10. p - 1 \in Nat /\ p - 1 <= Len(list) /\ Len(kept) \in Nat /\ p - 1 <= Len(kept) /\ Len(kept) <= Len(kept)
  BY <1>1, <1>6 DEF n
<1>11. SoundUpTo(kept, p - 1)
  BY <1>1, <1>7, <1>8, <1>10, SoundAlike
<1>12. SoundUpTo(kept, Len(kept))
  BY <1>7, <1>9, <1>10, <1>11, SoundThenSpeech
<1>13. Len(kept) # n
  BY <1>1, <1>6
<1> QED
  BY <1>2, <1>12, <1>13 DEF Sound, n

-----------------------------------------------------------------------------
(* The history between two requests.  It is sound whenever no round is       *)
(* between the receipt of tool calls and the end of its clean-up; in between *)
(* at most one group is open, and only a stopped round leaves it open.       *)

MendingPCs == {"tools", "run", "more", "check", "abort", "validate", "replace"}

\* How far the history of a round in between may be from sound.
Fits(t) ==
    LET p == Len(responseList) - reply[t].done
    IN  /\ pc[t] \in {"tools", "run"} =>
             /\ BrokenAt(responseList, p, reply[t].done)
             /\ responseList[p] = Assistant(reply[t].id, reply[t].calls)
        /\ pc[t] \in {"more", "check"} =>
             Sound(responseList) \/ (Broken(responseList) /\ StopRequested)
        /\ pc[t] \in {"abort", "validate", "replace"} =>
             Sound(responseList) \/ Broken(responseList)

QueueOfWords == \A i \in 1..Len(responseQueue) : responseQueue[i].role = "user"

SoundInv ==
    /\ QueueOfWords
    /\ ~strayRelease =>
         /\ (\A t \in Askers : pc[t] \notin MendingPCs) => Sound(responseList)
         /\ \A t \in Askers : Fits(t)

\* Nobody is in between when nobody owns the round, or when its owner is elsewhere.
LEMMA NobodyMends ==
    ASSUME TypeInv, RoundOwnership, ~strayRelease
    PROVE  /\ ~roundActive => \A u \in Askers : pc[u] \notin MendingPCs
           /\ \A t \in Threads : Owns(t) => \A u \in Askers \ {t} : pc[u] \notin MendingPCs
<1>1. \A u \in Askers : u \in Threads /\ (pc[u] \in MendingPCs => Owns(u))
  BY DEF Threads, Owns, OwningPCs, RoundPCs, MendingPCs
<1> QED
  BY <1>1 DEF RoundOwnership, OneRoundAtATime

\* A thread moves outside the rounds, and a stop request is not taken back from
\* a round in between.
LEMMA BystanderKeepsSound ==
    ASSUME TypeInv, SoundInv, strayRelease => strayRelease', NEW t \in Threads, NEW l,
           Goto(t, l), t \in Askers => pc[t] \notin MendingPCs /\ l \notin MendingPCs,
           QueueOfWords', UNCHANGED responseList,
           \A u \in Askers \ {t} : reply'[u] = reply[u],
           ~strayRelease => \/ StopRequested => StopRequested'
                            \/ \A u \in Askers : pc[u] \notin MendingPCs
    PROVE  SoundInv'
<1> SUFFICES ASSUME ~strayRelease, ~strayRelease'
             PROVE  /\ (\A u \in Askers : pc'[u] \notin MendingPCs) => Sound(responseList)
                    /\ \A u \in Askers : Fits(u)'
  BY DEF SoundInv
<1>1. pc'[t] = l /\ \A u \in Askers \ {t} : pc'[u] = pc[u]
  BY DEF Goto, TypeInv, ControlTypeOK, Threads
<1>2. \A u \in Askers : pc'[u] \in MendingPCs <=> pc[u] \in MendingPCs
  BY <1>1
<1>3. ASSUME NEW u \in Askers PROVE Fits(u)'
  <2>1. CASE pc'[u] \notin MendingPCs
    BY <2>1 DEF Fits, MendingPCs
  <2>2. CASE pc'[u] \in MendingPCs
    <3>1. u # t /\ pc'[u] = pc[u] /\ reply'[u] = reply[u] /\ (StopRequested => StopRequested')
      BY <1>1, <1>2, <2>2
    <3>2. Fits(u)
      BY DEF SoundInv
    <3> QED
      BY <3>1, <3>2 DEF Fits
  <2> QED
    BY <2>1, <2>2
<1> QED
  BY <1>2, <1>3 DEF SoundInv

\* A thread changes the history while nobody else is in between.
LEMMA AloneKeepsSound ==
    ASSUME TypeInv, strayRelease => strayRelease', NEW t \in Threads, NEW l,
           Goto(t, l), QueueOfWords',
           ~strayRelease => \A u \in Askers \ {t} : pc[u] \notin MendingPCs,
           ~strayRelease => /\ t \in Askers => Fits(t)'
                            /\ t \notin Askers \/ l \notin MendingPCs => Sound(responseList')
    PROVE  SoundInv'
<1> SUFFICES ASSUME ~strayRelease, ~strayRelease'
             PROVE  /\ (\A u \in Askers : pc'[u] \notin MendingPCs) => Sound(responseList')
                    /\ \A u \in Askers : Fits(u)'
  BY DEF SoundInv
<1>1. pc'[t] = l /\ \A u \in Askers \ {t} : pc'[u] = pc[u]
  BY DEF Goto, TypeInv, ControlTypeOK, Threads
<1>2. \A u \in Askers \ {t} : Fits(u)'
  BY <1>1 DEF Fits, MendingPCs
<1> QED
  BY <1>1, <1>2

\* What the history looks like to the owner of the round.
LEMMA OwnersHistory ==
    ASSUME TypeInv, RoundOwnership, SoundInv, ~strayRelease, NEW t \in Askers, Owns(t)
    PROVE  /\ \A u \in Askers \ {t} : pc[u] \notin MendingPCs
           /\ pc[t] \notin MendingPCs => Sound(responseList)
           /\ Fits(t)
<1>1. \A u \in Askers \ {t} : pc[u] \notin MendingPCs
  BY NobodyMends DEF Threads
<1> QED
  BY <1>1 DEF SoundInv

\* The owner moves on, and the history stays sound.
LEMMA OwnerStaysSound ==
    ASSUME TypeInv, RoundOwnership, SoundInv, UNCHANGED strayRelease, QueueOfWords',
           NEW t \in Askers, Owns(t), NEW l, Goto(t, l), l \notin {"tools", "run"},
           ~strayRelease => Sound(responseList')
    PROVE  SoundInv'
<1>1. t \in Threads /\ pc'[t] = l
  BY DEF Goto, TypeInv, ControlTypeOK, Threads
<1>2. ~strayRelease => Fits(t)'
  BY <1>1 DEF Fits
<1>3. ~strayRelease => \A u \in Askers \ {t} : pc[u] \notin MendingPCs
  BY OwnersHistory
<1> QED
  BY <1>1, <1>2, <1>3, AloneKeepsSound

\* What joins the queue are words, and so is everything that leaves it.
LEMMA QueueGrows ==
    ASSUME HistInv, SoundInv, NEW a, responseQueue' = Append(responseQueue, User(a))
    PROVE  QueueOfWords'
<1>1. responseQueue \in Seq(Message)
  BY DEF HistInv, HistoryTypeOK
<1>2. User(a).role = "user"
  BY DEF User
<1>3. /\ Len(responseQueue') = Len(responseQueue) + 1 /\ Len(responseQueue) \in Nat
      /\ responseQueue'[Len(responseQueue) + 1] = User(a)
      /\ \A i \in 1..Len(responseQueue) : responseQueue'[i] = responseQueue[i]
  BY <1>1
<1> QED
  BY <1>2, <1>3 DEF SoundInv, QueueOfWords

\* A merge makes the queued words part of the history.
LEMMA MergeKeepsShape ==
    ASSUME HistInv, SoundInv, MergeQueue
    PROVE  /\ Sound(responseList) => Sound(responseList')
           /\ Broken(responseList) => Broken(responseList')
           /\ QueueOfWords'
<1>1. responseList \in Seq(Message) /\ responseQueue \in Seq(Message)
  BY DEF HistInv, HistoryTypeOK
<1>2. \A i \in 1..Len(responseQueue) : Speech(responseQueue[i])
  BY DEF SoundInv, QueueOfWords, Speech, IsCalling
<1>3. responseList' = responseList \o responseQueue /\ responseQueue' = << >>
  BY DEF MergeQueue
<1>4. QueueOfWords'
  BY <1>3 DEF QueueOfWords
<1> QED
  BY <1>1, <1>2, <1>3, <1>4, SpeechJoins

\* The answer to a request arrives.
LEMMA ReceiveReplyKeepsSound ==
    ASSUME TypeInv, RoundOwnership, HistInv, SoundInv, NEW t \in Askers,
           NEW n \in 0..MaxCalls, ReceiveReply(t, n)
    PROVE  SoundInv'
<1> DEFINE id == IF n = 0 THEN 0 ELSE toolReplies + 1
           l == IF n = 0 THEN "more" ELSE "tools"
<1>1. /\ t \in Threads /\ Owns(t) /\ pc[t] = "answer" /\ pc[t] \notin MendingPCs /\ Goto(t, l)
      /\ UNCHANGED <<responseQueue, strayRelease>>
      /\ responseList' = Append(responseList, Assistant(id, n))
  BY DEF Threads, ReceiveReply, StepEnds, Owns, OwningPCs, RoundPCs, MendingPCs, pastVars
<1>2. QueueOfWords' /\ responseList \in Seq(Message)
  BY <1>1 DEF SoundInv, QueueOfWords, HistInv, HistoryTypeOK
<1>3. Assistant(id, n) \in Message
  <2>1. id \in 0..MaxToolReplies
    BY BoundsAreNumbers DEF ReceiveReply, HistInv, HistoryTypeOK
  <2> QED
    BY <2>1, MessagesTyped
<1>4. reply'[t] = [id |-> id, calls |-> n, done |-> 0]
  BY DEF ReceiveReply, HistInv, HistoryTypeOK
<1>5. ~strayRelease => Sound(responseList) /\ \A u \in Askers \ {t} : pc[u] \notin MendingPCs
  BY <1>1, OwnersHistory
<1>6. CASE n = 0
  <2>1. Speech(Assistant(id, n))
    BY <1>6, SpeechWritten
  <2>2. Goto(t, "more")
    BY <1>1, <1>6
  <2> HIDE DEF id, l
  <2>3. ~strayRelease => Sound(responseList')
    BY <1>1, <1>2, <1>3, <1>5, <2>1, SpeechAppended
  <2> QED
    BY <1>1, <1>2, <2>2, <2>3, OwnerStaysSound
<1>7. CASE n # 0
  <2>1. n \in Nat \ {0} /\ l = "tools"
    BY <1>7, BoundsAreNumbers
  <2>2. IsCalling(Assistant(id, n))
    BY <2>1, SpeechWritten
  <2>3. pc'[t] = "tools"
    BY <1>1, <2>1 DEF Goto, TypeInv, ControlTypeOK
  <2>4. reply'[t].id = id /\ reply'[t].calls = n /\ reply'[t].done = 0
    BY <1>4
  <2> HIDE DEF id, l
  <2>5. ASSUME ~strayRelease PROVE Fits(t)'
    <3>1. /\ Len(responseList') = Len(responseList) + 1
          /\ responseList'[Len(responseList) + 1] = Assistant(id, n)
          /\ BrokenAt(responseList', Len(responseList) + 1, 0)
      BY <1>1, <1>2, <1>3, <1>5, <2>2, <2>5, CallAppended
    <3>2. Len(responseList') - 0 = Len(responseList) + 1
      BY <1>2, <3>1
    <3> QED
      BY <2>3, <2>4, <3>1, <3>2 DEF Fits
  <2> QED
    BY <1>1, <1>2, <1>5, <2>1, <2>5, AloneKeepsSound DEF MendingPCs
<1> QED
  BY <1>6, <1>7

\* A tool call is executed: its result joins the group of the reply.
LEMMA RunToolCallKeepsSound ==
    ASSUME TypeInv, RoundOwnership, HistInv, SoundInv, NEW t \in Askers, RunToolCall(t)
    PROVE  SoundInv'
<1> DEFINE d == reply[t].done
           p == Len(responseList) - d
           m == Tool(reply[t].id, d + 1)
           l == IF d + 1 = reply[t].calls THEN "more" ELSE "tools"
<1>1. /\ t \in Threads /\ Owns(t) /\ pc[t] = "run" /\ Goto(t, l)
      /\ UNCHANGED <<responseQueue, strayRelease>>
      /\ responseList' = Append(responseList, m)
  BY DEF Threads, RunToolCall, Owns, OwningPCs, RoundPCs, pastVars
<1>2. QueueOfWords' /\ responseList \in Seq(Message)
  BY <1>1 DEF SoundInv, QueueOfWords, HistInv, HistoryTypeOK
<1>3. /\ reply[t] \in [id : 0..MaxToolReplies, calls : 0..MaxCalls, done : 0..MaxCalls]
      /\ reply[t].id # 0 /\ reply[t].done < reply[t].calls
  BY <1>1 DEF HistInv, HistoryTypeOK, CallsLeft
<1>4. m \in Message
  <2>1. reply[t].id \in 1..MaxToolReplies /\ d + 1 \in 1..MaxCalls
    BY <1>3, BoundsAreNumbers
  <2> QED
    BY <2>1, MessagesTyped
<1>5. reply'[t].id = reply[t].id /\ reply'[t].calls = reply[t].calls /\ reply'[t].done = d + 1
  BY <1>3 DEF RunToolCall, HistInv, HistoryTypeOK
<1>6. pc'[t] = l
  BY <1>1 DEF Goto, TypeInv, ControlTypeOK
<1>7. ~strayRelease => \A u \in Askers \ {t} : pc[u] \notin MendingPCs
  BY <1>1, OwnersHistory
<1>8. ASSUME ~strayRelease PROVE Fits(t)'
  <2>1. Fits(t)
    BY <1>1, <1>8, OwnersHistory
  <2>2. BrokenAt(responseList, p, d) /\ responseList[p] = Assistant(reply[t].id, reply[t].calls)
    BY <1>1, <2>1 DEF Fits
  <2>3. responseList[p].id = reply[t].id /\ responseList[p].calls = reply[t].calls
    BY <2>2 DEF Assistant
  <2>4. d \in Nat /\ Len(responseList) \in Nat /\ p + d = Len(responseList)
        /\ (Len(responseList) + 1) - (d + 1) = p
    BY <1>2, <1>3, BoundsAreNumbers
  <2>5. m = Tool(responseList[p].id, d + 1)
    BY <2>3
  <2> HIDE DEF p, d, m, l
  <2>6. /\ Len(responseList') = Len(responseList) + 1
        /\ responseList'[p] = responseList[p]
        /\ IF d + 1 = responseList[p].calls THEN Sound(responseList')
                                            ELSE BrokenAt(responseList', p, d + 1)
    <3>1. p \in Nat /\ d \in Nat /\ p + d = Len(responseList) /\ BrokenAt(responseList, p, d)
      BY <2>2, <2>4 DEF BrokenAt
    <3>2. /\ Len(Append(responseList, m)) = Len(responseList) + 1
          /\ Append(responseList, m)[p] = responseList[p]
          /\ IF d + 1 = responseList[p].calls THEN Sound(Append(responseList, m))
                                              ELSE BrokenAt(Append(responseList, m), p, d + 1)
      <4>1. Tool(responseList[p].id, d + 1) \in Message
        BY <1>4, <2>5
      <4>2. LET all == Append(responseList, Tool(responseList[p].id, d + 1))
            IN  /\ Len(all) = Len(responseList) + 1
                /\ all[p] = responseList[p]
                /\ IF d + 1 = responseList[p].calls THEN Sound(all) ELSE BrokenAt(all, p, d + 1)
        BY <1>2, <3>1, <4>1, ResultAppended
      <4> QED
        BY <2>5, <4>2
    <3> QED
      BY <1>1, <3>2
  <2>7. Len(responseList') - reply'[t].done = p
    BY <1>5, <2>4, <2>6
  <2>8. CASE d + 1 = reply[t].calls
    <3>1. pc'[t] = "more" /\ Sound(responseList')
      BY <1>6, <2>3, <2>6, <2>8 DEF l
    <3> QED
      BY <3>1 DEF Fits
  <2>9. CASE d + 1 # reply[t].calls
    <3>1. /\ pc'[t] = "tools" /\ BrokenAt(responseList', p, reply'[t].done)
          /\ responseList'[p] = Assistant(reply'[t].id, reply'[t].calls)
      BY <1>5, <1>6, <2>2, <2>3, <2>6, <2>9 DEF l
    <3> QED
      BY <2>7, <3>1 DEF Fits
  <2> QED
    BY <2>8, <2>9
<1>9. l \in MendingPCs
  BY DEF MendingPCs
<1> HIDE DEF l
<1> QED
  BY <1>1, <1>2, <1>7, <1>8, <1>9, AloneKeepsSound

\* The steps of a round between the tool calls and the end of its clean-up.
LEMMA MendingKeepsSound ==
    ASSUME TypeInv, RoundOwnership, HistInv, CopyInv, SoundInv, NEW t \in Askers,
           \/ CheckStop(t) \/ BeginToolCall(t) \/ SkipToolCalls(t) \/ MergeQueued(t)
           \/ AbortRound(t) \/ ComputeCleaned(t) \/ ReplaceHistory(t)
    PROVE  SoundInv'
<1> USE DEF convVars, roundVars, epochVars, localVars, pastVars
<1>0. /\ t \in Threads /\ Owns(t) /\ UNCHANGED <<strayRelease, roundEpoch, stopEpoch>>
      /\ responseList \in Seq(Message)
  BY DEF Threads, CheckStop, BeginToolCall, SkipToolCalls, MergeQueued, AbortRound,
         ComputeCleaned, ReplaceHistory, Owns, OwningPCs, RoundPCs, HistInv, HistoryTypeOK
<1>a. ~strayRelease => /\ \A u \in Askers \ {t} : pc[u] \notin MendingPCs
                       /\ Fits(t)
  BY <1>0, OwnersHistory
<1>b. StopRequested' <=> StopRequested
  BY <1>0 DEF StopRequested
<1>c. \A l : Goto(t, l) => pc'[t] = l
  BY <1>0 DEF Goto, TypeInv, ControlTypeOK
<1>d. QueueOfWords
  BY DEF SoundInv
<1>1. CASE CheckStop(t)
  <2> DEFINE l == IF StopRequested THEN "abort" ELSE "send"
  <2>1. pc[t] = "check" /\ Goto(t, l) /\ UNCHANGED <<responseList, responseQueue>>
    BY <1>1 DEF CheckStop
  <2>2. QueueOfWords'
    BY <1>d, <2>1 DEF QueueOfWords
  <2>3. ASSUME ~strayRelease
        PROVE  Fits(t)' /\ (l \notin MendingPCs => Sound(responseList'))
    <3>1. Sound(responseList) \/ (Broken(responseList) /\ StopRequested)
      BY <1>a, <2>1, <2>3 DEF Fits
    <3>2. CASE StopRequested
      <4>1. pc'[t] = "abort" /\ l = "abort"
        BY <1>c, <2>1, <3>2
      <4> QED
        BY <2>1, <3>1, <4>1 DEF Fits, MendingPCs
    <3>3. CASE ~StopRequested
      <4>1. pc'[t] = "send"
        BY <1>c, <2>1, <3>3
      <4> QED
        BY <2>1, <3>1, <3>3, <4>1 DEF Fits
    <3> QED
      BY <3>2, <3>3
  <2> HIDE DEF l
  <2> QED
    BY <1>0, <1>a, <2>1, <2>2, <2>3, AloneKeepsSound
<1>2. CASE SkipToolCalls(t)
  <2>1. pc[t] = "tools" /\ Goto(t, "more") /\ StopRequested /\ UNCHANGED <<responseList, responseQueue>>
    BY <1>2 DEF SkipToolCalls
  <2>2. QueueOfWords'
    BY <1>d, <2>1 DEF QueueOfWords
  <2>3. ~strayRelease => Fits(t)'
    <3>1. ~strayRelease => Broken(responseList)
      BY <1>a, <2>1 DEF Fits, Broken, BrokenAt
    <3> QED
      BY <1>b, <1>c, <2>1, <3>1 DEF Fits
  <2> QED
    BY <1>0, <1>a, <2>1, <2>2, <2>3, AloneKeepsSound DEF MendingPCs
<1>3. CASE MergeQueued(t)
  <2> DEFINE l == IF reply[t].calls > 0 \/ responseQueue # << >> THEN "check" ELSE "validate"
  <2>1. pc[t] = "more" /\ Goto(t, l) /\ l \in {"check", "validate"} /\ MergeQueue
    BY <1>3 DEF MergeQueued
  <2> HIDE DEF l
  <2>2. /\ Sound(responseList) => Sound(responseList')
        /\ Broken(responseList) => Broken(responseList')
        /\ QueueOfWords'
    BY <2>1, MergeKeepsShape
  <2>3. ~strayRelease => Fits(t)'
    <3>1. ~strayRelease => Sound(responseList) \/ (Broken(responseList) /\ StopRequested)
      BY <1>a, <2>1 DEF Fits
    <3>2. pc'[t] \in {"check", "validate"}
      BY <1>c, <2>1
    <3> QED
      BY <1>b, <2>2, <3>1, <3>2 DEF Fits
  <2> QED
    BY <1>0, <1>a, <2>1, <2>2, <2>3, AloneKeepsSound DEF MendingPCs
<1>4. CASE AbortRound(t)
  <2>1. /\ pc[t] = "abort" /\ Goto(t, "validate") /\ UNCHANGED responseQueue
        /\ responseList' = WithoutTrailingCall(responseList)
    BY <1>4 DEF AbortRound
  <2>2. QueueOfWords'
    BY <1>d, <2>1 DEF QueueOfWords
  <2>3. ~strayRelease => Fits(t)'
    <3>1. ~strayRelease => Sound(responseList) \/ Broken(responseList)
      BY <1>a, <2>1 DEF Fits
    <3>2. ~strayRelease => Sound(responseList') \/ Broken(responseList')
      BY <1>0, <2>1, <3>1, AbortKeepsShape
    <3> QED
      BY <1>c, <2>1, <3>2 DEF Fits
  <2> QED
    BY <1>0, <1>a, <2>1, <2>2, <2>3, AloneKeepsSound DEF MendingPCs
<1>5. CASE ComputeCleaned(t)
  <2>1. pc[t] = "validate" /\ Goto(t, "replace") /\ UNCHANGED <<responseList, responseQueue>>
    BY <1>5 DEF ComputeCleaned
  <2>2. QueueOfWords'
    BY <1>d, <2>1 DEF QueueOfWords
  <2>3. ~strayRelease => Fits(t)'
    BY <1>a, <1>c, <2>1 DEF Fits
  <2> QED
    BY <1>0, <1>a, <2>1, <2>2, <2>3, AloneKeepsSound DEF MendingPCs
<1>6. CASE ReplaceHistory(t)
  <2>1. /\ pc[t] = "replace" /\ Goto(t, "leave") /\ UNCHANGED responseQueue
        /\ responseList' = IF Len(cleaned[t]) # Len(responseList) THEN cleaned[t] ELSE responseList
    BY <1>6 DEF ReplaceHistory
  <2>2. QueueOfWords'
    BY <1>d, <2>1 DEF QueueOfWords
  <2>3. ASSUME ~strayRelease PROVE Sound(responseList')
    <3>1. Sound(responseList) \/ Broken(responseList)
      BY <1>a, <2>1, <2>3 DEF Fits
    <3>2. cleaned[t] = Validated(responseList)
      BY <2>1, <2>3 DEF CopyInv
    <3> QED
      BY <1>0, <2>1, <3>1, <3>2, SoundIsLeftAlone, BrokenIsMended
  <2> QED
    BY <1>0, <2>1, <2>2, <2>3, OwnerStaysSound
<1>7. CASE BeginToolCall(t)
  <2>1. pc[t] = "tools" /\ Goto(t, "run") /\ UNCHANGED <<responseList, responseQueue, reply>>
    BY <1>7 DEF BeginToolCall
  <2>2. QueueOfWords'
    BY <1>d, <2>1 DEF QueueOfWords
  <2>3. ~strayRelease => Fits(t)'
    BY <1>a, <1>c, <2>1 DEF Fits
  <2> QED
    BY <1>0, <1>a, <2>1, <2>2, <2>3, AloneKeepsSound DEF MendingPCs
<1> QED
  BY <1>1, <1>2, <1>3, <1>4, <1>5, <1>6, <1>7

\* The steps of a question's thread keep the history sound.
LEMMA AskKeepsSound ==
    ASSUME TypeInv, RoundOwnership, HistInv, CopyInv, SoundInv, NEW t \in Askers, Ask(t)
    PROVE  SoundInv'
<1> USE DEF convVars, roundVars, epochVars, localVars, pastVars
<1>0. t \in Threads
  BY DEF Threads
<1>a. responseList \in Seq(Message)
  BY DEF HistInv, HistoryTypeOK
<1>b. UNCHANGED responseQueue => QueueOfWords'
  BY DEF SoundInv, QueueOfWords
<1>c. UNCHANGED <<stopEpoch, roundEpoch>> => (StopRequested => StopRequested')
  BY DEF StopRequested
<1>d. ASSUME Owns(t), pc[t] \notin MendingPCs
      PROVE  ~strayRelease => Sound(responseList) /\ \A u \in Askers : pc[u] \notin MendingPCs
  BY <1>d, OwnersHistory
<1>e. ~strayRelease /\ ~roundActive => \A u \in Askers : pc[u] \notin MendingPCs
  BY NobodyMends
<1>f. \A a \in Authors : User(a) \in Message /\ Speech(User(a))
  BY MessagesTyped, SpeechWritten
<1>1. CASE AskClaims(t)
  BY <1>0, <1>1, <1>b, <1>e, BystanderKeepsSound DEF AskClaims, ClaimRound, MendingPCs
<1>2. CASE AskFindsRound(t)
  BY <1>0, <1>2, <1>b, <1>c, BystanderKeepsSound DEF AskFindsRound, MendingPCs
<1>3. CASE ForcedAdd(t)
  <2>1. QueueOfWords'
    BY <1>3, QueueGrows DEF ForcedAdd
  <2> QED
    BY <1>0, <1>3, <1>c, <2>1, BystanderKeepsSound DEF ForcedAdd, MendingPCs
<1>4. CASE QueuePendingAsk(t)
  BY <1>0, <1>4, <1>b, <1>c, BystanderKeepsSound DEF QueuePendingAsk, MendingPCs
<1>5. CASE AddQuestion(t)
  <2> DEFINE l == IF Len(batch[t]) = 1 THEN "enter" ELSE "add"
             q == Head(batch[t])
  <2>1. /\ Owns(t) /\ pc[t] \notin MendingPCs /\ Goto(t, l) /\ l \notin {"tools", "run"}
        /\ UNCHANGED <<responseQueue, strayRelease>>
        /\ responseList' = Append(responseList, User(q))
    BY <1>5 DEF AddQuestion, Owns, OwningPCs, MendingPCs
  <2>2. q \in Authors
    <3>1. batch[t] \in Seq(Askers) /\ batch[t] # << >>
      BY <1>5 DEF AddQuestion, TypeInv, ControlTypeOK, BatchInv
    <3> QED
      BY <3>1, HeadTailProperties DEF Authors
  <2> HIDE DEF l, q
  <2>3. ~strayRelease => Sound(responseList')
    BY <1>a, <1>d, <1>f, <2>1, <2>2, SpeechAppended
  <2> QED
    BY <1>b, <2>1, <2>3, OwnerStaysSound
<1>6. CASE EnterRound(t)
  BY <1>0, <1>6, <1>b, <1>c, BystanderKeepsSound DEF EnterRound, MendingPCs
<1>7. CASE BeginRound(t)
  <2>1. Owns(t) /\ pc[t] \notin MendingPCs
    BY <1>7 DEF BeginRound, Owns, OwningPCs, MendingPCs
  <2> QED
    BY <1>0, <1>7, <1>b, <1>d, <2>1, BystanderKeepsSound DEF BeginRound, MendingPCs
<1>8. CASE MergeLeftover(t)
  <2>1. /\ Owns(t) /\ pc[t] \notin MendingPCs /\ Goto(t, "check") /\ MergeQueue
        /\ UNCHANGED strayRelease
    BY <1>8 DEF MergeLeftover, Owns, OwningPCs, RoundPCs, MendingPCs
  <2>2. QueueOfWords' /\ (~strayRelease => Sound(responseList'))
    BY <1>d, <2>1, MergeKeepsShape
  <2> QED
    BY <2>1, <2>2, OwnerStaysSound
<1>9. CASE SendRequest(t)
  <2>1. /\ Owns(t) /\ pc[t] \notin MendingPCs /\ Goto(t, "wait")
        /\ UNCHANGED <<responseQueue, strayRelease>>
        /\ \/ responseList' = responseList
           \/ responseList' = <<Summary(CarriedBy(handOff))>> \o responseList
    BY <1>9 DEF SendRequest, Owns, OwningPCs, RoundPCs, MendingPCs
  <2>2. Summary(CarriedBy(handOff)) \in Message /\ Speech(Summary(CarriedBy(handOff)))
    <3>1. CarriedBy(handOff) \subseteq Authors
      BY WordsOfList DEF HistInv, HistoryTypeOK
    <3> QED
      BY <3>1, MessagesTyped, SpeechWritten
  <2>3. ~strayRelease => Sound(responseList')
    BY <1>a, <1>d, <2>1, <2>2, SpeechInFront
  <2> QED
    BY <1>b, <2>1, <2>3, OwnerStaysSound
<1>10. CASE \E n \in 0..MaxCalls : ReceiveReply(t, n)
  BY <1>10, ReceiveReplyKeepsSound
<1>11. CASE DiscardReply(t)
  <2>1. /\ Owns(t) /\ pc[t] \notin MendingPCs /\ Goto(t, "abort")
        /\ UNCHANGED <<responseList, responseQueue, strayRelease>>
    BY <1>11 DEF DiscardReply, Owns, OwningPCs, RoundPCs, MendingPCs
  <2> QED
    BY <1>b, <1>d, <2>1, OwnerStaysSound
<1>12. CASE RequestFails(t)
  BY <1>0, <1>12, <1>b, <1>c, BystanderKeepsSound DEF RequestFails, MendingPCs
<1>13. CASE RunToolCall(t)
  BY <1>13, RunToolCallKeepsSound
<1>14. CASE \/ CheckStop(t) \/ BeginToolCall(t) \/ SkipToolCalls(t) \/ MergeQueued(t)
            \/ AbortRound(t) \/ ComputeCleaned(t) \/ ReplaceHistory(t)
  BY <1>14, MendingKeepsSound
<1>15. CASE LeaveRound(t)
  <2>1. \A u \in Askers \ {t} : reply'[u] = reply[u]
    BY <1>15 DEF LeaveRound, HistInv, HistoryTypeOK
  <2> QED
    BY <1>0, <1>15, <1>b, <1>c, <2>1, BystanderKeepsSound DEF LeaveRound, MendingPCs
<1>16. CASE TakeNextBatch(t) \/ TakeQueueRound(t)
  <2>1. /\ Owns(t) /\ pc[t] \notin MendingPCs /\ \E l \in {"add", "enter"} : Goto(t, l)
        /\ UNCHANGED <<responseList, responseQueue, reply, strayRelease>>
    BY <1>16 DEF TakeNextBatch, TakeQueueRound, Owns, OwningPCs, RoundPCs, MendingPCs
  <2> QED
    BY <1>0, <1>b, <1>d, <2>1, BystanderKeepsSound DEF MendingPCs
<1>17. CASE FinishSequence(t)
  BY <1>0, <1>17, <1>b, <1>c, BystanderKeepsSound DEF FinishSequence, MendingPCs
<1>18. CASE ReleaseAgain(t)
  BY <1>0, <1>18, <1>b, <1>c, BystanderKeepsSound DEF ReleaseAgain, ReleaseRound, MendingPCs
<1>19. CASE AcceptReply(t)
  BY <1>0, <1>19, <1>b, <1>c, BystanderKeepsSound DEF AcceptReply, MendingPCs
<1> QED
  BY <1>1, <1>2, <1>3, <1>4, <1>5, <1>6, <1>7, <1>8, <1>9, <1>10, <1>11, <1>12,
     <1>13, <1>14, <1>15, <1>16, <1>17, <1>18, <1>19 DEF Ask

\* So do those of the other commands.
LEMMA OtherKeepsSound ==
    ASSUME TypeInv, RoundOwnership, CtxInv, StopInv, HistInv, SoundInv, OtherCommandStep
    PROVE  SoundInv'
<1> USE DEF convVars, roundVars, epochVars, localVars, pastVars
<1>0. /\ Stops \cup Relays \cup Switches \cup Compacts \subseteq Threads
      /\ (Stops \cup Relays \cup Switches \cup Compacts) \cap Askers = {}
      /\ Relays \subseteq Authors
  BY KindsDisjoint DEF Threads, Authors
<1>a. responseList \in Seq(Message)
  BY DEF HistInv, HistoryTypeOK
<1>b. UNCHANGED responseQueue => QueueOfWords'
  BY DEF SoundInv, QueueOfWords
<1>c. UNCHANGED <<stopEpoch, roundEpoch>> => (StopRequested => StopRequested')
  BY DEF StopRequested
<1>e. ~strayRelease /\ ~roundActive => \A u \in Askers : pc[u] \notin MendingPCs
  BY NobodyMends
<1>1. ASSUME NEW s \in Stops, StopFindsNothing(s) PROVE SoundInv'
  BY <1>0, <1>1, <1>b, <1>c, BystanderKeepsSound DEF StopFindsNothing
<1>2. ASSUME NEW s \in Stops, RequestStop(s) PROVE SoundInv'
  <2>1. StopRequested'
    <3>1. /\ stopEpoch' = stopEpoch + 1 /\ roundEpoch' = roundEpoch /\ roundEpoch <= stopEpoch
          /\ roundEpoch \in Nat /\ stopEpoch \in Nat
      BY <1>2 DEF RequestStop, StopInv, TypeInv, ControlTypeOK
    <3>2. roundEpoch' # stopEpoch'
      BY <3>1
    <3> QED
      BY <3>2 DEF StopRequested
  <2> QED
    BY <1>0, <1>2, <1>b, <2>1, BystanderKeepsSound DEF RequestStop
<1>3. ASSUME NEW r \in Relays, RelayToHistory(r) PROVE SoundInv'
  <2>1. /\ ~CtxFree /\ Goto(r, "done") /\ UNCHANGED <<responseQueue, strayRelease>>
        /\ responseList' = Append(responseList, User(r))
    BY <1>3 DEF RelayToHistory, CtxFree
  <2>2. ~strayRelease => \A u \in Askers : pc[u] \notin MendingPCs
    BY <2>1 DEF CtxInv, Owns, OwningPCs, RoundPCs, MendingPCs
  <2>3. User(r) \in Message /\ Speech(User(r))
    BY <1>0, MessagesTyped, SpeechWritten
  <2>4. ~strayRelease => Sound(responseList')
    BY <1>a, <2>1, <2>2, <2>3, SpeechAppended DEF SoundInv
  <2> QED
    BY <1>0, <1>b, <2>1, <2>2, <2>4, AloneKeepsSound
<1>4. ASSUME NEW r \in Relays, RelayFindsRound(r) PROVE SoundInv'
  BY <1>0, <1>4, <1>b, <1>c, BystanderKeepsSound DEF RelayFindsRound
<1>5. ASSUME NEW r \in Relays, ForcedAdd(r) PROVE SoundInv'
  <2>1. QueueOfWords'
    BY <1>5, QueueGrows DEF ForcedAdd
  <2> QED
    BY <1>0, <1>5, <1>c, <2>1, BystanderKeepsSound DEF ForcedAdd
<1>6. ASSUME NEW w \in Switches, SwitchStarts(w) PROVE SoundInv'
  BY <1>0, <1>6, <1>b, <1>c, BystanderKeepsSound DEF SwitchStarts
<1>7. ASSUME NEW w \in Switches, SwitchWaits(w) PROVE SoundInv'
  BY <1>0, <1>7, <1>b, <1>c, BystanderKeepsSound DEF SwitchWaits
<1>8. ASSUME NEW w \in Switches, SwitchRetries(w) PROVE SoundInv'
  BY <1>0, <1>8, <1>b, <1>c, BystanderKeepsSound DEF SwitchRetries
<1>9. ASSUME NEW w \in Switches, SwitchClaims(w) PROVE SoundInv'
  BY <1>0, <1>9, <1>b, <1>e, BystanderKeepsSound DEF SwitchClaims, ClaimRound
<1>10. ASSUME NEW w \in Switches, TakeSnapshot(w) PROVE SoundInv'
  BY <1>0, <1>10, <1>b, <1>c, BystanderKeepsSound DEF TakeSnapshot
<1>11. ASSUME NEW w \in Switches, ClearConversation(w) PROVE SoundInv'
  <2>1. /\ w \in Threads /\ Owns(w) /\ Goto(w, "giveBack") /\ UNCHANGED strayRelease
        /\ responseList' = << >> /\ responseQueue' = << >>
    BY <1>0, <1>11 DEF ClearConversation, Owns, OwningPCs
  <2>2. QueueOfWords' /\ Sound(responseList')
    BY <2>1 DEF QueueOfWords, Sound, SoundUpTo
  <2>3. ~strayRelease => \A u \in Askers \ {w} : pc[u] \notin MendingPCs
    BY <2>1, NobodyMends
  <2> QED
    BY <1>0, <2>1, <2>2, <2>3, AloneKeepsSound
<1>12. ASSUME NEW c \in Compacts, CompactFindsRound(c) PROVE SoundInv'
  BY <1>0, <1>12, <1>b, <1>c, BystanderKeepsSound DEF CompactFindsRound
<1>13. ASSUME NEW c \in Compacts, CompactClaims(c) PROVE SoundInv'
  BY <1>0, <1>13, <1>b, <1>e, BystanderKeepsSound DEF CompactClaims, ClaimRound
<1>14. ASSUME NEW t \in Switches \cup Compacts, GiveBack(t) PROVE SoundInv'
  BY <1>0, <1>14, <1>b, <1>c, BystanderKeepsSound DEF GiveBack, ReleaseRound
<1>15. ASSUME NEW r \in Relays, RelayFindsIdle(r) PROVE SoundInv'
  BY <1>0, <1>15, <1>b, <1>c, BystanderKeepsSound DEF RelayFindsIdle
<1> QED
  BY <1>1, <1>2, <1>3, <1>4, <1>5, <1>6, <1>7, <1>8, <1>9, <1>10, <1>11, <1>12,
     <1>13, <1>14, <1>15 DEF OtherCommandStep, Stop, Relay, Switch, Compact

\* SoundInv is inductive relative to the types, the ownership, the lock, the stops
\* and the fresh copies.
LEMMA NextKeepsSound ==
    /\ TypeInv /\ RoundOwnership /\ CtxInv /\ StopInv /\ HistInv /\ CopyInv /\ SoundInv
    /\ [Next]_vars
    => SoundInv'
<1> SUFFICES ASSUME TypeInv, RoundOwnership, CtxInv, StopInv, HistInv, CopyInv, SoundInv,
                    [Next]_vars
             PROVE  SoundInv'
  OBVIOUS
<1>1. CASE UNCHANGED vars
  BY <1>1 DEF SoundInv, QueueOfWords, Fits, StopRequested, vars, convVars, epochVars,
              localVars, pastVars
<1>2. CASE \E t \in Askers : Ask(t)
  BY <1>2, AskKeepsSound
<1>3. CASE OtherCommandStep
  BY <1>3, OtherKeepsSound
<1> QED
  BY <1>1, <1>2, <1>3 DEF Next, OtherCommandStep, Terminated

\* Every request of a conversation carries a history the provider accepts: each
\* tool call is directly followed by its results, and each result has its call,
\* whatever stops, forced questions, relayed messages, failed requests, switches
\* and summaries came before -- unless a stray release_round lets two threads in.
THEOREM RequestsWellFormed == Spec => []RequestsAreWellFormed
<1> DEFINE Inv == TypeInv /\ RoundOwnership /\ CtxInv /\ StopInv /\ HistInv /\ LossInv
                /\ SoundInv
<1>1. Init => Inv
  <2>1. Init => RoundOwnership
    BY DEF Init, RoundOwnership, OneRoundAtATime, Owns, OwningPCs, RoundPCs
  <2>2. Init => StopInv
    BY DEF Init, StopInv
  <2>3. Init => SoundInv
    BY DEF Init, SoundInv, QueueOfWords, Sound, SoundUpTo, Fits, Threads
  <2> QED
    BY <2>1, <2>2, <2>3, InitTypeInv, InitCtx, InitHistInv, InitLoss
<1>2. Inv /\ [Next]_vars => Inv'
  BY NextTypeInv, NextKeepsOwnership, NextKeepsCtx, NextKeepsStop, NextHistInv, NextKeepsLoss,
     NextKeepsSound DEF LossInv
<1>3. Inv => RequestsAreWellFormed
  <2> SUFFICES ASSUME Inv, ~strayRelease, NEW t \in Askers, pc[t] = "send"
               PROVE  ToolGroupsIntact(responseList)
    BY DEF RequestsAreWellFormed
  <2>1. Owns(t) /\ pc[t] \notin MendingPCs
    BY DEF Owns, OwningPCs, RoundPCs, MendingPCs
  <2>2. Sound(responseList)
    BY <2>1, OwnersHistory
  <2>3. responseList \in Seq(Message)
    BY DEF HistInv, HistoryTypeOK
  <2> QED
    BY <2>2, <2>3, SoundIsIntact
<1> QED
  BY <1>1, <1>2, <1>3, PTL DEF Spec

=============================================================================
