----------------------------- MODULE MCContext -----------------------------
(* What TLC explores of the two ways a question is asked: a conversation     *)
(* with a history (ContextWindow) or a player's stateless questions          *)
(* (StatelessAsk).  They share nothing, so a behaviour is one of the two.    *)
EXTENDS ContextWindow, StatelessAsk, TLC

CONSTANTS a, b, c, relay, compact, old1, old2, q1, q2, stop

MCOld == <<old1, old2>>

Begun == {t \in Asks : at[t] # "idle"}
\* Two questions at full length, or three with an answer each in a history that
\* nobody compacts by command.
Within == Cardinality(Begun) = 3 => /\ \A t \in Asks : answers[t] <= 1
                                    /\ \A t \in Compacts : at[t] = "idle"
                                    /\ Len(responseList) <= 7
                                    /\ User(old2) \notin Words(responseList)

Same == Permutations({a, b, c}) \cup Permutations({q1, q2})

\* The loop of _split_rounds, message by message: system messages wait for the
\* round behind them.  Opens and NewestFrom cut where it does.
AddToRounds(acc, m) ==
    LET n == Len(acc.rounds)
        opens == [waiting |-> << >>, rounds |-> Append(acc.rounds, acc.waiting \o <<m>>)]
        joins == [waiting |-> << >>,
                  rounds |-> [acc.rounds EXCEPT ![n] = @ \o acc.waiting \o <<m>>]]
    IN  CASE m.role = "system" -> [acc EXCEPT !.waiting = Append(@, m)]
          [] m.role = "user" /\ (n = 0 \/ acc.waiting # << >>) -> opens
          [] m.role = "user" /\ n > 0 /\ acc.waiting = << >> ->
                 IF Last(acc.rounds[n]).role = "user" THEN joins ELSE opens
          [] OTHER -> IF n > 0 THEN joins ELSE opens

SplitRounds(list) ==
    LET all == FoldLeft(AddToRounds, [waiting |-> << >>, rounds |-> << >>], list)
        n == Len(all.rounds)
    IN  IF n = 0 THEN << >> ELSE [all.rounds EXCEPT ![n] = @ \o all.waiting]

ASSUME RoundsAreCutRight ==
    \A len \in 0..6 : \A roles \in [1..len -> {"system", "user", "assistant"}] :
        LET list == [i \in 1..len |-> [role |-> roles[i], nth |-> i]]
            split == SplitRounds(list)
            n == Len(split)
        IN  /\ Cardinality(Opens(list)) = n
            /\ \A k \in 1..n : /\ Newest(list, k) = FlattenSeq(SubSeq(split, n - k + 1, n))
                               /\ SubSeq(list, 1, NewestFrom(list, k) - 1)
                                    = FlattenSeq(SubSeq(split, 1, n - k))

Init == CtxInit /\ NhInit
Next == \/ tracked = Nobody /\ newest = Nobody /\ CtxNext /\ UNCHANGED nhVars
        \/ at = [t \in Commands |-> "idle"] /\ NhNext /\ UNCHANGED ctxVars
Spec == Init /\ [][Next]_<<ctxVars, nhVars>>

TypeOK == CtxTypeOK /\ NhTypeOK
=============================================================================
