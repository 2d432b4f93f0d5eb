------------------------ MODULE MCConversationRounds ------------------------
(* Instances of ConversationRounds for TLC: the command threads are model    *)
(* values; those of one kind are interchangeable.                            *)
EXTENDS ConversationRounds, TLC

Symmetry == Permutations(Plain) \cup Permutations(Forced) \cup Permutations(Relays)
              \cup Permutations(Stops) \cup Permutations(Switches)

(* Which commands are typed together: one entry per mix, in the order        *)
(* <<plain, forced, stops, relays, switches, compacts>>.                     *)
Mixes == { <<2, 1, 1, 0, 0, 0>>,    \* a stop with questions queued both ways
           <<3, 0, 0, 0, 0, 0>>,    \* several questions merged into a round
           <<1, 1, 1, 1, 0, 0>>,    \* messages relayed into a stopped round
           <<1, 1, 0, 0, 1, 0>>,    \* a switch beside a question and a forced one
           <<1, 0, 0, 1, 1, 1>>,    \* a switch and a compaction at any time
           <<1, 0, 0, 1, 2, 0>> }   \* a second switch

Typed(kind) == Cardinality({t \in kind : pc[t] # "idle"})
Within(m) ==
    /\ Typed(Plain)  <= m[1] /\ Typed(Forced)   <= m[2] /\ Typed(Stops)    <= m[3]
    /\ Typed(Relays) <= m[4] /\ Typed(Switches) <= m[5] /\ Typed(Compacts) <= m[6]
OneMix == \E m \in Mixes : Within(m)

(* For liveness: all queues with a stop, or a waiting switch in competition. *)
LiveMixes == {<<2, 1, 1, 0, 0, 0>>, <<2, 0, 0, 0, 1, 0>>, <<1, 0, 0, 1, 1, 1>>}
OneLiveMix == \E m \in LiveMixes : Within(m)

=============================================================================
